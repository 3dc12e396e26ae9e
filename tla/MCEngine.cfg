CONSTANTS
    c1 = c1
    c2 = c2
    NoCaller = NoCaller
    Callers <- MCCallers
    MaxStarts = 3
    AuthInputs <- MCAuthInputs
    DNSInputs <- MCDNSInputs

SPECIFICATION Spec

INVARIANT StoreOpenWhileTasksLive
INVARIANT SingleEngine
INVARIANT ConstructOnlyWithCandidates

PROPERTY EveryCallReturns
PROPERTY RefinesLifecycle
INVARIANT ProviderQuiescentAfterStop
INVARIANT ListsDecoded
