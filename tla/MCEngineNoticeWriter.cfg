CONSTANTS
    c1 = c1
    c2 = c2
    NoCaller = NoCaller
    Callers <- MCCallers
    MaxStarts = 2
    AuthInputs <- MCAuthInputs
    DNSInputs <- MCDNSInputs

SPECIFICATION Spec

INVARIANT NoticeWriterReleased
