CONSTANTS
    Goroutines <- MCGoroutines
    Inputs <- MCInputs
    NumCachedCertificates = 1
    MaxCalls = 5
    StreamIDs <- MCStreamIDs
    Trailers <- MCTrailers
SPECIFICATION MCSpec
INVARIANT TypeOK
INVARIANT ResultMatchesInput
INVARIANT BlockedRoundTrip
\* The handshakes stop calling once MaxCalls calls are made.
CHECK_DEADLOCK FALSE
