CONSTANTS
    Goroutines <- MCGoroutines
    Inputs <- MCInputsAmbiguous
    NumCachedCertificates = 1
    MaxCalls = 5
    StreamIDs <- MCStreamIDs
    Trailers <- MCTrailers
SPECIFICATION MCSpec
INVARIANT ResultMatchesInput
\* The handshakes stop calling once MaxCalls calls are made.
CHECK_DEADLOCK FALSE
