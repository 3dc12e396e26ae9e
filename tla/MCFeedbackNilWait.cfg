\* A StartSendFeedback whose configuration fails, then any feedback call.
CONSTANTS
    c1 = c1
    c2 = c2
    NoCaller = NoCaller
    Callers <- OneCaller
    MaxStarts = 3

SPECIFICATION Spec


INVARIANT NeverPanics
