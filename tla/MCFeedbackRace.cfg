\* Two host threads calling StartSendFeedback concurrently.
CONSTANTS
    c1 = c1
    c2 = c2
    NoCaller = NoCaller
    Callers <- TwoCallers
    MaxStarts = 3

SPECIFICATION Spec


INVARIANT UploadStoppable
