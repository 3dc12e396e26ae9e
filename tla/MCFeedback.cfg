\* One host thread driving the feedback API, as the host apps do.
CONSTANTS
    c1 = c1
    c2 = c2
    NoCaller = NoCaller
    Callers <- OneCaller
    MaxStarts = 5

SPECIFICATION Spec

INVARIANT UploadStoppable

PROPERTY FeedbackCallsReturn
