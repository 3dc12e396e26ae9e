\* Two epoch changes so a save can straddle one; two records per epoch;
\* two restarts so a resumed peer can be saved and resumed again.
CONSTANTS
    ClientRandom = cr
    ServerRandom = sr
    NoRandom = zr
    MasterSecret = ms
    Nil = nil
    Suite = s1
    Certs = certs
    Hint = hint
    SessionID = sid
    cr = cr  sr = sr  zr = zr  ms = ms  nil = nil  s1 = s1  s2 = s2
    certs = certs  hint = hint  sid = sid  lbl = lbl  lblReserved = lblReserved
    SuiteIDs <- MCSuiteIDs
    Labels <- MCLabels
    ReservedLabels <- MCReservedLabels
    MaxEpoch = 2
    MaxSeq = 2
    MaxResumes = 2
SPECIFICATION Spec
INVARIANT SerializeNeverPanics
\* A session may go quiet for good: the bounded steps run out.
CHECK_DEADLOCK FALSE
