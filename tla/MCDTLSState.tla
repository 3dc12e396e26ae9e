---------------------------- MODULE MCDTLSState ----------------------------
(* Model values and bounds for DTLSState: one negotiated suite beside one  *)
(* other known ID, one exporter label and one reserved label.              *)
EXTENDS DTLSState

CONSTANTS cr, sr, zr, ms, nil, s1, s2, certs, hint, sid, lbl, lblReserved

MCSuiteIDs == {s1, s2}
MCLabels == {lbl, lblReserved}
MCReservedLabels == {lblReserved}
=============================================================================
