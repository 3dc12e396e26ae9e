----------------------------- MODULE MCFeedback -----------------------------
(* Model-checking instance of Feedback.                                    *)
EXTENDS Feedback

CONSTANTS c1, c2

OneCaller == {c1}
TwoCallers == {c1, c2}

=============================================================================
