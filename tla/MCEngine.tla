------------------------------ MODULE MCEngine ------------------------------
(* Model-checking instance of Engine: two host threads, three Starts.      *)
EXTENDS Engine

CONSTANTS c1, c2

MCCallers == {c1, c2}

(* "", "a b", and " a" (an empty first authorization).                     *)
MCAuthInputs == { << >>, << "a", " ", "b" >>, << " ", "a" >> }

(* "", "d,e", and "," (two empty server names).                            *)
MCDNSInputs == { << >>, << "d", ",", "e" >>, << "," >> }

=============================================================================
