---------------------------- MODULE MCCertCache ----------------------------
(* Two handshakes share the certificate cache.  One server chain of two    *)
(* certificates; clients differ in the hash lists they send.               *)
EXTENDS CertCache, BlockedFrame

Chain == << <<"c1", "c1x">>, <<"c2">> >>

(* Inputs whose concatenations differ.                                     *)
MCInputs ==
    { [chain |-> Chain, common |-> <<>>,    cached |-> <<>>],
      [chain |-> Chain, common |-> <<"s">>, cached |-> <<>>],
      [chain |-> Chain, common |-> <<"s">>, cached |-> <<"k">>] }

(* Adds a client that sends as cached hash what another sends as a common  *)
(* set hash: both write the same bytes into the hasher.                    *)
MCInputsAmbiguous ==
    MCInputs \cup { [chain |-> Chain, common |-> <<>>, cached |-> <<"s">>] }

MCGoroutines == {"g1", "g2"}

MCStreamIDs == {0, 1, 255, 256, 65535, 2^24, 2147483647}
MCTrailers == { <<>>, <<5, 0>> }

(* The cache and the frame codec share no state, so the order of their    *)
(* steps changes nothing either can reach: the frame codec runs once the   *)
(* handshakes have made their calls, which keeps the state space a sum     *)
(* rather than a product of the two.                                       *)
CacheDone == calls = MaxCalls /\ \A g \in Goroutines : pc[g] = "idle"

MCInit == Init /\ BInit
MCNext == (Next /\ UNCHANGED frameVars) \/ (CacheDone /\ BNext /\ UNCHANGED vars)
MCSpec == MCInit /\ [][MCNext]_<<vars, frameVars>>
=============================================================================
