-------------------------------- MODULE MCBasp --------------------------------
(* n3 dials both others and n1 dials them too: handshakes of n1 and n3 may *)
(* cross, n1 may dial n3 again when its actor has ended, and the handles   *)
(* that n3 and n2 pass on come by connections other than the route they    *)
(* lead to, or by the only one.                                            *)
EXTENDS Basp

CONSTANTS n1, n2, n3, none

MCDial == {<<n3, n1>>, <<n3, n2>>, <<n1, n2>>, <<n1, n3>>}
MCTalk == {<<n3, n2, n1>>, <<n2, n1, n3>>}

(* Bound: no third connection once one has been lost. *)
Bounded == lost # {} => Len(ends) <= 2
=============================================================================
