------------------------------ MODULE ByteLog ------------------------------
(***************************************************************************)
(* What a CBuffer promises its users (CHandle appends the payload of a     *)
(* direction to it, CHttpParse reads it and empties it): the bytes         *)
(* appended since the last reset, in order.  An append may be refused as   *)
(* a whole, which leaves the log as it was; nothing is ever split,         *)
(* reordered or overwritten.                                               *)
(***************************************************************************)
EXTENDS Sequences

CONSTANT Segment      \* the byte sequences one packet may carry

VARIABLE log

Init == log = << >>

Accept == \E s \in Segment : log' = log \o s

Clear == log' = << >>

Next == Accept \/ Clear

Spec == Init /\ [][Next]_log
=============================================================================
