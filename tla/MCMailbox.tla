----------------------------- MODULE MCMailbox -----------------------------
(* Two writers of two messages each over three addresses: one address is   *)
(* used again while a writer holds a stale one.                            *)
EXTENDS Mailbox

CONSTANTS w1, w2, n1, n2, n3
=============================================================================
