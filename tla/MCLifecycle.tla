----------------------------- MODULE MCLifecycle -----------------------------
(* Two actors that link to, unlink from and monitor each other, and the    *)
(* program that registers them.                                            *)
EXTENDS Lifecycle

CONSTANTS a1, a2, program, none
=============================================================================
