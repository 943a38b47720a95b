---------------------------- MODULE MCHttpBuffer ----------------------------
(* A block of two bytes, segments of one to three bytes over two data      *)
(* bytes: every combination of fitting, growing, shrinking and trimming.   *)
EXTENDS HttpBuffer

MCSegment == {<<"a">>, <<"b">>, <<"a", "b">>, <<"b", "b", "a">>}
=============================================================================
