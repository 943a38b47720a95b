------------------------------ MODULE MCHandle ------------------------------
(* Two clients of one web server whose connections share a bucket; the     *)
(* server also numbers its segments with values the client uses, and a FIN *)
(* that carries data.                                                      *)
EXTENDS Handle

CONSTANTS c1, c2, web

MCIsPort80(e) == e = web
MCHash(a, b) == 0

P(src, dst, seq, over, data) ==
    [src |-> src, dst |-> dst, seq |-> seq, over |-> over, data |-> data]

MCPackets ==
    { P(c1, web, 1, FALSE, "req"),  P(c1, web, 2, FALSE, "req"),
      P(web, c1, 1, FALSE, "rsp"),  P(c1, web, 2, FALSE, "none"),
      P(web, c1, 2, TRUE,  "rsp"),
      P(c2, web, 1, FALSE, "req"),  P(web, c2, 2, FALSE, "rsp") }

MCDecodes(req, rsp) == req[1].pkt.data = "req" /\ rsp[1].pkt.data = "rsp"
=============================================================================
