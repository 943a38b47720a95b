--------------------------- MODULE MCConversation ---------------------------
EXTENDS Conversation

CONSTANTS c1, c2, web

MCIsPort80(e) == e = web
MCHash(a, b) == 0
MCDecodes(req, rsp) == TRUE
MCOther == [src |-> c2, dst |-> web, seq |-> 1, over |-> FALSE, data |-> NoData]
MCSeqNum == 0 .. 10 * Exchanges + Parts
=============================================================================
