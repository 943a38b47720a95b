---------------------------- MODULE Conversation ----------------------------
(***************************************************************************)
(* Handle fed with the capture of one well-behaved HTTP connection: the    *)
(* handshake, then exchanges of one request and an answer of Parts         *)
(* segments, the client waiting for the whole answer before it asks again  *)
(* or closes.  The capture may hold a segment twice in a row (a            *)
(* retransmission) and bare acknowledgements anywhere, and segments of     *)
(* another connection.  Nothing of an exchange is captured more than       *)
(* MaxDelay seconds after what came before it; between exchanges any time  *)
(* may pass.                                                               *)
(*                                                                         *)
(* The capture is a process of its own (the peers and the wire), external  *)
(* to the source.  main reads it frame by frame into one buffer and passes *)
(* every frame through Handle's Process.  It notices the end of the file   *)
(* only when a read fails, and by then the buffer, which still holds the   *)
(* last frame, is processed once more.  Nothing is flushed at the end, and *)
(* the end may come anywhere, also within an exchange.                     *)
(*                                                                         *)
(* All frames are IPv4: the reader does not skip others but takes what     *)
(* follows their first 14 bytes for the next frame.                        *)
(***************************************************************************)
EXTENDS Handle

CONSTANTS
    clientEnd, serverEnd,  \* the two ends
    other,             \* a packet of another connection
    Exchanges,         \* how many requests the client sends
    Parts,             \* segments of an answer
    MaxDelay           \* seconds an answer may take

VARIABLES
    asked,             \* requests sent so far
    answered,          \* segments of the last answer sent so far
    quiet,             \* time of the connection's last data segment
    last,              \* the last data segment of the connection, for a retransmission
    closed,            \* a FIN was sent
    frame,             \* main's buffer: the last frame read, if any
    atEnd              \* feof: the reader has left its loop

peers == <<asked, answered, quiet, last, closed>>
reader == <<frame, atEnd>>

Request(k) == [src |-> clientEnd, dst |-> serverEnd, seq |-> 10 * k, over |-> FALSE, data |-> k]
Answer(k, i) == [src |-> serverEnd, dst |-> clientEnd, seq |-> 10 * k + i, over |-> FALSE, data |-> k]
Ack == [src |-> clientEnd, dst |-> serverEnd, seq |-> 1, over |-> FALSE, data |-> NoData]
Fin == [Ack EXCEPT !.over = TRUE]

ConversationPackets ==
    {Request(k) : k \in 1 .. Exchanges} \cup {Ack, Fin, other}
        \cup {Answer(k, i) : k \in 1 .. Exchanges, i \in 1 .. Parts}

(* The captures this module speaks of: what travels is ConversationPackets *)
(* with payloads, an answer is in time for the timeout check and has       *)
(* fewer than ten segments (by the numbers above), whole exchanges decode, *)
(* memory suffices, and the heap under a new session does not happen to    *)
(* hold the number of its first segment, which would then pass for a copy. *)
ASSUME ConversationAssumption ==
    /\ Packets = ConversationPackets
    /\ IsPort80(serverEnd) /\ ~IsPort80(clientEnd)
    /\ {other.src, other.dst} # {clientEnd, serverEnd}
    /\ Exchanges \in Nat /\ Parts \in 1 .. 9
    /\ NoData \notin 1 .. Exchanges
    /\ MaxDelay \in Nat /\ MaxDelay <= FLUSH_AGE
    /\ ~MemoryFails
    /\ \A k \in 1 .. Exchanges : \A i \in 0 .. 9 : 10 * k + i \notin HeapSeq
    /\ \A k \in 1 .. Exchanges, n \in 1 .. MaxPackets, at \in [1 .. Parts -> 1 .. MaxPackets] :
          Decodes(<<[at |-> n, pkt |-> Request(k)]>>,
                  [i \in 1 .. Parts |-> [at |-> at[i], pkt |-> Answer(k, i)]])

Busy == asked > 0 /\ answered < Parts    \* an exchange is under way

(* One packet is left for the end of the file, which repeats one.          *)
Captures(p) ==
    /\ ~atEnd /\ arrived + 1 < MaxPackets
    /\ frame' = {p} /\ UNCHANGED atEnd
    /\ Process(p)

(* The read that meets the end of the file leaves the buffer as it is.     *)
EndOfFile ==
    /\ ~atEnd /\ atEnd' = TRUE
    /\ \/ \E p \in frame : Process(p)
       \/ frame = {} /\ UNCHANGED vars
    /\ UNCHANGED <<frame, peers>>

SendRequest ==
    /\ ~closed /\ ~Busy /\ asked < Exchanges
    /\ Captures(Request(asked + 1))
    /\ asked' = asked + 1 /\ answered' = 0
    /\ last' = {Request(asked + 1)} /\ quiet' = now
    /\ UNCHANGED closed

SendAnswer ==
    /\ Busy
    /\ Captures(Answer(asked, answered + 1))
    /\ answered' = answered + 1
    /\ last' = {Answer(asked, answered + 1)} /\ quiet' = now
    /\ UNCHANGED <<asked, closed>>

Retransmit ==
    /\ ~closed /\ now - quiet <= MaxDelay
    /\ \E p \in last : Captures(p)
    /\ quiet' = now
    /\ UNCHANGED <<asked, answered, last, closed>>

SendAck ==                               \* also the last one, after the FIN
    /\ Captures(Ack)
    /\ UNCHANGED peers

Close ==
    /\ ~closed /\ ~Busy
    /\ Captures(Fin)
    /\ closed' = TRUE
    /\ UNCHANGED <<asked, answered, quiet, last>>

OtherTraffic == Captures(other) /\ UNCHANGED peers

TimePasses ==
    /\ Busy => now - quiet < MaxDelay
    /\ Tick
    /\ UNCHANGED <<peers, reader>>

ConversationInit ==
    /\ Init
    /\ asked = 0 /\ answered = 0 /\ quiet = 0 /\ last = {} /\ closed = FALSE
    /\ frame = {} /\ atEnd = FALSE

ConversationNext ==
    SendRequest \/ SendAnswer \/ Retransmit \/ SendAck \/ Close \/ OtherTraffic \/ TimePasses
        \/ EndOfFile

ConversationSpec == ConversationInit /\ [][ConversationNext]_<<vars, peers, reader>>

-----------------------------------------------------------------------------
Payloads(buf) == [i \in DOMAIN buf |-> buf[i].pkt.data]
WholeAnswer(k) == [i \in 1 .. Parts |-> k]

(* Every record pairs a request with its own answer, whole and without     *)
(* the retransmitted copies, however the timeout check, idle periods and   *)
(* other connections fall in between.                                      *)
AnswersMatchRequests ==
    \A r \in emitted :
        r.conn = {clientEnd, serverEnd} =>
            \E k \in 1 .. asked : Payloads(r.req) = <<k>> /\ Payloads(r.rsp) = WholeAnswer(k)

(* Once the connection has been closed every exchange is in exactly one    *)
(* record.                                                                 *)
EveryExchangeRecorded ==
    closed =>
        \A k \in 1 .. asked :
            Cardinality({r \in emitted : /\ r.conn = {clientEnd, serverEnd}
                                         /\ Payloads(r.req) = <<k>>}) = 1

(* No buffer of the connection ever holds a segment twice: the copy is of  *)
(* the last data segment, with acknowledgements, other traffic or a        *)
(* timeout check in between, or made at the end of the file, where the     *)
(* reader itself processes the last frame again.                           *)
CopiesDropped ==
    \A s \in Sessions : ConnOf(s) = {clientEnd, serverEnd} =>
        \A buf \in {s.reqBuf, s.rspBuf} : \A i, j \in DOMAIN buf :
            buf[i].pkt = buf[j].pkt => i = j
=============================================================================
