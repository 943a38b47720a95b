------------------------------- MODULE Handle -------------------------------
(***************************************************************************)
(* CHandle::Process with the session table under it (CSessionHashTable,    *)
(* CSession) and the receiver above it (Receiver::HandleMessage, which     *)
(* decides the direction of a packet): TCP segments of captured            *)
(* connections are collected per session and handed to the parser in       *)
(* request/response pairs.                                                 *)
(*                                                                         *)
(* One step is one whole packet: Receiver::Work runs HandleMessage, which  *)
(* runs Process to its end on the decoder's only thread.  time(0), read up *)
(* to four times in one Process, is one clock.  A bucket's deque is a set: *)
(* its order decides nothing but which of several sessions of one          *)
(* connection is found, and Lookup may find any.                           *)
(*                                                                         *)
(* Left out of a session: the fields nothing reads (AckSeqNo, the MACs,    *)
(* Protocol, CreatedTime) and the parser's own results, rewritten by every *)
(* Parse.  Left out of Process: its printing, and sesp, its out-parameter, *)
(* which only the final printf of main reads.                              *)
(***************************************************************************)
EXTENDS Integers, Sequences, FiniteSets

CONSTANTS
    Endpoint,            \* (ip, port) pairs
    IsPort80(_),         \* the port of an endpoint is 80
    SeqNum,              \* TCP sequence numbers
    HeapSeq,             \* what a SeqNo nobody initialised may hold
    MemoryFails,         \* may CBuffer::Append fail for want of memory
    Data, NoData,        \* payloads; NoData for a segment without any
    Packets,             \* the packets a capture may contain
    NBuckets,            \* buckets of the session table (65536)
    Hash(_, _),          \* CSessionHashTable::HashVal
    Decodes(_, _),       \* does Parse decode this request and response
    TIMEOUT_CHECK_DUR,   \* seconds between two timeout checks (120)
    FLUSH_AGE,           \* idle seconds before a session is flushed (60)
    TIMEOUT,             \* idle seconds before a session is dropped (3600)
    MaxPackets, MaxTime  \* bounds

Packet == [src : Endpoint, dst : Endpoint, seq : SeqNum,
           over : BOOLEAN, data : Data \cup {NoData}]

ASSUME HandleAssumption ==
    /\ Packets \subseteq {p \in Packet : p.src # p.dst}
    /\ NoData \notin Data
    /\ \A e \in Endpoint : IsPort80(e) \in BOOLEAN
    /\ HeapSeq \in (SUBSET SeqNum) \ {{}}
    /\ MemoryFails \in BOOLEAN
    /\ NBuckets \in Nat \ {0}
    /\ \A a, b \in Endpoint : /\ Hash(a, b) \in 0 .. NBuckets - 1
                              /\ Hash(a, b) = Hash(b, a)
    /\ TIMEOUT_CHECK_DUR \in Nat /\ FLUSH_AGE \in Nat /\ TIMEOUT \in Nat
    /\ FLUSH_AGE < TIMEOUT
    /\ MaxPackets \in Nat /\ MaxTime \in Nat

VARIABLES
    table,               \* _cseshash: the sessions in each bucket
    lastTimeOutCheck,    \* _lastTimeOutCheck
    now,                 \* time(0)
    arrived,             \* packets processed so far; dates the packets too
    emitted              \* the records written by CHttpParse::Send

vars == <<table, lastTimeOutCheck, now, arrived, emitted>>

Bucket == 0 .. NBuckets - 1
Captured == [at : 1 .. MaxPackets, pkt : Packets]

Session ==
    [server : Endpoint, client : Endpoint, refresh : 0 .. MaxTime, seqNo : SeqNum,
     reqBuf : Seq(Captured), rspBuf : Seq(Captured),
     reqTime : 0 .. MaxPackets, rspTime : 0 .. MaxPackets]

Record == [conn : {{a, b} : a \in Endpoint, b \in Endpoint},
           req : Seq(Captured), rsp : Seq(Captured)]

ConnOf(s) == {s.server, s.client}

-----------------------------------------------------------------------------
(* CHttpParse::Parse *)

(* Mutants, M_..., are plausible bugs that take the place of the operator  *)
(* of that name when the properties are tested.                            *)
M_Cleared(s) == [s EXCEPT !.reqBuf = << >>, !.rspBuf = << >>]   \* stamps kept

(* CSession::Reset, which ends every path through Parse. *)
Cleared(s) == [s EXCEPT !.reqBuf = << >>, !.rspBuf = << >>, !.reqTime = 0, !.rspTime = 0]

(* What Parse sends: nothing unless both sides hold data that decodes.     *)
Sent(s) ==
    IF s.reqBuf # << >> /\ s.rspBuf # << >> /\ Decodes(s.reqBuf, s.rspBuf)
    THEN {[conn |-> ConnOf(s), req |-> s.reqBuf, rsp |-> s.rspBuf]}
    ELSE {}

-----------------------------------------------------------------------------
(* CHandle::TimeOutCheck *)

CheckDue == now - lastTimeOutCheck >= TIMEOUT_CHECK_DUR

(* "i < 65535": the last of the 65536 buckets is not visited. *)
Visited == {b \in Bucket : b < NBuckets - 1}

M_Idle(s) == (s.reqBuf # << >> \/ s.rspBuf # << >>) /\ now - s.refresh >= FLUSH_AGE

Idle(s) == (s.reqBuf # << >> \/ s.rspBuf # << >>) /\ now - s.refresh > FLUSH_AGE
Expired(s) == now - s.refresh >= TIMEOUT

(* The table after the check, and what its calls of Parse have sent.       *)
Aged ==
    [b \in Bucket |->
        IF CheckDue /\ b \in Visited
        THEN {IF Idle(s) THEN Cleared(s) ELSE s : s \in {t \in table[b] : ~Expired(t)}}
        ELSE table[b]]

M_SentByCheck ==                     \* expired sessions erased unparsed
    IF CheckDue
    THEN UNION {Sent(s) : s \in {t \in UNION {table[b] : b \in Visited} :
                                   Idle(t) /\ ~Expired(t)}}
    ELSE {}

SentByCheck ==
    IF CheckDue
    THEN UNION {Sent(s) : s \in {t \in UNION {table[b] : b \in Visited} : Idle(t)}}
    ELSE {}

-----------------------------------------------------------------------------
(* CSessionHashTable *)

M_IsSameSes(src, dst, s) == s.server = src /\ s.client = dst  \* one orientation

IsSameSes(src, dst, s) ==
    \/ s.server = src /\ s.client = dst
    \/ s.server = dst /\ s.client = src

(* Receiver::HandleMessage: a packet to port 80 goes to the server, any    *)
(* other comes from it.                                                    *)
IsRequest(p) == IsPort80(p.dst)
M_ServerHint(p) == p.dst             \* the first packet goes to the server

ServerHint(p) == IF IsRequest(p) THEN p.dst ELSE p.src

M_NewSessions(p) ==                  \* RefreshTime left as the heap held it
    LET server == IF ServerHint(p) = p.src THEN p.src ELSE p.dst
    IN  [server : {server}, client : {p.src, p.dst} \ {server},
         refresh : 0 .. MaxTime + 1, seqNo : HeapSeq,
         reqBuf : {<< >>}, rspBuf : {<< >>}, reqTime : {0}, rspTime : {0}]

(* Create: nothing initialises SeqNo, which is whatever the heap held.     *)
NewSessions(p) ==
    LET server == IF ServerHint(p) = p.src THEN p.src ELSE p.dst
    IN  [server : {server}, client : {p.src, p.dst} \ {server},
         refresh : {now}, seqNo : HeapSeq,
         reqBuf : {<< >>}, rspBuf : {<< >>}, reqTime : {0}, rspTime : {0}]

(* Find, then Create if there is none: the session of p and the others of  *)
(* its bucket.                                                             *)
Lookup(p) ==
    LET b == Hash(p.src, p.dst)
        found == {s \in Aged[b] : IsSameSes(p.src, p.dst, s)}
    IN  IF found = {}
        THEN {[ses |-> s, others |-> Aged[b]] : s \in NewSessions(p)}
        ELSE {[ses |-> [s EXCEPT !.refresh = now], others |-> Aged[b] \ {s}] : s \in found}

-----------------------------------------------------------------------------
(* CHandle::Process *)

Seen(p) == [at |-> arrived + 1, pkt |-> p]

(* CBuffer::Append to one of the buffers of s. *)
AppendReq(s, p) == {[s EXCEPT !.reqBuf = Append(@, Seen(p))]}
                      \cup (IF MemoryFails THEN {s} ELSE {})
AppendRsp(s, p) == {[s EXCEPT !.rspBuf = Append(@, Seen(p))]}
                      \cup (IF MemoryFails THEN {s} ELSE {})

(* The bucket of p keeps the sessions in others and those in kept; sent    *)
(* joins what the timeout check sent.                                      *)
Leave(p, others, kept, sent) ==
    /\ table' = [Aged EXCEPT ![Hash(p.src, p.dst)] = others \cup kept]
    /\ emitted' = emitted \cup SentByCheck \cup sent
    /\ arrived' = arrived + 1
    /\ UNCHANGED <<now, lastTimeOutCheck>>

(* FIN or RST: parse what is there and remove the session; the payload of  *)
(* the packet itself is not looked at.                                     *)
M_SessionOver(p, l) == p.over /\ Leave(p, l.others, {}, {})  \* removed unparsed

SessionOver(p, l) ==
    /\ p.over
    /\ Leave(p, l.others, {}, Sent(l.ses))

RepeatedPacket(p, l) ==
    /\ ~p.over
    /\ l.ses.seqNo = p.seq
    /\ Leave(p, l.others, {l.ses}, {})

M_ZeroLength(p, l) ==                \* an acknowledgement's number replaces SeqNo
    /\ ~p.over
    /\ l.ses.seqNo # p.seq
    /\ p.data = NoData
    /\ Leave(p, l.others, {[l.ses EXCEPT !.seqNo = p.seq]}, {})

ZeroLength(p, l) ==
    /\ ~p.over
    /\ l.ses.seqNo # p.seq
    /\ p.data = NoData
    /\ Leave(p, l.others, {l.ses}, {})

NewData(p, l) == ~p.over /\ l.ses.seqNo # p.seq /\ p.data # NoData

M_RequestData(p, l) ==               \* flushed, but the buffers are kept
    /\ NewData(p, l)
    /\ IsRequest(p)
    /\ LET s == [l.ses EXCEPT !.seqNo = p.seq]
           full == s.reqBuf # << >> /\ s.rspBuf # << >>
       IN  \E kept \in AppendReq(s, p) :
              Leave(p, l.others, {kept}, IF full THEN Sent(s) ELSE {})

(* C2S_MATCH: a request that follows a complete exchange flushes it first. *)
(* A failing Append comes after the stamp and SeqNo were set.              *)
RequestData(p, l) ==
    /\ NewData(p, l)
    /\ IsRequest(p)
    /\ LET s    == [l.ses EXCEPT !.seqNo = p.seq]
           full == s.reqBuf # << >> /\ s.rspBuf # << >>
           t    == IF full THEN Cleared(s) ELSE s
           u    == IF t.reqBuf = << >> /\ t.reqTime = 0
                   THEN [t EXCEPT !.reqTime = arrived + 1] ELSE t
       IN  \E kept \in AppendReq(u, p) :
              Leave(p, l.others, {kept}, IF full THEN Sent(s) ELSE {})

(* S2C_MATCH *)
ResponseData(p, l) ==
    /\ NewData(p, l)
    /\ ~IsRequest(p)
    /\ LET s == [l.ses EXCEPT !.seqNo = p.seq]
           u == IF s.rspBuf = << >> /\ s.rspTime = 0
                THEN [s EXCEPT !.rspTime = arrived + 1] ELSE s
       IN  \E kept \in AppendRsp(u, p) :
              Leave(p, l.others, {kept}, {})

Process(p) ==
    \E l \in Lookup(p) :
        \/ SessionOver(p, l)
        \/ RepeatedPacket(p, l)
        \/ ZeroLength(p, l)
        \/ RequestData(p, l)
        \/ ResponseData(p, l)

(* CHandle::Init: the table is empty and the check dated now. *)
Init ==
    /\ table = [b \in Bucket |-> {}]
    /\ lastTimeOutCheck = 0
    /\ now = 0
    /\ arrived = 0
    /\ emitted = {}

Tick ==
    /\ now < MaxTime
    /\ now' = now + 1
    /\ UNCHANGED <<table, lastTimeOutCheck, arrived, emitted>>

Next ==
    \/ Tick
    \/ \E p \in Packets : arrived < MaxPackets /\ Process(p)

Spec == Init /\ [][Next]_vars

-----------------------------------------------------------------------------
Sessions == UNION {table[b] : b \in Bucket}

(* Type invariant of the table and of the records written. *)
TypeOK ==
    /\ table \in [Bucket -> SUBSET Session]
    /\ lastTimeOutCheck \in 0 .. MaxTime
    /\ now \in 0 .. MaxTime
    /\ arrived \in 0 .. MaxPackets
    /\ emitted \subseteq Record

(* A connection has at most one session, whichever side its packets come   *)
(* from and whichever side was seen first, and Find looks for it in the    *)
(* bucket it lies in.                                                      *)
OneSessionPerConnection ==
    \A b, c \in Bucket : \A s \in table[b], t \in table[c] :
        /\ b = Hash(s.server, s.client)
        /\ ConnOf(s) = ConnOf(t) => b = c /\ s = t

(* A connection with port 80 on one side: that side is the server, whoever *)
(* was seen first, ReqBuf holds only what the client sent and RspBuf only  *)
(* what the server sent.  (Between two ports 80, or none, the code takes   *)
(* both directions for one.)                                               *)
SidesKeptApart ==
    \A s \in Sessions :
        IsPort80(s.server) # IsPort80(s.client) =>
            /\ IsPort80(s.server)
            /\ \A i \in DOMAIN s.reqBuf : s.reqBuf[i].pkt.src = s.client
                                          /\ s.reqBuf[i].pkt.dst = s.server
            /\ \A i \in DOMAIN s.rspBuf : s.rspBuf[i].pkt.src = s.server
                                          /\ s.rspBuf[i].pkt.dst = s.client

(* Each captured segment is used at most once: it is in one buffer or in   *)
(* one record, and every buffer and record lists segments in the order     *)
(* they were captured.                                                     *)
Holders == {[conn |-> ConnOf(s), req |-> s.reqBuf, rsp |-> s.rspBuf] : s \in Sessions}
              \cup emitted
Uses(h) == {h.req[i].at : i \in DOMAIN h.req} \cup {h.rsp[i].at : i \in DOMAIN h.rsp}
InOrder(buf) == \A i, j \in DOMAIN buf : i < j => buf[i].at < buf[j].at

SegmentsUsedOnce ==
    /\ \A h \in Holders :
          /\ InOrder(h.req) /\ InOrder(h.rsp)
          /\ \A i \in DOMAIN h.req, j \in DOMAIN h.rsp : h.req[i].at # h.rsp[j].at
    /\ \A g, h \in Holders : g # h => Uses(g) \cap Uses(h) = {}

(* The time stamps of an exchange are its own: a buffer with data has its  *)
(* stamp, no younger than its first segment and younger than everything in *)
(* the records the connection has produced.                                *)
StampsCurrent ==
    \A s \in Sessions :
        /\ s.reqBuf # << >> => s.reqTime \in 1 .. s.reqBuf[1].at
        /\ s.rspBuf # << >> => s.rspTime \in 1 .. s.rspBuf[1].at
        /\ \A r \in emitted, t \in {s.reqTime, s.rspTime} \ {0} :
              r.conn = ConnOf(s) => \A u \in Uses(r) : u < t

-----------------------------------------------------------------------------
(* The session table and its life cycle implement the exchanges of each    *)
(* connection: a session that does not exist holds nothing.                *)
Connection == {{p.src, p.dst} : p \in Packets}
Segments == [c \in Connection |-> {x \in Captured : {x.pkt.src, x.pkt.dst} = c}]

Held(c) == {s \in Sessions : ConnOf(s) = c}
ReqOf == [c \in Connection |-> IF Held(c) = {} THEN << >>
                               ELSE (CHOOSE s \in Held(c) : TRUE).reqBuf]
RspOf == [c \in Connection |-> IF Held(c) = {} THEN << >>
                               ELSE (CHOOSE s \in Held(c) : TRUE).rspBuf]

X == INSTANCE Exchange WITH Segment <- Segments, req <- ReqOf, rsp <- RspOf

(* Neither hashing, creation and removal of sessions, the timeout check    *)
(* nor a lost packet makes the handler mix connections, reorder segments   *)
(* or drop a complete exchange that decodes.                               *)
ExchangeSpec == X!Spec
=============================================================================
