-------------------------- MODULE ConversationProofs --------------------------
(***************************************************************************)
(* Proofs about the capture of one well-behaved connection, for any number *)
(* of exchanges, any timeouts, whatever other connection travels with it   *)
(* and wherever the timeout check falls: every exchange ends in exactly    *)
(* one record, with its own whole answer, and no copy enters a buffer.     *)
(***************************************************************************)
EXTENDS Conversation, HandleProofs, FiniteSetTheorems

Conn == {clientEnd, serverEnd}

PacketsOf(buf) == [i \in DOMAIN buf |-> buf[i].pkt]
Given(n) == [i \in 1 .. n |-> Answer(asked, i)]

(* The last data segment sent. *)
Latest == IF answered = 0 THEN Request(asked) ELSE Answer(asked, answered)

(* The session has all of the exchange so far, and nothing else. *)
Holding(s) ==
    /\ s.seqNo = Latest.seq
    /\ s.refresh >= quiet
    /\ PacketsOf(s.reqBuf) = <<Request(asked)>>
    /\ PacketsOf(s.rspBuf) = Given(answered)

(* It has nothing, and will not take the next request for a copy. *)
Blank(s) ==
    /\ s.reqBuf = << >> /\ s.rspBuf = << >>
    /\ asked < Exchanges => s.seqNo # Request(asked + 1).seq

RecordsFor(e, k) == {r \in e : r.conn = Conn /\ Payloads(r.req) = <<k>>}
Once(e, k) == \E r \in e : RecordsFor(e, k) = {r}

Paired(e) ==
    \A r \in e : r.conn = Conn =>
        \E k \in 1 .. asked : Payloads(r.req) = <<k>> /\ Payloads(r.rsp) = WholeAnswer(k)

-----------------------------------------------------------------------------
(* Of a table t and records e: the last exchange is still in the table ... *)
Open(t, e) ==
    /\ asked > 0 /\ ~closed
    /\ \A k \in 1 .. asked - 1 : Once(e, k)
    /\ RecordsFor(e, asked) = {}
    /\ \E b \in Bucket : \E s \in t[b] : ConnOf(s) = Conn /\ Holding(s)

(* ... or it is whole and recorded, and too old for a retransmission.      *)
Done(t, e) ==
    /\ ~Busy
    /\ \A k \in 1 .. asked : Once(e, k)
    /\ asked = 0 \/ closed \/ now - quiet > MaxDelay
    /\ \A b \in Bucket : \A s \in t[b] : ConnOf(s) = Conn => Blank(s)

Dialogue ==
    /\ asked \in 0 .. Exchanges /\ answered \in 0 .. Parts /\ quiet \in 0 .. now
    /\ closed \in BOOLEAN /\ atEnd \in BOOLEAN
    /\ asked = 0 => answered = 0
    /\ last = IF asked = 0 THEN {} ELSE {Latest}
    /\ frame \subseteq IF closed THEN {Ack, Fin, other} ELSE last \cup {Ack, other}
    /\ Busy => now - quiet <= MaxDelay /\ ~closed
    /\ frame # {} /\ ~atEnd => arrived < MaxPackets

(* What is left to say once the reader has passed the end of the file.     *)
NoCopies(s) ==
    \A buf \in {s.reqBuf, s.rspBuf} : \A i, j \in DOMAIN buf : buf[i].pkt = buf[j].pkt => i = j

Over(t, e) ==
    /\ \A b \in Bucket : \A s \in t[b] : ConnOf(s) = Conn => NoCopies(s)
    /\ closed => \A k \in 1 .. asked : Once(e, k)

CInv ==
    /\ LInv /\ Dialogue /\ Paired(emitted)
    /\ IF atEnd THEN Over(table, emitted) ELSE Open(table, emitted) \/ Done(table, emitted)


-----------------------------------------------------------------------------
LEMMA PacketFacts ==
    /\ clientEnd \in Endpoint /\ serverEnd \in Endpoint /\ clientEnd # serverEnd
    /\ \A k \in 1 .. Exchanges : Request(k) \in Packets
    /\ \A k \in 1 .. Exchanges, i \in 1 .. Parts : Answer(k, i) \in Packets
    /\ Ack \in Packets /\ Fin \in Packets /\ other \in Packets
    /\ Conn \in Connection
<1>1. Packets = ConversationPackets
  BY ConversationAssumption
<1>2. Ack \in Packets /\ Fin \in Packets /\ other \in Packets
  BY <1>1 DEF ConversationPackets
<1>3. Ack.src = clientEnd /\ Ack.dst = serverEnd
  BY DEF Ack
<1>4. Ack \in Packet /\ Ack.src # Ack.dst
  BY <1>2, HandleAssumption
<1>5. clientEnd \in Endpoint /\ serverEnd \in Endpoint /\ clientEnd # serverEnd
  BY <1>3, <1>4 DEF Packet
<1>6. Conn \in Connection
  BY <1>2, <1>3 DEF Conn, Connection
<1>7. QED
  BY <1>1, <1>2, <1>5, <1>6 DEF ConversationPackets

(* Which branch of Process a packet of the conversation is for. *)
LEMMA PacketKinds ==
    ASSUME NEW k \in 1 .. Exchanges, NEW i \in 1 .. Parts
    PROVE  /\ {Request(k).src, Request(k).dst} = Conn
           /\ {Answer(k, i).src, Answer(k, i).dst} = Conn
           /\ IsRequest(Request(k)) /\ ~IsRequest(Answer(k, i))
           /\ ~Request(k).over /\ ~Answer(k, i).over
           /\ Request(k).data = k /\ Answer(k, i).data = k /\ k # NoData
           /\ Request(k).seq = 10 * k /\ Answer(k, i).seq = 10 * k + i
BY ConversationAssumption DEF Request, Answer, Conn, IsRequest

LEMMA ControlPackets ==
    /\ {Ack.src, Ack.dst} = Conn /\ {Fin.src, Fin.dst} = Conn
    /\ {other.src, other.dst} # Conn
    /\ ~Ack.over /\ Ack.data = NoData /\ Fin.over
BY ConversationAssumption DEF Ack, Fin, Conn

(* A session that holds an exchange has its packets and no others, each    *)
(* once; a whole exchange decodes.                                         *)
LEMMA HoldingFacts ==
    ASSUME NEW s \in Session, Dialogue, asked > 0, Holding(s)
    PROVE  /\ DOMAIN s.reqBuf = 1 .. 1 /\ s.reqBuf[1].pkt = Request(asked)
           /\ DOMAIN s.rspBuf = 1 .. answered
           /\ \A i \in 1 .. answered : s.rspBuf[i].pkt = Answer(asked, i)
<1>1. DOMAIN PacketsOf(s.reqBuf) = DOMAIN s.reqBuf /\ DOMAIN PacketsOf(s.rspBuf) = DOMAIN s.rspBuf
  BY DEF PacketsOf
<1>2. DOMAIN Given(answered) = 1 .. answered
  BY DEF Given
<1>3. DOMAIN <<Request(asked)>> = 1 .. 1
  OBVIOUS
<1>4. DOMAIN s.reqBuf = 1 .. 1 /\ DOMAIN s.rspBuf = 1 .. answered
  BY <1>1, <1>2, <1>3 DEF Holding
<1>5. PacketsOf(s.reqBuf)[1] = s.reqBuf[1].pkt
  BY <1>4 DEF PacketsOf
<1>6. <<Request(asked)>>[1] = Request(asked)
  OBVIOUS
<1>7. s.reqBuf[1].pkt = Request(asked)
  BY <1>5, <1>6 DEF Holding
<1>8. \A i \in 1 .. answered : PacketsOf(s.rspBuf)[i] = s.rspBuf[i].pkt
  BY <1>4 DEF PacketsOf
<1>9. \A i \in 1 .. answered : Given(answered)[i] = Answer(asked, i)
  BY DEF Given
<1>10. QED
  BY <1>4, <1>7, <1>8, <1>9 DEF Holding


LEMMA HoldingNoCopies ==
    ASSUME NEW s \in Session, Dialogue, asked > 0, Holding(s)
    PROVE  NoCopies(s)
<1>1. /\ DOMAIN s.reqBuf = 1 .. 1
      /\ DOMAIN s.rspBuf = 1 .. answered
      /\ \A i \in 1 .. answered : s.rspBuf[i].pkt = Answer(asked, i)
  BY HoldingFacts
<1>2. \A i, j \in DOMAIN s.reqBuf : i = j
  BY <1>1
<1>3. answered \in Nat /\ asked \in Nat
  BY ConversationAssumption DEF Dialogue
<1>4. \A i, j \in 1 .. answered : Answer(asked, i).seq = Answer(asked, j).seq => i = j
  BY <1>3 DEF Answer
<1>5. \A i, j \in DOMAIN s.rspBuf : s.rspBuf[i].pkt = s.rspBuf[j].pkt => i = j
  BY <1>1, <1>4
<1>6. QED
  BY <1>2, <1>5 DEF NoCopies

LEMMA HoldingPayloads ==
    ASSUME NEW s \in Session, Dialogue, asked > 0, Holding(s)
    PROVE  /\ Payloads(s.reqBuf) = <<asked>>
           /\ answered = Parts => Payloads(s.rspBuf) = WholeAnswer(asked)
<1>1. /\ DOMAIN s.reqBuf = 1 .. 1 /\ s.reqBuf[1].pkt = Request(asked)
      /\ DOMAIN s.rspBuf = 1 .. answered
      /\ \A i \in 1 .. answered : s.rspBuf[i].pkt = Answer(asked, i)
  BY HoldingFacts
<1>2. Request(asked).data = asked /\ \A i : Answer(asked, i).data = asked
  BY DEF Request, Answer
<1>3. Payloads(s.reqBuf) = [i \in 1 .. 1 |-> asked]
  BY <1>1, <1>2 DEF Payloads
<1>4. [i \in 1 .. 1 |-> asked] = <<asked>>
  OBVIOUS
<1>5. Payloads(s.rspBuf) = [i \in 1 .. answered |-> asked]
  BY <1>1, <1>2 DEF Payloads
<1>6. QED
  BY <1>3, <1>4, <1>5 DEF WholeAnswer

(* A sequence is known by its domain and its elements. *)
LEMMA SequenceFacts ==
    ASSUME NEW T, NEW q \in Seq(T), NEW n \in Nat, DOMAIN q = 1 .. n
    PROVE  /\ Len(q) = n
           /\ \A i \in 1 .. n : q[i] \in T
           /\ q = [i \in 1 .. n |-> q[i]]
<1>1. Len(q) \in Nat /\ DOMAIN q = 1 .. Len(q) /\ q = [i \in 1 .. Len(q) |-> q[i]]
  BY LenProperties
<1>2. Len(q) = n
  <2>1. PICK m \in Nat : m = Len(q)
    BY <1>1
  <2>2. 1 .. m = 1 .. n
    BY <1>1, <2>1
  <2>3. m = n
    BY ONLY <2>2, n \in Nat, m \in Nat
  <2>4. QED
    BY <2>1, <2>3
<1>3. \A i \in 1 .. n : q[i] \in T
  BY <1>2, ElementOfSeq
<1>4. QED
  BY <1>1, <1>2, <1>3

LEMMA WholeIsSent ==
    ASSUME NEW s \in Session, Dialogue, asked > 0, Holding(s), answered = Parts
    PROVE  /\ Sent(s) = {HolderOf(s)}
           /\ s.reqBuf # << >> /\ s.rspBuf # << >>
<1>1. /\ DOMAIN s.reqBuf = 1 .. 1 /\ s.reqBuf[1].pkt = Request(asked)
      /\ DOMAIN s.rspBuf = 1 .. Parts
      /\ \A i \in 1 .. Parts : s.rspBuf[i].pkt = Answer(asked, i)
  BY HoldingFacts
<1>2. Parts \in 1 .. 9 /\ asked \in 1 .. Exchanges
  BY ConversationAssumption DEF Dialogue
<1>3. 1 \in 1 .. Parts /\ 1 \in 1 .. 1 /\ DOMAIN << >> = {}
  BY <1>2
<1>4. s.reqBuf # << >> /\ s.rspBuf # << >>
  BY <1>1, <1>3
<1>5. s.reqBuf \in Seq(Captured) /\ s.rspBuf \in Seq(Captured)
  BY DEF Session
<1>6. /\ s.reqBuf[1] \in Captured /\ \A i \in 1 .. Parts : s.rspBuf[i] \in Captured
      /\ Len(s.reqBuf) = 1 /\ s.rspBuf = [i \in 1 .. Parts |-> s.rspBuf[i]]
  <2>1. 1 \in Nat /\ Parts \in Nat
    BY <1>2
  <2>2. Len(s.reqBuf) = 1 /\ \A i \in 1 .. 1 : s.reqBuf[i] \in Captured
    BY <1>1, <1>5, <2>1, SequenceFacts
  <2>3. s.rspBuf = [i \in 1 .. Parts |-> s.rspBuf[i]] /\ \A i \in 1 .. Parts : s.rspBuf[i] \in Captured
    BY <1>1, <1>5, <2>1, SequenceFacts
  <2>4. QED
    BY <1>3, <2>2, <2>3
<1>7. \A x \in Captured : x.at \in 1 .. MaxPackets /\ x = [at |-> x.at, pkt |-> x.pkt]
  BY DEF Captured
<1> DEFINE n == s.reqBuf[1].at
           at == [i \in 1 .. Parts |-> s.rspBuf[i].at]
<1>8. n \in 1 .. MaxPackets /\ at \in [1 .. Parts -> 1 .. MaxPackets]
  BY <1>6, <1>7
<1>9. s.reqBuf = <<[at |-> n, pkt |-> Request(asked)]>>
  <2>1. s.reqBuf[1] = [at |-> n, pkt |-> Request(asked)]
    BY <1>1, <1>6, <1>7
  <2>3. s.reqBuf = <<s.reqBuf[1]>>
    BY <1>5, <1>6
  <2>4. QED
    BY <2>1, <2>3
<1>10. s.rspBuf = [i \in 1 .. Parts |-> [at |-> at[i], pkt |-> Answer(asked, i)]]
  <2>1. \A i \in 1 .. Parts : s.rspBuf[i] = [at |-> at[i], pkt |-> Answer(asked, i)]
    BY <1>1, <1>6, <1>7
  <2> HIDE DEF at
  <2>2. QED
    BY <1>6, <2>1
<1> HIDE DEF n, at
<1>11. Decodes(s.reqBuf, s.rspBuf)
  BY <1>2, <1>8, <1>9, <1>10, ConversationAssumption
<1>12. QED
  BY <1>4, <1>11 DEF Sent, HolderOf


-----------------------------------------------------------------------------
(* The records of other connections do not matter here. *)
LEMMA OtherRecords ==
    ASSUME NEW e, NEW f, \A r \in f : r.conn # Conn
    PROVE  /\ \A k : RecordsFor(e \cup f, k) = RecordsFor(e, k)
           /\ \A k : Once(e, k) => Once(e \cup f, k)
           /\ Paired(e) => Paired(e \cup f)
<1>1. \A k : RecordsFor(e \cup f, k) = RecordsFor(e, k)
  BY DEF RecordsFor
<1>2. \A k : Once(e, k) => Once(e \cup f, k)
  BY <1>1 DEF Once
<1>3. Paired(e) => Paired(e \cup f)
  BY DEF Paired
<1>4. QED
  BY <1>1, <1>2, <1>3

LEMMA SameAsked ==
    ASSUME NEW j, NEW k, <<j>> = <<k>>
    PROVE  j = k
<1>1. <<j>>[1] = <<k>>[1]
  OBVIOUS
<1>2. QED
  BY <1>1

(* The exchange under way is recorded, whole, and nothing else with it.    *)
LEMMA NewRecord ==
    ASSUME NEW e, NEW f, NEW x, asked \in Nat, asked > 0, Paired(e),
           \A k \in 1 .. asked - 1 : Once(e, k), RecordsFor(e, asked) = {},
           x \in f, \A r \in f : r.conn = Conn => r = x,
           x.conn = Conn, Payloads(x.req) = <<asked>>, Payloads(x.rsp) = WholeAnswer(asked)
    PROVE  /\ Paired(e \cup f)
           /\ \A k \in 1 .. asked : Once(e \cup f, k)
<1>1. asked \in 1 .. asked
  OBVIOUS
<1>2. Paired(e \cup f)
  BY <1>1 DEF Paired
<1>3. RecordsFor(e \cup f, asked) = {x}
  <2>1. \A r \in e : ~(r.conn = Conn /\ Payloads(r.req) = <<asked>>)
    BY DEF RecordsFor
  <2>2. \A r \in e \cup f : (r.conn = Conn /\ Payloads(r.req) = <<asked>>) <=> r = x
    BY <2>1
  <2>3. {r \in e \cup f : r.conn = Conn /\ Payloads(r.req) = <<asked>>} = {x}
    BY <2>2
  <2>4. QED
    BY <2>3 DEF RecordsFor
<1>4. ASSUME NEW k \in 1 .. asked, k # asked PROVE Once(e \cup f, k)
  <2>1. k \in 1 .. asked - 1
    BY <1>4
  <2>2. <<asked>> # <<k>>
    BY <1>4, SameAsked
  <2>3. RecordsFor(e \cup f, k) = RecordsFor(e, k)
    BY <2>2 DEF RecordsFor
  <2>4. QED
    BY <2>1, <2>3 DEF Once
<1>5. Once(e \cup f, asked)
  BY <1>3 DEF Once
<1>6. QED
  BY <1>2, <1>4, <1>5


(* The sessions of the connection, and their records, as the check of the  *)
(* next packet leaves them.                                                *)
LEMMA AgedDone ==
    ASSUME IInv, Dialogue, Paired(emitted), Done(table, emitted)
    PROVE  Done(Aged, emitted \cup SentByCheck) /\ Paired(emitted \cup SentByCheck)
<1>1. \A r \in SentByCheck : r.conn # Conn
  <2>1. SUFFICES ASSUME NEW r \in SentByCheck, r.conn = Conn PROVE FALSE
    OBVIOUS
  <2>2. PICK b \in Bucket : \E s \in table[b] : s \in Session /\ r \in Sent(s) /\ r = HolderOf(s)
    BY CheckSends
  <2>3. PICK s \in table[b] : s \in Session /\ r \in Sent(s) /\ r = HolderOf(s)
    BY <2>2
  <2>4. ConnOf(s) = Conn
    BY <2>1, <2>3 DEF HolderOf
  <2>5. s.reqBuf = << >>
    BY <2>4 DEF Done, Blank
  <2>6. QED
    BY <2>3, <2>5, SentIsHolder
<1>2. ASSUME NEW b \in Bucket, NEW x \in Aged[b], ConnOf(x) = Conn PROVE Blank(x)
  <2>1. PICK s \in table[b] : s \in Session /\ (x = s \/ x = Cleared(s))
    BY AgedOrigin
  <2>2. ConnOf(s) = Conn
    BY <1>2, <2>1, ClearedIsEmpty
  <2>3. Blank(s)
    BY <2>2 DEF Done
  <2>4. CASE x = s
    BY <2>3, <2>4
  <2>5. CASE x = Cleared(s)
    <3>1. Sided(s)
      BY DEF IInv, TableOK
    <3>2. x.reqBuf = << >> /\ x.rspBuf = << >> /\ x.seqNo = s.seqNo
      BY <2>1, <2>5, <3>1, ClearedIsEmpty, ClearedGood
    <3>3. QED
      BY <2>3, <3>2 DEF Blank
  <2>6. QED
    BY <2>1, <2>4, <2>5
<1>3. QED
  BY <1>1, <1>2, OtherRecords DEF Done

LEMMA AgedOpen ==
    ASSUME IInv, Dialogue, Paired(emitted), Open(table, emitted)
    PROVE  /\ Open(Aged, emitted \cup SentByCheck) \/ Done(Aged, emitted \cup SentByCheck)
           /\ Paired(emitted \cup SentByCheck)
<1>1. PICK b \in Bucket : \E s \in table[b] : ConnOf(s) = Conn /\ Holding(s)
  BY DEF Open
<1>2. PICK s \in table[b] : ConnOf(s) = Conn /\ Holding(s)
  BY <1>1
<1>3. s \in Session /\ Sided(s) /\ TableOK(table) /\ asked > 0
  BY DEF IInv, TypeOK, TableOK, Open
<1> DEFINE flushed == CheckDue /\ b \in Visited /\ Idle(s)
           E == emitted \cup SentByCheck
<1>4. ASSUME NEW r \in SentByCheck, r.conn = Conn PROVE r = HolderOf(s) /\ flushed
  <2>1. PICK c \in Bucket : \E u \in table[c] :
              /\ u \in Session /\ r \in Sent(u) /\ r = HolderOf(u)
              /\ CheckDue /\ c \in Visited /\ Idle(u)
    BY CheckSends
  <2>2. PICK u \in table[c] :
              /\ u \in Session /\ r \in Sent(u) /\ r = HolderOf(u)
              /\ CheckDue /\ c \in Visited /\ Idle(u)
    BY <2>1
  <2>3. ConnOf(u) = ConnOf(s)
    BY <1>2, <1>4, <2>2 DEF HolderOf
  <2>4. b = c /\ s = u
    BY <1>3, <2>3, OneOfEach
  <2>5. QED
    BY <2>2, <2>4
<1>5. /\ now \in Int /\ quiet \in Int /\ s.refresh \in Int /\ s.refresh >= quiet
      /\ MaxDelay \in Int /\ FLUSH_AGE \in Int /\ TIMEOUT \in Int
      /\ MaxDelay <= FLUSH_AGE /\ FLUSH_AGE < TIMEOUT /\ asked \in Nat /\ answered \in 0 .. Parts
  <2>1. s.refresh \in 0 .. MaxTime
    BY <1>3 DEF Session
  <2>2. QED
    BY <1>2, <2>1, HandleAssumption, ConversationAssumption DEF IInv, TypeOK, Dialogue, Holding
<1>6. CASE flushed
  <2>1. now - quiet > MaxDelay
    BY <1>5, <1>6 DEF Idle
  <2>2. ~Busy
    BY <1>5, <2>1 DEF Dialogue
  <2>3. answered = Parts
    BY <1>3, <1>5, <2>2, ConversationAssumption DEF Busy
  <2>4. /\ Sent(s) = {HolderOf(s)} /\ Payloads(s.reqBuf) = <<asked>>
        /\ Payloads(s.rspBuf) = WholeAnswer(asked)
    BY <1>2, <1>3, <2>3, WholeIsSent, HoldingPayloads
  <2>5. HolderOf(s) \in SentByCheck
    BY <1>2, <1>6, <2>4 DEF SentByCheck
  <2>6. HolderOf(s).conn = Conn /\ HolderOf(s).req = s.reqBuf /\ HolderOf(s).rsp = s.rspBuf
    BY <1>2 DEF HolderOf
  <2>7. \A k \in 1 .. asked - 1 : Once(emitted, k)
    BY DEF Open
  <2>8. RecordsFor(emitted, asked) = {}
    BY DEF Open
  <2>9. \A r \in SentByCheck : r.conn = Conn => r = HolderOf(s)
    BY <1>4
  <2>10. Paired(E) /\ \A k \in 1 .. asked : Once(E, k)
    <3> DEFINE h == HolderOf(s)
    <3> HIDE DEF h
    <3>1. h \in SentByCheck /\ (\A r \in SentByCheck : r.conn = Conn => r = h) /\ h.conn = Conn
      BY <2>5, <2>6, <2>9 DEF h
    <3>2. Payloads(h.req) = <<asked>> /\ Payloads(h.rsp) = WholeAnswer(asked)
      BY <2>4, <2>6 DEF h
    <3>3. QED
      BY <1>3, <1>5, <2>7, <2>8, <3>1, <3>2, NewRecord
  <2>11. ASSUME NEW c \in Bucket, NEW x \in Aged[c], ConnOf(x) = Conn PROVE Blank(x)
    <3>1. PICK u \in table[c] :
              /\ u \in Session
              /\ \/ x = u /\ ~(CheckDue /\ c \in Visited /\ Idle(u))
                 \/ x = Cleared(u) /\ CheckDue /\ c \in Visited /\ Idle(u)
      BY AgedOrigin
    <3>2. ConnOf(u) = ConnOf(s)
      BY <1>2, <2>11, <3>1, ClearedIsEmpty
    <3>3. b = c /\ s = u
      BY <1>3, <3>2, OneOfEach
    <3>4. x = Cleared(s)
      BY <1>6, <3>1, <3>3
    <3>5. x.reqBuf = << >> /\ x.rspBuf = << >> /\ x.seqNo = Latest.seq
      BY <1>2, <1>3, <3>4, ClearedIsEmpty, ClearedGood DEF Holding
    <3>6. Latest.seq # Request(asked + 1).seq
      BY <1>5, ConversationAssumption DEF Latest, Request, Answer
    <3>7. QED
      BY <3>5, <3>6 DEF Blank
  <2>12. Done(Aged, E)
    <3> HIDE DEF E
    <3>1. QED
      BY <2>1, <2>2, <2>10, <2>11 DEF Done
  <2>13. QED
    BY <2>10, <2>12
<1>7. CASE ~flushed
  <2>1. \A r \in SentByCheck : r.conn # Conn
    BY <1>4, <1>7
  <2>2. s.reqBuf # << >>
    <3>1. DOMAIN s.reqBuf = 1 .. 1 /\ DOMAIN << >> = {} /\ 1 \in 1 .. 1
      BY <1>2, <1>3, HoldingFacts
    <3>2. QED
      BY <3>1
  <2>3. Expired(s) => Idle(s)
    BY <1>5, <2>2 DEF Expired, Idle
  <2>4. s \in Aged[b]
    BY <1>2, <1>7, <2>3 DEF Aged
  <2>5. Open(Aged, E)
    <3>1. (\A k \in 1 .. asked - 1 : Once(E, k)) /\ RecordsFor(E, asked) = {}
      BY <2>1, OtherRecords DEF Open
    <3> HIDE DEF E
    <3>2. QED
      BY <1>2, <2>4, <3>1 DEF Open
  <2>6. QED
    BY <2>1, <2>5, OtherRecords
<1>8. QED
  BY <1>6, <1>7


-----------------------------------------------------------------------------
(* What Find or Create hands to the rest of Process.                       *)
LEMMA FoundSession ==
    ASSUME IInv, Dialogue, NEW p \in Packets, {p.src, p.dst} = Conn, NEW l \in Lookup(p), NEW e
    PROVE  /\ l.ses \in Session /\ ConnOf(l.ses) = Conn /\ l.ses.refresh = now
           /\ Open(Aged, e) => Holding(l.ses)
           /\ Done(Aged, e) => Blank(l.ses)
<1> DEFINE h == Hash(p.src, p.dst)
           found == {s \in Aged[h] : IsSameSes(p.src, p.dst, s)}
<1>1. p.src \in Endpoint /\ p.dst \in Endpoint /\ h \in Bucket
  BY HandleAssumption DEF Packet, Bucket
<1>2. TableOK(Aged) /\ Aged[h] \subseteq Session
  BY <1>1, AgedOK DEF TableOK
<1>3. \A b \in Bucket : \A s \in Aged[b] : ConnOf(s) = Conn => b = h /\ s \in found
  <2>1. SUFFICES ASSUME NEW b \in Bucket, NEW s \in Aged[b], ConnOf(s) = Conn
                 PROVE  b = h /\ s \in found
    OBVIOUS
  <2>2. s \in Session /\ b = Hash(s.server, s.client)
    BY <1>2 DEF TableOK
  <2>3. QED
    BY <1>1, <2>1, <2>2, SameConnection
<1>4. \A s \in found : s \in Aged[h] /\ s \in Session /\ ConnOf(s) = Conn
  BY <1>1, <1>2, SameConnection
<1>5. l.ses \in Session /\ ConnOf(l.ses) = Conn
  BY LookupOK
<1>6. now >= quiet
  BY HandleAssumption DEF Dialogue, IInv, TypeOK
<1>7. CASE found = {}
  <2>1. l.ses \in NewSessions(p)
    BY <1>7 DEF Lookup
  <2>2. /\ l.ses.refresh = now /\ l.ses.seqNo \in HeapSeq
        /\ l.ses.reqBuf = << >> /\ l.ses.rspBuf = << >>
    BY <2>1 DEF NewSessions
  <2>3. ~Open(Aged, e)
    BY <1>3, <1>7 DEF Open
  <2>4. CASE asked < Exchanges
    <3>1. Request(asked + 1).seq = 10 * (asked + 1) + 0 /\ asked + 1 \in 1 .. Exchanges /\ 0 \in 0 .. 9
      BY <2>4, ConversationAssumption DEF Dialogue, Request
    <3>2. Request(asked + 1).seq \notin HeapSeq
      BY <3>1, ConversationAssumption
    <3>3. QED
      BY <1>5, <2>2, <2>3, <3>2 DEF Blank
  <2>5. CASE asked >= Exchanges
    <3>1. ~(asked < Exchanges)
      BY <2>5, ConversationAssumption DEF Dialogue
    <3>2. QED
      BY <1>5, <2>2, <2>3, <3>1 DEF Blank
  <2>6. QED
    BY <2>4, <2>5, ConversationAssumption DEF Dialogue
<1>8. CASE found # {}
  <2>1. PICK s \in found : l = [ses |-> [s EXCEPT !.refresh = now], others |-> Aged[h] \ {s}]
    BY <1>8 DEF Lookup
  <2>2. s \in Session /\ s \in Aged[h] /\ ConnOf(s) = Conn
    BY <1>4
  <2>3. /\ l.ses.refresh = now /\ l.ses.seqNo = s.seqNo
        /\ l.ses.reqBuf = s.reqBuf /\ l.ses.rspBuf = s.rspBuf
    BY <2>1, <2>2 DEF Session
  <2>4. Done(Aged, e) => Blank(l.ses)
    BY <1>1, <2>2, <2>3 DEF Done, Blank
  <2>5. Open(Aged, e) => Holding(l.ses)
    <3>1. SUFFICES ASSUME Open(Aged, e) PROVE Holding(l.ses)
      OBVIOUS
    <3>2. PICK b \in Bucket : \E u \in Aged[b] : ConnOf(u) = Conn /\ Holding(u)
      BY <3>1 DEF Open
    <3>3. PICK u \in Aged[b] : ConnOf(u) = Conn /\ Holding(u)
      BY <3>2
    <3>4. u = s
      BY <1>1, <1>2, <2>2, <3>3, OneOfEach
    <3>5. QED
      BY <1>6, <2>3, <3>3, <3>4 DEF Holding
  <2>6. QED
    BY <1>5, <2>3, <2>4, <2>5
<1>9. QED
  BY <1>7, <1>8

(* Afterwards the connection's sessions are the one that went back.        *)
LEMMA PutBack ==
    ASSUME IInv, NEW p \in Packets, {p.src, p.dst} = Conn, NEW l \in Lookup(p),
           NEW kept, NEW sent, Leave(p, l.others, kept, sent)
    PROVE  /\ \A b \in Bucket : \A s \in table'[b] : ConnOf(s) = Conn => s \in kept
           /\ \E b \in Bucket : kept \subseteq table'[b]
           /\ emitted' = (emitted \cup SentByCheck) \cup sent /\ now' = now
<1> DEFINE h == Hash(p.src, p.dst)
<1>1. p.src \in Endpoint /\ p.dst \in Endpoint /\ h \in Bucket
  BY HandleAssumption DEF Packet, Bucket
<1>2. TableOK(Aged)
  BY AgedOK
<1>3. \A s \in l.others : ConnOf(s) # Conn
  BY LookupOK
<1>4. \A b \in Bucket : table'[b] = IF b = h THEN l.others \cup kept ELSE Aged[b]
  BY <1>1, <1>2 DEF Leave, TableOK
<1>5. ASSUME NEW b \in Bucket, NEW s \in table'[b], ConnOf(s) = Conn PROVE s \in kept
  <2>1. CASE b = h
    BY <1>3, <1>4, <1>5, <2>1
  <2>2. CASE b # h
    <3>1. s \in Aged[b]
      BY <1>4, <2>2
    <3>2. s \in Session /\ b = Hash(s.server, s.client)
      BY <1>2, <3>1 DEF TableOK
    <3>3. QED
      BY <1>1, <1>5, <2>2, <3>2, SameConnection
  <2>3. QED
    BY <2>1, <2>2
<1>6. QED
  BY <1>1, <1>4, <1>5 DEF Leave


(* A packet of another connection leaves this one's sessions and records   *)
(* as the check has left them.                                             *)
LEMMA Elsewhere ==
    ASSUME LInv, NEW p \in Packets, {p.src, p.dst} # Conn, arrived < MaxPackets, Process(p)
    PROVE  /\ \A b \in Bucket : \A s : ConnOf(s) = Conn => (s \in table'[b] <=> s \in Aged[b])
           /\ \E f : /\ emitted' = (emitted \cup SentByCheck) \cup f
                     /\ \A r \in f : r.conn # Conn
           /\ now' = now
<1>0. IInv
  BY DEF LInv
<1>1. PICK l \in Lookup(p) :
         \/ SessionOver(p, l) \/ RepeatedPacket(p, l) \/ ZeroLength(p, l)
         \/ RequestData(p, l) \/ ResponseData(p, l)
  BY DEF Process
<1>2. PICK flush \in BOOLEAN : \E kept : Outcome(p, l, kept, flush)
  BY <1>1, ProcessOutcome
<1>3. PICK kept : Outcome(p, l, kept, flush)
  BY <1>2
<1> DEFINE h == Hash(p.src, p.dst)
           c == {p.src, p.dst}
           sent == SentIf(flush, l.ses)
<1>4. p.src \in Endpoint /\ p.dst \in Endpoint /\ h \in Bucket
  BY HandleAssumption DEF Packet, Bucket
<1>5. /\ TableOK(Aged) /\ ConnOf(l.ses) = c /\ l.others \subseteq Aged[h]
      /\ \A s \in Aged[h] : ConnOf(s) # c => s \in l.others
  BY <1>0, AgedOK, LookupOK, FoundHolds
<1>6. \A k \in kept : ConnOf(k) = c
  BY <1>3, <1>5 DEF Outcome, Follows
<1>7. \A r \in sent : r.conn # Conn
  <2>1. \A r \in sent : r = HolderOf(l.ses)
    BY SentIsHolder DEF SentIf
  <2>2. QED
    BY <1>5, <2>1 DEF HolderOf
<1>8. Leave(p, l.others, kept, sent)
  BY <1>3 DEF Outcome
<1> HIDE DEF sent
<1>9. \A b \in Bucket : table'[b] = IF b = h THEN l.others \cup kept ELSE Aged[b]
  BY <1>4, <1>5, <1>8 DEF Leave, TableOK
<1>10. \A b \in Bucket : \A s : ConnOf(s) = Conn => (s \in table'[b] <=> s \in Aged[b])
  BY <1>4, <1>5, <1>6, <1>9
<1>11. emitted' = (emitted \cup SentByCheck) \cup sent /\ now' = now
  BY <1>8 DEF Leave
<1>12. QED
  BY <1>7, <1>10, <1>11

-----------------------------------------------------------------------------
(* The branches of Process, for a packet of the connection.                *)

(* It is taken for a copy, or has no data: the session goes back as it is. *)
LEMMA NothingNew ==
    ASSUME IInv, NEW p \in Packets, {p.src, p.dst} = Conn, NEW l \in Lookup(p),
           ~p.over, l.ses.seqNo = p.seq \/ p.data = NoData,
           \/ SessionOver(p, l) \/ RepeatedPacket(p, l) \/ ZeroLength(p, l)
           \/ RequestData(p, l) \/ ResponseData(p, l)
    PROVE  Leave(p, l.others, {l.ses}, {})
BY DEF SessionOver, RepeatedPacket, ZeroLength, RequestData, ResponseData, NewData

LEMMA RequestTaken ==
    ASSUME IInv, NEW p \in Packets, NEW l \in Lookup(p), l.ses \in Session, IsRequest(p),
           ~p.over, l.ses.seqNo # p.seq, p.data # NoData, arrived < MaxPackets,
           (l.ses.reqBuf = << >> /\ l.ses.rspBuf = << >>) \/ Sent(l.ses) = {HolderOf(l.ses)},
           \/ SessionOver(p, l) \/ RepeatedPacket(p, l) \/ ZeroLength(p, l)
           \/ RequestData(p, l) \/ ResponseData(p, l)
    PROVE  \E k : /\ k.reqBuf = <<Seen(p)>> /\ k.rspBuf = << >>
                  /\ k.seqNo = p.seq /\ k.refresh = l.ses.refresh /\ ConnOf(k) = ConnOf(l.ses)
                  /\ Leave(p, l.others, {k}, Sent(l.ses))
<1> DEFINE s == [l.ses EXCEPT !.seqNo = p.seq]
           full == s.reqBuf # << >> /\ s.rspBuf # << >>
           t == IF full THEN Cleared(s) ELSE s
           u == IF t.reqBuf = << >> /\ t.reqTime = 0
                THEN [t EXCEPT !.reqTime = arrived + 1] ELSE t
<1>1. PICK k \in AppendReq(u, p) : Leave(p, l.others, {k}, IF full THEN Sent(s) ELSE {})
  BY DEF SessionOver, RepeatedPacket, ZeroLength, RequestData, ResponseData, NewData
<1>2. p.seq \in SeqNum /\ arrived + 1 \in 0 .. MaxPackets
  BY HandleAssumption DEF Packet, IInv, TypeOK
<1>3. /\ s \in Session /\ s.reqBuf = l.ses.reqBuf /\ s.rspBuf = l.ses.rspBuf
      /\ s.seqNo = p.seq /\ s.refresh = l.ses.refresh
      /\ s.server = l.ses.server /\ s.client = l.ses.client
  BY <1>2 DEF Session
<1>4. Sent(s) = Sent(l.ses)
  BY <1>3 DEF Sent, ConnOf
<1>5. (IF full THEN Sent(s) ELSE {}) = Sent(l.ses)
  BY <1>3, <1>4 DEF Sent
<1> HIDE DEF s
<1>6. /\ t \in Session /\ t.reqBuf = << >> /\ t.rspBuf = << >>
      /\ t.seqNo = p.seq /\ t.refresh = l.ses.refresh /\ ConnOf(t) = ConnOf(l.ses)
  <2>1. CASE full
    <3>1. << >> \in Seq(Captured) /\ 0 \in 0 .. MaxPackets
      BY HandleAssumption
    <3>2. /\ Cleared(s) \in Session /\ Cleared(s).seqNo = s.seqNo /\ Cleared(s).refresh = s.refresh
      BY <1>3, <3>1 DEF Cleared, Session
    <3>3. QED
      BY <1>3, <2>1, <3>2, ClearedIsEmpty DEF ConnOf
  <2>2. CASE ~full
    <3>1. s.reqBuf = << >> /\ s.rspBuf = << >>
      BY <1>3, <2>2 DEF Sent
    <3>2. QED
      BY <1>3, <2>2, <3>1 DEF ConnOf
  <2>3. QED
    BY <2>1, <2>2
<1> HIDE DEF t
<1>7. /\ u \in Session /\ u.reqBuf = << >> /\ u.rspBuf = << >>
      /\ u.seqNo = p.seq /\ u.refresh = l.ses.refresh /\ ConnOf(u) = ConnOf(l.ses)
  BY <1>2, <1>6 DEF Session, ConnOf
<1> HIDE DEF u
<1>8. k = [u EXCEPT !.reqBuf = Append(@, Seen(p))]
  BY <1>1, ConversationAssumption DEF AppendReq
<1>9. Append(<< >>, Seen(p)) = <<Seen(p)>>
  OBVIOUS
<1>10. /\ k.reqBuf = <<Seen(p)>> /\ k.rspBuf = << >>
       /\ k.seqNo = p.seq /\ k.refresh = l.ses.refresh /\ ConnOf(k) = ConnOf(l.ses)
  BY <1>7, <1>8, <1>9 DEF Session, ConnOf
<1>11. QED
  BY <1>1, <1>5, <1>10

LEMMA ResponseTaken ==
    ASSUME IInv, NEW p \in Packets, NEW l \in Lookup(p), l.ses \in Session, ~IsRequest(p),
           ~p.over, l.ses.seqNo # p.seq, p.data # NoData, arrived < MaxPackets,
           \/ SessionOver(p, l) \/ RepeatedPacket(p, l) \/ ZeroLength(p, l)
           \/ RequestData(p, l) \/ ResponseData(p, l)
    PROVE  \E k : /\ k.reqBuf = l.ses.reqBuf /\ k.rspBuf = Append(l.ses.rspBuf, Seen(p))
                  /\ k.seqNo = p.seq /\ k.refresh = l.ses.refresh /\ ConnOf(k) = ConnOf(l.ses)
                  /\ Leave(p, l.others, {k}, {})
<1> DEFINE s == [l.ses EXCEPT !.seqNo = p.seq]
           u == IF s.rspBuf = << >> /\ s.rspTime = 0
                THEN [s EXCEPT !.rspTime = arrived + 1] ELSE s
<1>1. PICK k \in AppendRsp(u, p) : Leave(p, l.others, {k}, {})
  BY DEF SessionOver, RepeatedPacket, ZeroLength, RequestData, ResponseData, NewData
<1>2. p.seq \in SeqNum /\ arrived + 1 \in 0 .. MaxPackets
  BY HandleAssumption DEF Packet, IInv, TypeOK
<1>3. /\ u \in Session /\ u.reqBuf = l.ses.reqBuf /\ u.rspBuf = l.ses.rspBuf
      /\ u.seqNo = p.seq /\ u.refresh = l.ses.refresh /\ ConnOf(u) = ConnOf(l.ses)
  BY <1>2 DEF Session, ConnOf
<1> HIDE DEF u
<1>4. k = [u EXCEPT !.rspBuf = Append(@, Seen(p))]
  BY <1>1, ConversationAssumption DEF AppendRsp
<1>5. QED
  BY <1>1, <1>3, <1>4 DEF Session, ConnOf


-----------------------------------------------------------------------------
(* The steps of the conversation.                                          *)

(* What Open and Done promise to somebody who looks no further. *)
LEMMA BetweenIsOver ==
    ASSUME Dialogue, NEW t, NEW e, TableOK(t), Open(t, e) \/ Done(t, e)
    PROVE  Over(t, e)
<1>1. CASE Open(t, e)
  <2>1. PICK c \in Bucket : \E u \in t[c] : ConnOf(u) = Conn /\ Holding(u)
    BY <1>1 DEF Open
  <2>2. PICK u \in t[c] : ConnOf(u) = Conn /\ Holding(u)
    BY <2>1
  <2>3. u \in Session /\ asked > 0 /\ ~closed
    BY <1>1 DEF TableOK, Open
  <2>4. NoCopies(u)
    BY <2>2, <2>3, HoldingNoCopies
  <2>5. \A b \in Bucket : \A s \in t[b] : ConnOf(s) = Conn => s = u
    BY <2>2, OneOfEach
  <2>6. QED
    BY <2>3, <2>4, <2>5 DEF Over
<1>2. CASE Done(t, e)
  <2>1. DOMAIN << >> = {}
    OBVIOUS
  <2>2. \A b \in Bucket : \A s \in t[b] : ConnOf(s) = Conn => NoCopies(s)
    BY <1>2, <2>1 DEF Done, Blank, NoCopies
  <2>3. QED
    BY <1>2, <2>2 DEF Over, Done
<1>3. QED
  BY <1>1, <1>2

LEMMA AgedBetween ==
    ASSUME CInv, ~atEnd
    PROVE  /\ Open(Aged, emitted \cup SentByCheck) \/ Done(Aged, emitted \cup SentByCheck)
           /\ Paired(emitted \cup SentByCheck)
BY AgedOpen, AgedDone DEF CInv, LInv

(* An acknowledgement and other traffic change neither.                    *)
LEMMA Aside ==
    ASSUME CInv, ~atEnd, arrived < MaxPackets, NEW p \in {Ack, other}, Process(p)
    PROVE  /\ Open(table', emitted') \/ Done(table', emitted')
           /\ Paired(emitted') /\ now' = now
<1> DEFINE E == emitted \cup SentByCheck
<1>1. /\ Open(Aged, E) \/ Done(Aged, E)
      /\ Paired(E) /\ LInv /\ IInv /\ Dialogue
  BY AgedBetween DEF CInv, LInv
<1>2. p \in Packets
  BY PacketFacts
<1> HIDE DEF E
<1>3. CASE p = Ack
  <2>1. {p.src, p.dst} = Conn /\ ~p.over /\ p.data = NoData
    BY <1>3, ControlPackets
  <2>2. PICK l \in Lookup(p) :
           \/ SessionOver(p, l) \/ RepeatedPacket(p, l) \/ ZeroLength(p, l)
           \/ RequestData(p, l) \/ ResponseData(p, l)
    BY DEF Process
  <2>3. Leave(p, l.others, {l.ses}, {})
    BY <1>1, <1>2, <2>1, <2>2, NothingNew
  <2>4. /\ \A b \in Bucket : \A s \in table'[b] : ConnOf(s) = Conn => s \in {l.ses}
        /\ \E b \in Bucket : {l.ses} \subseteq table'[b]
        /\ emitted' = (emitted \cup SentByCheck) \cup {} /\ now' = now
    BY <1>1, <1>2, <2>1, <2>3, PutBack
  <2>5. ConnOf(l.ses) = Conn /\ (Open(Aged, E) => Holding(l.ses)) /\ (Done(Aged, E) => Blank(l.ses))
    BY <1>1, <1>2, <2>1, FoundSession
  <2>6. emitted' = E
    BY <2>4 DEF E
  <2>7. Open(Aged, E) => Open(table', E)
    BY <2>4, <2>5 DEF Open
  <2>8. Done(Aged, E) => Done(table', E)
    BY <2>4, <2>5 DEF Done
  <2>9. QED
    BY <1>1, <2>4, <2>6, <2>7, <2>8
<1>4. CASE p = other
  <2>1. {p.src, p.dst} # Conn
    BY <1>4, ControlPackets
  <2>2. /\ \A b \in Bucket : \A s : ConnOf(s) = Conn => (s \in table'[b] <=> s \in Aged[b])
        /\ now' = now
    BY <1>1, <1>2, <2>1, Elsewhere
  <2>3. PICK f : emitted' = E \cup f /\ \A r \in f : r.conn # Conn
    BY <1>1, <1>2, <2>1, Elsewhere DEF E
  <2>4. /\ \A k : RecordsFor(E \cup f, k) = RecordsFor(E, k)
        /\ \A k : Once(E, k) => Once(E \cup f, k)
        /\ Paired(E) => Paired(E \cup f)
    BY <2>3, OtherRecords
  <2>5. Open(Aged, E) => Open(table', E \cup f)
    BY <2>2, <2>4 DEF Open
  <2>6. Done(Aged, E) => Done(table', E \cup f)
    BY <2>2, <2>4 DEF Done
  <2>7. QED
    BY <1>1, <2>2, <2>3, <2>4, <2>5, <2>6
<1>5. QED
  BY <1>3, <1>4

(* A copy of the last data segment, as long as its exchange is in the      *)
(* table.                                                                  *)
LEMMA LatestFacts ==
    ASSUME Dialogue, asked > 0
    PROVE  /\ Latest \in Packets /\ {Latest.src, Latest.dst} = Conn
           /\ ~Latest.over /\ Latest.data # NoData
           /\ answered > 0 => ~IsRequest(Latest)
<1>1. asked \in 1 .. Exchanges /\ 1 \in 1 .. Parts
  BY ConversationAssumption DEF Dialogue
<1>2. CASE answered = 0
  BY <1>1, <1>2, PacketFacts, PacketKinds DEF Latest
<1>3. CASE answered # 0
  <2>1. answered \in 1 .. Parts
    BY <1>3, ConversationAssumption DEF Dialogue
  <2>2. QED
    BY <1>1, <1>3, <2>1, PacketFacts, PacketKinds DEF Latest
<1>4. QED
  BY <1>2, <1>3

LEMMA CopyDropped ==
    ASSUME CInv, ~atEnd, arrived < MaxPackets, asked > 0, NEW p, p = Latest, Process(p),
           Open(Aged, emitted \cup SentByCheck)
    PROVE  /\ emitted' = emitted \cup SentByCheck /\ now' = now
           /\ \E b \in Bucket : \E s \in table'[b] :
                 ConnOf(s) = Conn /\ Holding(s) /\ s.refresh = now
<1>1. IInv /\ Dialogue
  BY DEF CInv, LInv
<1>2. p \in Packets /\ {p.src, p.dst} = Conn /\ ~p.over
  BY <1>1, LatestFacts
<1>3. PICK l \in Lookup(p) :
         \/ SessionOver(p, l) \/ RepeatedPacket(p, l) \/ ZeroLength(p, l)
         \/ RequestData(p, l) \/ ResponseData(p, l)
  BY DEF Process
<1>4. ConnOf(l.ses) = Conn /\ Holding(l.ses) /\ l.ses.refresh = now
  BY <1>1, <1>2, FoundSession
<1>5. l.ses.seqNo = p.seq
  BY <1>4 DEF Holding
<1>6. Leave(p, l.others, {l.ses}, {})
  BY <1>1, <1>2, <1>3, <1>5, NothingNew
<1>7. /\ \A b \in Bucket : \A s \in table'[b] : ConnOf(s) = Conn => s \in {l.ses}
      /\ \E b \in Bucket : {l.ses} \subseteq table'[b]
      /\ emitted' = (emitted \cup SentByCheck) \cup {} /\ now' = now
  BY <1>1, <1>2, <1>6, PutBack
<1>8. QED
  BY <1>4, <1>7


(* The next request flushes the whole exchange before it.                  *)
LEMMA RequestStep ==
    ASSUME CInv, ~atEnd, arrived < MaxPackets, ~closed, ~Busy, asked < Exchanges,
           NEW p, p = Request(asked + 1), Process(p),
           asked' = asked + 1, answered' = 0, UNCHANGED closed, quiet' = now
    PROVE  Open(table, emitted)' /\ Paired(emitted)'
<1> DEFINE E == emitted \cup SentByCheck
<1>1. /\ Open(Aged, E) \/ Done(Aged, E)
      /\ Paired(E) /\ IInv /\ Dialogue
  BY AgedBetween DEF CInv, LInv
<1>2. asked \in Nat /\ asked + 1 \in 1 .. Exchanges /\ answered \in 0 .. Parts /\ Parts \in 1 .. 9
  BY <1>1, ConversationAssumption DEF Dialogue
<1>3. 1 \in 1 .. Parts
  BY <1>2
<1>4. /\ p \in Packets /\ {p.src, p.dst} = Conn /\ IsRequest(p) /\ ~p.over
      /\ p.data # NoData /\ p.seq = 10 * (asked + 1)
  BY <1>2, <1>3, PacketFacts, PacketKinds
<1>5. PICK l \in Lookup(p) :
         \/ SessionOver(p, l) \/ RepeatedPacket(p, l) \/ ZeroLength(p, l)
         \/ RequestData(p, l) \/ ResponseData(p, l)
  BY DEF Process
<1> DEFINE z == l.ses
<1>6. /\ z \in Session /\ ConnOf(z) = Conn /\ z.refresh = now
      /\ Open(Aged, E) => Holding(z)
      /\ Done(Aged, E) => Blank(z)
  BY <1>1, <1>4, FoundSession
<1> HIDE DEF E
<1>7. /\ z.seqNo # p.seq
      /\ (z.reqBuf = << >> /\ z.rspBuf = << >>) \/ Sent(z) = {HolderOf(z)}
      /\ Paired(E \cup Sent(z))
      /\ \A k \in 1 .. asked : Once(E \cup Sent(z), k)
  <2>1. CASE Open(Aged, E)
    <3>1. asked > 0 /\ answered = Parts /\ Holding(z)
      BY <1>2, <1>6, <2>1 DEF Open, Busy
    <3>2. Sent(z) = {HolderOf(z)}
      BY <1>1, <1>6, <3>1, WholeIsSent
    <3>3. Payloads(z.reqBuf) = <<asked>> /\ Payloads(z.rspBuf) = WholeAnswer(asked)
      BY <1>1, <1>6, <3>1, HoldingPayloads
    <3>4. z.seqNo = 10 * asked + Parts
      BY <1>2, <3>1 DEF Holding, Latest, Answer
    <3>5. z.seqNo # p.seq
      BY <1>2, <1>4, <3>4
    <3> DEFINE x == HolderOf(z)
               f == Sent(z)
    <3>6. x.conn = Conn /\ Payloads(x.req) = <<asked>> /\ Payloads(x.rsp) = WholeAnswer(asked)
      BY <1>6, <3>3 DEF HolderOf
    <3>7. (\A k \in 1 .. asked - 1 : Once(E, k)) /\ RecordsFor(E, asked) = {}
      BY <2>1 DEF Open
    <3>8. x \in f /\ \A r \in f : r.conn = Conn => r = x
      BY <3>2
    <3> HIDE DEF x, f
    <3>9. Paired(E \cup f) /\ \A k \in 1 .. asked : Once(E \cup f, k)
      BY <1>1, <1>2, <3>1, <3>6, <3>7, <3>8, NewRecord
    <3>10. QED
      BY <3>2, <3>5, <3>9 DEF f
  <2>2. CASE Done(Aged, E)
    <3>1. z.reqBuf = << >> /\ z.rspBuf = << >> /\ z.seqNo # p.seq
      BY <1>6, <2>2 DEF Blank
    <3>2. Sent(z) = {}
      BY <3>1 DEF Sent
    <3>3. E \cup Sent(z) = E
      BY <3>2
    <3>4. QED
      BY <1>1, <2>2, <3>1, <3>3 DEF Done
  <2>3. QED
    BY <1>1, <2>1, <2>2
<1>8. PICK k : /\ k.reqBuf = <<Seen(p)>> /\ k.rspBuf = << >>
               /\ k.seqNo = p.seq /\ k.refresh = now /\ ConnOf(k) = Conn
               /\ Leave(p, l.others, {k}, Sent(z))
  BY <1>1, <1>4, <1>5, <1>6, <1>7, RequestTaken
<1>9. /\ \A b \in Bucket : \A s \in table'[b] : ConnOf(s) = Conn => s \in {k}
      /\ \E b \in Bucket : {k} \subseteq table'[b]
      /\ emitted' = (emitted \cup SentByCheck) \cup Sent(z) /\ now' = now
  BY <1>1, <1>4, <1>8, PutBack
<1> DEFINE G == E \cup Sent(z)
<1>10. emitted' = G
  BY <1>9 DEF E
<1>11. Paired(G) /\ \A j \in 1 .. asked : Once(G, j)
  BY <1>7
<1> HIDE DEF G, z
<1>12. RecordsFor(G, asked + 1) = {}
  <2>1. \A r \in G : r.conn = Conn => Payloads(r.req) # <<asked + 1>>
    <3>1. SUFFICES ASSUME NEW r \in G, r.conn = Conn PROVE Payloads(r.req) # <<asked + 1>>
      OBVIOUS
    <3>2. PICK j \in 1 .. asked : Payloads(r.req) = <<j>>
      BY <1>11, <3>1 DEF Paired
    <3>3. j # asked + 1
      BY <1>2, <3>2
    <3>4. QED
      BY <3>2, <3>3, SameAsked
  <2>2. QED
    BY <2>1 DEF RecordsFor
<1>13. Paired(emitted)'
  <2>1. \A j \in 1 .. asked : j \in 1 .. asked'
    BY <1>2
  <2>2. QED
    BY <1>10, <1>11, <2>1 DEF Paired
<1>14. Holding(k)'
  <2>1. PacketsOf(k.reqBuf) = <<p>>
    <3>1. DOMAIN <<Seen(p)>> = 1 .. 1 /\ <<Seen(p)>>[1] = Seen(p) /\ Seen(p).pkt = p
      BY DEF Seen
    <3>2. PacketsOf(k.reqBuf) = [i \in 1 .. 1 |-> p]
      BY <1>8, <3>1 DEF PacketsOf
    <3>3. [i \in 1 .. 1 |-> p] = <<p>>
      OBVIOUS
    <3>4. QED
      BY <3>2, <3>3
  <2>2. PacketsOf(k.rspBuf) = Given(answered)'
    <3>1. DOMAIN << >> = {} /\ 1 .. 0 = {}
      OBVIOUS
    <3>2. PacketsOf(<< >>) = [i \in {} |-> Answer(asked', i)]
      BY <3>1 DEF PacketsOf
    <3>3. QED
      BY <1>8, <3>1, <3>2 DEF Given
  <2>3. k.refresh >= quiet'
    BY <1>1, <1>8, HandleAssumption DEF IInv, TypeOK
  <2>4. Latest' = p
    BY DEF Latest
  <2>5. QED
    BY <1>8, <2>1, <2>2, <2>3, <2>4 DEF Holding
<1>15. Open(table, emitted)'
  <2>1. asked' > 0 /\ asked' - 1 = asked /\ asked' = asked + 1
    BY <1>2
  <2>2. (\A j \in 1 .. asked' - 1 : Once(emitted', j)) /\ RecordsFor(emitted', asked') = {}
    BY <1>10, <1>11, <1>12, <2>1
  <2>3. \E b \in Bucket : \E s \in table'[b] : ConnOf(s) = Conn /\ Holding(s)'
    BY <1>8, <1>9, <1>14
  <2>4. QED
    BY <2>1, <2>2, <2>3 DEF Open, Once, RecordsFor
<1>16. QED
  BY <1>13, <1>15


(* The next segment of the answer joins its request, which is in the table *)
(* because the answer is in time.                                          *)
LEMMA AnswerStep ==
    ASSUME CInv, ~atEnd, arrived < MaxPackets, Busy,
           NEW p, p = Answer(asked, answered + 1), Process(p),
           answered' = answered + 1, UNCHANGED <<asked, closed>>, quiet' = now
    PROVE  Open(table, emitted)' /\ Paired(emitted)'
<1> DEFINE E == emitted \cup SentByCheck
<1>1. Open(Aged, E) /\ Paired(E) /\ IInv /\ Dialogue
  BY AgedBetween DEF CInv, LInv, Done
<1>2. /\ asked \in Nat /\ asked > 0 /\ asked \in 1 .. Exchanges
      /\ answered \in Nat /\ answered + 1 \in 1 .. Parts /\ Parts \in 1 .. 9
  BY <1>1, ConversationAssumption DEF Dialogue, Busy
<1>3. /\ p \in Packets /\ {p.src, p.dst} = Conn /\ ~IsRequest(p) /\ ~p.over
      /\ p.data # NoData /\ p.seq = 10 * asked + (answered + 1)
  BY <1>2, PacketFacts, PacketKinds
<1>4. PICK l \in Lookup(p) :
         \/ SessionOver(p, l) \/ RepeatedPacket(p, l) \/ ZeroLength(p, l)
         \/ RequestData(p, l) \/ ResponseData(p, l)
  BY DEF Process
<1> DEFINE z == l.ses
<1>5. z \in Session /\ ConnOf(z) = Conn /\ z.refresh = now /\ Holding(z)
  BY <1>1, <1>3, FoundSession
<1>6. z.seqNo # p.seq
  <2>1. z.seqNo = 10 * asked + answered
    BY <1>2, <1>5 DEF Holding, Latest, Request, Answer
  <2>2. QED
    BY <1>2, <1>3, <2>1
<1>7. PICK k : /\ k.reqBuf = z.reqBuf /\ k.rspBuf = Append(z.rspBuf, Seen(p))
               /\ k.seqNo = p.seq /\ k.refresh = now /\ ConnOf(k) = Conn
               /\ Leave(p, l.others, {k}, {})
  BY <1>1, <1>3, <1>4, <1>5, <1>6, ResponseTaken
<1>8. /\ \A b \in Bucket : \A s \in table'[b] : ConnOf(s) = Conn => s \in {k}
      /\ \E b \in Bucket : {k} \subseteq table'[b]
      /\ emitted' = (emitted \cup SentByCheck) \cup {} /\ now' = now
  BY <1>1, <1>3, <1>7, PutBack
<1>9. emitted' = E
  BY <1>8
<1> HIDE DEF E, z
<1>10. Paired(emitted)'
  BY <1>1, <1>9 DEF Paired
<1>11. PacketsOf(k.rspBuf) = Given(answered)'
  <2> DEFINE d == Append(z.rspBuf, Seen(p))
             n == answered
  <2>1. /\ DOMAIN z.rspBuf = 1 .. n
        /\ \A i \in 1 .. n : z.rspBuf[i].pkt = Answer(asked, i)
    BY <1>1, <1>2, <1>5, HoldingFacts
  <2>2. z.rspBuf \in Seq(Captured) /\ n \in Nat
    BY <1>2, <1>5 DEF Session
  <2>3. Len(z.rspBuf) = n
    BY <2>1, <2>2, SequenceFacts
  <2>4. /\ DOMAIN d = 1 .. (n + 1)
        /\ \A i \in 1 .. n : d[i] = z.rspBuf[i]
        /\ d[n + 1] = Seen(p)
    BY <2>2, <2>3
  <2>5. Seen(p).pkt = Answer(asked, n + 1)
    BY DEF Seen
  <2> HIDE DEF d, n
  <2>6. \A i \in 1 .. (n + 1) : i \in 1 .. n \/ i = n + 1
    BY <2>2
  <2>7. \A i \in 1 .. (n + 1) : d[i].pkt = Answer(asked, i)
    BY <2>1, <2>4, <2>5, <2>6
  <2>8. PacketsOf(d) = [i \in 1 .. (n + 1) |-> Answer(asked, i)]
    BY <2>4, <2>7 DEF PacketsOf
  <2>9. QED
    BY <1>7, <2>8 DEF d, n, Given
<1>12. Holding(k)'
  <2>1. PacketsOf(k.reqBuf) = <<Request(asked)>>
    BY <1>5, <1>7 DEF Holding
  <2>2. k.refresh >= quiet'
    BY <1>1, <1>7, HandleAssumption DEF IInv, TypeOK
  <2>3. Latest' = p
    BY <1>2 DEF Latest
  <2>4. QED
    BY <1>7, <1>11, <2>1, <2>2, <2>3 DEF Holding
<1>13. Open(table, emitted)'
  <2>1. \E b \in Bucket : \E s \in table'[b] : ConnOf(s) = Conn /\ Holding(s)'
    BY <1>7, <1>8, <1>12
  <2>2. /\ asked > 0 /\ ~closed
        /\ \A j \in 1 .. asked - 1 : Once(E, j)
        /\ RecordsFor(E, asked) = {}
    BY <1>1 DEF Open
  <2>3. QED
    BY <1>9, <2>1, <2>2 DEF Open, Once, RecordsFor
<1>14. QED
  BY <1>10, <1>13

(* A retransmission comes while its exchange is in the table.              *)
LEMMA RetransmitStep ==
    ASSUME CInv, ~atEnd, arrived < MaxPackets, ~closed, now - quiet <= MaxDelay,
           NEW p \in last, Process(p),
           UNCHANGED <<asked, answered, closed>>, quiet' = now
    PROVE  Open(table, emitted)' /\ Paired(emitted)'
<1> DEFINE E == emitted \cup SentByCheck
<1>1. /\ Open(Aged, E) \/ Done(Aged, E)
      /\ Paired(E) /\ IInv /\ Dialogue
  BY AgedBetween DEF CInv, LInv
<1>2. asked > 0 /\ p = Latest
  <2>1. last = IF asked = 0 THEN {} ELSE {Latest}
    BY <1>1 DEF Dialogue
  <2>2. asked # 0 /\ p = Latest
    BY <2>1
  <2>3. QED
    BY <1>1, <2>2, ConversationAssumption DEF Dialogue
<1>3. Open(Aged, E)
  <2>1. ~(now - quiet > MaxDelay)
    BY <1>1, HandleAssumption, ConversationAssumption DEF IInv, TypeOK, Dialogue
  <2>2. ~Done(Aged, E)
    BY <1>2, <2>1 DEF Done
  <2>3. QED
    BY <1>1, <2>2
<1>4. /\ emitted' = emitted \cup SentByCheck /\ now' = now
      /\ \E b \in Bucket : \E s \in table'[b] : ConnOf(s) = Conn /\ Holding(s) /\ s.refresh = now
  BY <1>2, <1>3, CopyDropped
<1>5. \E b \in Bucket : \E s \in table'[b] : ConnOf(s) = Conn /\ Holding(s)'
  <2>1. now >= now
    BY <1>1, HandleAssumption DEF IInv, TypeOK
  <2>2. \A s : Holding(s) /\ s.refresh = now => Holding(s)'
    BY <2>1 DEF Holding, Latest, Given
  <2>3. QED
    BY <1>4, <2>2
<1>6. emitted' = E
  BY <1>4
<1> HIDE DEF E
<1>7. Open(table, emitted)'
  BY <1>3, <1>5, <1>6 DEF Open, Once, RecordsFor
<1>8. QED
  BY <1>1, <1>6, <1>7 DEF Paired


(* The FIN, or its copy at the end of the file: what the connection still  *)
(* holds is recorded.                                                      *)
LEMMA FinFlushes ==
    ASSUME CInv, ~atEnd, arrived < MaxPackets, ~Busy, NEW p, p = Fin, Process(p)
    PROVE  /\ Paired(emitted') /\ \A k \in 1 .. asked : Once(emitted', k)
           /\ \A b \in Bucket : \A s \in table'[b] : ConnOf(s) # Conn
           /\ now' = now
<1> DEFINE E == emitted \cup SentByCheck
<1>1. /\ Open(Aged, E) \/ Done(Aged, E)
      /\ Paired(E) /\ IInv /\ Dialogue
  BY AgedBetween DEF CInv, LInv
<1>2. p \in Packets /\ {p.src, p.dst} = Conn /\ p.over
  BY PacketFacts, ControlPackets
<1>3. PICK l \in Lookup(p) : Leave(p, l.others, {}, Sent(l.ses))
  BY <1>2 DEF Process, SessionOver, RepeatedPacket, ZeroLength, RequestData, ResponseData, NewData
<1> DEFINE z == l.ses
<1>4. /\ z \in Session /\ ConnOf(z) = Conn
      /\ Open(Aged, E) => Holding(z)
      /\ Done(Aged, E) => Blank(z)
  BY <1>1, <1>2, FoundSession
<1>5. /\ \A b \in Bucket : \A s \in table'[b] : ConnOf(s) = Conn => s \in {}
      /\ \E b \in Bucket : {} \subseteq table'[b]
      /\ emitted' = (emitted \cup SentByCheck) \cup Sent(z) /\ now' = now
  BY <1>1, <1>2, <1>3, PutBack
<1>6. emitted' = E \cup Sent(z)
  BY <1>5
<1> HIDE DEF E
<1>7. Paired(E \cup Sent(z)) /\ \A k \in 1 .. asked : Once(E \cup Sent(z), k)
  <2>1. CASE Open(Aged, E)
    <3>1. asked > 0 /\ answered = Parts /\ Holding(z) /\ asked \in Nat
      BY <1>1, <1>4, <2>1, ConversationAssumption DEF Open, Busy, Dialogue
    <3>2. Sent(z) = {HolderOf(z)}
      BY <1>1, <1>4, <3>1, WholeIsSent
    <3>3. Payloads(z.reqBuf) = <<asked>> /\ Payloads(z.rspBuf) = WholeAnswer(asked)
      BY <1>1, <1>4, <3>1, HoldingPayloads
    <3> DEFINE x == HolderOf(z)
               f == Sent(z)
    <3>4. x.conn = Conn /\ Payloads(x.req) = <<asked>> /\ Payloads(x.rsp) = WholeAnswer(asked)
      BY <1>4, <3>3 DEF HolderOf
    <3>5. (\A k \in 1 .. asked - 1 : Once(E, k)) /\ RecordsFor(E, asked) = {}
      BY <2>1 DEF Open
    <3>6. x \in f /\ \A r \in f : r.conn = Conn => r = x
      BY <3>2
    <3> HIDE DEF x, f
    <3>7. Paired(E \cup f) /\ \A k \in 1 .. asked : Once(E \cup f, k)
      BY <1>1, <3>1, <3>4, <3>5, <3>6, NewRecord
    <3>8. QED
      BY <3>7 DEF f
  <2>2. CASE Done(Aged, E)
    <3>1. E \cup Sent(z) = E
      BY <1>4, <2>2 DEF Blank, Sent
    <3>2. QED
      BY <1>1, <2>2, <3>1 DEF Done
  <2>3. QED
    BY <1>1, <2>1, <2>2
<1> HIDE DEF z
<1>8. QED
  BY <1>5, <1>6, <1>7

LEMMA CloseStep ==
    ASSUME CInv, ~atEnd, arrived < MaxPackets, ~Busy, NEW p, p = Fin, Process(p),
           UNCHANGED <<asked, answered, quiet>>, closed' = TRUE
    PROVE  Done(table, emitted)' /\ Paired(emitted)'
<1>1. /\ Paired(emitted') /\ \A k \in 1 .. asked : Once(emitted', k)
      /\ \A b \in Bucket : \A s \in table'[b] : ConnOf(s) # Conn
  BY FinFlushes
<1>2. ~Busy'
  BY DEF Busy
<1>3. Paired(emitted)'
  BY <1>1 DEF Paired
<1>4. QED
  BY <1>1, <1>2, <1>3 DEF Done, Once, RecordsFor

(* The end of the file: the last frame is processed again.                 *)
LEMMA EndStep ==
    ASSUME CInv, ~atEnd, arrived < MaxPackets, NEW p \in frame, Process(p)
    PROVE  Over(table', emitted') /\ Paired(emitted')
<1> DEFINE E == emitted \cup SentByCheck
<1>1. /\ Open(Aged, E) \/ Done(Aged, E)
      /\ Paired(E) /\ IInv /\ LInv /\ Dialogue
  BY AgedBetween DEF CInv, LInv
<1>2. p \in Packets /\ LInv' /\ TableOK(table')
  <2>1. p \in Packets
    <3>1. \/ p \in {Ack, Fin, other}
          \/ asked # 0 /\ p = Latest
      BY <1>1 DEF Dialogue
    <3>2. asked # 0 => Latest \in Packets
      BY <1>1, LatestFacts, ConversationAssumption DEF Dialogue
    <3>3. QED
      BY <3>1, <3>2, PacketFacts
  <2>2. LInv'
    BY <1>1, <2>1, NextLInv DEF Next
  <2>3. QED
    BY <2>1, <2>2 DEF LInv, IInv
<1> HIDE DEF E
<1>3. CASE p \in {Ack, other}
  <2>1. /\ Open(table', emitted') \/ Done(table', emitted')
        /\ Paired(emitted')
    BY <1>3, Aside
  <2>2. QED
    BY <1>1, <1>2, <2>1, BetweenIsOver
<1>4. CASE p = Fin
  <2>1. closed
    <3>1. Fin # Ack
      BY DEF Fin, Ack
    <3>2. Fin # other
      BY ControlPackets
    <3>3. asked > 0 => Fin # Latest
      BY <1>1, LatestFacts, ControlPackets
    <3>4. last = IF asked = 0 THEN {} ELSE {Latest}
      BY <1>1 DEF Dialogue
    <3>5. asked # 0 => asked > 0
      BY <1>1, ConversationAssumption DEF Dialogue
    <3>6. Fin \notin last \cup {Ack, other}
      BY <3>1, <3>2, <3>3, <3>4, <3>5
    <3>7. QED
      BY <1>1, <1>4, <3>6 DEF Dialogue
  <2>2. ~Busy
    BY <1>1, <2>1 DEF Dialogue
  <2>3. /\ Paired(emitted') /\ \A k \in 1 .. asked : Once(emitted', k)
        /\ \A b \in Bucket : \A s \in table'[b] : ConnOf(s) # Conn
    BY <1>4, <2>2, FinFlushes
  <2>4. QED
    BY <2>3 DEF Over
<1>5. CASE p \notin {Ack, Fin, other}
  <2>1. ~closed /\ p = Latest /\ asked > 0
    <3>1. ~closed /\ p \in last
      BY <1>1, <1>5 DEF Dialogue
    <3>2. asked # 0 /\ p = Latest
      BY <1>1, <3>1 DEF Dialogue
    <3>3. QED
      BY <1>1, <3>1, <3>2, ConversationAssumption DEF Dialogue
  <2>2. CASE Open(Aged, E)
    <3>1. /\ emitted' = emitted \cup SentByCheck /\ now' = now
          /\ \E b \in Bucket : \E s \in table'[b] : ConnOf(s) = Conn /\ Holding(s) /\ s.refresh = now
      BY <2>1, <2>2, CopyDropped DEF E
    <3>2. Open(table', E)
      BY <2>2, <3>1 DEF Open
    <3>3. emitted' = E
      BY <3>1 DEF E
    <3>4. QED
      BY <1>1, <1>2, <3>2, <3>3, BetweenIsOver
  <2>3. CASE Done(Aged, E)
    <3>1. answered > 0
      BY <1>1, <2>1, <2>3, ConversationAssumption DEF Done, Busy, Dialogue
    <3>2. {p.src, p.dst} = Conn /\ ~IsRequest(p) /\ ~p.over /\ p.data # NoData
      BY <1>1, <2>1, <3>1, LatestFacts
    <3>3. PICK l \in Lookup(p) :
             \/ SessionOver(p, l) \/ RepeatedPacket(p, l) \/ ZeroLength(p, l)
             \/ RequestData(p, l) \/ ResponseData(p, l)
      BY DEF Process
    <3>4. l.ses \in Session /\ ConnOf(l.ses) = Conn /\ l.ses.reqBuf = << >> /\ l.ses.rspBuf = << >>
      BY <1>1, <1>2, <2>3, <3>2, FoundSession DEF Blank
    <3>5. DOMAIN << >> = {} /\ Append(<< >>, Seen(p)) = <<Seen(p)>> /\ DOMAIN <<Seen(p)>> = {1}
      OBVIOUS
    <3>6. PICK k : NoCopies(k) /\ Leave(p, l.others, {k}, {})
      <4>1. CASE l.ses.seqNo = p.seq
        <5>1. Leave(p, l.others, {l.ses}, {})
          BY <1>1, <1>2, <3>2, <3>3, <4>1, NothingNew
        <5>2. NoCopies(l.ses)
          BY <3>4, <3>5 DEF NoCopies
        <5>3. QED
          BY <5>1, <5>2
      <4>2. CASE l.ses.seqNo # p.seq
        <5>1. PICK k : /\ k.reqBuf = l.ses.reqBuf /\ k.rspBuf = Append(l.ses.rspBuf, Seen(p))
                       /\ Leave(p, l.others, {k}, {})
          BY <1>1, <1>2, <3>2, <3>3, <3>4, <4>2, ResponseTaken
        <5>2. k.reqBuf = << >> /\ k.rspBuf = <<Seen(p)>>
          BY <3>4, <3>5, <5>1
        <5>3. NoCopies(k)
          BY <3>5, <5>2 DEF NoCopies
        <5>4. QED
          BY <5>1, <5>3
      <4>3. QED
        BY <4>1, <4>2
    <3>7. /\ \A b \in Bucket : \A s \in table'[b] : ConnOf(s) = Conn => s \in {k}
          /\ \E b \in Bucket : {k} \subseteq table'[b]
          /\ emitted' = (emitted \cup SentByCheck) \cup {} /\ now' = now
      BY <1>1, <1>2, <3>2, <3>6, PutBack
    <3>8. emitted' = E
      BY <3>7 DEF E
    <3>9. QED
      BY <1>1, <2>1, <3>6, <3>7, <3>8 DEF Over
  <2>4. QED
    BY <1>1, <2>2, <2>3
<1>6. QED
  BY <1>3, <1>4, <1>5


-----------------------------------------------------------------------------
LEMMA ProcessCounts ==
    ASSUME NEW p, Process(p) PROVE arrived' = arrived + 1 /\ now' = now
BY DEF Process, SessionOver, RepeatedPacket, ZeroLength, RequestData, ResponseData, Leave

LEMMA InitCInv == ConversationInit => CInv
<1>. SUFFICES ASSUME ConversationInit PROVE CInv
  OBVIOUS
<1>1. LInv
  BY InitLInv DEF ConversationInit
<1>2. emitted = {} /\ now = 0 /\ \A b \in Bucket : table[b] = {}
  BY DEF ConversationInit, Init
<1>3. Dialogue
  <2>1. 0 \in 0 .. Exchanges /\ 0 \in 0 .. Parts /\ 0 \in 0 .. 0
    BY ConversationAssumption
  <2>2. ~Busy
    BY DEF ConversationInit, Busy
  <2>3. QED
    BY <1>2, <2>1, <2>2 DEF ConversationInit, Dialogue
<1>4. Paired(emitted)
  BY <1>2 DEF Paired
<1>5. Done(table, emitted)
  <2>1. asked = 0 /\ ~Busy /\ 1 .. 0 = {}
    BY DEF ConversationInit, Busy
  <2>2. QED
    BY <1>2, <2>1 DEF Done
<1>6. QED
  BY <1>1, <1>3, <1>4, <1>5 DEF CInv, ConversationInit

(* Every step of the conversation is one of the packet handler's.          *)
LEMMA StepIsHandled ==
    ASSUME CInv, ConversationNext
    PROVE  [Next]_vars
<1>1. ASSUME NEW p \in Packets, Captures(p) PROVE Next
  <2>1. arrived < MaxPackets
    BY <1>1, HandleAssumption DEF Captures, CInv, LInv, IInv, TypeOK
  <2>2. QED
    BY <1>1, <2>1 DEF Captures, Next
<1>2. Dialogue
  BY DEF CInv
<1>3. CASE SendRequest
  <2>1. asked + 1 \in 1 .. Exchanges
    BY <1>2, <1>3, ConversationAssumption DEF SendRequest, Dialogue
  <2>2. QED
    BY <1>1, <1>3, <2>1, PacketFacts DEF SendRequest
<1>4. CASE SendAnswer
  <2>1. asked \in 1 .. Exchanges /\ answered + 1 \in 1 .. Parts
    BY <1>2, <1>4, ConversationAssumption DEF SendAnswer, Dialogue, Busy
  <2>2. QED
    BY <1>1, <1>4, <2>1, PacketFacts DEF SendAnswer
<1>5. \A p \in last : p \in Packets
  <2>1. asked # 0 => Latest \in Packets
    BY <1>2, LatestFacts, ConversationAssumption DEF Dialogue
  <2>2. QED
    BY <1>2, <2>1 DEF Dialogue
<1>6. CASE Retransmit
  BY <1>1, <1>5, <1>6 DEF Retransmit
<1>7. CASE SendAck \/ Close \/ OtherTraffic
  BY <1>1, <1>7, PacketFacts DEF SendAck, Close, OtherTraffic
<1>8. CASE TimePasses
  BY <1>8 DEF TimePasses, Next
<1>9. CASE EndOfFile
  <2>1. CASE UNCHANGED vars
    BY <2>1
  <2>2. CASE \E p \in frame : Process(p)
    <3>1. PICK p \in frame : Process(p)
      BY <2>2
    <3>2. p \in Packets /\ arrived < MaxPackets
      BY <1>2, <1>5, <1>9, <3>1, PacketFacts DEF Dialogue, EndOfFile
    <3>3. QED
      BY <3>1, <3>2 DEF Next
  <2>3. QED
    BY <1>9, <2>1, <2>2 DEF EndOfFile
<1>10. QED
  BY <1>3, <1>4, <1>6, <1>7, <1>8, <1>9 DEF ConversationNext

(* Open and Done read nothing but the peers, the clock and their arguments. *)
LEMMA SameReading ==
    ASSUME UNCHANGED peers, now' = now
    PROVE  /\ Open(table', emitted') => Open(table, emitted)'
           /\ Done(table', emitted') => Done(table, emitted)'
           /\ Paired(emitted') => Paired(emitted)'
           /\ Over(table', emitted') => Over(table, emitted)'
<1>1. /\ asked' = asked /\ answered' = answered /\ quiet' = quiet /\ closed' = closed
      /\ now' = now
  BY DEF peers
<1>2. Open(table', emitted') => Open(table, emitted)'
  BY <1>1 DEF Open, Once, RecordsFor, Holding, Latest, Given
<1>3. Done(table', emitted') => Done(table, emitted)'
  BY <1>1 DEF Done, Once, RecordsFor, Blank, Busy
<1>4. Paired(emitted') => Paired(emitted)'
  BY <1>1 DEF Paired
<1>5. Over(table', emitted') => Over(table, emitted)'
  BY <1>1 DEF Over, Once, RecordsFor
<1>6. QED
  BY <1>2, <1>3, <1>4, <1>5


LEMMA NextCInv == CInv /\ [ConversationNext]_<<vars, peers, reader>> => CInv'
<1>. SUFFICES ASSUME CInv, [ConversationNext]_<<vars, peers, reader>> PROVE CInv'
  OBVIOUS
<1>1. Dialogue /\ LInv /\ Paired(emitted)
  BY DEF CInv
<1>2. /\ now \in Int /\ arrived \in Int /\ MaxPackets \in Int
      /\ asked \in 0 .. Exchanges /\ answered \in 0 .. Parts /\ quiet \in 0 .. now
      /\ Exchanges \in Nat /\ Parts \in 1 .. 9 /\ MaxDelay \in Nat
  BY <1>1, HandleAssumption, ConversationAssumption DEF LInv, IInv, TypeOK, Dialogue
<1>3. ASSUME NEW p, Captures(p)
      PROVE  /\ ~atEnd /\ atEnd' = atEnd /\ arrived < MaxPackets /\ Process(p)
             /\ frame' = {p} /\ arrived' < MaxPackets /\ now' = now
  BY <1>2, <1>3, ProcessCounts DEF Captures
<1>4. ASSUME ConversationNext PROVE LInv'
  BY <1>1, <1>4, StepIsHandled, NextLInv
<1>5. CASE SendRequest
  <2> DEFINE p == Request(asked + 1)
  <2>1. /\ Captures(p) /\ ~closed /\ ~Busy /\ asked < Exchanges
        /\ asked' = asked + 1 /\ answered' = 0 /\ last' = {p} /\ quiet' = now
        /\ UNCHANGED closed
    BY <1>5 DEF SendRequest
  <2>2. /\ ~atEnd /\ atEnd' = atEnd /\ arrived < MaxPackets /\ Process(p)
        /\ frame' = {p} /\ arrived' < MaxPackets /\ now' = now
    BY <1>3, <2>1
  <2>3. Open(table, emitted)' /\ Paired(emitted)'
    BY <2>1, <2>2, RequestStep
  <2>4. Latest' = p
    BY <2>1 DEF Latest
  <2> HIDE DEF p
  <2>5. asked' \in 0 .. Exchanges /\ answered' \in 0 .. Parts /\ quiet' \in 0 .. now' /\ asked' # 0
    BY <1>2, <2>1, <2>2
  <2>6. Busy' => now' - quiet' <= MaxDelay /\ ~closed'
    BY <1>2, <2>1, <2>2
  <2>7. Dialogue'
    BY <1>1, <2>1, <2>2, <2>4, <2>5, <2>6 DEF Dialogue, Captures
  <2>8. QED
    BY <1>4, <1>5, <2>2, <2>3, <2>7 DEF CInv, ConversationNext
<1>6. CASE SendAnswer
  <2> DEFINE p == Answer(asked, answered + 1)
  <2>1. /\ Captures(p) /\ Busy
        /\ answered' = answered + 1 /\ last' = {p} /\ quiet' = now
        /\ UNCHANGED <<asked, closed>>
    BY <1>6 DEF SendAnswer
  <2>2. /\ ~atEnd /\ atEnd' = atEnd /\ arrived < MaxPackets /\ Process(p)
        /\ frame' = {p} /\ arrived' < MaxPackets /\ now' = now
    BY <1>3, <2>1
  <2>3. Open(table, emitted)' /\ Paired(emitted)'
    BY <2>1, <2>2, AnswerStep
  <2>4. Latest' = p
    BY <1>2, <2>1 DEF Latest
  <2> HIDE DEF p
  <2>5. asked' \in 0 .. Exchanges /\ answered' \in 0 .. Parts /\ quiet' \in 0 .. now' /\ asked' # 0
    BY <1>2, <2>1, <2>2 DEF Busy
  <2>6. ~closed
    BY <1>1, <2>1 DEF Dialogue
  <2>7. Busy' => now' - quiet' <= MaxDelay /\ ~closed'
    BY <1>2, <2>1, <2>2, <2>6
  <2>8. Dialogue'
    BY <1>1, <2>1, <2>2, <2>4, <2>5, <2>6, <2>7 DEF Dialogue, Captures
  <2>9. QED
    BY <1>4, <1>6, <2>2, <2>3, <2>8 DEF CInv, ConversationNext
<1>7. CASE Retransmit
  <2>1. PICK p \in last : Captures(p)
    BY <1>7 DEF Retransmit
  <2>2. /\ ~closed /\ now - quiet <= MaxDelay /\ quiet' = now
        /\ UNCHANGED <<asked, answered, last, closed>>
    BY <1>7 DEF Retransmit
  <2>3. /\ ~atEnd /\ atEnd' = atEnd /\ arrived < MaxPackets /\ Process(p)
        /\ frame' = {p} /\ arrived' < MaxPackets /\ now' = now
    BY <1>3, <2>1
  <2>4. Open(table, emitted)' /\ Paired(emitted)'
    BY <2>2, <2>3, RetransmitStep
  <2>5. Latest' = Latest
    BY <2>2 DEF Latest
  <2>6. quiet' \in 0 .. now'
    BY <1>2, <2>2, <2>3
  <2>7. Busy' => now' - quiet' <= MaxDelay /\ ~closed'
    BY <1>2, <2>2, <2>3
  <2>8. Dialogue'
    BY <1>1, <2>1, <2>2, <2>3, <2>5, <2>6, <2>7 DEF Dialogue
  <2>9. QED
    BY <1>4, <1>7, <2>3, <2>4, <2>8 DEF CInv, ConversationNext
<1>8. CASE SendAck \/ OtherTraffic
  <2>1. PICK p \in {Ack, other} : Captures(p)
    BY <1>8 DEF SendAck, OtherTraffic
  <2>2. UNCHANGED peers
    BY <1>8 DEF SendAck, OtherTraffic
  <2>3. /\ ~atEnd /\ atEnd' = atEnd /\ arrived < MaxPackets /\ Process(p)
        /\ frame' = {p} /\ arrived' < MaxPackets /\ now' = now
    BY <1>3, <2>1
  <2>4. /\ Open(table', emitted') \/ Done(table', emitted')
        /\ Paired(emitted')
    BY <2>1, <2>3, Aside
  <2>5. (Open(table, emitted)' \/ Done(table, emitted)') /\ Paired(emitted)'
    BY <2>2, <2>3, <2>4, SameReading
  <2>6. Latest' = Latest /\ (Busy' <=> Busy)
    BY <2>2 DEF Latest, Busy, peers
  <2>7. Dialogue'
    BY <1>1, <2>1, <2>2, <2>3, <2>6 DEF Dialogue, peers
  <2>8. QED
    BY <1>4, <1>8, <2>3, <2>5, <2>7 DEF CInv, ConversationNext
<1>9. CASE Close
  <2> DEFINE p == Fin
  <2>1. /\ Captures(p) /\ ~closed /\ ~Busy /\ closed' = TRUE
        /\ UNCHANGED <<asked, answered, quiet, last>>
    BY <1>9 DEF Close
  <2>2. /\ ~atEnd /\ atEnd' = atEnd /\ arrived < MaxPackets /\ Process(p)
        /\ frame' = {p} /\ arrived' < MaxPackets /\ now' = now
    BY <1>3, <2>1
  <2>3. Done(table, emitted)' /\ Paired(emitted)'
    BY <2>1, <2>2, CloseStep
  <2>4. Latest' = Latest /\ (Busy' <=> Busy)
    BY <2>1 DEF Latest, Busy
  <2>5. Dialogue'
    BY <1>1, <2>1, <2>2, <2>4 DEF Dialogue
  <2>6. QED
    BY <1>4, <1>9, <2>2, <2>3, <2>5 DEF CInv, ConversationNext
<1>10. CASE TimePasses
  <2>1. /\ Busy => now - quiet < MaxDelay
        /\ now' = now + 1 /\ table' = table /\ emitted' = emitted /\ arrived' = arrived
        /\ UNCHANGED <<peers, reader>>
    BY <1>10 DEF TimePasses, Tick
  <2>2. /\ asked' = asked /\ answered' = answered /\ quiet' = quiet /\ closed' = closed
        /\ last' = last /\ frame' = frame /\ atEnd' = atEnd
    BY <2>1 DEF peers, reader
  <2>3. Latest' = Latest /\ (Busy' <=> Busy)
    BY <2>2 DEF Latest, Busy
  <2>4. /\ quiet \in 0 .. now'
        /\ Busy => now' - quiet <= MaxDelay
        /\ now - quiet > MaxDelay => now' - quiet > MaxDelay
    BY <1>2, <2>1
  <2>5. Dialogue'
    BY <1>1, <2>1, <2>2, <2>3, <2>4 DEF Dialogue
  <2>6. /\ Open(table, emitted) => Open(table, emitted)'
        /\ Done(table, emitted) => Done(table, emitted)'
        /\ Over(table, emitted) => Over(table, emitted)'
        /\ Paired(emitted)'
    <3>1. Open(table, emitted) => Open(table, emitted)'
      BY <2>1, <2>2, <2>3 DEF Open, Once, RecordsFor, Holding, Given
    <3>2. Done(table, emitted) => Done(table, emitted)'
      BY <2>1, <2>2, <2>3, <2>4 DEF Done, Once, RecordsFor, Blank
    <3>3. Over(table, emitted) => Over(table, emitted)'
      BY <2>1, <2>2 DEF Over, Once, RecordsFor
    <3>4. Paired(emitted)'
      BY <1>1, <2>1, <2>2 DEF Paired
    <3>5. QED
      BY <3>1, <3>2, <3>3, <3>4
  <2>7. QED
    BY <1>4, <1>10, <2>2, <2>5, <2>6 DEF CInv, ConversationNext
<1>11. CASE EndOfFile
  <2>1. ~atEnd /\ atEnd' /\ frame' = frame /\ UNCHANGED peers
    BY <1>11 DEF EndOfFile
  <2>2. Latest' = Latest /\ (Busy' <=> Busy)
    BY <2>1 DEF Latest, Busy, peers
  <2>3. Over(table', emitted') /\ Paired(emitted') /\ now' = now
    <3>1. CASE UNCHANGED vars
      <4>1. Open(table, emitted) \/ Done(table, emitted)
        BY <2>1 DEF CInv
      <4>2. Over(table, emitted)
        BY <1>1, <4>1, BetweenIsOver DEF LInv, IInv
      <4>3. table' = table /\ emitted' = emitted /\ now' = now
        BY <3>1 DEF vars
      <4>4. QED
        BY <1>1, <4>2, <4>3
    <3>2. CASE \E p \in frame : Process(p)
      <4>1. PICK p \in frame : Process(p)
        BY <3>2
      <4>2. arrived < MaxPackets
        BY <1>1, <2>1, <4>1 DEF Dialogue
      <4>3. QED
        BY <2>1, <4>1, <4>2, EndStep, ProcessCounts
    <3>3. QED
      BY <1>11, <3>1, <3>2 DEF EndOfFile
  <2>4. Over(table, emitted)' /\ Paired(emitted)'
    BY <2>1, <2>3, SameReading
  <2>5. Dialogue'
    BY <1>1, <2>1, <2>2, <2>3, <1>11 DEF Dialogue, peers, EndOfFile
  <2>6. QED
    BY <1>4, <1>11, <2>1, <2>4, <2>5 DEF CInv, ConversationNext
<1>12. CASE UNCHANGED <<vars, peers, reader>>
  <2>1. UNCHANGED vars /\ UNCHANGED peers /\ UNCHANGED reader
    BY <1>12
  <2>2. LInv'
    BY <1>1, <2>1, NextLInv
  <2>3. /\ now' = now /\ table' = table /\ emitted' = emitted /\ arrived' = arrived
        /\ asked' = asked /\ answered' = answered /\ quiet' = quiet /\ closed' = closed
        /\ last' = last /\ frame' = frame /\ atEnd' = atEnd
    BY <2>1 DEF vars, peers, reader
  <2>4. Dialogue'
    BY <1>1, <2>3 DEF Dialogue, Latest, Busy
  <2>5. /\ Open(table, emitted) => Open(table, emitted)'
        /\ Done(table, emitted) => Done(table, emitted)'
        /\ Paired(emitted) => Paired(emitted)'
        /\ Over(table, emitted) => Over(table, emitted)'
    BY <2>1, <2>3, SameReading
  <2>6. QED
    BY <1>1, <2>2, <2>3, <2>4, <2>5 DEF CInv
<1>13. QED
  BY <1>5, <1>6, <1>7, <1>8, <1>9, <1>10, <1>11, <1>12 DEF ConversationNext


-----------------------------------------------------------------------------
THEOREM ConversationInvariant == ConversationSpec => []CInv
<1>1. QED
  BY InitCInv, NextCInv, PTL DEF ConversationSpec

(* Whatever the reader makes of this capture is what Process may do with   *)
(* any packets: the conversation adds a capture to Handle and no behavior. *)
(* The frame that the end of the file repeats is one more packet.          *)
THEOREM ConversationIsHandled == ConversationSpec => Spec
<1>1. ConversationInit => Init
  BY DEF ConversationInit
<1>2. CInv /\ [ConversationNext]_<<vars, peers, reader>> => [Next]_vars
  <2>1. CASE UNCHANGED <<vars, peers, reader>>
    BY <2>1
  <2>2. QED
    BY <2>1, StepIsHandled
<1>3. QED
  BY <1>1, <1>2, ConversationInvariant, PTL DEF ConversationSpec, Spec

(* Every record of a well-behaved connection is one request with its own   *)
(* whole answer, however long the capture, wherever a timeout check, an    *)
(* idle period, a retransmission or another connection falls.              *)
THEOREM ConversationAnswersMatch == ConversationSpec => []AnswersMatchRequests
<1>1. CInv => AnswersMatchRequests
  BY DEF CInv, Paired, AnswersMatchRequests, Conn
<1>2. QED
  BY <1>1, ConversationInvariant, PTL

(* Once the FIN has been processed every exchange is in exactly one        *)
(* record: by the request after it, by a timeout check or by the FIN.      *)
THEOREM ConversationAllRecorded == ConversationSpec => []EveryExchangeRecorded
<1>1. CInv => EveryExchangeRecorded
  <2>1. SUFFICES ASSUME CInv, closed, NEW k \in 1 .. asked
                 PROVE  Cardinality({r \in emitted : /\ r.conn = {clientEnd, serverEnd}
                                                     /\ Payloads(r.req) = <<k>>}) = 1
    BY DEF EveryExchangeRecorded
  <2>2. Once(emitted, k)
    BY <2>1 DEF CInv, Open, Done, Over
  <2>3. PICK r \in emitted : RecordsFor(emitted, k) = {r}
    BY <2>2 DEF Once
  <2>4. Cardinality({r}) = 1
    BY FS_Singleton
  <2>5. Cardinality(RecordsFor(emitted, k)) = 1
    BY <2>3, <2>4
  <2>6. QED
    BY <2>5 DEF RecordsFor, Conn
<1>2. QED
  BY <1>1, ConversationInvariant, PTL

(* No buffer of the connection takes a segment twice, when the last data   *)
(* segment is captured again or the last frame is processed again.         *)
THEOREM ConversationCopiesDropped == ConversationSpec => []CopiesDropped
<1>1. CInv => CopiesDropped
  <2>1. SUFFICES ASSUME CInv PROVE CopiesDropped
    OBVIOUS
  <2>2. Over(table, emitted)
    BY <2>1, BetweenIsOver DEF CInv, LInv, IInv
  <2>3. \A s \in Sessions : ConnOf(s) = Conn => NoCopies(s)
    BY <2>2 DEF Over, Sessions
  <2>4. QED
    BY <2>3 DEF CopiesDropped, NoCopies, Conn
<1>2. QED
  BY <1>1, ConversationInvariant, PTL
=============================================================================
