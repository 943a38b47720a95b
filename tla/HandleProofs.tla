---------------------------- MODULE HandleProofs ----------------------------
(***************************************************************************)
(* Proofs about the session table, for every set of endpoints and packets, *)
(* every hash that is symmetric in its two ends, any number of buckets and *)
(* any timeouts: first the table itself, then what it holds (each segment  *)
(* is used once and in order, the time stamps of an exchange are its own), *)
(* and that the sessions implement Exchange.                               *)
(***************************************************************************)
EXTENDS Handle, SequenceTheorems, TLAPS

(* SidesKeptApart speaks of one session at a time. *)
Sided(s) ==
    IsPort80(s.server) # IsPort80(s.client) =>
        /\ IsPort80(s.server)
        /\ \A i \in DOMAIN s.reqBuf : s.reqBuf[i].pkt.src = s.client
                                      /\ s.reqBuf[i].pkt.dst = s.server
        /\ \A i \in DOMAIN s.rspBuf : s.rspBuf[i].pkt.src = s.server
                                      /\ s.rspBuf[i].pkt.dst = s.client

Good(s) == s \in Session /\ Sided(s)

(* What is true of a table between two packets, and after the timeout      *)
(* check of the next one.                                                  *)
TableOK(t) ==
    /\ t \in [Bucket -> SUBSET Session]
    /\ \A b \in Bucket : \A s \in t[b] : Sided(s) /\ b = Hash(s.server, s.client)
    /\ \A b \in Bucket : \A s, u \in t[b] : ConnOf(s) = ConnOf(u) => s = u

IInv == TypeOK /\ TableOK(table)

-----------------------------------------------------------------------------
(* Both orientations of a pair of ends name the same connection, and they  *)
(* hash alike.                                                             *)
LEMMA SameConnection ==
    ASSUME NEW a \in Endpoint, NEW b \in Endpoint, NEW s \in Session
    PROVE  /\ IsSameSes(a, b, s) <=> ConnOf(s) = {a, b}
           /\ ConnOf(s) = {a, b} => Hash(s.server, s.client) = Hash(a, b)
BY HandleAssumption DEF IsSameSes, ConnOf, Session

(* One session per connection, said of the buckets and of the whole table. *)
LEMMA TableOneSession ==
    TypeOK /\ TableOK(table) => OneSessionPerConnection /\ SidesKeptApart
<1>. SUFFICES ASSUME TypeOK, TableOK(table) PROVE OneSessionPerConnection /\ SidesKeptApart
  OBVIOUS
<1>1. ASSUME NEW b \in Bucket, NEW c \in Bucket, NEW s \in table[b], NEW t \in table[c]
      PROVE  /\ b = Hash(s.server, s.client)
             /\ ConnOf(s) = ConnOf(t) => b = c /\ s = t
  <2>1. s \in Session /\ t \in Session
    BY DEF TypeOK
  <2>2. b = Hash(s.server, s.client) /\ c = Hash(t.server, t.client)
    BY DEF TableOK
  <2>3. t.server \in Endpoint /\ t.client \in Endpoint /\ ConnOf(t) = {t.server, t.client}
    BY <2>1 DEF Session, ConnOf
  <2>4. ConnOf(s) = ConnOf(t) => b = c
    BY <2>1, <2>2, <2>3, SameConnection
  <2>5. QED
    BY <2>2, <2>4 DEF TableOK
<1>2. SidesKeptApart
  BY DEF TableOK, SidesKeptApart, Sessions, Sided
<1>3. QED
  BY <1>1, <1>2 DEF OneSessionPerConnection

LEMMA ClearedGood ==
    ASSUME NEW s \in Session, Sided(s)
    PROVE  /\ Cleared(s) \in Session /\ Sided(Cleared(s))
           /\ Cleared(s).server = s.server /\ Cleared(s).client = s.client
           /\ Cleared(s).refresh = s.refresh /\ Cleared(s).seqNo = s.seqNo
<1>1. << >> \in Seq(Captured) /\ DOMAIN << >> = {}
  OBVIOUS
<1>2. 0 \in 0 .. MaxPackets
  BY HandleAssumption
<1>3. Cleared(s) \in Session
  BY <1>1, <1>2 DEF Cleared, Session
<1>4. /\ Cleared(s).server = s.server /\ Cleared(s).client = s.client
      /\ Cleared(s).refresh = s.refresh /\ Cleared(s).seqNo = s.seqNo
      /\ Cleared(s).reqBuf = << >> /\ Cleared(s).rspBuf = << >>
  BY DEF Cleared, Session
<1>5. QED
  BY <1>1, <1>3, <1>4 DEF Sided

LEMMA SentRecords ==
    ASSUME NEW s \in Session PROVE Sent(s) \subseteq Record
BY DEF Sent, Session, Record, ConnOf

(* The timeout check drops sessions and empties others: the table stays in *)
(* order, and what the check sends are records.                            *)
LEMMA AgedOK == IInv => TableOK(Aged) /\ SentByCheck \subseteq Record
<1>. SUFFICES ASSUME IInv PROVE TableOK(Aged) /\ SentByCheck \subseteq Record
  OBVIOUS
<1>. USE DEF IInv, TypeOK
<1> DEFINE After(b, s) == IF CheckDue /\ b \in Visited /\ Idle(s) THEN Cleared(s) ELSE s
<1>1. \A b \in Bucket : \A s \in table[b] :
         /\ s \in Session /\ Sided(s)
         /\ After(b, s) \in Session /\ Sided(After(b, s))
         /\ After(b, s).server = s.server /\ After(b, s).client = s.client
  BY ClearedGood DEF TableOK
<1>2. \A b \in Bucket : \A x \in Aged[b] : \E s \in table[b] : x = After(b, s)
  BY DEF Aged
<1> HIDE DEF After
<1>3. Aged \in [Bucket -> SUBSET Session]
  <2>1. \A b \in Bucket : Aged[b] \subseteq Session
    BY <1>1, <1>2
  <2>2. Aged = [b \in Bucket |-> Aged[b]]
    BY DEF Aged
  <2>3. QED
    BY <2>1, <2>2
<1>4. \A b \in Bucket : \A x \in Aged[b] : Sided(x) /\ b = Hash(x.server, x.client)
  BY <1>1, <1>2 DEF TableOK
<1>5. \A b \in Bucket : \A x, y \in Aged[b] : ConnOf(x) = ConnOf(y) => x = y
  <2>. SUFFICES ASSUME NEW b \in Bucket, NEW x \in Aged[b], NEW y \in Aged[b],
                       ConnOf(x) = ConnOf(y)
                PROVE  x = y
    OBVIOUS
  <2>1. PICK s \in table[b], u \in table[b] : x = After(b, s) /\ y = After(b, u)
    BY <1>2
  <2>2. ConnOf(s) = ConnOf(u)
    BY <1>1, <2>1 DEF ConnOf
  <2>3. s = u
    BY <2>2 DEF TableOK
  <2>4. QED
    BY <2>1, <2>3
<1>6. SentByCheck \subseteq Record
  <2>1. \A b \in Visited : b \in Bucket /\ table[b] \subseteq Session
    BY DEF Visited
  <2>2. \A s \in Session : Sent(s) \subseteq Record
    BY SentRecords
  <2>3. QED
    BY <2>1, <2>2 DEF SentByCheck
<1>7. QED
  BY <1>3, <1>4, <1>5, <1>6 DEF TableOK

(* Find or Create yields the one session of the packet's connection; no    *)
(* other session of the bucket is of that connection.                      *)
LEMMA LookupOK ==
    ASSUME IInv, NEW p \in Packets, NEW l \in Lookup(p)
    PROVE  /\ l.ses \in Session /\ Sided(l.ses) /\ ConnOf(l.ses) = {p.src, p.dst}
           /\ l.others \subseteq Aged[Hash(p.src, p.dst)]
           /\ \A s \in l.others : ConnOf(s) # {p.src, p.dst}
<1> DEFINE b == Hash(p.src, p.dst)
           found == {s \in Aged[b] : IsSameSes(p.src, p.dst, s)}
<1>1. p.src \in Endpoint /\ p.dst \in Endpoint /\ p.src # p.dst
  BY HandleAssumption DEF Packet
<1>2. b \in Bucket
  BY <1>1, HandleAssumption DEF Bucket
<1>3. TableOK(Aged) /\ Aged[b] \subseteq Session
  BY <1>2, AgedOK DEF TableOK
<1>4. now \in 0 .. MaxTime
  BY DEF IInv, TypeOK
<1>5. \A s \in Aged[b] : s \in found <=> ConnOf(s) = {p.src, p.dst}
  BY <1>1, <1>3, SameConnection
<1>6. CASE found = {}
  <2>1. l.ses \in NewSessions(p) /\ l.others = Aged[b]
    BY <1>6 DEF Lookup
  <2> DEFINE server == IF ServerHint(p) = p.src THEN p.src ELSE p.dst
  <2>2. l.ses.server = server /\ l.ses.client \in {p.src, p.dst} \ {server}
    BY <2>1 DEF NewSessions
  <2>3. ConnOf(l.ses) = {p.src, p.dst}
    BY <1>1, <2>2 DEF ConnOf
  <2>4. l.ses.reqBuf = << >> /\ l.ses.rspBuf = << >>
    BY <2>1 DEF NewSessions
  <2>5. l.ses \in Session
    <3>1. << >> \in Seq(Captured) /\ 0 \in 0 .. MaxPackets /\ HeapSeq \subseteq SeqNum
      BY HandleAssumption
    <3>2. server \in Endpoint /\ {p.src, p.dst} \ {server} \subseteq Endpoint
      BY <1>1
    <3> HIDE DEF server
    <3>3. NewSessions(p) = [server : {server}, client : {p.src, p.dst} \ {server},
               refresh : {now}, seqNo : HeapSeq, reqBuf : {<< >>}, rspBuf : {<< >>},
               reqTime : {0}, rspTime : {0}]
      BY DEF NewSessions, server
    <3>4. l.ses \in [server : {server}, client : {p.src, p.dst} \ {server},
               refresh : {now}, seqNo : HeapSeq, reqBuf : {<< >>}, rspBuf : {<< >>},
               reqTime : {0}, rspTime : {0}]
      BY <2>1, <3>3
    <3>5. l.ses \in [server : Endpoint, client : Endpoint, refresh : 0 .. MaxTime,
               seqNo : SeqNum, reqBuf : Seq(Captured), rspBuf : Seq(Captured),
               reqTime : 0 .. MaxPackets, rspTime : 0 .. MaxPackets]
      BY <1>4, <3>1, <3>2, <3>4
    <3>6. QED
      BY <3>5 DEF Session
  <2>6. Sided(l.ses)
    <3>1. IsPort80(l.ses.server) # IsPort80(l.ses.client) => IsPort80(l.ses.server)
      <4>1. CASE IsPort80(p.dst)
        BY <1>1, <2>2, <4>1 DEF ServerHint, IsRequest
      <4>2. CASE ~IsPort80(p.dst)
        <5>1. l.ses.server = p.src /\ l.ses.client = p.dst
          BY <1>1, <2>2, <4>2 DEF ServerHint, IsRequest
        <5>2. IsPort80(p.src) \in BOOLEAN /\ IsPort80(p.dst) \in BOOLEAN
          BY <1>1, HandleAssumption
        <5>3. IsPort80(p.src) # IsPort80(p.dst) => IsPort80(p.src)
          BY <4>2, <5>2
        <5>4. QED
          BY <5>1, <5>3
      <4>3. QED
        BY <4>1, <4>2
    <3>2. QED
      BY <2>4, <3>1 DEF Sided
  <2>7. QED
    BY <1>5, <1>6, <2>1, <2>3, <2>5, <2>6
<1>7. CASE found # {}
  <2>1. PICK s \in found : l = [ses |-> [s EXCEPT !.refresh = now], others |-> Aged[b] \ {s}]
    BY <1>7 DEF Lookup
  <2>2. s \in Session /\ Sided(s) /\ ConnOf(s) = {p.src, p.dst}
    BY <1>2, <1>3, <1>5 DEF TableOK
  <2>3. /\ l.ses \in Session
        /\ l.ses.server = s.server /\ l.ses.client = s.client
        /\ l.ses.reqBuf = s.reqBuf /\ l.ses.rspBuf = s.rspBuf
    BY <1>4, <2>1, <2>2 DEF Session
  <2>4. Sided(l.ses) /\ ConnOf(l.ses) = {p.src, p.dst}
    BY <2>2, <2>3 DEF Sided, ConnOf
  <2>5. \A u \in l.others : ConnOf(u) # {p.src, p.dst}
    BY <1>2, <1>3, <2>1, <2>2 DEF TableOK
  <2>6. QED
    BY <2>1, <2>3, <2>4, <2>5
<1>8. QED
  BY <1>6, <1>7

(* Whatever Process does with the session it found, at most that one       *)
(* session goes back to its bucket.                                        *)
LEMMA LeaveOK ==
    ASSUME IInv, NEW p \in Packets, NEW l \in Lookup(p), arrived < MaxPackets,
           NEW kept \in SUBSET Session, NEW sent \in SUBSET Record,
           \A s, u \in kept : s = u,
           \A s \in kept : Sided(s) /\ ConnOf(s) = {p.src, p.dst},
           Leave(p, l.others, kept, sent)
    PROVE  IInv'
<1> DEFINE h == Hash(p.src, p.dst)
           content == l.others \cup kept
<1>1. p.src \in Endpoint /\ p.dst \in Endpoint /\ h \in Bucket
  BY HandleAssumption DEF Packet, Bucket
<1>2. TableOK(Aged) /\ SentByCheck \subseteq Record
  BY AgedOK
<1>3. /\ l.others \subseteq Aged[h]
      /\ \A s \in l.others : ConnOf(s) # {p.src, p.dst}
  BY LookupOK
<1>4. table' = [Aged EXCEPT ![h] = content]
  BY DEF Leave
<1>5. content \subseteq Session /\ Aged \in [Bucket -> SUBSET Session]
  BY <1>1, <1>2, <1>3 DEF TableOK
<1>6. table' \in [Bucket -> SUBSET Session]
  BY <1>1, <1>4, <1>5
<1>7. \A b \in Bucket : table'[b] = IF b = h THEN content ELSE Aged[b]
  BY <1>1, <1>4, <1>5
<1>8. \A s \in content : Sided(s) /\ h = Hash(s.server, s.client)
  <2>1. \A s \in l.others : Sided(s) /\ h = Hash(s.server, s.client)
    BY <1>1, <1>2, <1>3 DEF TableOK
  <2>2. \A s \in kept : Sided(s) /\ h = Hash(s.server, s.client)
    BY <1>1, SameConnection
  <2>3. QED
    BY <2>1, <2>2
<1>9. \A s, u \in content : ConnOf(s) = ConnOf(u) => s = u
  <2>1. \A s, u \in l.others : ConnOf(s) = ConnOf(u) => s = u
    BY <1>1, <1>2, <1>3 DEF TableOK
  <2>2. QED
    BY <1>3, <2>1
<1>10. TableOK(table')
  <2> HIDE DEF content
  <2>1. QED
    BY <1>2, <1>6, <1>7, <1>8, <1>9 DEF TableOK
<1>11. TypeOK'
  <2>1. emitted' \subseteq Record
    BY <1>2 DEF Leave, IInv, TypeOK
  <2>2. arrived' \in 0 .. MaxPackets /\ now' = now /\ lastTimeOutCheck' = lastTimeOutCheck
    BY HandleAssumption DEF Leave, IInv, TypeOK
  <2>3. QED
    BY <1>6, <2>1, <2>2 DEF IInv, TypeOK
<1>12. QED
  BY <1>10, <1>11 DEF IInv

LEMMA LeaveNone ==
    ASSUME IInv, NEW p \in Packets, NEW l \in Lookup(p), arrived < MaxPackets,
           NEW sent \in SUBSET Record, Leave(p, l.others, {}, sent)
    PROVE  IInv'
<1>1. {} \in SUBSET Session
  OBVIOUS
<1>2. /\ \A s, u \in {} : s = u
      /\ \A s \in {} : Sided(s) /\ ConnOf(s) = {p.src, p.dst}
  OBVIOUS
<1>3. QED
  BY <1>1, <1>2, LeaveOK

LEMMA LeaveOne ==
    ASSUME IInv, NEW p \in Packets, NEW l \in Lookup(p), arrived < MaxPackets,
           NEW k \in Session, Sided(k), ConnOf(k) = {p.src, p.dst},
           NEW sent \in SUBSET Record, Leave(p, l.others, {k}, sent)
    PROVE  IInv'
<1>1. {k} \in SUBSET Session
  OBVIOUS
<1>2. /\ \A s, u \in {k} : s = u
      /\ \A s \in {k} : Sided(s) /\ ConnOf(s) = {p.src, p.dst}
  OBVIOUS
<1>3. QED
  BY <1>1, <1>2, LeaveOK

(* What Append and the stamps before it make of a session of p's own       *)
(* connection.                                                             *)
LEMMA AppendOK ==
    ASSUME IInv, NEW p \in Packets, arrived < MaxPackets,
           NEW s \in Session, Sided(s), ConnOf(s) = {p.src, p.dst}
    PROVE  /\ IsRequest(p) =>
                \A k \in AppendReq(s, p) :
                    k \in Session /\ Sided(k) /\ ConnOf(k) = {p.src, p.dst}
           /\ ~IsRequest(p) =>
                \A k \in AppendRsp(s, p) :
                    k \in Session /\ Sided(k) /\ ConnOf(k) = {p.src, p.dst}
<1>1. Seen(p) \in Captured /\ Seen(p).pkt = p
  BY HandleAssumption DEF Seen, Captured, IInv, TypeOK
<1>2. /\ s.reqBuf \in Seq(Captured) /\ s.rspBuf \in Seq(Captured)
      /\ s.server \in Endpoint /\ s.client \in Endpoint
  BY DEF Session
<1>3. {s.server, s.client} = {p.src, p.dst} /\ p.src # p.dst
  BY HandleAssumption DEF ConnOf
<1> DEFINE req == [s EXCEPT !.reqBuf = Append(@, Seen(p))]
           rsp == [s EXCEPT !.rspBuf = Append(@, Seen(p))]
<1>4. /\ req \in Session /\ req.server = s.server /\ req.client = s.client
      /\ req.reqBuf = Append(s.reqBuf, Seen(p)) /\ req.rspBuf = s.rspBuf
  <2>1. Append(s.reqBuf, Seen(p)) \in Seq(Captured)
    BY <1>1, <1>2
  <2>2. QED
    BY <2>1 DEF Session
<1>5. /\ rsp \in Session /\ rsp.server = s.server /\ rsp.client = s.client
      /\ rsp.rspBuf = Append(s.rspBuf, Seen(p)) /\ rsp.reqBuf = s.reqBuf
  <2>1. Append(s.rspBuf, Seen(p)) \in Seq(Captured)
    BY <1>1, <1>2
  <2>2. QED
    BY <2>1 DEF Session
<1>6. ASSUME IsRequest(p) PROVE Sided(req)
  <2>1. SUFFICES ASSUME IsPort80(s.server) # IsPort80(s.client)
                 PROVE  /\ IsPort80(s.server)
                        /\ \A i \in DOMAIN req.reqBuf :
                              req.reqBuf[i].pkt.src = s.client /\ req.reqBuf[i].pkt.dst = s.server
                        /\ \A i \in DOMAIN req.rspBuf :
                              req.rspBuf[i].pkt.src = s.server /\ req.rspBuf[i].pkt.dst = s.client
    BY <1>4 DEF Sided
  <2>2. IsPort80(s.server) /\ ~IsPort80(s.client)
    BY <1>2, <2>1, HandleAssumption DEF Sided
  <2>3. p.dst = s.server /\ p.src = s.client
    BY <1>3, <1>6, <2>2 DEF IsRequest
  <2>4. \A i \in DOMAIN req.reqBuf : (req.reqBuf[i] = s.reqBuf[i] /\ i \in DOMAIN s.reqBuf)
                                     \/ req.reqBuf[i] = Seen(p)
    BY <1>1, <1>2, <1>4
  <2>5. QED
    BY <1>1, <1>4, <2>1, <2>2, <2>3, <2>4 DEF Sided
<1>7. ASSUME ~IsRequest(p) PROVE Sided(rsp)
  <2>1. SUFFICES ASSUME IsPort80(s.server) # IsPort80(s.client)
                 PROVE  /\ IsPort80(s.server)
                        /\ \A i \in DOMAIN rsp.reqBuf :
                              rsp.reqBuf[i].pkt.src = s.client /\ rsp.reqBuf[i].pkt.dst = s.server
                        /\ \A i \in DOMAIN rsp.rspBuf :
                              rsp.rspBuf[i].pkt.src = s.server /\ rsp.rspBuf[i].pkt.dst = s.client
    BY <1>5 DEF Sided
  <2>2. IsPort80(s.server) /\ ~IsPort80(s.client)
    BY <1>2, <2>1, HandleAssumption DEF Sided
  <2>3. p.src = s.server /\ p.dst = s.client
    BY <1>3, <1>7, <2>2 DEF IsRequest
  <2>4. \A i \in DOMAIN rsp.rspBuf : (rsp.rspBuf[i] = s.rspBuf[i] /\ i \in DOMAIN s.rspBuf)
                                     \/ rsp.rspBuf[i] = Seen(p)
    BY <1>1, <1>2, <1>5
  <2>5. QED
    BY <1>1, <1>5, <2>1, <2>2, <2>3, <2>4 DEF Sided
<1>8. QED
  BY <1>4, <1>5, <1>6, <1>7 DEF AppendReq, AppendRsp, ConnOf

-----------------------------------------------------------------------------
LEMMA InitIInv == Init => IInv
<1>. SUFFICES ASSUME Init PROVE IInv
  OBVIOUS
<1>1. table \in [Bucket -> SUBSET Session] /\ \A b \in Bucket : table[b] = {}
  BY DEF Init
<1>2. QED
  BY <1>1, HandleAssumption DEF Init, IInv, TypeOK, TableOK

LEMMA NextIInv == IInv /\ [Next]_vars => IInv'
<1>. SUFFICES ASSUME IInv, [Next]_vars PROVE IInv'
  OBVIOUS
<1>1. ASSUME NEW p \in Packets, arrived < MaxPackets, NEW l \in Lookup(p),
             SessionOver(p, l)
      PROVE  IInv'
  <2>1. Sent(l.ses) \subseteq Record
    BY LookupOK, SentRecords
  <2>2. Leave(p, l.others, {}, Sent(l.ses))
    BY <1>1 DEF SessionOver
  <2>3. QED
    BY <1>1, <2>1, <2>2, LeaveNone
<1>2. ASSUME NEW p \in Packets, arrived < MaxPackets, NEW l \in Lookup(p),
             RepeatedPacket(p, l) \/ ZeroLength(p, l)
      PROVE  IInv'
  <2>1. l.ses \in Session /\ Sided(l.ses) /\ ConnOf(l.ses) = {p.src, p.dst}
    BY LookupOK
  <2>2. Leave(p, l.others, {l.ses}, {})
    BY <1>2 DEF RepeatedPacket, ZeroLength
  <2>3. {} \in SUBSET Record
    OBVIOUS
  <2>4. QED
    BY <1>2, <2>1, <2>2, <2>3, LeaveOne
<1>3. ASSUME NEW p \in Packets, arrived < MaxPackets, NEW l \in Lookup(p),
             RequestData(p, l)
      PROVE  IInv'
  <2> DEFINE s == [l.ses EXCEPT !.seqNo = p.seq]
             full == s.reqBuf # << >> /\ s.rspBuf # << >>
             t == IF full THEN Cleared(s) ELSE s
             u == IF t.reqBuf = << >> /\ t.reqTime = 0
                  THEN [t EXCEPT !.reqTime = arrived + 1] ELSE t
             sent == IF full THEN Sent(s) ELSE {}
  <2>1. s \in Session /\ Sided(s) /\ ConnOf(s) = {p.src, p.dst}
    <3>1. l.ses \in Session /\ Sided(l.ses) /\ ConnOf(l.ses) = {p.src, p.dst}
      BY LookupOK
    <3>2. p.seq \in SeqNum
      BY HandleAssumption DEF Packet
    <3>3. /\ s \in Session /\ s.server = l.ses.server /\ s.client = l.ses.client
          /\ s.reqBuf = l.ses.reqBuf /\ s.rspBuf = l.ses.rspBuf
      BY <3>1, <3>2 DEF Session
    <3>4. QED
      BY <3>1, <3>3 DEF Sided, ConnOf
  <2> HIDE DEF s
  <2>2. t \in Session /\ Sided(t) /\ ConnOf(t) = {p.src, p.dst}
    BY <2>1, ClearedGood DEF ConnOf
  <2> HIDE DEF t
  <2>3. u \in Session /\ Sided(u) /\ ConnOf(u) = {p.src, p.dst}
    <3>1. arrived + 1 \in 0 .. MaxPackets
      BY <1>3, HandleAssumption DEF IInv, TypeOK
    <3>2. /\ u \in Session /\ u.server = t.server /\ u.client = t.client
          /\ u.reqBuf = t.reqBuf /\ u.rspBuf = t.rspBuf
      BY <2>2, <3>1 DEF Session
    <3>3. QED
      BY <2>2, <3>2 DEF Sided, ConnOf
  <2>4. sent \subseteq Record
    BY <2>1, SentRecords
  <2>5. PICK kept \in AppendReq(u, p) : Leave(p, l.others, {kept}, sent)
    BY <1>3 DEF RequestData, s, t
  <2>6. kept \in Session /\ Sided(kept) /\ ConnOf(kept) = {p.src, p.dst}
    <3> HIDE DEF u
    <3>1. QED
      BY <1>3, <2>3, <2>5, AppendOK DEF RequestData
  <2>7. QED
    <3> HIDE DEF sent
    <3>1. QED
      BY <1>3, <2>4, <2>5, <2>6, LeaveOne
<1>4. ASSUME NEW p \in Packets, arrived < MaxPackets, NEW l \in Lookup(p),
             ResponseData(p, l)
      PROVE  IInv'
  <2> DEFINE s == [l.ses EXCEPT !.seqNo = p.seq]
             u == IF s.rspBuf = << >> /\ s.rspTime = 0
                  THEN [s EXCEPT !.rspTime = arrived + 1] ELSE s
  <2>1. u \in Session /\ Sided(u) /\ ConnOf(u) = {p.src, p.dst}
    <3>1. l.ses \in Session /\ Sided(l.ses) /\ ConnOf(l.ses) = {p.src, p.dst}
      BY LookupOK
    <3>2. p.seq \in SeqNum /\ arrived + 1 \in 0 .. MaxPackets
      BY <1>4, HandleAssumption DEF Packet, IInv, TypeOK
    <3>3. /\ u \in Session /\ u.server = l.ses.server /\ u.client = l.ses.client
          /\ u.reqBuf = l.ses.reqBuf /\ u.rspBuf = l.ses.rspBuf
      BY <3>1, <3>2 DEF Session
    <3>4. QED
      BY <3>1, <3>3 DEF Sided, ConnOf
  <2>2. PICK kept \in AppendRsp(u, p) : Leave(p, l.others, {kept}, {})
    BY <1>4 DEF ResponseData
  <2> HIDE DEF u
  <2>3. kept \in Session /\ Sided(kept) /\ ConnOf(kept) = {p.src, p.dst}
    BY <1>4, <2>1, <2>2, AppendOK DEF ResponseData
  <2>4. {} \in SUBSET Record
    OBVIOUS
  <2>5. QED
    BY <1>4, <2>2, <2>3, <2>4, LeaveOne
<1>5. ASSUME Tick PROVE IInv'
  <2>1. now' \in 0 .. MaxTime
    BY <1>5, HandleAssumption DEF Tick, IInv, TypeOK
  <2>2. QED
    BY <1>5, <2>1 DEF Tick, IInv, TypeOK
<1>6. CASE UNCHANGED vars
  BY <1>6 DEF vars, IInv, TypeOK
<1>7. QED
  BY <1>1, <1>2, <1>3, <1>4, <1>5, <1>6 DEF Next, Process

(* Every reachable session table and every record is well typed, whatever  *)
(* packets a capture holds: no path of Process leaves a session without    *)
(* its ends, its stamps or its buffers.                                    *)
THEOREM HandleTyped == Spec => []TypeOK
<1>1. IInv /\ [Next]_vars => IInv'
  BY NextIInv
<1>2. IInv => TypeOK
  BY DEF IInv
<1>3. QED
  BY InitIInv, <1>1, <1>2, PTL DEF Spec

(* CSessionHashTable::Find, Create and Remove, called by Process in any    *)
(* order, and the erasures of TimeOutCheck never leave two sessions for    *)
(* one connection or a session in a bucket where Find does not look.       *)
THEOREM HandleOneSession == Spec => []OneSessionPerConnection
<1>1. IInv /\ [Next]_vars => IInv'
  BY NextIInv
<1>2. IInv => OneSessionPerConnection
  BY TableOneSession DEF IInv
<1>3. QED
  BY InitIInv, <1>1, <1>2, PTL DEF Spec

(* The server of a session is its port 80 side, and its two buffers never  *)
(* hold a byte of the other direction.                                     *)
THEOREM HandleSidesKeptApart == Spec => []SidesKeptApart
<1>1. IInv /\ [Next]_vars => IInv'
  BY NextIInv
<1>2. IInv => SidesKeptApart
  BY TableOneSession DEF IInv
<1>3. QED
  BY InitIInv, <1>1, <1>2, PTL DEF Spec

-----------------------------------------------------------------------------
(* What the sessions hold.                                                 *)

(* A session as the record that Parse would make of it. *)
HolderOf(s) == [conn |-> ConnOf(s), req |-> s.reqBuf, rsp |-> s.rspBuf]

(* Its segments in order, none on both sides, none dated after packet n. *)
Listed(h, n) ==
    /\ InOrder(h.req) /\ InOrder(h.rsp)
    /\ \A i \in DOMAIN h.req, j \in DOMAIN h.rsp : h.req[i].at # h.rsp[j].at
    /\ \A u \in Uses(h) : u <= n

Stamps(s) == {s.reqTime, s.rspTime} \ {0}

Stamped(s, n) ==
    /\ s.reqBuf # << >> => s.reqTime \in 1 .. s.reqBuf[1].at
    /\ s.rspBuf # << >> => s.rspTime \in 1 .. s.rspBuf[1].at
    /\ \A t \in Stamps(s) : t <= n

Apart(g, h) == Uses(g) \cap Uses(h) = {}

(* The stamps of s are younger than record r, if it is of s's connection. *)
Younger(s, r) == r.conn = ConnOf(s) => \A u \in Uses(r), t \in Stamps(s) : u < t

Fine(s, n) == Listed(HolderOf(s), n) /\ Stamped(s, n) /\ ConnOf(s) \in Connection

(* Of a table t, the records e and the number n of packets seen.           *)
Ledger(t, e, n) ==
    /\ \A b \in Bucket : \A s \in t[b] : Fine(s, n)
    /\ \A r \in e : Listed(r, n)
    /\ \A b, c \in Bucket : \A s \in t[b], u \in t[c] :
          s # u => Apart(HolderOf(s), HolderOf(u))
    /\ \A b \in Bucket : \A s \in t[b], r \in e : Apart(HolderOf(s), r) /\ Younger(s, r)
    /\ \A r, q \in e : r # q => Apart(r, q)

LInv == IInv /\ Ledger(table, emitted, arrived)

-----------------------------------------------------------------------------
LEMMA EmptyFacts ==
    ASSUME NEW s, s.reqBuf = << >>, s.rspBuf = << >>, s.reqTime = 0, s.rspTime = 0,
           NEW n \in Nat
    PROVE  /\ Uses(HolderOf(s)) = {} /\ Stamps(s) = {}
           /\ Listed(HolderOf(s), n) /\ Stamped(s, n)
           /\ \A h : Apart(HolderOf(s), h) /\ Apart(h, HolderOf(s)) /\ Younger(s, h)
<1>1. HolderOf(s).req = << >> /\ HolderOf(s).rsp = << >> /\ DOMAIN << >> = {}
  BY DEF HolderOf
<1>2. Uses(HolderOf(s)) = {}
  BY <1>1 DEF Uses
<1>3. Stamps(s) = {}
  BY DEF Stamps
<1>4. InOrder(<< >>)
  BY DEF InOrder
<1>5. Listed(HolderOf(s), n)
  BY <1>1, <1>2, <1>4 DEF Listed
<1>6. QED
  BY <1>2, <1>3, <1>5 DEF Stamped, Apart, Younger

LEMMA ClearedIsEmpty ==
    ASSUME NEW s \in Session
    PROVE  /\ Cleared(s).reqBuf = << >> /\ Cleared(s).rspBuf = << >>
           /\ Cleared(s).reqTime = 0 /\ Cleared(s).rspTime = 0
           /\ ConnOf(Cleared(s)) = ConnOf(s)
BY DEF Cleared, Session, ConnOf

LEMMA SentIsHolder ==
    ASSUME NEW s, NEW r \in Sent(s)
    PROVE  r = HolderOf(s) /\ s.reqBuf # << >> /\ s.rspBuf # << >>
BY DEF Sent, HolderOf

(* The timeout check: a session it sends is emptied or dropped.            *)
LEMMA AgedOrigin ==
    ASSUME IInv, NEW b \in Bucket, NEW x \in Aged[b]
    PROVE  \E s \in table[b] :
              /\ s \in Session
              /\ \/ x = s /\ ~(CheckDue /\ b \in Visited /\ Idle(s))
                 \/ x = Cleared(s) /\ CheckDue /\ b \in Visited /\ Idle(s)
BY DEF IInv, TypeOK, Aged

LEMMA CheckSends ==
    ASSUME IInv, NEW r \in SentByCheck
    PROVE  \E b \in Bucket : \E s \in table[b] :
              /\ s \in Session /\ r \in Sent(s) /\ r = HolderOf(s)
              /\ CheckDue /\ b \in Visited /\ Idle(s)
<1>1. PICK b \in Visited : \E s \in table[b] : Idle(s) /\ r \in Sent(s) /\ CheckDue
  BY DEF SentByCheck
<1>2. PICK s \in table[b] : Idle(s) /\ r \in Sent(s) /\ CheckDue
  BY <1>1
<1>3. b \in Bucket /\ s \in Session
  BY DEF Visited, IInv, TypeOK
<1>4. QED
  BY <1>2, <1>3, SentIsHolder

LEMMA AgedLedger ==
    LInv => Ledger(Aged, emitted \cup SentByCheck, arrived)
<1>. SUFFICES ASSUME LInv PROVE Ledger(Aged, emitted \cup SentByCheck, arrived)
  OBVIOUS
<1>0. IInv /\ Ledger(table, emitted, arrived) /\ arrived \in Nat
  BY HandleAssumption DEF LInv, IInv, TypeOK
<1>1. OneSessionPerConnection
  BY <1>0, TableOneSession DEF IInv
<1> DEFINE Emptied(x) == /\ Uses(HolderOf(x)) = {} /\ Listed(HolderOf(x), arrived) /\ Stamped(x, arrived)
                         /\ \A h : Apart(HolderOf(x), h) /\ Apart(h, HolderOf(x)) /\ Younger(x, h)
           Same(b, s) == ~(CheckDue /\ b \in Visited /\ Idle(s))
<1>2. \A b \in Bucket : \A x \in Aged[b] : \E s \in table[b] :
         ConnOf(x) = ConnOf(s) /\ ((x = s /\ Same(b, s)) \/ Emptied(x))
  <2>1. SUFFICES ASSUME NEW b \in Bucket, NEW x \in Aged[b]
                 PROVE  \E s \in table[b] : ConnOf(x) = ConnOf(s) /\ ((x = s /\ Same(b, s)) \/ Emptied(x))
    OBVIOUS
  <2>2. PICK s \in table[b] :
              /\ s \in Session
              /\ \/ x = s /\ ~(CheckDue /\ b \in Visited /\ Idle(s))
                 \/ x = Cleared(s) /\ CheckDue /\ b \in Visited /\ Idle(s)
    BY <1>0, AgedOrigin
  <2>3. CASE x = s /\ Same(b, s)
    BY <2>3
  <2>4. CASE x = Cleared(s)
    <3>1. /\ x.reqBuf = << >> /\ x.rspBuf = << >> /\ x.reqTime = 0 /\ x.rspTime = 0
          /\ ConnOf(x) = ConnOf(s)
      BY <2>2, <2>4, ClearedIsEmpty
    <3>2. Emptied(x)
      BY <1>0, <3>1, EmptyFacts
    <3>3. QED
      BY <3>1, <3>2
  <2>5. QED
    BY <2>2, <2>3, <2>4
<1>3. \A r \in SentByCheck : \E b \in Bucket : \E s \in table[b] : r = HolderOf(s) /\ ~Same(b, s)
  BY <1>0, CheckSends
<1> HIDE DEF Emptied, Same
<1>4. \A b \in Bucket : \A x \in Aged[b] : Fine(x, arrived)
  BY <1>0, <1>2 DEF Ledger, Fine, Emptied
<1>5. \A r \in emitted \cup SentByCheck : Listed(r, arrived)
  BY <1>0, <1>3 DEF Ledger, Fine
<1>6. ASSUME NEW b \in Bucket, NEW c \in Bucket, NEW x \in Aged[b], NEW y \in Aged[c], x # y
      PROVE  Apart(HolderOf(x), HolderOf(y))
  <2>1. PICK s \in table[b] : ConnOf(x) = ConnOf(s) /\ ((x = s /\ Same(b, s)) \/ Emptied(x))
    BY <1>2
  <2>2. PICK t \in table[c] : ConnOf(y) = ConnOf(t) /\ ((y = t /\ Same(c, t)) \/ Emptied(y))
    BY <1>2
  <2>3. QED
    BY <1>0, <1>6, <2>1, <2>2 DEF Ledger, Emptied
<1>7. ASSUME NEW b \in Bucket, NEW x \in Aged[b], NEW r \in emitted \cup SentByCheck
      PROVE  Apart(HolderOf(x), r) /\ Younger(x, r)
  <2>1. PICK s \in table[b] : ConnOf(x) = ConnOf(s) /\ ((x = s /\ Same(b, s)) \/ Emptied(x))
    BY <1>2
  <2>2. CASE r \in emitted
    BY <1>0, <2>1, <2>2 DEF Ledger, Emptied
  <2>3. CASE r \in SentByCheck
    <3>1. PICK c \in Bucket : \E t \in table[c] : r = HolderOf(t) /\ ~Same(c, t)
      BY <1>3, <2>3
    <3>2. PICK t \in table[c] : r = HolderOf(t) /\ ~Same(c, t)
      BY <3>1
    <3>3. CASE x = s /\ Same(b, s)
      <4>1. ConnOf(s) # ConnOf(t)
        BY <1>1, <3>2, <3>3 DEF OneSessionPerConnection
      <4>2. Apart(HolderOf(s), HolderOf(t))
        BY <1>0, <4>1 DEF Ledger
      <4>3. HolderOf(t).conn = ConnOf(t)
        BY DEF HolderOf
      <4>4. QED
        BY <3>2, <3>3, <4>1, <4>2, <4>3 DEF Younger
    <3>4. QED
      BY <2>1, <3>3 DEF Emptied
  <2>4. QED
    BY <2>2, <2>3
<1>8. ASSUME NEW r \in emitted \cup SentByCheck, NEW q \in emitted \cup SentByCheck, r # q
      PROVE  Apart(r, q)
  <2>1. CASE r \in emitted /\ q \in emitted
    BY <1>0, <1>8, <2>1 DEF Ledger
  <2>2. CASE r \in emitted /\ q \in SentByCheck
    BY <1>0, <1>3, <2>2 DEF Ledger, Apart
  <2>3. CASE r \in SentByCheck /\ q \in emitted
    BY <1>0, <1>3, <2>3 DEF Ledger
  <2>4. CASE r \in SentByCheck /\ q \in SentByCheck
    BY <1>0, <1>3, <1>8, <2>4 DEF Ledger
  <2>5. QED
    BY <2>1, <2>2, <2>3, <2>4
<1>9. QED
  BY <1>4, <1>5, <1>6, <1>7, <1>8 DEF Ledger

-----------------------------------------------------------------------------
LEMMA UsesTyped ==
    ASSUME NEW r \in Record PROVE Uses(r) \subseteq 1 .. MaxPackets
<1>1. r.req \in Seq(Captured) /\ r.rsp \in Seq(Captured)
  BY DEF Record
<1>2. \A i \in DOMAIN r.req : r.req[i] \in Captured
  BY <1>1
<1>3. \A i \in DOMAIN r.rsp : r.rsp[i] \in Captured
  BY <1>1
<1>4. \A x \in Captured : x.at \in 1 .. MaxPackets
  BY DEF Captured
<1>5. QED
  BY <1>2, <1>3, <1>4 DEF Uses

LEMMA HolderTyped ==
    ASSUME NEW s \in Session
    PROVE  HolderOf(s) \in Record /\ Uses(HolderOf(s)) \subseteq 1 .. MaxPackets
<1>1. HolderOf(s) \in Record
  BY DEF HolderOf, Record, Session, ConnOf
<1>2. QED
  BY <1>1, UsesTyped

(* What Find or Create yields is in order and apart from the rest.         *)
LEMMA FoundLedger ==
    ASSUME LInv, NEW p \in Packets, NEW l \in Lookup(p)
    PROVE  /\ Listed(HolderOf(l.ses), arrived) /\ Stamped(l.ses, arrived)
           /\ \A b \in Bucket : \A x \in Aged[b] :
                 ConnOf(x) # {p.src, p.dst} => Apart(HolderOf(l.ses), HolderOf(x))
           /\ \A r \in emitted \cup SentByCheck :
                 Apart(HolderOf(l.ses), r) /\ Younger(l.ses, r)
<1> DEFINE h == Hash(p.src, p.dst)
           found == {s \in Aged[h] : IsSameSes(p.src, p.dst, s)}
<1>0. /\ IInv /\ Ledger(Aged, emitted \cup SentByCheck, arrived) /\ arrived \in Nat
      /\ now \in 0 .. MaxTime
  BY AgedLedger, HandleAssumption DEF LInv, IInv, TypeOK
<1>1. CASE found = {}
  <2>1. l.ses \in NewSessions(p)
    BY <1>1 DEF Lookup
  <2>2. /\ l.ses.reqBuf = << >> /\ l.ses.rspBuf = << >>
        /\ l.ses.reqTime = 0 /\ l.ses.rspTime = 0
    BY <2>1 DEF NewSessions
  <2>3. QED
    BY <1>0, <2>2, EmptyFacts
<1>2. CASE found # {}
  <2>1. PICK s \in found : l = [ses |-> [s EXCEPT !.refresh = now], others |-> Aged[h] \ {s}]
    BY <1>2 DEF Lookup
  <2>2. h \in Bucket /\ p.src \in Endpoint /\ p.dst \in Endpoint
    BY HandleAssumption DEF Bucket, Packet
  <2>3. s \in Session /\ s \in Aged[h]
    BY <1>0, <2>2, AgedOK DEF TableOK
  <2>4. ConnOf(s) = {p.src, p.dst}
    BY <2>2, <2>3, SameConnection
  <2>5. /\ l.ses.reqBuf = s.reqBuf /\ l.ses.rspBuf = s.rspBuf
        /\ l.ses.reqTime = s.reqTime /\ l.ses.rspTime = s.rspTime
        /\ ConnOf(l.ses) = ConnOf(s)
    BY <2>1, <2>3 DEF Session, ConnOf
  <2>6. HolderOf(l.ses) = HolderOf(s) /\ Stamps(l.ses) = Stamps(s)
    BY <2>5 DEF HolderOf, Stamps
  <2>7. Listed(HolderOf(l.ses), arrived) /\ Stamped(l.ses, arrived)
    BY <1>0, <2>2, <2>3, <2>5, <2>6 DEF Ledger, Fine, Stamped
  <2>8. \A r \in emitted \cup SentByCheck : Apart(HolderOf(l.ses), r) /\ Younger(l.ses, r)
    BY <1>0, <2>2, <2>3, <2>5, <2>6 DEF Ledger, Younger
  <2>9. QED
    BY <1>0, <2>2, <2>3, <2>4, <2>6, <2>7, <2>8 DEF Ledger
<1>3. QED
  BY <1>1, <1>2

(* What may go back to the bucket: the segments found and the new one, or, *)
(* once they have been sent, the new one alone; and stamps alike.          *)
Follows(k, z, sent) ==
    LET new == arrived + 1 IN
    /\ Fine(k, new) /\ ConnOf(k) = ConnOf(z)
    /\ \/ sent = {} /\ Uses(HolderOf(k)) \subseteq Uses(HolderOf(z)) \cup {new}
                    /\ Stamps(k) \subseteq Stamps(z) \cup {new}
       \/ Uses(HolderOf(k)) \subseteq {new} /\ Stamps(k) \subseteq {new}

LEMMA Later ==
    ASSUME NEW n \in Nat
    PROVE  /\ \A r \in Record : Listed(r, n) => Listed(r, n + 1)
           /\ \A s \in Session : Fine(s, n) => Fine(s, n + 1)
<1>1. ASSUME NEW r \in Record, Listed(r, n) PROVE Listed(r, n + 1)
  <2>1. Uses(r) \subseteq Int
    BY UsesTyped, HandleAssumption
  <2>2. QED
    BY <1>1, <2>1 DEF Listed
<1>2. ASSUME NEW s \in Session, Fine(s, n) PROVE Fine(s, n + 1)
  <2>1. \A t \in Stamps(s) : t \in Int
    BY DEF Stamps, Session
  <2>2. QED
    BY <1>1, <1>2, <2>1, HolderTyped DEF Fine, Stamped
<1>3. QED
  BY <1>1, <1>2

LEMMA LeaveLedger ==
    ASSUME LInv, NEW p \in Packets, NEW l \in Lookup(p),
           NEW kept \in SUBSET Session, NEW sent, sent \subseteq {HolderOf(l.ses)},
           \A s, u \in kept : s = u, \A k \in kept : Follows(k, l.ses, sent),
           Leave(p, l.others, kept, sent)
    PROVE  Ledger(table', emitted', arrived')
<1> DEFINE h == Hash(p.src, p.dst)
           n == arrived + 1
           z == l.ses
           e == emitted \cup SentByCheck
<1>0. /\ IInv /\ Ledger(Aged, e, arrived) /\ arrived \in Nat /\ h \in Bucket
      /\ p.src \in Endpoint /\ p.dst \in Endpoint
  BY AgedLedger, HandleAssumption DEF LInv, IInv, TypeOK, Packet, Bucket
<1>1. /\ z \in Session /\ ConnOf(z) = {p.src, p.dst}
      /\ l.others \subseteq Aged[h]
      /\ \A s \in l.others : ConnOf(s) # {p.src, p.dst}
  BY <1>0, LookupOK
<1>2. /\ TableOK(Aged) /\ SentByCheck \subseteq Record
      /\ \A b \in Bucket : \A x \in Aged[b] : x \in Session
      /\ e \subseteq Record
  BY <1>0, AgedOK DEF TableOK, IInv, TypeOK
<1>3. /\ emitted' = e \cup sent /\ arrived' = n
      /\ \A b \in Bucket : table'[b] = IF b = h THEN l.others \cup kept ELSE Aged[b]
  BY <1>0, <1>2 DEF Leave, TableOK
<1>4. \A b \in Bucket : \A x \in table'[b] :
         \/ x \in Aged[b] /\ x \in Session /\ ConnOf(x) # ConnOf(z)
         \/ x \in kept
  <2>1. \A b \in Bucket : \A x \in Aged[b] : b # h => ConnOf(x) # {p.src, p.dst}
    BY <1>0, <1>2, SameConnection DEF TableOK
  <2>2. QED
    BY <1>0, <1>1, <1>2, <1>3, <2>1
<1>5. /\ Listed(HolderOf(z), arrived) /\ Stamped(z, arrived)
      /\ \A b \in Bucket : \A x \in Aged[b] :
            ConnOf(x) # ConnOf(z) => Apart(HolderOf(z), HolderOf(x))
      /\ \A r \in e : Apart(HolderOf(z), r) /\ Younger(z, r)
  BY <1>1, FoundLedger
<1>6. /\ HolderOf(z) \in Record /\ Uses(HolderOf(z)) \subseteq Int
      /\ \A r \in Record : Uses(r) \subseteq Int
      /\ \A s \in Session : HolderOf(s) \in Record
  BY <1>1, UsesTyped, HolderTyped
<1>7. /\ \A r \in e \cup sent : r \in Record /\ Listed(r, arrived)
      /\ \A r \in e \cup sent : \A u \in Uses(r) : u \in Int /\ u <= arrived /\ u < n
  <2>1. \A r \in e \cup sent : r \in Record /\ Listed(r, arrived)
    BY <1>0, <1>2, <1>5, <1>6 DEF Ledger
  <2>2. QED
    BY <1>0, <1>6, <2>1 DEF Listed
<1>8. \A k \in kept : k \in Session /\ Fine(k, n) /\ ConnOf(k) = ConnOf(z)
  BY DEF Follows
<1>9. \A k \in kept : \A u \in Uses(HolderOf(k)) :
         u = n \/ (sent = {} /\ u \in Uses(HolderOf(z)))
  BY DEF Follows
<1>10. \A k \in kept : \A t \in Stamps(k) : t = n \/ (sent = {} /\ t \in Stamps(z))
  BY DEF Follows
<1>11. \A b \in Bucket : \A x \in Aged[b] : \A u \in Uses(HolderOf(x)) : u # n
  <2>1. \A b \in Bucket : \A x \in Aged[b] : Uses(HolderOf(x)) \subseteq Int
    BY <1>2, <1>6
  <2>2. QED
    BY <1>0, <2>1 DEF Ledger, Fine, Listed
<1> HIDE DEF n, z, e, h
<1>12. \A b \in Bucket : \A x \in table'[b] : Fine(x, arrived')
  BY <1>0, <1>3, <1>4, <1>8, Later DEF Ledger, n
<1>13. \A r \in emitted' : Listed(r, arrived')
  BY <1>0, <1>3, <1>7, Later DEF n
<1>14. ASSUME NEW b \in Bucket, NEW x \in Aged[b], NEW k \in kept, ConnOf(x) # ConnOf(z)
       PROVE  Apart(HolderOf(x), HolderOf(k)) /\ Apart(HolderOf(k), HolderOf(x))
  BY <1>5, <1>9, <1>11, <1>14 DEF Apart
<1>15. ASSUME NEW b \in Bucket, NEW c \in Bucket, NEW x \in table'[b], NEW y \in table'[c], x # y
       PROVE  Apart(HolderOf(x), HolderOf(y))
  <2>1. CASE x \in kept /\ y \in kept
    BY <1>15, <2>1
  <2>2. CASE x \notin kept /\ y \notin kept
    BY <1>0, <1>4, <1>15, <2>2 DEF Ledger
  <2>3. CASE x \notin kept /\ y \in kept
    BY <1>4, <1>14, <2>3
  <2>4. CASE x \in kept /\ y \notin kept
    BY <1>4, <1>14, <2>4
  <2>5. QED
    BY <2>1, <2>2, <2>3, <2>4
<1>16. ASSUME NEW b \in Bucket, NEW x \in table'[b], NEW r \in emitted'
       PROVE  Apart(HolderOf(x), r) /\ Younger(x, r)
  <2>1. CASE x \notin kept /\ r \in e
    BY <1>0, <1>4, <2>1 DEF Ledger
  <2>2. CASE x \notin kept /\ r \in sent
    <3>1. r = HolderOf(z) /\ r.conn = ConnOf(z)
      BY <2>2 DEF z, HolderOf
    <3>2. x \in Aged[b] /\ ConnOf(x) # ConnOf(z)
      BY <1>4, <2>2
    <3>3. QED
      BY <1>5, <3>1, <3>2 DEF Apart, Younger
  <2>3. CASE x \in kept /\ r \in e
    <3>1. Apart(HolderOf(z), r) /\ Younger(z, r)
      BY <1>5, <2>3
    <3>2. \A u \in Uses(r) : u < n /\ u # n
      BY <1>0, <1>7, <2>3 DEF n
    <3>3. Apart(HolderOf(x), r)
      BY <1>9, <2>3, <3>1, <3>2 DEF Apart
    <3>4. Younger(x, r)
      BY <1>8, <1>10, <2>3, <3>1, <3>2 DEF Younger
    <3>5. QED
      BY <3>3, <3>4
  <2>4. CASE x \in kept /\ r \in sent
    <3>1. \A u \in Uses(r) : u < n /\ u # n
      BY <1>0, <1>7, <2>4 DEF n
    <3>2. QED
      BY <1>9, <1>10, <2>4, <3>1 DEF Apart, Younger
  <2>5. QED
    BY <1>3, <2>1, <2>2, <2>3, <2>4
<1>17. ASSUME NEW r \in emitted', NEW q \in emitted', r # q PROVE Apart(r, q)
  <2>1. CASE r \in e /\ q \in e
    BY <1>0, <1>17, <2>1 DEF Ledger
  <2>2. CASE r \in sent /\ q \in e
    BY <1>5, <2>2 DEF z
  <2>3. CASE r \in e /\ q \in sent
    BY <1>5, <2>3 DEF z, Apart
  <2>4. CASE r \in sent /\ q \in sent
    BY <1>17, <2>4
  <2>5. QED
    BY <1>3, <2>1, <2>2, <2>3, <2>4
<1>18. QED
  BY <1>12, <1>13, <1>15, <1>16, <1>17 DEF Ledger

-----------------------------------------------------------------------------
(* A buffer in order and older than packet n + 1 stays in order when that  *)
(* packet joins it.                                                        *)
LEMMA AppendedBuffer ==
    ASSUME NEW buf \in Seq(Captured), NEW x \in Captured, InOrder(buf),
           \A i \in DOMAIN buf : buf[i].at < x.at
    PROVE  /\ Append(buf, x) \in Seq(Captured) /\ Append(buf, x) # << >>
           /\ InOrder(Append(buf, x))
           /\ \A i \in DOMAIN Append(buf, x) :
                 Append(buf, x)[i] = x \/ (i \in DOMAIN buf /\ Append(buf, x)[i] = buf[i])
           /\ Append(buf, x)[1] = IF buf = << >> THEN x ELSE buf[1]
<1> DEFINE d == Append(buf, x)
<1>1. /\ d \in Seq(Captured) /\ Len(d) = Len(buf) + 1 /\ Len(buf) \in Nat
      /\ \A i \in 1 .. Len(d) : d[i] = IF i = Len(d) THEN x ELSE buf[i]
      /\ DOMAIN d = 1 .. Len(d) /\ DOMAIN buf = 1 .. Len(buf)
  OBVIOUS
<1> HIDE DEF d
<1>2. \A i \in DOMAIN d : i # Len(d) => i \in DOMAIN buf
  BY <1>1
<1>3. ASSUME NEW i \in DOMAIN d, NEW j \in DOMAIN d, i < j PROVE d[i].at < d[j].at
  <2>1. i # Len(d) /\ i \in DOMAIN buf
    BY <1>1, <1>3
  <2>2. CASE j = Len(d)
    BY <1>1, <2>1, <2>2
  <2>3. CASE j # Len(d)
    BY <1>1, <1>2, <1>3, <2>1, <2>3 DEF InOrder
  <2>4. QED
    BY <2>2, <2>3
<1>4. d # << >> /\ d[1] = IF buf = << >> THEN x ELSE buf[1]
  <2>1. 1 \in 1 .. Len(d) /\ (buf = << >> <=> Len(buf) = 0)
    BY <1>1
  <2>2. QED
    BY <1>1, <2>1
<1>5. \A i \in DOMAIN d : d[i] = x \/ (i \in DOMAIN buf /\ d[i] = buf[i])
  BY <1>1, <1>2
<1>6. InOrder(d)
  BY <1>3 DEF InOrder
<1>7. QED
  BY <1>1, <1>4, <1>5, <1>6 DEF d

(* u: the session found, perhaps emptied, with its new stamp if any.       *)
LEMMA AppendFollows ==
    ASSUME LInv, arrived < MaxPackets, NEW p \in Packets, NEW u \in Session, NEW z, NEW sent,
           Listed(HolderOf(u), arrived), Stamped(u, arrived + 1),
           ConnOf(u) = ConnOf(z), ConnOf(z) \in Connection,
           \/ sent = {} /\ Uses(HolderOf(u)) \subseteq Uses(HolderOf(z))
                        /\ Stamps(u) \subseteq Stamps(z) \cup {arrived + 1}
           \/ Uses(HolderOf(u)) = {} /\ Stamps(u) \subseteq {arrived + 1}
    PROVE  /\ u.reqTime # 0 => \A k \in AppendReq(u, p) : Follows(k, z, sent)
           /\ u.rspTime # 0 => \A k \in AppendRsp(u, p) : Follows(k, z, sent)
<1> DEFINE n == arrived + 1
           x == Seen(p)
<1>1. n \in Nat /\ arrived \in Nat
  BY HandleAssumption DEF LInv, IInv, TypeOK
<1>2. x \in Captured /\ x.at = n
  BY HandleAssumption DEF Seen, Captured, LInv, IInv, TypeOK
<1> HIDE DEF x
<1>3. /\ u.reqBuf \in Seq(Captured) /\ u.rspBuf \in Seq(Captured)
      /\ HolderOf(u).req = u.reqBuf /\ HolderOf(u).rsp = u.rspBuf
      /\ u.reqTime \in Nat /\ u.rspTime \in Nat
  BY HandleAssumption DEF Session, HolderOf
<1>4. Uses(HolderOf(u)) \subseteq Int
  BY HolderTyped
<1>5. /\ InOrder(u.reqBuf) /\ InOrder(u.rspBuf)
      /\ \A i \in DOMAIN u.reqBuf : u.reqBuf[i].at \in Int /\ u.reqBuf[i].at < n
      /\ \A i \in DOMAIN u.rspBuf : u.rspBuf[i].at \in Int /\ u.rspBuf[i].at < n
      /\ \A i \in DOMAIN u.reqBuf, j \in DOMAIN u.rspBuf : u.reqBuf[i].at # u.rspBuf[j].at
  <2>1. /\ \A i \in DOMAIN u.reqBuf : u.reqBuf[i].at \in Uses(HolderOf(u))
        /\ \A i \in DOMAIN u.rspBuf : u.rspBuf[i].at \in Uses(HolderOf(u))
    BY <1>3 DEF Uses
  <2>2. \A v \in Uses(HolderOf(u)) : v \in Int /\ v < n
    BY <1>1, <1>4 DEF Listed
  <2>3. QED
    BY <1>3, <2>1, <2>2 DEF Listed
<1>6. Follows(u, z, sent)
  <2>1. Listed(HolderOf(u), n)
    BY <1>1, HolderTyped, Later
  <2>2. QED
    BY <2>1 DEF Follows, Fine
<1>7. ASSUME NEW k, k.reqTime = u.reqTime, k.rspTime = u.rspTime, ConnOf(k) = ConnOf(u),
             Stamped(k, n),
             \A i \in DOMAIN k.reqBuf : k.reqBuf[i] = x \/ (i \in DOMAIN u.reqBuf /\ k.reqBuf[i] = u.reqBuf[i]),
             \A i \in DOMAIN k.rspBuf : k.rspBuf[i] = x \/ (i \in DOMAIN u.rspBuf /\ k.rspBuf[i] = u.rspBuf[i]),
             InOrder(k.reqBuf), InOrder(k.rspBuf),
             k.reqBuf = u.reqBuf \/ k.rspBuf = u.rspBuf
      PROVE  Follows(k, z, sent)
  <2>1. HolderOf(k).req = k.reqBuf /\ HolderOf(k).rsp = k.rspBuf /\ Stamps(k) = Stamps(u)
    BY <1>7 DEF HolderOf, Stamps
  <2>2. Uses(HolderOf(k)) \subseteq Uses(HolderOf(u)) \cup {n}
    BY <1>2, <1>3, <1>7, <2>1 DEF Uses
  <2>3. \A i \in DOMAIN k.reqBuf, j \in DOMAIN k.rspBuf : k.reqBuf[i].at # k.rspBuf[j].at
    <3>1. SUFFICES ASSUME NEW i \in DOMAIN k.reqBuf, NEW j \in DOMAIN k.rspBuf
                   PROVE  k.reqBuf[i].at # k.rspBuf[j].at
      OBVIOUS
    <3>2. CASE k.reqBuf = u.reqBuf
      <4>1. k.reqBuf[i].at # n
        BY <1>1, <1>5, <3>2
      <4>2. CASE k.rspBuf[j] = x
        BY <1>2, <4>1, <4>2
      <4>3. CASE j \in DOMAIN u.rspBuf /\ k.rspBuf[j] = u.rspBuf[j]
        BY <1>5, <3>2, <4>3
      <4>4. QED
        BY <1>7, <4>2, <4>3
    <3>3. CASE k.rspBuf = u.rspBuf
      <4>1. k.rspBuf[j].at # n
        BY <1>1, <1>5, <3>3
      <4>2. CASE k.reqBuf[i] = x
        BY <1>2, <4>1, <4>2
      <4>3. CASE i \in DOMAIN u.reqBuf /\ k.reqBuf[i] = u.reqBuf[i]
        BY <1>5, <3>3, <4>3
      <4>4. QED
        BY <1>7, <4>2, <4>3
    <3>4. QED
      BY <1>7, <3>2, <3>3
  <2>4. \A v \in Uses(HolderOf(k)) : v <= n
    BY <1>1, <1>4, <2>2 DEF Listed
  <2>5. Listed(HolderOf(k), n)
    BY <1>7, <2>1, <2>3, <2>4 DEF Listed
  <2>6. Fine(k, n)
    BY <1>7, <2>5 DEF Fine
  <2>7. QED
    BY <1>7, <2>1, <2>2, <2>6 DEF Follows
<1>8. ASSUME u.reqTime # 0, NEW k \in AppendReq(u, p) PROVE Follows(k, z, sent)
  <2>1. CASE k = u
    BY <1>6, <2>1
  <2>2. CASE k = [u EXCEPT !.reqBuf = Append(@, x)]
    <3>1. /\ k.reqBuf = Append(u.reqBuf, x) /\ k.rspBuf = u.rspBuf
          /\ k.reqTime = u.reqTime /\ k.rspTime = u.rspTime /\ ConnOf(k) = ConnOf(u)
      BY <2>2 DEF Session, ConnOf
    <3>2. /\ InOrder(k.reqBuf)
          /\ \A i \in DOMAIN k.reqBuf :
                k.reqBuf[i] = x \/ (i \in DOMAIN u.reqBuf /\ k.reqBuf[i] = u.reqBuf[i])
          /\ k.reqBuf[1] = IF u.reqBuf = << >> THEN x ELSE u.reqBuf[1]
      <4>1. \A i \in DOMAIN u.reqBuf : u.reqBuf[i].at < x.at
        BY <1>2, <1>5
      <4>2. QED
        BY <1>2, <1>3, <1>5, <3>1, <4>1, AppendedBuffer
    <3>3. u.reqTime \in 1 .. n /\ Stamps(k) = Stamps(u)
      BY <1>1, <1>3, <1>8, <3>1 DEF Stamped, Stamps
    <3>4. Stamped(k, n)
      BY <1>2, <3>1, <3>2, <3>3 DEF Stamped
    <3>5. QED
      BY <1>5, <1>7, <3>1, <3>2, <3>4
  <2>3. QED
    BY <1>8, <2>1, <2>2 DEF AppendReq, x
<1>9. ASSUME u.rspTime # 0, NEW k \in AppendRsp(u, p) PROVE Follows(k, z, sent)
  <2>1. CASE k = u
    BY <1>6, <2>1
  <2>2. CASE k = [u EXCEPT !.rspBuf = Append(@, x)]
    <3>1. /\ k.rspBuf = Append(u.rspBuf, x) /\ k.reqBuf = u.reqBuf
          /\ k.reqTime = u.reqTime /\ k.rspTime = u.rspTime /\ ConnOf(k) = ConnOf(u)
      BY <2>2 DEF Session, ConnOf
    <3>2. /\ InOrder(k.rspBuf)
          /\ \A i \in DOMAIN k.rspBuf :
                k.rspBuf[i] = x \/ (i \in DOMAIN u.rspBuf /\ k.rspBuf[i] = u.rspBuf[i])
          /\ k.rspBuf[1] = IF u.rspBuf = << >> THEN x ELSE u.rspBuf[1]
      <4>1. \A i \in DOMAIN u.rspBuf : u.rspBuf[i].at < x.at
        BY <1>2, <1>5
      <4>2. QED
        BY <1>2, <1>3, <1>5, <3>1, <4>1, AppendedBuffer
    <3>3. u.rspTime \in 1 .. n /\ Stamps(k) = Stamps(u)
      BY <1>1, <1>3, <1>9, <3>1 DEF Stamped, Stamps
    <3>4. Stamped(k, n)
      BY <1>2, <3>1, <3>2, <3>3 DEF Stamped
    <3>5. QED
      BY <1>5, <1>7, <3>1, <3>2, <3>4
  <2>3. QED
    BY <1>9, <2>1, <2>2 DEF AppendRsp, x
<1>10. QED
  BY <1>8, <1>9

-----------------------------------------------------------------------------
(* What every path through Process comes to: the session found is flushed  *)
(* or not, and at most it goes back, with or without the new segment.      *)
SentIf(flush, z) == IF flush THEN Sent(z) ELSE {}

Grown(k, z, flush, p) ==
    LET q == IF flush THEN << >> ELSE z.reqBuf
        r == IF flush THEN << >> ELSE z.rspBuf
    IN  \/ k.reqBuf = q /\ k.rspBuf = r
        \/ k.reqBuf = Append(q, Seen(p)) /\ k.rspBuf = r /\ (q = << >> \/ r = << >>)
        \/ k.reqBuf = q /\ k.rspBuf = Append(r, Seen(p))

Outcome(p, l, kept, flush) ==
    /\ kept \in SUBSET Session
    /\ \A k, u \in kept : k = u
    /\ \A k \in kept : Follows(k, l.ses, SentIf(flush, l.ses)) /\ Grown(k, l.ses, flush, p)
    /\ kept = {} => flush
    /\ Leave(p, l.others, kept, SentIf(flush, l.ses))

LEMMA OutcomeOne ==
    ASSUME NEW p, NEW l, NEW flush, NEW k \in Session,
           Follows(k, l.ses, SentIf(flush, l.ses)), Grown(k, l.ses, flush, p),
           Leave(p, l.others, {k}, SentIf(flush, l.ses))
    PROVE  Outcome(p, l, {k}, flush)
BY DEF Outcome

LEMMA StampSet ==
    ASSUME NEW s \in Session, NEW n \in 0 .. MaxPackets
    PROVE  /\ LET u == [s EXCEPT !.reqTime = n]
              IN  /\ u \in Session /\ ConnOf(u) = ConnOf(s) /\ u.reqTime = n
                  /\ u.reqBuf = s.reqBuf /\ u.rspBuf = s.rspBuf /\ u.rspTime = s.rspTime
           /\ LET u == [s EXCEPT !.rspTime = n]
              IN  /\ u \in Session /\ ConnOf(u) = ConnOf(s) /\ u.rspTime = n
                  /\ u.reqBuf = s.reqBuf /\ u.rspBuf = s.rspBuf /\ u.reqTime = s.reqTime
BY DEF Session, ConnOf

LEMMA ProcessOutcome ==
    ASSUME LInv, NEW p \in Packets, arrived < MaxPackets, NEW l \in Lookup(p),
           \/ SessionOver(p, l) \/ RepeatedPacket(p, l) \/ ZeroLength(p, l)
           \/ RequestData(p, l) \/ ResponseData(p, l)
    PROVE  \E flush \in BOOLEAN : \E kept : Outcome(p, l, kept, flush)
<1> DEFINE z == l.ses
           n == arrived + 1
<1>0. IInv /\ arrived \in Nat /\ n \in Nat /\ arrived \in 0 .. MaxPackets /\ n \in 1 .. MaxPackets
  BY HandleAssumption DEF LInv, IInv, TypeOK
<1>1. z \in Session /\ ConnOf(z) \in Connection
  BY <1>0, LookupOK DEF Connection
<1>2. Listed(HolderOf(z), arrived) /\ Stamped(z, arrived)
  BY FoundLedger
<1>3. Fine(z, n)
  BY <1>0, <1>1, <1>2, Later DEF Fine
<1> HIDE DEF z
<1>4. CASE SessionOver(p, l)
  <2>1. Leave(p, l.others, {}, SentIf(TRUE, z))
    BY <1>4 DEF SessionOver, SentIf, z
  <2>2. Outcome(p, l, {}, TRUE)
    BY <2>1 DEF Outcome, z
  <2>3. QED
    BY <2>2
<1>5. CASE RepeatedPacket(p, l) \/ ZeroLength(p, l)
  <2>1. Leave(p, l.others, {z}, SentIf(FALSE, z))
    BY <1>5 DEF RepeatedPacket, ZeroLength, SentIf, z
  <2>2. Follows(z, z, SentIf(FALSE, z))
    BY <1>3 DEF Follows, SentIf
  <2>3. Grown(z, z, FALSE, p)
    BY DEF Grown
  <2>4. Outcome(p, l, {z}, FALSE)
    BY <1>1, <2>1, <2>2, <2>3, OutcomeOne DEF z
  <2>5. QED
    BY <2>4
<1>6. CASE RequestData(p, l)
  <2> DEFINE s == [z EXCEPT !.seqNo = p.seq]
             full == s.reqBuf # << >> /\ s.rspBuf # << >>
             t == IF full THEN Cleared(s) ELSE s
             u == IF t.reqBuf = << >> /\ t.reqTime = 0
                  THEN [t EXCEPT !.reqTime = n] ELSE t
  <2>1. /\ s \in Session /\ ConnOf(s) = ConnOf(z)
        /\ s.reqBuf = z.reqBuf /\ s.rspBuf = z.rspBuf
        /\ s.reqTime = z.reqTime /\ s.rspTime = z.rspTime
    <3>1. p.seq \in SeqNum
      BY HandleAssumption DEF Packet
    <3>2. QED
      BY <1>1, <3>1 DEF Session, ConnOf
  <2>2. PICK k \in AppendReq(u, p) : Leave(p, l.others, {k}, IF full THEN Sent(s) ELSE {})
    BY <1>6 DEF RequestData, z
  <2>3. Sent(s) = Sent(z)
    BY <2>1 DEF Sent
  <2> HIDE DEF s
  <2>4. /\ t \in Session /\ ConnOf(t) = ConnOf(z)
        /\ full => t.reqBuf = << >> /\ t.rspBuf = << >> /\ t.reqTime = 0 /\ t.rspTime = 0
        /\ ~full => t.reqBuf = z.reqBuf /\ t.rspBuf = z.rspBuf
                    /\ t.reqTime = z.reqTime /\ t.rspTime = z.rspTime
    <3>1. Cleared(s) \in Session
      <4>1. << >> \in Seq(Captured) /\ 0 \in 0 .. MaxPackets
        BY HandleAssumption
      <4>2. QED
        BY <2>1, <4>1 DEF Cleared, Session
    <3>2. QED
      BY <2>1, <3>1, ClearedIsEmpty
  <2>5. full \in BOOLEAN /\ (~full => z.reqBuf = << >> \/ z.rspBuf = << >>)
    BY <2>1
  <2> HIDE DEF full, t
  <2>6. /\ u \in Session /\ ConnOf(u) = ConnOf(z)
        /\ u.reqBuf = t.reqBuf /\ u.rspBuf = t.rspBuf /\ u.rspTime = t.rspTime
        /\ u.reqTime = IF t.reqBuf = << >> /\ t.reqTime = 0 THEN n ELSE t.reqTime
    <3>1. CASE t.reqBuf = << >> /\ t.reqTime = 0
      <4>1. u = [t EXCEPT !.reqTime = n] /\ n \in 0 .. MaxPackets
        BY <1>0, <3>1
      <4> HIDE DEF u, n
      <4>2. /\ u \in Session /\ ConnOf(u) = ConnOf(t) /\ u.reqTime = n
            /\ u.reqBuf = t.reqBuf /\ u.rspBuf = t.rspBuf /\ u.rspTime = t.rspTime
        BY <2>4, <4>1, StampSet
      <4>3. QED
        BY <2>4, <3>1, <4>2
    <3>2. CASE ~(t.reqBuf = << >> /\ t.reqTime = 0)
      BY <2>4, <3>2
    <3>3. QED
      BY <3>1, <3>2
  <2> HIDE DEF u
  <2>7. HolderOf(u).req = t.reqBuf /\ HolderOf(u).rsp = t.rspBuf
    BY <2>6 DEF HolderOf
  <2>8. HolderOf(z).req = z.reqBuf /\ HolderOf(z).rsp = z.rspBuf
    BY DEF HolderOf
  <2>9. full => Uses(HolderOf(u)) = {} /\ Stamps(u) \subseteq {n}
    <3>1. ASSUME full PROVE Uses(HolderOf(u)) = {}
      <4>1. HolderOf(u).req = << >> /\ HolderOf(u).rsp = << >> /\ DOMAIN << >> = {}
        BY <2>4, <2>7, <3>1
      <4>2. QED
        BY <4>1 DEF Uses
    <3>2. QED
      BY <2>4, <2>6, <3>1 DEF Stamps
  <2>10. ~full => Uses(HolderOf(u)) = Uses(HolderOf(z)) /\ Stamps(u) \subseteq Stamps(z) \cup {n}
    BY <2>4, <2>6, <2>7, <2>8 DEF Uses, Stamps
  <2>11. Listed(HolderOf(u), arrived)
    <3>1. CASE full
      <4>1. HolderOf(u).req = << >> /\ HolderOf(u).rsp = << >> /\ DOMAIN << >> = {}
        BY <2>4, <2>7, <3>1
      <4>2. InOrder(<< >>)
        BY DEF InOrder
      <4>3. QED
        BY <2>9, <3>1, <4>1, <4>2 DEF Listed
    <3>2. CASE ~full
      BY <1>2, <2>4, <2>7, <2>8, <2>10, <3>2 DEF Listed
    <3>3. QED
      BY <3>1, <3>2
  <2>12. Stamped(u, n) /\ u.reqTime # 0
    <3>1. /\ z.reqBuf # << >> => z.reqTime \in 1 .. z.reqBuf[1].at
          /\ z.rspBuf # << >> => z.rspTime \in 1 .. z.rspBuf[1].at
          /\ \A v \in Stamps(z) : v <= n
      BY <1>3 DEF Fine, Stamped
    <3>2. /\ t.reqBuf # << >> => t.reqTime \in 1 .. t.reqBuf[1].at
          /\ t.rspBuf # << >> => t.rspTime \in 1 .. t.rspBuf[1].at
      BY <2>4, <3>1
    <3>3. /\ u.reqBuf # << >> => u.reqTime \in 1 .. u.reqBuf[1].at
          /\ u.rspBuf # << >> => u.rspTime \in 1 .. u.rspBuf[1].at
      BY <2>6, <3>2
    <3>4. \A v \in Stamps(u) : v <= n
      BY <1>0, <2>5, <2>9, <2>10, <3>1
    <3>5. u.reqTime # 0
      BY <1>0, <2>6, <3>2
    <3>6. QED
      BY <3>3, <3>4, <3>5 DEF Stamped
  <2>13. SentIf(full, z) = IF full THEN Sent(s) ELSE {}
    BY <2>3 DEF SentIf
  <2>14. Follows(k, z, SentIf(full, z))
    <3>1. \/ SentIf(full, z) = {} /\ Uses(HolderOf(u)) \subseteq Uses(HolderOf(z))
                                  /\ Stamps(u) \subseteq Stamps(z) \cup {arrived + 1}
          \/ Uses(HolderOf(u)) = {} /\ Stamps(u) \subseteq {arrived + 1}
      BY <2>9, <2>10 DEF SentIf
    <3>2. QED
      BY <1>1, <2>2, <2>6, <2>11, <2>12, <3>1, AppendFollows
  <2>15. k \in Session /\ Grown(k, z, full, p)
    <3>1. Seen(p) \in Captured
      BY <1>0, HandleAssumption DEF Seen, Captured
    <3>2. Append(u.reqBuf, Seen(p)) \in Seq(Captured)
      BY <2>6, <3>1 DEF Session
    <3>3. /\ k \in Session /\ k.rspBuf = u.rspBuf
          /\ k.reqBuf = u.reqBuf \/ k.reqBuf = Append(u.reqBuf, Seen(p))
      BY <2>2, <2>6, <3>2 DEF AppendReq, Session
    <3>4. QED
      BY <2>4, <2>5, <2>6, <3>3 DEF Grown
  <2>16. Outcome(p, l, {k}, full)
    BY <2>2, <2>13, <2>14, <2>15, OutcomeOne DEF z
  <2>17. QED
    BY <2>5, <2>16
<1>7. CASE ResponseData(p, l)
  <2> DEFINE s == [z EXCEPT !.seqNo = p.seq]
             u == IF s.rspBuf = << >> /\ s.rspTime = 0
                  THEN [s EXCEPT !.rspTime = n] ELSE s
  <2>1. /\ s \in Session /\ ConnOf(s) = ConnOf(z)
        /\ s.reqBuf = z.reqBuf /\ s.rspBuf = z.rspBuf
        /\ s.reqTime = z.reqTime /\ s.rspTime = z.rspTime
    <3>1. p.seq \in SeqNum
      BY HandleAssumption DEF Packet
    <3>2. QED
      BY <1>1, <3>1 DEF Session, ConnOf
  <2>2. PICK k \in AppendRsp(u, p) : Leave(p, l.others, {k}, {})
    BY <1>7 DEF ResponseData, z
  <2> HIDE DEF s
  <2>3. /\ u \in Session /\ ConnOf(u) = ConnOf(z)
        /\ u.reqBuf = z.reqBuf /\ u.rspBuf = z.rspBuf /\ u.reqTime = z.reqTime
        /\ u.rspTime = IF z.rspBuf = << >> /\ z.rspTime = 0 THEN n ELSE z.rspTime
    <3>1. CASE z.rspBuf = << >> /\ z.rspTime = 0
      <4>1. u = [s EXCEPT !.rspTime = n] /\ n \in 0 .. MaxPackets
        BY <1>0, <2>1, <3>1
      <4> HIDE DEF u, n
      <4>2. /\ u \in Session /\ ConnOf(u) = ConnOf(s) /\ u.rspTime = n
            /\ u.reqBuf = s.reqBuf /\ u.rspBuf = s.rspBuf /\ u.reqTime = s.reqTime
        BY <2>1, <4>1, StampSet
      <4>3. QED
        BY <2>1, <3>1, <4>2
    <3>2. CASE ~(z.rspBuf = << >> /\ z.rspTime = 0)
      BY <2>1, <3>2
    <3>3. QED
      BY <3>1, <3>2
  <2> HIDE DEF u
  <2>4. HolderOf(u) = HolderOf(z) /\ Stamps(u) \subseteq Stamps(z) \cup {n}
    BY <2>3 DEF HolderOf, Stamps
  <2>5. Stamped(u, n) /\ u.rspTime # 0
    <3>1. /\ z.reqBuf # << >> => z.reqTime \in 1 .. z.reqBuf[1].at
          /\ z.rspBuf # << >> => z.rspTime \in 1 .. z.rspBuf[1].at
          /\ \A v \in Stamps(z) : v <= n
      BY <1>3 DEF Fine, Stamped
    <3>2. \A v \in Stamps(u) : v <= n
      BY <1>0, <2>4, <3>1
    <3>3. QED
      BY <1>0, <2>3, <3>1, <3>2 DEF Stamped
  <2>6. SentIf(FALSE, z) = {}
    BY DEF SentIf
  <2>7. Follows(k, z, SentIf(FALSE, z))
    BY <1>1, <1>2, <2>2, <2>3, <2>4, <2>5, <2>6, AppendFollows
  <2>8. k \in Session /\ Grown(k, z, FALSE, p)
    <3>1. Seen(p) \in Captured
      BY <1>0, HandleAssumption DEF Seen, Captured
    <3>2. Append(u.rspBuf, Seen(p)) \in Seq(Captured)
      BY <2>3, <3>1 DEF Session
    <3>3. /\ k \in Session /\ k.reqBuf = u.reqBuf
          /\ k.rspBuf = u.rspBuf \/ k.rspBuf = Append(u.rspBuf, Seen(p))
      BY <2>2, <2>3, <3>2 DEF AppendRsp, Session
    <3>4. QED
      BY <2>3, <3>3 DEF Grown
  <2>9. Outcome(p, l, {k}, FALSE)
    BY <2>2, <2>6, <2>7, <2>8, OutcomeOne DEF z
  <2>10. QED
    BY <2>9
<1>8. QED
  BY <1>4, <1>5, <1>6, <1>7

-----------------------------------------------------------------------------
LEMMA InitLInv == Init => LInv
<1>. SUFFICES ASSUME Init PROVE LInv
  OBVIOUS
<1>1. emitted = {} /\ \A b \in Bucket : table[b] = {}
  BY DEF Init
<1>2. Ledger(table, emitted, arrived)
  BY <1>1 DEF Ledger
<1>3. QED
  BY <1>2, InitIInv DEF LInv

LEMMA NextLInv == LInv /\ [Next]_vars => LInv'
<1>. SUFFICES ASSUME LInv, [Next]_vars PROVE LInv'
  OBVIOUS
<1>0. IInv'
  BY NextIInv DEF LInv
<1>1. ASSUME NEW p \in Packets, arrived < MaxPackets, Process(p)
      PROVE  Ledger(table', emitted', arrived')
  <2>1. PICK l \in Lookup(p) :
           \/ SessionOver(p, l) \/ RepeatedPacket(p, l) \/ ZeroLength(p, l)
           \/ RequestData(p, l) \/ ResponseData(p, l)
    BY <1>1 DEF Process
  <2>2. PICK flush \in BOOLEAN : \E kept : Outcome(p, l, kept, flush)
    BY <1>1, <2>1, ProcessOutcome
  <2>3. PICK kept : Outcome(p, l, kept, flush)
    BY <2>2
  <2> DEFINE sent == SentIf(flush, l.ses)
  <2>4. sent \subseteq {HolderOf(l.ses)}
    BY SentIsHolder DEF SentIf
  <2>5. /\ kept \in SUBSET Session /\ \A s, u \in kept : s = u
        /\ \A k \in kept : Follows(k, l.ses, sent)
        /\ Leave(p, l.others, kept, sent)
    BY <2>3 DEF Outcome
  <2> HIDE DEF sent
  <2>6. QED
    BY <2>4, <2>5, LeaveLedger
<1>2. ASSUME Tick \/ UNCHANGED vars PROVE Ledger(table', emitted', arrived')
  BY <1>2 DEF Tick, vars, LInv
<1>3. QED
  BY <1>0, <1>1, <1>2 DEF Next, LInv

THEOREM LedgerKept == Spec => []LInv
<1>1. QED
  BY InitLInv, NextLInv, PTL DEF Spec

(* No path through Process, the timeout check or the parser's call uses a  *)
(* captured segment twice or out of order, in whatever buffers and records *)
(* it ends up, and no record shares a segment with another connection's.   *)
THEOREM HandleSegmentsUsedOnce == Spec => []SegmentsUsedOnce
<1>1. LInv => SegmentsUsedOnce
  <2>1. SUFFICES ASSUME LInv PROVE SegmentsUsedOnce
    OBVIOUS
  <2>2. Ledger(table, emitted, arrived)
    BY <2>1 DEF LInv
  <2>3. \A h \in Holders : h \in emitted \/ \E b \in Bucket : \E s \in table[b] : h = HolderOf(s)
    BY DEF Holders, Sessions, HolderOf
  <2>4. \A h \in Holders : Listed(h, arrived)
    BY <2>2, <2>3 DEF Ledger, Fine
  <2>5. ASSUME NEW g \in Holders, NEW h \in Holders, g # h PROVE Apart(g, h)
    <3>1. CASE g \in emitted /\ h \in emitted
      BY <2>2, <2>5, <3>1 DEF Ledger
    <3>2. CASE g \in emitted /\ h \notin emitted
      BY <2>2, <2>3, <3>2 DEF Ledger, Apart
    <3>3. CASE g \notin emitted /\ h \in emitted
      BY <2>2, <2>3, <3>3 DEF Ledger
    <3>4. CASE g \notin emitted /\ h \notin emitted
      BY <2>2, <2>3, <2>5, <3>4 DEF Ledger
    <3>5. QED
      BY <3>1, <3>2, <3>3, <3>4
  <2>6. QED
    BY <2>4, <2>5 DEF SegmentsUsedOnce, Listed, Apart
<1>2. QED
  BY <1>1, LedgerKept, PTL

(* A stamp set before a failed Append, kept over a repeated packet or      *)
(* zeroed by Reset never dates an exchange with an earlier one's time.     *)
THEOREM HandleStampsCurrent == Spec => []StampsCurrent
<1>1. LInv => StampsCurrent
  <2>1. SUFFICES ASSUME LInv PROVE StampsCurrent
    OBVIOUS
  <2>2. Ledger(table, emitted, arrived)
    BY <2>1 DEF LInv
  <2>3. \A s \in Sessions : \E b \in Bucket : s \in table[b]
    BY DEF Sessions
  <2>4. \A s \in Sessions : Stamped(s, arrived) /\ \A r \in emitted : Younger(s, r)
    BY <2>2, <2>3 DEF Ledger, Fine
  <2>5. QED
    BY <2>4 DEF StampsCurrent, Stamped, Younger, Stamps
<1>2. QED
  BY <1>1, LedgerKept, PTL

-----------------------------------------------------------------------------
(* Connection c holds the two buffers q and r in table t: those of its     *)
(* session, or nothing.                                                    *)
HasNone(t, c) == \A b \in Bucket : \A s \in t[b] : ConnOf(s) # c

Holds(t, c, q, r) ==
    \/ HasNone(t, c) /\ q = << >> /\ r = << >>
    \/ \E b \in Bucket : \E s \in t[b] : ConnOf(s) = c /\ q = s.reqBuf /\ r = s.rspBuf

(* Two sessions of one connection are one, in the whole table. *)
LEMMA OneOfEach ==
    ASSUME NEW t, TableOK(t), NEW b \in Bucket, NEW c \in Bucket,
           NEW s \in t[b], NEW u \in t[c], ConnOf(s) = ConnOf(u)
    PROVE  b = c /\ s = u
<1>1. s \in Session /\ u \in Session
  BY DEF TableOK
<1>2. b = Hash(s.server, s.client) /\ c = Hash(u.server, u.client)
  BY DEF TableOK
<1>3. u.server \in Endpoint /\ u.client \in Endpoint /\ ConnOf(u) = {u.server, u.client}
  BY <1>1 DEF Session, ConnOf
<1>4. b = c
  BY <1>1, <1>2, <1>3, SameConnection
<1>5. QED
  BY <1>4 DEF TableOK

LEMMA HoldsUnique ==
    ASSUME NEW t, TableOK(t), NEW c, NEW q, NEW r, NEW q2, NEW r2,
           Holds(t, c, q, r), Holds(t, c, q2, r2)
    PROVE  q = q2 /\ r = r2
BY OneOfEach DEF Holds, HasNone

LEMMA HeldNow ==
    IInv => \A c \in Connection : Holds(table, c, ReqOf[c], RspOf[c])
<1>. SUFFICES ASSUME IInv, NEW c \in Connection PROVE Holds(table, c, ReqOf[c], RspOf[c])
  OBVIOUS
<1>1. /\ ReqOf[c] = IF Held(c) = {} THEN << >> ELSE (CHOOSE s \in Held(c) : TRUE).reqBuf
      /\ RspOf[c] = IF Held(c) = {} THEN << >> ELSE (CHOOSE s \in Held(c) : TRUE).rspBuf
  BY DEF ReqOf, RspOf
<1>2. \A s : s \in Held(c) <=> (ConnOf(s) = c /\ \E b \in Bucket : s \in table[b])
  BY DEF Held, Sessions
<1>3. CASE Held(c) = {}
  BY <1>1, <1>2, <1>3 DEF Holds, HasNone
<1>4. CASE Held(c) # {}
  <2> DEFINE s == CHOOSE x \in Held(c) : TRUE
  <2>1. s \in Held(c)
    BY <1>4
  <2>2. ReqOf[c] = s.reqBuf /\ RspOf[c] = s.rspBuf
    BY <1>1, <1>4
  <2> HIDE DEF s
  <2>3. QED
    BY <1>2, <2>1, <2>2 DEF Holds
<1>5. QED
  BY <1>3, <1>4

LEMMA HeldNext ==
    IInv' => \A c \in Connection : Holds(table', c, ReqOf'[c], RspOf'[c])
<1>. SUFFICES ASSUME IInv', NEW c \in Connection PROVE Holds(table', c, ReqOf'[c], RspOf'[c])
  OBVIOUS
<1>1. /\ ReqOf'[c] = IF Held(c)' = {} THEN << >> ELSE (CHOOSE s \in Held(c)' : TRUE).reqBuf
      /\ RspOf'[c] = IF Held(c)' = {} THEN << >> ELSE (CHOOSE s \in Held(c)' : TRUE).rspBuf
  BY DEF ReqOf, RspOf
<1>2. \A s : s \in Held(c)' <=> (ConnOf(s) = c /\ \E b \in Bucket : s \in table'[b])
  BY DEF Held, Sessions, ConnOf
<1>3. CASE Held(c)' = {}
  BY <1>1, <1>2, <1>3 DEF Holds, HasNone
<1>4. CASE Held(c)' # {}
  <2> DEFINE s == CHOOSE x \in Held(c)' : TRUE
  <2>1. s \in Held(c)'
    BY <1>4
  <2>2. ReqOf'[c] = s.reqBuf /\ RspOf'[c] = s.rspBuf
    BY <1>1, <1>4
  <2> HIDE DEF s
  <2>3. QED
    BY <1>2, <2>1, <2>2 DEF Holds
<1>5. QED
  BY <1>3, <1>4

(* The connections whose data the timeout check flushes. *)
FlushedByCheck ==
    {c \in Connection : CheckDue /\ \E b \in Visited : \E s \in table[b] : ConnOf(s) = c /\ Idle(s)}

HasReq(c) == IF c \in FlushedByCheck THEN << >> ELSE ReqOf[c]
HasRsp(c) == IF c \in FlushedByCheck THEN << >> ELSE RspOf[c]

(* An expired session that is not idle has nothing to flush: it is dropped *)
(* with two empty buffers.                                                 *)
LEMMA ExpiredIsIdle ==
    ASSUME IInv, NEW s \in Session, Expired(s), ~Idle(s)
    PROVE  s.reqBuf = << >> /\ s.rspBuf = << >>
<1>1. now \in Int /\ s.refresh \in Int /\ FLUSH_AGE \in Int /\ TIMEOUT \in Int /\ FLUSH_AGE < TIMEOUT
  BY HandleAssumption DEF IInv, TypeOK, Session
<1>2. now - s.refresh > FLUSH_AGE
  BY <1>1 DEF Expired
<1>3. QED
  BY <1>2 DEF Idle

LEMMA AgedHolds ==
    ASSUME IInv, NEW c \in Connection
    PROVE  Holds(Aged, c, HasReq(c), HasRsp(c))
<1>1. TableOK(table) /\ Holds(table, c, ReqOf[c], RspOf[c])
  BY HeldNow DEF IInv
<1>2. \A b \in Bucket : \A x \in Aged[b] : \E s \in table[b] :
         /\ s \in Session /\ ConnOf(x) = ConnOf(s)
         /\ x = s \/ (x = Cleared(s) /\ CheckDue /\ b \in Visited /\ Idle(s))
  BY AgedOrigin, ClearedIsEmpty
<1>3. CASE HasNone(table, c)
  <2>1. HasNone(Aged, c)
    BY <1>2, <1>3 DEF HasNone
  <2>2. ReqOf[c] = << >> /\ RspOf[c] = << >>
    BY <1>1, <1>3 DEF Holds, HasNone
  <2>3. QED
    BY <2>1, <2>2 DEF Holds, HasReq, HasRsp
<1>4. CASE ~HasNone(table, c)
  <2>1. PICK b \in Bucket : \E s \in table[b] : ConnOf(s) = c
    BY <1>4 DEF HasNone
  <2>2. PICK s \in table[b] : ConnOf(s) = c
    BY <2>1
  <2>3. s \in Session
    BY DEF IInv, TypeOK
  <2>4. ReqOf[c] = s.reqBuf /\ RspOf[c] = s.rspBuf
    <3>1. Holds(table, c, s.reqBuf, s.rspBuf)
      BY <2>2 DEF Holds
    <3>2. QED
      BY <1>1, <3>1, HoldsUnique
  <2>5. c \in FlushedByCheck <=> CheckDue /\ b \in Visited /\ Idle(s)
    <3>1. \A d \in Visited : d \in Bucket
      BY DEF Visited
    <3>2. \A d \in Bucket : \A u \in table[d] : ConnOf(u) = c => d = b /\ u = s
      BY <1>1, <2>2, OneOfEach
    <3>3. QED
      BY <2>2, <3>1, <3>2 DEF FlushedByCheck
  <2>6. CASE ~(CheckDue /\ b \in Visited)
    <3>1. s \in Aged[b]
      BY <2>2, <2>6 DEF Aged
    <3>2. HasReq(c) = s.reqBuf /\ HasRsp(c) = s.rspBuf
      BY <2>4, <2>5, <2>6 DEF HasReq, HasRsp
    <3>3. QED
      BY <2>2, <3>1, <3>2 DEF Holds
  <2>7. CASE CheckDue /\ b \in Visited /\ ~Expired(s)
    <3>1. (IF Idle(s) THEN Cleared(s) ELSE s) \in Aged[b]
      BY <2>7 DEF Aged
    <3>2. CASE Idle(s)
      <4>1. /\ Cleared(s).reqBuf = << >> /\ Cleared(s).rspBuf = << >>
            /\ ConnOf(Cleared(s)) = c
        BY <2>2, <2>3, ClearedIsEmpty
      <4>2. HasReq(c) = << >> /\ HasRsp(c) = << >>
        BY <2>5, <2>7, <3>2 DEF HasReq, HasRsp
      <4>3. QED
        BY <3>1, <3>2, <4>1, <4>2 DEF Holds
    <3>3. CASE ~Idle(s)
      <4>1. HasReq(c) = s.reqBuf /\ HasRsp(c) = s.rspBuf
        BY <2>4, <2>5, <3>3 DEF HasReq, HasRsp
      <4>2. QED
        BY <2>2, <3>1, <3>3, <4>1 DEF Holds
    <3>4. QED
      BY <3>2, <3>3
  <2>8. CASE CheckDue /\ b \in Visited /\ Expired(s)
    <3>1. HasNone(Aged, c)
      <4>1. SUFFICES ASSUME NEW d \in Bucket, NEW x \in Aged[d], ConnOf(x) = c PROVE FALSE
        BY DEF HasNone
      <4>2. PICK u \in {v \in table[d] : ~(CheckDue /\ d \in Visited /\ Expired(v))} : ConnOf(x) = ConnOf(u)
        <5>1. CASE CheckDue /\ d \in Visited
          <6>1. PICK u \in {v \in table[d] : ~Expired(v)} : x = IF Idle(u) THEN Cleared(u) ELSE u
            BY <5>1 DEF Aged
          <6>2. u \in Session
            BY DEF IInv, TypeOK
          <6>3. QED
            BY <6>1, <6>2, ClearedIsEmpty
        <5>2. CASE ~(CheckDue /\ d \in Visited)
          BY <5>2 DEF Aged
        <5>3. QED
          BY <5>1, <5>2
      <4>3. d = b /\ u = s
        BY <1>1, <2>2, <4>1, <4>2, OneOfEach
      <4>4. QED
        BY <2>8, <4>2, <4>3
    <3>2. HasReq(c) = << >> /\ HasRsp(c) = << >>
      BY <2>3, <2>4, <2>5, <2>8, ExpiredIsIdle DEF HasReq, HasRsp
    <3>3. QED
      BY <3>1, <3>2 DEF Holds
  <2>9. QED
    BY <2>6, <2>7, <2>8
<1>5. QED
  BY <1>3, <1>4

(* Find or Create, said of connections. *)
LEMMA FoundHolds ==
    ASSUME IInv, NEW p \in Packets, NEW l \in Lookup(p)
    PROVE  LET c == {p.src, p.dst} IN
           /\ c \in Connection
           /\ l.ses.reqBuf = HasReq(c) /\ l.ses.rspBuf = HasRsp(c)
           /\ \A s \in Aged[Hash(p.src, p.dst)] : ConnOf(s) # c => s \in l.others
<1> DEFINE h == Hash(p.src, p.dst)
           c == {p.src, p.dst}
           found == {s \in Aged[h] : IsSameSes(p.src, p.dst, s)}
<1>0. /\ p.src \in Endpoint /\ p.dst \in Endpoint /\ h \in Bucket /\ c \in Connection
      /\ now \in 0 .. MaxTime
  BY HandleAssumption DEF Packet, Bucket, Connection, IInv, TypeOK
<1>1. TableOK(Aged) /\ Holds(Aged, c, HasReq(c), HasRsp(c))
  BY <1>0, AgedOK, AgedHolds
<1>2. \A b \in Bucket : \A s \in Aged[b] :
         /\ s \in Session /\ (IsSameSes(p.src, p.dst, s) <=> ConnOf(s) = c)
         /\ ConnOf(s) = c => b = h
  BY <1>0, <1>1, SameConnection DEF TableOK
<1>3. CASE found = {}
  <2>1. l.ses \in NewSessions(p) /\ l.others = Aged[h]
    BY <1>3 DEF Lookup
  <2>2. l.ses.reqBuf = << >> /\ l.ses.rspBuf = << >>
    BY <2>1 DEF NewSessions
  <2>3. HasNone(Aged, c)
    BY <1>0, <1>2, <1>3 DEF HasNone
  <2>4. QED
    BY <1>0, <1>1, <2>1, <2>2, <2>3 DEF Holds, HasNone
<1>4. CASE found # {}
  <2>1. PICK s \in found : l = [ses |-> [s EXCEPT !.refresh = now], others |-> Aged[h] \ {s}]
    BY <1>4 DEF Lookup
  <2>2. s \in Session /\ s \in Aged[h] /\ ConnOf(s) = c
    BY <1>0, <1>2
  <2>3. l.ses.reqBuf = s.reqBuf /\ l.ses.rspBuf = s.rspBuf
    BY <2>1, <2>2 DEF Session
  <2>4. Holds(Aged, c, s.reqBuf, s.rspBuf)
    BY <1>0, <2>2 DEF Holds
  <2>5. s.reqBuf = HasReq(c) /\ s.rspBuf = HasRsp(c)
    BY <1>1, <2>4, HoldsUnique
  <2>6. \A x \in Aged[h] : ConnOf(x) # c => x \in l.others
    BY <2>1, <2>2
  <2>7. QED
    BY <1>0, <2>3, <2>5, <2>6
<1>5. QED
  BY <1>3, <1>4

LEMMA OutcomeHolds ==
    ASSUME IInv, IInv', NEW p \in Packets, NEW l \in Lookup(p), NEW kept, NEW flush,
           Outcome(p, l, kept, flush)
    PROVE  LET c == {p.src, p.dst} IN
           /\ \A d \in Connection \ {c} : ReqOf'[d] = HasReq(d) /\ RspOf'[d] = HasRsp(d)
           /\ kept = {} => ReqOf'[c] = << >> /\ RspOf'[c] = << >>
           /\ \A k \in kept : ReqOf'[c] = k.reqBuf /\ RspOf'[c] = k.rspBuf
<1> DEFINE h == Hash(p.src, p.dst)
           c == {p.src, p.dst}
<1>0. /\ p.src \in Endpoint /\ p.dst \in Endpoint /\ h \in Bucket /\ c \in Connection
  BY HandleAssumption DEF Packet, Bucket, Connection
<1>1. /\ ConnOf(l.ses) = c /\ l.others \subseteq Aged[h]
      /\ \A s \in l.others : ConnOf(s) # c
      /\ \A s \in Aged[h] : ConnOf(s) # c => s \in l.others
  BY LookupOK, FoundHolds
<1>2. TableOK(Aged) /\ TableOK(table')
  BY AgedOK DEF IInv
<1>3. \A b \in Bucket : table'[b] = IF b = h THEN l.others \cup kept ELSE Aged[b]
  BY <1>0, <1>2 DEF Outcome, Leave, TableOK
<1>4. \A k \in kept : ConnOf(k) = c
  BY <1>1 DEF Outcome, Follows
<1>5. \A b \in Bucket : \A s \in Aged[b] : s \in Session /\ (ConnOf(s) = c => b = h)
  BY <1>0, <1>2, SameConnection DEF TableOK
<1>6. \A d \in Connection : Holds(table', d, ReqOf'[d], RspOf'[d])
  BY HeldNext
<1> HIDE DEF h, c
<1>7. ASSUME NEW d \in Connection, d # c
      PROVE  ReqOf'[d] = HasReq(d) /\ RspOf'[d] = HasRsp(d)
  <2>1. Holds(Aged, d, HasReq(d), HasRsp(d))
    BY AgedHolds
  <2>2. \A b \in Bucket : \A s : ConnOf(s) = d => (s \in table'[b] <=> s \in Aged[b])
    BY <1>1, <1>3, <1>4, <1>7
  <2>3. Holds(table', d, HasReq(d), HasRsp(d))
    BY <2>1, <2>2 DEF Holds, HasNone
  <2>4. QED
    BY <1>2, <1>6, <2>3, HoldsUnique
<1>8. ASSUME kept = {} PROVE ReqOf'[c] = << >> /\ RspOf'[c] = << >>
  <2>1. HasNone(table', c)
    BY <1>1, <1>3, <1>5, <1>8 DEF HasNone
  <2>2. QED
    BY <1>0, <1>6, <2>1 DEF Holds, HasNone
<1>9. ASSUME NEW k \in kept PROVE ReqOf'[c] = k.reqBuf /\ RspOf'[c] = k.rspBuf
  <2>1. Holds(table', c, k.reqBuf, k.rspBuf)
    BY <1>0, <1>3, <1>4 DEF Holds
  <2>2. QED
    BY <1>0, <1>2, <1>6, <2>1, HoldsUnique
<1>10. QED
  BY <1>7, <1>8, <1>9 DEF c

(* What the timeout check sends is one record for each connection it       *)
(* flushes, with all it held, when that is an exchange that decodes.       *)
LEMMA CheckRecords ==
    ASSUME LInv
    PROVE  SentByCheck = {X!RecordOf(c) : c \in {d \in FlushedByCheck : X!Complete(d)}}
<1>0. IInv /\ TableOK(table) /\ \A c \in Connection : Holds(table, c, ReqOf[c], RspOf[c])
  BY HeldNow DEF LInv, IInv
<1>1. ASSUME NEW b \in Bucket, NEW s \in table[b]
      PROVE  /\ ConnOf(s) \in Connection
             /\ ReqOf[ConnOf(s)] = s.reqBuf /\ RspOf[ConnOf(s)] = s.rspBuf
             /\ X!RecordOf(ConnOf(s)) = HolderOf(s)
             /\ X!Complete(ConnOf(s)) => HolderOf(s) \in Sent(s)
             /\ Sent(s) # {} => X!Complete(ConnOf(s))
  <2>1. ConnOf(s) \in Connection
    BY DEF LInv, Ledger, Fine
  <2>2. Holds(table, ConnOf(s), s.reqBuf, s.rspBuf)
    BY DEF Holds
  <2>3. ReqOf[ConnOf(s)] = s.reqBuf /\ RspOf[ConnOf(s)] = s.rspBuf
    BY <1>0, <2>1, <2>2, HoldsUnique
  <2>4. X!RecordOf(ConnOf(s)) = HolderOf(s)
    BY <2>3 DEF X!RecordOf, HolderOf
  <2>5. X!Complete(ConnOf(s)) <=> s.reqBuf # << >> /\ s.rspBuf # << >> /\ Decodes(s.reqBuf, s.rspBuf)
    BY <2>3 DEF X!Complete
  <2>6. QED
    BY <2>1, <2>3, <2>4, <2>5 DEF Sent, HolderOf
<1>2. ASSUME NEW r \in SentByCheck
      PROVE  \E c \in FlushedByCheck : X!Complete(c) /\ r = X!RecordOf(c)
  <2>1. PICK b \in Bucket : \E s \in table[b] :
              /\ r \in Sent(s) /\ r = HolderOf(s)
              /\ CheckDue /\ b \in Visited /\ Idle(s)
    BY <1>0, CheckSends
  <2>2. PICK s \in table[b] :
              /\ r \in Sent(s) /\ r = HolderOf(s)
              /\ CheckDue /\ b \in Visited /\ Idle(s)
    BY <2>1
  <2>3. ConnOf(s) \in FlushedByCheck
    BY <1>1, <2>2 DEF FlushedByCheck
  <2>4. QED
    BY <1>1, <2>2, <2>3
<1>3. ASSUME NEW c \in FlushedByCheck, X!Complete(c) PROVE X!RecordOf(c) \in SentByCheck
  <2>1. PICK b \in Visited : CheckDue /\ \E s \in table[b] : ConnOf(s) = c /\ Idle(s)
    BY DEF FlushedByCheck
  <2>2. PICK s \in table[b] : ConnOf(s) = c /\ Idle(s)
    BY <2>1
  <2>3. b \in Bucket
    BY DEF Visited
  <2>4. HolderOf(s) \in Sent(s) /\ X!RecordOf(c) = HolderOf(s)
    BY <1>1, <1>3, <2>2, <2>3
  <2>5. s \in {t \in UNION {table[d] : d \in Visited} : Idle(t)}
    BY <2>2
  <2>6. QED
    BY <2>1, <2>4, <2>5 DEF SentByCheck
<1>4. QED
  BY <1>2, <1>3

(* One packet is one step of Exchange.                                     *)
LEMMA ProcessExchange ==
    ASSUME LInv, IInv', NEW p \in Packets, arrived < MaxPackets, Process(p)
    PROVE  X!Next
<1>1. PICK l \in Lookup(p) :
         \/ SessionOver(p, l) \/ RepeatedPacket(p, l) \/ ZeroLength(p, l)
         \/ RequestData(p, l) \/ ResponseData(p, l)
  BY DEF Process
<1>2. PICK flush \in BOOLEAN : \E kept : Outcome(p, l, kept, flush)
  BY <1>1, ProcessOutcome
<1>3. PICK kept : Outcome(p, l, kept, flush)
  BY <1>2
<1> DEFINE c == {p.src, p.dst}
           z == l.ses
           F == FlushedByCheck \cup (IF flush THEN {c} ELSE {})
<1>4. IInv /\ IInv' /\ c \in Connection /\ ConnOf(z) = c
  BY LookupOK, FoundHolds DEF LInv
<1>5. z.reqBuf = HasReq(c) /\ z.rspBuf = HasRsp(c)
  BY <1>4, FoundHolds
<1>6. /\ \A d \in Connection \ {c} : ReqOf'[d] = HasReq(d) /\ RspOf'[d] = HasRsp(d)
      /\ kept = {} => ReqOf'[c] = << >> /\ RspOf'[c] = << >>
      /\ \A k \in kept : ReqOf'[c] = k.reqBuf /\ RspOf'[c] = k.rspBuf
  BY <1>3, <1>4, OutcomeHolds
<1>7. /\ emitted' = emitted \cup SentByCheck \cup SentIf(flush, z)
      /\ kept = {} => flush
      /\ \A k \in kept : Grown(k, z, flush, p)
  BY <1>3 DEF Outcome, Leave
<1>8. FlushedByCheck \subseteq Connection
  BY DEF FlushedByCheck
<1>9. Seen(p) \in Segments[c]
  <2>1. Seen(p) \in Captured /\ Seen(p).pkt = p
    BY HandleAssumption DEF Seen, Captured, LInv, IInv, TypeOK
  <2>2. QED
    BY <1>4, <2>1 DEF Segments
<1> HIDE DEF c, z
<1>10. F \in SUBSET Connection /\ \A d : d \in F <=> d \in FlushedByCheck \/ (flush /\ d = c)
  BY <1>4, <1>8
<1> HIDE DEF F
<1>11. \A d \in Connection \ {c} : X!Keep(d, F)
  BY <1>6, <1>10 DEF X!Keep, X!ReqLeft, X!RspLeft, HasReq, HasRsp
<1>12. /\ X!ReqLeft(c, F) = IF flush THEN << >> ELSE z.reqBuf
       /\ X!RspLeft(c, F) = IF flush THEN << >> ELSE z.rspBuf
  BY <1>5, <1>10 DEF X!ReqLeft, X!RspLeft, HasReq, HasRsp
<1>13. X!Keep(c, F) \/ \E x \in Segments[c] : X!AddRequest(c, F, x) \/ X!AddResponse(c, F, x)
  <2>1. CASE kept = {}
    BY <1>6, <1>7, <1>12, <2>1 DEF X!Keep
  <2>2. CASE kept # {}
    <3>1. PICK k \in kept : TRUE
      BY <2>2
    <3>2. ReqOf'[c] = k.reqBuf /\ RspOf'[c] = k.rspBuf /\ Grown(k, z, flush, p)
      BY <1>6, <1>7
    <3>3. \/ X!Keep(c, F) \/ X!AddRequest(c, F, Seen(p)) \/ X!AddResponse(c, F, Seen(p))
      BY <1>12, <3>2 DEF Grown, X!Keep, X!AddRequest, X!AddResponse
    <3>4. QED
      BY <1>9, <3>3
  <2>3. QED
    BY <2>1, <2>2
<1>14. emitted' = emitted \cup {X!RecordOf(d) : d \in {e \in F : X!Complete(e)}}
  <2>1. SentByCheck = {X!RecordOf(d) : d \in {e \in FlushedByCheck : X!Complete(e)}}
    BY CheckRecords
  <2>2. CASE ~flush \/ c \in FlushedByCheck
    <3>1. SentIf(flush, z) = {}
      <4>1. c \in FlushedByCheck => z.reqBuf = << >>
        BY <1>5 DEF HasReq
      <4>2. QED
        BY <2>2, <4>1 DEF SentIf, Sent
    <3>2. F = FlushedByCheck
      BY <1>10, <2>2
    <3>3. QED
      BY <1>7, <2>1, <3>1, <3>2
  <2>3. CASE flush /\ c \notin FlushedByCheck
    <3>1. z.reqBuf = ReqOf[c] /\ z.rspBuf = RspOf[c]
      BY <1>5, <2>3 DEF HasReq, HasRsp
    <3>2. X!RecordOf(c) = [conn |-> ConnOf(z), req |-> z.reqBuf, rsp |-> z.rspBuf]
      BY <1>4, <3>1 DEF X!RecordOf, z, c
    <3>3. X!Complete(c) <=> z.reqBuf # << >> /\ z.rspBuf # << >> /\ Decodes(z.reqBuf, z.rspBuf)
      BY <3>1 DEF X!Complete
    <3>4. SentIf(flush, z) = {X!RecordOf(d) : d \in {e \in {c} : X!Complete(e)}}
      BY <2>3, <3>2, <3>3 DEF SentIf, Sent
    <3>5. F = FlushedByCheck \cup {c}
      BY <1>10, <2>3
    <3>6. {X!RecordOf(d) : d \in {e \in F : X!Complete(e)}} =
             {X!RecordOf(d) : d \in {e \in FlushedByCheck : X!Complete(e)}}
                \cup {X!RecordOf(d) : d \in {e \in {c} : X!Complete(e)}}
      <4> DEFINE C(e) == X!Complete(e)
                 R(d) == X!RecordOf(d)
      <4> HIDE DEF C, R
      <4>1. {R(d) : d \in {e \in F : C(e)}} = {R(d) : d \in {e \in FlushedByCheck : C(e)}}
                                                \cup {R(d) : d \in {e \in {c} : C(e)}}
        BY <3>5
      <4>2. QED
        BY <4>1 DEF C, R
    <3>7. QED
      BY <1>7, <2>1, <3>4, <3>6
  <2>4. QED
    BY <2>2, <2>3
<1>15. /\ ReqOf' = [d \in Connection |-> ReqOf'[d]]
       /\ RspOf' = [d \in Connection |-> RspOf'[d]]
  BY DEF ReqOf, RspOf
<1>16. QED
  BY <1>4, <1>10, <1>11, <1>13, <1>14, <1>15 DEF X!Next

(* The hash table, sessions created, timed out and removed in whatever     *)
(* order, and lost packets together are Exchange: connections never mix,   *)
(* segments keep their order and no complete exchange that decodes is      *)
(* dropped, for any capture, hash and timeouts.                            *)
THEOREM HandleImplementsExchange == Spec => ExchangeSpec
<1>1. Init => X!Init
  <2>1. SUFFICES ASSUME Init PROVE X!Init
    OBVIOUS
  <2>2. Sessions = {} /\ emitted = {}
    BY <2>1 DEF Init, Sessions
  <2>3. \A c : Held(c) = {}
    BY <2>2 DEF Held
  <2>4. QED
    BY <2>2, <2>3 DEF X!Init, ReqOf, RspOf
<1>2. LInv /\ [Next]_vars => [X!Next]_X!vars
  <2>1. SUFFICES ASSUME LInv, [Next]_vars PROVE X!Next \/ UNCHANGED X!vars
    OBVIOUS
  <2>2. IInv'
    BY <2>1, NextIInv DEF LInv
  <2>3. CASE \E p \in Packets : arrived < MaxPackets /\ Process(p)
    BY <2>1, <2>2, <2>3, ProcessExchange
  <2>4. CASE Tick \/ UNCHANGED vars
    <3>1. UNCHANGED <<table, emitted>>
      BY <2>4 DEF Tick, vars
    <3>2. Sessions' = Sessions
      BY <3>1 DEF Sessions
    <3>3. ReqOf' = ReqOf /\ RspOf' = RspOf
      BY <3>2 DEF ReqOf, RspOf, Held, ConnOf
    <3>4. QED
      BY <3>1, <3>3 DEF X!vars
  <2>5. QED
    BY <2>1, <2>3, <2>4 DEF Next
<1>3. QED
  BY <1>1, <1>2, LedgerKept, PTL DEF Spec, ExchangeSpec, X!Spec
==============================================================================
