------------------------------ MODULE BaspProofs ------------------------------
(***************************************************************************)
(* Proofs about the BASP brokers for finitely many nodes and connections,  *)
(* whoever dials whom and whichever connections the network drops: their   *)
(* types, their tables of routes and the middleman actor's cache.  The     *)
(* last part is about the end of an actor and its proxies, among at most   *)
(* three nodes and without losses, up to announcements nobody has flushed. *)
(***************************************************************************)
EXTENDS Basp, FiniteSetTheorems, SequenceTheorems, TLAPS

Maybe(S) == S \cup {None}

(* A message for the actor of another node, however many relays it passes. *)
Routed == {"spawn", "dispatch", "announce", "kill"}

Plain(m) ==
    /\ m \in [type : Routed, src : Node, dst : Node, about : Maybe(Node)]
    /\ m.src # m.dst
    /\ m.type = "dispatch" => m.about \in Node

(* A message for the broker at the other end, sent once per direction. *)
Greeting(m) ==
    m \in [type : {"server", "client"}, src : Node, dst : Maybe(Node), about : {None}]

Types == Routed \cup {"server", "client"}

Packet == [type : Types, src : Node, dst : Maybe(Node), about : Maybe(Node)]

Event == [what : {"proxy", "nothing", "ended", "down"}, node : Node]

Broker ==
    [byHdl : [Conn -> Maybe(Node)], byNid : [Maybe(Node) -> Maybe(Conn)],
     indirect : SUBSET Node, hops : [Node -> SUBSET Maybe(Node)],
     id : [Conn -> Maybe(Node)], servers : SUBSET Node, proxies : SUBSET Node,
     watchers : SUBSET Node, pending : SUBSET Node, cached : SUBSET Node,
     monitored : SUBSET Node, mail : SUBSET Event,
     out : [Conn -> Seq(Packet)], flushed : SUBSET Conn]

(* The middleman actor is or will be told of the end of every proxy it has *)
(* cached, and an answer it has not read yet says what became of its proxy. *)
Tended(s) ==
    /\ s.monitored \subseteq s.proxies
    /\ \A d \in Node : [what |-> "proxy", node |-> d] \in s.mail => d \in s.proxies
    /\ \A d \in s.cached : d \in s.monitored \/ [what |-> "down", node |-> d] \in s.mail

(* The record s of broker n, between any two calls of a handler. *)
Sound(s, n) ==
    /\ s \in Broker
    /\ n \notin s.proxies \cup s.indirect \cup s.watchers
    /\ Tended(s)
    /\ s.byNid[None] = None
    /\ \A c \in Conn : s.byHdl[c] # None => s.byNid[s.byHdl[c]] = c
    /\ \A d \in Node : s.byNid[d] # None =>
          s.byHdl[s.byNid[d]] = d /\ d \notin s.indirect /\ s.hops[d] = {}
    /\ \A d \in Node : s.hops[d] # {} => d \in s.indirect

(* A direct route of n is a connection it holds, to the node at its end.   *)
Connected(s, n, w) ==
    \A d \in Node : s.byNid[d] # None => n \in w[s.byNid[d]] /\ Peer(s.byNid[d], n) = d

(* A connection that has been opened has two ends, and only they hold it;  *)
(* one that has not carries nothing and is no route.                       *)
Wired ==
    /\ ends \in Seq({p \in Node \X Node : p[1] # p[2]}) /\ Len(ends) <= MaxConns
    /\ up \in [Conn -> SUBSET Node] /\ wire \in [Conn -> [Node -> Seq(Packet)]]
    /\ unsent \in [Conn -> [Node -> Nat]]
    /\ \A c \in Conn, n \in Node : unsent[c][n] <= Len(wire[c][n])
    /\ \A c \in Conn : c <= Len(ends) => up[c] \subseteq {ends[c][1], ends[c][2]}
    /\ \A c \in Conn : c > Len(ends) =>
          /\ up[c] = {}
          /\ \A n \in Node : wire[c][n] = << >> /\ broker[n].byHdl[c] = None

Is(type, c, n, i) == i \in DOMAIN wire[c][n] /\ wire[c][n][i].type = type

(* Each direction of a connection carries one handshake, the client's      *)
(* answers the server's, and until a broker has read the one sent to it    *)
(* the connection is not among its direct routes.                          *)
HandshakesOn(c) ==
    \A n \in Node : \A i \in DOMAIN wire[c][n] :
        /\ Plain(wire[c][n][i]) \/ Greeting(wire[c][n][i])
        /\ Is("server", c, n, i) =>
              /\ i = 1 /\ n = ends[c][1] /\ wire[c][n][i].src = ends[c][2]
              /\ \A x \in Node : broker[x].byHdl[c] = None
              /\ \A x \in Node, j \in Nat : ~Is("client", c, x, j)
        /\ Is("client", c, n, i) =>
              /\ n = ends[c][2] /\ wire[c][n][i].src = ends[c][1]
              /\ broker[n].byHdl[c] = None
              /\ \A j \in Nat : Is("client", c, n, j) => j = i

Tables == \A n \in Node : Sound(broker[n], n) /\ Connected(broker[n], n, up)

IInv ==
    /\ alive \subseteq Node /\ tells \in 0 .. MaxTells
    /\ broker \in [Node -> Broker]
    /\ Tables
    /\ \A n \in Node : broker[n].out = [c \in Conn |-> << >>] /\ broker[n].flushed = {}
    /\ Wired
    /\ \A c \in Conn : HandshakesOn(c)

-----------------------------------------------------------------------------
(* What the handlers' operators do to a sound record *)

(* Sequence y begins with x, and the rest of it is meant for actors. *)
Extends(x, y) ==
    /\ Len(x) <= Len(y)
    /\ \A i \in 1 .. Len(x) : y[i] = x[i]
    /\ \A i \in 1 .. Len(y) : i > Len(x) => Plain(y[i])

(* From s to t the direct routes stay and only messages for actors are     *)
(* written.                                                                *)
Keeps(s, t) ==
    /\ t.byHdl = s.byHdl /\ t.byNid = s.byNid
    /\ \A c \in Conn : Extends(s.out[c], t.out[c])

(* The middleman actor has nothing new to note.                            *)
Unnoticed(s, t) == t.cached = s.cached /\ t.monitored = s.monitored /\ t.mail = s.mail

LEMMA UnnoticedTended ==
    ASSUME NEW s, NEW t, Tended(s), Unnoticed(s, t), s.proxies \subseteq t.proxies
    PROVE  Tended(t)
BY DEF Tended, Unnoticed

LEMMA ExtendsAppend ==
    ASSUME NEW x \in Seq(Packet), NEW m, Plain(m)
    PROVE  Append(x, m) \in Seq(Packet) /\ Extends(x, Append(x, m))
<1>1. m \in Packet
  BY DEF Plain, Packet, Types, Maybe
<1>2. QED
  BY <1>1 DEF Extends

LEMMA KeepsSelf ==
    ASSUME NEW s \in Broker
    PROVE  Keeps(s, s)
<1>1. \A c \in Conn : s.out[c] \in Seq(Packet)
  BY DEF Broker
<1>2. QED
  BY <1>1 DEF Keeps, Extends

LEMMA KeepsTrans ==
    ASSUME NEW s \in Broker, NEW t \in Broker, NEW u \in Broker, Keeps(s, t), Keeps(t, u)
    PROVE  Keeps(s, u)
<1>1. ASSUME NEW c \in Conn PROVE Extends(s.out[c], u.out[c])
  <2>1. s.out[c] \in Seq(Packet) /\ t.out[c] \in Seq(Packet) /\ u.out[c] \in Seq(Packet)
    BY DEF Broker
  <2>2. Extends(s.out[c], t.out[c]) /\ Extends(t.out[c], u.out[c])
    BY DEF Keeps
  <2>3. QED
    BY <2>1, <2>2 DEF Extends
<1>2. QED
  BY <1>1 DEF Keeps

LEMMA LookedSound ==
    ASSUME NEW n \in Node, NEW s, Sound(s, n), NEW d \in Node
    PROVE  Sound(Looked(s, d), n) /\ Keeps(s, Looked(s, d))
<1>1. CASE s.byNid[d] # None
  BY <1>1, KeepsSelf DEF Looked, Sound
<1>2. CASE s.byNid[d] = None
  <2> DEFINE t == [s EXCEPT !.hops[d] = Usable(s, d)]
  <2>1. s \in Broker
    BY DEF Sound
  <2>2. Usable(s, d) \subseteq s.hops[d]
    BY DEF Usable
  <2>3. /\ t \in Broker
        /\ t = [s EXCEPT !.hops = t.hops]
        /\ t.hops = [s.hops EXCEPT ![d] = Usable(s, d)]
    BY <2>1, <2>2 DEF Broker
  <2>4. /\ t.byHdl = s.byHdl /\ t.byNid = s.byNid /\ t.out = s.out
        /\ t.indirect = s.indirect /\ t.proxies = s.proxies
        /\ t.watchers = s.watchers /\ Unnoticed(s, t)
    BY <2>1 DEF Broker, Unnoticed
  <2>5. \A e \in Node : t.hops[e] \subseteq s.hops[e]
    BY <2>1, <2>2, <2>3 DEF Broker
  <2>6. Looked(s, d) = t
    BY <1>2 DEF Looked
  <2> HIDE DEF t
  <2>7. Sound(t, n)
    BY <2>3, <2>4, <2>5, UnnoticedTended DEF Sound
  <2>8. Keeps(s, t)
    BY <2>1, <2>4, KeepsSelf DEF Keeps
  <2>9. QED
    BY <2>6, <2>7, <2>8
<1>3. QED
  BY <1>1, <1>2

LEMMA WriteSound ==
    ASSUME NEW n \in Node, NEW s, Sound(s, n), NEW c \in Conn, NEW m, Plain(m)
    PROVE  Sound(Write(s, c, m), n) /\ Keeps(s, Write(s, c, m))
<1> DEFINE t == Write(s, c, m)
<1>1. s \in Broker
  BY DEF Sound
<1>2. s.out \in [Conn -> Seq(Packet)]
  BY <1>1 DEF Broker
<1>3. Append(s.out[c], m) \in Seq(Packet) /\ Extends(s.out[c], Append(s.out[c], m))
  BY <1>2, ExtendsAppend
<1>4. t \in Broker /\ t.out = [s.out EXCEPT ![c] = Append(s.out[c], m)]
  BY <1>1, <1>3 DEF Broker, Write
<1>5. /\ t.byHdl = s.byHdl /\ t.byNid = s.byNid /\ t.hops = s.hops
      /\ t.indirect = s.indirect /\ t.proxies = s.proxies
      /\ t.watchers = s.watchers /\ Unnoticed(s, t)
  BY <1>1 DEF Broker, Write, Unnoticed
<1> HIDE DEF t
<1>6. Sound(t, n)
  BY <1>4, <1>5, UnnoticedTended DEF Sound
<1>7. \A e \in Conn : Extends(s.out[e], t.out[e])
  <2>1. Keeps(s, s)
    BY <1>1, KeepsSelf
  <2>2. QED
    BY <1>2, <1>3, <1>4, <2>1 DEF Keeps
<1>8. QED
  BY <1>5, <1>6, <1>7 DEF Keeps, t

(* Adding to the set of spawn servers, of proxies and the like keeps all   *)
(* that Sound says of the routes.                                          *)
SameTables(s, t) ==
    /\ t.byHdl = s.byHdl /\ t.byNid = s.byNid /\ t.hops = s.hops /\ t.indirect = s.indirect
    /\ t.out = s.out

LEMMA SameTablesSound ==
    ASSUME NEW n \in Node, NEW s, Sound(s, n), NEW t \in Broker, SameTables(s, t),
           n \notin t.proxies \cup t.watchers,
           Tended(t) \/ (Unnoticed(s, t) /\ s.proxies \subseteq t.proxies)
    PROVE  Sound(t, n) /\ Keeps(s, t)
<1>1. Sound(t, n)
  BY UnnoticedTended DEF Sound, SameTables
<1>2. Keeps(s, s)
  BY KeepsSelf DEF Sound
<1>3. QED
  BY <1>1, <1>2 DEF Keeps, SameTables

LEMMA FlushSound ==
    ASSUME NEW n \in Node, NEW s, Sound(s, n), NEW c \in Conn
    PROVE  Sound(Flush(s, c), n) /\ Keeps(s, Flush(s, c))
<1> DEFINE t == Flush(s, c)
<1>1. s \in Broker
  BY DEF Sound
<1>2. /\ t \in Broker /\ SameTables(s, t) /\ t.proxies = s.proxies
      /\ t.watchers = s.watchers /\ Unnoticed(s, t)
  BY <1>1 DEF Broker, SameTables, Flush, Unnoticed
<1> HIDE DEF t
<1>3. n \notin t.proxies \cup t.watchers
  BY <1>2 DEF Sound
<1>4. Sound(t, n) /\ Keeps(s, t)
  BY <1>2, <1>3, SameTablesSound
<1>5. QED
  BY <1>4 DEF t

(* Something is written and a stream flushed.                              *)
LEMMA PostSound ==
    ASSUME NEW n \in Node, NEW s, Sound(s, n), NEW c \in Conn, NEW m, Plain(m), NEW e \in Conn
    PROVE  LET t == Flush(Write(s, c, m), e) IN Sound(t, n) /\ Keeps(s, t)
<1> DEFINE w == Write(s, c, m)
           t == Flush(w, e)
<1>1. Sound(w, n) /\ Keeps(s, w)
  BY WriteSound
<1> HIDE DEF w
<1>2. Sound(t, n) /\ Keeps(w, t)
  BY <1>1, FlushSound
<1> HIDE DEF t
<1>3. Keeps(s, t)
  BY <1>1, <1>2, KeepsTrans DEF Sound
<1>4. QED
  BY <1>2, <1>3 DEF t, w

LEMMA RouteIsConn ==
    ASSUME NEW s \in Broker, NEW d \in Node
    PROVE  Route(s, d) \in Maybe(Conn)
BY DEF Route, Usable, Broker, Maybe

LEMMA SendToSound ==
    ASSUME NEW n \in Node, NEW s, Sound(s, n), NEW d \in Node, NEW m, Plain(m)
    PROVE  Sound(SendTo(s, d, m), n) /\ Keeps(s, SendTo(s, d, m))
<1>1. Sound(Looked(s, d), n) /\ Keeps(s, Looked(s, d))
  BY LookedSound
<1>2. CASE Route(s, d) = None
  BY <1>1, <1>2 DEF SendTo
<1>3. CASE Route(s, d) # None
  <2>1. Route(s, d) \in Conn
    BY <1>3, RouteIsConn DEF Sound, Maybe
  <2> DEFINE r == Route(s, d)
             l == Looked(s, d)
             t == Flush(Write(l, r, m), r)
  <2>2. SendTo(s, d, m) = t
    BY <1>3 DEF SendTo
  <2>3. r \in Conn /\ Sound(l, n) /\ Keeps(s, l)
    BY <1>1, <2>1
  <2> HIDE DEF r, l
  <2>4. Sound(t, n) /\ Keeps(l, t)
    BY <2>3, PostSound
  <2> HIDE DEF t
  <2>5. Keeps(s, t)
    BY <2>3, <2>4, KeepsTrans DEF Sound
  <2>6. QED
    BY <2>2, <2>4, <2>5
<1>4. QED
  BY <1>2, <1>3

LEMMA LearnedNewNodeSound ==
    ASSUME NEW n \in Node, NEW s, Sound(s, n), NEW d \in Node \ {n}
    PROVE  Sound(LearnedNewNode(s, n, d), n) /\ Keeps(s, LearnedNewNode(s, n, d))
<1> DEFINE t == [s EXCEPT !.servers = @ \cup {d}]
           m == Message("spawn", n, d, None)
<1>1. s \in Broker
  BY DEF Sound
<1>2. /\ t \in Broker /\ SameTables(s, t) /\ t.proxies = s.proxies
      /\ t.watchers = s.watchers /\ Unnoticed(s, t)
  BY <1>1 DEF Broker, SameTables, Unnoticed
<1>3. Plain(m)
  BY DEF Plain, Message, Routed, Maybe
<1>4. LearnedNewNode(s, n, d) = IF d \in s.servers THEN s ELSE SendTo(t, d, m)
  BY DEF LearnedNewNode
<1> HIDE DEF t, m
<1>5. Sound(t, n) /\ Keeps(s, t)
  BY <1>2, SameTablesSound DEF Sound
<1> DEFINE u == SendTo(t, d, m)
<1>6. Sound(u, n) /\ Keeps(t, u)
  BY <1>3, <1>5, SendToSound
<1> HIDE DEF u
<1>7. Keeps(s, u)
  BY <1>1, <1>2, <1>5, <1>6, KeepsTrans DEF Sound
<1>8. QED
  BY <1>1, <1>4, <1>6, <1>7, KeepsSelf DEF u

LEMMA AddIndirectSound ==
    ASSUME NEW n \in Node, NEW s, Sound(s, n), NEW d \in Node \ {n},
           NEW hop \in Maybe(Node), s.byNid[d] = None
    PROVE  Sound(AddIndirect(s, n, hop, d), n) /\ Keeps(s, AddIndirect(s, n, hop, d))
<1> DEFINE t == [s EXCEPT !.hops[d] = @ \cup {hop}, !.indirect = @ \cup {d}]
<1>1. s \in Broker
  BY DEF Sound
<1>2. /\ s.hops \in [Node -> SUBSET Maybe(Node)] /\ s.indirect \subseteq Node
      /\ [s.hops EXCEPT ![d] = @ \cup {hop}] \in [Node -> SUBSET Maybe(Node)]
  BY <1>1 DEF Broker
<1>3. /\ t \in Broker
      /\ t.hops = [s.hops EXCEPT ![d] = @ \cup {hop}] /\ t.indirect = s.indirect \cup {d}
      /\ t.byHdl = s.byHdl /\ t.byNid = s.byNid /\ t.out = s.out
      /\ t.proxies = s.proxies /\ t.watchers = s.watchers /\ Unnoticed(s, t)
  BY <1>1, <1>2 DEF Broker, Unnoticed
<1>4. AddIndirect(s, n, hop, d) = IF s.hops[d] = {} THEN LearnedNewNode(t, n, d) ELSE t
  BY DEF AddIndirect
<1> HIDE DEF t
<1>5. \A e \in Node : t.hops[e] = IF e = d THEN s.hops[d] \cup {hop} ELSE s.hops[e]
  BY <1>2, <1>3
<1>6. Sound(t, n)
  BY <1>3, <1>5, UnnoticedTended DEF Sound
<1>7. Keeps(s, s)
  BY <1>1, KeepsSelf
<1>8. Keeps(s, t)
  BY <1>3, <1>7 DEF Keeps
<1> DEFINE u == LearnedNewNode(t, n, d)
<1>9. Sound(u, n) /\ Keeps(t, u)
  BY <1>6, LearnedNewNodeSound
<1> HIDE DEF u
<1>10. Keeps(s, u)
  BY <1>1, <1>3, <1>8, <1>9, KeepsTrans DEF Sound
<1>11. QED
  BY <1>4, <1>6, <1>8, <1>9, <1>10 DEF u

(* A broker takes whoever mentions an actor for a relay to its node only   *)
(* where it has no direct route, and never to itself.                      *)
LEMMA LearnRouteSound ==
    ASSUME NEW n \in Node, NEW s, Sound(s, n), NEW c \in Conn, NEW d \in Node \ {n}
    PROVE  Sound(LearnRoute(s, n, c, d), n) /\ Keeps(s, LearnRoute(s, n, c, d))
<1>1. s \in Broker /\ s.byHdl[c] \in Maybe(Node)
  BY DEF Sound, Broker
<1>2. CASE s.byHdl[c] # d /\ s.byNid[d] = None
  BY <1>1, <1>2, AddIndirectSound DEF LearnRoute
<1>3. CASE ~(s.byHdl[c] # d /\ s.byNid[d] = None)
  BY <1>1, <1>3, KeepsSelf DEF LearnRoute
<1>4. QED
  BY <1>2, <1>3

LEMMA MeetSound ==
    ASSUME NEW n \in Node, NEW s, Sound(s, n), NEW c \in Conn, NEW a \in Node
    PROVE  Sound(Meet(s, n, c, a), n) /\ Keeps(s, Meet(s, n, c, a))
<1>1. s \in Broker /\ s.id[c] \in Maybe(Node)
  BY DEF Sound, Broker
<1>2. CASE a \in s.proxies \cup {n}
  BY <1>1, <1>2, KeepsSelf DEF Meet
<1>3. CASE a \notin s.proxies \cup {n}
  <2> DEFINE t == IF a # s.id[c] /\ s.byNid[a] = None THEN AddIndirect(s, n, s.id[c], a) ELSE s
             l == Looked(t, a)
             p == [l EXCEPT !.proxies = @ \cup {a}]
             m == Message("announce", n, a, None)
             r == Route(t, a)
             w == Flush(Write(p, c, m), r)
  <2>1. Meet(s, n, c, a) = IF r = None THEN l ELSE w
    BY <1>3 DEF Meet
  <2>2. Sound(t, n) /\ Keeps(s, t)
    <3>1. CASE a # s.id[c] /\ s.byNid[a] = None
      BY <1>1, <1>3, <3>1, AddIndirectSound
    <3>2. CASE ~(a # s.id[c] /\ s.byNid[a] = None)
      BY <1>1, <3>2, KeepsSelf
    <3>3. QED
      BY <3>1, <3>2
  <2>13. r = None \/ r \in Conn
    BY <2>2, RouteIsConn DEF Sound, Maybe
  <2> HIDE DEF t, r
  <2>3. Sound(l, n) /\ Keeps(t, l)
    BY <2>2, LookedSound
  <2> HIDE DEF l
  <2>14. CASE r = None
    <3>1. Keeps(s, l)
      BY <1>1, <2>2, <2>3, KeepsTrans DEF Sound
    <3>2. QED
      BY <2>1, <2>3, <2>14, <3>1
  <2>15. SUFFICES ASSUME r \in Conn, r # None
                  PROVE  Sound(w, n) /\ Keeps(s, w)
    BY <2>1, <2>13, <2>14
  <2>4. l \in Broker
    BY <2>3 DEF Sound
  <2>5. /\ p \in Broker /\ SameTables(l, p) /\ p.proxies = l.proxies \cup {a}
        /\ p.watchers = l.watchers /\ Unnoticed(l, p)
    BY <2>4 DEF Broker, SameTables, Unnoticed
  <2> HIDE DEF p
  <2>6. Sound(p, n) /\ Keeps(l, p)
    BY <1>3, <2>3, <2>5, SameTablesSound DEF Sound
  <2>7. Plain(m)
    BY <1>3 DEF Plain, Message, Routed, Maybe
  <2> HIDE DEF m
  <2>8. Sound(w, n) /\ Keeps(p, w)
    BY <2>6, <2>7, <2>15, PostSound
  <2> HIDE DEF w
  <2>9. Keeps(s, l) /\ t \in Broker /\ w \in Broker
    BY <1>1, <2>2, <2>3, <2>4, <2>8, KeepsTrans DEF Sound
  <2>10. Keeps(s, p)
    BY <1>1, <2>4, <2>5, <2>6, <2>9, KeepsTrans
  <2>11. Keeps(s, w)
    BY <1>1, <2>5, <2>8, <2>9, <2>10, KeepsTrans
  <2>12. QED
    BY <2>8, <2>11
<1>4. QED
  BY <1>2, <1>3

LEMMA FinalizeHandshakeSound ==
    ASSUME NEW n \in Node, NEW s, Sound(s, n), NEW c \in Conn, NEW d \in Node
    PROVE  Sound(FinalizeHandshake(s, n, c, d), n) /\ Keeps(s, FinalizeHandshake(s, n, c, d))
<1> DEFINE i == [s EXCEPT !.id[c] = d]
           t == Meet(i, n, c, d)
           e == [what |-> IF d \in t.proxies THEN "proxy" ELSE "nothing", node |-> d]
           u == [t EXCEPT !.mail = @ \cup {e}]
<1>1. s \in Broker
  BY DEF Sound
<1>2. [s.id EXCEPT ![c] = d] \in [Conn -> Maybe(Node)]
  BY <1>1 DEF Broker, Maybe
<1>3. /\ i \in Broker /\ SameTables(s, i)
      /\ i.proxies = s.proxies /\ i.watchers = s.watchers /\ Unnoticed(s, i)
  BY <1>1, <1>2 DEF Broker, SameTables, Unnoticed
<1>4. FinalizeHandshake(s, n, c, d) = u
  BY DEF FinalizeHandshake
<1> HIDE DEF i
<1>5. Sound(i, n) /\ Keeps(s, i)
  BY <1>3, SameTablesSound DEF Sound
<1>6. Sound(t, n) /\ Keeps(i, t)
  BY <1>5, MeetSound
<1> HIDE DEF t
<1>7. t \in Broker
  BY <1>6 DEF Sound
<1>13. e \in Event /\ (e.what = "proxy" => e.node \in t.proxies)
  BY DEF Event
<1> HIDE DEF e
<1>8. /\ u \in Broker /\ SameTables(t, u)
      /\ u.proxies = t.proxies /\ u.watchers = t.watchers
      /\ u.monitored = t.monitored /\ u.cached = t.cached /\ u.mail = t.mail \cup {e}
  BY <1>7, <1>13 DEF Broker, SameTables
<1> HIDE DEF u
<1>14. Tended(u)
  BY <1>6, <1>8, <1>13 DEF Sound, Tended
<1>9. Sound(u, n) /\ Keeps(t, u)
  BY <1>6, <1>8, <1>14, SameTablesSound DEF Sound
<1>10. Keeps(s, t)
  BY <1>1, <1>3, <1>5, <1>6, <1>7, KeepsTrans
<1>11. Keeps(s, u)
  BY <1>1, <1>7, <1>8, <1>9, <1>10, KeepsTrans
<1>12. QED
  BY <1>4, <1>9, <1>11

(* The proxies of the nodes in gone end: the middleman actor has a message *)
(* for each that it monitors, and will learn of the others when it does.   *)
LEMMA EndProxiesSound ==
    ASSUME NEW n \in Node, NEW s, Sound(s, n), NEW gone \in SUBSET Node
    PROVE  LET t == EndProxies(s, gone) IN
              /\ Sound(t, n) /\ Keeps(s, t) /\ t \in Broker /\ SameTables(s, t)
              /\ t.proxies = s.proxies \ gone /\ t.watchers = s.watchers /\ t.id = s.id
              /\ t.servers = s.servers /\ t.flushed = s.flushed /\ t.cached = s.cached
<1> DEFINE after(e) == IF e.what = "proxy" /\ e.node \in gone THEN [e EXCEPT !.what = "ended"] ELSE e
           downs == [what : {"down"}, node : gone \cap s.monitored]
           mail == {after(e) : e \in s.mail} \cup downs
           t == EndProxies(s, gone)
<1>1. s \in Broker /\ Tended(s)
  BY DEF Sound
<1>2. s.mail \subseteq Event /\ s.monitored \subseteq Node
  BY <1>1 DEF Broker
<1>3. \A e \in s.mail : after(e) \in Event
  BY <1>2 DEF Event
<1>4. downs \subseteq Event
  BY <1>2 DEF Event
<1>5. mail \subseteq Event
  BY <1>3, <1>4
<1>6. t = [s EXCEPT !.proxies = @ \ gone, !.monitored = @ \ gone, !.mail = mail]
  BY DEF EndProxies
<1>7. \A d \in Node : [what |-> "proxy", node |-> d] \in mail =>
            d \notin gone /\ [what |-> "proxy", node |-> d] \in s.mail
  <2>1. SUFFICES ASSUME NEW d \in Node, NEW e, e = [what |-> "proxy", node |-> d], e \in mail
                 PROVE  d \notin gone /\ e \in s.mail
    OBVIOUS
  <2>2. e.what = "proxy" /\ e.node = d
    BY <2>1
  <2>3. e \notin downs
    BY <2>2
  <2>4. PICK f \in s.mail : e = after(f)
    BY <2>1, <2>3
  <2>5. f \in Event
    BY <1>2
  <2>6. ~(f.what = "proxy" /\ f.node \in gone)
    BY <2>2, <2>4, <2>5 DEF Event
  <2>7. QED
    BY <2>2, <2>4, <2>6
<1>8. \A d : [what |-> "down", node |-> d] \in s.mail => [what |-> "down", node |-> d] \in mail
  <2>1. SUFFICES ASSUME NEW d, NEW e, e = [what |-> "down", node |-> d], e \in s.mail
                 PROVE  e \in mail
    OBVIOUS
  <2>2. after(e) = e
    BY <2>1
  <2>3. QED
    BY <2>1, <2>2
<1>9. \A d \in gone \cap s.monitored : [what |-> "down", node |-> d] \in mail
  OBVIOUS
<1> HIDE DEF mail, t
<1>10. /\ t \in Broker /\ SameTables(s, t)
       /\ t.proxies = s.proxies \ gone /\ t.watchers = s.watchers /\ t.id = s.id
       /\ t.servers = s.servers /\ t.flushed = s.flushed /\ t.cached = s.cached
       /\ t.monitored = s.monitored \ gone /\ t.mail = mail
  BY <1>1, <1>5, <1>6 DEF Broker, SameTables
<1>11. Tended(t)
  BY <1>1, <1>7, <1>8, <1>9, <1>10 DEF Tended
<1>12. n \notin t.proxies \cup t.watchers
  BY <1>10 DEF Sound
<1>13. Sound(t, n) /\ Keeps(s, t)
  BY <1>10, <1>11, <1>12, SameTablesSound
<1>14. QED
  BY <1>10, <1>13 DEF t

(* From s to t connection c has become the route to d, and reply was       *)
(* written on it before anything else.                                     *)
Greets(s, t, c, d, reply) ==
    /\ t.byHdl = [s.byHdl EXCEPT ![c] = d] /\ t.byNid = [s.byNid EXCEPT ![d] = c]
    /\ \A e \in Conn : Extends(IF e = c THEN s.out[c] \o reply ELSE s.out[e], t.out[e])

LEMMA GreetsKeeps ==
    ASSUME NEW s \in Broker, NEW t \in Broker, NEW u \in Broker, NEW c \in Conn, NEW d \in Node,
           NEW reply \in Seq(Packet), Greets(s, t, c, d, reply), Keeps(t, u)
    PROVE  Greets(s, u, c, d, reply)
<1>1. ASSUME NEW e \in Conn
      PROVE  Extends(IF e = c THEN s.out[c] \o reply ELSE s.out[e], u.out[e])
  <2> DEFINE x == IF e = c THEN s.out[c] \o reply ELSE s.out[e]
  <2>1. s.out[c] \in Seq(Packet) /\ s.out[e] \in Seq(Packet)
        /\ t.out[e] \in Seq(Packet) /\ u.out[e] \in Seq(Packet)
    BY DEF Broker
  <2>2. x \in Seq(Packet)
    BY <2>1
  <2>3. Extends(x, t.out[e]) /\ Extends(t.out[e], u.out[e])
    BY DEF Greets, Keeps
  <2> HIDE DEF x
  <2>4. Extends(x, u.out[e])
    BY <2>1, <2>2, <2>3 DEF Extends
  <2>5. QED
    BY <2>4 DEF x
<1>2. QED
  BY <1>1 DEF Greets, Keeps

LEMMA AddDirectSound ==
    ASSUME NEW n \in Node, NEW s, Sound(s, n), NEW c \in Conn, NEW d \in Node \ {n},
           s.byHdl[c] = None, s.byNid[d] = None, NEW reply \in Seq(Packet)
    PROVE  LET t == AddDirect(s, n, c, d, reply) IN Sound(t, n) /\ Greets(s, t, c, d, reply)
<1> DEFINE r == [s EXCEPT !.byHdl[c] = d, !.byNid[d] = c, !.out[c] = @ \o reply]
           t == EraseIndirect(r, d)
           u == LearnedNewNode(t, n, d)
<1>1. s \in Broker
  BY DEF Sound
<1>2. /\ s.byHdl \in [Conn -> Maybe(Node)] /\ s.byNid \in [Maybe(Node) -> Maybe(Conn)]
      /\ s.out \in [Conn -> Seq(Packet)] /\ s.out[c] \o reply \in Seq(Packet)
      /\ s.hops \in [Node -> SUBSET Maybe(Node)] /\ s.indirect \subseteq Node
  BY <1>1 DEF Broker
<1>3. /\ [s.byHdl EXCEPT ![c] = d] \in [Conn -> Maybe(Node)]
      /\ [s.byNid EXCEPT ![d] = c] \in [Maybe(Node) -> Maybe(Conn)]
      /\ [s.out EXCEPT ![c] = s.out[c] \o reply] \in [Conn -> Seq(Packet)]
      /\ [s.hops EXCEPT ![d] = {}] \in [Node -> SUBSET Maybe(Node)]
  BY <1>2 DEF Maybe
<1>4. /\ r \in Broker
      /\ r.byHdl = [s.byHdl EXCEPT ![c] = d] /\ r.byNid = [s.byNid EXCEPT ![d] = c]
      /\ r.out = [s.out EXCEPT ![c] = s.out[c] \o reply]
      /\ r.hops = s.hops /\ r.indirect = s.indirect
      /\ r.proxies = s.proxies /\ r.watchers = s.watchers /\ Unnoticed(s, r)
  BY <1>1, <1>3 DEF Broker, Unnoticed
<1>5. AddDirect(s, n, c, d, reply) = IF d \in s.indirect THEN t ELSE u
  BY DEF AddDirect
<1> HIDE DEF r
<1>6. /\ t \in Broker
      /\ t.byHdl = r.byHdl /\ t.byNid = r.byNid /\ t.out = r.out
      /\ t.hops = [r.hops EXCEPT ![d] = {}] /\ t.indirect = r.indirect \ {d}
      /\ t.proxies = r.proxies /\ t.watchers = r.watchers /\ Unnoticed(r, t)
  BY <1>3, <1>4 DEF Broker, EraseIndirect, Unnoticed
<1> HIDE DEF t
<1>7. /\ \A e \in Conn : t.byHdl[e] = IF e = c THEN d ELSE s.byHdl[e]
      /\ \A e \in Maybe(Node) : t.byNid[e] = IF e = d THEN c ELSE s.byNid[e]
      /\ \A e \in Node : t.hops[e] = IF e = d THEN {} ELSE s.hops[e]
  BY <1>2, <1>4, <1>6 DEF Maybe
<1>8. Sound(t, n)
  <2> USE BaspAssumption
  <2>7. Tended(r) /\ Tended(t)
    BY <1>4, <1>6, UnnoticedTended DEF Sound
  <2>1. n \notin t.proxies \cup t.indirect \cup t.watchers
    BY <1>4, <1>6 DEF Sound
  <2>2. t.byNid[None] = None
    BY <1>7 DEF Sound, Maybe
  <2>3. ASSUME NEW e \in Conn, t.byHdl[e] # None PROVE t.byNid[t.byHdl[e]] = e
    <3>1. CASE e = c
      BY <1>7, <3>1 DEF Maybe
    <3>2. CASE e # c
      <4>1. s.byHdl[e] \in Node /\ s.byNid[s.byHdl[e]] = e /\ t.byHdl[e] = s.byHdl[e]
        BY <1>2, <1>7, <2>3, <3>2 DEF Sound, Maybe
      <4>2. s.byHdl[e] # d
        BY <4>1 DEF Conn
      <4>3. QED
        BY <1>7, <4>1, <4>2 DEF Maybe
    <3>3. QED
      BY <3>1, <3>2
  <2>4. ASSUME NEW e \in Node, t.byNid[e] # None
        PROVE  t.byHdl[t.byNid[e]] = e /\ e \notin t.indirect /\ t.hops[e] = {}
    <3>1. CASE e = d
      BY <1>4, <1>6, <1>7, <3>1 DEF Maybe
    <3>2. CASE e # d
      <4>1. t.byNid[e] = s.byNid[e] /\ s.byNid[e] \in Conn
        BY <1>2, <1>7, <2>4, <3>2 DEF Maybe
      <4>2. s.byHdl[s.byNid[e]] = e /\ e \notin s.indirect /\ s.hops[e] = {}
        BY <2>4, <4>1 DEF Sound
      <4>3. s.byNid[e] # c
        BY <4>2
      <4>4. QED
        BY <1>4, <1>6, <1>7, <3>2, <4>1, <4>2, <4>3
    <3>3. QED
      BY <3>1, <3>2
  <2>5. \A e \in Node : t.hops[e] # {} => e \in t.indirect
    BY <1>4, <1>6, <1>7 DEF Sound
  <2>6. QED
    BY <1>6, <2>1, <2>2, <2>3, <2>4, <2>5, <2>7 DEF Sound
<1>9. Greets(s, t, c, d, reply)
  <2>1. ASSUME NEW e \in Conn
        PROVE  Extends(IF e = c THEN s.out[c] \o reply ELSE s.out[e], t.out[e])
    <3>1. t.out[e] = IF e = c THEN s.out[c] \o reply ELSE s.out[e]
      BY <1>2, <1>4, <1>6
    <3>2. t.out[e] \in Seq(Packet)
      BY <1>6 DEF Broker
    <3>3. QED
      BY <3>1, <3>2 DEF Extends
  <2>2. QED
    BY <1>4, <1>6, <2>1 DEF Greets
<1>10. Sound(u, n) /\ Keeps(t, u)
  BY <1>8, LearnedNewNodeSound
<1> HIDE DEF u
<1>11. Greets(s, u, c, d, reply)
  BY <1>1, <1>6, <1>9, <1>10, GreetsKeeps DEF Sound
<1>12. QED
  BY <1>5, <1>8, <1>9, <1>10, <1>11

(* Node d was met on connection c, which is gone: so are the route, the    *)
(* relays to d and the proxies, and nothing is written.                    *)
LEMMA EraseNodeSound ==
    ASSUME NEW n \in Node, NEW s, Sound(s, n), NEW c \in Conn, s.byHdl[c] # None
    PROVE  LET t == EraseNode(s, s.byHdl[c]) IN
              /\ Sound(t, n) /\ t.out = s.out /\ t.flushed = s.flushed
              /\ t.byHdl = [s.byHdl EXCEPT ![c] = None]
              /\ t.byNid = [s.byNid EXCEPT ![s.byHdl[c]] = None]
<1> DEFINE d == s.byHdl[c]
           gone == {x \in {d} \cup s.hops[d] : s.byNid[x] # None}
           ids == [e \in Conn |-> IF \E x \in gone : s.byNid[x] = e THEN None ELSE s.id[e]]
           ended == EndProxies(s, gone)
           left == [ended EXCEPT !.id = ids]
           r == [left EXCEPT !.byHdl[c] = None, !.byNid[d] = None]
           t == EraseIndirect(r, d)
<1>1. s \in Broker
  BY DEF Sound
<1>2. d \in Node /\ s.byNid[d] = c
  BY <1>1 DEF Sound, Broker, Maybe
<1>3. /\ s.byHdl \in [Conn -> Maybe(Node)] /\ s.byNid \in [Maybe(Node) -> Maybe(Conn)]
      /\ s.id \in [Conn -> Maybe(Node)]
      /\ s.hops \in [Node -> SUBSET Maybe(Node)] /\ s.indirect \subseteq Node
  BY <1>1 DEF Broker
<1>4. ids \in [Conn -> Maybe(Node)]
  BY <1>3 DEF Maybe
<1>5. EraseNode(s, s.byHdl[c]) = t
  BY <1>2 DEF EraseNode
<1>13. gone \subseteq Node
  <2>1. s.byNid[None] = None
    BY DEF Sound
  <2>2. {d} \cup s.hops[d] \subseteq Maybe(Node)
    BY <1>2, <1>3 DEF Maybe
  <2>3. QED
    BY <2>1, <2>2 DEF Maybe
<1> HIDE DEF gone, ids
<1>14. /\ Sound(ended, n) /\ ended \in Broker /\ SameTables(s, ended)
       /\ ended.proxies = s.proxies \ gone /\ ended.watchers = s.watchers /\ ended.flushed = s.flushed
  BY <1>13, EndProxiesSound
<1> HIDE DEF ended
<1>6. /\ left \in Broker /\ left.out = s.out /\ left.flushed = s.flushed
      /\ left.byHdl = s.byHdl /\ left.byNid = s.byNid
      /\ left.hops = s.hops /\ left.indirect = s.indirect /\ left.watchers = s.watchers
      /\ left.proxies = s.proxies \ gone /\ Tended(left)
  BY <1>4, <1>14 DEF Broker, SameTables, Sound, Tended
<1> HIDE DEF left, d
<1>7. /\ [s.byHdl EXCEPT ![c] = None] \in [Conn -> Maybe(Node)]
      /\ [s.byNid EXCEPT ![d] = None] \in [Maybe(Node) -> Maybe(Conn)]
      /\ [s.hops EXCEPT ![d] = {}] \in [Node -> SUBSET Maybe(Node)]
  BY <1>2, <1>3 DEF Maybe
<1>8. /\ r \in Broker /\ r.out = s.out /\ r.flushed = s.flushed
      /\ r.byHdl = [s.byHdl EXCEPT ![c] = None] /\ r.byNid = [s.byNid EXCEPT ![d] = None]
      /\ r.hops = s.hops /\ r.indirect = s.indirect /\ r.watchers = s.watchers
      /\ r.proxies = left.proxies /\ Unnoticed(left, r)
  BY <1>6, <1>7 DEF Broker, Unnoticed
<1> HIDE DEF r
<1>9. /\ t \in Broker /\ t.out = s.out /\ t.flushed = s.flushed
      /\ t.byHdl = [s.byHdl EXCEPT ![c] = None] /\ t.byNid = [s.byNid EXCEPT ![d] = None]
      /\ t.hops = [s.hops EXCEPT ![d] = {}] /\ t.indirect = s.indirect \ {d}
      /\ t.watchers = s.watchers
      /\ t.proxies = s.proxies \ gone /\ Unnoticed(left, t)
  BY <1>6, <1>7, <1>8 DEF Broker, EraseIndirect, Unnoticed
<1> HIDE DEF t
<1>10. /\ \A e \in Conn : t.byHdl[e] = IF e = c THEN None ELSE s.byHdl[e]
       /\ \A e \in Maybe(Node) : t.byNid[e] = IF e = d THEN None ELSE s.byNid[e]
       /\ \A e \in Node : t.hops[e] = IF e = d THEN {} ELSE s.hops[e]
  BY <1>2, <1>3, <1>9 DEF Maybe
<1>11. Sound(t, n)
  <2>7. Tended(t)
    BY <1>6, <1>9, UnnoticedTended
  <2>1. n \notin t.proxies \cup t.indirect \cup t.watchers
    BY <1>9 DEF Sound
  <2>2. t.byNid[None] = None
    BY <1>10 DEF Sound, Maybe
  <2>3. ASSUME NEW e \in Conn, t.byHdl[e] # None PROVE t.byNid[t.byHdl[e]] = e
    <3>1. e # c /\ t.byHdl[e] = s.byHdl[e]
      BY <1>10, <2>3
    <3>2. s.byHdl[e] \in Node /\ s.byNid[s.byHdl[e]] = e
      BY <1>3, <2>3, <3>1 DEF Sound, Maybe
    <3>3. s.byHdl[e] # d
      BY <1>2, <3>1, <3>2
    <3>4. QED
      BY <1>10, <3>1, <3>2, <3>3 DEF Maybe
  <2>4. ASSUME NEW e \in Node, t.byNid[e] # None
        PROVE  t.byHdl[t.byNid[e]] = e /\ e \notin t.indirect /\ t.hops[e] = {}
    <3>1. e # d /\ t.byNid[e] = s.byNid[e] /\ s.byNid[e] \in Conn
      BY <1>3, <1>10, <2>4 DEF Maybe
    <3>2. s.byHdl[s.byNid[e]] = e /\ e \notin s.indirect /\ s.hops[e] = {}
      BY <2>4, <3>1 DEF Sound
    <3>3. s.byNid[e] # c
      BY <3>1, <3>2 DEF d
    <3>4. QED
      BY <1>9, <1>10, <3>1, <3>2, <3>3
  <2>5. \A e \in Node : t.hops[e] # {} => e \in t.indirect
    BY <1>9, <1>10 DEF Sound
  <2>6. QED
    BY <1>9, <2>1, <2>2, <2>3, <2>4, <2>5, <2>7 DEF Sound
<1>12. QED
  BY <1>5, <1>9, <1>11 DEF d

(* Every message for an actor is handled with the routes it finds. *)
LEMMA HandledPlain ==
    ASSUME NEW n \in Node, NEW s, Sound(s, n), NEW c \in Conn, NEW m, Plain(m)
    PROVE  Sound(Handled(s, n, c, m), n) /\ Keeps(s, Handled(s, n, c, m))
<1>1. /\ m.type \in Routed /\ m.src \in Node /\ m.dst \in Node /\ m.src # m.dst
      /\ m.type = "dispatch" => m.about \in Node
  BY DEF Plain
<1>2. s \in Broker
  BY DEF Sound
<1>3. CASE m.dst # n
  <2>1. Sound(Forward(s, m), n) /\ Keeps(s, Forward(s, m))
    <3>1. CASE Route(s, m.dst) # None
      BY <1>1, <3>1, SendToSound DEF Forward
    <3>2. CASE Route(s, m.dst) = None
      <4> DEFINE t == Looked(s, m.dst)
                 u == Looked(t, m.src)
      <4>1. Sound(t, n) /\ Keeps(s, t)
        BY <1>1, LookedSound
      <4>2. Forward(s, m) = u
        BY <3>2 DEF Forward
      <4> HIDE DEF t
      <4>3. Sound(u, n) /\ Keeps(t, u)
        BY <1>1, <4>1, LookedSound
      <4> HIDE DEF u
      <4>4. Keeps(s, u)
        BY <1>2, <4>1, <4>3, KeepsTrans DEF Sound
      <4>5. QED
        BY <4>2, <4>3, <4>4
    <3>3. QED
      BY <3>1, <3>2
  <2>2. Handled(s, n, c, m) = Forward(s, m)
    BY <1>1, <1>3 DEF Handled, Routed
  <2>3. QED
    BY <2>1, <2>2
<1>4. CASE m.dst = n /\ m.type = "spawn"
  <2>1. Handled(s, n, c, m) = LearnRoute(s, n, c, m.src)
    BY <1>4 DEF Handled
  <2>2. QED
    BY <1>1, <1>4, <2>1, LearnRouteSound
<1>5. CASE m.dst = n /\ m.type = "dispatch"
  <2> DEFINE t == LearnRoute(s, n, c, m.src)
             u == Meet(t, n, c, m.about)
             v == Meet(u, n, c, m.src)
  <2>1. Handled(s, n, c, m) = v
    BY <1>5 DEF Handled, DispatchMessage
  <2>2. Sound(t, n) /\ Keeps(s, t)
    BY <1>1, <1>5, LearnRouteSound
  <2> HIDE DEF t
  <2>3. Sound(u, n) /\ Keeps(t, u)
    BY <1>1, <1>5, <2>2, MeetSound
  <2> HIDE DEF u
  <2>4. Sound(v, n) /\ Keeps(u, v)
    BY <1>1, <2>3, MeetSound
  <2> HIDE DEF v
  <2>5. t \in Broker /\ u \in Broker /\ v \in Broker
    BY <2>2, <2>3, <2>4 DEF Sound
  <2>6. Keeps(s, u)
    BY <1>2, <2>2, <2>3, <2>5, KeepsTrans
  <2>7. Keeps(s, v)
    BY <1>2, <2>4, <2>5, <2>6, KeepsTrans
  <2>8. QED
    BY <2>1, <2>4, <2>7
<1>6. CASE m.dst = n /\ m.type = "announce"
  <2>1. Handled(s, n, c, m) = ProxyAnnounced(s, n, m.src)
    BY <1>6 DEF Handled
  <2>2. CASE n \in alive
    <3> DEFINE t == [s EXCEPT !.watchers = @ \cup {m.src}]
    <3>1. /\ t \in Broker /\ SameTables(s, t) /\ t.proxies = s.proxies
          /\ t.watchers = s.watchers \cup {m.src} /\ Unnoticed(s, t)
      BY <1>1, <1>2 DEF Broker, SameTables, Unnoticed
    <3>2. ProxyAnnounced(s, n, m.src) = t
      BY <2>2 DEF ProxyAnnounced
    <3> HIDE DEF t
    <3>3. Sound(t, n) /\ Keeps(s, t)
      BY <1>1, <1>6, <3>1, SameTablesSound DEF Sound
    <3>4. QED
      BY <2>1, <3>2, <3>3
  <2>3. CASE n \notin alive
    <3>1. Plain(KillMessage(n, m.src))
      BY <1>1, <1>6 DEF KillMessage, Message, Plain, Routed, Maybe
    <3>2. ProxyAnnounced(s, n, m.src) = SendTo(s, m.src, KillMessage(n, m.src))
      BY <2>3 DEF ProxyAnnounced
    <3>3. QED
      BY <1>1, <2>1, <3>1, <3>2, SendToSound
  <2>4. QED
    BY <2>2, <2>3
<1>7. CASE m.dst = n /\ m.type = "kill"
  <2>1. Handled(s, n, c, m) = EndProxies(s, {m.src})
    BY <1>7 DEF Handled, KillProxy
  <2>2. QED
    BY <1>1, <2>1, EndProxiesSound
<1>8. QED
  BY <1>1, <1>3, <1>4, <1>5, <1>6, <1>7 DEF Routed

ClientMessage(n, d) == <<Message("client", n, d, None)>>

(* The handshake of a node that is known already changes no route; that of *)
(* another one makes its connection the direct route.                      *)
LEMMA ServerHandshakeSound ==
    ASSUME NEW n \in Node, NEW s, Sound(s, n), NEW c \in Conn, NEW d \in Node \ {n},
           s.byHdl[c] = None
    PROVE  LET t == ServerHandshake(s, n, c, d) IN
              /\ Sound(t, n)
              /\ IF s.byNid[d] # None THEN Keeps(s, t)
                 ELSE Greets(s, t, c, d, ClientMessage(n, d))
<1>1. s \in Broker
  BY DEF Sound
<1>2. CASE s.byNid[d] # None
  <2> DEFINE f == FinalizeHandshake(s, n, c, d)
             t == [f EXCEPT !.id[c] = None]
  <2>1. Sound(f, n) /\ Keeps(s, f)
    BY FinalizeHandshakeSound
  <2>2. ServerHandshake(s, n, c, d) = t
    BY <1>2 DEF ServerHandshake
  <2> HIDE DEF f
  <2>3. f \in Broker /\ [f.id EXCEPT ![c] = None] \in [Conn -> Maybe(Node)]
    BY <2>1 DEF Sound, Broker, Maybe
  <2>4. /\ t \in Broker /\ SameTables(f, t) /\ t.proxies = f.proxies
        /\ t.watchers = f.watchers /\ Unnoticed(f, t)
    BY <2>3 DEF Broker, SameTables, Unnoticed
  <2> HIDE DEF t
  <2>5. Sound(t, n) /\ Keeps(f, t)
    BY <2>1, <2>4, SameTablesSound DEF Sound
  <2>6. Keeps(s, t)
    BY <1>1, <2>1, <2>3, <2>4, <2>5, KeepsTrans
  <2>7. QED
    BY <1>2, <2>2, <2>5, <2>6
<1>3. CASE s.byNid[d] = None
  <2> DEFINE r == ClientMessage(n, d)
             a == AddDirect(s, n, c, d, r)
             f == FinalizeHandshake(a, n, c, d)
             t == Flush(f, c)
  <2>1. r \in Seq(Packet)
    BY DEF ClientMessage, Message, Packet, Types, Maybe
  <2>2. ServerHandshake(s, n, c, d) = t
    BY <1>3 DEF ServerHandshake, ClientMessage
  <2> HIDE DEF r
  <2>3. Sound(a, n) /\ Greets(s, a, c, d, r)
    BY <1>3, <2>1, AddDirectSound
  <2> HIDE DEF a
  <2>4. Sound(f, n) /\ Keeps(a, f)
    BY <2>3, FinalizeHandshakeSound
  <2> HIDE DEF f
  <2>7. Sound(t, n) /\ Keeps(f, t)
    BY <2>4, FlushSound
  <2> HIDE DEF t
  <2>8. Keeps(a, t)
    BY <2>3, <2>4, <2>7, KeepsTrans DEF Sound
  <2>5. Greets(s, t, c, d, r)
    BY <1>1, <2>1, <2>3, <2>7, <2>8, GreetsKeeps DEF Sound
  <2>6. QED
    BY <1>3, <2>2, <2>5, <2>7 DEF r
<1>4. QED
  BY <1>2, <1>3

LEMMA ClientHandshakeSound ==
    ASSUME NEW n \in Node, NEW s, Sound(s, n), NEW c \in Conn, NEW d \in Node \ {n},
           s.byHdl[c] = None
    PROVE  LET t == ClientHandshake(s, n, c, d) IN
              /\ Sound(t, n)
              /\ IF s.byNid[d] # None THEN Keeps(s, t) ELSE Greets(s, t, c, d, << >>)
<1>1. CASE s.byNid[d] # None
  BY <1>1, KeepsSelf DEF ClientHandshake, Sound
<1>2. CASE s.byNid[d] = None
  <2>1. << >> \in Seq(Packet)
    OBVIOUS
  <2>2. QED
    BY <1>2, <2>1, AddDirectSound DEF ClientHandshake
<1>3. QED
  BY <1>1, <1>2

-----------------------------------------------------------------------------
(* Steps *)

LEMMA CountFits ==
    ASSUME NEW x \in Nat, NEW y \in Nat, NEW z \in Nat, x <= y, NEW u, u = 0 \/ u = x + z
    PROVE  u \in Nat /\ u <= y + z
OBVIOUS

(* Broker n ends a step in state s, with w saying who holds which          *)
(* connection.                                                             *)
Commits(n, s, before, w) ==
    /\ Sound(s, n) /\ Connected(s, n, w)
    /\ before \in [Conn -> [Node -> Seq(Packet)]] /\ w \in [Conn -> SUBSET Node]
    /\ \A e \in Conn : w[e] \subseteq up[e] /\ up[e] \ {n} \subseteq w[e]
    /\ \A e \in Conn : e > Len(ends) =>
           s.byHdl[e] = None /\ \A x \in Node : before[e][x] = << >>
    /\ \A e \in Conn, x \in Node : unsent[e][x] <= Len(before[e][x])
    /\ Commit(n, s, before, w) /\ up' = w /\ ends' = ends

(* The tables stay sound and lead over connections that are held.          *)
LEMMA Committed ==
    ASSUME IInv, NEW n \in Node, NEW s, NEW before, NEW w, Commits(n, s, before, w)
    PROVE  /\ broker' \in [Node -> Broker]
           /\ Tables'
           /\ \A x \in Node : broker'[x].out = [c \in Conn |-> << >>] /\ broker'[x].flushed = {}
           /\ \A x \in Node : broker'[x].byHdl = IF x = n THEN s.byHdl ELSE broker[x].byHdl
           /\ Wired'
<1> USE DEF Commits
<1> DEFINE blank == [c \in Conn |-> << >>]
           t == [s EXCEPT !.out = blank, !.flushed = {}]
<1>1. s \in Broker /\ broker \in [Node -> Broker]
  BY DEF Sound, IInv
<1>2. blank \in [Conn -> Seq(Packet)]
  OBVIOUS
<1>3. broker' = [broker EXCEPT ![n] = t]
  BY DEF Commit
<1> HIDE DEF blank
<1>4. /\ t \in Broker /\ t.byHdl = s.byHdl /\ t.byNid = s.byNid /\ t.hops = s.hops
      /\ t.indirect = s.indirect /\ t.proxies = s.proxies
      /\ t.watchers = s.watchers /\ Unnoticed(s, t) /\ t.out = blank /\ t.flushed = {}
  BY <1>1, <1>2 DEF Broker, Unnoticed
<1> HIDE DEF t
<1>5. Sound(t, n)
  BY <1>4, UnnoticedTended DEF Sound
<1>6. broker' \in [Node -> Broker] /\ \A x \in Node : broker'[x] = IF x = n THEN t ELSE broker[x]
  BY <1>1, <1>3, <1>4
<1>7. ASSUME NEW x \in Node PROVE Connected(broker[x], x, up)'
  <2>1. CASE x = n
    <3>1. broker'[x].byNid = s.byNid
      BY <1>4, <1>6, <2>1
    <3>2. QED
      BY <2>1, <3>1 DEF Connected, Peer
  <2>2. CASE x # n
    <3>1. broker'[x] = broker[x] /\ broker[x] \in Broker
      BY <1>1, <1>6, <2>2
    <3>2. ASSUME NEW d \in Node, broker[x].byNid[d] # None
          PROVE  x \in w[broker[x].byNid[d]] /\ Peer(broker[x].byNid[d], x) = d
      <4>1. broker[x].byNid[d] \in Conn
        BY <3>1, <3>2 DEF Broker, Maybe
      <4>2. x \in up[broker[x].byNid[d]] /\ Peer(broker[x].byNid[d], x) = d
        BY <3>2 DEF IInv, Tables, Connected
      <4>3. QED
        BY <2>2, <4>1, <4>2
    <3>3. QED
      BY <3>1, <3>2 DEF Connected, Peer
  <2>3. QED
    BY <2>1, <2>2
<1>11. Tables'
  BY <1>5, <1>6, <1>7 DEF Tables, IInv
<1>8. \A x \in Node : broker'[x].byHdl = IF x = n THEN s.byHdl ELSE broker[x].byHdl
  BY <1>4, <1>6
<1>9. Wired'
  <2>1. Wired
    BY DEF IInv
  <2>2. s.out \in [Conn -> Seq(Packet)]
    BY <1>1 DEF Broker
  <2>3. wire' \in [Conn -> [Node -> Seq(Packet)]]
    BY <2>2 DEF Commit
  <2>4. ASSUME NEW c \in Conn, c > Len(ends), NEW x \in Node
        PROVE  w[c] = {} /\ wire'[c][x] = << >> /\ broker'[x].byHdl[c] = None
    <3>1. w[c] = {} /\ up[c] = {}
      BY <2>1, <2>4 DEF Wired
    <3>2. wire'[c][x] = before[c][x]
      BY <3>1 DEF Commit, Arrives
    <3>3. wire'[c][x] = << >>
      BY <2>4, <3>2
    <3>4. s.byHdl[c] = None
      BY <2>4
    <3>5. broker[x].byHdl[c] = None
      BY <2>1, <2>4 DEF Wired
    <3>6. QED
      BY <1>8, <3>1, <3>3, <3>4, <3>5
  <2>6. \A c \in Conn : c > Len(ends) => up'[c] = {}
    BY <2>1 DEF Wired
  <2>7. unsent' \in [Conn -> [Node -> Nat]] /\ \A e \in Conn, x \in Node : unsent'[e][x] <= Len(wire'[e][x])
    <3>1. PICK late \in SUBSET Conn :
             unsent' = [c \in Conn |-> [d \in Node |->
                CASE ~Arrives(w, c, d) \/ d = n -> unsent[c][d]
                  [] Arrives(w, c, d) /\ d # n /\ c \in s.flushed \cup late -> 0
                  [] Arrives(w, c, d) /\ d # n /\ c \notin s.flushed \cup late -> unsent[c][d] + Len(s.out[c])]]
      BY DEF Commit
    <3>2. ASSUME NEW e \in Conn, NEW x \in Node
          PROVE  unsent'[e][x] \in Nat /\ unsent'[e][x] <= Len(wire'[e][x])
      <4>1. /\ unsent[e][x] \in Nat /\ unsent[e][x] <= Len(before[e][x])
            /\ before[e][x] \in Seq(Packet) /\ s.out[e] \in Seq(Packet)
        BY <2>1, <2>2 DEF Wired
      <4>2. wire'[e][x] = IF Arrives(w, e, x) /\ x # n THEN before[e][x] \o s.out[e] ELSE before[e][x]
        BY DEF Commit
      <4>3. unsent'[e][x] = CASE ~Arrives(w, e, x) \/ x = n -> unsent[e][x]
                  [] Arrives(w, e, x) /\ x # n /\ e \in s.flushed \cup late -> 0
                  [] Arrives(w, e, x) /\ x # n /\ e \notin s.flushed \cup late -> unsent[e][x] + Len(s.out[e])
        BY <3>1
      <4>4. CASE ~Arrives(w, e, x) \/ x = n
        BY <4>1, <4>2, <4>3, <4>4
      <4>5. CASE Arrives(w, e, x) /\ x # n
        <5>1. unsent'[e][x] = 0 \/ unsent'[e][x] = unsent[e][x] + Len(s.out[e])
          BY <4>3, <4>5
        <5>2. Len(wire'[e][x]) = Len(before[e][x]) + Len(s.out[e])
          BY <4>1, <4>2, <4>5
        <5>3. Len(before[e][x]) \in Nat /\ Len(s.out[e]) \in Nat
          BY <4>1
        <5>4. unsent[e][x] \in Nat /\ unsent[e][x] <= Len(before[e][x])
          BY <4>1
        <5>5. unsent'[e][x] \in Nat /\ unsent'[e][x] <= Len(before[e][x]) + Len(s.out[e])
          BY <5>1, <5>3, <5>4, CountFits
        <5>6. QED
          BY <5>2, <5>5
      <4>6. QED
        BY <4>4, <4>5
    <3>3. QED
      BY <3>1, <3>2
  <2>5. QED
    BY <2>1, <2>3, <2>4, <2>6, <2>7 DEF Wired
<1>10. QED
  BY <1>4, <1>6, <1>8, <1>9, <1>11 DEF blank, IInv

(* Sequence y is x without its first k members, followed by messages for   *)
(* actors only.                                                            *)
Flows(x, y, k) ==
    /\ \A j \in 1 .. Len(y) : IF j + k <= Len(x) THEN y[j] = x[j + k] ELSE Plain(y[j])

(* What is read off a connection and the messages for actors written to it *)
(* leave its handshakes in order.                                          *)
LEMMA FlowKeepsHandshakes ==
    ASSUME Wired, Wired', ends' = ends, NEW c \in Conn, HandshakesOn(c),
           \A n \in Node : \E k \in {0, 1} : Flows(wire[c][n], wire'[c][n], k),
           \A n \in Node : broker[n].byHdl[c] = None => broker'[n].byHdl[c] = None
    PROVE  HandshakesOn(c)'
<1>1. \A n \in Node : wire[c][n] \in Seq(Packet) /\ wire'[c][n] \in Seq(Packet)
  BY DEF Wired
<1>2. ASSUME NEW n \in Node
      PROVE  \E k \in {0, 1} : \A j \in 1 .. Len(wire'[c][n]) :
                /\ Plain(wire'[c][n][j])
                   \/ /\ j + k \in DOMAIN wire[c][n]
                      /\ wire'[c][n][j] = wire[c][n][j + k]
  <2>1. PICK k \in {0, 1} : Flows(wire[c][n], wire'[c][n], k)
    OBVIOUS
  <2>2. ASSUME NEW j \in 1 .. Len(wire'[c][n]), j + k <= Len(wire[c][n])
        PROVE  j + k \in DOMAIN wire[c][n]
    BY <1>1, <2>2
  <2>3. QED
    BY <2>1, <2>2 DEF Flows
<1>3. ASSUME NEW n \in Node, NEW i \in DOMAIN wire'[c][n]
      PROVE  /\ Plain(wire'[c][n][i]) \/ Greeting(wire'[c][n][i])
             /\ Is("server", c, n, i)' =>
                   /\ i = 1 /\ n = ends'[c][1] /\ wire'[c][n][i].src = ends'[c][2]
                   /\ \A x \in Node : broker'[x].byHdl[c] = None
                   /\ \A x \in Node, j \in Nat : ~Is("client", c, x, j)'
             /\ Is("client", c, n, i)' =>
                   /\ n = ends'[c][2] /\ wire'[c][n][i].src = ends'[c][1]
                   /\ broker'[n].byHdl[c] = None
                   /\ \A j \in Nat : Is("client", c, n, j)' => j = i
  <2>1. i \in 1 .. Len(wire'[c][n])
    BY <1>1, <1>3
  <2>2. PICK k \in {0, 1} : \A j \in 1 .. Len(wire'[c][n]) :
                Plain(wire'[c][n][j])
                   \/ /\ j + k \in DOMAIN wire[c][n]
                      /\ wire'[c][n][j] = wire[c][n][j + k]
    BY <1>2
  <2>3. CASE Plain(wire'[c][n][i])
    BY <2>3 DEF Plain, Routed, Is
  <2>4. CASE ~Plain(wire'[c][n][i])
    <3>1. i + k \in DOMAIN wire[c][n] /\ wire'[c][n][i] = wire[c][n][i + k]
      BY <2>1, <2>2, <2>4
    <3>2. Greeting(wire'[c][n][i])
      BY <2>4, <3>1 DEF HandshakesOn
    <3>3. ASSUME Is("server", c, n, i)'
          PROVE  /\ i = 1 /\ n = ends'[c][1] /\ wire'[c][n][i].src = ends'[c][2]
                 /\ \A x \in Node : broker'[x].byHdl[c] = None
                 /\ \A x \in Node, j \in Nat : ~Is("client", c, x, j)'
      <4>1. Is("server", c, n, i + k)
        BY <3>1, <3>3 DEF Is
      <4>2. /\ i + k = 1 /\ n = ends[c][1] /\ wire[c][n][i + k].src = ends[c][2]
            /\ \A x \in Node : broker[x].byHdl[c] = None
            /\ \A x \in Node, j \in Nat : ~Is("client", c, x, j)
        BY <3>1, <4>1 DEF HandshakesOn
      <4>3. ASSUME NEW x \in Node, NEW j \in Nat, Is("client", c, x, j)' PROVE FALSE
        <5>1. j \in 1 .. Len(wire'[c][x]) /\ wire'[c][x][j].type = "client"
          BY <1>1, <4>3 DEF Is
        <5>2. ~Plain(wire'[c][x][j])
          BY <5>1 DEF Plain, Routed
        <5>3. PICK h \in {0, 1} : j + h \in DOMAIN wire[c][x] /\ wire'[c][x][j] = wire[c][x][j + h]
          BY <1>2, <5>1, <5>2
        <5>4. Is("client", c, x, j + h) /\ j + h \in Nat
          BY <5>1, <5>3 DEF Is
        <5>5. QED
          BY <4>2, <5>4
      <4>4. QED
        BY <2>1, <3>1, <4>2, <4>3
    <3>4. ASSUME Is("client", c, n, i)'
          PROVE  /\ n = ends'[c][2] /\ wire'[c][n][i].src = ends'[c][1]
                 /\ broker'[n].byHdl[c] = None
                 /\ \A j \in Nat : Is("client", c, n, j)' => j = i
      <4>1. Is("client", c, n, i + k)
        BY <3>1, <3>4 DEF Is
      <4>2. /\ n = ends[c][2] /\ wire[c][n][i + k].src = ends[c][1]
            /\ broker[n].byHdl[c] = None
            /\ \A j \in Nat : Is("client", c, n, j) => j = i + k
        BY <3>1, <4>1 DEF HandshakesOn
      <4>3. ASSUME NEW j \in Nat, Is("client", c, n, j)' PROVE j = i
        <5>1. j \in 1 .. Len(wire'[c][n]) /\ wire'[c][n][j].type = "client"
          BY <1>1, <4>3 DEF Is
        <5>2. ~Plain(wire'[c][n][j])
          BY <5>1 DEF Plain, Routed
        <5>3. j + k \in DOMAIN wire[c][n] /\ wire'[c][n][j] = wire[c][n][j + k]
          BY <2>2, <5>1, <5>2
        <5>4. Is("client", c, n, j + k) /\ j + k \in Nat
          BY <5>1, <5>3 DEF Is
        <5>5. j + k = i + k
          BY <4>2, <5>4
        <5>6. QED
          BY <2>1, <5>5
      <4>4. QED
        BY <3>1, <4>2, <4>3
    <3>5. QED
      BY <3>2, <3>3, <3>4
  <2>5. QED
    BY <2>3, <2>4
<1>4. QED
  BY <1>3 DEF HandshakesOn

Idle(c) == \A n \in Node : \A i \in DOMAIN wire[c][n] : Plain(wire[c][n][i])

(* What a broker may have read before it writes: nothing, or a message.    *)
Read(before) ==
    \A e \in Conn, x \in Node :
        \/ before[e][x] = wire[e][x]
        \/ unsent[e][x] < Len(wire[e][x]) /\ before[e][x] = Tail(wire[e][x])

LEMMA ReadCounted ==
    ASSUME Wired, NEW before \in [Conn -> [Node -> Seq(Packet)]], Read(before),
           NEW e \in Conn, NEW x \in Node
    PROVE  /\ unsent[e][x] <= Len(before[e][x])
           /\ wire[e][x] = << >> => before[e][x] = << >>
<1>1. wire[e][x] \in Seq(Packet) /\ unsent[e][x] \in Nat /\ unsent[e][x] <= Len(wire[e][x])
  BY DEF Wired
<1>2. CASE before[e][x] = wire[e][x]
  BY <1>1, <1>2
<1>3. CASE unsent[e][x] < Len(wire[e][x]) /\ before[e][x] = Tail(wire[e][x])
  <2>1. wire[e][x] # << >>
    BY <1>1, <1>3
  <2>2. Len(before[e][x]) = Len(wire[e][x]) - 1
    BY <1>1, <1>3, <2>1
  <2>3. QED
    BY <1>1, <1>3, <2>1, <2>2
<1>4. QED
  BY <1>2, <1>3 DEF Read

LEMMA CommitFlows ==
    ASSUME Wired, NEW n \in Node, NEW s \in Broker,
           NEW before \in [Conn -> [Node -> Seq(Packet)]], Read(before),
           NEW w, Commit(n, s, before, w),
           NEW e \in Conn, \A i \in 1 .. Len(s.out[e]) : Plain(s.out[e][i]),
           NEW x \in Node
    PROVE  \E k \in {0, 1} : Flows(wire[e][x], wire'[e][x], k)
<1>1. /\ wire[e][x] \in Seq(Packet) /\ before[e][x] \in Seq(Packet)
      /\ s.out[e] \in Seq(Packet)
  BY DEF Wired, Broker
<1>2. wire'[e][x] = before[e][x] \/ wire'[e][x] = before[e][x] \o s.out[e]
  BY DEF Commit
<1>3. PICK k \in {0, 1} :
          /\ Len(before[e][x]) = Len(wire[e][x]) - k
          /\ \A j \in 1 .. Len(before[e][x]) : before[e][x][j] = wire[e][x][j + k]
  <2>1. CASE before[e][x] = wire[e][x]
    <3> WITNESS 0 \in {0, 1}
    <3>1. QED
      BY <1>1, <2>1
  <2>2. CASE unsent[e][x] < Len(wire[e][x]) /\ before[e][x] = Tail(wire[e][x])
    <3>2. unsent[e][x] \in Nat
      BY DEF Wired
    <3>3. wire[e][x] # << >>
      BY <2>2, <3>2
    <3> WITNESS 1 \in {0, 1}
    <3>1. QED
      BY <1>1, <2>2, <3>3
  <2>3. QED
    BY <2>1, <2>2 DEF Read
<1>4. \A j \in 1 .. Len(wire'[e][x]) :
          IF j <= Len(before[e][x]) THEN wire'[e][x][j] = before[e][x][j]
          ELSE Plain(wire'[e][x][j])
  <2>1. CASE wire'[e][x] = before[e][x]
    BY <1>1, <2>1
  <2>2. CASE wire'[e][x] = before[e][x] \o s.out[e]
    <3> DEFINE b == before[e][x]  o == s.out[e]
    <3>4. \A i \in 1 .. Len(o) : Plain(o[i])
      OBVIOUS
    <3>5. wire'[e][x] = b \o o /\ b \in Seq(Packet) /\ o \in Seq(Packet)
      BY <1>1, <2>2
    <3> HIDE DEF b, o
    <3>1. Len(b \o o) = Len(b) + Len(o) /\ Len(b) \in Nat /\ Len(o) \in Nat
      BY <3>5
    <3>2. \A j \in 1 .. Len(b) : (b \o o)[j] = b[j]
      BY <3>5
    <3>3. \A j \in 1 .. Len(b) + Len(o) : j > Len(b) => (b \o o)[j] = o[j - Len(b)] /\ j - Len(b) \in 1 .. Len(o)
      BY <3>5
    <3>6. \A j \in 1 .. Len(b \o o) : IF j <= Len(b) THEN (b \o o)[j] = b[j] ELSE Plain((b \o o)[j])
      BY <3>1, <3>2, <3>3, <3>4
    <3>7. QED
      BY <3>5, <3>6 DEF b
  <2>3. QED
    BY <1>2, <2>1, <2>2
<1>5. Flows(wire[e][x], wire'[e][x], k)
  <2>1. ASSUME NEW j \in 1 .. Len(wire'[e][x])
        PROVE  IF j + k <= Len(wire[e][x]) THEN wire'[e][x][j] = wire[e][x][j + k]
               ELSE Plain(wire'[e][x][j])
    <3>1. j \in Nat \ {0} /\ Len(wire[e][x]) \in Nat /\ Len(before[e][x]) \in Nat
      BY <1>1, <2>1
    <3>2. j + k <= Len(wire[e][x]) <=> j <= Len(before[e][x])
      BY <1>3, <3>1
    <3>3. CASE j <= Len(before[e][x])
      BY <1>3, <1>4, <2>1, <3>1, <3>2, <3>3
    <3>4. CASE ~(j <= Len(before[e][x]))
      BY <1>4, <2>1, <3>2, <3>4
    <3>5. QED
      BY <3>3, <3>4
  <2>2. QED
    BY <2>1 DEF Flows
<1>6. QED
  BY <1>5

(* A step that leaves the routes alone and writes to actors only.          *)
LEMMA KeepingStep ==
    ASSUME IInv, NEW n \in Node, NEW s, Sound(s, n), Keeps(broker[n], s),
           NEW before \in [Conn -> [Node -> Seq(Packet)]], Read(before),
           NEW w \in [Conn -> SUBSET Node], Connected(s, n, w),
           \A e \in Conn : w[e] \subseteq up[e] /\ up[e] \ {n} \subseteq w[e],
           Commit(n, s, before, w), up' = w, ends' = ends,
           alive' \subseteq Node, tells' \in 0 .. MaxTells
    PROVE  IInv'
<1>1. Wired /\ broker \in [Node -> Broker] /\ s \in Broker
  BY DEF IInv, Sound
<1>2. \A e \in Conn : e > Len(ends) =>
          s.byHdl[e] = None /\ \A x \in Node : before[e][x] = << >>
  <2>1. ASSUME NEW e \in Conn, e > Len(ends), NEW x \in Node PROVE s.byHdl[e] = None /\ before[e][x] = << >>
    <3>1. broker[n].byHdl[e] = None /\ wire[e][x] = << >>
      BY <1>1, <2>1 DEF Wired
    <3>2. QED
      BY <1>1, <3>1, ReadCounted DEF Keeps
  <2>2. ASSUME NEW e \in Conn, e > Len(ends) PROVE s.byHdl[e] = None
    BY <1>1, <2>2 DEF Wired, Keeps
  <2>3. QED
    BY <2>1, <2>2
<1>6. \A e \in Conn, x \in Node : unsent[e][x] <= Len(before[e][x])
  BY <1>1, ReadCounted
<1>3. /\ broker' \in [Node -> Broker]
      /\ Tables'
      /\ \A x \in Node : broker'[x].out = [c \in Conn |-> << >>] /\ broker'[x].flushed = {}
      /\ \A x \in Node : broker'[x].byHdl = IF x = n THEN s.byHdl ELSE broker[x].byHdl
      /\ Wired'
  <2>1. Commits(n, s, before, w)
    BY <1>2, <1>6 DEF Commits
  <2>2. QED
    BY <2>1, Committed
<1>4. ASSUME NEW e \in Conn PROVE HandshakesOn(e)'
  <2>1. HandshakesOn(e)
    BY DEF IInv
  <2>2. \A i \in 1 .. Len(s.out[e]) : Plain(s.out[e][i])
    <3>1. broker[n].out[e] = << >>
      BY DEF IInv
    <3>2. Extends(<< >>, s.out[e])
      BY <3>1 DEF Keeps
    <3>3. QED
      BY <3>2 DEF Extends
  <2>3. \A x \in Node : \E k \in {0, 1} : Flows(wire[e][x], wire'[e][x], k)
    BY <1>1, <2>2, CommitFlows
  <2>4. \A x \in Node : broker[x].byHdl[e] = None => broker'[x].byHdl[e] = None
    BY <1>3 DEF Keeps
  <2>5. QED
    BY <1>1, <1>3, <2>1, <2>3, <2>4, FlowKeepsHandshakes
<1>5. QED
  BY <1>3, <1>4 DEF IInv

(* Broker n reads a handshake of type on c, sent by d, a node it has no    *)
(* direct route to, and ends the step in state s.                          *)
Welcomes(n, c, type, d, reply, s, before, w) ==
    /\ n \in up[c] /\ wire[c][n] # << >> /\ type \in {"server", "client"} /\ d \in Node
    /\ Head(wire[c][n]).type = type /\ Head(wire[c][n]).src = d
    /\ broker[n].byNid[d] = None
    /\ reply = IF type = "server" THEN ClientMessage(n, d) ELSE << >>
    /\ Sound(s, n) /\ Greets(broker[n], s, c, d, reply)
    /\ before \in [Conn -> [Node -> Seq(Packet)]] /\ Read(before)
    /\ before[c][n] = Tail(wire[c][n]) /\ \A x \in Node \ {n} : before[c][x] = wire[c][x]
    /\ w \in [Conn -> SUBSET Node] /\ \A e \in Conn : w[e] = up[e]
    /\ Commit(n, s, before, w) /\ up' = w /\ ends' = ends
    /\ alive' \subseteq Node /\ tells' \in 0 .. MaxTells

(* A handshake makes the connection it came on a direct route: it was the  *)
(* last one for its reader, and the client's answers the only one before.  *)
LEMMA GreetingStep ==
    ASSUME IInv, NEW n \in Node, NEW c \in Conn, NEW type, NEW d, NEW reply, NEW s,
           NEW before, NEW w, Welcomes(n, c, type, d, reply, s, before, w)
    PROVE  IInv'
<1> USE DEF Welcomes
<1>1. Wired /\ broker \in [Node -> Broker] /\ broker[n] \in Broker /\ s \in Broker
  BY DEF IInv, Sound
<1>2. /\ wire \in [Conn -> [Node -> Seq(Packet)]] /\ wire[c][n] \in Seq(Packet)
      /\ up \in [Conn -> SUBSET Node]
  BY <1>1 DEF Wired
<1>4. 1 \in DOMAIN wire[c][n] /\ Is(type, c, n, 1) /\ d = wire[c][n][1].src
  BY <1>2 DEF Is
<1>5. HandshakesOn(c)
  BY DEF IInv
<1>6. /\ c <= Len(ends) /\ ends[c][1] # ends[c][2] /\ up[c] \subseteq {ends[c][1], ends[c][2]}
      /\ ends[c][1] \in Node /\ ends[c][2] \in Node
  <2>1. c <= Len(ends)
    BY <1>1, <1>2 DEF Wired, Conn
  <2>2. c \in 1 .. Len(ends)
    BY <2>1, <1>1, BaspAssumption DEF Wired, Conn
  <2>3. ends[c] \in {p \in Node \X Node : p[1] # p[2]}
    BY <1>1, <2>2 DEF Wired
  <2>4. QED
    BY <1>1, <2>1, <2>3 DEF Wired
<1>7. /\ type = "server" => n = ends[c][1] /\ d = ends[c][2]
      /\ type = "client" => n = ends[c][2] /\ d = ends[c][1]
  BY <1>4, <1>5 DEF HandshakesOn
<1>8. Connected(s, n, w)
  <2>1. ASSUME NEW x \in Node, s.byNid[x] # None
        PROVE  n \in w[s.byNid[x]] /\ Peer(s.byNid[x], n) = x
    <3>1. broker[n].byNid \in [Maybe(Node) -> Maybe(Conn)]
      BY <1>1 DEF Broker
    <3>2. CASE x = d
      BY <1>6, <1>7, <3>1, <3>2 DEF Greets, Maybe, Peer
    <3>3. CASE x # d
      <4>1. s.byNid[x] = broker[n].byNid[x]
        BY <3>1, <3>3 DEF Greets, Maybe
      <4>2. s.byNid[x] \in Conn
        BY <2>1, <3>1, <4>1 DEF Maybe
      <4>3. n \in up[s.byNid[x]] /\ Peer(s.byNid[x], n) = x
        BY <2>1, <4>1 DEF IInv, Tables, Connected
      <4>4. QED
        BY <4>2, <4>3
    <3>4. QED
      BY <3>2, <3>3
  <2>2. QED
    BY <2>1 DEF Connected
<1>9. broker[n].byHdl \in [Conn -> Maybe(Node)] /\ s.byHdl = [broker[n].byHdl EXCEPT ![c] = d]
  BY <1>1 DEF Broker, Greets
<1>11. \A e \in Conn : e > Len(ends) =>
           s.byHdl[e] = None /\ \A x \in Node : before[e][x] = << >>
  <2>1. ASSUME NEW e \in Conn, e > Len(ends) PROVE e # c
    BY <1>1, <1>6, <2>1 DEF Wired, Conn
  <2>2. QED
    <3>1. ASSUME NEW e \in Conn, e > Len(ends)
          PROVE  s.byHdl[e] = None /\ \A x \in Node : before[e][x] = << >>
      <4>1. broker[n].byHdl[e] = None /\ \A x \in Node : wire[e][x] = << >>
        BY <1>1, <3>1 DEF Wired
      <4>2. s.byHdl[e] = None
        BY <1>9, <2>1, <3>1, <4>1
      <4>3. \A x \in Node : before[e][x] = << >>
        BY <1>1, <4>1, ReadCounted
      <4>4. QED
        BY <4>2, <4>3
    <3>2. QED
      BY <3>1
<1>10. \A e \in Conn : w[e] \subseteq up[e] /\ up[e] \ {n} \subseteq w[e]
  OBVIOUS
<1>29. \A e \in Conn, x \in Node : unsent[e][x] <= Len(before[e][x])
  BY <1>1, ReadCounted
<1>27. Commits(n, s, before, w)
  BY <1>8, <1>10, <1>11, <1>29 DEF Commits
<1>12. broker' \in [Node -> Broker]
  BY <1>27, Committed
<1>13. Tables'
  BY <1>27, Committed
<1>14. Wired'
  BY <1>27, Committed
<1>15. \A x \in Node : broker'[x].out = [e \in Conn |-> << >>] /\ broker'[x].flushed = {}
  BY <1>27, Committed
<1>16. \A x \in Node : broker'[x].byHdl = IF x = n THEN s.byHdl ELSE broker[x].byHdl
  BY <1>27, Committed
<1>17. \A e \in Conn : broker[n].out[e] = << >>
  BY DEF IInv
<1>18. s.out \in [Conn -> Seq(Packet)]
  BY <1>1 DEF Broker
<1>19. ASSUME NEW e \in Conn \ {c} PROVE HandshakesOn(e)'
  <2>1. HandshakesOn(e)
    BY DEF IInv
  <2>2. \A i \in 1 .. Len(s.out[e]) : Plain(s.out[e][i])
    <3>1. Extends(<< >>, s.out[e])
      BY <1>17 DEF Greets
    <3>2. QED
      BY <3>1 DEF Extends
  <2>3. \A x \in Node : \E k \in {0, 1} : Flows(wire[e][x], wire'[e][x], k)
    BY <1>1, <2>2, CommitFlows
  <2>4. \A x \in Node : broker[x].byHdl[e] = None => broker'[x].byHdl[e] = None
    <3>1. s.byHdl[e] = broker[n].byHdl[e]
      BY <1>9
    <3>2. QED
      BY <1>16, <3>1
  <2>5. QED
    BY <1>1, <1>14, <2>1, <2>3, <2>4, FlowKeepsHandshakes
<1>20. Extends(reply, s.out[c])
  <2>1. Extends(broker[n].out[c] \o reply, s.out[c])
    BY DEF Greets
  <2>2. reply \in Seq(Packet)
    <3>1. Message("client", n, d, None) \in Packet
      BY DEF Message, Packet, Types, Maybe
    <3>2. <<Message("client", n, d, None)>> \in Seq(Packet) /\ << >> \in Seq(Packet)
      BY <3>1
    <3>3. QED
      BY <3>2 DEF ClientMessage
  <2>3. << >> \o reply = reply
    BY <2>2
  <2>4. broker[n].out[c] = << >>
    BY <1>17
  <2>5. QED
    BY <2>1, <2>3, <2>4, Zenon
<1>21. wire'[c][n] = Tail(wire[c][n])
  BY <1>2 DEF Commit, Arrives
<1>22. \A x \in Node \ {n} : \/ wire'[c][x] = wire[c][x]
                             \/ x \in up[c] /\ wire'[c][x] = wire[c][x] \o s.out[c]
  BY <1>2 DEF Commit, Arrives
<1>23. \A i \in DOMAIN wire'[c][n] : Plain(wire'[c][n][i])
  <2>1. ASSUME NEW i \in DOMAIN wire'[c][n] PROVE Plain(wire'[c][n][i])
    <3>1. i \in Nat \ {0} /\ i + 1 \in DOMAIN wire[c][n] /\ wire'[c][n][i] = wire[c][n][i + 1]
      BY <1>2, <1>21, <2>1
    <3>2. CASE Plain(wire[c][n][i + 1])
      BY <3>1, <3>2
    <3>3. CASE ~Plain(wire[c][n][i + 1])
      <4>1. Greeting(wire[c][n][i + 1])
        BY <1>5, <3>1, <3>3 DEF HandshakesOn
      <4>2. Is("server", c, n, i + 1) \/ Is("client", c, n, i + 1)
        BY <3>1, <4>1 DEF Greeting, Is
      <4>3. ~Is("server", c, n, i + 1)
        BY <1>5, <3>1 DEF HandshakesOn
      <4>4. Is("client", c, n, i + 1) /\ 1 \in Nat /\ i + 1 \in Nat
        BY <3>1, <4>2, <4>3
      <4>5. CASE type = "server"
        BY <1>4, <1>5, <4>4, <4>5 DEF HandshakesOn
      <4>6. CASE type = "client"
        <5>1. 1 = i + 1
          BY <1>4, <1>5, <3>1, <4>4, <4>6 DEF HandshakesOn
        <5>2. QED
          BY <3>1, <5>1
      <4>7. QED
        BY <4>5, <4>6
    <3>4. QED
      BY <3>2, <3>3
  <2>2. QED
    BY <2>1
<1>24. ASSUME NEW x \in Node \ {n}, NEW i \in DOMAIN wire[c][x] PROVE Plain(wire[c][x][i])
  <2>1. i \in Nat
    BY <1>2
  <2>2. SUFFICES ASSUME Is("server", c, x, i) \/ Is("client", c, x, i) PROVE FALSE
    BY <1>5 DEF HandshakesOn, Greeting, Is
  <2>3. CASE type = "server"
    BY <1>4, <1>5, <1>7, <2>1, <2>2, <2>3 DEF HandshakesOn
  <2>4. CASE type = "client"
    <3>1. ~Is("server", c, x, i)
      BY <1>4, <1>5, <2>1, <2>4 DEF HandshakesOn
    <3>2. x = ends[c][2]
      BY <1>5, <2>2, <3>1 DEF HandshakesOn
    <3>3. QED
      BY <1>7, <2>4, <3>2
  <2>5. QED
    BY <2>3, <2>4
<1>25. CASE type = "client"
  <2>1. \A i \in 1 .. Len(s.out[c]) : Plain(s.out[c][i])
    BY <1>20, <1>25 DEF Extends
  <2>2. ASSUME NEW x \in Node, NEW i \in DOMAIN wire'[c][x] PROVE Plain(wire'[c][x][i])
    <3>1. CASE x = n
      BY <1>23, <2>2, <3>1
    <3>2. CASE x # n /\ wire'[c][x] = wire[c][x]
      BY <1>24, <2>2, <3>2
    <3>3. CASE x # n /\ wire'[c][x] = wire[c][x] \o s.out[c]
      <4> DEFINE b == wire[c][x]  o == s.out[c]
      <4>1. b \in Seq(Packet) /\ o \in Seq(Packet) /\ i \in DOMAIN (b \o o)
            /\ (\A j \in DOMAIN b : Plain(b[j])) /\ \A j \in 1 .. Len(o) : Plain(o[j])
        BY <1>2, <1>18, <1>24, <2>1, <2>2, <3>3
      <4>2. wire'[c][x] = b \o o
        BY <3>3
      <4> HIDE DEF b, o
      <4>3. i \in 1 .. Len(b) + Len(o) /\ Len(b) \in Nat /\ Len(o) \in Nat
        BY <4>1
      <4>4. CASE i <= Len(b)
        <5>1. i \in DOMAIN b /\ (b \o o)[i] = b[i]
          BY <4>1, <4>3, <4>4
        <5>2. QED
          BY <4>1, <4>2, <5>1
      <4>5. CASE i > Len(b)
        <5>1. i - Len(b) \in 1 .. Len(o) /\ (b \o o)[i] = o[i - Len(b)]
          BY <4>1, <4>3, <4>5
        <5>2. QED
          BY <4>1, <4>2, <5>1
      <4>6. QED
        BY <4>3, <4>4, <4>5
    <3>4. QED
      BY <1>22, <3>1, <3>2, <3>3
  <2>3. Idle(c)'
    BY <2>2 DEF Idle
  <2>4. HandshakesOn(c)'
    BY <2>2 DEF HandshakesOn, Is, Plain, Routed
  <2>5. QED
    BY <1>12, <1>13, <1>14, <1>15, <1>19, <2>4 DEF IInv
<1>26. CASE type = "server"
  <2> DEFINE first == Message("client", n, d, None)
  <2>1. Extends(<<first>>, s.out[c])
    BY <1>20, <1>26 DEF ClientMessage
  <2>2. Len(s.out[c]) >= 1 /\ s.out[c][1] = first
        /\ \A i \in 1 .. Len(s.out[c]) : i > 1 => Plain(s.out[c][i])
    <3>1. Len(<<first>>) = 1 /\ <<first>>[1] = first
      OBVIOUS
    <3>2. QED
      BY <1>18, <2>1, <3>1 DEF Extends
  <2>3. first.type = "client" /\ first.src = n /\ Greeting(first)
    BY DEF Message, Greeting, Maybe
  <2> HIDE DEF first
  <2>4. ASSUME NEW x \in Node, NEW i \in DOMAIN wire'[c][x], ~Plain(wire'[c][x][i])
        PROVE  x = d /\ x # n /\ i = Len(wire[c][x]) + 1 /\ wire'[c][x][i] = first
    <3>1. x # n
      BY <1>23, <2>4
    <3>2. wire'[c][x] # wire[c][x]
      BY <1>24, <2>4, <3>1
    <3>3. x \in up[c] /\ wire'[c][x] = wire[c][x] \o s.out[c]
      BY <1>22, <3>1, <3>2
    <3>4. x = d
      BY <1>6, <1>7, <1>26, <3>1, <3>3
    <3> DEFINE b == wire[c][x]  o == s.out[c]
    <3>5. b \in Seq(Packet) /\ o \in Seq(Packet) /\ i \in DOMAIN (b \o o)
          /\ \A j \in DOMAIN b : Plain(b[j])
      BY <1>2, <1>18, <1>24, <2>4, <3>1, <3>3
    <3>6. /\ wire'[c][x] = b \o o /\ Len(o) >= 1 /\ o[1] = first
          /\ \A j \in 1 .. Len(o) : j > 1 => Plain(o[j])
      BY <2>2, <3>3
    <3> HIDE DEF b, o
    <3>7. i \in 1 .. Len(b) + Len(o) /\ Len(b) \in Nat /\ Len(o) \in Nat
      BY <3>5
    <3>8. i > Len(b)
      <4>1. SUFFICES ASSUME i <= Len(b) PROVE FALSE
        BY <3>7
      <4>2. i \in DOMAIN b /\ (b \o o)[i] = b[i]
        BY <3>5, <3>7, <4>1
      <4>3. QED
        BY <2>4, <3>5, <3>6, <4>2
    <3>9. i - Len(b) \in 1 .. Len(o) /\ (b \o o)[i] = o[i - Len(b)]
      BY <3>5, <3>7, <3>8
    <3>10. ~(i - Len(b) > 1)
      BY <2>4, <3>6, <3>9
    <3>11. i - Len(b) = 1
      BY <3>7, <3>9, <3>10
    <3>12. i = Len(b) + 1 /\ wire'[c][x][i] = first
      BY <3>6, <3>7, <3>9, <3>11
    <3>13. QED
      BY <3>1, <3>4, <3>12 DEF b
  <2>5. broker'[d].byHdl[c] = None
    <3>1. d # n
      BY <1>6, <1>7, <1>26
    <3>2. broker[d].byHdl[c] = None
      BY <1>4, <1>5, <1>26 DEF HandshakesOn
    <3>3. QED
      BY <1>16, <3>1, <3>2
  <2>6. ASSUME NEW x \in Node, NEW i \in DOMAIN wire'[c][x], ~Plain(wire'[c][x][i])
        PROVE  /\ Greeting(wire'[c][x][i]) /\ wire'[c][x][i].type = "client"
               /\ x = ends'[c][2] /\ wire'[c][x][i].src = ends'[c][1]
               /\ broker'[x].byHdl[c] = None
    BY <1>7, <1>26, <2>3, <2>4, <2>5, <2>6
  <2>7. ASSUME NEW x \in Node, NEW i \in DOMAIN wire'[c][x], ~Plain(wire'[c][x][i]),
               NEW j \in DOMAIN wire'[c][x], ~Plain(wire'[c][x][j])
        PROVE  j = i
    <3>1. i = Len(wire[c][x]) + 1
      BY <2>4, <2>7
    <3>2. j = Len(wire[c][x]) + 1
      BY <2>4, <2>7
    <3>3. QED
      BY <3>1, <3>2
  <2>8. HandshakesOn(c)'
    <3>1. ASSUME NEW x \in Node, NEW i \in DOMAIN wire'[c][x]
          PROVE  /\ Plain(wire'[c][x][i]) \/ Greeting(wire'[c][x][i])
                 /\ ~Is("server", c, x, i)'
                 /\ Is("client", c, x, i)' =>
                       /\ x = ends'[c][2] /\ wire'[c][x][i].src = ends'[c][1]
                       /\ broker'[x].byHdl[c] = None
                       /\ \A j \in Nat : Is("client", c, x, j)' => j = i
      <4>1. CASE Plain(wire'[c][x][i])
        BY <4>1 DEF Plain, Routed, Is
      <4>2. CASE ~Plain(wire'[c][x][i])
        <5>1. ASSUME NEW j \in Nat, Is("client", c, x, j)' PROVE j = i
          <6>1. j \in DOMAIN wire'[c][x] /\ ~Plain(wire'[c][x][j])
            BY <5>1 DEF Is, Plain, Routed
          <6>2. QED
            BY <2>7, <3>1, <4>2, <6>1
        <5>2. QED
          BY <2>6, <3>1, <4>2, <5>1 DEF Is
      <4>3. QED
        BY <4>1, <4>2
    <3>2. QED
      BY <3>1 DEF HandshakesOn
  <2>9. QED
    BY <1>12, <1>13, <1>14, <1>15, <1>19, <2>8 DEF IInv
<1>28. QED
  BY <1>25, <1>26

LEMMA InitIInv == Init => IInv
<1>. SUFFICES ASSUME Init PROVE IInv
  OBVIOUS
<1> USE BaspAssumption DEF Init
<1>1. FreshBroker \in Broker
  <2>1. [c \in Conn |-> << >>] \in [Conn -> Seq(Packet)]
    OBVIOUS
  <2>2. QED
    BY <2>1 DEF FreshBroker, Broker, Maybe
<1>2. ASSUME NEW n \in Node PROVE Sound(FreshBroker, n) /\ Connected(FreshBroker, n, up)
  BY <1>1 DEF Sound, Connected, FreshBroker, Maybe, Tended
<1>3. broker \in [Node -> Broker] /\ Tables
  BY <1>1, <1>2 DEF Tables
<1>4. \A n \in Node : broker[n].out = [c \in Conn |-> << >>] /\ broker[n].flushed = {}
  BY DEF FreshBroker
<1>5. Wired
  <2>1. << >> \in Seq({p \in Node \X Node : p[1] # p[2]}) /\ Len(<< >>) = 0
    OBVIOUS
  <2>2. wire \in [Conn -> [Node -> Seq(Packet)]]
    OBVIOUS
  <2>3. \A c \in Conn, n \in Node : broker[n].byHdl[c] = None
    BY DEF FreshBroker
  <2>5. unsent \in [Conn -> [Node -> Nat]] /\ \A c \in Conn, n \in Node : unsent[c][n] <= Len(wire[c][n])
    <3>1. \A c \in Conn, n \in Node : unsent[c][n] = 0 /\ Len(wire[c][n]) = 0
      OBVIOUS
    <3>2. QED
      BY <3>1
  <2>4. QED
    BY <2>1, <2>2, <2>3, <2>5 DEF Wired
<1>6. ASSUME NEW c \in Conn PROVE HandshakesOn(c)
  <2>1. \A n \in Node : DOMAIN wire[c][n] = {}
    OBVIOUS
  <2>2. QED
    BY <2>1 DEF HandshakesOn
<1>7. QED
  BY <1>3, <1>4, <1>5, <1>6 DEF IInv

LEMMA ConnIsOpen ==
    ASSUME IInv, NEW c \in Conn, up[c] # {}
    PROVE  /\ c \in 1 .. Len(ends) /\ ends[c][1] \in Node /\ ends[c][2] \in Node
           /\ ends[c][1] # ends[c][2] /\ up[c] \subseteq {ends[c][1], ends[c][2]}
<1>1. Wired
  BY DEF IInv
<1>2. c \in 1 .. Len(ends)
  <2>1. c \in Nat /\ c >= 1
    BY BaspAssumption DEF Conn
  <2>4. Len(ends) \in Nat /\ (c > Len(ends) => up[c] = {})
    BY <1>1 DEF Wired
  <2>2. c <= Len(ends)
    BY <2>1, <2>4
  <2>3. QED
    BY <2>1, <2>2, <2>4
<1>3. ends[c] \in {p \in Node \X Node : p[1] # p[2]}
  BY <1>1, <1>2 DEF Wired
<1>4. QED
  BY <1>1, <1>2, <1>3 DEF Wired

LEMMA ReceiveIInv ==
    ASSUME IInv, NEW n \in Node, NEW c \in Conn, Receive(n, c)
    PROVE  IInv'
<1> DEFINE m == Head(wire[c][n])
           s == broker[n]
           t == Handled(s, n, c, m)
           closes == m.type = "server" /\ s.byNid[m.src] # None
           w == IF closes THEN [up EXCEPT ![c] = @ \ {n}] ELSE up
           before == [wire EXCEPT ![c][n] = Tail(@)]
<1>1. /\ n \in up[c] /\ wire[c][n] # << >> /\ Commit(n, t, before, w) /\ up' = w
      /\ alive' = alive /\ ends' = ends /\ tells' = tells
  <2>1. Commit(n, t, before, w)
    BY Zenon DEF Receive
  <2>2. up' = w
    BY Zenon DEF Receive
  <2>3. n \in up[c] /\ alive' = alive /\ ends' = ends /\ tells' = tells
    BY Zenon DEF Receive
  <2>5. wire[c][n] # << >>
    <3>1. unsent[c][n] \in Nat /\ unsent[c][n] < Len(wire[c][n])
      BY DEF IInv, Wired, Receive
    <3>2. QED
      BY <3>1
  <2>4. QED
    BY <2>1, <2>2, <2>3, <2>5, Zenon
<1>2. /\ Wired /\ Sound(s, n) /\ Connected(s, n, up) /\ s \in Broker /\ HandshakesOn(c)
      /\ alive' \subseteq Node /\ tells' \in 0 .. MaxTells
  BY <1>1 DEF IInv, Tables
<1>3. /\ wire \in [Conn -> [Node -> Seq(Packet)]] /\ wire[c][n] \in Seq(Packet)
      /\ up \in [Conn -> SUBSET Node]
  BY <1>2 DEF Wired
<1>4. /\ before \in [Conn -> [Node -> Seq(Packet)]] /\ Read(before)
      /\ before[c][n] = Tail(wire[c][n]) /\ \A x \in Node \ {n} : before[c][x] = wire[c][x]
  <2>1. unsent[c][n] < Len(wire[c][n])
    BY DEF Receive
  <2>2. QED
    BY <1>1, <1>3, <2>1 DEF Read
<1>5. w \in [Conn -> SUBSET Node] /\ \A e \in Conn : w[e] \subseteq up[e] /\ up[e] \ {n} \subseteq w[e]
  BY <1>3
<1>6. 1 \in DOMAIN wire[c][n] /\ m = wire[c][n][1] /\ m \in Packet
  BY <1>1, <1>3
<1> HIDE DEF before, m
<1>7. CASE Plain(m)
  <2>1. Sound(t, n) /\ Keeps(s, t)
    BY <1>2, <1>7, HandledPlain
  <2>2. ~closes
    BY <1>7 DEF Plain, Routed
  <2>3. Connected(t, n, w)
    BY <1>2, <2>1, <2>2 DEF Connected, Keeps
  <2> HIDE DEF t, w
  <2>4. QED
    BY <1>1, <1>2, <1>4, <1>5, <2>1, <2>3, KeepingStep
<1>8. CASE Greeting(m)
  <2> DEFINE d == m.src
  <2>1. /\ d \in Node \ {n} /\ s.byHdl[c] = None /\ m.type \in {"server", "client"}
    <3>1. /\ ends[c][1] # ends[c][2]
      BY <1>1, ConnIsOpen
    <3>2. m.type \in {"server", "client"} /\ d \in Node
      BY <1>8 DEF Greeting
    <3>3. Is(m.type, c, n, 1)
      BY <1>6 DEF Is
    <3>4. CASE m.type = "server"
      <4>1. n = ends[c][1] /\ d = ends[c][2] /\ s.byHdl[c] = None
        BY <1>2, <1>6, <3>3, <3>4 DEF HandshakesOn
      <4>2. QED
        BY <3>1, <3>2, <4>1
    <3>5. CASE m.type = "client"
      <4>1. n = ends[c][2] /\ d = ends[c][1] /\ s.byHdl[c] = None
        BY <1>2, <1>6, <3>3, <3>5 DEF HandshakesOn
      <4>2. QED
        BY <3>1, <3>2, <4>1
    <3>6. QED
      BY <3>2, <3>4, <3>5
  <2>2. t = IF m.type = "server" THEN ServerHandshake(s, n, c, d) ELSE ClientHandshake(s, n, c, d)
    BY <2>1 DEF Handled
  <2>3. /\ Sound(t, n)
        /\ IF s.byNid[d] # None THEN Keeps(s, t)
           ELSE Greets(s, t, c, d, IF m.type = "server" THEN ClientMessage(n, d) ELSE << >>)
    <3>1. CASE m.type = "server"
      BY <1>2, <2>1, <2>2, <3>1, ServerHandshakeSound
    <3>2. CASE m.type # "server"
      BY <1>2, <2>1, <2>2, <3>2, ClientHandshakeSound
    <3>3. QED
      BY <3>1, <3>2
  <2>4. CASE s.byNid[d] # None
    <3>1. Keeps(s, t)
      BY <2>3, <2>4
    <3>2. Connected(t, n, w)
      <4>1. ASSUME NEW x \in Node, s.byNid[x] # None
            PROVE  n \in w[s.byNid[x]] /\ Peer(s.byNid[x], n) = x
        <5>1. s.byNid[x] \in Conn
          BY <1>2, <4>1 DEF Broker, Maybe
        <5>2. s.byHdl[s.byNid[x]] = x
          BY <1>2, <4>1 DEF Sound
        <5>3. s.byNid[x] # c
          BY <2>1, <5>2, BaspAssumption
        <5>4. n \in up[s.byNid[x]] /\ Peer(s.byNid[x], n) = x
          BY <1>2, <4>1 DEF Connected
        <5>5. QED
          BY <1>3, <5>1, <5>3, <5>4
      <4>2. QED
        BY <3>1, <4>1 DEF Connected, Keeps
    <3> HIDE DEF t, w
    <3>3. QED
      BY <1>1, <1>2, <1>4, <1>5, <2>3, <3>1, <3>2, KeepingStep
  <2>5. CASE s.byNid[d] = None
    <3> DEFINE reply == IF m.type = "server" THEN ClientMessage(n, d) ELSE << >>
               type == m.type
    <3>1. Sound(t, n) /\ Greets(s, t, c, d, reply)
      BY <2>3, <2>5
    <3>2. w = up
      BY <2>5
    <3>3. \A e \in Conn : w[e] = up[e]
      BY <3>2
    <3>4. reply = IF type = "server" THEN ClientMessage(n, d) ELSE << >>
      OBVIOUS
    <3>5. d \in Node /\ type \in {"server", "client"}
      BY <2>1
    <3>6. Head(wire[c][n]).type = type /\ d = Head(wire[c][n]).src
      BY DEF m
    <3> HIDE DEF reply, t, w, type, d
    <3>7. Welcomes(n, c, type, d, reply, t, before, w)
      BY <1>1, <1>2, <1>4, <1>5, <2>5, <3>1, <3>3, <3>4, <3>5, <3>6 DEF Welcomes
    <3>8. QED
      BY <3>7, GreetingStep
  <2>6. QED
    BY <2>4, <2>5
<1>9. QED
  BY <1>2, <1>6, <1>7, <1>8 DEF HandshakesOn

LEMMA TellIInv ==
    ASSUME IInv, NEW n \in Node, NEW m \in Node, NEW x \in Node, Tell(n, m, x)
    PROVE  IInv'
<1> DEFINE s == broker[n]
           p == Message("dispatch", n, m, x)
           t == SendTo(s, m, p)
<1>1. /\ Wired /\ Sound(s, n) /\ Connected(s, n, up)
      /\ wire \in [Conn -> [Node -> Seq(Packet)]] /\ up \in [Conn -> SUBSET Node]
  BY DEF IInv, Tables, Wired
<1>2. /\ Commit(n, t, wire, up) /\ up' = up /\ ends' = ends
      /\ alive' \subseteq Node /\ tells' \in 0 .. MaxTells
  <2>1. Commit(n, t, wire, up) /\ up' = up /\ ends' = ends /\ alive' = alive
    BY DEF Tell, network
  <2>2. tells' \in 0 .. MaxTells
    BY BaspAssumption DEF Tell, IInv
  <2>3. QED
    BY <2>1, <2>2 DEF IInv
<1>3. m # n
  BY <1>1 DEF Tell, Sound
<1>4. Plain(p)
  BY <1>3 DEF Plain, Message, Routed, Maybe
<1> HIDE DEF p
<1>5. Sound(t, n) /\ Keeps(s, t)
  BY <1>1, <1>4, SendToSound
<1>6. Connected(t, n, up)
  BY <1>1, <1>5 DEF Connected, Keeps
<1>7. Read(wire) /\ \A e \in Conn : up[e] \subseteq up[e] /\ up[e] \ {n} \subseteq up[e]
  BY DEF Read
<1> HIDE DEF t
<1>8. QED
  BY <1>1, <1>2, <1>5, <1>6, <1>7, KeepingStep

LEMMA TellEndIInv ==
    ASSUME IInv, NEW n \in Node, NEW m \in Node, TellEnd(n, m)
    PROVE  IInv'
<1> DEFINE s == broker[n]
           r == [s EXCEPT !.watchers = @ \ {m}]
           t == SendTo(r, m, KillMessage(n, m))
<1>1. /\ Wired /\ Sound(s, n) /\ Connected(s, n, up) /\ s \in Broker
      /\ wire \in [Conn -> [Node -> Seq(Packet)]] /\ up \in [Conn -> SUBSET Node]
  BY DEF IInv, Tables, Wired
<1>2. /\ Commit(n, t, wire, up) /\ up' = up /\ ends' = ends
      /\ alive' \subseteq Node /\ tells' \in 0 .. MaxTells
  BY DEF TellEnd, network, IInv
<1>3. m # n
  BY <1>1 DEF TellEnd, Sound
<1>4. Plain(KillMessage(n, m))
  BY <1>3 DEF KillMessage, Plain, Message, Routed, Maybe
<1>5. /\ r \in Broker /\ SameTables(s, r) /\ r.proxies = s.proxies
      /\ r.watchers = s.watchers \ {m} /\ Unnoticed(s, r)
  BY <1>1 DEF Broker, SameTables, Unnoticed
<1> HIDE DEF r
<1>6. Sound(r, n) /\ Keeps(s, r)
  BY <1>1, <1>5, SameTablesSound DEF Sound
<1>7. Sound(t, n) /\ Keeps(r, t)
  BY <1>4, <1>6, SendToSound
<1> HIDE DEF t
<1>8. Keeps(s, t)
  BY <1>1, <1>5, <1>6, <1>7, KeepsTrans DEF Sound
<1>9. Connected(t, n, up)
  BY <1>1, <1>8 DEF Connected, Keeps
<1>10. Read(wire) /\ \A e \in Conn : up[e] \subseteq up[e] /\ up[e] \ {n} \subseteq up[e]
  BY DEF Read
<1>11. QED
  BY <1>1, <1>2, <1>7, <1>8, <1>9, <1>10, KeepingStep

LEMMA ClosedIInv ==
    ASSUME IInv, NEW n \in Node, NEW c \in Conn, Closed(n, c)
    PROVE  IInv'
<1> DEFINE s == broker[n]
           t == IF s.byHdl[c] = None THEN s ELSE EraseNode(s, s.byHdl[c])
<1>1. /\ n \in up[c] /\ up' = [up EXCEPT ![c] = @ \ {n}]
      /\ alive' = alive /\ ends' = ends /\ wire' = wire /\ unsent' = unsent /\ tells' = tells
  BY DEF Closed
<1>2. /\ Wired /\ Tables /\ Sound(s, n) /\ Connected(s, n, up) /\ s \in Broker
      /\ broker \in [Node -> Broker] /\ up \in [Conn -> SUBSET Node]
  BY DEF IInv, Tables, Wired, Sound
<1>3. broker' = [broker EXCEPT ![n] = t]
  <2>1. CASE s.byHdl[c] = None
    BY <1>2, <2>1 DEF Closed
  <2>2. CASE s.byHdl[c] # None
    BY <2>2 DEF Closed
  <2>3. QED
    BY <2>1, <2>2
<1>4. /\ Sound(t, n) /\ t \in Broker /\ t.out = s.out /\ t.flushed = s.flushed
      /\ \A e \in Conn : t.byHdl[e] = IF e = c THEN None ELSE s.byHdl[e]
      /\ \A d \in Node : t.byNid[d] # None => t.byNid[d] = s.byNid[d]
  <2>1. s.byHdl \in [Conn -> Maybe(Node)] /\ s.byNid \in [Maybe(Node) -> Maybe(Conn)]
    BY <1>2 DEF Broker
  <2>2. CASE s.byHdl[c] = None
    BY <1>2, <2>1, <2>2
  <2>3. CASE s.byHdl[c] # None
    <3> DEFINE u == EraseNode(s, s.byHdl[c])
    <3>1. /\ Sound(u, n) /\ u.out = s.out /\ u.flushed = s.flushed
          /\ u.byHdl = [s.byHdl EXCEPT ![c] = None]
          /\ u.byNid = [s.byNid EXCEPT ![s.byHdl[c]] = None]
      BY <1>2, <2>3, EraseNodeSound
    <3>2. t = u
      BY <2>3
    <3> HIDE DEF u, t
    <3>3. s.byHdl[c] \in Node
      BY <2>1, <2>3 DEF Maybe
    <3>4. QED
      BY <2>1, <3>1, <3>2, <3>3 DEF Sound, Maybe
  <2>4. QED
    BY <2>2, <2>3
<1> HIDE DEF t
<1>5. \A x \in Node : broker'[x] = IF x = n THEN t ELSE broker[x]
  BY <1>2, <1>3
<1>6. broker' \in [Node -> Broker]
      /\ \A x \in Node : broker'[x].out = [e \in Conn |-> << >>] /\ broker'[x].flushed = {}
  BY <1>2, <1>3, <1>4 DEF IInv
<1>7. ASSUME NEW x \in Node PROVE Sound(broker'[x], x) /\ Connected(broker[x], x, up)'
  <2>1. Sound(broker'[x], x)
    BY <1>2, <1>4, <1>5 DEF Tables
  <2>2. ASSUME NEW d \in Node, broker'[x].byNid[d] # None
        PROVE  x \in up'[broker'[x].byNid[d]] /\ Peer(broker[x].byNid[d], x)' = d
    <3>1. broker'[x].byNid[d] = broker[x].byNid[d] /\ broker[x] \in Broker
      BY <1>2, <1>4, <1>5, <2>2
    <3> DEFINE e == broker[x].byNid[d]
    <3>2. e \in Conn
      BY <2>2, <3>1 DEF Broker, Maybe
    <3>3. x \in up[e] /\ Peer(e, x) = d
      BY <1>2, <2>2, <3>1 DEF Tables, Connected
    <3>4. x # n \/ e # c
      <4>1. SUFFICES ASSUME x = n, e = c PROVE FALSE
        OBVIOUS
      <4>2. broker'[x].byHdl[e] = d
        BY <2>1, <2>2, <3>1 DEF Sound
      <4>3. QED
        BY <1>4, <1>5, <3>2, <4>1, <4>2, BaspAssumption
    <3>5. x \in up'[e]
      BY <1>1, <1>2, <3>2, <3>3, <3>4
    <3>6. QED
      BY <1>1, <3>1, <3>3, <3>5 DEF Peer
  <2>3. QED
    BY <2>1, <2>2 DEF Connected
<1>8. Tables'
  BY <1>7 DEF Tables
<1>9. Wired'
  <2>1. c <= Len(ends)
    BY <1>1, ConnIsOpen
  <2>2. up' \in [Conn -> SUBSET Node] /\ \A e \in Conn : up'[e] \subseteq up[e]
    BY <1>1, <1>2
  <2>3. ASSUME NEW e \in Conn, e > Len(ends) PROVE up'[e] = {}
    BY <1>2, <2>2, <2>3 DEF Wired
  <2>4. ASSUME NEW e \in Conn, e > Len(ends), NEW x \in Node
        PROVE  wire'[e][x] = << >> /\ broker'[x].byHdl[e] = None
    <3>1. wire[e][x] = << >> /\ broker[x].byHdl[e] = None
      BY <1>2, <2>4 DEF Wired
    <3>2. QED
      BY <1>1, <1>4, <1>5, <3>1
  <2>5. QED
    BY <1>1, <1>2, <2>2, <2>3, <2>4 DEF Wired
<1>10. ASSUME NEW e \in Conn PROVE HandshakesOn(e)'
  <2>1. \A x \in Node : Flows(wire[e][x], wire'[e][x], 0)
    BY <1>1, <1>2 DEF Wired, Flows
  <2>2. \A x \in Node : \E k \in {0, 1} : Flows(wire[e][x], wire'[e][x], k)
    BY <2>1
  <2>3. \A x \in Node : broker[x].byHdl[e] = None => broker'[x].byHdl[e] = None
    BY <1>4, <1>5
  <2>4. HandshakesOn(e)
    BY DEF IInv
  <2>5. QED
    BY <1>1, <1>2, <1>9, <2>2, <2>3, <2>4, FlowKeepsHandshakes
<1>11. QED
  BY <1>1, <1>6, <1>8, <1>9, <1>10 DEF IInv

LEMMA ConnectIInv ==
    ASSUME IInv, NEW n \in Node, NEW m \in Node, Connect(n, m)
    PROVE  IInv'
<1> DEFINE s == broker[n]
           t == [s EXCEPT !.pending = @ \cup {m}]
           hello == Message("server", m, None, None)
<1>2. /\ Wired /\ Tables /\ Sound(s, n) /\ s \in Broker
      /\ broker \in [Node -> Broker] /\ up \in [Conn -> SUBSET Node]
      /\ wire \in [Conn -> [Node -> Seq(Packet)]]
      /\ ends \in Seq({p \in Node \X Node : p[1] # p[2]})
  BY DEF IInv, Tables, Wired, Sound
<1>3. /\ Len(ends) + 1 \in Conn /\ Len(ends) \in Nat
      /\ <<n, m>> \in {p \in Node \X Node : p[1] # p[2]}
  BY <1>2, BaspAssumption DEF Connect, Conn
<1>16. PICK c \in Conn : c = Len(ends) + 1
  BY <1>3
<1>1. /\ ends' = Append(ends, <<n, m>>) /\ up' = [up EXCEPT ![c] = {n, m}]
      /\ wire' = [wire EXCEPT ![c][n] = <<hello>>] /\ broker' = [broker EXCEPT ![n] = t]
      /\ alive' = alive /\ tells' = tells /\ unsent' = unsent /\ c <= MaxConns
  BY <1>16 DEF Connect, Conn
<1>4. /\ ends' \in Seq({p \in Node \X Node : p[1] # p[2]}) /\ Len(ends') = c
      /\ ends'[c] = <<n, m>> /\ \A i \in 1 .. Len(ends) : ends'[i] = ends[i]
  BY <1>1, <1>2, <1>3, <1>16
<1>5. /\ up[c] = {} /\ \A x \in Node : wire[c][x] = << >> /\ broker[x].byHdl[c] = None
  <2>1. c > Len(ends)
    BY <1>3, <1>16
  <2>2. QED
    BY <1>2, <2>1 DEF Wired
<1>6. /\ t \in Broker /\ SameTables(s, t) /\ t.proxies = s.proxies
      /\ t.watchers = s.watchers /\ t.flushed = s.flushed /\ Unnoticed(s, t)
  BY <1>2 DEF Broker, SameTables, Unnoticed
<1> HIDE DEF t
<1>7. Sound(t, n)
  <2>1. n \notin t.proxies \cup t.watchers
    BY <1>2, <1>6 DEF Sound
  <2>2. QED
    BY <1>2, <1>6, <2>1, SameTablesSound
<1>8. /\ broker' \in [Node -> Broker]
      /\ \A x \in Node : /\ broker'[x].byHdl = broker[x].byHdl
                         /\ broker'[x].byNid = broker[x].byNid
                         /\ broker'[x].out = broker[x].out
                         /\ broker'[x].flushed = broker[x].flushed
                         /\ Sound(broker'[x], x)
  <2>1. \A x \in Node : broker'[x] = IF x = n THEN t ELSE broker[x]
    BY <1>1, <1>2
  <2>2. QED
    BY <1>1, <1>2, <1>6, <1>7, <2>1 DEF SameTables, Tables
<1>9. ASSUME NEW x \in Node PROVE Connected(broker[x], x, up)'
  <2>1. ASSUME NEW d \in Node, broker'[x].byNid[d] # None
        PROVE  x \in up'[broker'[x].byNid[d]] /\ Peer(broker[x].byNid[d], x)' = d
    <3> DEFINE e == broker[x].byNid[d]
    <3>1. broker[x] \in Broker /\ broker'[x].byNid[d] = e /\ e # None
      BY <1>2, <1>8, <2>1
    <3>2. e \in Conn
      BY <3>1 DEF Broker, Maybe
    <3>3. x \in up[e] /\ Peer(e, x) = d
      BY <1>2, <3>1 DEF Tables, Connected
    <3>4. e # c /\ e \in 1 .. Len(ends)
      BY <1>5, <3>2, <3>3, ConnIsOpen
    <3>5. x \in up'[e]
      BY <1>1, <1>2, <3>2, <3>3, <3>4
    <3>6. ends'[e] = ends[e]
      BY <1>4, <3>4
    <3>7. QED
      BY <3>1, <3>3, <3>5, <3>6 DEF Peer
  <2>2. QED
    BY <2>1 DEF Connected
<1>11. Tables'
  BY <1>8, <1>9 DEF Tables
<1>12. wire' \in [Conn -> [Node -> Seq(Packet)]] /\ Greeting(hello) /\ hello.type = "server" /\ hello.src = m
  <2>1. hello \in Packet
    BY DEF Message, Packet, Types, Maybe
  <2>2. Greeting(hello) /\ hello.type = "server" /\ hello.src = m
    BY DEF Message, Greeting, Maybe
  <2> HIDE DEF hello
  <2>3. <<hello>> \in Seq(Packet)
    BY <2>1
  <2>4. QED
    BY <1>1, <1>2, <1>3, <2>2, <2>3
<1> HIDE DEF hello
<1>13. Wired'
  <2>1. up' \in [Conn -> SUBSET Node]
    BY <1>1, <1>2
  <2>2. ASSUME NEW e \in Conn, e <= Len(ends') PROVE up'[e] \subseteq {ends'[e][1], ends'[e][2]}
    <3>1. CASE e = c
      BY <1>1, <1>2, <1>4, <3>1
    <3>2. CASE e # c
      <4>1. e \in 1 .. Len(ends)
        BY <1>3, <1>4, <1>16, <2>2, <3>2 DEF Conn
      <4>2. up'[e] = up[e] /\ ends'[e] = ends[e]
        BY <1>1, <1>2, <1>4, <3>2, <4>1
      <4>3. QED
        BY <1>2, <1>3, <4>1, <4>2 DEF Wired
    <3>3. QED
      BY <3>1, <3>2
  <2>3. ASSUME NEW e \in Conn, e > Len(ends')
        PROVE  up'[e] = {} /\ \A x \in Node : wire'[e][x] = << >> /\ broker'[x].byHdl[e] = None
    <3>1. e # c /\ e > Len(ends)
      BY <1>3, <1>4, <1>16, <2>3 DEF Conn
    <3>2. up[e] = {} /\ \A x \in Node : wire[e][x] = << >> /\ broker[x].byHdl[e] = None
      BY <1>2, <3>1 DEF Wired
    <3>3. QED
      BY <1>1, <1>2, <1>3, <1>8, <3>1, <3>2
  <2>4. Len(ends') <= MaxConns
    BY <1>1, <1>4
  <2>6. ASSUME NEW e \in Conn, NEW x \in Node PROVE unsent'[e][x] <= Len(wire'[e][x])
    <3>1. unsent[e][x] <= Len(wire[e][x]) /\ unsent[e][x] \in Nat /\ unsent[c][n] <= Len(wire[c][n])
      BY <1>2, <1>3, <1>16 DEF Wired
    <3>2. CASE e = c /\ x = n
      <4>1. unsent[c][n] = 0
        BY <1>5, <3>1, <3>2
      <4>2. QED
        BY <1>1, <1>12, <3>2, <4>1
    <3>3. CASE ~(e = c /\ x = n)
      BY <1>1, <1>2, <3>1, <3>3
    <3>4. QED
      BY <3>2, <3>3
  <2>7. unsent' \in [Conn -> [Node -> Nat]]
    BY <1>1, <1>2 DEF Wired
  <2>5. QED
    BY <1>4, <1>12, <2>1, <2>2, <2>3, <2>4, <2>6, <2>7 DEF Wired
<1>14. ASSUME NEW e \in Conn PROVE HandshakesOn(e)'
  <2>1. CASE e = c
    <3>1. ASSUME NEW x \in Node, NEW i \in DOMAIN wire'[c][x]
          PROVE  x = n /\ i = 1 /\ wire'[c][x][i] = hello
      <4>1. wire'[c][x] = IF x = n THEN <<hello>> ELSE << >>
        BY <1>1, <1>2, <1>3, <1>5
      <4>2. x = n
        BY <3>1, <4>1
      <4>3. QED
        BY <3>1, <4>1, <4>2
    <3>2. ASSUME NEW x \in Node, NEW j \in Nat PROVE ~Is("client", c, x, j)'
      <4>1. Is("client", c, x, j)' <=> j \in DOMAIN wire'[c][x] /\ wire'[c][x][j].type = "client"
        BY DEF Is
      <4>2. QED
        BY <1>12, <3>1, <4>1
    <3>3. ASSUME NEW x \in Node, NEW i \in DOMAIN wire'[e][x]
          PROVE  /\ Greeting(wire'[e][x][i]) /\ i = 1 /\ x = ends'[e][1]
                 /\ wire'[e][x][i].src = ends'[e][2]
                 /\ \A y \in Node : broker'[y].byHdl[e] = None
                 /\ wire'[e][x][i].type # "client"
      <4>1. x = n /\ i = 1 /\ wire'[e][x][i] = hello
        BY <2>1, <3>1, <3>3
      <4>2. ends'[e][1] = n /\ ends'[e][2] = m
        BY <1>4, <2>1
      <4>3. \A y \in Node : broker'[y].byHdl[e] = None
        BY <1>5, <1>8, <2>1
      <4>4. QED
        BY <1>12, <4>1, <4>2, <4>3
    <3>4. ASSUME NEW x \in Node, NEW j \in Nat PROVE ~Is("client", e, x, j)'
      BY <3>3 DEF Is
    <3>5. QED
      BY <3>3, <3>4 DEF HandshakesOn, Is
  <2>2. CASE e # c /\ e > Len(ends)
    <3>1. \A x \in Node : wire'[e][x] = << >>
      BY <1>1, <1>2, <1>3, <2>2 DEF Wired
    <3>2. \A x \in Node : DOMAIN wire'[e][x] = {}
      BY <3>1
    <3>3. QED
      BY <3>2 DEF HandshakesOn
  <2>3. CASE e # c /\ e <= Len(ends)
    <3>1. wire'[e] = wire[e]
      BY <1>1, <1>2, <1>3, <2>3
    <3>2. ends'[e] = ends[e]
      BY <1>3, <1>4, <2>3 DEF Conn
    <3>3. HandshakesOn(e)
      BY DEF IInv
    <3>4. QED
      BY <1>8, <3>1, <3>2, <3>3 DEF HandshakesOn, Is
  <2>4. QED
    BY <1>3, <2>1, <2>2, <2>3 DEF Conn
<1>15. QED
  BY <1>1, <1>8, <1>11, <1>13, <1>14 DEF IInv

LEMMA LoseIInv ==
    ASSUME IInv, NEW c \in Conn, Lose(c)
    PROVE  IInv'
<1>1. /\ wire' = [wire EXCEPT ![c] = [n \in Node |-> << >>]]
      /\ unsent' = [unsent EXCEPT ![c] = [n \in Node |-> 0]]
      /\ broker' = broker /\ alive' = alive /\ ends' = ends /\ up' = up /\ tells' = tells
  BY DEF Lose
<1>2. Wired /\ wire \in [Conn -> [Node -> Seq(Packet)]]
  BY DEF IInv, Wired
<1>3. /\ wire' \in [Conn -> [Node -> Seq(Packet)]]
      /\ \A e \in Conn, x \in Node : wire'[e][x] = IF e = c THEN << >> ELSE wire[e][x]
  BY <1>1, <1>2
<1>4. Tables'
  BY <1>1 DEF IInv, Tables, Connected, Peer
<1>8. /\ unsent' \in [Conn -> [Node -> Nat]]
      /\ \A e \in Conn, x \in Node : unsent'[e][x] <= Len(wire'[e][x])
  <2>1. unsent \in [Conn -> [Node -> Nat]]
    BY <1>2 DEF Wired
  <2>2. /\ unsent' \in [Conn -> [Node -> Nat]]
        /\ \A e \in Conn, x \in Node : unsent'[e][x] = IF e = c THEN 0 ELSE unsent[e][x]
    BY <1>1, <2>1
  <2>3. \A e \in Conn, x \in Node : unsent[e][x] <= Len(wire[e][x])
    BY <1>2 DEF Wired
  <2>4. Len(<< >>) = 0
    OBVIOUS
  <2>5. ASSUME NEW e \in Conn, NEW x \in Node PROVE unsent'[e][x] <= Len(wire'[e][x])
    <3>1. CASE e = c
      BY <1>3, <2>2, <2>4, <3>1
    <3>2. CASE e # c
      BY <1>3, <2>2, <2>3, <3>2
    <3>3. QED
      BY <3>1, <3>2
  <2>6. QED
    BY <2>2, <2>5
<1>5. Wired'
  BY <1>1, <1>2, <1>3, <1>8 DEF Wired
<1>6. ASSUME NEW e \in Conn PROVE HandshakesOn(e)'
  <2>1. ASSUME NEW x \in Node PROVE Flows(wire[e][x], wire'[e][x], 0)
    <3>1. wire[e][x] \in Seq(Packet) /\ wire'[e][x] \in {wire[e][x], << >>}
      BY <1>2, <1>3
    <3>2. QED
      BY <3>1 DEF Flows
  <2>2. \A x \in Node : \E k \in {0, 1} : Flows(wire[e][x], wire'[e][x], k)
    BY <2>1
  <2>3. HandshakesOn(e)
    BY DEF IInv
  <2>4. QED
    BY <1>1, <1>2, <1>5, <2>2, <2>3, FlowKeepsHandshakes
<1>7. QED
  BY <1>1, <1>4, <1>5, <1>6 DEF IInv

LEMMA QuietIInv ==
    ASSUME IInv, UNCHANGED <<broker, ends, up, wire, unsent, tells>>, alive' \subseteq alive
    PROVE  IInv'
<1>1. Tables'
  BY DEF IInv, Tables, Connected, Peer
<1>2. Wired'
  BY DEF IInv, Wired
<1>3. ASSUME NEW c \in Conn PROVE HandshakesOn(c)'
  BY DEF IInv, HandshakesOn, Is
<1>4. QED
  BY <1>1, <1>2, <1>3 DEF IInv

(* The middleman actor notes an answer or the end of a proxy: its end of a *)
(* proxy that ended before it was monitored is in its mailbox at once.     *)
LEMMA NotedSound ==
    ASSUME NEW n \in Node, NEW s, Sound(s, n), NEW e \in s.mail
    PROVE  LET t == Noted(s, e) IN
              /\ Sound(t, n) /\ t \in Broker /\ SameTables(s, t) /\ t.flushed = s.flushed
              /\ t.proxies = s.proxies /\ t.watchers = s.watchers /\ t.id = s.id /\ t.servers = s.servers
<1> DEFINE d == e.node
           t == Noted(s, e)
<1>1. s \in Broker /\ Tended(s) /\ s.mail \subseteq Event /\ e \in Event
  BY DEF Sound, Broker
<1>2. /\ d \in Node /\ e.what \in {"proxy", "nothing", "ended", "down"}
      /\ e = [what |-> e.what, node |-> d] /\ [what |-> "down", node |-> d] \in Event
  BY <1>1 DEF Event
<1>3. /\ t \in Broker /\ SameTables(s, t) /\ t.flushed = s.flushed
      /\ t.proxies = s.proxies /\ t.watchers = s.watchers /\ t.id = s.id /\ t.servers = s.servers
      /\ e.what = "down" =>
            t.cached = s.cached \ {d} /\ t.monitored = s.monitored /\ t.mail = s.mail \ {e}
      /\ e.what = "nothing" =>
            t.cached = s.cached /\ t.monitored = s.monitored /\ t.mail = s.mail \ {e}
      /\ e.what = "proxy" =>
            /\ t.cached = s.cached \cup {d} /\ t.monitored = s.monitored \cup {d}
            /\ t.mail = s.mail \ {e}
      /\ e.what = "ended" =>
            /\ t.cached = s.cached \cup {d} /\ t.monitored = s.monitored
            /\ t.mail = (s.mail \ {e}) \cup {[what |-> "down", node |-> d]}
  <2> HIDE DEF d
  <2>1. CASE e.what = "down"
    BY <1>1, <1>2, <2>1 DEF Noted, Broker, SameTables, d
  <2>2. CASE e.what = "nothing"
    BY <1>1, <1>2, <2>2 DEF Noted, Broker, SameTables, d
  <2>3. CASE e.what = "proxy"
    BY <1>1, <1>2, <2>3 DEF Noted, Broker, SameTables, d
  <2>4. CASE e.what = "ended"
    BY <1>1, <1>2, <2>4 DEF Noted, Broker, SameTables, d
  <2>5. QED
    BY <1>2, <2>1, <2>2, <2>3, <2>4
<1> HIDE DEF t, d
<1>4. Tended(t)
  <2>1. e.what = "proxy" => d \in s.proxies
    BY <1>1, <1>2 DEF Tended
  <2>2. t.monitored \subseteq t.proxies
    BY <1>1, <1>2, <1>3, <2>1 DEF Tended
  <2>3. ASSUME NEW x \in Node, NEW p, p = [what |-> "proxy", node |-> x], p \in t.mail
        PROVE  x \in t.proxies
    <3>1. p # [what |-> "down", node |-> d]
      BY <2>3
    <3>2. p \in s.mail
      BY <1>2, <1>3, <2>3, <3>1
    <3>3. QED
      BY <1>1, <1>3, <2>3, <3>2 DEF Tended
  <2>4. ASSUME NEW x \in t.cached, NEW p, p = [what |-> "down", node |-> x]
        PROVE  x \in t.monitored \/ p \in t.mail
    <3>1. p.what = "down" /\ p.node = x
      BY <2>4
    <3>2. CASE x \in s.cached
      <4>1. x \in s.monitored \/ p \in s.mail
        BY <1>1, <2>4, <3>2 DEF Tended
      <4>2. p = e => x = d /\ e.what = "down"
        BY <3>1 DEF d
      <4>3. QED
        BY <1>2, <1>3, <2>4, <4>1, <4>2
    <3>3. CASE x \notin s.cached
      BY <1>2, <1>3, <2>4, <3>3
    <3>4. QED
      BY <3>2, <3>3
  <2>5. QED
    BY <2>2, <2>3, <2>4 DEF Tended
<1>5. n \notin t.proxies \cup t.watchers
  BY <1>3 DEF Sound
<1>6. Sound(t, n)
  BY <1>3, <1>4, <1>5, SameTablesSound
<1>7. QED
  BY <1>3, <1>6 DEF t

LEMMA NoteIInv ==
    ASSUME IInv, NEW n \in Node, Note(n)
    PROVE  IInv'
<1>1. UNCHANGED <<alive, ends, up, lost, wire, unsent, tells>>
  BY DEF Note, network
<1>2. PICK e \in broker[n].mail : broker' = [broker EXCEPT ![n] = Noted(broker[n], e)]
  BY DEF Note
<1> DEFINE s == broker[n]
           t == Noted(s, e)
<1>3. Sound(s, n) /\ broker \in [Node -> Broker]
  BY DEF IInv, Tables
<1>4. /\ Sound(t, n) /\ t \in Broker /\ SameTables(s, t) /\ t.flushed = s.flushed
  BY <1>2, <1>3, NotedSound
<1>5. broker' = [broker EXCEPT ![n] = t]
  BY <1>2
<1> HIDE DEF t
<1>6. broker' \in [Node -> Broker] /\ \A x \in Node : broker'[x] = IF x = n THEN t ELSE broker[x]
  BY <1>3, <1>4, <1>5
<1>7. \A x \in Node : /\ broker'[x].byHdl = broker[x].byHdl /\ broker'[x].byNid = broker[x].byNid
                      /\ broker'[x].out = broker[x].out /\ broker'[x].flushed = broker[x].flushed
  BY <1>4, <1>6 DEF SameTables
<1>8. Tables'
  <2>1. ASSUME NEW x \in Node PROVE Sound(broker'[x], x) /\ Connected(broker[x], x, up)'
    <3>1. Sound(broker'[x], x)
      BY <1>4, <1>6 DEF IInv, Tables
    <3>2. Connected(broker[x], x, up)
      BY DEF IInv, Tables
    <3>3. QED
      BY <1>1, <1>7, <3>1, <3>2 DEF Connected, Peer
  <2>2. QED
    BY <2>1 DEF Tables
<1>9. Wired'
  <2>1. Wired
    BY DEF IInv
  <2>2. /\ ends' = ends /\ up' = up /\ wire' = wire /\ unsent' = unsent
        /\ \A x \in Node : broker'[x].byHdl = broker[x].byHdl
    BY <1>1, <1>7
  <2>3. QED
    BY <2>1, <2>2 DEF Wired
<1>10. ASSUME NEW c \in Conn PROVE HandshakesOn(c)'
  BY <1>1, <1>7 DEF IInv, HandshakesOn, Is
<1>11. QED
  BY <1>1, <1>6, <1>7, <1>8, <1>9, <1>10 DEF IInv

LEMMA NextIInv == IInv /\ [Next]_vars => IInv'
<1>. SUFFICES ASSUME IInv, [Next]_vars PROVE IInv'
  OBVIOUS
<1>1. ASSUME NEW n \in Node, BrokerStep(n) PROVE IInv'
  BY <1>1, ReceiveIInv, ClosedIInv, TellEndIInv DEF BrokerStep
<1>2. ASSUME NEW n \in Node, Die(n) PROVE IInv'
  <2>1. UNCHANGED <<broker, ends, up, wire, unsent, tells>> /\ alive' \subseteq alive
    BY <1>2 DEF Die, network
  <2>2. QED
    BY <2>1, QuietIInv
<1>3. CASE UNCHANGED vars
  <2>1. UNCHANGED <<broker, ends, up, wire, unsent, tells>> /\ alive' \subseteq alive
    BY <1>3 DEF vars, network
  <2>2. QED
    BY <2>1, QuietIInv
<1>4. QED
  BY <1>1, <1>2, <1>3, NoteIInv, ConnectIInv, TellIInv, LoseIInv DEF Next

(* The brokers' tables and the handshakes under way stay in step, whatever *)
(* the programs dial, the actors do and the network drops.                 *)
THEOREM BaspSafe == Spec => []IInv
<1>1. Init => IInv
  BY InitIInv
<1>2. IInv /\ [Next]_vars => IInv'
  BY NextIInv
<1>3. QED
  BY <1>1, <1>2, PTL DEF Spec

(* Every broker's record stays well formed, no node is its own proxy or    *)
(* indirect destination, and the middleman actor, which caches an endpoint *)
(* on a thread of its own, is or will be told of the end of its proxy.     *)
THEOREM BaspTyped == Spec => []TypeOK
<1>1. IInv => TypeOK
  <2>. SUFFICES ASSUME IInv PROVE TypeOK
    OBVIOUS
  <2>1. \A c \in Conn : /\ up[c] \subseteq Node /\ (up[c] # {} => c <= Len(ends))
                        /\ \A n \in Node : unsent[c][n] \in 0 .. Len(wire[c][n])
    <3>1. ASSUME NEW c \in Conn PROVE up[c] \subseteq Node /\ (up[c] # {} => c <= Len(ends))
      BY ConnIsOpen DEF IInv, Wired
    <3>2. ASSUME NEW c \in Conn, NEW n \in Node PROVE unsent[c][n] \in 0 .. Len(wire[c][n])
      <4>1. unsent[c][n] \in Nat /\ unsent[c][n] <= Len(wire[c][n]) /\ wire[c][n] \in Seq(Packet)
        BY DEF IInv, Wired
      <4>2. QED
        BY <4>1
    <3>3. QED
      BY <3>1, <3>2
  <2>2. ASSUME NEW n \in Node
        PROVE  /\ n \notin broker[n].proxies \cup broker[n].indirect
               /\ broker[n].proxies \cup broker[n].servers \cup broker[n].watchers \subseteq Node
               /\ broker[n].monitored \subseteq broker[n].proxies
               /\ \A d \in broker[n].cached :
                     d \in broker[n].monitored \/ [what |-> "down", node |-> d] \in broker[n].mail
    <3>1. Sound(broker[n], n)
      BY DEF IInv, Tables
    <3>2. QED
      BY <3>1 DEF Sound, Broker, Tended
  <2>3. QED
    BY <2>1, <2>2 DEF TypeOK, IInv
<1>2. QED
  BY <1>1, BaspSafe, PTL

(* The two tables of direct routes are each other's inverse, each entry is *)
(* a connection its node still holds and that leads there, and no node is  *)
(* both a direct and an indirect destination, through handshakes that      *)
(* cross, second connections and losses the two ends notice at different   *)
(* times.                                                                  *)
THEOREM BaspTablesAgree == Spec => []TablesAgree
<1>1. IInv => TablesAgree
  <2>. SUFFICES ASSUME IInv, NEW n \in Node
        PROVE  /\ \A c \in Conn : broker[n].byHdl[c] # None => broker[n].byNid[broker[n].byHdl[c]] = c
               /\ \A d \in Node : broker[n].byNid[d] # None =>
                     /\ broker[n].byHdl[broker[n].byNid[d]] = d
                     /\ d \notin broker[n].indirect /\ broker[n].hops[d] = {}
                     /\ n \in up[broker[n].byNid[d]] /\ Peer(broker[n].byNid[d], n) = d
               /\ \A d \in Node : broker[n].hops[d] # {} => d \in broker[n].indirect
    BY DEF TablesAgree
  <2>1. Sound(broker[n], n) /\ Connected(broker[n], n, up)
    BY DEF IInv, Tables
  <2>2. QED
    BY <2>1 DEF Sound, Connected
<1>2. QED
  BY <1>1, BaspSafe, PTL


-----------------------------------------------------------------------------
(* The end of an actor reaches every proxy, with at most three nodes, no   *)
(* losses and nobody dialled by whom it has dialled.  B stands for the     *)
(* brokers, F for what is on its way on each connection and U for who      *)
(* holds them, in the middle of a handler too.                             *)

Calm == Cardinality(Node) <= 3 /\ lost = {} /\ ~Crossed

Direct(B, n, d) == B[n].byNid[d] # None
Line(B, n, d, c) == B[n].byNid[d] = c
Knows(B, n, d) == Direct(B, n, d) \/ B[n].hops[d] # {}

Says(m, type, src, dst) == m.type = type /\ m.src = src /\ m.dst = dst
Queued(q, type, src, dst) == \E j \in DOMAIN q : Says(q[j], type, src, dst)
Ahead(q, i, type, src, dst) == \E j \in DOMAIN q : j < i /\ Says(q[j], type, src, dst)
InFlight(F, U, type, src, dst) == \E c \in Conn : \E y \in U[c] : Queued(F[c][y], type, src, dst)
Waiting(F, type, src, dst) == \E c \in Conn : \E y \in Node : Queued(F[c][y], type, src, dst)

(* A node is a relay to another only if both have direct routes; a direct  *)
(* route is held by both ends, its client names the server by it, its      *)
(* server was told of it by the client; and whoever has introduced itself  *)
(* to a node it cannot reach has been dialled by the third.                *)
Roads(B, U) ==
    /\ \A n, d \in Node : n # d =>
          /\ \A h \in B[n].hops[d] : h \in Node \ {n, d} /\ Direct(B, n, h) /\ Direct(B, h, d)
          /\ d \in B[n].servers =>
                Knows(B, n, d) \/ \E i \in DOMAIN ends : ends[i][2] = n /\ ends[i][1] \notin {n, d}
    /\ \A n, d \in Node, c \in Conn :
          /\ Line(B, n, d, c) => d \in U[c] /\ IF n = ends[c][1] THEN B[n].id[c] = d ELSE Line(B, d, n, c)
          /\ B[n].id[c] = d => Line(B, n, d, c) /\ n = ends[c][1]
    /\ \A c \in Conn : c <= Len(ends) /\ ends[c][1] \in U[c] => ends[c][2] \in U[c]

(* When m, at place i of what travels to y on c, is read as an             *)
(* announcement, its receiver can answer: something that makes the sender  *)
(* known to it is ahead, on the same connection or the next.               *)
Introduced(B, F, c, y, i, m) ==
    \/ Knows(B, m.dst, m.src)
    \/ m.dst = y /\ \E type \in {"client", "spawn"} : Ahead(F[c][y], i, type, m.src, y)
    \/ /\ m.dst # y /\ Direct(B, y, m.dst)
       /\ \/ Ahead(F[c][y], i, "spawn", m.src, m.dst)
          \/ \E e \in Conn : Line(B, y, m.dst, e) /\ Queued(F[e][m.dst], "spawn", m.src, m.dst)

(* What node p may write to its neighbour y that is not an announcement:   *)
(* its own messages or those of a neighbour, for y or a neighbour of y.    *)
Fit(B, p, y, m) ==
    /\ Knows(B, m.src, m.dst)
    /\ m.dst # y => m.src = p /\ Direct(B, y, m.dst)
    /\ m.src # p => Direct(B, p, m.src)
    /\ m.type = "dispatch" =>
          m.about # m.dst /\ (m.dst = y /\ m.about \notin {y, p} => Knows(B, p, m.about))

(* A message on a direct route of p to y, which y has too or is told of    *)
(* before it reads the message.                                            *)
Posted(B, F, c, p, y, i, m) ==
    /\ Line(B, p, y, c)
    /\ Line(B, y, p, c) \/ Ahead(F[c][y], i, "client", p, y)
    /\ m.dst # p /\ (m.dst # y => Knows(B, y, m.dst))
    /\ IF m.type = "announce" THEN Introduced(B, F, c, y, i, m) ELSE Fit(B, p, y, m)

(* Message m from p, at place i of what travels to y on c.  On a connection *)
(* closed in its handshake there is at most an announcement of the client's. *)
Letter(B, F, U, c, p, y, i, m) ==
    /\ m.type = "client" => Says(m, "client", p, y) /\ Line(B, p, y, c)
    /\ m.type \in Routed =>
          \/ p \notin U[c] /\ Says(m, "announce", p, y) /\ Knows(B, y, p)
          \/ Posted(B, F, c, p, y, i, m)

Mail(B, F, U) ==
    \A c \in Conn : \A y \in U[c] : \A i \in DOMAIN F[c][y] :
        Letter(B, F, U, c, Peer(c, y), y, i, F[c][y][i])

(* The server of a direct route has it too or is about to be told.         *)
Answered(B, F) ==
    \A k, s \in Node, c \in Conn :
        Line(B, k, s, c) /\ k = ends[c][1] => Line(B, s, k, c) \/ Queued(F[c][s], "client", k, s)

(* Whom a node knows it has a proxy for or is known to, whom it watches    *)
(* for or has a proxy of it knows, and each proxy is watched for, to be, or *)
(* has an announcement that nobody will read.                              *)
Ties(B, F, U) ==
    \A n, d \in Node : n # d =>
        /\ Knows(B, n, d) => d \in B[n].proxies \/ Knows(B, d, n)
        /\ d \in B[n].proxies \cup B[n].watchers => Knows(B, n, d)
        /\ d \in B[n].proxies =>
              \/ n \in B[d].watchers
              \/ Waiting(F, "announce", n, d) \/ InFlight(F, U, "kill", d, n)

Good(B, F, U) == Roads(B, U) /\ Mail(B, F, U) /\ Answered(B, F) /\ Ties(B, F, U)

(* From B to C no direct route is lost and nobody forgotten.               *)
Mono(B, C) ==
    \A n, d \in Node :
        /\ Direct(B, n, d) => Direct(C, n, d)
        /\ Knows(B, n, d) => Knows(C, n, d)
        /\ \A c \in Conn : Line(B, n, d, c) => Line(C, n, d, c)

(* From F to G messages are added.                                         *)
Grown(F, G) ==
    \A c \in Conn, y \in Node :
        DOMAIN F[c][y] \subseteq DOMAIN G[c][y] /\ \A i \in DOMAIN F[c][y] : G[c][y][i] = F[c][y][i]

LEMMA ThirdIsOne ==
    ASSUME Cardinality(Node) <= 3, NEW a \in Node, NEW b \in Node, a # b,
           NEW x \in Node \ {a, b}, NEW y \in Node \ {a, b}
    PROVE  x = y
<1> SUFFICES ASSUME x # y PROVE FALSE
  OBVIOUS
<1>1. IsFiniteSet({}) /\ Cardinality({}) = 0
  BY FS_EmptySet
<1>2. IsFiniteSet({a}) /\ Cardinality({a}) = 1
  BY FS_Singleton
<1>3. IsFiniteSet({a} \cup {b}) /\ Cardinality({a} \cup {b}) = 2
  BY <1>2, FS_AddElement
<1>4. IsFiniteSet({a} \cup {b} \cup {x}) /\ Cardinality({a} \cup {b} \cup {x}) = 3
  <2>1. x \notin {a} \cup {b}
    OBVIOUS
  <2>2. QED
    BY <1>3, <2>1, FS_AddElement
<1>5. Cardinality({a} \cup {b} \cup {x} \cup {y}) = 4
  <2> DEFINE three == {a} \cup {b} \cup {x}
  <2>1. IsFiniteSet(three) /\ Cardinality(three) = 3
    BY <1>4
  <2>2. y \notin three
    OBVIOUS
  <2> HIDE DEF three
  <2>3. Cardinality(three \cup {y}) = 4
    BY <2>1, <2>2, FS_AddElement
  <2>4. QED
    BY <2>3 DEF three
<1>6. {a} \cup {b} \cup {x} \cup {y} \in SUBSET Node /\ IsFiniteSet(Node)
  BY BaspAssumption
<1>7. Cardinality({a} \cup {b} \cup {x} \cup {y}) <= Cardinality(Node)
  BY <1>6, FS_Subset
<1>8. Cardinality(Node) \in Nat
  BY <1>6, FS_CardinalityType
<1>9. QED
  BY <1>5, <1>7, <1>8

LEMMA AheadGrown ==
    ASSUME NEW F, NEW G, Grown(F, G), NEW c \in Conn, NEW y \in Node, NEW type, NEW src, NEW dst
    PROVE  /\ Queued(F[c][y], type, src, dst) => Queued(G[c][y], type, src, dst)
           /\ \A i : Ahead(F[c][y], i, type, src, dst) => Ahead(G[c][y], i, type, src, dst)
BY DEF Grown, Queued, Ahead

LEMMA InFlightGrown ==
    ASSUME NEW F, NEW G, Grown(F, G), NEW U \in [Conn -> SUBSET Node], NEW type, NEW src, NEW dst,
           InFlight(F, U, type, src, dst)
    PROVE  InFlight(G, U, type, src, dst)
BY AheadGrown DEF InFlight

LEMMA WaitingGrown ==
    ASSUME NEW F, NEW G, Grown(F, G), NEW type, NEW src, NEW dst, Waiting(F, type, src, dst)
    PROVE  Waiting(G, type, src, dst)
BY AheadGrown DEF Waiting

LEMMA InFlightWaits ==
    ASSUME NEW F, NEW U \in [Conn -> SUBSET Node], NEW type, NEW src, NEW dst,
           InFlight(F, U, type, src, dst)
    PROVE  Waiting(F, type, src, dst)
BY DEF InFlight, Waiting

(* The brokers are sound and lead over connections that are held, by two   *)
(* ends each, and what travels is a handshake or meant for an actor.       *)
Framed(B, F, U) ==
    /\ B \in [Node -> Broker] /\ F \in [Conn -> [Node -> Seq(Packet)]] /\ U \in [Conn -> SUBSET Node]
    /\ \A n \in Node : Sound(B[n], n) /\ Connected(B[n], n, U)
    /\ \A c \in Conn, y \in Node : \A i \in DOMAIN F[c][y] : Plain(F[c][y][i]) \/ Greeting(F[c][y][i])
    /\ \A c \in Conn : U[c] # {} =>
          /\ c \in 1 .. Len(ends) /\ ends[c][1] \in Node /\ ends[c][2] \in Node
          /\ ends[c][1] # ends[c][2] /\ U[c] \subseteq {ends[c][1], ends[c][2]}

LEMMA PeerFacts ==
    ASSUME NEW B, NEW F, NEW U, Framed(B, F, U), NEW c \in Conn, NEW y \in U[c]
    PROVE  /\ y \in Node /\ Peer(c, y) \in Node /\ Peer(c, y) # y /\ Peer(c, Peer(c, y)) = y
           /\ {y, Peer(c, y)} = {ends[c][1], ends[c][2]}
<1>1. U[c] \subseteq Node /\ U[c] # {}
  BY DEF Framed
<1>2. /\ ends[c][1] \in Node /\ ends[c][2] \in Node
      /\ ends[c][1] # ends[c][2] /\ y \in {ends[c][1], ends[c][2]}
  BY <1>1 DEF Framed
<1>3. QED
  BY <1>1, <1>2 DEF Peer

LEMMA IntroducedKept ==
    ASSUME NEW B, NEW F, NEW C, NEW G, Mono(B, C), Grown(F, G),
           NEW c \in Conn, NEW y \in Node, NEW i, NEW m, Plain(m), Introduced(B, F, c, y, i, m)
    PROVE  Introduced(C, G, c, y, i, m)
<1>1. m.src \in Node /\ m.dst \in Node
  BY DEF Plain
<1>2. \A type : Ahead(F[c][y], i, type, m.src, m.dst) => Ahead(G[c][y], i, type, m.src, m.dst)
  BY AheadGrown
<1>3. \A e \in Conn : Queued(F[e][m.dst], "spawn", m.src, m.dst) => Queued(G[e][m.dst], "spawn", m.src, m.dst)
  BY <1>1, AheadGrown
<1>4. /\ Knows(B, m.dst, m.src) => Knows(C, m.dst, m.src)
      /\ Direct(B, y, m.dst) => Direct(C, y, m.dst)
      /\ \A e \in Conn : Line(B, y, m.dst, e) => Line(C, y, m.dst, e)
  BY <1>1 DEF Mono
<1>5. QED
  BY <1>2, <1>3, <1>4 DEF Introduced

LEMMA FitKept ==
    ASSUME NEW B, NEW C, Mono(B, C), NEW p \in Node, NEW y \in Node, NEW m, Plain(m), Fit(B, p, y, m)
    PROVE  Fit(C, p, y, m)
<1>1. m.src \in Node /\ m.dst \in Node /\ (m.type = "dispatch" => m.about \in Node)
  BY DEF Plain
<1>2. \A a, b \in Node : (Knows(B, a, b) => Knows(C, a, b)) /\ (Direct(B, a, b) => Direct(C, a, b))
  BY DEF Mono
<1>3. QED
  BY <1>1, <1>2 DEF Fit

LEMMA LetterKept ==
    ASSUME NEW B, NEW F, NEW U, NEW C, NEW G, Mono(B, C), Grown(F, G),
           NEW c \in Conn, NEW p \in Node, NEW y \in Node, NEW i, NEW m,
           m.type \in Routed => Plain(m),
           Letter(B, F, U, c, p, y, i, m)
    PROVE  Letter(C, G, U, c, p, y, i, m)
<1>1. /\ Knows(B, y, p) => Knows(C, y, p)
      /\ Line(B, p, y, c) => Line(C, p, y, c)
      /\ Line(B, y, p, c) => Line(C, y, p, c)
  BY DEF Mono
<1>2. ASSUME Posted(B, F, c, p, y, i, m), m.type \in Routed PROVE Posted(C, G, c, p, y, i, m)
  <2>1. m.dst \in Node /\ Plain(m)
    BY <1>2 DEF Plain
  <2>2. Ahead(F[c][y], i, "client", p, y) => Ahead(G[c][y], i, "client", p, y)
    BY AheadGrown
  <2>3. IF m.type = "announce" THEN Introduced(C, G, c, y, i, m) ELSE Fit(C, p, y, m)
    BY <1>2, <2>1, IntroducedKept, FitKept DEF Posted
  <2>4. Knows(B, y, m.dst) => Knows(C, y, m.dst)
    BY <2>1 DEF Mono
  <2>5. QED
    BY <1>1, <1>2, <2>2, <2>3, <2>4 DEF Posted
<1>3. QED
  BY <1>1, <1>2 DEF Letter

(* Whatever has been written stays good when brokers learn more and more   *)
(* is written.                                                             *)
LEMMA MailKept ==
    ASSUME NEW B, NEW F, NEW U, Framed(B, F, U), Mail(B, F, U), NEW C, NEW G, Mono(B, C), Grown(F, G),
           NEW c \in Conn, NEW y \in U[c], NEW i \in DOMAIN F[c][y]
    PROVE  Letter(C, G, U, c, Peer(c, y), y, i, G[c][y][i])
<1> DEFINE p == Peer(c, y)
           m == F[c][y][i]
<1>1. p \in Node /\ y \in Node
  BY PeerFacts
<1>2. Letter(B, F, U, c, p, y, i, m)
  BY DEF Mail
<1>3. m.type \in Routed => Plain(m)
  BY <1>1 DEF Framed, Greeting, Routed
<1>4. G[c][y][i] = m
  BY <1>1 DEF Grown
<1> HIDE DEF p, m
<1>5. Letter(C, G, U, c, p, y, i, m)
  BY <1>1, <1>2, <1>3, LetterKept
<1>6. QED
  BY <1>4, <1>5 DEF p

LEMMA DirectLine ==
    ASSUME NEW B, B \in [Node -> Broker], NEW n \in Node, NEW d \in Node
    PROVE  /\ Direct(B, n, d) => \E c \in Conn : Line(B, n, d, c)
           /\ \A c \in Conn : Line(B, n, d, c) => Direct(B, n, d) /\ Knows(B, n, d)
<1>1. B[n].byNid[d] \in Maybe(Conn)
  BY DEF Broker, Maybe
<1>2. QED
  BY <1>1, BaspAssumption DEF Direct, Line, Knows, Maybe, Conn

Stretches(c, n, d) == <<ends[c][1], ends[c][2]>> \in {<<n, d>>, <<d, n>>}

LEMMA LineFacts ==
    ASSUME NEW B, NEW F, NEW U, Framed(B, F, U), Roads(B, U),
           NEW n \in Node, NEW d \in Node, NEW c \in Conn, Line(B, n, d, c)
    PROVE  /\ n # d /\ n \in U[c] /\ d \in U[c] /\ U[c] = {n, d} /\ c \in 1 .. Len(ends)
           /\ Peer(c, n) = d /\ Peer(c, d) = n /\ B[n].byHdl[c] = d
           /\ {n, d} = {ends[c][1], ends[c][2]} /\ ends[c][1] # ends[c][2] /\ Stretches(c, n, d)
<1>1. B[n].byNid[d] = c /\ B[n].byNid[d] # None
  BY BaspAssumption DEF Line, Conn
<1>2. Connected(B[n], n, U) /\ Sound(B[n], n)
  BY DEF Framed
<1>3. n \in U[c] /\ Peer(c, n) = d
  BY <1>1, <1>2 DEF Connected
<1>4. d \in U[c]
  BY DEF Roads
<1>5. n # d /\ Peer(c, d) = n /\ {n, d} = {ends[c][1], ends[c][2]}
  BY <1>3, PeerFacts
<1>6. U[c] \subseteq {ends[c][1], ends[c][2]} /\ c \in 1 .. Len(ends) /\ ends[c][1] # ends[c][2]
  BY <1>3 DEF Framed
<1>7. B[n].byHdl[c] = d
  BY <1>1, <1>2 DEF Sound
<1>8. U[c] = {n, d}
  BY <1>3, <1>4, <1>5, <1>6
<1>9. Stretches(c, n, d)
  BY <1>5, <1>6 DEF Stretches
<1>10. QED
  BY <1>3, <1>4, <1>5, <1>6, <1>7, <1>8, <1>9

(* Message m is written to y on c. *)
Appends(F, G, c, y, m) == G = [F EXCEPT ![c][y] = Append(F[c][y], m)]

Appended(F, G, c, y, m) ==
    /\ G \in [Conn -> [Node -> Seq(Packet)]] /\ Grown(F, G)
    /\ \A e \in Conn, x \in Node : e # c \/ x # y => G[e][x] = F[e][x]
    /\ DOMAIN F[c][y] = 1 .. Len(F[c][y]) /\ Len(F[c][y]) \in Nat
    /\ DOMAIN G[c][y] = 1 .. Len(F[c][y]) + 1
    /\ G[c][y][Len(F[c][y]) + 1] = m
    /\ \A i \in 1 .. Len(F[c][y]) : G[c][y][i] = F[c][y][i]

LEMMA AppendsFacts ==
    ASSUME NEW F \in [Conn -> [Node -> Seq(Packet)]], NEW c \in Conn, NEW y \in Node, NEW m \in Packet,
           NEW G, Appends(F, G, c, y, m)
    PROVE  Appended(F, G, c, y, m)
<1> DEFINE q == F[c][y]
           r == Append(q, m)
<1>1. q \in Seq(Packet)
  OBVIOUS
<1>2. G[c] = [F[c] EXCEPT ![y] = r] /\ \A e \in Conn \ {c} : G[e] = F[e]
  BY DEF Appends
<1>3. G[c][y] = r /\ \A x \in Node \ {y} : G[c][x] = F[c][x]
  BY <1>2
<1> HIDE DEF q
<1>4. /\ r \in Seq(Packet) /\ DOMAIN q = 1 .. Len(q) /\ Len(q) \in Nat /\ DOMAIN r = 1 .. Len(q) + 1
      /\ r[Len(q) + 1] = m /\ \A i \in 1 .. Len(q) : r[i] = q[i]
  BY <1>1
<1> HIDE DEF r
<1>5. G \in [Conn -> [Node -> Seq(Packet)]]
  <2>1. G = [F EXCEPT ![c] = [F[c] EXCEPT ![y] = r]]
    BY DEF Appends, q, r
  <2>2. [F[c] EXCEPT ![y] = r] \in [Node -> Seq(Packet)]
    BY <1>4
  <2>3. QED
    BY <2>1, <2>2
<1>6. \A e \in Conn, x \in Node : e # c \/ x # y => G[e][x] = F[e][x]
  BY <1>2, <1>3
<1>7. ASSUME NEW e \in Conn, NEW x \in Node
      PROVE  DOMAIN F[e][x] \subseteq DOMAIN G[e][x] /\ \A i \in DOMAIN F[e][x] : G[e][x][i] = F[e][x][i]
  <2>1. CASE e = c /\ x = y
    <3>1. DOMAIN q \subseteq DOMAIN r /\ \A i \in DOMAIN q : r[i] = q[i]
      BY <1>4
    <3>2. F[e][x] = q /\ G[e][x] = r
      BY <1>3, <2>1 DEF q
    <3>3. QED
      BY <3>1, <3>2
  <2>2. CASE ~(e = c /\ x = y)
    BY <1>6, <2>2
  <2>3. QED
    BY <2>1, <2>2
<1>8. QED
  BY <1>3, <1>4, <1>5, <1>6, <1>7 DEF q, Grown, Appended

(* A broker that writes to a neighbour what it may keeps all that is said  *)
(* of the mail.                                                            *)
LEMMA Posting ==
    ASSUME NEW B, NEW F, NEW U, Framed(B, F, U), Roads(B, U), Mail(B, F, U), Answered(B, F),
           NEW p \in Node, NEW y \in Node, NEW c \in Conn, Line(B, p, y, c),
           NEW m, Plain(m), NEW G, Appends(F, G, c, y, m),
           m.dst # p, m.dst # y => Knows(B, y, m.dst),
           IF m.type = "announce" THEN Introduced(B, G, c, y, Len(F[c][y]) + 1, m) ELSE Fit(B, p, y, m)
    PROVE  /\ Framed(B, G, U) /\ Mail(B, G, U) /\ Answered(B, G) /\ Grown(F, G)
           /\ InFlight(G, U, m.type, m.src, m.dst) /\ Queued(G[c][y], m.type, m.src, m.dst)
<1> DEFINE l == Len(F[c][y])
           k == l + 1
<1>1. F \in [Conn -> [Node -> Seq(Packet)]] /\ m \in Packet
  BY DEF Framed, Plain, Packet, Types, Maybe
<1>2. /\ G \in [Conn -> [Node -> Seq(Packet)]] /\ Grown(F, G)
      /\ \A e \in Conn, x \in Node : e # c \/ x # y => G[e][x] = F[e][x]
      /\ DOMAIN F[c][y] = 1 .. l /\ l \in Nat
      /\ DOMAIN G[c][y] = 1 .. k
      /\ G[c][y][k] = m
      /\ \A i \in 1 .. l : G[c][y][i] = F[c][y][i]
  <2>1. Appended(F, G, c, y, m)
    BY <1>1, AppendsFacts
  <2>2. QED
    BY <2>1 DEF Appended
<1> HIDE DEF l
<1>3. ASSUME NEW e \in Conn, NEW x \in Node, NEW i \in DOMAIN G[e][x]
      PROVE  \/ i \in DOMAIN F[e][x] /\ G[e][x][i] = F[e][x][i]
             \/ e = c /\ x = y /\ i = k /\ G[e][x][i] = m
  <2>1. CASE e # c \/ x # y
    BY <1>2, <1>3, <2>1
  <2>2. CASE e = c /\ x = y /\ i # k
    BY <1>2, <1>3, <2>2
  <2>3. CASE e = c /\ x = y /\ i = k
    BY <1>2, <2>3
  <2>4. QED
    BY <2>1, <2>2, <2>3
<1>4. Framed(B, G, U)
  <2>1. \A e \in Conn, x \in Node : \A i \in DOMAIN G[e][x] : Plain(G[e][x][i]) \/ Greeting(G[e][x][i])
    BY <1>3 DEF Framed
  <2>2. QED
    BY <1>2, <2>1 DEF Framed
<1>5. Peer(c, y) = p /\ y \in U[c] /\ {p, y} = {ends[c][1], ends[c][2]} /\ p # y /\ ends[c][1] # ends[c][2]
  BY LineFacts
<1>6. Mono(B, B)
  BY DEF Mono
<1>7. Line(B, y, p, c) \/ Ahead(G[c][y], k, "client", p, y)
  <2>1. CASE p = ends[c][1]
    <3>1. Line(B, y, p, c) \/ Queued(F[c][y], "client", p, y)
      BY <2>1 DEF Answered
    <3>2. ASSUME Queued(F[c][y], "client", p, y) PROVE Ahead(G[c][y], k, "client", p, y)
      <4>1. PICK j \in DOMAIN F[c][y] : Says(F[c][y][j], "client", p, y)
        BY <3>2 DEF Queued
      <4>2. j \in DOMAIN G[c][y] /\ j < k /\ G[c][y][j] = F[c][y][j]
        BY <1>2, <4>1
      <4>3. QED
        BY <4>1, <4>2 DEF Ahead
    <3>3. QED
      BY <3>1, <3>2
  <2>2. CASE p # ends[c][1]
    BY <2>2 DEF Roads
  <2>3. QED
    BY <2>1, <2>2
<1>8. Letter(B, G, U, c, p, y, k, m)
  <2>1. m.type # "client"
    BY DEF Plain, Routed
  <2>2. Posted(B, G, c, p, y, k, m)
    BY <1>7 DEF Posted, l
  <2>3. QED
    BY <2>1, <2>2 DEF Letter
<1>9. Mail(B, G, U)
  <2>1. ASSUME NEW e \in Conn, NEW x \in U[e], NEW i \in DOMAIN G[e][x]
        PROVE  Letter(B, G, U, e, Peer(e, x), x, i, G[e][x][i])
    <3>1. x \in Node
      BY PeerFacts
    <3>2. CASE i \in DOMAIN F[e][x] /\ G[e][x][i] = F[e][x][i]
      BY <1>2, <1>6, <3>2, MailKept
    <3>3. CASE e = c /\ x = y /\ i = k /\ G[e][x][i] = m
      BY <1>5, <1>8, <3>3
    <3>4. QED
      BY <1>3, <2>1, <3>1, <3>2, <3>3
  <2>2. QED
    BY <2>1 DEF Mail
<1>10. Answered(B, G)
  <2>1. \A e \in Conn, a, b \in Node : Queued(F[e][b], "client", a, b) => Queued(G[e][b], "client", a, b)
    BY <1>2, AheadGrown
  <2>2. QED
    BY <2>1 DEF Answered
<1>11. InFlight(G, U, m.type, m.src, m.dst) /\ Queued(G[c][y], m.type, m.src, m.dst)
  <2>1. Queued(G[c][y], m.type, m.src, m.dst)
    <3>1. k \in DOMAIN G[c][y]
      BY <1>2
    <3>2. QED
      BY <1>2, <3>1 DEF Queued, Says
  <2>2. QED
    BY <1>5, <2>1 DEF InFlight
<1>12. QED
  BY <1>2, <1>4, <1>9, <1>10, <1>11

(* Where a message for d goes: to d itself or to a relay that has a direct *)
(* route to it.  No relay is dropped on the way.                           *)
LEMMA RouteFacts ==
    ASSUME NEW B, NEW F, NEW U, Framed(B, F, U), Roads(B, U),
           NEW n \in Node, NEW d \in Node, n # d
    PROVE  /\ Looked(B[n], d) = B[n]
           /\ ~Knows(B, n, d) => Route(B[n], d) = None
           /\ Knows(B, n, d) =>
                \E y \in Node : \E c \in Conn :
                   /\ Route(B[n], d) = c /\ Line(B, n, y, c)
                   /\ y = d \/ (~Direct(B, n, d) /\ y \notin {n, d} /\ Direct(B, y, d))
<1> DEFINE s == B[n]
<1>1. s \in Broker /\ s.hops \in [Node -> SUBSET Maybe(Node)] /\ B \in [Node -> Broker]
  BY DEF Framed, Broker
<1>2. \A h \in s.hops[d] : h \in Node \ {n, d} /\ s.byNid[h] # None /\ Direct(B, h, d)
  BY DEF Roads, Direct
<1>3. Usable(s, d) = s.hops[d]
  BY <1>2 DEF Usable
<1>4. Looked(s, d) = s
  <2>1. [s.hops EXCEPT ![d] = s.hops[d]] = s.hops
    BY <1>1
  <2>2. [s EXCEPT !.hops[d] = s.hops[d]] = [s EXCEPT !.hops = s.hops]
    BY <2>1
  <2>3. [s EXCEPT !.hops = s.hops] = s
    BY <1>1 DEF Broker
  <2>4. QED
    BY <1>3, <2>2, <2>3 DEF Looked
<1>5. CASE s.byNid[d] # None
  <2>1. Direct(B, n, d) /\ Knows(B, n, d) /\ Route(s, d) = s.byNid[d]
    BY <1>5 DEF Direct, Knows, Route
  <2>2. PICK c \in Conn : Line(B, n, d, c)
    BY <1>1, <2>1, DirectLine
  <2>3. s.byNid[d] = c
    BY <2>2 DEF Line
  <2>4. QED
    BY <1>4, <2>1, <2>2, <2>3
<1>6. CASE s.byNid[d] = None /\ s.hops[d] = {}
  BY <1>3, <1>4, <1>6 DEF Knows, Direct, Route
<1>7. CASE s.byNid[d] = None /\ s.hops[d] # {}
  <2> DEFINE h == CHOOSE h \in Usable(s, d) : TRUE
  <2>1. h \in s.hops[d]
    BY <1>3, <1>7
  <2>2. Route(s, d) = s.byNid[h]
    BY <1>3, <1>7 DEF Route
  <2> HIDE DEF h
  <2>3. h \in Node \ {n, d} /\ Direct(B, h, d) /\ Direct(B, n, h)
    BY <1>2, <2>1 DEF Direct
  <2>4. PICK c \in Conn : Line(B, n, h, c)
    BY <1>1, <2>3, DirectLine
  <2>5. Route(s, d) = c /\ ~Direct(B, n, d) /\ Knows(B, n, d)
    BY <1>7, <2>2, <2>4 DEF Line, Direct, Knows
  <2>6. QED
    BY <1>4, <2>3, <2>4, <2>5
<1>8. QED
  BY <1>5, <1>6, <1>7

-----------------------------------------------------------------------------
(* In the middle of a handler: broker n is in state s, and what it has     *)
(* written so far counts as under way.                                     *)

With(n, s) == [broker EXCEPT ![n] = s]

Sent(n, s) ==
    [c \in Conn |-> [y \in Node |->
        IF y \in up[c] \ {n} THEN wire[c][y] \o s.out[c] ELSE wire[c][y]]]

Fair(n, s) ==
    /\ Framed(With(n, s), Sent(n, s), up) /\ Roads(With(n, s), up)
    /\ Mail(With(n, s), Sent(n, s), up) /\ Answered(With(n, s), Sent(n, s))

Well(n, s) == Fair(n, s) /\ Ties(With(n, s), Sent(n, s), up)

(* From B to C all is the same but what nothing here depends on.           *)
Alike(s, t) ==
    /\ t.byHdl = s.byHdl /\ t.byNid = s.byNid /\ t.hops = s.hops /\ t.id = s.id
    /\ t.servers = s.servers /\ t.proxies = s.proxies /\ t.watchers = s.watchers

Like(B, C) == \A x \in Node : Alike(B[x], C[x])

LEMMA LikeSame ==
    ASSUME NEW B, NEW C, Like(B, C)
    PROVE  /\ \A a, b \in Node : /\ Direct(C, a, b) = Direct(B, a, b) /\ Knows(C, a, b) = Knows(B, a, b)
                                 /\ \A c \in Conn : Line(C, a, b, c) = Line(B, a, b, c)
           /\ Mono(B, C) /\ Mono(C, B)
<1>1. \A a, b \in Node : /\ Direct(C, a, b) = Direct(B, a, b) /\ Knows(C, a, b) = Knows(B, a, b)
                         /\ \A c \in Conn : Line(C, a, b, c) = Line(B, a, b, c)
  BY DEF Like, Alike, Direct, Knows, Line
<1>2. QED
  BY <1>1 DEF Mono

LEMMA LikeFair ==
    ASSUME NEW B, NEW C, NEW F, NEW U, Framed(B, F, U), Like(B, C),
           Roads(B, U), Mail(B, F, U), Answered(B, F)
    PROVE  Roads(C, U) /\ Mail(C, F, U) /\ Answered(C, F)
<1>1. /\ \A a, b \in Node : /\ Direct(C, a, b) = Direct(B, a, b) /\ Knows(C, a, b) = Knows(B, a, b)
                            /\ \A c \in Conn : Line(C, a, b, c) = Line(B, a, b, c)
      /\ Mono(B, C)
  BY LikeSame
<1>2. \A x \in Node : C[x].hops = B[x].hops /\ C[x].id = B[x].id /\ C[x].servers = B[x].servers
  BY DEF Like, Alike
<1>3. Roads(C, U)
  BY <1>1, <1>2 DEF Roads
<1>4. Grown(F, F)
  BY DEF Grown
<1>5. Mail(C, F, U)
  BY <1>1, <1>4, MailKept DEF Mail
<1>6. Answered(C, F)
  BY <1>1 DEF Answered
<1>7. QED
  BY <1>3, <1>5, <1>6

LEMMA LikeTies ==
    ASSUME NEW B, NEW C, NEW F, NEW G, NEW U \in [Conn -> SUBSET Node], Like(B, C), Grown(F, G),
           Ties(B, F, U)
    PROVE  Ties(C, G, U)
<1>1. \A a, b \in Node : Knows(C, a, b) = Knows(B, a, b)
  BY LikeSame
<1>2. \A x \in Node : C[x].proxies = B[x].proxies /\ C[x].watchers = B[x].watchers
  BY DEF Like, Alike
<1>3. \A type, a, b : /\ InFlight(F, U, type, a, b) => InFlight(G, U, type, a, b)
                      /\ Waiting(F, type, a, b) => Waiting(G, type, a, b)
  BY InFlightGrown, WaitingGrown
<1>4. QED
  BY <1>1, <1>2, <1>3 DEF Ties

(* What is written from s to t on the connection to y, when that is all.   *)
LEMMA SentAppends ==
    ASSUME NEW n \in Node, NEW y \in Node, NEW c \in Conn, up[c] = {n, y}, n # y,
           NEW s, s.out \in [Conn -> Seq(Packet)], NEW t, NEW m \in Packet,
           t.out = [s.out EXCEPT ![c] = Append(s.out[c], m)],
           wire \in [Conn -> [Node -> Seq(Packet)]]
    PROVE  Appends(Sent(n, s), Sent(n, t), c, y, m)
<1> DEFINE F == Sent(n, s)
           G == Sent(n, t)
           H == [F EXCEPT ![c][y] = Append(F[c][y], m)]
<1>1. \A e \in Conn, x \in Node :
          /\ F[e][x] = IF x \in up[e] \ {n} THEN wire[e][x] \o s.out[e] ELSE wire[e][x]
          /\ G[e][x] = IF x \in up[e] \ {n} THEN wire[e][x] \o t.out[e] ELSE wire[e][x]
  BY DEF Sent
<1>2. /\ F = [e \in Conn |-> [x \in Node |-> F[e][x]]]
      /\ G = [e \in Conn |-> [x \in Node |-> G[e][x]]]
  BY DEF Sent
<1>3. /\ \A e \in Conn \ {c} : t.out[e] = s.out[e]
      /\ t.out[c] = Append(s.out[c], m)
  OBVIOUS
<1>4. G[c][y] = Append(F[c][y], m)
  <2>1. /\ F[c][y] = wire[c][y] \o s.out[c]
        /\ G[c][y] = wire[c][y] \o Append(s.out[c], m)
    <3> HIDE DEF F, G
    <3>1. y \in up[c] \ {n}
      OBVIOUS
    <3>2. F[c][y] = wire[c][y] \o s.out[c] /\ G[c][y] = wire[c][y] \o t.out[c]
      BY <1>1, <3>1, Zenon
    <3>3. QED
      BY <1>3, <3>2, Zenon
  <2>2. wire[c][y] \in Seq(Packet) /\ s.out[c] \in Seq(Packet)
    OBVIOUS
  <2> DEFINE a == wire[c][y]
             b == s.out[c]
  <2>3. a \in Seq(Packet) /\ b \in Seq(Packet)
    BY <2>2
  <2> HIDE DEF a, b
  <2>4. a \o Append(b, m) = Append(a \o b, m)
    BY <2>3
  <2>5. QED
    BY <2>1, <2>4 DEF a, b
<1>5. \A e \in Conn, x \in Node : e # c \/ x # y => G[e][x] = F[e][x]
  <2>1. ASSUME NEW e \in Conn, NEW x \in Node, e # c \/ x # y
        PROVE  G[e][x] = F[e][x]
    <3> HIDE DEF F, G
    <3>1. CASE e # c
      <4>1. t.out[e] = s.out[e]
        BY <1>3, <3>1, Zenon
      <4>2. /\ F[e][x] = IF x \in up[e] \ {n} THEN wire[e][x] \o s.out[e] ELSE wire[e][x]
            /\ G[e][x] = IF x \in up[e] \ {n} THEN wire[e][x] \o t.out[e] ELSE wire[e][x]
        BY <1>1, Zenon
      <4>3. QED
        BY <4>1, <4>2, Zenon
    <3>2. CASE e = c /\ x # y
      BY <1>1, <3>2
    <3>3. QED
      BY <2>1, <3>1, <3>2
  <2>2. QED
    BY <2>1
<1> HIDE DEF F, G
<1>6. G = H
  <2>1. H = [e \in Conn |-> [x \in Node |-> IF e = c /\ x = y THEN Append(F[c][y], m) ELSE F[e][x]]]
    BY <1>2
  <2>2. \A e \in Conn, x \in Node : G[e][x] = IF e = c /\ x = y THEN Append(F[c][y], m) ELSE F[e][x]
    BY <1>4, <1>5
  <2>3. \A e \in Conn : [x \in Node |-> G[e][x]]
                         = [x \in Node |-> IF e = c /\ x = y THEN Append(F[c][y], m) ELSE F[e][x]]
    BY <2>2
  <2> HIDE DEF H
  <2>4. QED
    BY <1>2, <2>1, <2>3, Zenon
<1>7. QED
  BY <1>6 DEF Appends, F, G

LEMMA WithFacts ==
    ASSUME NEW n \in Node, NEW s \in Broker, broker \in [Node -> Broker]
    PROVE  /\ With(n, s) \in [Node -> Broker] /\ With(n, s)[n] = s
           /\ \A x \in Node \ {n} : With(n, s)[x] = broker[x]
BY DEF With

LEMMA FairFacts ==
    ASSUME NEW n \in Node, NEW s, Fair(n, s), broker \in [Node -> Broker]
    PROVE  /\ s \in Broker /\ Sound(s, n) /\ Connected(s, n, up) /\ s.out \in [Conn -> Seq(Packet)]
           /\ With(n, s)[n] = s
<1>1. With(n, s)[n] = s
  BY DEF With
<1>2. QED
  BY <1>1 DEF Fair, Framed, Broker

(* A broker writes m for another's actor to its neighbour y. *)
LEMMA WriteFair ==
    ASSUME NEW n \in Node, NEW s, Fair(n, s), broker \in [Node -> Broker],
           wire \in [Conn -> [Node -> Seq(Packet)]],
           NEW y \in Node, NEW c \in Conn, Line(With(n, s), n, y, c),
           NEW m, Plain(m), m.dst # n, m.dst # y => Knows(With(n, s), y, m.dst),
           IF m.type = "announce"
               THEN Introduced(With(n, s), Sent(n, Write(s, c, m)), c, y, Len(Sent(n, s)[c][y]) + 1, m)
               ELSE Fit(With(n, s), n, y, m)
    PROVE  LET t == Write(s, c, m) IN
           /\ Fair(n, t) /\ Like(With(n, s), With(n, t)) /\ Grown(Sent(n, s), Sent(n, t))
           /\ InFlight(Sent(n, t), up, m.type, m.src, m.dst)
           /\ Queued(Sent(n, t)[c][y], m.type, m.src, m.dst)
<1> DEFINE t == Write(s, c, m)
           B == With(n, s)
           C == With(n, t)
           F == Sent(n, s)
           G == Sent(n, t)
<1>1. /\ s \in Broker /\ Sound(s, n) /\ Connected(s, n, up) /\ s.out \in [Conn -> Seq(Packet)]
      /\ B[n] = s
  BY FairFacts
<1>2. m \in Packet
  BY DEF Plain, Packet, Types, Maybe
<1>3. Framed(B, F, up) /\ Roads(B, up) /\ Mail(B, F, up) /\ Answered(B, F)
  BY DEF Fair
<1>4. up[c] = {n, y} /\ n # y
  BY <1>3, LineFacts
<1>5. t.out = [s.out EXCEPT ![c] = Append(s.out[c], m)] /\ Alike(s, t)
  BY <1>1 DEF Write, Broker, Alike
<1>6. Sound(t, n)
  BY <1>1, WriteSound
<1>7. Connected(t, n, up)
  BY <1>1, <1>5 DEF Connected, Alike
<1>8. /\ C \in [Node -> Broker] /\ C[n] = t /\ \A x \in Node \ {n} : C[x] = broker[x] /\ B[x] = broker[x]
  <2>1. t \in Broker
    BY <1>6 DEF Sound
  <2> HIDE DEF t
  <2>2. QED
    BY <1>1, <2>1, WithFacts
<1>9. Appends(F, G, c, y, m)
  BY <1>1, <1>2, <1>4, <1>5, SentAppends
<1> HIDE DEF t, B, C, F, G
<1>10. /\ Framed(B, G, up) /\ Mail(B, G, up) /\ Answered(B, G) /\ Grown(F, G)
       /\ InFlight(G, up, m.type, m.src, m.dst) /\ Queued(G[c][y], m.type, m.src, m.dst)
  <2>1. /\ Line(B, n, y, c) /\ (m.dst # y => Knows(B, y, m.dst))
        /\ IF m.type = "announce" THEN Introduced(B, G, c, y, Len(F[c][y]) + 1, m) ELSE Fit(B, n, y, m)
    BY DEF B, F, G, t
  <2>2. QED
    BY <1>3, <1>9, <2>1, Posting
<1>11. Like(B, C)
  <2>1. \A x \in Node \ {n} : Alike(B[x], C[x])
    BY <1>8 DEF Alike
  <2>2. QED
    BY <1>1, <1>5, <1>8, <2>1 DEF Like
<1>12. Roads(C, up) /\ Mail(C, G, up) /\ Answered(C, G)
  BY <1>3, <1>10, <1>11, LikeFair
<1>13. Framed(C, G, up)
  <2>1. \A x \in Node : Sound(C[x], x) /\ Connected(C[x], x, up)
    <3>1. \A x \in Node \ {n} : Sound(B[x], x) /\ Connected(B[x], x, up)
      BY <1>3 DEF Framed
    <3>2. QED
      BY <1>6, <1>7, <1>8, <3>1
  <2>2. QED
    BY <1>8, <1>10, <2>1 DEF Framed
<1>14. QED
  BY <1>10, <1>11, <1>12, <1>13 DEF Fair, t, B, C, F, G

(* A broker changes what it knows and writes nothing. *)
LEMMA AlterFair ==
    ASSUME NEW n \in Node, NEW s, Fair(n, s), broker \in [Node -> Broker],
           NEW t, Sound(t, n), t.byNid = s.byNid, t.out = s.out,
           Mono(With(n, s), With(n, t)), Roads(With(n, t), up)
    PROVE  Fair(n, t) /\ Sent(n, t) = Sent(n, s)
<1> DEFINE B == With(n, s)
           C == With(n, t)
           F == Sent(n, s)
<1>1. s \in Broker /\ Connected(s, n, up) /\ B[n] = s
  BY FairFacts
<1>2. /\ C \in [Node -> Broker] /\ C[n] = t
      /\ \A x \in Node \ {n} : C[x] = B[x]
  BY <1>1, WithFacts DEF Sound
<1>3. Sent(n, t) = F
  BY DEF Sent
<1>4. Framed(B, F, up) /\ Mail(B, F, up) /\ Answered(B, F) /\ Mono(B, C) /\ Roads(C, up)
  BY DEF Fair
<1>5. Connected(t, n, up)
  BY <1>1 DEF Connected
<1> HIDE DEF B, C, F
<1>6. Grown(F, F)
  BY DEF Grown
<1>7. Mail(C, F, up)
  BY <1>4, <1>6, MailKept DEF Mail
<1>8. \A a, b \in Node, c \in Conn : Line(C, a, b, c) = Line(B, a, b, c)
  BY <1>1, <1>2 DEF Line
<1>9. Answered(C, F)
  BY <1>4, <1>8 DEF Answered
<1>10. \A x \in Node : Sound(C[x], x) /\ Connected(C[x], x, up)
  <2>1. \A x \in Node : Sound(B[x], x) /\ Connected(B[x], x, up)
    BY <1>4 DEF Framed
  <2>2. QED
    BY <1>2, <1>5, <2>1
<1>11. Framed(C, F, up)
  BY <1>2, <1>4, <1>10 DEF Framed
<1>12. QED
  BY <1>3, <1>4, <1>7, <1>9, <1>11 DEF Fair, B, C, F

(* Only the relays to a, and who has been introduced, change.              *)
LEMMA RelayFair ==
    ASSUME NEW n \in Node, NEW s, Fair(n, s), broker \in [Node -> Broker],
           NEW t, Sound(t, n), t.byNid = s.byNid, t.id = s.id, t.out = s.out,
           NEW a \in Node \ {n}, NEW R, s.hops[a] \subseteq R,
           \A d \in Node : t.hops[d] = IF d = a THEN R ELSE s.hops[d],
           \A h \in R : h \in Node \ {n, a} /\ Direct(With(n, s), n, h) /\ Direct(With(n, s), h, a),
           s.servers \subseteq t.servers, t.servers \subseteq s.servers \cup {a},
           \/ R # {} \/ Direct(With(n, s), n, a) \/ t.servers = s.servers
           \/ \E i \in DOMAIN ends : ends[i][2] = n /\ ends[i][1] \notin {n, a}
    PROVE  Fair(n, t) /\ Mono(With(n, s), With(n, t)) /\ Sent(n, t) = Sent(n, s)
<1> DEFINE B == With(n, s)
           C == With(n, t)
<1>1. s \in Broker /\ Connected(s, n, up) /\ B[n] = s
  BY FairFacts
<1>2. /\ C \in [Node -> Broker] /\ C[n] = t
      /\ \A x \in Node \ {n} : C[x] = B[x]
  BY <1>1, WithFacts DEF Sound
<1>3. Roads(B, up) /\ \A h \in R : h \in Node \ {n, a} /\ Direct(B, n, h) /\ Direct(B, h, a)
  BY DEF Fair
<1> HIDE DEF B, C
<1>4. \A x, d \in Node : Direct(C, x, d) = Direct(B, x, d)
                         /\ \A c \in Conn : Line(C, x, d, c) = Line(B, x, d, c)
  BY <1>1, <1>2 DEF Direct, Line
<1>5. \A x, d \in Node : B[x].hops[d] \subseteq C[x].hops[d] /\ (x # n \/ d # a => C[x].hops[d] = B[x].hops[d])
  BY <1>1, <1>2
<1>6. Mono(B, C)
  BY <1>4, <1>5 DEF Mono, Knows
<1>7. Roads(C, up)
  <2>1. ASSUME NEW x \in Node, NEW d \in Node, x # d
        PROVE  /\ \A h \in C[x].hops[d] : h \in Node \ {x, d} /\ Direct(C, x, h) /\ Direct(C, h, d)
               /\ d \in C[x].servers =>
                    Knows(C, x, d) \/ \E i \in DOMAIN ends : ends[i][2] = x /\ ends[i][1] \notin {x, d}
    <3>1. CASE x = n /\ d = a
      <4>1. C[x].hops[d] = R /\ C[x].servers = t.servers /\ B[x].servers = s.servers
        BY <1>1, <1>2, <3>1
      <4>2. \A h \in R : h \in Node \ {x, d} /\ Direct(C, x, h) /\ Direct(C, h, d)
        BY <1>3, <1>4, <3>1
      <4>3. d \in B[x].servers =>
                Knows(B, x, d) \/ \E i \in DOMAIN ends : ends[i][2] = x /\ ends[i][1] \notin {x, d}
        BY <1>3, <2>1 DEF Roads
      <4>4. Knows(B, x, d) => Knows(C, x, d)
        BY <1>6 DEF Mono
      <4>5. R # {} => Knows(C, x, d)
        BY <4>1 DEF Knows
      <4>6. Direct(B, n, a) => Knows(C, x, d)
        BY <1>4, <3>1 DEF Knows
      <4>7. \/ R # {} \/ Direct(B, n, a) \/ t.servers = s.servers
            \/ \E i \in DOMAIN ends : ends[i][2] = n /\ ends[i][1] \notin {n, a}
        BY DEF B
      <4>8. QED
        BY <3>1, <4>1, <4>2, <4>3, <4>4, <4>5, <4>6, <4>7
    <3>2. CASE ~(x = n /\ d = a)
      <4>1. C[x].hops[d] = B[x].hops[d] /\ (d \in C[x].servers => d \in B[x].servers)
        BY <1>1, <1>2, <1>5, <3>2
      <4>2. Knows(C, x, d) = Knows(B, x, d)
        BY <1>4, <4>1 DEF Knows
      <4>3. /\ \A h \in B[x].hops[d] : h \in Node \ {x, d} /\ Direct(B, x, h) /\ Direct(B, h, d)
            /\ d \in B[x].servers =>
                 Knows(B, x, d) \/ \E i \in DOMAIN ends : ends[i][2] = x /\ ends[i][1] \notin {x, d}
        BY <1>3, <2>1 DEF Roads
      <4>4. QED
        BY <1>4, <4>1, <4>2, <4>3
    <3>3. QED
      BY <3>1, <3>2
  <2>2. \A x \in Node : C[x].id = B[x].id
    BY <1>1, <1>2
  <2>3. \A x, d \in Node, c \in Conn :
            /\ Line(C, x, d, c) => d \in up[c] /\ IF x = ends[c][1] THEN C[x].id[c] = d ELSE Line(C, d, x, c)
            /\ C[x].id[c] = d => Line(C, x, d, c) /\ x = ends[c][1]
    BY <1>3, <1>4, <2>2 DEF Roads
  <2>4. \A c \in Conn : c <= Len(ends) /\ ends[c][1] \in up[c] => ends[c][2] \in up[c]
    BY <1>3 DEF Roads
  <2>5. QED
    BY <2>1, <2>3, <2>4 DEF Roads
<1>8. QED
  BY <1>6, <1>7, AlterFair DEF B, C

LEMMA MonoTrans ==
    ASSUME NEW B, NEW C, NEW D, Mono(B, C), Mono(C, D)
    PROVE  Mono(B, D)
BY DEF Mono

LEMMA GrownTrans ==
    ASSUME NEW F, NEW G, NEW H, Grown(F, G), Grown(G, H)
    PROVE  Grown(F, H)
BY DEF Grown

(* A broker does what nothing here depends on: it flushes a stream, or its *)
(* middleman actor reads a message.                                        *)
LEMMA AlikeFair ==
    ASSUME NEW n \in Node, NEW s, Fair(n, s), broker \in [Node -> Broker],
           NEW t, Sound(t, n), Alike(s, t), t.out = s.out
    PROVE  Fair(n, t) /\ Like(With(n, s), With(n, t)) /\ Sent(n, t) = Sent(n, s)
<1>1. With(n, s)[n] = s /\ With(n, t)[n] = t /\ \A x \in Node \ {n} : With(n, t)[x] = With(n, s)[x]
  BY DEF With
<1>2. Like(With(n, s), With(n, t))
  BY <1>1 DEF Like, Alike
<1>3. Roads(With(n, t), up) /\ Mono(With(n, s), With(n, t))
  BY <1>2, LikeFair, LikeSame DEF Fair
<1>4. QED
  BY <1>2, <1>3, AlterFair DEF Alike

LEMMA FlushFair ==
    ASSUME NEW n \in Node, NEW s, Fair(n, s), broker \in [Node -> Broker], NEW e \in Conn
    PROVE  LET t == Flush(s, e) IN
           Fair(n, t) /\ Like(With(n, s), With(n, t)) /\ Sent(n, t) = Sent(n, s)
<1> DEFINE t == Flush(s, e)
<1>1. s \in Broker /\ Sound(s, n)
  BY FairFacts
<1>2. Sound(t, n)
  BY <1>1, FlushSound
<1>3. Alike(s, t) /\ t.out = s.out
  BY <1>1 DEF Flush, Broker, Alike
<1> HIDE DEF t
<1>4. Fair(n, t) /\ Like(With(n, s), With(n, t)) /\ Sent(n, t) = Sent(n, s)
  BY <1>2, <1>3, AlikeFair
<1>5. QED
  BY <1>4 DEF t

LEMMA LikeTrans ==
    ASSUME NEW B, NEW C, NEW D, Like(B, C), Like(C, D)
    PROVE  Like(B, D)
BY DEF Like, Alike

LEMMA FlushSent ==
    ASSUME NEW n \in Node, NEW s \in Broker, NEW e \in Conn
    PROVE  Flush(s, e).out = s.out /\ Sent(n, Flush(s, e)) = Sent(n, s)
<1>1. Flush(s, e).out = s.out
  BY DEF Flush, Broker
<1>2. QED
  BY <1>1 DEF Sent

(* The same as WriteFair when a stream is flushed then. *)
LEMMA PostFair ==
    ASSUME NEW n \in Node, NEW s, Fair(n, s), broker \in [Node -> Broker],
           wire \in [Conn -> [Node -> Seq(Packet)]],
           NEW y \in Node, NEW c \in Conn, Line(With(n, s), n, y, c),
           NEW m, Plain(m), m.dst # n, m.dst # y => Knows(With(n, s), y, m.dst),
           IF m.type = "announce"
               THEN Introduced(With(n, s), Sent(n, Write(s, c, m)), c, y, Len(Sent(n, s)[c][y]) + 1, m)
               ELSE Fit(With(n, s), n, y, m),
           NEW e \in Conn
    PROVE  LET t == Flush(Write(s, c, m), e) IN
           /\ Fair(n, t) /\ Like(With(n, s), With(n, t)) /\ Grown(Sent(n, s), Sent(n, t))
           /\ InFlight(Sent(n, t), up, m.type, m.src, m.dst)
           /\ Queued(Sent(n, t)[c][y], m.type, m.src, m.dst)
<1> DEFINE w == Write(s, c, m)
           t == Flush(w, e)
<1>1. /\ Fair(n, w) /\ Like(With(n, s), With(n, w)) /\ Grown(Sent(n, s), Sent(n, w))
      /\ InFlight(Sent(n, w), up, m.type, m.src, m.dst)
      /\ Queued(Sent(n, w)[c][y], m.type, m.src, m.dst)
  BY WriteFair
<1> HIDE DEF w
<1>2. Fair(n, t) /\ Like(With(n, w), With(n, t)) /\ Sent(n, t) = Sent(n, w)
  BY <1>1, FlushFair
<1> HIDE DEF t
<1>3. Like(With(n, s), With(n, t))
  BY <1>1, <1>2, LikeTrans
<1>4. QED
  BY <1>1, <1>2, <1>3 DEF t, w

(* A broker writes a message of its own to the route for its addressee.    *)
LEMMA SendFair ==
    ASSUME NEW n \in Node, NEW s, Fair(n, s), broker \in [Node -> Broker],
           wire \in [Conn -> [Node -> Seq(Packet)]],
           NEW d \in Node \ {n}, Knows(With(n, s), n, d),
           NEW m, Plain(m), m.src = n, m.dst = d, m.type # "announce",
           m.type = "dispatch" => m.about # d /\ (m.about # n => Knows(With(n, s), n, m.about))
    PROVE  LET t == SendTo(s, d, m) IN
           /\ Fair(n, t) /\ Like(With(n, s), With(n, t)) /\ Grown(Sent(n, s), Sent(n, t))
           /\ InFlight(Sent(n, t), up, m.type, n, d)
           /\ \E y \in Node : \E c \in Conn :
                 /\ Route(s, d) = c /\ Line(With(n, s), n, y, c)
                 /\ Queued(Sent(n, t)[c][y], m.type, n, d)
<1> DEFINE B == With(n, s)
<1>1. /\ s \in Broker /\ B[n] = s /\ Framed(B, Sent(n, s), up) /\ Roads(B, up)
  BY FairFacts DEF Fair
<1>2. PICK y \in Node, c \in Conn :
          /\ Looked(s, d) = s /\ Route(s, d) = c /\ Line(B, n, y, c)
          /\ y = d \/ (~Direct(B, n, d) /\ y \notin {n, d} /\ Direct(B, y, d))
  BY <1>1, RouteFacts
<1>3. SendTo(s, d, m) = Flush(Write(s, c, m), c)
  BY <1>2, BaspAssumption DEF SendTo, Conn
<1>4. Fit(B, n, y, m)
  BY <1>2 DEF Fit
<1>5. m.dst # y => Knows(B, y, m.dst)
  BY <1>2 DEF Knows
<1> DEFINE t == Flush(Write(s, c, m), c)
<1> HIDE DEF B
<1>6. /\ Fair(n, t) /\ Like(With(n, s), With(n, t)) /\ Grown(Sent(n, s), Sent(n, t))
      /\ InFlight(Sent(n, t), up, m.type, m.src, m.dst)
      /\ Queued(Sent(n, t)[c][y], m.type, m.src, m.dst)
  <2>1. /\ Line(With(n, s), n, y, c) /\ m.dst # n /\ (m.dst # y => Knows(With(n, s), y, m.dst))
        /\ IF m.type = "announce"
              THEN Introduced(With(n, s), Sent(n, Write(s, c, m)), c, y, Len(Sent(n, s)[c][y]) + 1, m)
              ELSE Fit(With(n, s), n, y, m)
    BY <1>2, <1>4, <1>5 DEF B
  <2>2. QED
    BY <2>1, PostFair
<1> HIDE DEF t
<1>7. QED
  BY <1>2, <1>3, <1>6 DEF t, B

(* What learning of a node changes beside the spawn servers and the mail.  *)
Aside(s, t) ==
    /\ t.byHdl = s.byHdl /\ t.byNid = s.byNid /\ t.hops = s.hops /\ t.id = s.id
    /\ t.proxies = s.proxies /\ t.watchers = s.watchers

LEMMA LearnedFair ==
    ASSUME NEW n \in Node, NEW s, Fair(n, s), broker \in [Node -> Broker],
           wire \in [Conn -> [Node -> Seq(Packet)]],
           NEW d \in Node \ {n}, Knows(With(n, s), n, d)
    PROVE  LET t == LearnedNewNode(s, n, d) IN
           /\ Fair(n, t) /\ Mono(With(n, s), With(n, t)) /\ Grown(Sent(n, s), Sent(n, t)) /\ Aside(s, t)
           /\ d \notin s.servers =>
                \E y \in Node : \E c \in Conn :
                   /\ Route(s, d) = c /\ Line(With(n, s), n, y, c)
                   /\ Queued(Sent(n, t)[c][y], "spawn", n, d)
<1> DEFINE u == [s EXCEPT !.servers = @ \cup {d}]
           m == Message("spawn", n, d, None)
           t == SendTo(u, d, m)
<1>1. s \in Broker /\ Sound(s, n) /\ Connected(s, n, up) /\ With(n, s)[n] = s
  BY FairFacts
<1>2. CASE d \in s.servers
  <2>1. LearnedNewNode(s, n, d) = s
    BY <1>2 DEF LearnedNewNode
  <2>2. Mono(With(n, s), With(n, s)) /\ Grown(Sent(n, s), Sent(n, s)) /\ Aside(s, s)
    BY DEF Mono, Grown, Aside
  <2>3. QED
    BY <1>2, <2>1, <2>2
<1>3. CASE d \notin s.servers
  <2>1. LearnedNewNode(s, n, d) = t
    BY <1>3 DEF LearnedNewNode
  <2>2. /\ u \in Broker /\ Aside(s, u) /\ u.out = s.out /\ u.servers = s.servers \cup {d}
        /\ SameTables(s, u) /\ Unnoticed(s, u)
    BY <1>1 DEF Broker, Aside, SameTables, Unnoticed
  <2>3. Plain(m) /\ m.src = n /\ m.dst = d /\ m.type = "spawn"
    BY DEF Plain, Message, Routed, Maybe
  <2> HIDE DEF u, m
  <2>4. Sound(u, n)
    <3>1. n \notin u.proxies \cup u.watchers /\ s.proxies \subseteq u.proxies
      BY <1>1, <2>2 DEF Sound, Aside
    <3>2. QED
      BY <1>1, <2>2, <3>1, SameTablesSound
  <2>5. /\ \A h \in s.hops[d] : h \in Node \ {n, d} /\ Direct(With(n, s), n, h) /\ Direct(With(n, s), h, d)
        /\ s.hops[d] # {} \/ Direct(With(n, s), n, d)
    BY <1>1 DEF Fair, Roads, Knows
  <2>6. /\ u.byNid = s.byNid /\ u.id = s.id /\ u.out = s.out /\ u.hops = s.hops
        /\ s.servers \subseteq u.servers /\ u.servers \subseteq s.servers \cup {d}
    BY <2>2 DEF Aside
  <2>7. Fair(n, u) /\ Mono(With(n, s), With(n, u)) /\ Sent(n, u) = Sent(n, s)
    <3> DEFINE R == s.hops[d]
    <3>1. \A e \in Node : u.hops[e] = IF e = d THEN R ELSE s.hops[e]
      BY <2>6
    <3>2. /\ R # {} \/ Direct(With(n, s), n, d)
          /\ \A h \in R : h \in Node \ {n, d} /\ Direct(With(n, s), n, h) /\ Direct(With(n, s), h, d)
      BY <2>5
    <3>3. s.hops[d] \subseteq R
      OBVIOUS
    <3> HIDE DEF R
    <3>4. QED
      BY <2>4, <2>6, <3>1, <3>2, <3>3, RelayFair
  <2>8. Knows(With(n, u), n, d)
    BY <2>7 DEF Mono
  <2>9. /\ Fair(n, t) /\ Like(With(n, u), With(n, t)) /\ Grown(Sent(n, u), Sent(n, t))
        /\ \E y \in Node : \E c \in Conn :
              /\ Route(u, d) = c /\ Line(With(n, u), n, y, c)
              /\ Queued(Sent(n, t)[c][y], m.type, n, d)
    BY <2>3, <2>7, <2>8, SendFair
  <2>10. t \in Broker /\ With(n, t)[n] = t /\ u \in Broker /\ With(n, u)[n] = u
    BY <2>7, <2>9, FairFacts
  <2>11. Aside(u, t) /\ Mono(With(n, u), With(n, t))
    BY <2>9, <2>10, LikeSame DEF Like, Alike, Aside
  <2>12. Mono(With(n, s), With(n, t))
    BY <2>7, <2>11, MonoTrans
  <2>13. Aside(s, t)
    BY <2>2, <2>11 DEF Aside
  <2>14. Route(u, d) = Route(s, d)
    BY <2>2 DEF Route, Usable, Aside
  <2>15. \A y \in Node, c \in Conn : Line(With(n, u), n, y, c) = Line(With(n, s), n, y, c)
    BY <1>1, <2>2, <2>10 DEF Line, Aside
  <2> HIDE DEF t
  <2>16. QED
    BY <2>1, <2>3, <2>7, <2>9, <2>12, <2>13, <2>14, <2>15
<1>4. QED
  BY <1>2, <1>3

-----------------------------------------------------------------------------
(* The handlers, from a state in which the ties hold to another            *)

Tied(B, F, U, n, d) ==
    /\ d \in B[n].proxies \cup B[n].watchers => Knows(B, n, d)
    /\ d \in B[n].proxies =>
          \/ n \in B[d].watchers
          \/ Waiting(F, "announce", n, d) \/ InFlight(F, U, "kill", d, n)

(* Ties but that x may know a it has no proxy for and is unknown to.       *)
TiesBut(B, F, U, x, a) ==
    \A n, d \in Node : n # d =>
        /\ Tied(B, F, U, n, d)
        /\ Knows(B, n, d) => d \in B[n].proxies \/ Knows(B, d, n) \/ (n = x /\ d = a)

LEMMA TiesParts ==
    ASSUME NEW B, NEW F, NEW U
    PROVE  /\ Ties(B, F, U) => \A x, a : TiesBut(B, F, U, x, a)
           /\ \A x, a \in Node :
                TiesBut(B, F, U, x, a) /\ (Knows(B, x, a) => a \in B[x].proxies \/ Knows(B, a, x))
                    => Ties(B, F, U)
BY DEF Ties, TiesBut, Tied

(* Getting to know a, and nothing else, keeps the rest.                    *)
LEMMA TiesGrown ==
    ASSUME NEW B, NEW F, NEW U \in [Conn -> SUBSET Node], NEW C, NEW G, Mono(B, C), Grown(F, G),
           NEW x \in Node, NEW a \in Node, TiesBut(B, F, U, x, a),
           \A n \in Node : C[n].proxies = B[n].proxies /\ C[n].watchers = B[n].watchers,
           \A n, d \in Node : n # x \/ d # a => (Knows(C, n, d) => Knows(B, n, d))
    PROVE  TiesBut(C, G, U, x, a)
<1>1. \A type, n, d : /\ InFlight(F, U, type, n, d) => InFlight(G, U, type, n, d)
                      /\ Waiting(F, type, n, d) => Waiting(G, type, n, d)
  BY InFlightGrown, WaitingGrown
<1>2. ASSUME NEW n \in Node, NEW d \in Node, n # d
      PROVE  /\ Tied(C, G, U, n, d)
             /\ Knows(C, n, d) => d \in C[n].proxies \/ Knows(C, d, n) \/ (n = x /\ d = a)
  <2>1. /\ Tied(B, F, U, n, d)
        /\ Knows(B, n, d) => d \in B[n].proxies \/ Knows(B, d, n) \/ (n = x /\ d = a)
    BY <1>2 DEF TiesBut
  <2>2. (Knows(B, n, d) => Knows(C, n, d)) /\ (Knows(B, d, n) => Knows(C, d, n))
    BY DEF Mono
  <2>3. Tied(C, G, U, n, d)
    BY <1>1, <2>1, <2>2 DEF Tied
  <2>4. QED
    BY <2>1, <2>2, <2>3
<1>3. QED
  BY <1>2 DEF TiesBut

LEMMA WriteGrown ==
    ASSUME NEW n \in Node, NEW s, Fair(n, s), broker \in [Node -> Broker],
           wire \in [Conn -> [Node -> Seq(Packet)]],
           NEW y \in Node, NEW c \in Conn, Line(With(n, s), n, y, c), NEW m, Plain(m)
    PROVE  Grown(Sent(n, s), Sent(n, Write(s, c, m)))
<1> DEFINE t == Write(s, c, m)
           F == Sent(n, s)
           G == Sent(n, t)
<1>1. /\ s \in Broker /\ s.out \in [Conn -> Seq(Packet)] /\ m \in Packet
      /\ Framed(With(n, s), F, up) /\ Roads(With(n, s), up)
  BY FairFacts DEF Fair, Plain, Packet, Types, Maybe
<1>2. up[c] = {n, y} /\ n # y
  BY <1>1, LineFacts
<1>3. t.out = [s.out EXCEPT ![c] = Append(s.out[c], m)]
  BY <1>1 DEF Write, Broker
<1>4. Appends(F, G, c, y, m)
  BY <1>1, <1>2, <1>3, SentAppends
<1>5. F \in [Conn -> [Node -> Seq(Packet)]]
  BY <1>1 DEF Framed
<1> HIDE DEF F, G, t
<1>6. Appended(F, G, c, y, m)
  BY <1>1, <1>4, <1>5, AppendsFacts
<1>7. QED
  BY <1>6 DEF Appended, F, G, t

(* Proxies, watchers and the cache are nobody else's business.             *)
Booked(n, s, t) ==
    /\ Fair(n, t) /\ Mono(With(n, s), With(n, t)) /\ Sent(n, t) = Sent(n, s)
    /\ \A x, d \in Node : /\ Knows(With(n, t), x, d) = Knows(With(n, s), x, d)
                          /\ \A c \in Conn : Line(With(n, t), x, d, c) = Line(With(n, s), x, d, c)

LEMMA BooksFair ==
    ASSUME NEW n \in Node, NEW s, Fair(n, s), broker \in [Node -> Broker], Node # {n},
           NEW t, Sound(t, n), t.byNid = s.byNid, t.id = s.id, t.out = s.out, t.hops = s.hops,
           t.servers = s.servers
    PROVE  Booked(n, s, t)
<1>a. PICK a \in Node : a # n
  OBVIOUS
<1> DEFINE R == s.hops[a]
<1>1. With(n, s)[n] = s /\ With(n, t)[n] = t /\ \A x \in Node \ {n} : With(n, t)[x] = With(n, s)[x]
  BY DEF With
<1>2. \A h \in R : h \in Node \ {n, a} /\ Direct(With(n, s), n, h) /\ Direct(With(n, s), h, a)
  BY <1>1, <1>a DEF Fair, Roads
<1>3. \A d \in Node : t.hops[d] = IF d = a THEN R ELSE s.hops[d]
  OBVIOUS
<1>4. s.hops[a] \subseteq R
  OBVIOUS
<1>5. s.servers \subseteq t.servers /\ t.servers \subseteq s.servers \cup {a}
  OBVIOUS
<1> HIDE DEF R
<1>6. Fair(n, t) /\ Mono(With(n, s), With(n, t)) /\ Sent(n, t) = Sent(n, s)
  BY <1>a, <1>2, <1>3, <1>4, <1>5, RelayFair
<1>7. \A x, d \in Node : /\ Knows(With(n, t), x, d) = Knows(With(n, s), x, d)
                         /\ \A c \in Conn : Line(With(n, t), x, d, c) = Line(With(n, s), x, d, c)
  BY <1>1 DEF Knows, Direct, Line
<1>8. QED
  BY <1>6, <1>7 DEF Booked

(* Broker n makes a proxy for a's actor and announces it to p: that a node *)
(* need not be known to, to be known by, is settled by the proxy.          *)
LEMMA AnnounceWell ==
    ASSUME NEW n \in Node, NEW s, Fair(n, s), broker \in [Node -> Broker],
           wire \in [Conn -> [Node -> Seq(Packet)]],
           NEW a \in Node \ {n}, TiesBut(With(n, s), Sent(n, s), up, n, a), Knows(With(n, s), n, a),
           NEW p \in Node, NEW c \in Conn, Line(With(n, s), n, p, c), a # p => Knows(With(n, s), p, a),
           Introduced(With(n, s), Sent(n, s), c, p, Len(Sent(n, s)[c][p]) + 1, Message("announce", n, a, None)),
           NEW r \in Conn
    PROVE  LET t == Flush(Write([s EXCEPT !.proxies = @ \cup {a}], c, Message("announce", n, a, None)), r) IN
           /\ Well(n, t) /\ Mono(With(n, s), With(n, t)) /\ Grown(Sent(n, s), Sent(n, t))
<1> DEFINE m == Message("announce", n, a, None)
           u == [s EXCEPT !.proxies = @ \cup {a}]
           w == Write(u, c, m)
           t == Flush(w, r)
           B == With(n, s)
           C == With(n, u)
           D == With(n, t)
           F == Sent(n, s)
           G == Sent(n, t)
<1>1. /\ s \in Broker /\ Sound(s, n) /\ B[n] = s
  BY FairFacts
<1>2. Plain(m) /\ m.type = "announce" /\ m.src = n /\ m.dst = a
  BY DEF Plain, Message, Routed, Maybe
<1>3. /\ u \in Broker /\ SameTables(s, u) /\ u.proxies = s.proxies \cup {a} /\ u.watchers = s.watchers
      /\ Unnoticed(s, u) /\ u.byNid = s.byNid /\ u.id = s.id /\ u.out = s.out /\ u.hops = s.hops
      /\ u.servers = s.servers
  BY <1>1 DEF Broker, SameTables, Unnoticed
<1> HIDE DEF m, u
<1>4. Sound(u, n)
  <2>1. n \notin u.proxies \cup u.watchers /\ s.proxies \subseteq u.proxies
    BY <1>1, <1>3 DEF Sound
  <2>2. QED
    BY <1>1, <1>3, <2>1, SameTablesSound
<1>5. /\ Fair(n, u) /\ Mono(B, C) /\ Sent(n, u) = F
      /\ \A x, d \in Node : /\ Knows(C, x, d) = Knows(B, x, d)
                            /\ \A e \in Conn : Line(C, x, d, e) = Line(B, x, d, e)
  <2>1. Booked(n, s, u)
    BY <1>3, <1>4, BooksFair
  <2>2. QED
    BY <2>1 DEF Booked
<1>6. Line(C, n, p, c)
  BY <1>5
<1>7. Grown(F, G) /\ Sent(n, w) = G /\ w \in Broker
  <2>1. Grown(F, Sent(n, w))
    BY <1>2, <1>5, <1>6, WriteGrown
  <2>2. w \in Broker
    BY <1>2, <1>4, WriteSound DEF Sound
  <2> HIDE DEF w
  <2>3. Sent(n, w) = G
    BY <2>2, FlushSent
  <2>4. QED
    BY <2>1, <2>2, <2>3
<1>8. Introduced(C, G, c, p, Len(Sent(n, u)[c][p]) + 1, m)
  <2>1. Introduced(B, F, c, p, Len(F[c][p]) + 1, m)
    BY DEF m
  <2> HIDE DEF B, C, F, G
  <2> DEFINE k == Len(F[c][p]) + 1
  <2>2. Introduced(B, F, c, p, k, m)
    BY <2>1
  <2> HIDE DEF k
  <2>3. Introduced(C, G, c, p, k, m)
    BY <1>2, <1>5, <1>7, <2>2, IntroducedKept
  <2>4. QED
    BY <1>5, <2>3 DEF k
<1>9. m.dst # n /\ (m.dst # p => Knows(C, p, m.dst))
  BY <1>2, <1>5
<1>10. /\ Fair(n, t) /\ Like(C, D) /\ Grown(Sent(n, u), G)
       /\ InFlight(G, up, "announce", n, a)
  <2>1. /\ Fair(n, u) /\ Line(C, n, p, c)
        /\ IF m.type = "announce"
              THEN Introduced(C, Sent(n, Write(u, c, m)), c, p, Len(Sent(n, u)[c][p]) + 1, m)
              ELSE Fit(C, n, p, m)
    BY <1>2, <1>5, <1>6, <1>7, <1>8
  <2>2. /\ Fair(n, t) /\ Like(C, D) /\ Grown(Sent(n, u), G)
        /\ InFlight(G, up, m.type, m.src, m.dst)
    BY <1>2, <1>9, <2>1, PostFair
  <2>3. QED
    BY <1>2, <2>2
<1>11. /\ t.proxies = s.proxies \cup {a} /\ t.watchers = s.watchers
       /\ D[n] = t /\ \A x \in Node \ {n} : D[x] = B[x]
  BY <1>3 DEF Write, Flush, With, Broker
<1>12. Mono(B, D) /\ \A x, d \in Node : Knows(D, x, d) = Knows(B, x, d)
  <2>1. Mono(C, D) /\ \A x, d \in Node : Knows(D, x, d) = Knows(C, x, d)
    BY <1>10, LikeSame
  <2> HIDE DEF B, C, D
  <2>2. QED
    BY <1>5, <2>1, MonoTrans
<1>13. Ties(D, G, up)
  <2>1. TiesBut(B, F, up, n, a) /\ Knows(B, n, a) /\ up \in [Conn -> SUBSET Node]
    BY <1>10 DEF Fair, Framed
  <2> HIDE DEF B, D, F, G, t
  <2>2. \A type, x, d : /\ InFlight(F, up, type, x, d) => InFlight(G, up, type, x, d)
                        /\ Waiting(F, type, x, d) => Waiting(G, type, x, d)
    BY <1>7, <2>1, InFlightGrown, WaitingGrown
  <2>3. ASSUME NEW x \in Node, NEW d \in Node, x # d
        PROVE  /\ Tied(D, G, up, x, d)
               /\ Knows(D, x, d) => d \in D[x].proxies \/ Knows(D, d, x)
    <3>1. /\ Tied(B, F, up, x, d)
          /\ Knows(B, x, d) => d \in B[x].proxies \/ Knows(B, d, x) \/ (x = n /\ d = a)
      BY <2>1, <2>3 DEF TiesBut
    <3>2. /\ D[x].watchers = B[x].watchers /\ D[d].watchers = B[d].watchers
          /\ D[x].proxies = IF x = n THEN B[x].proxies \cup {a} ELSE B[x].proxies
      BY <1>1, <1>11
    <3>3. Waiting(G, "announce", n, a)
      BY <1>10, <2>1, InFlightWaits
    <3>4. Tied(D, G, up, x, d)
      BY <1>12, <2>1, <2>2, <3>1, <3>2, <3>3 DEF Tied
    <3>5. QED
      BY <1>12, <3>1, <3>2, <3>4
  <2>4. QED
    BY <2>3 DEF Ties, Tied
<1>14. QED
  BY <1>7, <1>10, <1>12, <1>13 DEF Well, t, w, u, m

WellNext(n, s, t) == Well(n, t) /\ Mono(With(n, s), With(n, t)) /\ Grown(Sent(n, s), Sent(n, t))

LEMMA WellSelf ==
    ASSUME NEW n, NEW s, Well(n, s)
    PROVE  WellNext(n, s, s)
BY DEF WellNext, Mono, Grown

(* What an entry p makes in the relays to a that are known already.        *)
Relayed(s, hop, a) == [s EXCEPT !.hops[a] = @ \cup {hop}, !.indirect = @ \cup {a}]

(* All but the relays and the indirect destinations are the same.          *)
Beside(s, t) ==
    /\ t.byHdl = s.byHdl /\ t.byNid = s.byNid /\ t.id = s.id
    /\ t.servers = s.servers /\ t.proxies = s.proxies /\ t.watchers = s.watchers
    /\ Unnoticed(s, t) /\ t.pending = s.pending /\ t.out = s.out /\ t.flushed = s.flushed

Entered(s, hop, a, t) ==
    /\ t \in Broker /\ t.hops \in [Node -> SUBSET Maybe(Node)]
    /\ \A d \in Node : t.hops[d] = IF d = a THEN s.hops[a] \cup {hop} ELSE s.hops[d]
    /\ t.indirect = s.indirect \cup {a} /\ Beside(s, t)

LEMMA RelayedFacts ==
    ASSUME NEW s \in Broker, NEW a \in Node, NEW hop \in Maybe(Node)
    PROVE  Entered(s, hop, a, Relayed(s, hop, a))
<1> DEFINE t == [s EXCEPT !.hops[a] = @ \cup {hop}, !.indirect = @ \cup {a}]
<1>1. /\ s.hops \in [Node -> SUBSET Maybe(Node)] /\ s.indirect \subseteq Node
      /\ [s.hops EXCEPT ![a] = @ \cup {hop}] \in [Node -> SUBSET Maybe(Node)]
  BY DEF Broker
<1>2. /\ t \in Broker /\ t.hops = [s.hops EXCEPT ![a] = @ \cup {hop}] /\ t.indirect = s.indirect \cup {a}
      /\ Beside(s, t)
  BY <1>1 DEF Broker, Beside, Unnoticed
<1>3. \A d \in Node : t.hops[d] = IF d = a THEN s.hops[a] \cup {hop} ELSE s.hops[d]
  BY <1>1, <1>2
<1> HIDE DEF t
<1>4. QED
  BY <1>1, <1>2, <1>3 DEF Entered, Relayed, t

LEMMA BrokerSame ==
    ASSUME NEW s \in Broker, NEW t \in Broker,
           Beside(s, t), t.indirect = s.indirect, \A d \in Node : t.hops[d] = s.hops[d]
    PROVE  t = s
<1>1. s.hops = t.hops
  BY DEF Broker
<1>2. /\ s = [byHdl |-> s.byHdl, byNid |-> s.byNid, indirect |-> s.indirect, hops |-> s.hops, id |-> s.id,
             servers |-> s.servers, proxies |-> s.proxies, watchers |-> s.watchers, pending |-> s.pending,
             cached |-> s.cached, monitored |-> s.monitored, mail |-> s.mail, out |-> s.out,
             flushed |-> s.flushed]
      /\ t = [byHdl |-> t.byHdl, byNid |-> t.byNid, indirect |-> t.indirect, hops |-> t.hops, id |-> t.id,
             servers |-> t.servers, proxies |-> t.proxies, watchers |-> t.watchers, pending |-> t.pending,
             cached |-> t.cached, monitored |-> t.monitored, mail |-> t.mail, out |-> t.out,
             flushed |-> t.flushed]
  BY DEF Broker
<1>3. QED
  BY <1>1, <1>2 DEF Beside, Unnoticed

(* A relay more, where there is one already, is the same one.              *)
LEMMA RelayedSame ==
    ASSUME Calm, NEW n \in Node, NEW s, Fair(n, s), broker \in [Node -> Broker],
           NEW p \in Node, NEW c \in Conn, Line(With(n, s), n, p, c), NEW a \in Node \ {n, p},
           s.byNid[a] = None, s.hops[a] # {}, NEW hop \in {p, None}
    PROVE  LET t == Relayed(s, hop, a) IN
           Looked(t, a) = s /\ Route(t, a) # None /\ (hop = p => t = s)
<1> DEFINE t == Relayed(s, hop, a)
           B == With(n, s)
<1>1. /\ s \in Broker /\ Sound(s, n) /\ B[n] = s /\ B \in [Node -> Broker]
      /\ Framed(B, Sent(n, s), up) /\ Roads(B, up)
  BY FairFacts DEF Fair, Framed
<1>2. hop \in Maybe(Node)
  BY DEF Maybe
<1>3. /\ t \in Broker /\ t.hops \in [Node -> SUBSET Maybe(Node)]
      /\ \A d \in Node : t.hops[d] = IF d = a THEN s.hops[a] \cup {hop} ELSE s.hops[d]
      /\ t.indirect = s.indirect \cup {a} /\ Beside(s, t) /\ t.byNid = s.byNid
  <2>1. Entered(s, hop, a, t)
    BY <1>1, <1>2, RelayedFacts
  <2>2. QED
    BY <2>1 DEF Entered, Beside
<1>4. n # p
  BY <1>1, LineFacts
<1>5. \A h \in s.hops[a] : h = p /\ s.byNid[h] # None
  <2>1. ASSUME NEW h \in s.hops[a] PROVE h = p /\ s.byNid[h] # None
    <3>1. h \in Node \ {n, a} /\ s.byNid[h] # None
      BY <1>1 DEF Roads, Direct
    <3>2. Cardinality(Node) <= 3 /\ p \in Node \ {n, a} /\ a # n
      BY <1>4 DEF Calm
    <3>3. h = p
      BY <3>1, <3>2, ThirdIsOne
    <3>4. QED
      BY <3>1, <3>3
  <2>2. QED
    BY <2>1
<1>6. p \in s.hops[a] /\ s.hops[a] = {p} /\ s.byNid[p] # None /\ s.byNid[None] = None
  BY <1>1, <1>5 DEF Sound
<1>7. a \in s.indirect
  BY <1>1 DEF Sound
<1> HIDE DEF t, B
<1>8. Usable(t, a) = s.hops[a]
  BY <1>3, <1>6 DEF Usable
<1>9. hop = p => t = s
  <2>1. ASSUME hop = p PROVE t = s
    <3>1. t.indirect = s.indirect /\ \A d \in Node : t.hops[d] = s.hops[d]
      BY <1>3, <1>6, <1>7, <2>1
    <3>2. QED
      BY <1>1, <1>3, <3>1, BrokerSame
  <2>2. QED
    BY <2>1
<1>10. Looked(t, a) = s
  <2> DEFINE l == [t EXCEPT !.hops[a] = Usable(t, a)]
  <2>1. Looked(t, a) = l
    BY <1>3 DEF Looked
  <2>2. s.hops[a] \subseteq Maybe(Node) /\ Usable(t, a) = s.hops[a]
    BY <1>1, <1>8 DEF Broker
  <2>3. /\ l \in Broker /\ l.hops = [t.hops EXCEPT ![a] = s.hops[a]] /\ l.indirect = t.indirect /\ Beside(t, l)
    BY <1>3, <2>2 DEF Broker, Beside, Unnoticed
  <2> HIDE DEF l
  <2>4. \A d \in Node : l.hops[d] = s.hops[d]
    BY <1>3, <2>3
  <2>5. l.indirect = s.indirect
    BY <1>3, <1>7, <2>3
  <2>6. Beside(s, l)
    BY <1>3, <2>3 DEF Beside, Unnoticed
  <2>7. l = s
    BY <1>1, <2>3, <2>4, <2>5, <2>6, BrokerSame
  <2>8. QED
    BY <2>1, <2>7
<1>11. Route(t, a) # None
  BY <1>3, <1>6, <1>8 DEF Route
<1>12. QED
  BY <1>9, <1>10, <1>11 DEF t

(* The client of a connection knows the server at its end by it.           *)
LEMMA LineId ==
    ASSUME NEW n \in Node, NEW s, Fair(n, s), broker \in [Node -> Broker],
           NEW p \in Node, NEW c \in Conn, Line(With(n, s), n, p, c)
    PROVE  IF n = ends[c][1] THEN s.id[c] = p ELSE s.id[c] = None
<1>1. /\ s \in Broker /\ With(n, s)[n] = s /\ Roads(With(n, s), up) /\ Framed(With(n, s), Sent(n, s), up)
  BY FairFacts DEF Fair
<1>2. s.id[c] \in Maybe(Node)
  BY <1>1 DEF Broker
<1>3. n = ends[c][1] => s.id[c] = p
  BY <1>1 DEF Roads
<1>4. \A d \in Node : s.id[c] = d => n = ends[c][1]
  BY <1>1 DEF Roads
<1>5. QED
  BY <1>2, <1>3, <1>4 DEF Maybe

LEMMA LineIdOr ==
    ASSUME NEW n \in Node, NEW s, Fair(n, s), broker \in [Node -> Broker],
           NEW p \in Node, NEW c \in Conn, Line(With(n, s), n, p, c)
    PROVE  s.id[c] = p \/ s.id[c] = None
<1>1. IF n = ends[c][1] THEN s.id[c] = p ELSE s.id[c] = None
  BY LineId
<1>2. QED
  BY <1>1

LEMMA LineClient ==
    ASSUME NEW n \in Node, NEW s, Fair(n, s), broker \in [Node -> Broker],
           NEW p \in Node, NEW c \in Conn, Line(With(n, s), n, p, c)
    PROVE  s.id[c] = p => n = ends[c][1]
<1>1. IF n = ends[c][1] THEN s.id[c] = p ELSE s.id[c] = None
  BY LineId
<1>2. QED
  BY <1>1, BaspAssumption

(* A node meets the actor of one it knows, in a message from p.            *)
LEMMA MeetKnown ==
    ASSUME Calm, NEW n \in Node, NEW s, Well(n, s), broker \in [Node -> Broker],
           wire \in [Conn -> [Node -> Seq(Packet)]],
           NEW p \in Node, NEW c \in Conn, Line(With(n, s), n, p, c),
           NEW a \in Node, a \notin {n, p} => Knows(With(n, s), p, a),
           a \notin s.proxies \cup {n}, Knows(With(n, s), n, a)
    PROVE  WellNext(n, s, Meet(s, n, c, a))
<1> DEFINE t == IF a # s.id[c] /\ s.byNid[a] = None THEN AddIndirect(s, n, s.id[c], a) ELSE s
           m == Message("announce", n, a, None)
           B == With(n, s)
           F == Sent(n, s)
<1>1. /\ s \in Broker /\ B[n] = s /\ Framed(B, F, up) /\ Roads(B, up) /\ Fair(n, s) /\ Ties(B, F, up)
  BY FairFacts DEF Fair, Well
<1>2. s.id[c] \in {p, None}
  <2>1. IF n = ends[c][1] THEN s.id[c] = p ELSE s.id[c] = None
    BY <1>1, LineId
  <2>2. QED
    BY <2>1
<1>3. Looked(t, a) = s /\ Route(t, a) # None
  <2>1. CASE a # s.id[c] /\ s.byNid[a] = None
    <3>1. a # p
      BY <2>1, <1>1, BaspAssumption DEF Line, Conn
    <3>2. s.hops[a] # {}
      BY <1>1, <2>1 DEF Knows, Direct
    <3>3. t = Relayed(s, s.id[c], a)
      BY <2>1, <3>2 DEF AddIndirect, Relayed
    <3> HIDE DEF t, B
    <3>4. Line(With(n, s), n, p, c) /\ a \in Node \ {n, p}
      BY <3>1
    <3>5. QED
      BY <1>1, <1>2, <2>1, <3>2, <3>3, <3>4, RelayedSame
  <2>2. CASE ~(a # s.id[c] /\ s.byNid[a] = None)
    <3>1. t = s
      BY <2>2
    <3> HIDE DEF t
    <3>2. /\ Looked(B[n], a) = B[n]
          /\ \E y \in Node : \E e \in Conn : Route(B[n], a) = e
      BY <1>1, RouteFacts
    <3>3. QED
      BY <1>1, <3>1, <3>2, BaspAssumption DEF Conn
  <2>3. QED
    BY <2>1, <2>2
<1> DEFINE u == Flush(Write([s EXCEPT !.proxies = @ \cup {a}], c, m), Route(t, a))
<1>4. Meet(s, n, c, a) = u /\ Route(t, a) \in Conn
  <2>1. Meet(s, n, c, a) = IF Route(t, a) = None THEN Looked(t, a)
                           ELSE Flush(Write([Looked(t, a) EXCEPT !.proxies = @ \cup {a}], c, m), Route(t, a))
    BY DEF Meet
  <2>2. t \in Broker
    <3>1. Sound(s, n) /\ s.id[c] \in Maybe(Node)
      BY <1>1, <1>2, FairFacts DEF Maybe
    <3>2. s.byNid[a] = None => Sound(AddIndirect(s, n, s.id[c], a), n)
      BY <3>1, AddIndirectSound
    <3>3. QED
      BY <1>1, <3>2 DEF Sound
  <2> HIDE DEF t
  <2>3. Route(t, a) \in Conn
    BY <1>3, <2>2, RouteIsConn DEF Maybe
  <2>4. QED
    BY <1>3, <2>1, <2>3
<1>5. m.src = n /\ m.dst = a
  BY DEF Message
<1>6. Knows(B, a, n)
  BY <1>1 DEF Ties
<1>7. Introduced(B, F, c, p, Len(F[c][p]) + 1, m)
  BY <1>5, <1>6 DEF Introduced
<1>8. TiesBut(B, F, up, n, a)
  BY <1>1, TiesParts
<1>9. a # p => Knows(B, p, a)
  OBVIOUS
<1>10. Well(n, u) /\ Mono(With(n, s), With(n, u)) /\ Grown(Sent(n, s), Sent(n, u))
  <2> DEFINE r == Route(t, a)
  <2>1. r \in Conn
    BY <1>4
  <2> HIDE DEF r, t
  <2>2. QED
    BY <1>1, <1>7, <1>8, <1>9, <2>1, AnnounceWell DEF r
<1>11. QED
  BY <1>4, <1>10 DEF WellNext

Emptied(w, a, l) ==
    /\ l \in Broker /\ l.hops = [w.hops EXCEPT ![a] = {}] /\ l.indirect = w.indirect /\ Beside(w, l)

LEMMA LookedEmpty ==
    ASSUME NEW w \in Broker, NEW a \in Node, w.byNid[a] = None, Usable(w, a) = {}
    PROVE  Emptied(w, a, Looked(w, a))
<1> DEFINE l == [w EXCEPT !.hops[a] = {}]
<1>1. Looked(w, a) = l
  BY DEF Looked
<1>2. /\ l \in Broker /\ l.hops = [w.hops EXCEPT ![a] = {}]
      /\ l.indirect = w.indirect /\ Beside(w, l)
  BY DEF Broker, Beside, Unnoticed
<1>3. QED
  BY <1>1, <1>2 DEF Emptied

(* A server is told of a node it does not know: it cannot say which relay  *)
(* the client is, and notes that the node has been introduced to it.       *)
LEMMA MeetStranger ==
    ASSUME Calm, NEW n \in Node, NEW s, Well(n, s), broker \in [Node -> Broker],
           NEW p \in Node, NEW c \in Conn, Line(With(n, s), n, p, c), s.id[c] = None,
           NEW a \in Node, a \notin s.proxies \cup {n}, ~Knows(With(n, s), n, a)
    PROVE  WellNext(n, s, Meet(s, n, c, a))
<1> DEFINE r == Relayed(s, None, a)
           t == AddIndirect(s, n, None, a)
           u == Meet(s, n, c, a)
           B == With(n, s)
           F == Sent(n, s)
<1>1. /\ s \in Broker /\ Sound(s, n) /\ B[n] = s /\ Framed(B, F, up) /\ Roads(B, up)
      /\ Fair(n, s) /\ Ties(B, F, up)
  BY FairFacts DEF Fair, Well
<1>2. s.byNid[a] = None /\ s.hops[a] = {} /\ s.byNid[None] = None
  BY <1>1 DEF Knows, Direct, Sound
<1>3. /\ r \in Broker /\ r.hops \in [Node -> SUBSET Maybe(Node)]
      /\ \A d \in Node : r.hops[d] = IF d = a THEN {None} ELSE s.hops[d]
      /\ r.indirect = s.indirect \cup {a} /\ Beside(s, r)
  <2>1. Entered(s, None, a, r)
    BY <1>1, RelayedFacts DEF Maybe
  <2>2. QED
    BY <1>2, <2>1 DEF Entered
<1>4. t = LearnedNewNode(r, n, a)
  BY <1>2 DEF AddIndirect, Relayed
<1> DEFINE w == IF a \in s.servers THEN r ELSE Looked([r EXCEPT !.servers = @ \cup {a}], a)
<1>5. t = w
  <2>1. CASE a \in s.servers
    BY <1>3, <1>4, <2>1 DEF LearnedNewNode, Beside
  <2>2. CASE a \notin s.servers
    <3> DEFINE q == [r EXCEPT !.servers = @ \cup {a}]
    <3>1. q.byNid = s.byNid /\ q.hops = r.hops
      BY <1>3 DEF Broker, Beside
    <3>2. t = SendTo(q, a, Message("spawn", n, a, None))
      BY <1>3, <1>4, <2>2 DEF LearnedNewNode, Beside
    <3> HIDE DEF q
    <3>3. Usable(q, a) = {}
      BY <1>2, <1>3, <3>1 DEF Usable
    <3>4. Route(q, a) = None
      BY <1>2, <3>1, <3>3 DEF Route
    <3>5. t = Looked(q, a)
      BY <3>2, <3>4 DEF SendTo
    <3>6. QED
      BY <2>2, <3>5 DEF q
  <2>3. QED
    BY <2>1, <2>2
<1> HIDE DEF r, t
<1>6. /\ w \in Broker /\ w.byHdl = s.byHdl /\ w.byNid = s.byNid /\ w.id = s.id /\ w.out = s.out
      /\ w.proxies = s.proxies /\ w.watchers = s.watchers /\ Unnoticed(s, w)
      /\ w.servers = s.servers \cup {a} /\ w.indirect = s.indirect \cup {a}
      /\ \A d \in Node : IF d = a THEN w.hops[d] \subseteq {None} ELSE w.hops[d] = s.hops[d]
  <2>1. CASE a \in s.servers
    BY <1>3, <2>1 DEF Beside, Unnoticed
  <2>2. CASE a \notin s.servers
    <3> DEFINE q == [r EXCEPT !.servers = @ \cup {a}]
               l == [q EXCEPT !.hops[a] = Usable(q, a)]
    <3>1. /\ q \in Broker /\ q.byNid = s.byNid /\ q.hops = r.hops /\ q.servers = s.servers \cup {a}
          /\ q.indirect = r.indirect /\ q.byHdl = s.byHdl /\ q.id = s.id /\ q.out = s.out
          /\ q.proxies = s.proxies /\ q.watchers = s.watchers /\ Unnoticed(s, q)
      BY <1>3 DEF Broker, Beside, Unnoticed
    <3> HIDE DEF q
    <3>2. Usable(q, a) = {}
      BY <1>2, <1>3, <3>1 DEF Usable
    <3>3. /\ l \in Broker /\ l.hops = [r.hops EXCEPT ![a] = {}]
          /\ l.byHdl = q.byHdl /\ l.byNid = q.byNid /\ l.id = q.id /\ l.out = q.out
          /\ l.proxies = q.proxies /\ l.watchers = q.watchers /\ Unnoticed(q, l)
          /\ l.servers = q.servers /\ l.indirect = q.indirect
      BY <3>1, <3>2 DEF Broker, Unnoticed
    <3>4. w = l
      BY <1>2, <2>2, <3>1 DEF Looked, q
    <3> HIDE DEF l, w
    <3>5. \A d \in Node : IF d = a THEN l.hops[d] \subseteq {None} ELSE l.hops[d] = s.hops[d]
      BY <1>3, <3>3
    <3>6. QED
      BY <1>3, <3>1, <3>3, <3>4, <3>5 DEF Unnoticed
  <2>3. QED
    BY <2>1, <2>2
<1> HIDE DEF w
<1>7. Usable(w, a) = {} /\ Route(w, a) = None
  <2>1. Usable(w, a) = {}
    BY <1>2, <1>6 DEF Usable
  <2>2. QED
    BY <1>2, <1>6, <2>1 DEF Route
<1>8. u = Looked(w, a)
  <2>1. a # s.id[c] /\ s.byNid[a] = None
    BY <1>2, BaspAssumption
  <2>2. u = IF Route(w, a) = None THEN Looked(w, a)
            ELSE Flush(Write([Looked(w, a) EXCEPT !.proxies = @ \cup {a}], c, Message("announce", n, a, None)),
                       Route(w, a))
    BY <1>5, <2>1 DEF Meet, t
  <2>3. QED
    BY <1>7, <2>2
<1>9. /\ u \in Broker /\ u.byHdl = s.byHdl /\ u.byNid = s.byNid /\ u.id = s.id /\ u.out = s.out
      /\ u.proxies = s.proxies /\ u.watchers = s.watchers /\ Unnoticed(s, u)
      /\ u.servers = s.servers \cup {a} /\ u.indirect = s.indirect \cup {a}
      /\ \A d \in Node : u.hops[d] = s.hops[d]
  <2> DEFINE l == Looked(w, a)
  <2>1. u = l
    BY <1>8
  <2>2. /\ l \in Broker /\ l.hops = [w.hops EXCEPT ![a] = {}]
        /\ l.byHdl = w.byHdl /\ l.byNid = w.byNid /\ l.id = w.id /\ l.out = w.out
        /\ l.proxies = w.proxies /\ l.watchers = w.watchers /\ Unnoticed(w, l)
        /\ l.servers = w.servers /\ l.indirect = w.indirect
    <3>1. Emptied(w, a, l)
      BY <1>2, <1>6, <1>7, LookedEmpty
    <3>2. QED
      BY <3>1 DEF Emptied, Beside
  <2> HIDE DEF l, u
  <2>3. \A d \in Node : l.hops[d] = s.hops[d]
    <3>1. w.hops \in [Node -> SUBSET Maybe(Node)]
      BY <1>6 DEF Broker
    <3>2. \A d \in Node : l.hops[d] = IF d = a THEN {} ELSE w.hops[d]
      BY <2>2, <3>1
    <3>3. QED
      BY <1>2, <1>6, <3>2
  <2>4. QED
    <3>1. Unnoticed(s, l)
      BY <1>6, <2>2 DEF Unnoticed
    <3>2. QED
      BY <1>6, <2>1, <2>2, <2>3, <3>1
<1> HIDE DEF u
<1>10. Sound(u, n)
  <2>1. Tended(u)
    BY <1>1, <1>9, UnnoticedTended DEF Sound
  <2>2. QED
    BY <1>1, <1>2, <1>9, <2>1 DEF Sound
<1>11. \E i \in DOMAIN ends : ends[i][2] = n /\ ends[i][1] \notin {n, a}
  <2> HIDE DEF B, F
  <2>1. n # p /\ c \in 1 .. Len(ends) /\ Stretches(c, n, p)
    <3>1. Line(B, n, p, c) /\ Framed(B, F, up) /\ Roads(B, up)
      BY <1>1 DEF B
    <3>2. QED
      BY <3>1, LineFacts
  <2>2. n # ends[c][1]
    BY <1>1, LineId, BaspAssumption
  <2>3. Knows(B, n, p)
    BY <1>1, DirectLine DEF Framed, B
  <2>4. ends[c][2] = n /\ ends[c][1] = p /\ p # a
    BY <2>1, <2>2, <2>3 DEF B, Stretches
  <2>5. QED
    BY <2>1, <2>4
<1>12. Fair(n, u) /\ Mono(B, With(n, u)) /\ Sent(n, u) = F
  <2> DEFINE R == s.hops[a]
  <2>1. \A h \in R : h \in Node \ {n, a} /\ Direct(B, n, h) /\ Direct(B, h, a)
    BY <1>2
  <2>2. \A d \in Node : u.hops[d] = IF d = a THEN R ELSE s.hops[d]
    BY <1>9
  <2>3. a \in Node \ {n} /\ s.hops[a] \subseteq R
    OBVIOUS
  <2> HIDE DEF R, B, F
  <2>4. Fair(n, u) /\ Mono(With(n, s), With(n, u)) /\ Sent(n, u) = Sent(n, s)
    BY <1>1, <1>9, <1>10, <1>11, <2>1, <2>2, <2>3, RelayFair DEF B
  <2>5. QED
    BY <2>4 DEF B, F
<1>13. Like(B, With(n, u)) \/ \A x, d \in Node : Knows(With(n, u), x, d) = Knows(B, x, d)
  <2>1. With(n, u)[n] = u /\ \A x \in Node \ {n} : With(n, u)[x] = B[x]
    BY DEF With
  <2>2. QED
    BY <1>1, <1>9, <2>1 DEF Knows, Direct
<1>14. Grown(F, F)
  BY DEF Grown
<1>15. Ties(With(n, u), F, up)
  <2>1. \A x \in Node : With(n, u)[x].proxies = B[x].proxies /\ With(n, u)[x].watchers = B[x].watchers
    BY <1>1, <1>9 DEF With
  <2>2. \A x, d \in Node : Knows(With(n, u), x, d) = Knows(B, x, d)
    BY <1>13, LikeSame
  <2> HIDE DEF B, F
  <2>3. QED
    BY <1>1, <2>1, <2>2 DEF Ties
<1>16. QED
  BY <1>12, <1>14, <1>15 DEF WellNext, Well, u

(* Node n learns of a by way of p, and of nobody else.                     *)
Added(n, s, t, a) ==
    /\ Fair(n, t) /\ Mono(With(n, s), With(n, t)) /\ Grown(Sent(n, s), Sent(n, t))
    /\ t.byHdl = s.byHdl /\ t.byNid = s.byNid /\ t.id = s.id
    /\ t.proxies = s.proxies /\ t.watchers = s.watchers
    /\ Knows(With(n, t), n, a)
    /\ \A x, d \in Node : x # n \/ d # a => (Knows(With(n, t), x, d) => Knows(With(n, s), x, d))

LEMMA RelayNew ==
    ASSUME NEW n \in Node, NEW s, Fair(n, s), broker \in [Node -> Broker],
           wire \in [Conn -> [Node -> Seq(Packet)]],
           NEW p \in Node, NEW c \in Conn, Line(With(n, s), n, p, c),
           NEW a \in Node \ {n, p}, ~Knows(With(n, s), n, a), Direct(With(n, s), p, a)
    PROVE  LET t == AddIndirect(s, n, p, a) IN
           /\ Added(n, s, t, a)
           /\ a \notin s.servers => Queued(Sent(n, t)[c][p], "spawn", n, a)
<1> DEFINE r == Relayed(s, p, a)
           t == LearnedNewNode(r, n, a)
           B == With(n, s)
           C == With(n, r)
           D == With(n, t)
<1>1. /\ s \in Broker /\ Sound(s, n) /\ B[n] = s /\ Framed(B, Sent(n, s), up) /\ Roads(B, up)
  BY FairFacts DEF Fair
<1>2. s.byNid[a] = None /\ s.hops[a] = {}
  BY <1>1 DEF Knows, Direct
<1>3. AddIndirect(s, n, p, a) = t
  BY <1>2 DEF AddIndirect, Relayed
<1>4. /\ r \in Broker /\ r.hops \in [Node -> SUBSET Maybe(Node)]
      /\ \A d \in Node : r.hops[d] = IF d = a THEN {p} ELSE s.hops[d]
      /\ r.indirect = s.indirect \cup {a} /\ Beside(s, r)
  <2>1. Entered(s, p, a, r)
    BY <1>1, RelayedFacts DEF Maybe
  <2>2. QED
    BY <1>2, <2>1 DEF Entered
<1>5. n # p /\ Peer(c, n) = p /\ s.byHdl[c] = p
  BY <1>1, LineFacts
<1> HIDE DEF r
<1>6. Sound(r, n)
  <2>1. /\ n \notin r.proxies \cup r.indirect \cup r.watchers /\ Tended(r)
        /\ r.byHdl = s.byHdl /\ r.byNid = s.byNid /\ r.byNid[None] = None
    BY <1>1, <1>4, UnnoticedTended DEF Sound, Beside
  <2>2. \A e \in Conn : s.byHdl[e] # None => s.byNid[s.byHdl[e]] = e
    BY <1>1 DEF Sound
  <2>3. \A d \in Node : s.byNid[d] # None =>
            s.byHdl[s.byNid[d]] = d /\ d \notin r.indirect /\ r.hops[d] = {}
    BY <1>1, <1>2, <1>4 DEF Sound
  <2>4. \A d \in Node : r.hops[d] # {} => d \in r.indirect
    BY <1>1, <1>4 DEF Sound
  <2>5. QED
    BY <1>4, <2>1, <2>2, <2>3, <2>4 DEF Sound
<1>7. /\ r.byNid = s.byNid /\ r.id = s.id /\ r.out = s.out /\ r.servers = s.servers
      /\ r.byHdl = s.byHdl /\ r.proxies = s.proxies /\ r.watchers = s.watchers
  BY <1>4 DEF Beside
<1>8. Fair(n, r) /\ Mono(B, C) /\ Sent(n, r) = Sent(n, s)
  <2> DEFINE R == {p}
  <2>1. \A h \in R : h \in Node \ {n, a} /\ Direct(B, n, h) /\ Direct(B, h, a)
    <3>1. Direct(B, n, p)
      BY BaspAssumption DEF Line, Direct, Conn
    <3>2. QED
      BY <1>5, <3>1
  <2>2. \A d \in Node : r.hops[d] = IF d = a THEN R ELSE s.hops[d]
    BY <1>4
  <2>3. s.hops[a] \subseteq R /\ R # {} /\ s.servers \subseteq r.servers /\ r.servers \subseteq s.servers \cup {a}
    BY <1>2, <1>7
  <2> HIDE DEF R
  <2>4. QED
    BY <1>6, <1>7, <2>1, <2>2, <2>3, RelayFair
<1>9. Knows(C, n, a) /\ C[n] = r /\ \A x \in Node \ {n} : C[x] = B[x]
  <2>1. C[n] = r /\ \A x \in Node \ {n} : C[x] = B[x]
    BY DEF With
  <2>2. QED
    BY <1>4, <2>1 DEF Knows
<1> HIDE DEF t
<1>10. /\ Fair(n, t) /\ Mono(C, D) /\ Grown(Sent(n, r), Sent(n, t)) /\ Aside(r, t)
       /\ a \notin r.servers =>
            \E y \in Node : \E e \in Conn :
               /\ Route(r, a) = e /\ Line(C, n, y, e) /\ Queued(Sent(n, t)[e][y], "spawn", n, a)
  BY <1>8, <1>9, LearnedFair DEF t
<1>11. /\ t.byHdl = s.byHdl /\ t.byNid = s.byNid /\ t.id = s.id /\ t.hops = r.hops
       /\ t.proxies = s.proxies /\ t.watchers = s.watchers
  BY <1>7, <1>10 DEF Aside
<1>12. Mono(B, D)
  BY <1>8, <1>10, MonoTrans
<1>13. Knows(D, n, a)
  BY <1>9, <1>10 DEF Mono
<1>14. D[n] = t /\ \A x \in Node \ {n} : D[x] = B[x]
  BY <1>1 DEF With
<1>15. ASSUME NEW x \in Node, NEW d \in Node, x # n \/ d # a, Knows(D, x, d)
       PROVE  Knows(B, x, d)
  <2>1. CASE x # n
    BY <1>14, <1>15, <2>1 DEF Knows, Direct
  <2>2. CASE x = n
    <3>1. t.hops[d] = s.hops[d] /\ t.byNid = s.byNid
      BY <1>4, <1>11, <1>15, <2>2
    <3>2. QED
      BY <1>1, <1>14, <1>15, <2>2, <3>1 DEF Knows, Direct
  <2>3. QED
    BY <2>1, <2>2
<1>16. ASSUME a \notin s.servers PROVE Queued(Sent(n, t)[c][p], "spawn", n, a)
  <2>1. PICK y \in Node, e \in Conn :
            Route(r, a) = e /\ Line(C, n, y, e) /\ Queued(Sent(n, t)[e][y], "spawn", n, a)
    BY <1>7, <1>10, <1>16
  <2>2. s.byNid[p] = c /\ s.byNid[p] # None
    BY <1>1, BaspAssumption DEF Line, Conn
  <2>3. Usable(r, a) = {p}
    BY <1>4, <1>7, <2>2 DEF Usable
  <2>4. Route(r, a) = c
    BY <1>2, <1>7, <2>2, <2>3 DEF Route
  <2>5. r.byNid[y] = c
    BY <1>9, <2>1, <2>4 DEF Line
  <2>6. y = p
    BY <1>1, <1>5, <1>7, <2>2, <2>5 DEF Sound
  <2>7. QED
    BY <2>1, <2>4, <2>6
<1>17. Grown(Sent(n, s), Sent(n, t))
  BY <1>8, <1>10
<1> HIDE DEF B, D
<1>18. Added(n, s, t, a)
  BY <1>10, <1>11, <1>12, <1>13, <1>15, <1>17 DEF Added, B, D
<1>19. QED
  BY <1>3, <1>16, <1>18

(* A client is told by its server of a node it does not know: the server   *)
(* relays, the spawn server there hears of the client, and then the        *)
(* announcement comes.                                                     *)
LEMMA MeetThird ==
    ASSUME Calm, NEW n \in Node, NEW s, Well(n, s), broker \in [Node -> Broker],
           wire \in [Conn -> [Node -> Seq(Packet)]], ends \in Seq({q \in Node \X Node : q[1] # q[2]}),
           NEW p \in Node, NEW c \in Conn, Line(With(n, s), n, p, c), s.id[c] = p,
           NEW a \in Node, a \notin {n, p} => Knows(With(n, s), p, a),
           a \notin s.proxies \cup {n}, ~Knows(With(n, s), n, a)
    PROVE  WellNext(n, s, Meet(s, n, c, a))
<1> DEFINE t == AddIndirect(s, n, p, a)
           B == With(n, s)
           D == With(n, t)
           F == Sent(n, s)
           G == Sent(n, t)
           m == Message("announce", n, a, None)
<1>1. /\ s \in Broker /\ B[n] = s /\ Framed(B, F, up) /\ Roads(B, up) /\ Fair(n, s) /\ Ties(B, F, up)
  BY FairFacts DEF Fair, Well
<1>2. s.byNid[a] = None /\ s.hops[a] = {}
  BY <1>1 DEF Knows, Direct
<1>3. n # p /\ c \in 1 .. Len(ends) /\ Stretches(c, n, p)
  <2>1. Line(B, n, p, c)
    OBVIOUS
  <2> HIDE DEF B, F
  <2>2. QED
    BY <1>1, <2>1, LineFacts
<1>4. a # p
  <2>1. Knows(B, n, p)
    BY <1>1, DirectLine DEF Framed
  <2>2. QED
    BY <2>1
<1>5. n = ends[c][1] /\ p = ends[c][2]
  <2>1. n = ends[c][1]
    BY <1>1, LineClient
  <2>2. QED
    BY <1>3, <2>1 DEF Stretches
<1>6. Direct(B, p, a)
  <2>1. SUFFICES ASSUME ~Direct(B, p, a) PROVE FALSE
    OBVIOUS
  <2>2. PICK h \in B[p].hops[a] : TRUE
    BY <1>4, <2>1 DEF Knows
  <2>3. h \in Node \ {p, a} /\ Direct(B, h, a)
    BY <1>1, <1>4, <2>2 DEF Roads
  <2>4. n \in Node \ {p, a} /\ p # a /\ Cardinality(Node) <= 3
    BY <1>3, <1>4 DEF Calm
  <2>5. h = n
    BY <2>3, <2>4, ThirdIsOne
  <2>6. QED
    BY <2>3, <2>5 DEF Knows
<1>7. a \notin s.servers
  <2>1. SUFFICES ASSUME a \in s.servers PROVE FALSE
    OBVIOUS
  <2>2. PICK i \in DOMAIN ends : ends[i][2] = n /\ ends[i][1] \notin {n, a}
    BY <1>1, <2>1 DEF Roads
  <2>3. ends[i][1] \in Node
    OBVIOUS
  <2>4. p \in Node \ {n, a} /\ n # a /\ Cardinality(Node) <= 3
    BY <1>3, <1>4 DEF Calm
  <2>5. ends[i][1] = p
    BY <2>2, <2>3, <2>4, ThirdIsOne
  <2>6. c \in DOMAIN ends
    BY <1>3
  <2>7. QED
    BY <1>5, <2>2, <2>5, <2>6 DEF Calm, Crossed
<1>8. Added(n, s, t, a) /\ Queued(G[c][p], "spawn", n, a)
  BY <1>1, <1>4, <1>6, <1>7, RelayNew
<1> HIDE DEF t
<1>9. /\ Fair(n, t) /\ Mono(B, D) /\ Grown(F, G) /\ t.proxies = s.proxies /\ t.watchers = s.watchers
      /\ Knows(D, n, a) /\ \A x, d \in Node : x # n \/ d # a => (Knows(D, x, d) => Knows(B, x, d))
  BY <1>8 DEF Added
<1>10. /\ t \in Broker /\ D[n] = t /\ Framed(D, G, up) /\ Roads(D, up) /\ G \in [Conn -> [Node -> Seq(Packet)]]
  BY <1>9, FairFacts DEF Fair, Framed
<1>11. Looked(t, a) = t /\ Route(t, a) # None
  <2>1. a # n
    OBVIOUS
  <2> HIDE DEF D, G
  <2>2. /\ Looked(D[n], a) = D[n]
        /\ \E y \in Node : \E e \in Conn : Route(D[n], a) = e
    BY <1>9, <1>10, <2>1, RouteFacts
  <2>3. QED
    BY <1>10, <2>2, BaspAssumption DEF Conn
<1> DEFINE r == Route(t, a)
<1>12. Meet(s, n, c, a) = Flush(Write([t EXCEPT !.proxies = @ \cup {a}], c, m), r) /\ r \in Conn
  <2>1. a # s.id[c] /\ s.byNid[a] = None
    BY <1>2, <1>4
  <2>2. Meet(s, n, c, a) = IF Route(t, a) = None THEN Looked(t, a)
                           ELSE Flush(Write([Looked(t, a) EXCEPT !.proxies = @ \cup {a}], c, m), Route(t, a))
    BY <2>1 DEF Meet, t
  <2>3. r \in Conn
    BY <1>10, <1>11, RouteIsConn DEF Maybe
  <2>4. QED
    BY <1>11, <2>2, <2>3
<1> HIDE DEF r
<1>13. m.src = n /\ m.dst = a
  BY DEF Message
<1>14. TiesBut(D, G, up, n, a)
  <2>1. TiesBut(B, F, up, n, a)
    BY <1>1, TiesParts
  <2>2. \A x \in Node : D[x].proxies = B[x].proxies /\ D[x].watchers = B[x].watchers
    BY <1>1, <1>9 DEF With
  <2>3. up \in [Conn -> SUBSET Node] /\ a \in Node
    BY <1>10 DEF Framed
  <2> HIDE DEF B, D, F, G
  <2>4. QED
    BY <1>9, <2>1, <2>2, <2>3, TiesGrown
<1>15. Line(D, n, p, c) /\ Direct(D, p, a)
  BY <1>6, <1>9 DEF Mono
<1>16. Introduced(D, G, c, p, Len(G[c][p]) + 1, m)
  <2>1. G[c][p] \in Seq(Packet)
    BY <1>10
  <2>2. Ahead(G[c][p], Len(G[c][p]) + 1, "spawn", n, a)
    <3> DEFINE q == G[c][p]
    <3>1. PICK j \in DOMAIN q : Says(q[j], "spawn", n, a)
      BY <1>8 DEF Queued
    <3>2. q \in Seq(Packet)
      BY <2>1
    <3> HIDE DEF q
    <3>3. j \in DOMAIN q /\ j < Len(q) + 1
      BY <3>2
    <3>4. QED
      BY <3>1, <3>3 DEF Ahead, q
  <2> HIDE DEF D, G, m
  <2>3. QED
    BY <1>4, <1>13, <1>15, <2>2 DEF Introduced
<1> DEFINE u == Flush(Write([t EXCEPT !.proxies = @ \cup {a}], c, m), r)
<1>17. a # p => Knows(D, p, a)
  BY <1>15 DEF Knows
<1>18. Well(n, u) /\ Mono(With(n, t), With(n, u)) /\ Grown(Sent(n, t), Sent(n, u))
  BY <1>9, <1>12, <1>14, <1>15, <1>16, <1>17, AnnounceWell
<1> HIDE DEF u
<1>19. Mono(With(n, s), With(n, u)) /\ Grown(Sent(n, s), Sent(n, u))
  BY <1>9, <1>18, MonoTrans, GrownTrans
<1>20. QED
  BY <1>12, <1>18, <1>19 DEF WellNext, u

LEMMA MeetWell ==
    ASSUME Calm, NEW n \in Node, NEW s, Well(n, s), broker \in [Node -> Broker],
           wire \in [Conn -> [Node -> Seq(Packet)]], ends \in Seq({q \in Node \X Node : q[1] # q[2]}),
           NEW p \in Node, NEW c \in Conn, Line(With(n, s), n, p, c),
           NEW a \in Node, a \notin {n, p} => Knows(With(n, s), p, a)
    PROVE  WellNext(n, s, Meet(s, n, c, a))
<1>1. CASE a \in s.proxies \cup {n}
  BY <1>1, WellSelf DEF Meet
<1>2. CASE a \notin s.proxies \cup {n} /\ Knows(With(n, s), n, a)
  BY <1>2, MeetKnown
<1>3. CASE a \notin s.proxies \cup {n} /\ ~Knows(With(n, s), n, a)
  <2>1. s.id[c] = p \/ s.id[c] = None
    BY LineIdOr DEF Well
  <2>2. CASE s.id[c] = p
    BY <1>3, <2>2, MeetThird
  <2>3. CASE s.id[c] = None
    BY <1>3, <2>3, MeetStranger
  <2>4. QED
    BY <2>1, <2>2, <2>3
<1>4. QED
  BY <1>1, <1>2, <1>3

(* A message of src's has come from p: from now on n can answer src.       *)
LEMMA LearnRouteWell ==
    ASSUME Calm, NEW n \in Node, NEW s, Well(n, s), broker \in [Node -> Broker],
           wire \in [Conn -> [Node -> Seq(Packet)]],
           NEW p \in Node, NEW c \in Conn, Line(With(n, s), n, p, c),
           NEW src \in Node \ {n}, src # p => Direct(With(n, s), p, src), Knows(With(n, s), src, n)
    PROVE  WellNext(n, s, LearnRoute(s, n, c, src)) /\ Knows(With(n, LearnRoute(s, n, c, src)), n, src)
<1> DEFINE B == With(n, s)
           F == Sent(n, s)
           t == LearnRoute(s, n, c, src)
<1>1. /\ s \in Broker /\ B[n] = s /\ Framed(B, F, up) /\ Roads(B, up) /\ Fair(n, s) /\ Ties(B, F, up)
  BY FairFacts DEF Fair, Well
<1>2. s.byHdl[c] = p /\ s.byNid[p] = c /\ s.byNid[p] # None
  <2>1. s.byHdl[c] = p
    BY <1>1, LineFacts
  <2>2. QED
    BY <1>1, <2>1, BaspAssumption DEF Line, Conn
<1>3. CASE src = p \/ s.byNid[src] # None
  <2>1. t = s
    BY <1>2, <1>3 DEF LearnRoute
  <2>2. Knows(B, n, src)
    BY <1>1, <1>2, <1>3 DEF Knows, Direct
  <2>3. QED
    BY <2>1, <2>2, WellSelf
<1>4. CASE src # p /\ s.byNid[src] = None /\ s.hops[src] # {}
  <2>1. t = Relayed(s, p, src)
    BY <1>2, <1>4 DEF LearnRoute, AddIndirect, Relayed
  <2>2. t = s
    BY <1>1, <1>4, <2>1, RelayedSame
  <2>3. Knows(B, n, src)
    BY <1>1, <1>4 DEF Knows
  <2>4. QED
    BY <2>2, <2>3, WellSelf
<1>5. CASE src # p /\ s.byNid[src] = None /\ s.hops[src] = {}
  <2>1. t = AddIndirect(s, n, p, src)
    BY <1>2, <1>5 DEF LearnRoute
  <2>2. ~Knows(B, n, src)
    BY <1>1, <1>5 DEF Knows, Direct
  <2>3. Added(n, s, t, src)
    <3>1. src \in Node \ {n, p} /\ Direct(B, p, src)
      BY <1>5
    <3>2. Added(n, s, AddIndirect(s, n, p, src), src)
      BY <1>1, <2>2, <3>1, RelayNew
    <3>3. QED
      BY <2>1, <3>2
  <2> DEFINE D == With(n, t)
             G == Sent(n, t)
  <2> HIDE DEF t
  <2>4. /\ Fair(n, t) /\ Mono(B, D) /\ Grown(F, G) /\ t.proxies = s.proxies /\ t.watchers = s.watchers
        /\ Knows(D, n, src) /\ \A x, d \in Node : x # n \/ d # src => (Knows(D, x, d) => Knows(B, x, d))
    BY <2>3 DEF Added
  <2>5. TiesBut(B, F, up, n, src)
    BY <1>1, TiesParts
  <2>6. \A x \in Node : D[x].proxies = B[x].proxies /\ D[x].watchers = B[x].watchers
    BY <1>1, <2>4 DEF With
  <2>7. up \in [Conn -> SUBSET Node] /\ src \in Node
    BY <1>1 DEF Framed
  <2>8. Knows(D, src, n)
    BY <2>4 DEF Mono
  <2> HIDE DEF B, D, F, G
  <2>9. TiesBut(D, G, up, n, src)
    BY <2>4, <2>5, <2>6, <2>7, TiesGrown
  <2>10. Ties(D, G, up)
    BY <2>7, <2>8, <2>9, TiesParts
  <2>11. QED
    BY <2>4, <2>10 DEF WellNext, Well, B, D, F, G, t
<1>6. QED
  BY <1>3, <1>4, <1>5

LEMMA WellNextTrans ==
    ASSUME NEW n, NEW s, NEW t, NEW u, WellNext(n, s, t), WellNext(n, t, u)
    PROVE  WellNext(n, s, u)
<1>1. Mono(With(n, s), With(n, u)) /\ Grown(Sent(n, s), Sent(n, u))
  BY MonoTrans, GrownTrans DEF WellNext
<1>2. QED
  BY <1>1 DEF WellNext

(* A message for the own actor that holds a handle. *)
LEMMA DispatchWell ==
    ASSUME Calm, NEW n \in Node, NEW s, Well(n, s), broker \in [Node -> Broker],
           wire \in [Conn -> [Node -> Seq(Packet)]], ends \in Seq({q \in Node \X Node : q[1] # q[2]}),
           NEW p \in Node, NEW c \in Conn, Line(With(n, s), n, p, c),
           NEW m, Plain(m), m.dst = n, m.type = "dispatch", Fit(With(n, s), p, n, m)
    PROVE  WellNext(n, s, DispatchMessage(s, n, c, m))
<1> DEFINE t == LearnRoute(s, n, c, m.src)
           u == Meet(t, n, c, m.about)
           w == Meet(u, n, c, m.src)
           B == With(n, s)
<1>1. /\ m.src \in Node \ {n} /\ m.about \in Node
      /\ m.src # p => Direct(B, p, m.src)
      /\ Knows(B, m.src, n)
      /\ m.about \notin {n, p} => Knows(B, p, m.about)
  BY DEF Plain, Fit
<1>2. WellNext(n, s, t)
  BY <1>1, LearnRouteWell
<1> HIDE DEF t
<1>3. Well(n, t) /\ Line(With(n, t), n, p, c) /\ (m.about \notin {n, p} => Knows(With(n, t), p, m.about))
  BY <1>1, <1>2 DEF WellNext, Mono
<1>4. WellNext(n, t, u)
  BY <1>1, <1>3, MeetWell
<1>5. WellNext(n, s, u)
  BY <1>2, <1>4, WellNextTrans
<1> HIDE DEF u
<1>6. Well(n, u) /\ Line(With(n, u), n, p, c) /\ (m.src \notin {n, p} => Knows(With(n, u), p, m.src))
  <2>1. m.src \notin {n, p} => Knows(B, p, m.src)
    BY <1>1 DEF Knows
  <2>2. QED
    BY <1>1, <1>5, <2>1 DEF WellNext, Mono
<1>7. WellNext(n, u, w)
  BY <1>1, <1>6, MeetWell
<1> HIDE DEF w
<1>8. WellNext(n, s, w)
  BY <1>5, <1>7, WellNextTrans
<1>9. QED
  BY <1>8 DEF DispatchMessage, t, u, w

-----------------------------------------------------------------------------
(* What is read is dropped from the wire only after it has been handled:   *)
(* by then nothing depends on it any more.                                 *)

Elsewhere(F, U, n, type, src, dst) == \E c \in Conn : \E y \in U[c] \ {n} : Queued(F[c][y], type, src, dst)

(* Node x hears of the end of d's actor without what n is reading.         *)
Held(B, F, U, n, x, d) ==
    d \in B[x].proxies =>
        x \in B[d].watchers \/ Elsewhere(F, U, n, "announce", x, d) \/ Elsewhere(F, U, n, "kill", d, x)

Relieved(B, F, U, n, m) ==
    /\ m.type = "spawn" =>
          IF m.dst = n THEN Knows(B, n, m.src)
          ELSE \A e \in Conn : Line(B, n, m.dst, e) => Queued(F[e][m.dst], "spawn", m.src, m.dst)
    /\ m.type = "announce" => Held(B, F, U, n, m.src, m.dst)
    /\ m.type = "kill" => Held(B, F, U, n, m.dst, m.src)

Done(n, s, t, m) == Well(n, t) /\ Mono(With(n, s), With(n, t)) /\ Relieved(With(n, t), Sent(n, t), up, n, m)

(* What is said of a message, once nothing is ahead of it.                 *)
AtHand(B, F, c, p, n, m) ==
    /\ Line(B, p, n, c) /\ Line(B, n, p, c) /\ m.dst # p /\ (m.dst # n => Knows(B, n, m.dst))
    /\ IF m.type = "announce"
       THEN \/ Knows(B, m.dst, m.src)
            \/ /\ m.dst # n /\ Direct(B, n, m.dst)
               /\ \E e \in Conn : Line(B, n, m.dst, e) /\ Queued(F[e][m.dst], "spawn", m.src, m.dst)
       ELSE Fit(B, p, n, m)

LEMMA PostedAtHand ==
    ASSUME NEW B, NEW F \in [Conn -> [Node -> Seq(Packet)]], NEW c \in Conn, NEW p \in Node, NEW n \in Node,
           NEW m, Posted(B, F, c, p, n, 1, m)
    PROVE  AtHand(B, F, c, p, n, m)
<1>1. F[c][n] \in Seq(Packet)
  OBVIOUS
<1> DEFINE q == F[c][n]
<1>2. q \in Seq(Packet)
  BY <1>1
<1> HIDE DEF q
<1>3. \A type, src, dst : ~Ahead(q, 1, type, src, dst)
  BY <1>2 DEF Ahead
<1>4. QED
  BY <1>3 DEF Posted, Introduced, AtHand, q

LEMMA QueuedAhead ==
    ASSUME NEW q \in Seq(Packet), NEW type, NEW src, NEW dst, Queued(q, type, src, dst)
    PROVE  Ahead(q, Len(q) + 1, type, src, dst)
BY DEF Queued, Ahead

LEMMA QueuedElsewhere ==
    ASSUME NEW F, NEW U, NEW n, NEW c \in Conn, NEW y \in U[c], y # n, NEW type, NEW src, NEW dst,
           Queued(F[c][y], type, src, dst)
    PROVE  Elsewhere(F, U, n, type, src, dst)
BY DEF Elsewhere

(* A relay passes a message on. *)
LEMMA ForwardWell ==
    ASSUME Calm, NEW n \in Node, NEW s, Well(n, s), broker \in [Node -> Broker],
           wire \in [Conn -> [Node -> Seq(Packet)]], NEW p \in Node, NEW c \in Conn,
           NEW m, Plain(m), m.dst # n, AtHand(With(n, s), Sent(n, s), c, p, n, m)
    PROVE  Done(n, s, Forward(s, m), m)
<1> DEFINE B == With(n, s)
           F == Sent(n, s)
<1>1. /\ s \in Broker /\ B[n] = s /\ Framed(B, F, up) /\ Roads(B, up) /\ Fair(n, s) /\ Ties(B, F, up)
      /\ up \in [Conn -> SUBSET Node] /\ F \in [Conn -> [Node -> Seq(Packet)]]
  BY FairFacts DEF Fair, Well, Framed
<1>2. /\ m.dst \in Node /\ m.src \in Node /\ m.src # m.dst /\ Knows(B, n, m.dst)
      /\ (m.type = "dispatch" => m.about \in Node)
  BY DEF Plain, AtHand
<1>3. PICK y \in Node, e \in Conn :
          /\ Looked(s, m.dst) = s /\ Route(s, m.dst) = e /\ Line(B, n, y, e)
          /\ y = m.dst \/ (~Direct(B, n, m.dst) /\ y \notin {n, m.dst} /\ Direct(B, y, m.dst))
  <2> HIDE DEF B, F
  <2>1. /\ Looked(B[n], m.dst) = B[n]
        /\ \E y \in Node : \E e \in Conn :
              /\ Route(B[n], m.dst) = e /\ Line(B, n, y, e)
              /\ y = m.dst \/ (~Direct(B, n, m.dst) /\ y \notin {n, m.dst} /\ Direct(B, y, m.dst))
    BY <1>1, <1>2, RouteFacts
  <2>2. QED
    BY <1>1, <2>1
<1> DEFINE t == Flush(Write(s, e, m), e)
           D == With(n, t)
           G == Sent(n, t)
<1>4. Forward(s, m) = t
  BY <1>3, BaspAssumption DEF Forward, SendTo, Conn
<1>5. n # y /\ n # p /\ y \in up[e] /\ n \in up[c]
  <2>1. Line(B, n, y, e) /\ Line(B, n, p, c)
    BY <1>3 DEF AtHand
  <2> HIDE DEF B, F
  <2>2. QED
    BY <1>1, <2>1, LineFacts
<1>6. m.dst # y => Knows(B, y, m.dst)
  BY <1>3 DEF Knows
<1>7. ASSUME m.type # "announce" PROVE y = m.dst /\ Fit(B, n, y, m)
  <2>1. Fit(B, p, n, m) /\ Line(B, n, p, c) /\ m.dst # p
    BY <1>7 DEF AtHand
  <2>2. m.src = p /\ Direct(B, n, m.dst) /\ Knows(B, m.src, m.dst)
    BY <2>1 DEF Fit
  <2>3. y = m.dst
    BY <1>3, <2>2
  <2>4. Direct(B, n, p) /\ Knows(B, n, p)
    BY <1>1, <2>1, DirectLine DEF Framed
  <2>5. ASSUME m.type = "dispatch", m.about \notin {y, n} PROVE Knows(B, n, m.about)
    <3>1. m.about \in Node \ {n, m.dst} /\ p \in Node \ {n, m.dst} /\ Cardinality(Node) <= 3
      BY <1>2, <1>5, <2>1, <2>3, <2>5 DEF Calm
    <3>2. m.about = p
      BY <1>2, <3>1, ThirdIsOne
    <3>3. QED
      BY <2>4, <3>2
  <2>6. m.type = "dispatch" => m.about # m.dst
    BY <2>1 DEF Fit
  <2> HIDE DEF B
  <2>7. QED
    BY <2>2, <2>3, <2>4, <2>5, <2>6 DEF Fit
<1>8. Grown(F, Sent(n, Write(s, e, m)))
  BY <1>1, <1>3, WriteGrown
<1> DEFINE H == Sent(n, Write(s, e, m))
<1>9. ASSUME m.type = "announce" PROVE Introduced(B, H, e, y, Len(F[e][y]) + 1, m)
  <2>1. CASE Knows(B, m.dst, m.src)
    BY <2>1 DEF Introduced
  <2>2. CASE ~Knows(B, m.dst, m.src)
    <3>1. PICK x \in Conn : Line(B, n, m.dst, x) /\ Queued(F[x][m.dst], "spawn", m.src, m.dst)
      BY <1>9, <2>2 DEF AtHand
    <3>2. y = m.dst
      BY <1>1, <1>2, <1>3, <3>1, DirectLine DEF Framed
    <3>3. x = e
      BY <1>3, <3>1, <3>2 DEF Line
    <3>4. F[e][y] \in Seq(Packet)
      BY <1>1
    <3> HIDE DEF B, F, H, t
    <3> DEFINE k == Len(F[e][y]) + 1
    <3>5. Ahead(F[e][y], k, "spawn", m.src, m.dst)
      BY <3>1, <3>2, <3>3, <3>4, QueuedAhead
    <3> HIDE DEF k
    <3>6. Ahead(H[e][y], k, "spawn", m.src, m.dst)
      BY <1>8, <3>5, AheadGrown DEF H
    <3>7. QED
      BY <3>2, <3>6 DEF Introduced, k
  <2>3. QED
    BY <2>1, <2>2
<1>10. IF m.type = "announce" THEN Introduced(B, H, e, y, Len(F[e][y]) + 1, m) ELSE Fit(B, n, y, m)
  BY <1>7, <1>9
<1>11. /\ Fair(n, t) /\ Like(B, D) /\ Grown(F, G) /\ Queued(G[e][y], m.type, m.src, m.dst)
  BY <1>1, <1>3, <1>6, <1>10, PostFair
<1> HIDE DEF t, B, D, F, G
<1>12. Mono(B, D) /\ \A x, d \in Node, i \in Conn : Line(D, x, d, i) = Line(B, x, d, i)
  BY <1>11, LikeSame
<1>13. Ties(D, G, up)
  BY <1>1, <1>11, LikeTies
<1>14. Elsewhere(G, up, n, m.type, m.src, m.dst)
  BY <1>5, <1>11, QueuedElsewhere
<1>15. ASSUME m.type = "spawn", NEW i \in Conn, Line(D, n, m.dst, i)
       PROVE  Queued(G[i][m.dst], "spawn", m.src, m.dst)
  <2>1. Line(B, n, m.dst, i)
    BY <1>2, <1>12, <1>15
  <2>2. y = m.dst
    BY <1>7, <1>15
  <2>3. i = e
    BY <1>3, <2>1, <2>2 DEF Line
  <2>4. QED
    BY <1>11, <1>15, <2>2, <2>3
<1>16. Relieved(D, G, up, n, m)
  BY <1>14, <1>15 DEF Relieved, Held
<1>17. QED
  BY <1>4, <1>11, <1>12, <1>13, <1>16 DEF Done, Well, t, B, D, F, G

(* The announcement of a proxy on src: it is watched for, or killed. *)
LEMMA ProxyAnnouncedWell ==
    ASSUME NEW n \in Node, NEW s, Well(n, s), broker \in [Node -> Broker],
           wire \in [Conn -> [Node -> Seq(Packet)]],
           NEW m, Plain(m), m.dst = n, m.type = "announce", Knows(With(n, s), n, m.src)
    PROVE  Done(n, s, ProxyAnnounced(s, n, m.src), m)
<1> DEFINE B == With(n, s)
           F == Sent(n, s)
           src == m.src
<1>1. /\ s \in Broker /\ Sound(s, n) /\ B[n] = s /\ Framed(B, F, up) /\ Roads(B, up) /\ Fair(n, s)
      /\ Ties(B, F, up) /\ up \in [Conn -> SUBSET Node]
  BY FairFacts DEF Fair, Well, Framed
<1>2. src \in Node /\ src # n /\ Knows(B, n, src)
  BY DEF Plain
<1> HIDE DEF src
<1>3. CASE n \in alive
  <2> DEFINE t == [s EXCEPT !.watchers = @ \cup {src}]
             D == With(n, t)
  <2>1. ProxyAnnounced(s, n, src) = t
    BY <1>3 DEF ProxyAnnounced
  <2>2. /\ t \in Broker /\ SameTables(s, t) /\ t.byNid = s.byNid /\ t.id = s.id /\ t.out = s.out
        /\ t.hops = s.hops /\ t.servers = s.servers /\ t.proxies = s.proxies /\ Unnoticed(s, t)
        /\ t.watchers = s.watchers \cup {src}
    BY <1>1, <1>2 DEF Broker, SameTables, Unnoticed
  <2> HIDE DEF t
  <2>3. Sound(t, n)
    <3>1. n \notin t.proxies \cup t.watchers /\ s.proxies \subseteq t.proxies
      BY <1>1, <1>2, <2>2 DEF Sound
    <3>2. QED
      BY <1>1, <2>2, <3>1, SameTablesSound
  <2>4. Booked(n, s, t)
    BY <1>1, <1>2, <2>2, <2>3, BooksFair
  <2>5. /\ Fair(n, t) /\ Mono(B, D) /\ Sent(n, t) = F
        /\ \A x, d \in Node : Knows(D, x, d) = Knows(B, x, d)
    BY <2>4 DEF Booked
  <2>6. D[n] = t /\ \A x \in Node \ {n} : D[x] = B[x]
    BY <1>1 DEF With
  <2>7. /\ \A x \in Node : D[x].proxies = B[x].proxies /\ B[x].watchers \subseteq D[x].watchers
        /\ \A x, d \in Node : d \in D[x].watchers => d \in B[x].watchers \/ (x = n /\ d = src)
        /\ src \in D[n].watchers
    BY <1>1, <2>2, <2>6
  <2> HIDE DEF B, D, F
  <2>8. Ties(D, F, up)
    BY <1>1, <1>2, <2>5, <2>7 DEF Ties
  <2>9. Relieved(D, F, up, n, m)
    BY <2>7 DEF Relieved, Held, src
  <2>10. QED
    BY <2>1, <2>5, <2>8, <2>9 DEF Done, Well, B, D, F, src
<1>4. CASE n \notin alive
  <2> DEFINE k == KillMessage(n, src)
             t == SendTo(s, src, k)
             D == With(n, t)
             G == Sent(n, t)
  <2>1. ProxyAnnounced(s, n, src) = t
    BY <1>4 DEF ProxyAnnounced
  <2>2. Plain(k) /\ k.src = n /\ k.dst = src /\ k.type = "kill"
    BY <1>2 DEF Plain, KillMessage, Message, Routed, Maybe
  <2> HIDE DEF k
  <2>3. /\ Fair(n, t) /\ Like(B, D) /\ Grown(F, G)
        /\ \E y \in Node : \E c \in Conn : Line(B, n, y, c) /\ Queued(G[c][y], "kill", n, src)
    <3>1. src \in Node \ {n} /\ Fair(n, s) /\ Knows(B, n, src) /\ k.type # "announce" /\ k.type # "dispatch"
      BY <1>1, <1>2, <2>2
    <3>2. /\ Fair(n, t) /\ Like(B, D) /\ Grown(F, G)
          /\ \E y \in Node : \E c \in Conn :
                /\ Route(s, src) = c /\ Line(B, n, y, c)
                /\ Queued(G[c][y], k.type, n, src)
      BY <2>2, <3>1, SendFair
    <3>3. QED
      BY <2>2, <3>2
  <2> HIDE DEF t, B, D, F, G
  <2>4. PICK y \in Node, c \in Conn : Line(B, n, y, c) /\ Queued(G[c][y], "kill", n, src)
    BY <2>3
  <2>5. y \in up[c] /\ y # n
    BY <1>1, <2>4, LineFacts
  <2>6. Elsewhere(G, up, n, "kill", n, src)
    BY <2>4, <2>5, QueuedElsewhere
  <2>7. Ties(D, G, up) /\ Mono(B, D)
    BY <1>1, <2>3, LikeTies, LikeSame
  <2>8. Relieved(D, G, up, n, m)
    BY <2>6 DEF Relieved, Held, src
  <2>9. QED
    BY <2>1, <2>3, <2>7, <2>8 DEF Done, Well, B, D, G, t, src
<1>5. QED
  BY <1>3, <1>4

(* The end of src's actor: its proxy is dropped. *)
LEMMA KillProxyWell ==
    ASSUME NEW n \in Node, NEW s, Well(n, s), broker \in [Node -> Broker],
           NEW m, Plain(m), m.dst = n, m.type = "kill", Knows(With(n, s), m.src, n)
    PROVE  Done(n, s, KillProxy(s, m.src), m)
<1> DEFINE B == With(n, s)
           F == Sent(n, s)
           src == m.src
           t == KillProxy(s, src)
           D == With(n, t)
<1>1. s \in Broker /\ Sound(s, n) /\ B[n] = s /\ Fair(n, s) /\ Ties(B, F, up)
  BY FairFacts DEF Well
<1>2. src \in Node /\ src # n /\ Knows(B, src, n)
  BY DEF Plain
<1> HIDE DEF src
<1>3. /\ Sound(t, n) /\ t \in Broker /\ SameTables(s, t) /\ t.byNid = s.byNid /\ t.id = s.id /\ t.out = s.out
      /\ t.hops = s.hops /\ t.servers = s.servers /\ t.watchers = s.watchers
      /\ t.proxies = s.proxies \ {src}
  <2> DEFINE e == EndProxies(s, {src})
  <2>1. /\ Sound(e, n) /\ e \in Broker /\ SameTables(s, e)
        /\ e.proxies = s.proxies \ {src} /\ e.watchers = s.watchers /\ e.id = s.id
        /\ e.servers = s.servers
    BY <1>1, <1>2, EndProxiesSound
  <2> HIDE DEF e
  <2>2. t = e
    BY DEF KillProxy, e
  <2> HIDE DEF t
  <2>3. QED
    BY <2>1, <2>2 DEF SameTables
<1> HIDE DEF t
<1>4. Booked(n, s, t)
  BY <1>1, <1>2, <1>3, BooksFair
<1>5. /\ Fair(n, t) /\ Mono(B, D) /\ Sent(n, t) = F
      /\ \A x, d \in Node : Knows(D, x, d) = Knows(B, x, d)
  BY <1>4 DEF Booked
<1>6. D[n] = t /\ \A x \in Node \ {n} : D[x] = B[x]
  BY <1>1 DEF With
<1>7. /\ \A x \in Node : D[x].watchers = B[x].watchers
      /\ \A x, d \in Node : d \in D[x].proxies <=> d \in B[x].proxies /\ ~(x = n /\ d = src)
  BY <1>1, <1>3, <1>6
<1> HIDE DEF B, D, F
<1>8. Ties(D, F, up)
  BY <1>1, <1>2, <1>5, <1>7 DEF Ties
<1>9. Relieved(D, F, up, n, m)
  BY <1>2, <1>7 DEF Relieved, Held, src
<1>10. QED
  BY <1>5, <1>8, <1>9 DEF Done, Well, B, D, F, t, src

(* Every message for an actor. *)
LEMMA HandledWell ==
    ASSUME Calm, NEW n \in Node, NEW s, Well(n, s), broker \in [Node -> Broker],
           wire \in [Conn -> [Node -> Seq(Packet)]], ends \in Seq({q \in Node \X Node : q[1] # q[2]}),
           NEW p \in Node, NEW c \in Conn, NEW m, Plain(m),
           \/ Says(m, "announce", p, n) /\ Knows(With(n, s), n, p)
           \/ AtHand(With(n, s), Sent(n, s), c, p, n, m)
    PROVE  Done(n, s, Handled(s, n, c, m), m)
<1>1. m.type \in Routed /\ m.type \notin {"server", "client"}
  BY DEF Plain, Routed
<1>2. CASE m.dst # n
  <2>1. Handled(s, n, c, m) = Forward(s, m)
    BY <1>1, <1>2 DEF Handled, Routed
  <2>2. AtHand(With(n, s), Sent(n, s), c, p, n, m)
    BY <1>2 DEF Says
  <2>3. QED
    BY <1>2, <2>1, <2>2, ForwardWell
<1>3. CASE m.dst = n /\ m.type = "announce"
  <2>1. Handled(s, n, c, m) = ProxyAnnounced(s, n, m.src)
    BY <1>3 DEF Handled
  <2>2. Knows(With(n, s), n, m.src)
    BY <1>3 DEF Says, AtHand
  <2>3. QED
    BY <1>3, <2>1, <2>2, ProxyAnnouncedWell
<1>4. CASE m.dst = n /\ m.type # "announce"
  <2>1. AtHand(With(n, s), Sent(n, s), c, p, n, m)
    BY <1>4 DEF Says
  <2>2. Line(With(n, s), n, p, c) /\ Fit(With(n, s), p, n, m)
    BY <1>4, <2>1 DEF AtHand
  <2>3. /\ m.src \in Node \ {n} /\ Knows(With(n, s), m.src, n)
        /\ m.src # p => Direct(With(n, s), p, m.src)
    BY <1>4, <2>2 DEF Fit, Plain
  <2>4. CASE m.type = "kill"
    <3>1. Handled(s, n, c, m) = KillProxy(s, m.src)
      BY <1>4, <2>4 DEF Handled
    <3>2. Done(n, s, KillProxy(s, m.src), m)
      BY <1>4, <2>3, <2>4, KillProxyWell
    <3>3. QED
      BY <3>1, <3>2
  <2>5. CASE m.type = "spawn"
    <3> DEFINE t == LearnRoute(s, n, c, m.src)
    <3>1. Handled(s, n, c, m) = t
      BY <1>4, <2>5 DEF Handled
    <3>2. WellNext(n, s, t) /\ Knows(With(n, t), n, m.src)
      BY <2>2, <2>3, LearnRouteWell
    <3> HIDE DEF t
    <3>3. Relieved(With(n, t), Sent(n, t), up, n, m)
      BY <1>4, <2>5, <3>2 DEF Relieved
    <3>4. QED
      BY <3>1, <3>2, <3>3 DEF Done, WellNext
  <2>6. CASE m.type = "dispatch"
    <3> DEFINE t == DispatchMessage(s, n, c, m)
    <3>1. Handled(s, n, c, m) = t
      BY <1>4, <2>6 DEF Handled
    <3>2. WellNext(n, s, t)
      BY <1>4, <2>2, <2>6, DispatchWell
    <3> HIDE DEF t
    <3>3. Relieved(With(n, t), Sent(n, t), up, n, m)
      BY <2>6 DEF Relieved
    <3>4. QED
      BY <3>1, <3>2, <3>3 DEF Done, WellNext
  <2>7. QED
    BY <1>1, <1>4, <2>4, <2>5, <2>6 DEF Routed
<1>5. QED
  BY <1>2, <1>3, <1>4

-----------------------------------------------------------------------------
(* Handshakes *)

(* Connection c becomes the direct route of n to d. *)
Links(n, c, d, s, t) ==
    /\ t.byNid = [s.byNid EXCEPT ![d] = c]
    /\ \A x \in Node : t.hops[x] = IF x = d THEN {} ELSE s.hops[x]
    /\ t.id = IF n = ends[c][1] THEN [s.id EXCEPT ![c] = d] ELSE s.id
    /\ t.servers = s.servers /\ t.proxies = s.proxies /\ t.watchers = s.watchers

(* Nothing is written from F to G but the answer to d's handshake.         *)
Greeted(n, c, d, F, G) ==
    \A e \in Conn : \A y \in up[e] : \A i \in DOMAIN G[e][y] :
        \/ i \in DOMAIN F[e][y]
        \/ /\ e = c /\ y = d /\ Peer(c, d) = n /\ n = ends[c][1]
           /\ Says(G[e][y][i], "client", n, d)

LEMMA LinkFair ==
    ASSUME NEW n \in Node, NEW s, Fair(n, s), broker \in [Node -> Broker],
           NEW c \in Conn, NEW d \in Node \ {n}, d \in up[c],
           s.byHdl[c] = None, s.byNid[d] = None,
           NEW t, Links(n, c, d, s, t), Framed(With(n, t), Sent(n, t), up),
           Grown(Sent(n, s), Sent(n, t)),
           n # ends[c][1] => Line(With(n, s), d, n, c),
           n = ends[c][1] => Queued(Sent(n, t)[c][d], "client", n, d),
           Greeted(n, c, d, Sent(n, s), Sent(n, t))
    PROVE  /\ Fair(n, t) /\ Mono(With(n, s), With(n, t))
           /\ \A x, y \in Node : x # n \/ y # d => (Knows(With(n, t), x, y) => Knows(With(n, s), x, y))
<1> DEFINE B == With(n, s)
           D == With(n, t)
           F == Sent(n, s)
           G == Sent(n, t)
<1>1. /\ s \in Broker /\ Sound(s, n) /\ B[n] = s /\ Framed(B, F, up) /\ Roads(B, up) /\ Mail(B, F, up)
      /\ Answered(B, F)
  BY FairFacts DEF Fair
<1>2. D[n] = t /\ \A x \in Node \ {n} : D[x] = B[x]
  BY <1>1 DEF With
<1>3. /\ \A x \in Node : s.byNid[x] # c
      /\ c # None /\ s.byNid \in [Maybe(Node) -> Maybe(Conn)] /\ s.id \in [Conn -> Maybe(Node)]
  <2>1. \A x \in Node : s.byNid[x] # None => s.byHdl[s.byNid[x]] = x
    BY <1>1 DEF Sound
  <2>2. c # None
    BY BaspAssumption DEF Conn
  <2>3. ASSUME NEW x \in Node PROVE s.byNid[x] # c
    BY <2>1, <2>2, BaspAssumption
  <2>4. QED
    BY <1>1, <2>2, <2>3 DEF Broker
<1>4. \A x \in Node : t.byNid[x] = IF x = d THEN c ELSE s.byNid[x]
  BY <1>3 DEF Links, Maybe
<1>5. \A e \in Conn : t.id[e] = IF e = c /\ n = ends[c][1] THEN d ELSE s.id[e]
  BY <1>3 DEF Links
<1> HIDE DEF B, D, F, G
<1>6. \A x, y \in Node, e \in Conn : Line(D, x, y, e) <=> Line(B, x, y, e) \/ (x = n /\ y = d /\ e = c)
  BY <1>1, <1>2, <1>4, BaspAssumption DEF Line, Conn
<1>7. \A x, y \in Node : Direct(D, x, y) <=> Direct(B, x, y) \/ (x = n /\ y = d)
  BY <1>1, <1>2, <1>3, <1>4 DEF Direct
<1>8. \A x, y \in Node : D[x].hops[y] = IF x = n /\ y = d THEN {} ELSE B[x].hops[y]
  BY <1>1, <1>2 DEF Links
<1>9. \A x, y \in Node : Knows(D, x, y) <=> Knows(B, x, y) \/ (x = n /\ y = d)
  BY <1>7, <1>8 DEF Knows
<1>10. Mono(B, D)
  BY <1>6, <1>7, <1>9 DEF Mono
<1>11. Roads(D, up)
  <2>1. ASSUME NEW x \in Node, NEW y \in Node, x # y
        PROVE  /\ \A h \in D[x].hops[y] : h \in Node \ {x, y} /\ Direct(D, x, h) /\ Direct(D, h, y)
               /\ y \in D[x].servers =>
                    Knows(D, x, y) \/ \E i \in DOMAIN ends : ends[i][2] = x /\ ends[i][1] \notin {x, y}
    <3>1. /\ \A h \in B[x].hops[y] : h \in Node \ {x, y} /\ Direct(B, x, h) /\ Direct(B, h, y)
          /\ y \in B[x].servers =>
               Knows(B, x, y) \/ \E i \in DOMAIN ends : ends[i][2] = x /\ ends[i][1] \notin {x, y}
      BY <1>1, <2>1 DEF Roads
    <3>2. D[x].servers = B[x].servers
      BY <1>1, <1>2 DEF Links
    <3>3. D[x].hops[y] \subseteq B[x].hops[y]
      BY <1>8
    <3>4. QED
      BY <1>7, <1>9, <3>1, <3>2, <3>3
  <2>2. ASSUME NEW x \in Node, NEW y \in Node, NEW e \in Conn, Line(D, x, y, e)
        PROVE  y \in up[e] /\ IF x = ends[e][1] THEN D[x].id[e] = y ELSE Line(D, y, x, e)
    <3>1. CASE Line(B, x, y, e)
      <4>1. y \in up[e] /\ IF x = ends[e][1] THEN B[x].id[e] = y ELSE Line(B, y, x, e)
        BY <1>1, <3>1 DEF Roads
      <4>2. x # n \/ e # c
        BY <1>1, <1>3, <3>1 DEF Line
      <4>3. D[x].id[e] = B[x].id[e]
        BY <1>1, <1>2, <1>5, <4>2
      <4>4. QED
        BY <1>6, <4>1, <4>3
    <3>2. CASE x = n /\ y = d /\ e = c
      BY <1>2, <1>5, <1>6, <3>2 DEF B
    <3>3. QED
      BY <1>6, <2>2, <3>1, <3>2
  <2>3. ASSUME NEW x \in Node, NEW y \in Node, NEW e \in Conn, D[x].id[e] = y
        PROVE  Line(D, x, y, e) /\ x = ends[e][1]
    <3>1. CASE x = n /\ e = c /\ n = ends[c][1]
      BY <1>2, <1>5, <1>6, <2>3, <3>1
    <3>2. CASE ~(x = n /\ e = c /\ n = ends[c][1])
      <4>1. B[x].id[e] = y
        BY <1>1, <1>2, <1>5, <2>3, <3>2
      <4>2. Line(B, x, y, e) /\ x = ends[e][1]
        BY <1>1, <4>1 DEF Roads
      <4>3. QED
        BY <1>6, <4>2
    <3>3. QED
      BY <3>1, <3>2
  <2>4. \A e \in Conn : e <= Len(ends) /\ ends[e][1] \in up[e] => ends[e][2] \in up[e]
    BY <1>1 DEF Roads
  <2>5. QED
    BY <2>1, <2>2, <2>3, <2>4 DEF Roads
<1>12. Mail(D, G, up)
  <2>1. ASSUME NEW e \in Conn, NEW y \in up[e], NEW i \in DOMAIN G[e][y]
        PROVE  Letter(D, G, up, e, Peer(e, y), y, i, G[e][y][i])
    <3>a. Greeted(n, c, d, F, G)
      BY DEF F, G
    <3>1. CASE i \in DOMAIN F[e][y]
      BY <1>1, <1>10, <3>1, MailKept DEF F, G
    <3>2. CASE /\ e = c /\ y = d /\ Peer(c, d) = n /\ Says(G[e][y][i], "client", n, d)
      <4>1. Line(D, n, d, c)
        BY <1>6
      <4>2. G[e][y][i].type = "client" /\ "client" \notin Routed
        BY <3>2 DEF Says, Routed
      <4>3. QED
        BY <3>2, <4>1, <4>2 DEF Letter
    <3>3. QED
      BY <2>1, <3>a, <3>1, <3>2 DEF Greeted
  <2>2. QED
    BY <2>1 DEF Mail
<1>13. Answered(D, G)
  <2>1. ASSUME NEW x \in Node, NEW y \in Node, NEW e \in Conn, Line(D, x, y, e), x = ends[e][1]
        PROVE  Line(D, y, x, e) \/ Queued(G[e][y], "client", x, y)
    <3>1. CASE Line(B, x, y, e)
      <4>1. Line(B, y, x, e) \/ Queued(F[e][y], "client", x, y)
        BY <1>1, <2>1, <3>1 DEF Answered
      <4>2. Queued(F[e][y], "client", x, y) => Queued(G[e][y], "client", x, y)
        BY AheadGrown DEF F, G
      <4>3. QED
        BY <1>6, <4>1, <4>2
    <3>2. CASE x = n /\ y = d /\ e = c
      BY <2>1, <3>2 DEF G
    <3>3. QED
      BY <1>6, <2>1, <3>1, <3>2
  <2>2. QED
    BY <2>1 DEF Answered
<1>14. QED
  BY <1>9, <1>10, <1>11, <1>12, <1>13 DEF Fair, B, D, G


(* The record of n when connection c has become its route to d, with what  *)
(* is known of d beside it.                                                *)
Linking(n, c, d, s, t, reply) ==
    /\ t \in Broker /\ Links(n, c, d, s, t)
    /\ t.byHdl = [s.byHdl EXCEPT ![c] = d] /\ t.indirect = s.indirect \ {d} /\ Unnoticed(s, t)
    /\ t.out = [s.out EXCEPT ![c] = s.out[c] \o reply]

LEMMA LinkingSound ==
    ASSUME NEW n \in Node, NEW s, Sound(s, n), Connected(s, n, up), NEW c \in Conn, NEW d \in Node \ {n},
           n \in up[c], Peer(c, n) = d, s.byHdl[c] = None, s.byNid[d] = None,
           NEW reply \in Seq(Packet), NEW t, Linking(n, c, d, s, t, reply)
    PROVE  Sound(t, n) /\ Connected(t, n, up)
<1> USE BaspAssumption
<1>1. /\ s.byHdl \in [Conn -> Maybe(Node)] /\ s.byNid \in [Maybe(Node) -> Maybe(Conn)] /\ s \in Broker
  BY DEF Sound, Broker
<1>2. /\ \A e \in Conn : t.byHdl[e] = IF e = c THEN d ELSE s.byHdl[e]
      /\ \A e \in Maybe(Node) : t.byNid[e] = IF e = d THEN c ELSE s.byNid[e]
      /\ \A e \in Node : t.hops[e] = IF e = d THEN {} ELSE s.hops[e]
  BY <1>1 DEF Linking, Links, Maybe
<1>3. /\ t \in Broker /\ t.indirect = s.indirect \ {d} /\ Unnoticed(s, t)
      /\ t.proxies = s.proxies /\ t.watchers = s.watchers
  BY DEF Linking, Links
<1>4. n \notin t.proxies \cup t.indirect \cup t.watchers /\ Tended(t)
  BY <1>3, UnnoticedTended DEF Sound
<1>5. t.byNid[None] = None
  BY <1>2 DEF Sound, Maybe
<1>6. ASSUME NEW e \in Conn, t.byHdl[e] # None PROVE t.byNid[t.byHdl[e]] = e
  <2>1. CASE e = c
    BY <1>2, <2>1 DEF Maybe
  <2>2. CASE e # c
    <3>1. s.byHdl[e] \in Node /\ s.byNid[s.byHdl[e]] = e /\ t.byHdl[e] = s.byHdl[e]
      BY <1>1, <1>2, <1>6, <2>2 DEF Sound, Maybe
    <3>2. s.byHdl[e] # d
      BY <3>1 DEF Conn
    <3>3. QED
      BY <1>2, <3>1, <3>2 DEF Maybe
  <2>3. QED
    BY <2>1, <2>2
<1>7. ASSUME NEW e \in Node, t.byNid[e] # None
      PROVE  /\ t.byHdl[t.byNid[e]] = e /\ e \notin t.indirect /\ t.hops[e] = {}
             /\ n \in up[t.byNid[e]] /\ Peer(t.byNid[e], n) = e
  <2>1. CASE e = d
    BY <1>2, <1>3, <2>1 DEF Maybe
  <2>2. CASE e # d
    <3>1. t.byNid[e] = s.byNid[e] /\ s.byNid[e] \in Conn
      BY <1>1, <1>2, <1>7, <2>2 DEF Maybe
    <3>2. /\ s.byHdl[s.byNid[e]] = e /\ e \notin s.indirect /\ s.hops[e] = {}
          /\ n \in up[s.byNid[e]] /\ Peer(s.byNid[e], n) = e
      BY <1>7, <3>1 DEF Sound, Connected
    <3>3. s.byNid[e] # c
      BY <3>2
    <3>4. QED
      BY <1>2, <1>3, <2>2, <3>1, <3>2, <3>3
  <2>3. QED
    BY <2>1, <2>2
<1>8. \A e \in Node : t.hops[e] # {} => e \in t.indirect
  BY <1>2, <1>3 DEF Sound
<1>9. QED
  BY <1>3, <1>4, <1>5, <1>6, <1>7, <1>8 DEF Sound, Connected

(* What the handler of a handshake has done once the route is there.       *)
Named(s, c, d) == [s EXCEPT !.id[c] = d]

Linked(s, c, d, reply) ==
    EraseIndirect([s EXCEPT !.byHdl[c] = d, !.byNid[d] = c, !.out[c] = @ \o reply], d)

(* All but id is the same. *)
Renamed(s, t, c, d) ==
    /\ t \in Broker /\ t.id = [s.id EXCEPT ![c] = d] /\ t.pending = s.pending
    /\ t.byHdl = s.byHdl /\ t.byNid = s.byNid /\ t.hops = s.hops /\ t.indirect = s.indirect
    /\ t.servers = s.servers /\ t.proxies = s.proxies /\ t.watchers = s.watchers
    /\ Unnoticed(s, t) /\ t.out = s.out /\ t.flushed = s.flushed

LEMMA NamedFacts ==
    ASSUME NEW s \in Broker, NEW c \in Conn, NEW d \in Node
    PROVE  Renamed(s, Named(s, c, d), c, d)
<1>1. [s.id EXCEPT ![c] = d] \in [Conn -> Maybe(Node)]
  BY DEF Broker, Maybe
<1>2. QED
  BY <1>1 DEF Broker, Renamed, Named, Unnoticed

Joined(s, c, d, reply, t) ==
    /\ t \in Broker /\ t.byHdl = [s.byHdl EXCEPT ![c] = d] /\ t.byNid = [s.byNid EXCEPT ![d] = c]
    /\ t.out = [s.out EXCEPT ![c] = s.out[c] \o reply]
    /\ \A x \in Node : t.hops[x] = IF x = d THEN {} ELSE s.hops[x]
    /\ t.indirect = s.indirect \ {d} /\ t.id = s.id /\ t.servers = s.servers
    /\ t.proxies = s.proxies /\ t.watchers = s.watchers /\ Unnoticed(s, t) /\ t.pending = s.pending
    /\ t.flushed = s.flushed

LEMMA LinkedFacts ==
    ASSUME NEW s \in Broker, NEW c \in Conn, NEW d \in Node, NEW reply \in Seq(Packet)
    PROVE  Joined(s, c, d, reply, Linked(s, c, d, reply))
<1> DEFINE r == [s EXCEPT !.byHdl[c] = d, !.byNid[d] = c, !.out[c] = @ \o reply]
           t == EraseIndirect(r, d)
<1>1. /\ s.byHdl \in [Conn -> Maybe(Node)] /\ s.byNid \in [Maybe(Node) -> Maybe(Conn)]
      /\ s.out \in [Conn -> Seq(Packet)] /\ s.out[c] \o reply \in Seq(Packet)
      /\ s.hops \in [Node -> SUBSET Maybe(Node)] /\ s.indirect \subseteq Node
  BY DEF Broker
<1>2. /\ [s.byHdl EXCEPT ![c] = d] \in [Conn -> Maybe(Node)]
      /\ [s.byNid EXCEPT ![d] = c] \in [Maybe(Node) -> Maybe(Conn)]
      /\ [s.out EXCEPT ![c] = s.out[c] \o reply] \in [Conn -> Seq(Packet)]
      /\ [s.hops EXCEPT ![d] = {}] \in [Node -> SUBSET Maybe(Node)]
  BY <1>1 DEF Maybe
<1>3. /\ r \in Broker /\ r.byHdl = [s.byHdl EXCEPT ![c] = d] /\ r.byNid = [s.byNid EXCEPT ![d] = c]
      /\ r.out = [s.out EXCEPT ![c] = s.out[c] \o reply] /\ r.hops = s.hops /\ r.indirect = s.indirect
      /\ r.id = s.id /\ r.servers = s.servers /\ r.proxies = s.proxies /\ r.watchers = s.watchers
      /\ Unnoticed(s, r) /\ r.pending = s.pending /\ r.flushed = s.flushed
  BY <1>2 DEF Broker, Unnoticed
<1>4. Linked(s, c, d, reply) = t
  BY DEF Linked
<1> HIDE DEF r
<1>5. /\ t \in Broker /\ t.byHdl = r.byHdl /\ t.byNid = r.byNid /\ t.out = r.out
      /\ t.hops = [r.hops EXCEPT ![d] = {}] /\ t.indirect = r.indirect \ {d} /\ t.id = r.id
      /\ t.servers = r.servers /\ t.proxies = r.proxies /\ t.watchers = r.watchers
      /\ Unnoticed(r, t) /\ t.pending = r.pending /\ t.flushed = r.flushed
  BY <1>2, <1>3 DEF Broker, EraseIndirect, Unnoticed
<1> HIDE DEF t
<1>6. \A x \in Node : t.hops[x] = IF x = d THEN {} ELSE s.hops[x]
  BY <1>1, <1>3, <1>5
<1>7. Joined(s, c, d, reply, t)
  BY <1>3, <1>5, <1>6 DEF Joined, Unnoticed
<1>8. QED
  BY <1>4, <1>7


(* A node that has a direct route to another asks it for a spawn server    *)
(* over that route, whatever name the connection goes by.                  *)
Asked(s, n, c, d) ==
    Flush(Write([s EXCEPT !.servers = @ \cup {d}], c, Message("spawn", n, d, None)), c)

LEMMA AskedFacts ==
    ASSUME NEW s \in Broker, NEW n \in Node, NEW c \in Conn, NEW d \in Node, s.byNid[d] = c
    PROVE  LearnedNewNode(s, n, d) = IF d \in s.servers THEN s ELSE Asked(s, n, c, d)
<1> DEFINE u == [s EXCEPT !.servers = @ \cup {d}]
<1>1. u.byNid = s.byNid
  BY DEF Broker
<1>2. c # None
  BY BaspAssumption DEF Conn
<1> HIDE DEF u
<1>3. Route(u, d) = c /\ Looked(u, d) = u
  BY <1>1, <1>2 DEF Route, Looked
<1>4. QED
  BY <1>2, <1>3 DEF LearnedNewNode, SendTo, Asked, u

LEMMA NamedAsked ==
    ASSUME NEW s \in Broker, NEW n \in Node, NEW c \in Conn, NEW d \in Node
    PROVE  Named(Asked(s, n, c, d), c, d) = Asked(Named(s, c, d), n, c, d)
<1> DEFINE m == Message("spawn", n, d, None)
           q == Append(s.out[c], m)
           a == Asked(s, n, c, d)
           x == Named(s, c, d)
           b == Asked(x, n, c, d)
           y == Named(a, c, d)
<1>a. m \in Packet
  BY DEF Message, Packet, Types, Routed, Maybe
<1>b. s.out \in [Conn -> Seq(Packet)]
  BY DEF Broker
<1> HIDE DEF m
<1>1. q \in Seq(Packet) /\ [s.out EXCEPT ![c] = q] \in [Conn -> Seq(Packet)]
  BY <1>a, <1>b
<1>2. ASSUME NEW z \in Broker, z.out = s.out
      PROVE  LET w == Asked(z, n, c, d) IN
             /\ w \in Broker /\ w.out = [s.out EXCEPT ![c] = q] /\ w.servers = z.servers \cup {d}
             /\ w.byHdl = z.byHdl /\ w.byNid = z.byNid /\ w.hops = z.hops /\ w.indirect = z.indirect
             /\ w.id = z.id /\ w.proxies = z.proxies /\ w.watchers = z.watchers
             /\ Unnoticed(z, w) /\ w.pending = z.pending /\ w.flushed = z.flushed \cup {c}
  <2> DEFINE u == [z EXCEPT !.servers = @ \cup {d}]
             o == [s.out EXCEPT ![c] = q]
  <2>1. /\ u \in Broker /\ u.out = s.out /\ u.servers = z.servers \cup {d}
        /\ u.byHdl = z.byHdl /\ u.byNid = z.byNid /\ u.hops = z.hops /\ u.indirect = z.indirect
        /\ u.id = z.id /\ u.proxies = z.proxies /\ u.watchers = z.watchers
        /\ Unnoticed(z, u) /\ u.pending = z.pending /\ u.flushed = z.flushed
    BY <1>2 DEF Broker, Unnoticed
  <2>2. Asked(z, n, c, d) = Flush(Write(u, c, m), c)
    BY DEF Asked, m
  <2> HIDE DEF u
  <2>3. Write(u, c, m) = [u EXCEPT !.out = o]
    BY <2>1 DEF Write
  <2>4. o \in [Conn -> Seq(Packet)]
    BY <1>1
  <2> HIDE DEF o
  <2> DEFINE w == [[u EXCEPT !.out = o] EXCEPT !.flushed = @ \cup {c}]
  <2>5. /\ w \in Broker /\ w.out = o /\ w.servers = u.servers
        /\ w.byHdl = u.byHdl /\ w.byNid = u.byNid /\ w.hops = u.hops /\ w.indirect = u.indirect
        /\ w.id = u.id /\ w.proxies = u.proxies /\ w.watchers = u.watchers
        /\ Unnoticed(u, w) /\ w.pending = u.pending /\ w.flushed = u.flushed \cup {c}
    BY <2>1, <2>4 DEF Broker, Unnoticed
  <2> HIDE DEF w
  <2>6. Asked(z, n, c, d) = w
    BY <2>2, <2>3 DEF w, Flush
  <2>7. QED
    BY <2>1, <2>5, <2>6 DEF o, Unnoticed
<1> HIDE DEF q
<1>3. Renamed(s, x, c, d)
  BY NamedFacts
<1>4. /\ a \in Broker /\ a.out = [s.out EXCEPT ![c] = q] /\ a.servers = s.servers \cup {d}
      /\ a.byHdl = s.byHdl /\ a.byNid = s.byNid /\ a.hops = s.hops /\ a.indirect = s.indirect
      /\ a.id = s.id /\ a.proxies = s.proxies /\ a.watchers = s.watchers
      /\ Unnoticed(s, a) /\ a.pending = s.pending /\ a.flushed = s.flushed \cup {c}
  BY <1>2
<1> HIDE DEF x, a
<1>5. /\ b \in Broker /\ b.out = [s.out EXCEPT ![c] = q] /\ b.servers = x.servers \cup {d}
      /\ b.byHdl = x.byHdl /\ b.byNid = x.byNid /\ b.hops = x.hops /\ b.indirect = x.indirect
      /\ b.id = x.id /\ b.proxies = x.proxies /\ b.watchers = x.watchers
      /\ Unnoticed(x, b) /\ b.pending = x.pending /\ b.flushed = x.flushed \cup {c}
  BY <1>2, <1>3 DEF Renamed
<1>6. Renamed(a, y, c, d)
  BY <1>4, NamedFacts
<1> HIDE DEF b, y
<1>7. /\ b \in Broker /\ y \in Broker /\ Beside(b, y) /\ y.indirect = b.indirect
      /\ \A e \in Node : y.hops[e] = b.hops[e]
  BY <1>3, <1>4, <1>5, <1>6 DEF Renamed, Beside, Unnoticed
<1>8. y = b
  BY <1>7, BrokerSame
<1>9. QED
  BY <1>8 DEF a, b, x, y

LEMMA AddDirectNamed ==
    ASSUME NEW s \in Broker, NEW n \in Node, NEW c \in Conn, NEW d \in Node, NEW reply \in Seq(Packet)
    PROVE  LET t == Named(Linked(s, c, d, reply), c, d) IN
           Named(AddDirect(s, n, c, d, reply), c, d)
               = IF d \in s.indirect THEN t ELSE LearnedNewNode(t, n, d)
<1> DEFINE r == Linked(s, c, d, reply)
           t == Named(r, c, d)
<1>1. AddDirect(s, n, c, d, reply) = IF d \in s.indirect THEN r ELSE LearnedNewNode(r, n, d)
  BY DEF AddDirect, Linked
<1>a. Joined(s, c, d, reply, r)
  BY LinkedFacts
<1> HIDE DEF r
<1>2. r \in Broker /\ r.byNid = [s.byNid EXCEPT ![d] = c]
  BY <1>a DEF Joined
<1>3. r.byNid[d] = c
  BY <1>2 DEF Broker, Maybe
<1>4. LearnedNewNode(r, n, d) = IF d \in r.servers THEN r ELSE Asked(r, n, c, d)
  BY <1>2, <1>3, AskedFacts
<1>5. Renamed(r, t, c, d)
  BY <1>2, NamedFacts
<1>6. Named(Asked(r, n, c, d), c, d) = Asked(t, n, c, d)
  BY <1>2, NamedAsked
<1>7. /\ t \in Broker /\ t.byNid[d] = c /\ t.servers = r.servers
  BY <1>3, <1>5 DEF Renamed
<1> HIDE DEF t
<1>8. LearnedNewNode(t, n, d) = IF d \in t.servers THEN t ELSE Asked(t, n, c, d)
  BY <1>7, AskedFacts
<1>9. QED
  BY <1>1, <1>4, <1>6, <1>7, <1>8 DEF r, t


(* Connection c has become the route of n to d, and that is all n has come *)
(* to know.                                                                *)
Routes(n, c, d, s, t) ==
    /\ Fair(n, t) /\ Mono(With(n, s), With(n, t)) /\ Grown(Sent(n, s), Sent(n, t))
    /\ t.proxies = s.proxies /\ t.watchers = s.watchers /\ Line(With(n, t), n, d, c)
    /\ \A x, y \in Node : x # n \/ y # d => (Knows(With(n, t), x, y) => Knows(With(n, s), x, y))

LEMMA ServerRoutes ==
    ASSUME NEW n \in Node, NEW s, Fair(n, s), broker \in [Node -> Broker],
           wire \in [Conn -> [Node -> Seq(Packet)]],
           NEW c \in Conn, NEW d \in Node \ {n}, n \in up[c], d \in up[c], Peer(c, n) = d, n = ends[c][1],
           s.byHdl[c] = None, s.byNid[d] = None,
           NEW t, Linking(n, c, d, s, t, ClientMessage(n, d))
    PROVE  Routes(n, c, d, s, t) /\ Queued(Sent(n, t)[c][d], "client", n, d)
<1> DEFINE m == Message("client", n, d, None)
           B == With(n, s)
           D == With(n, t)
           F == Sent(n, s)
           G == Sent(n, t)
<1>1. /\ s \in Broker /\ Sound(s, n) /\ Connected(s, n, up) /\ s.out \in [Conn -> Seq(Packet)]
      /\ B[n] = s /\ Framed(B, F, up) /\ F \in [Conn -> [Node -> Seq(Packet)]]
  BY FairFacts DEF Fair, Framed
<1>2. m \in Packet /\ Greeting(m) /\ Says(m, "client", n, d)
  BY DEF Message, Packet, Types, Maybe, Greeting, Says
<1>3. Peer(c, d) = n /\ up[c] = {n, d}
  <2> HIDE DEF B, F
  <2>1. up[c] \subseteq {ends[c][1], ends[c][2]} /\ ends[c][1] # ends[c][2]
    BY <1>1 DEF Framed
  <2>2. QED
    BY <2>1 DEF Peer
<1> HIDE DEF m
<1>4. t.out = [s.out EXCEPT ![c] = Append(s.out[c], m)]
  <2> DEFINE q == s.out[c]
  <2>1. q \in Seq(Packet)
    BY <1>1
  <2> HIDE DEF q
  <2>2. q \o <<m>> = Append(q, m)
    BY <1>2, <2>1
  <2>3. QED
    BY <2>2 DEF Linking, ClientMessage, m, q
<1>5. ClientMessage(n, d) \in Seq(Packet)
  BY <1>2 DEF ClientMessage, m
<1>6. Sound(t, n) /\ Connected(t, n, up) /\ t \in Broker /\ Links(n, c, d, s, t)
  BY <1>1, <1>5, LinkingSound DEF Linking
<1>7. Appended(F, G, c, d, m)
  <2>1. Appends(F, G, c, d, m)
    BY <1>1, <1>2, <1>3, <1>4, SentAppends
  <2> HIDE DEF F, G
  <2>2. QED
    BY <1>1, <1>2, <2>1, AppendsFacts
<1>8. D \in [Node -> Broker] /\ D[n] = t /\ \A x \in Node \ {n} : D[x] = B[x]
  BY <1>1, <1>6, WithFacts
<1> DEFINE l == Len(F[c][d])
<1>9. /\ G \in [Conn -> [Node -> Seq(Packet)]] /\ Grown(F, G) /\ l \in Nat
      /\ l + 1 \in DOMAIN G[c][d] /\ G[c][d][l + 1] = m
      /\ \A e \in Conn, y \in Node : \A i \in DOMAIN G[e][y] :
            \/ i \in DOMAIN F[e][y] /\ G[e][y][i] = F[e][y][i]
            \/ e = c /\ y = d /\ G[e][y][i] = m
  <2> HIDE DEF F, G, m
  <2>1. /\ G \in [Conn -> [Node -> Seq(Packet)]] /\ Grown(F, G)
        /\ \A e \in Conn, y \in Node : e # c \/ y # d => G[e][y] = F[e][y]
        /\ DOMAIN F[c][d] = 1 .. l /\ l \in Nat
        /\ DOMAIN G[c][d] = 1 .. l + 1
        /\ G[c][d][l + 1] = m
        /\ \A i \in 1 .. l : G[c][d][i] = F[c][d][i]
    BY <1>7 DEF Appended
  <2> HIDE DEF l
  <2>2. l + 1 \in DOMAIN G[c][d]
    BY <2>1
  <2>3. ASSUME NEW e \in Conn, NEW y \in Node, NEW i \in DOMAIN G[e][y]
        PROVE  \/ i \in DOMAIN F[e][y] /\ G[e][y][i] = F[e][y][i]
               \/ e = c /\ y = d /\ G[e][y][i] = m
    <3>1. CASE e # c \/ y # d
      BY <2>1, <2>3, <3>1
    <3>2. CASE e = c /\ y = d /\ i # l + 1
      BY <2>1, <2>3, <3>2
    <3>3. CASE e = c /\ y = d /\ i = l + 1
      BY <2>1, <3>3
    <3>4. QED
      BY <3>1, <3>2, <3>3
  <2>4. QED
    BY <2>1, <2>2, <2>3
<1> HIDE DEF l, B, D, F, G
<1>10. Framed(D, G, up)
  <2>1. ASSUME NEW e \in Conn, NEW y \in Node, NEW i \in DOMAIN G[e][y]
        PROVE  Plain(G[e][y][i]) \/ Greeting(G[e][y][i])
    <3>1. \A j \in DOMAIN F[e][y] : Plain(F[e][y][j]) \/ Greeting(F[e][y][j])
      BY <1>1 DEF Framed
    <3>2. \/ i \in DOMAIN F[e][y] /\ G[e][y][i] = F[e][y][i]
          \/ e = c /\ y = d /\ G[e][y][i] = m
      BY <1>9
    <3>3. CASE i \in DOMAIN F[e][y] /\ G[e][y][i] = F[e][y][i]
      BY <3>1, <3>3
    <3>4. CASE G[e][y][i] = m
      BY <1>2, <3>4
    <3>5. QED
      BY <3>2, <3>3, <3>4
  <2>2. \A x \in Node : Sound(D[x], x) /\ Connected(D[x], x, up)
    <3>1. \A x \in Node : Sound(B[x], x) /\ Connected(B[x], x, up)
      BY <1>1 DEF Framed
    <3>2. QED
      BY <1>6, <1>8, <3>1
  <2>3. QED
    BY <1>1, <1>8, <1>9, <2>1, <2>2 DEF Framed
<1>11. Queued(G[c][d], "client", n, d)
  BY <1>2, <1>9 DEF Queued
<1>12. Greeted(n, c, d, F, G)
  <2>1. \A e \in Conn : up[e] \subseteq Node
    BY <1>1 DEF Framed
  <2>2. QED
    BY <1>2, <1>3, <1>9, <2>1 DEF Greeted
<1>13. /\ Fair(n, t) /\ Mono(With(n, s), With(n, t))
       /\ \A x, y \in Node : x # n \/ y # d => (Knows(With(n, t), x, y) => Knows(With(n, s), x, y))
  <2>1. /\ Framed(With(n, t), Sent(n, t), up) /\ Grown(Sent(n, s), Sent(n, t)) /\ Links(n, c, d, s, t)
        /\ n # ends[c][1] => Line(With(n, s), d, n, c)
        /\ n = ends[c][1] => Queued(Sent(n, t)[c][d], "client", n, d)
    BY <1>6, <1>9, <1>10, <1>11 DEF D, F, G
  <2>2. Greeted(n, c, d, Sent(n, s), Sent(n, t))
    BY <1>12 DEF F, G
  <2>3. QED
    BY <2>1, <2>2, LinkFair
<1>14. Line(D, n, d, c)
  <2>1. t.byNid = [s.byNid EXCEPT ![d] = c] /\ s.byNid \in [Maybe(Node) -> Maybe(Conn)]
    BY <1>1, <1>6 DEF Links, Broker
  <2>2. QED
    BY <1>8, <2>1 DEF Line, Maybe
<1>15. t.proxies = s.proxies /\ t.watchers = s.watchers
  BY <1>6 DEF Links
<1>16. QED
  BY <1>9, <1>11, <1>13, <1>14, <1>15 DEF Routes, D, F, G

LEMMA ClientRoutes ==
    ASSUME NEW n \in Node, NEW s, Fair(n, s), broker \in [Node -> Broker],
           NEW c \in Conn, NEW d \in Node \ {n}, n \in up[c], d \in up[c], Peer(c, n) = d, n # ends[c][1],
           s.byHdl[c] = None, s.byNid[d] = None, Line(With(n, s), d, n, c),
           NEW t, Linking(n, c, d, s, t, << >>)
    PROVE  Routes(n, c, d, s, t)
<1> DEFINE B == With(n, s)
           D == With(n, t)
           F == Sent(n, s)
           G == Sent(n, t)
<1>1. /\ s \in Broker /\ Sound(s, n) /\ Connected(s, n, up) /\ s.out \in [Conn -> Seq(Packet)]
      /\ B[n] = s /\ Framed(B, F, up)
  BY FairFacts DEF Fair
<1>2. t.out = s.out
  <2> DEFINE q == s.out[c]
  <2>1. q \in Seq(Packet)
    BY <1>1
  <2> HIDE DEF q
  <2>2. q \o << >> = q
    BY <2>1
  <2>3. QED
    BY <1>1, <2>2 DEF Linking, q
<1>3. G = F
  BY <1>2 DEF Sent
<1>4. << >> \in Seq(Packet)
  OBVIOUS
<1>5. Sound(t, n) /\ Connected(t, n, up) /\ t \in Broker /\ Links(n, c, d, s, t)
  BY <1>1, <1>4, LinkingSound DEF Linking
<1>6. D \in [Node -> Broker] /\ D[n] = t /\ \A x \in Node \ {n} : D[x] = B[x]
  BY <1>1, <1>5, WithFacts
<1> HIDE DEF B, D, F, G
<1>7. Framed(D, G, up) /\ Grown(F, G)
  <2>1. \A x \in Node : Sound(D[x], x) /\ Connected(D[x], x, up)
    <3>1. \A x \in Node : Sound(B[x], x) /\ Connected(B[x], x, up)
      BY <1>1 DEF Framed
    <3>2. QED
      BY <1>5, <1>6, <3>1
  <2>2. QED
    BY <1>1, <1>3, <1>6, <2>1 DEF Framed, Grown
<1>8. Greeted(n, c, d, F, G)
  BY <1>3 DEF Greeted
<1>9. /\ Fair(n, t) /\ Mono(With(n, s), With(n, t))
      /\ \A x, y \in Node : x # n \/ y # d => (Knows(With(n, t), x, y) => Knows(With(n, s), x, y))
  BY <1>5, <1>7, <1>8, LinkFair DEF D, F, G
<1>10. Line(D, n, d, c)
  <2>1. t.byNid = [s.byNid EXCEPT ![d] = c] /\ s.byNid \in [Maybe(Node) -> Maybe(Conn)]
    BY <1>1, <1>5 DEF Links, Broker
  <2>2. QED
    BY <1>6, <2>1 DEF Line, Maybe
<1>11. t.proxies = s.proxies /\ t.watchers = s.watchers
  BY <1>5 DEF Links
<1>12. QED
  BY <1>7, <1>9, <1>10, <1>11 DEF Routes, D, F, G


Continues(n, c, d, s, t, u) ==
    Routes(n, c, d, s, u) /\ u.id = t.id /\ Grown(Sent(n, t), Sent(n, u))

LEMMA AskedRoutes ==
    ASSUME NEW n \in Node, NEW c \in Conn, NEW d \in Node \ {n}, NEW s, NEW t, Routes(n, c, d, s, t),
           broker \in [Node -> Broker], wire \in [Conn -> [Node -> Seq(Packet)]]
    PROVE  Continues(n, c, d, s, t, LearnedNewNode(t, n, d))
<1> DEFINE u == LearnedNewNode(t, n, d)
<1>1. /\ Fair(n, t) /\ Mono(With(n, s), With(n, t)) /\ Grown(Sent(n, s), Sent(n, t))
      /\ t.proxies = s.proxies /\ t.watchers = s.watchers /\ Line(With(n, t), n, d, c)
      /\ \A x, y \in Node : x # n \/ y # d => (Knows(With(n, t), x, y) => Knows(With(n, s), x, y))
  BY DEF Routes
<1>2. Knows(With(n, t), n, d)
  BY <1>1, BaspAssumption DEF Line, Knows, Direct, Conn
<1>3. /\ Fair(n, u) /\ Mono(With(n, t), With(n, u)) /\ Grown(Sent(n, t), Sent(n, u)) /\ Aside(t, u)
  BY <1>1, <1>2, LearnedFair
<1>4. With(n, u)[n] = u /\ With(n, t)[n] = t /\ \A x \in Node \ {n} : With(n, u)[x] = With(n, t)[x]
  BY DEF With
<1> HIDE DEF u
<1>5. \A x, y \in Node : Knows(With(n, u), x, y) = Knows(With(n, t), x, y)
  BY <1>3, <1>4 DEF Knows, Direct, Aside
<1>6. Mono(With(n, s), With(n, u))
  BY <1>1, <1>3, MonoTrans
<1>7. Grown(Sent(n, s), Sent(n, u))
  BY <1>1, <1>3, GrownTrans
<1>8. Line(With(n, u), n, d, c)
  BY <1>1, <1>3, <1>4 DEF Line, Aside
<1>9. u.proxies = s.proxies /\ u.watchers = s.watchers /\ u.id = t.id
  BY <1>1, <1>3 DEF Aside
<1>10. \A x, y \in Node : x # n \/ y # d => (Knows(With(n, u), x, y) => Knows(With(n, s), x, y))
  BY <1>1, <1>5
<1>11. QED
  BY <1>3, <1>6, <1>7, <1>8, <1>9, <1>10 DEF Routes, Continues, u

LEMMA RoutesTies ==
    ASSUME NEW n \in Node, NEW c \in Conn, NEW d \in Node \ {n}, NEW s, Well(n, s), NEW t, Routes(n, c, d, s, t),
           broker \in [Node -> Broker]
    PROVE  TiesBut(With(n, t), Sent(n, t), up, n, d) /\ Knows(With(n, t), n, d)
<1> DEFINE B == With(n, s)
           D == With(n, t)
           F == Sent(n, s)
           G == Sent(n, t)
<1>1. /\ Mono(B, D) /\ Grown(F, G) /\ t.proxies = s.proxies /\ t.watchers = s.watchers
      /\ \A x, y \in Node : x # n \/ y # d => (Knows(D, x, y) => Knows(B, x, y))
  BY DEF Routes
<1>2. TiesBut(B, F, up, n, d)
  BY TiesParts DEF Well
<1>3. \A x \in Node : D[x].proxies = B[x].proxies /\ D[x].watchers = B[x].watchers
  BY <1>1 DEF With
<1>4. up \in [Conn -> SUBSET Node] /\ d \in Node
  BY DEF Well, Fair, Framed
<1> HIDE DEF B, D, F, G
<1>5. TiesBut(D, G, up, n, d)
  BY <1>1, <1>2, <1>3, <1>4, TiesGrown
<1>6. Line(D, n, d, c)
  BY DEF Routes, D
<1>7. Knows(D, n, d)
  BY <1>6, BaspAssumption DEF Line, Knows, Direct, Conn
<1>8. QED
  BY <1>5, <1>7 DEF D, G

(* The client answers the server's handshake and announces the proxy it    *)
(* makes for the server's actor; the answer is what introduces it.         *)
LEMMA FinalizeWell ==
    ASSUME NEW n \in Node, NEW c \in Conn, NEW d \in Node \ {n}, NEW s, Well(n, s), NEW t, Routes(n, c, d, s, t),
           broker \in [Node -> Broker], wire \in [Conn -> [Node -> Seq(Packet)]],
           t.id[c] = d, Queued(Sent(n, t)[c][d], "client", n, d)
    PROVE  Well(n, Meet(t, n, c, d)) /\ Mono(With(n, s), With(n, Meet(t, n, c, d)))
<1> DEFINE D == With(n, t)
           G == Sent(n, t)
           m == Message("announce", n, d, None)
           u == Meet(t, n, c, d)
<1>1. TiesBut(D, G, up, n, d) /\ Knows(D, n, d) /\ Fair(n, t) /\ Mono(With(n, s), D) /\ Line(D, n, d, c)
  BY RoutesTies DEF Routes
<1>2. t \in Broker /\ D[n] = t /\ Framed(D, G, up) /\ Roads(D, up) /\ G \in [Conn -> [Node -> Seq(Packet)]]
  BY <1>1, FairFacts DEF Fair, Framed
<1>3. CASE d \in t.proxies
  <2>1. u = t
    BY <1>3 DEF Meet
  <2>2. Ties(D, G, up)
    BY <1>1, <1>2, <1>3, TiesParts
  <2>3. QED
    BY <1>1, <2>1, <2>2 DEF Well
<1>4. CASE d \notin t.proxies
  <2>1. Looked(t, d) = t /\ Route(t, d) = c /\ c # None
    <3>1. t.byNid[d] = c /\ c # None
      BY <1>1, <1>2, BaspAssumption DEF Line, Conn
    <3>2. QED
      BY <3>1 DEF Looked, Route
  <2> DEFINE v == Flush(Write([t EXCEPT !.proxies = @ \cup {d}], c, m), c)
  <2>2. u = v
    BY <1>4, <2>1 DEF Meet
  <2>3. m.src = n /\ m.dst = d
    BY DEF Message
  <2>4. Introduced(D, G, c, d, Len(G[c][d]) + 1, m)
    <3>1. G[c][d] \in Seq(Packet) /\ Queued(G[c][d], "client", n, d)
      BY <1>2
    <3> HIDE DEF D, G, m
    <3>2. Ahead(G[c][d], Len(G[c][d]) + 1, "client", n, d)
      BY <3>1, QueuedAhead
    <3>3. QED
      BY <2>3, <3>2 DEF Introduced
  <2>5. Well(n, v) /\ Mono(With(n, t), With(n, v))
    BY <1>1, <2>4, AnnounceWell
  <2> HIDE DEF v
  <2>6. Mono(With(n, s), With(n, v))
    BY <1>1, <2>5, MonoTrans
  <2>7. QED
    BY <2>2, <2>5, <2>6
<1>5. QED
  BY <1>3, <1>4

(* A stream is flushed, or the middleman actor answered: nothing here      *)
(* depends on it.                                                          *)
LEMMA AlikeWell ==
    ASSUME NEW n \in Node, NEW s, Well(n, s), broker \in [Node -> Broker],
           NEW t, Sound(t, n), Alike(s, t), t.out = s.out
    PROVE  Well(n, t) /\ Mono(With(n, s), With(n, t))
<1>1. Fair(n, s) /\ Ties(With(n, s), Sent(n, s), up) /\ up \in [Conn -> SUBSET Node]
  BY DEF Well, Fair, Framed
<1>2. Fair(n, t) /\ Like(With(n, s), With(n, t)) /\ Sent(n, t) = Sent(n, s)
  BY <1>1, AlikeFair
<1>3. Grown(Sent(n, s), Sent(n, t))
  BY <1>2 DEF Grown
<1>4. Ties(With(n, t), Sent(n, t), up)
  BY <1>1, <1>2, <1>3, LikeTies
<1>5. QED
  BY <1>2, <1>4, LikeSame DEF Well

LEMMA FlushWell ==
    ASSUME NEW n \in Node, NEW s, Well(n, s), broker \in [Node -> Broker], NEW c \in Conn
    PROVE  Well(n, Flush(s, c)) /\ Mono(With(n, s), With(n, Flush(s, c)))
<1>1. s \in Broker /\ Sound(s, n)
  BY FairFacts DEF Well
<1>2. Sound(Flush(s, c), n)
  BY <1>1, FlushSound
<1>3. Alike(s, Flush(s, c)) /\ Flush(s, c).out = s.out
  BY <1>1 DEF Broker, Flush, Alike
<1>4. QED
  BY <1>2, <1>3, AlikeWell

(* What the broker answers after a handshake, and where to. *)
Answer(s, d) ==
    [s EXCEPT !.mail = @ \cup {[what |-> IF d \in s.proxies THEN "proxy" ELSE "nothing", node |-> d]}]

LEMMA AnswerWell ==
    ASSUME NEW n \in Node, NEW s, Well(n, s), broker \in [Node -> Broker], NEW d \in Node
    PROVE  Well(n, Answer(s, d)) /\ Mono(With(n, s), With(n, Answer(s, d)))
<1> DEFINE e == [what |-> IF d \in s.proxies THEN "proxy" ELSE "nothing", node |-> d]
           t == Answer(s, d)
<1>1. s \in Broker /\ Sound(s, n)
  BY FairFacts DEF Well
<1>2. /\ e \in Event /\ e.what # "down"
      /\ \A x \in Node : e = [what |-> "proxy", node |-> x] => x \in s.proxies
  BY DEF Event
<1>3. t = [s EXCEPT !.mail = @ \cup {e}]
  BY DEF Answer
<1> HIDE DEF e, t
<1>4. /\ t \in Broker /\ SameTables(s, t) /\ t.mail = s.mail \cup {e} /\ t.monitored = s.monitored
      /\ t.cached = s.cached /\ t.proxies = s.proxies /\ t.watchers = s.watchers
      /\ Alike(s, t) /\ t.out = s.out
  BY <1>1, <1>2, <1>3 DEF Broker, SameTables, Alike
<1>5. Tended(t)
  BY <1>1, <1>2, <1>4 DEF Sound, Tended
<1>6. n \notin t.proxies \cup t.watchers
  BY <1>1, <1>4 DEF Sound
<1>7. Sound(t, n)
  BY <1>1, <1>4, <1>5, <1>6, SameTablesSound
<1>8. Well(n, t) /\ Mono(With(n, s), With(n, t))
  BY <1>4, <1>7, AlikeWell
<1>9. QED
  BY <1>8 DEF t

LEMMA ServerHandshakeWell ==
    ASSUME NEW n \in Node, NEW s, Well(n, s), broker \in [Node -> Broker],
           wire \in [Conn -> [Node -> Seq(Packet)]],
           NEW c \in Conn, NEW d \in Node \ {n}, n \in up[c], d \in up[c], Peer(c, n) = d, n = ends[c][1],
           s.byHdl[c] = None, s.byNid[d] = None
    PROVE  LET t == ServerHandshake(s, n, c, d) IN Well(n, t) /\ Mono(With(n, s), With(n, t))
<1> DEFINE reply == ClientMessage(n, d)
           a == AddDirect(s, n, c, d, reply)
           l == Linked(s, c, d, reply)
           t == Named(l, c, d)
           u == Named(a, c, d)
           v == Meet(u, n, c, d)
           w == Answer(v, d)
           f == Flush(w, c)
<1>1. s \in Broker /\ Sound(s, n) /\ Fair(n, s)
  BY FairFacts DEF Well
<1>2. ServerHandshake(s, n, c, d) = f
  BY DEF ServerHandshake, FinalizeHandshake, Named, ClientMessage, Answer
<1>3. reply \in Seq(Packet)
  BY DEF ClientMessage, Message, Packet, Types, Maybe
<1>4. u = IF d \in s.indirect THEN t ELSE LearnedNewNode(t, n, d)
  BY <1>1, <1>3, AddDirectNamed
<1> HIDE DEF f, w, v, u, a
<1>5. Joined(s, c, d, reply, l)
  BY <1>1, <1>3, LinkedFacts
<1> HIDE DEF l
<1>6. Renamed(l, t, c, d)
  <2>1. l \in Broker
    BY <1>5 DEF Joined
  <2>2. QED
    BY <2>1, NamedFacts
<1> HIDE DEF t
<1>7. Linking(n, c, d, s, t, reply)
  BY <1>5, <1>6 DEF Joined, Renamed, Linking, Links, Unnoticed
<1>8. Routes(n, c, d, s, t) /\ Queued(Sent(n, t)[c][d], "client", n, d)
  BY <1>1, <1>7, ServerRoutes
<1>9. Continues(n, c, d, s, t, u)
  <2>1. CASE d \in s.indirect
    <3>1. u = t
      BY <1>4, <2>1
    <3>2. Grown(Sent(n, t), Sent(n, t))
      BY DEF Grown
    <3>3. QED
      BY <1>8, <3>1, <3>2 DEF Continues
  <2>2. CASE d \notin s.indirect
    <3>1. u = LearnedNewNode(t, n, d)
      BY <1>4, <2>2
    <3>2. Continues(n, c, d, s, t, LearnedNewNode(t, n, d))
      BY <1>8, AskedRoutes
    <3>3. QED
      BY <3>1, <3>2
  <2>3. QED
    BY <2>1, <2>2
<1>10. u.id[c] = d
  <2>1. t.id = [s.id EXCEPT ![c] = d] /\ s.id \in [Conn -> Maybe(Node)]
    BY <1>1, <1>5, <1>6 DEF Joined, Renamed, Broker
  <2>2. QED
    BY <1>9, <2>1 DEF Continues
<1>11. Queued(Sent(n, u)[c][d], "client", n, d)
  <2>1. Grown(Sent(n, t), Sent(n, u))
    BY <1>9 DEF Continues
  <2>2. QED
    BY <1>8, <2>1, AheadGrown
<1>12. Well(n, v) /\ Mono(With(n, s), With(n, v))
  <2>1. Routes(n, c, d, s, u)
    BY <1>9 DEF Continues
  <2>2. QED
    BY <1>10, <1>11, <2>1, FinalizeWell DEF v
<1>13. Well(n, w) /\ Mono(With(n, v), With(n, w))
  BY <1>12, AnswerWell DEF w
<1>14. Well(n, f) /\ Mono(With(n, w), With(n, f))
  BY <1>13, FlushWell DEF f
<1>15. Mono(With(n, s), With(n, f))
  BY <1>12, <1>13, <1>14, MonoTrans
<1>16. QED
  BY <1>2, <1>14, <1>15

(* The server reads the client's answer: it cannot have a route to the     *)
(* client yet, or they would have dialled each other.                      *)
Dialled(c, d, n) == ends[c][1] = d /\ ends[c][2] = n

LEMMA ClientIsNew ==
    ASSUME Calm, NEW n \in Node, NEW s, Fair(n, s), broker \in [Node -> Broker],
           ends \in Seq({q \in Node \X Node : q[1] # q[2]}),
           NEW c \in Conn, NEW d \in Node \ {n}, Dialled(c, d, n),
           s.byHdl[c] = None, Line(With(n, s), d, n, c)
    PROVE  s.byNid[d] = None
<1> DEFINE B == With(n, s)
<1>1. /\ s \in Broker /\ Sound(s, n) /\ B[n] = s /\ Framed(B, Sent(n, s), up) /\ Roads(B, up)
      /\ B \in [Node -> Broker]
  BY FairFacts DEF Fair, Framed
<1> HIDE DEF B
<1>2. SUFFICES ASSUME s.byNid[d] # None PROVE FALSE
  OBVIOUS
<1>3. Direct(B, n, d)
  BY <1>1, <1>2 DEF Direct
<1>4. PICK e \in Conn : Line(B, n, d, e)
  BY <1>1, <1>3, DirectLine
<1>5. B[n].byHdl[e] = d /\ Stretches(e, n, d) /\ e \in 1 .. Len(ends)
  BY <1>1, <1>4, LineFacts
<1>6. e # c
  BY <1>1, <1>5, BaspAssumption
<1>7. Line(B, d, n, c)
  BY DEF B
<1>8. CASE n = ends[e][1]
  <2>1. ends[e][1] = n /\ ends[e][2] = d
    BY <1>5, <1>8 DEF Stretches
  <2>2. c \in 1 .. Len(ends)
    BY <1>1, <1>7, LineFacts
  <2>3. QED
    BY <1>5, <2>1, <2>2 DEF Calm, Crossed, Dialled
<1>9. CASE n # ends[e][1]
  <2>1. Line(B, d, n, e)
    BY <1>1, <1>4, <1>9 DEF Roads
  <2>2. QED
    BY <1>6, <1>7, <2>1 DEF Line
<1>10. QED
  BY <1>8, <1>9

LEMMA ClientHandshakeWell ==
    ASSUME Calm, NEW n \in Node, NEW s, Well(n, s), broker \in [Node -> Broker],
           wire \in [Conn -> [Node -> Seq(Packet)]], ends \in Seq({q \in Node \X Node : q[1] # q[2]}),
           NEW c \in Conn, NEW d \in Node \ {n}, n \in up[c], d \in up[c], Peer(c, n) = d,
           Dialled(c, d, n), s.byHdl[c] = None, Line(With(n, s), d, n, c)
    PROVE  LET t == ClientHandshake(s, n, c, d) IN
           Well(n, t) /\ Mono(With(n, s), With(n, t)) /\ Line(With(n, t), n, d, c)
<1> DEFINE t == Linked(s, c, d, << >>)
           u == ClientHandshake(s, n, c, d)
<1>1. s \in Broker /\ Sound(s, n) /\ Fair(n, s)
  BY FairFacts DEF Well
<1>2. s.byNid[d] = None
  BY <1>1, ClientIsNew
<1>3. u = IF d \in s.indirect THEN t ELSE LearnedNewNode(t, n, d)
  BY <1>2 DEF ClientHandshake, AddDirect, Linked
<1>4. << >> \in Seq(Packet)
  OBVIOUS
<1>5. Joined(s, c, d, << >>, t)
  BY <1>1, <1>4, LinkedFacts
<1> HIDE DEF t, u
<1>6. n # ends[c][1]
  BY DEF Dialled
<1>7. Linking(n, c, d, s, t, << >>)
  BY <1>5, <1>6 DEF Joined, Linking, Links
<1>8. Routes(n, c, d, s, t)
  BY <1>1, <1>2, <1>6, <1>7, ClientRoutes
<1>9. Routes(n, c, d, s, u)
  <2>1. Continues(n, c, d, s, t, LearnedNewNode(t, n, d))
    BY <1>8, AskedRoutes
  <2>2. QED
    BY <1>3, <1>8, <2>1 DEF Continues
<1>10. /\ TiesBut(With(n, u), Sent(n, u), up, n, d) /\ Fair(n, u) /\ Mono(With(n, s), With(n, u))
       /\ Line(With(n, u), n, d, c)
  BY <1>9, RoutesTies DEF Routes
<1>11. Line(With(n, u), d, n, c)
  BY <1>10 DEF Mono
<1>12. Knows(With(n, u), d, n)
  BY <1>11, BaspAssumption DEF Line, Knows, Direct, Conn
<1> DEFINE D == With(n, u)
           G == Sent(n, u)
<1> HIDE DEF D, G
<1>13. Ties(D, G, up)
  <2>1. TiesBut(D, G, up, n, d) /\ Knows(D, d, n) /\ d \in Node
    BY <1>10, <1>12 DEF D, G
  <2>2. QED
    BY <2>1, TiesParts
<1>14. QED
  BY <1>10, <1>13 DEF Well, u, D, G


-----------------------------------------------------------------------------
(* The head of what travels to n on c is dropped                           *)

Shifted(q, r) ==
    /\ 1 \in DOMAIN q
    /\ \A i \in DOMAIN r : i \in Nat /\ i + 1 \in DOMAIN q /\ r[i] = q[i + 1]
    /\ \A type, src, dst :
          /\ Queued(q, type, src, dst) => Says(q[1], type, src, dst) \/ Queued(r, type, src, dst)
          /\ \A i \in Nat : Ahead(q, i + 1, type, src, dst) =>
                Says(q[1], type, src, dst) \/ Ahead(r, i, type, src, dst)

LEMMA TailShifted ==
    ASSUME NEW q \in Seq(Packet), q # << >>
    PROVE  Shifted(q, Tail(q))
<1> DEFINE r == Tail(q)
<1>1. /\ 1 \in DOMAIN q /\ DOMAIN q = 1 .. Len(q) /\ Len(q) \in Nat
      /\ DOMAIN r = 1 .. Len(q) - 1 /\ \A i \in 1 .. Len(q) - 1 : r[i] = q[i + 1]
  OBVIOUS
<1> HIDE DEF r
<1>2. \A i \in DOMAIN r : i \in Nat /\ i + 1 \in DOMAIN q /\ r[i] = q[i + 1]
  BY <1>1
<1>3. ASSUME NEW j \in DOMAIN q, j # 1
      PROVE  j - 1 \in DOMAIN r /\ r[j - 1] = q[j]
  BY <1>1, <1>3
<1>4. ASSUME NEW type, NEW src, NEW dst, Queued(q, type, src, dst), ~Says(q[1], type, src, dst)
      PROVE  Queued(r, type, src, dst)
  <2>1. PICK j \in DOMAIN q : Says(q[j], type, src, dst)
    BY <1>4 DEF Queued
  <2>2. j # 1
    BY <1>4, <2>1
  <2>3. j - 1 \in DOMAIN r /\ r[j - 1] = q[j]
    BY <1>3, <2>2
  <2>4. QED
    BY <2>1, <2>3 DEF Queued
<1>5. ASSUME NEW type, NEW src, NEW dst, NEW i \in Nat, Ahead(q, i + 1, type, src, dst),
             ~Says(q[1], type, src, dst)
      PROVE  Ahead(r, i, type, src, dst)
  <2>1. PICK j \in DOMAIN q : j < i + 1 /\ Says(q[j], type, src, dst)
    BY <1>5 DEF Ahead
  <2>2. j # 1 /\ j \in Nat
    BY <1>1, <1>5, <2>1
  <2>3. j - 1 \in DOMAIN r /\ r[j - 1] = q[j] /\ j - 1 < i
    BY <1>3, <2>1, <2>2
  <2>4. QED
    BY <2>1, <2>3 DEF Ahead
<1>6. QED
  BY <1>1, <1>2, <1>4, <1>5 DEF Shifted, r

Dropped(F, G, c, n) ==
    /\ Shifted(F[c][n], G[c][n])
    /\ \A e \in Conn, y \in Node : e # c \/ y # n => G[e][y] = F[e][y]

(* What is left of the mail is as good as before.                          *)
LEMMA DropMail ==
    ASSUME NEW B, NEW F, NEW U, Framed(B, F, U), Roads(B, U), Mail(B, F, U),
           NEW c \in Conn, NEW n \in U[c], NEW G, Dropped(F, G, c, n), NEW m, m = F[c][n][1],
           m.type = "client" => Line(B, n, Peer(c, n), c), Relieved(B, F, U, n, m)
    PROVE  Mail(B, G, U)
<1> DEFINE q == F[c][n]
           r == G[c][n]
<1>1. /\ n \in Node /\ Shifted(q, r) /\ B \in [Node -> Broker]
      /\ \A e \in Conn, y \in Node : e # c \/ y # n => G[e][y] = F[e][y]
      /\ \A e \in Conn : U[e] \subseteq Node
  BY DEF Framed, Dropped
<1>2. 1 \in DOMAIN q
  BY <1>1 DEF Shifted
<1>3. m.type = "client" => Says(m, "client", Peer(c, n), n)
  BY <1>2 DEF Mail, Letter
<1>4. \A src, dst : Says(m, "spawn", src, dst) =>
          IF dst = n THEN Knows(B, n, src)
          ELSE \A e \in Conn : Line(B, n, dst, e) => Queued(F[e][dst], "spawn", src, dst)
  BY DEF Says, Relieved
<1>5. \A src, dst : Says(m, "client", src, dst) => src = Peer(c, n) /\ dst = n /\ Line(B, n, src, c)
  BY <1>3 DEF Says
<1> HIDE DEF q, r
<1>6. \A e \in Conn, y \in Node : y # n => G[e][y] = F[e][y]
  BY <1>1
<1>7. ASSUME NEW e \in Conn, NEW y \in U[e], NEW i, NEW j, NEW x, Plain(x),
             Introduced(B, F, e, y, j, x),
             IF e = c /\ y = n THEN i \in Nat /\ j = i + 1 ELSE j = i
      PROVE  Introduced(B, G, e, y, i, x)
  <2>1. x.dst \in Node /\ x.src \in Node /\ y \in Node
    BY <1>1, <1>7 DEF Plain
  <2>2. CASE Knows(B, x.dst, x.src)
    BY <2>2 DEF Introduced
  <2>3. ASSUME x.dst = y, NEW type \in {"client", "spawn"}, Ahead(F[e][y], j, type, x.src, y)
        PROVE  Introduced(B, G, e, y, i, x)
    <3>1. CASE e = c /\ y = n
      <4>1. Says(m, type, x.src, y) \/ Ahead(G[e][y], i, type, x.src, y)
        BY <1>1, <1>7, <2>3, <3>1 DEF Shifted, q, r
      <4>2. CASE Ahead(G[e][y], i, type, x.src, y)
        BY <2>3, <4>2 DEF Introduced
      <4>3. CASE Says(m, type, x.src, y)
        <5>1. Knows(B, n, x.src)
          BY <1>1, <1>4, <1>5, <2>1, <2>3, <3>1, <4>3, DirectLine
        <5>2. QED
          BY <2>3, <3>1, <5>1 DEF Introduced
      <4>4. QED
        BY <4>1, <4>2, <4>3
    <3>2. CASE ~(e = c /\ y = n)
      <4>1. G[e][y] = F[e][y] /\ i = j
        BY <1>1, <1>7, <2>1, <3>2
      <4>2. QED
        BY <2>3, <4>1 DEF Introduced
    <3>3. QED
      BY <3>1, <3>2
  <2>4. ASSUME x.dst # y, Direct(B, y, x.dst), Ahead(F[e][y], j, "spawn", x.src, x.dst)
        PROVE  Introduced(B, G, e, y, i, x)
    <3>1. CASE e = c /\ y = n
      <4>1. Says(m, "spawn", x.src, x.dst) \/ Ahead(G[e][y], i, "spawn", x.src, x.dst)
        BY <1>1, <1>7, <2>4, <3>1 DEF Shifted, q, r
      <4>2. CASE Ahead(G[e][y], i, "spawn", x.src, x.dst)
        BY <2>4, <4>2 DEF Introduced
      <4>3. CASE Says(m, "spawn", x.src, x.dst)
        <5>1. PICK f \in Conn : Line(B, n, x.dst, f)
          BY <1>1, <2>1, <2>4, <3>1, DirectLine
        <5>2. Queued(F[f][x.dst], "spawn", x.src, x.dst)
          BY <1>4, <2>4, <3>1, <4>3, <5>1
        <5>3. G[f][x.dst] = F[f][x.dst]
          BY <1>6, <2>1, <2>4, <3>1
        <5>4. QED
          BY <2>4, <3>1, <5>1, <5>2, <5>3 DEF Introduced
      <4>4. QED
        BY <4>1, <4>2, <4>3
    <3>2. CASE ~(e = c /\ y = n)
      <4>1. G[e][y] = F[e][y] /\ i = j
        BY <1>1, <1>7, <2>1, <3>2
      <4>2. QED
        BY <2>4, <4>1 DEF Introduced
    <3>3. QED
      BY <3>1, <3>2
  <2>5. ASSUME x.dst # y, Direct(B, y, x.dst),
               NEW f \in Conn, Line(B, y, x.dst, f), Queued(F[f][x.dst], "spawn", x.src, x.dst)
        PROVE  Introduced(B, G, e, y, i, x)
    <3>1. CASE f = c /\ x.dst = n
      <4>1. Says(m, "spawn", x.src, x.dst) \/ Queued(G[f][x.dst], "spawn", x.src, x.dst)
        BY <1>1, <2>5, <3>1 DEF Shifted, q, r
      <4>2. CASE Says(m, "spawn", x.src, x.dst)
        <5>1. Knows(B, x.dst, x.src)
          BY <1>4, <3>1, <4>2
        <5>2. QED
          BY <5>1 DEF Introduced
      <4>3. CASE Queued(G[f][x.dst], "spawn", x.src, x.dst)
        BY <2>5, <4>3 DEF Introduced
      <4>4. QED
        BY <4>1, <4>2, <4>3
    <3>2. CASE ~(f = c /\ x.dst = n)
      <4>1. G[f][x.dst] = F[f][x.dst]
        BY <1>1, <2>1, <3>2
      <4>2. QED
        BY <2>5, <4>1 DEF Introduced
    <3>3. QED
      BY <3>1, <3>2
  <2>6. QED
    BY <1>7, <2>2, <2>3, <2>4, <2>5 DEF Introduced
<1>8. ASSUME NEW e \in Conn, NEW y \in U[e], NEW i, NEW j, NEW x, x.type \in Routed => Plain(x),
             NEW p, Letter(B, F, U, e, p, y, j, x), e = c /\ y = n => p = Peer(c, n),
             IF e = c /\ y = n THEN i \in Nat /\ j = i + 1 ELSE j = i
      PROVE  Letter(B, G, U, e, p, y, i, x)
  <2>1. SUFFICES ASSUME Posted(B, F, e, p, y, j, x), x.type \in Routed
                 PROVE  Posted(B, G, e, p, y, i, x)
    BY <1>8 DEF Letter
  <2>2. Line(B, y, p, e) \/ Ahead(G[e][y], i, "client", p, y)
    <3>1. Line(B, y, p, e) \/ Ahead(F[e][y], j, "client", p, y)
      BY <2>1 DEF Posted
    <3>2. CASE e = c /\ y = n /\ Ahead(F[e][y], j, "client", p, y)
      <4>1. Says(m, "client", p, y) \/ Ahead(G[e][y], i, "client", p, y)
        BY <1>1, <1>8, <3>2 DEF Shifted, q, r
      <4>2. Says(m, "client", p, y) => Line(B, n, p, c)
        BY <1>5
      <4>3. QED
        BY <3>2, <4>1, <4>2
    <3>3. CASE ~(e = c /\ y = n)
      <4>1. G[e][y] = F[e][y] /\ i = j
        BY <1>1, <1>8, <3>3
      <4>2. QED
        BY <3>1, <4>1
    <3>4. QED
      BY <3>1, <3>2, <3>3
  <2>3. x.type = "announce" => Introduced(B, G, e, y, i, x)
    <3>1. x.type = "announce" => Introduced(B, F, e, y, j, x)
      BY <2>1 DEF Posted
    <3>2. QED
      BY <1>7, <1>8, <2>1, <3>1
  <2>4. QED
    BY <2>1, <2>2, <2>3 DEF Posted
<1>9. ASSUME NEW e \in Conn, NEW y \in U[e], NEW i \in DOMAIN G[e][y]
      PROVE  Letter(B, G, U, e, Peer(e, y), y, i, G[e][y][i])
  <2>1. \A j \in DOMAIN F[e][y] :
            /\ Letter(B, F, U, e, Peer(e, y), y, j, F[e][y][j])
            /\ F[e][y][j].type \in Routed => Plain(F[e][y][j])
    BY <1>1 DEF Mail, Framed, Greeting, Routed
  <2>2. CASE e = c /\ y = n
    <3>1. i \in Nat /\ i + 1 \in DOMAIN F[e][y] /\ G[e][y][i] = F[e][y][i + 1]
      BY <1>1, <1>9, <2>2 DEF Shifted, q, r
    <3> DEFINE x == F[e][y][i + 1]
               j == i + 1
    <3>2. /\ Letter(B, F, U, e, Peer(e, y), y, j, x) /\ (x.type \in Routed => Plain(x))
      BY <2>1, <3>1
    <3>3. IF e = c /\ y = n THEN i \in Nat /\ j = i + 1 ELSE j = i
      BY <2>2, <3>1
    <3>4. e = c /\ y = n => Peer(e, y) = Peer(c, n)
      OBVIOUS
    <3> HIDE DEF x, j
    <3>5. Letter(B, G, U, e, Peer(e, y), y, i, x)
      BY <1>8, <3>2, <3>3, <3>4
    <3>6. QED
      BY <3>1, <3>5 DEF x
  <2>3. CASE ~(e = c /\ y = n)
    <3>1. G[e][y] = F[e][y]
      BY <1>1, <2>3
    <3>2. /\ Letter(B, F, U, e, Peer(e, y), y, i, G[e][y][i])
          /\ G[e][y][i].type \in Routed => Plain(G[e][y][i])
      BY <1>9, <2>1, <3>1
    <3>3. QED
      BY <1>8, <2>3, <3>2
  <2>4. QED
    BY <2>2, <2>3
<1>10. QED
  BY <1>9 DEF Mail


LEMMA DropAnswered ==
    ASSUME NEW B, NEW F, NEW U, Framed(B, F, U), Mail(B, F, U), Answered(B, F),
           NEW c \in Conn, NEW n \in U[c], NEW G, Dropped(F, G, c, n), NEW m, m = F[c][n][1],
           m.type = "client" => Line(B, n, Peer(c, n), c)
    PROVE  Answered(B, G)
<1>1. /\ Shifted(F[c][n], G[c][n])
      /\ \A e \in Conn, y \in Node : e # c \/ y # n => G[e][y] = F[e][y]
  BY DEF Dropped
<1>2. 1 \in DOMAIN F[c][n]
  BY <1>1 DEF Shifted
<1>3. m.type = "client" => Says(m, "client", Peer(c, n), n)
  BY <1>2 DEF Mail, Letter
<1>4. ASSUME NEW k \in Node, NEW s \in Node, NEW e \in Conn, Line(B, k, s, e), k = ends[e][1]
      PROVE  Line(B, s, k, e) \/ Queued(G[e][s], "client", k, s)
  <2>1. Line(B, s, k, e) \/ Queued(F[e][s], "client", k, s)
    BY <1>4 DEF Answered
  <2>2. CASE e = c /\ s = n /\ Queued(F[e][s], "client", k, s)
    <3>1. Says(m, "client", k, s) \/ Queued(G[e][s], "client", k, s)
      BY <1>1, <2>2 DEF Shifted
    <3>2. Says(m, "client", k, s) => Line(B, s, k, e)
      BY <1>3, <2>2 DEF Says
    <3>3. QED
      BY <3>1, <3>2
  <2>3. CASE ~(e = c /\ s = n)
    BY <1>1, <2>1, <2>3
  <2>4. QED
    BY <2>1, <2>2, <2>3
<1>5. QED
  BY <1>4 DEF Answered

LEMMA DropTies ==
    ASSUME NEW B, NEW F, NEW U, Framed(B, F, U), Ties(B, F, U),
           NEW c \in Conn, NEW n \in U[c], NEW G, Dropped(F, G, c, n), NEW m, m = F[c][n][1],
           Relieved(B, F, U, n, m)
    PROVE  Ties(B, G, U)
<1>1. /\ Shifted(F[c][n], G[c][n]) /\ \A e \in Conn : U[e] \subseteq Node
      /\ \A e \in Conn, y \in Node : e # c \/ y # n => G[e][y] = F[e][y]
  BY DEF Dropped, Framed
<1>2. ASSUME NEW type, NEW src, NEW dst, InFlight(F, U, type, src, dst)
      PROVE  InFlight(G, U, type, src, dst) \/ Says(m, type, src, dst)
  <2>0. PICK e \in Conn : \E y \in U[e] : Queued(F[e][y], type, src, dst)
    BY <1>2 DEF InFlight
  <2>1. PICK y \in U[e] : Queued(F[e][y], type, src, dst)
    BY <2>0
  <2>2. CASE e = c /\ y = n
    <3>1. Says(m, type, src, dst) \/ Queued(G[e][y], type, src, dst)
      BY <1>1, <2>1, <2>2 DEF Shifted
    <3>2. QED
      BY <3>1 DEF InFlight
  <2>3. CASE ~(e = c /\ y = n)
    <3>1. G[e][y] = F[e][y]
      BY <1>1, <2>3
    <3>2. QED
      BY <2>1, <3>1 DEF InFlight
  <2>4. QED
    BY <2>2, <2>3
<1>3. ASSUME NEW type, NEW src, NEW dst, Waiting(F, type, src, dst)
      PROVE  Waiting(G, type, src, dst) \/ Says(m, type, src, dst)
  <2>1. PICK e \in Conn, y \in Node : Queued(F[e][y], type, src, dst)
    BY <1>3 DEF Waiting
  <2>2. CASE e = c /\ y = n
    BY <1>1, <2>1, <2>2 DEF Shifted, Waiting
  <2>3. CASE ~(e = c /\ y = n)
    BY <1>1, <2>1, <2>3 DEF Waiting
  <2>4. QED
    BY <2>2, <2>3
<1>4. ASSUME NEW type, NEW src, NEW dst, Elsewhere(F, U, n, type, src, dst)
      PROVE  InFlight(G, U, type, src, dst) /\ Waiting(G, type, src, dst)
  <2>0. PICK e \in Conn : \E y \in U[e] \ {n} : Queued(F[e][y], type, src, dst)
    BY <1>4 DEF Elsewhere
  <2>1. PICK y \in U[e] \ {n} : Queued(F[e][y], type, src, dst)
    BY <2>0
  <2>2. G[e][y] = F[e][y]
    BY <1>1
  <2>3. QED
    BY <1>1, <2>1, <2>2 DEF InFlight, Waiting
<1>5. ASSUME NEW x \in Node, NEW d \in Node, x # d, d \in B[x].proxies
      PROVE  \/ x \in B[d].watchers
             \/ Waiting(G, "announce", x, d) \/ InFlight(G, U, "kill", d, x)
  <2>1. \/ x \in B[d].watchers
        \/ Waiting(F, "announce", x, d) \/ InFlight(F, U, "kill", d, x)
    BY <1>5 DEF Ties
  <2>2. ASSUME Says(m, "announce", x, d) \/ Says(m, "kill", d, x) PROVE Held(B, F, U, n, x, d)
    BY <2>2 DEF Says, Relieved
  <2>3. QED
    BY <1>2, <1>3, <1>4, <1>5, <2>1, <2>2 DEF Held
<1>6. QED
  BY <1>5 DEF Ties

(* Broker n has handled the message at the head, in state t, and drops it. *)
LEMMA DropGood ==
    ASSUME NEW n \in Node, NEW t, Well(n, t), NEW c \in Conn, n \in up[c],
           NEW G, G \in [Conn -> [Node -> Seq(Packet)]], Dropped(Sent(n, t), G, c, n),
           NEW m, m = Sent(n, t)[c][n][1],
           m.type = "client" => Line(With(n, t), n, Peer(c, n), c),
           Relieved(With(n, t), Sent(n, t), up, n, m),
           NEW C, Like(With(n, t), C)
    PROVE  Good(C, G, up)
<1> DEFINE B == With(n, t)
           F == Sent(n, t)
<1>1. /\ Framed(B, F, up) /\ Roads(B, up) /\ Mail(B, F, up) /\ Answered(B, F) /\ Ties(B, F, up)
  BY DEF Well, Fair
<1> HIDE DEF B, F
<1>2. Mail(B, G, up)
  BY <1>1, DropMail DEF B, F
<1>3. Answered(B, G)
  BY <1>1, DropAnswered DEF B, F
<1>4. Ties(B, G, up)
  BY <1>1, DropTies DEF B, F
<1>5. Framed(B, G, up)
  <2>1. ASSUME NEW e \in Conn, NEW y \in Node, NEW i \in DOMAIN G[e][y]
        PROVE  Plain(G[e][y][i]) \/ Greeting(G[e][y][i])
    <3>1. \A j \in DOMAIN F[e][y] : Plain(F[e][y][j]) \/ Greeting(F[e][y][j])
      BY <1>1 DEF Framed
    <3>2. \E j \in DOMAIN F[e][y] : G[e][y][i] = F[e][y][j]
      <4>1. CASE e = c /\ y = n
        BY <2>1, <4>1 DEF Dropped, Shifted, F
      <4>2. CASE ~(e = c /\ y = n)
        BY <2>1, <4>2 DEF Dropped, F
      <4>3. QED
        BY <4>1, <4>2
    <3>3. QED
      BY <3>1, <3>2
  <2>2. QED
    BY <1>1, <2>1 DEF Framed
<1>6. Like(B, C)
  BY DEF B
<1>7. Roads(C, up) /\ Mail(C, G, up) /\ Answered(C, G)
  BY <1>1, <1>2, <1>3, <1>5, <1>6, LikeFair
<1>8. Ties(C, G, up)
  <2>1. Grown(G, G) /\ up \in [Conn -> SUBSET Node]
    BY <1>1 DEF Grown, Framed
  <2>2. QED
    BY <1>4, <1>6, <2>1, LikeTies
<1>9. QED
  BY <1>7, <1>8 DEF Good


-----------------------------------------------------------------------------
(* A connection that is no route is left                                    *)

Idles(B, c) == \A x, y \in Node : ~Line(B, x, y, c)

(* The client leaves a connection to a server it knows already, and the    *)
(* server follows when it has read what the client wrote.                  *)
Leaves(F, U, c, n, V) ==
    /\ n \in U[c] /\ V = [U EXCEPT ![c] = U[c] \ {n}]
    /\ \/ n = ends[c][1] /\ Peer(c, n) \in U[c]
       \/ Peer(c, n) \notin U[c] /\ \A i \in DOMAIN F[c][n] : F[c][n][i].type = "announce"

LEMMA IdleMail ==
    ASSUME NEW B, NEW F, NEW U, Framed(B, F, U), Mail(B, F, U), NEW c \in Conn, Idles(B, c),
           NEW y \in U[c], Peer(c, y) \in U[c], NEW i \in DOMAIN F[c][y]
    PROVE  F[c][y][i].type \notin Routed \cup {"client"}
<1>1. y \in Node /\ Peer(c, y) \in Node
  BY PeerFacts
<1>2. Letter(B, F, U, c, Peer(c, y), y, i, F[c][y][i])
  BY DEF Mail
<1>3. ~Line(B, Peer(c, y), y, c)
  BY <1>1 DEF Idles
<1>4. QED
  BY <1>2, <1>3 DEF Letter, Posted

LEMMA LeavesFacts ==
    ASSUME NEW F, NEW U \in [Conn -> SUBSET Node], NEW c \in Conn, NEW n, NEW V, Leaves(F, U, c, n, V)
    PROVE  /\ V \in [Conn -> SUBSET Node] /\ V[c] = U[c] \ {n}
           /\ \A e \in Conn : e # c => V[e] = U[e]
BY DEF Leaves

LEMMA LeavingRoads ==
    ASSUME NEW B, NEW F, NEW U, Framed(B, F, U), Roads(B, U), NEW c \in Conn, Idles(B, c),
           NEW n, NEW V, Leaves(F, U, c, n, V)
    PROVE  Framed(B, F, V) /\ Roads(B, V)
<1>0. U \in [Conn -> SUBSET Node]
  BY DEF Framed
<1>1. /\ V \in [Conn -> SUBSET Node] /\ V[c] = U[c] \ {n}
      /\ \A e \in Conn : e # c => V[e] = U[e]
  BY <1>0, LeavesFacts
<1>2. ASSUME NEW x \in Node PROVE Connected(B[x], x, V)
  <2>1. ASSUME NEW d \in Node, B[x].byNid[d] # None
        PROVE  x \in V[B[x].byNid[d]] /\ Peer(B[x].byNid[d], x) = d
    <3>1. Connected(B[x], x, U) /\ B \in [Node -> Broker]
      BY DEF Framed
    <3>2. PICK e \in Conn : Line(B, x, d, e)
      BY <2>1, <3>1, DirectLine DEF Direct
    <3>3. e # c
      BY <3>2 DEF Idles
    <3>4. QED
      BY <1>1, <2>1, <3>1, <3>2, <3>3 DEF Connected, Line
  <2>2. QED
    BY <2>1 DEF Connected
<1>3. ASSUME NEW e \in Conn, V[e] # {} PROVE U[e] # {} /\ V[e] \subseteq U[e]
  BY <1>1, <1>3
<1>4. Framed(B, F, V)
  BY <1>1, <1>2, <1>3 DEF Framed
<1>5. ASSUME NEW x \in Node, NEW d \in Node, NEW e \in Conn, Line(B, x, d, e)
      PROVE  d \in V[e]
  <2>1. e # c
    BY <1>5 DEF Idles
  <2>2. d \in U[e]
    BY <1>5 DEF Roads
  <2>3. QED
    BY <1>1, <2>1, <2>2
<1>6. ASSUME NEW e \in Conn, e <= Len(ends), ends[e][1] \in V[e] PROVE ends[e][2] \in V[e]
  <2>1. ends[e][1] \in U[e]
    BY <1>1, <1>6
  <2>2. ends[e][2] \in U[e]
    BY <1>6, <2>1 DEF Roads
  <2>3. CASE e = c
    <3>1. n # ends[c][1]
      BY <1>1, <1>6, <2>3
    <3>2. Peer(c, n) \notin U[c]
      BY <3>1 DEF Leaves
    <3>3. Peer(c, n) = ends[c][1]
      BY <3>1 DEF Peer
    <3>4. QED
      BY <2>1, <2>3, <3>2, <3>3
  <2>4. CASE e # c
    BY <1>1, <2>2, <2>4
  <2>5. QED
    BY <2>3, <2>4
<1>7. Roads(B, V)
  BY <1>5, <1>6 DEF Roads
<1>8. QED
  BY <1>4, <1>7

LEMMA LeavingGood ==
    ASSUME NEW B, NEW F, NEW U, Framed(B, F, U), Good(B, F, U), NEW c \in Conn, Idles(B, c),
           NEW n, NEW V, Leaves(F, U, c, n, V)
    PROVE  Framed(B, F, V) /\ Good(B, F, V)
<1>0. U \in [Conn -> SUBSET Node]
  BY DEF Framed
<1>1. /\ V \in [Conn -> SUBSET Node] /\ V[c] = U[c] \ {n}
      /\ \A e \in Conn : e # c => V[e] = U[e]
  BY <1>0, LeavesFacts
<1>2. Framed(B, F, V) /\ Roads(B, V)
  BY LeavingRoads DEF Good
<1>3. Mail(B, F, U) /\ Answered(B, F) /\ Ties(B, F, U)
  BY DEF Good
<1>4. n \in U[c] /\ n \in Node /\ Peer(c, n) \in Node /\ Peer(c, Peer(c, n)) = n /\ U[c] \subseteq {n, Peer(c, n)}
  <2>1. n \in U[c]
    BY DEF Leaves
  <2>2. U[c] \subseteq {ends[c][1], ends[c][2]}
    BY <2>1 DEF Framed
  <2>3. QED
    BY <2>1, <2>2, PeerFacts
<1>5. Peer(c, n) \in U[c] \/ \A i \in DOMAIN F[c][n] : F[c][n][i].type = "announce"
  BY DEF Leaves
<1>6. ASSUME NEW i \in DOMAIN F[c][n] PROVE F[c][n][i].type # "kill"
  <2>1. CASE Peer(c, n) \in U[c]
    <3>1. F[c][n][i].type \notin Routed \cup {"client"}
      BY <1>3, <1>4, <1>6, <2>1, IdleMail
    <3>2. QED
      BY <3>1 DEF Routed
  <2>2. QED
    BY <1>5, <1>6, <2>1
<1>7. ASSUME NEW e \in Conn, NEW y \in V[e], NEW i \in DOMAIN F[e][y]
      PROVE  Letter(B, F, V, e, Peer(e, y), y, i, F[e][y][i])
  <2>1. y \in U[e]
    BY <1>1, <1>7
  <2>2. Letter(B, F, U, e, Peer(e, y), y, i, F[e][y][i])
    BY <1>3, <1>7, <2>1 DEF Mail
  <2>3. CASE e # c
    <3>1. V[e] = U[e]
      BY <1>1, <2>3
    <3>2. QED
      BY <2>2, <3>1 DEF Letter
  <2>4. CASE e = c
    <3>1. y = Peer(c, n) /\ Peer(c, y) \in U[c]
      BY <1>1, <1>4, <1>7, <2>1, <2>4
    <3>2. F[c][y][i].type \notin Routed \cup {"client"}
      BY <1>3, <1>7, <2>1, <2>4, <3>1, IdleMail
    <3>3. QED
      BY <2>4, <3>2 DEF Letter
  <2>5. QED
    BY <2>3, <2>4
<1>8. Mail(B, F, V)
  BY <1>7 DEF Mail
<1>9. ASSUME NEW src, NEW dst, InFlight(F, U, "kill", src, dst)
      PROVE  InFlight(F, V, "kill", src, dst)
  <2>1. PICK e \in Conn : \E y \in U[e] : Queued(F[e][y], "kill", src, dst)
    BY <1>9 DEF InFlight
  <2>2. PICK y \in U[e] : Queued(F[e][y], "kill", src, dst)
    BY <2>1
  <2>3. ~(e = c /\ y = n)
    BY <1>6, <2>2 DEF Queued, Says
  <2>4. y \in V[e]
    BY <1>1, <2>3
  <2>5. QED
    BY <2>2, <2>4 DEF InFlight
<1>10. Ties(B, F, V)
  BY <1>3, <1>9 DEF Ties
<1>11. QED
  BY <1>2, <1>3, <1>8, <1>10 DEF Good


HeldSame(F, H, V) == \A e \in Conn : \A y \in V[e] : H[e][y] = F[e][y]

(* What is on its way to a node that does not hold the connection is       *)
(* nobody's business, announcements apart.                                 *)
LEMMA UnheldGood ==
    ASSUME NEW B, NEW F, NEW V, Framed(B, F, V), Good(B, F, V),
           NEW H, HeldSame(F, H, V),
           \A src, dst : Waiting(F, "announce", src, dst) => Waiting(H, "announce", src, dst)
    PROVE  Good(B, H, V)
<1>1. Roads(B, V) /\ Mail(B, F, V) /\ Answered(B, F) /\ Ties(B, F, V)
  BY DEF Good
<1>2. ASSUME NEW x \in Node, NEW d \in Node, NEW e \in Conn, Line(B, x, d, e)
      PROVE  H[e][d] = F[e][d]
  BY <1>1, <1>2 DEF Roads, HeldSame
<1>3. ASSUME NEW e \in Conn, NEW y \in V[e], NEW i \in DOMAIN H[e][y]
      PROVE  Letter(B, H, V, e, Peer(e, y), y, i, H[e][y][i])
  <2> DEFINE m == F[e][y][i]
             p == Peer(e, y)
  <2>1. H[e][y] = F[e][y] /\ i \in DOMAIN F[e][y]
    BY <1>3 DEF HeldSame
  <2>2. Letter(B, F, V, e, p, y, i, m)
    BY <1>1, <2>1 DEF Mail
  <2>3. y \in Node /\ p \in Node
    BY PeerFacts
  <2>4. m.type \in Routed => Plain(m)
    BY <2>1, <2>3 DEF Framed, Greeting, Routed
  <2> HIDE DEF m, p
  <2>5. ASSUME Plain(m), Introduced(B, F, e, y, i, m) PROVE Introduced(B, H, e, y, i, m)
    <3>1. m.dst \in Node
      BY <2>5 DEF Plain
    <3>2. \A g \in Conn : Line(B, y, m.dst, g) => H[g][m.dst] = F[g][m.dst]
      BY <1>2, <2>3, <3>1
    <3>3. QED
      BY <2>1, <2>5, <3>2 DEF Introduced
  <2>6. ASSUME Plain(m), Posted(B, F, e, p, y, i, m) PROVE Posted(B, H, e, p, y, i, m)
    BY <2>1, <2>5, <2>6 DEF Posted
  <2>7. Letter(B, H, V, e, p, y, i, m)
    BY <2>2, <2>4, <2>6 DEF Letter
  <2>8. QED
    BY <2>1, <2>7 DEF m, p
<1>4. Answered(B, H)
  BY <1>1, <1>2 DEF Answered
<1>5. ASSUME NEW type, NEW src, NEW dst, InFlight(F, V, type, src, dst)
      PROVE  InFlight(H, V, type, src, dst)
  BY <1>5 DEF InFlight, HeldSame
<1>6. Ties(B, H, V)
  BY <1>1, <1>5 DEF Ties
<1>7. QED
  BY <1>1, <1>3, <1>4, <1>6 DEF Good, Mail

(* Node n makes a proxy for d's actor, if it has none, and announces it on *)
(* the connection it leaves.                                               *)
Announced(B, F, C, G, c, n, d) ==
    /\ \A x \in Node :
          /\ C[x].byHdl = B[x].byHdl /\ C[x].byNid = B[x].byNid /\ C[x].hops = B[x].hops /\ C[x].id = B[x].id
          /\ C[x].servers = B[x].servers /\ C[x].watchers = B[x].watchers
          /\ C[x].proxies = IF x = n THEN B[n].proxies \cup {d} ELSE B[x].proxies
    /\ Grown(F, G)
    /\ \A e \in Conn, y \in Node : \A i \in DOMAIN G[e][y] :
          \/ i \in DOMAIN F[e][y]
          \/ e = c /\ y = d /\ d \notin B[n].proxies /\ Says(G[e][y][i], "announce", n, d)
    /\ d \notin B[n].proxies => Queued(G[c][d], "announce", n, d)

LEMMA AnnouncedGood ==
    ASSUME NEW B, NEW F, NEW V, Framed(B, F, V), Good(B, F, V), NEW c \in Conn, NEW n \in Node,
           NEW d \in V[c], n \notin V[c], Peer(c, d) = n, Direct(B, n, d),
           NEW C, NEW G, Announced(B, F, C, G, c, n, d)
    PROVE  Good(C, G, V)
<1>1. Roads(B, V) /\ Mail(B, F, V) /\ Answered(B, F) /\ Ties(B, F, V)
  BY DEF Good
<1>2. d \in Node /\ n # d /\ V \in [Conn -> SUBSET Node]
  BY PeerFacts DEF Framed
<1>3. \A x \in Node :
          /\ C[x].byHdl = B[x].byHdl /\ C[x].byNid = B[x].byNid /\ C[x].hops = B[x].hops /\ C[x].id = B[x].id
          /\ C[x].servers = B[x].servers /\ C[x].watchers = B[x].watchers
          /\ C[x].proxies = IF x = n THEN B[n].proxies \cup {d} ELSE B[x].proxies
  BY DEF Announced
<1>4. \A x, y \in Node : /\ Direct(C, x, y) = Direct(B, x, y) /\ Knows(C, x, y) = Knows(B, x, y)
                         /\ \A e \in Conn : Line(C, x, y, e) = Line(B, x, y, e)
  BY <1>3 DEF Direct, Knows, Line
<1>5. Mono(B, C) /\ Grown(F, G)
  BY <1>4 DEF Mono, Announced
<1>6. Roads(C, V)
  BY <1>1, <1>3, <1>4 DEF Roads
<1>7. ASSUME NEW e \in Conn, NEW y \in V[e], NEW i \in DOMAIN G[e][y]
      PROVE  Letter(C, G, V, e, Peer(e, y), y, i, G[e][y][i])
  <2>1. y \in Node
    BY <1>2
  <2>2. CASE i \in DOMAIN F[e][y]
    BY <1>1, <1>5, <2>2, MailKept
  <2>3. CASE e = c /\ y = d /\ d \notin B[n].proxies /\ Says(G[e][y][i], "announce", n, d)
    <3>1. Knows(B, n, d)
      BY DEF Knows
    <3>2. Knows(C, d, n)
      BY <1>1, <1>2, <1>4, <2>3, <3>1 DEF Ties
    <3>3. QED
      BY <2>3, <3>2 DEF Letter, Says
  <2>4. QED
    BY <2>1, <2>2, <2>3 DEF Announced
<1>8. Answered(C, G)
  <2>1. ASSUME NEW k \in Node, NEW s \in Node, NEW e \in Conn, Queued(F[e][s], "client", k, s)
        PROVE  Queued(G[e][s], "client", k, s)
    BY <1>5, <2>1, AheadGrown
  <2>2. QED
    BY <1>1, <1>4, <2>1 DEF Answered
<1>9. ASSUME NEW x \in Node, NEW a \in Node, x # a
      PROVE  /\ Knows(C, x, a) => a \in C[x].proxies \/ Knows(C, a, x)
             /\ a \in C[x].proxies \cup C[x].watchers => Knows(C, x, a)
             /\ a \in C[x].proxies =>
                   \/ x \in C[a].watchers
                   \/ Waiting(G, "announce", x, a) \/ InFlight(G, V, "kill", a, x)
  <2>1. /\ Knows(B, x, a) => a \in B[x].proxies \/ Knows(B, a, x)
        /\ a \in B[x].proxies \cup B[x].watchers => Knows(B, x, a)
        /\ a \in B[x].proxies =>
              \/ x \in B[a].watchers
              \/ Waiting(F, "announce", x, a) \/ InFlight(F, V, "kill", a, x)
    BY <1>1, <1>9 DEF Ties
  <2>2. Waiting(F, "announce", x, a) => Waiting(G, "announce", x, a)
    BY <1>5, WaitingGrown
  <2>3. \A type : InFlight(F, V, type, a, x) => InFlight(G, V, type, a, x)
    BY <1>2, <1>5, InFlightGrown
  <2>4. CASE x = n /\ a = d
    <3>1. Knows(C, x, a)
      BY <1>2, <1>4, <2>4 DEF Knows
    <3>2. d \notin B[n].proxies => Waiting(G, "announce", n, d)
      BY <1>2 DEF Announced, Waiting
    <3>3. a \in C[x].proxies /\ C[a].watchers = B[a].watchers
      BY <1>3, <2>4
    <3>4. QED
      BY <2>1, <2>2, <2>3, <2>4, <3>1, <3>2, <3>3
  <2>5. CASE ~(x = n /\ a = d)
    <3>1. (a \in C[x].proxies) = (a \in B[x].proxies)
      BY <1>3, <2>5
    <3>2. C[a].watchers = B[a].watchers /\ C[x].watchers = B[x].watchers
      BY <1>3
    <3>3. Knows(C, x, a) = Knows(B, x, a) /\ Knows(C, a, x) = Knows(B, a, x)
      BY <1>4
    <3>4. QED
      BY <2>1, <2>2, <2>3, <3>1, <3>2, <3>3
  <2>6. QED
    BY <2>4, <2>5
<1>10. Ties(C, G, V)
  BY <1>9 DEF Ties
<1>11. QED
  BY <1>6, <1>7, <1>8, <1>10 DEF Good, Mail


(* What the handshake of a server that is known already changes. *)
Repeated(n, c, d, s, r) ==
    /\ r.byHdl = s.byHdl /\ r.byNid = s.byNid /\ r.hops = s.hops /\ r.id = s.id
    /\ r.servers = s.servers /\ r.watchers = s.watchers /\ r.proxies = s.proxies \cup {d}
    /\ r.out = IF d \in s.proxies THEN s.out
               ELSE [s.out EXCEPT ![c] = Append(s.out[c], Message("announce", n, d, None))]

LEMMA SecondHandshake ==
    ASSUME NEW n \in Node, NEW s \in Broker, NEW c \in Conn, NEW d \in Node \ {n},
           s.byNid[d] # None, s.id[c] = None
    PROVE  Repeated(n, c, d, s, ServerHandshake(s, n, c, d))
<1> DEFINE t == Named(s, c, d)
           m == Message("announce", n, d, None)
           v == Meet(t, n, c, d)
           w == Answer(v, d)
           r == [w EXCEPT !.id[c] = None]
<1>1. ServerHandshake(s, n, c, d) = r
  BY DEF ServerHandshake, FinalizeHandshake, Named, Answer
<1>2. Renamed(s, t, c, d)
  BY NamedFacts
<1> HIDE DEF t
<1>3. t \in Broker /\ t.id[c] = d /\ t.byNid[d] # None /\ t.proxies = s.proxies /\ t.id = [s.id EXCEPT ![c] = d]
  BY <1>2 DEF Renamed, Broker
<1>4. v = IF d \in s.proxies THEN t
          ELSE Flush(Write([t EXCEPT !.proxies = @ \cup {d}], c, m), Route(t, d))
  <2>1. CASE d \in s.proxies
    BY <1>3, <2>1 DEF Meet
  <2>2. CASE d \notin s.proxies
    <3>1. Route(t, d) # None /\ Looked(t, d) = t
      BY <1>3 DEF Route, Looked
    <3>2. d \notin t.proxies \cup {n} /\ ~(d # t.id[c] /\ t.byNid[d] = None)
      BY <1>3, <2>2
    <3>3. v = Flush(Write([Looked(t, d) EXCEPT !.proxies = @ \cup {d}], c, m), Route(t, d))
      BY <3>1, <3>2 DEF Meet
    <3>4. QED
      BY <2>2, <3>1, <3>3
  <2>3. QED
    BY <2>1, <2>2
<1> HIDE DEF v, m
<1>5. /\ v \in Broker /\ v.byHdl = t.byHdl /\ v.byNid = t.byNid /\ v.hops = t.hops /\ v.id = t.id
      /\ v.servers = t.servers /\ v.watchers = t.watchers /\ v.proxies = t.proxies \cup {d}
      /\ v.out = IF d \in s.proxies THEN t.out ELSE [t.out EXCEPT ![c] = Append(t.out[c], m)]
  <2>1. CASE d \in s.proxies
    BY <1>3, <1>4, <2>1 DEF Broker
  <2>2. CASE d \notin s.proxies
    <3> DEFINE P == t.proxies \cup {d}
               O == [t.out EXCEPT ![c] = Append(t.out[c], m)]
               z == [[t EXCEPT !.proxies = P] EXCEPT !.out = O]
    <3>1. v = [z EXCEPT !.flushed = @ \cup {t.byNid[d]}]
      BY <1>3, <1>4, <2>2 DEF Write, Broker, Flush, Route
    <3>2. P \in SUBSET Node /\ O \in [Conn -> Seq(Packet)]
      <4>1. t.proxies \in SUBSET Node /\ t.out \in [Conn -> Seq(Packet)]
        BY <1>3 DEF Broker
      <4>2. m \in Packet
        BY DEF m, Message, Packet, Types, Routed, Maybe
      <4>3. QED
        BY <4>1, <4>2
    <3> HIDE DEF P, O
    <3>3. [t EXCEPT !.proxies = P] \in Broker
      BY <1>3, <3>2 DEF Broker
    <3>4. z \in Broker /\ z.proxies = P /\ z.out = O
      BY <3>2, <3>3 DEF Broker
    <3>5. /\ z.byHdl = t.byHdl /\ z.byNid = t.byNid /\ z.hops = t.hops /\ z.id = t.id
          /\ z.servers = t.servers /\ z.watchers = t.watchers
      BY <1>3 DEF Broker
    <3>6. t.byNid[d] \in Conn
      BY <1>3 DEF Broker, Maybe
    <3> HIDE DEF z
    <3>7. /\ v \in Broker /\ v.proxies = P /\ v.out = O
          /\ v.byHdl = t.byHdl /\ v.byNid = t.byNid /\ v.hops = t.hops /\ v.id = t.id
          /\ v.servers = t.servers /\ v.watchers = t.watchers
      BY <3>1, <3>4, <3>5, <3>6 DEF Broker
    <3>8. QED
      BY <2>2, <3>7 DEF P, O
  <2>3. QED
    BY <2>1, <2>2
<1>6. /\ w.byHdl = v.byHdl /\ w.byNid = v.byNid /\ w.hops = v.hops /\ w.id = v.id
      /\ w.servers = v.servers /\ w.watchers = v.watchers /\ w.proxies = v.proxies /\ w.out = v.out
      /\ r.byHdl = w.byHdl /\ r.byNid = w.byNid /\ r.hops = w.hops /\ r.id = [w.id EXCEPT ![c] = None]
      /\ r.servers = w.servers /\ r.watchers = w.watchers /\ r.proxies = w.proxies /\ r.out = w.out
  BY <1>5 DEF Broker, Answer
<1>7. r.id = s.id
  <2>1. r.id = [[s.id EXCEPT ![c] = d] EXCEPT ![c] = None]
    BY <1>3, <1>5, <1>6
  <2>2. s.id \in [Conn -> Maybe(Node)]
    BY DEF Broker
  <2>3. QED
    BY <2>1, <2>2
<1> HIDE DEF r, w
<1>8. QED
  BY <1>1, <1>2, <1>5, <1>6, <1>7 DEF Renamed, Repeated, m


-----------------------------------------------------------------------------
(* Steps *)

JInv == Calm => Good(broker, wire, up)

Announcement(m) == \E a, b \in Node : m = Message("announce", a, b, None)

(* The last k messages of q are announcements. *)
Waits(q, k) == \A i \in DOMAIN q : i > Len(q) - k => Announcement(q[i])

(* Only announcements wait for somebody to flush a stream. *)
Covered == \A c \in Conn, y \in Node : Waits(wire[c][y], unsent[c][y])

LEMMA InvFramed ==
    ASSUME IInv
    PROVE  Framed(broker, wire, up)
<1>1. /\ broker \in [Node -> Broker] /\ wire \in [Conn -> [Node -> Seq(Packet)]] /\ up \in [Conn -> SUBSET Node]
      /\ \A n \in Node : Sound(broker[n], n) /\ Connected(broker[n], n, up)
  BY DEF IInv, Tables, Wired
<1>2. \A c \in Conn, y \in Node : \A i \in DOMAIN wire[c][y] : Plain(wire[c][y][i]) \/ Greeting(wire[c][y][i])
  BY DEF IInv, HandshakesOn
<1>3. \A c \in Conn : up[c] # {} =>
          /\ c \in 1 .. Len(ends) /\ ends[c][1] \in Node /\ ends[c][2] \in Node
          /\ ends[c][1] # ends[c][2] /\ up[c] \subseteq {ends[c][1], ends[c][2]}
  BY ConnIsOpen
<1>4. QED
  BY <1>1, <1>2, <1>3 DEF Framed

(* Between two steps nothing is left to be written. *)
LEMMA WithSelf ==
    ASSUME IInv, NEW n \in Node
    PROVE  With(n, broker[n]) = broker /\ Sent(n, broker[n]) = wire
<1>1. broker \in [Node -> Broker] /\ wire \in [Conn -> [Node -> Seq(Packet)]]
  BY DEF IInv, Wired
<1>2. \A c \in Conn : broker[n].out[c] = << >>
  BY DEF IInv
<1>3. With(n, broker[n]) = broker
  BY <1>1 DEF With
<1>4. ASSUME NEW c \in Conn, NEW y \in Node PROVE Sent(n, broker[n])[c][y] = wire[c][y]
  <2>1. wire[c][y] \in Seq(Packet)
    BY <1>1
  <2>2. wire[c][y] \o << >> = wire[c][y]
    BY <2>1, ConcatEmptySeq
  <2>3. QED
    BY <1>2, <2>2 DEF Sent
<1>5. Sent(n, broker[n]) = [c \in Conn |-> [y \in Node |-> Sent(n, broker[n])[c][y]]]
  BY DEF Sent
<1>6. wire = [c \in Conn |-> [y \in Node |-> wire[c][y]]]
  BY <1>1
<1>7. QED
  BY <1>3, <1>4, <1>5, <1>6

LEMMA StartWell ==
    ASSUME IInv, Calm, JInv, NEW n \in Node
    PROVE  Well(n, broker[n])
<1>1. Framed(broker, wire, up) /\ Good(broker, wire, up)
  BY InvFramed DEF JInv
<1>2. With(n, broker[n]) = broker /\ Sent(n, broker[n]) = wire
  BY WithSelf
<1>3. QED
  BY <1>1, <1>2 DEF Well, Fair, Good

LEMMA CommitLike ==
    ASSUME IInv, NEW n \in Node, NEW t \in Broker, NEW before, NEW w, Commit(n, t, before, w)
    PROVE  Like(With(n, t), broker')
<1>1. broker' = [broker EXCEPT ![n] = [t EXCEPT !.out = [c \in Conn |-> << >>], !.flushed = {}]] /\ broker \in [Node -> Broker]
  BY DEF Commit, IInv
<1>2. Alike(t, [t EXCEPT !.out = [c \in Conn |-> << >>], !.flushed = {}])
  BY DEF Alike, Broker
<1>3. ASSUME NEW x \in Node PROVE Alike(With(n, t)[x], broker'[x])
  <2>1. CASE x = n
    BY <1>1, <1>2, <2>1, WithFacts
  <2>2. CASE x # n
    <3>1. With(n, t)[x] = broker[x] /\ broker'[x] = broker[x]
      BY <1>1, <2>2 DEF With
    <3>2. QED
      BY <3>1 DEF Alike
  <2>3. QED
    BY <2>1, <2>2
<1>4. QED
  BY <1>3 DEF Like

(* Without losses all that is written arrives. *)
LEMMA CommitWire ==
    ASSUME lost = {}, NEW n \in Node, NEW t, NEW before, NEW w, Commit(n, t, before, w),
           NEW c \in Conn, NEW y \in Node
    PROVE  wire'[c][y] = IF y \in w[c] \ {n} THEN before[c][y] \o t.out[c] ELSE before[c][y]
<1>1. wire'[c][y] = IF Arrives(w, c, y) /\ y # n THEN before[c][y] \o t.out[c] ELSE before[c][y]
  BY DEF Commit
<1>2. Arrives(w, c, y) = (y \in w[c])
  BY DEF Arrives
<1>3. QED
  BY <1>1, <1>2

LEMMA CommitSent ==
    ASSUME lost = {}, NEW n \in Node, NEW t, Commit(n, t, wire, up)
    PROVE  wire' = Sent(n, t)
<1>1. \A c \in Conn, y \in Node : wire'[c][y] = Sent(n, t)[c][y]
  BY CommitWire DEF Sent
<1>2. wire' = [c \in Conn |-> [y \in Node |-> wire'[c][y]]]
  BY DEF Commit
<1>3. Sent(n, t) = [c \in Conn |-> [y \in Node |-> Sent(n, t)[c][y]]]
  BY DEF Sent
<1>4. QED
  BY <1>1, <1>2, <1>3

(* Broker n reads the head of what travels to it on c. *)
Reads(before, c, n) ==
    /\ wire[c][n] # << >> /\ before[c][n] = Tail(wire[c][n])
    /\ \A e \in Conn, y \in Node : e # c \/ y # n => before[e][y] = wire[e][y]

LEMMA CommitDropped ==
    ASSUME lost = {}, IInv, NEW n \in Node, NEW t, NEW c \in Conn, NEW before, Reads(before, c, n),
           Commit(n, t, before, up)
    PROVE  Dropped(Sent(n, t), wire', c, n) /\ Sent(n, t)[c][n] = wire[c][n]
<1>1. wire[c][n] \in Seq(Packet)
  BY DEF IInv, Wired
<1>2. Sent(n, t)[c][n] = wire[c][n]
  BY DEF Sent
<1>3. wire'[c][n] = Tail(wire[c][n])
  BY CommitWire DEF Reads
<1>4. Shifted(Sent(n, t)[c][n], wire'[c][n])
  BY <1>1, <1>2, <1>3, TailShifted DEF Reads
<1>5. ASSUME NEW e \in Conn, NEW y \in Node, e # c \/ y # n PROVE wire'[e][y] = Sent(n, t)[e][y]
  <2>1. before[e][y] = wire[e][y]
    BY <1>5 DEF Reads
  <2>2. wire'[e][y] = IF y \in up[e] \ {n} THEN before[e][y] \o t.out[e] ELSE before[e][y]
    BY CommitWire
  <2>3. QED
    BY <2>1, <2>2 DEF Sent
<1>6. QED
  BY <1>2, <1>4, <1>5 DEF Dropped


LEMMA StillCalm ==
    ASSUME lost' = lost, ends' = ends, Calm'
    PROVE  Calm
BY DEF Calm, Crossed

LEMMA GoodPrimed ==
    ASSUME ends' = ends, Good(broker', wire', up')
    PROVE  JInv'
<1>1. Roads(broker', up') /\ Mail(broker', wire', up') /\ Answered(broker', wire') /\ Ties(broker', wire', up')
  BY DEF Good
<1>2. Roads(broker, up)'
  BY <1>1 DEF Roads, Direct, Line, Knows
<1>3. Mail(broker, wire, up)'
  <2>1. \A c \in Conn : \A y \in up'[c] : \A i \in DOMAIN wire'[c][y] :
            Letter(broker', wire', up', c, Peer(c, y), y, i, wire'[c][y][i])
    BY <1>1 DEF Mail
  <2>2. ASSUME NEW c \in Conn, NEW y \in up'[c], NEW i \in DOMAIN wire'[c][y]
        PROVE  Letter(broker, wire, up, c, Peer(c, y), y, i, wire[c][y][i])'
    <3>1. Letter(broker', wire', up', c, Peer(c, y), y, i, wire'[c][y][i])
      BY <2>1
    <3>2. Peer(c, y)' = Peer(c, y)
      BY DEF Peer
    <3>3. QED
      BY <3>1, <3>2
  <2>3. QED
    BY <2>2 DEF Mail
<1>4. Answered(broker, wire)'
  BY <1>1 DEF Answered, Line, Queued, Says
<1>5. Ties(broker, wire, up)'
  BY <1>1 DEF Ties, Knows, Direct, InFlight, Waiting, Queued, Says
<1>6. QED
  BY <1>2, <1>3, <1>4, <1>5 DEF Good, JInv

(* A step that reads nothing ends well. *)
LEMMA EndGood ==
    ASSUME IInv, lost = {}, NEW n \in Node, NEW t, Well(n, t), Commit(n, t, wire, up)
    PROVE  Good(broker', wire', up)
<1>1. broker \in [Node -> Broker]
  BY DEF IInv
<1>2. Fair(n, t) /\ Ties(With(n, t), Sent(n, t), up)
  BY DEF Well
<1>3. t \in Broker
  BY <1>1, <1>2, FairFacts
<1>4. Like(With(n, t), broker') /\ wire' = Sent(n, t)
  BY <1>3, CommitLike, CommitSent
<1>5. /\ Framed(With(n, t), Sent(n, t), up) /\ Roads(With(n, t), up)
      /\ Mail(With(n, t), Sent(n, t), up) /\ Answered(With(n, t), Sent(n, t))
  BY <1>2 DEF Fair
<1>6. Roads(broker', up) /\ Mail(broker', Sent(n, t), up) /\ Answered(broker', Sent(n, t))
  BY <1>4, <1>5, LikeFair
<1>7. Ties(broker', Sent(n, t), up)
  <2>1. Grown(Sent(n, t), Sent(n, t)) /\ up \in [Conn -> SUBSET Node]
    BY DEF Grown, IInv, Wired
  <2>2. QED
    BY <1>2, <1>4, <2>1, LikeTies
<1>8. QED
  BY <1>4, <1>6, <1>7 DEF Good

LEMMA TellGood ==
    ASSUME IInv, Calm, JInv, NEW n \in Node, NEW m \in Node, NEW x \in Node, Tell(n, m, x)
    PROVE  JInv'
<1> DEFINE s == broker[n]
           p == Message("dispatch", n, m, x)
           t == SendTo(s, m, p)
<1>1. Well(n, s) /\ With(n, s) = broker /\ Sent(n, s) = wire
  BY StartWell, WithSelf
<1>2. /\ broker \in [Node -> Broker] /\ wire \in [Conn -> [Node -> Seq(Packet)]] /\ Sound(s, n)
      /\ up \in [Conn -> SUBSET Node]
  BY DEF IInv, Wired, Tables
<1>3. /\ m \in s.proxies /\ x \in s.proxies \cup {n} /\ x # m /\ Commit(n, t, wire, up)
      /\ up' = up /\ ends' = ends
  BY DEF Tell, network
<1>4. m # n /\ Knows(broker, n, m) /\ (x # n => Knows(broker, n, x))
  <2>1. m # n
    BY <1>2, <1>3 DEF Sound
  <2>2. Ties(broker, wire, up)
    BY <1>1 DEF Well
  <2>3. QED
    BY <1>3, <2>1, <2>2 DEF Ties
<1>5. Plain(p) /\ p.src = n /\ p.dst = m /\ p.type = "dispatch" /\ p.about = x
  BY <1>4 DEF Plain, Message, Routed, Maybe
<1> HIDE DEF s, p
<1>6. Fair(n, t) /\ Like(With(n, s), With(n, t)) /\ Grown(Sent(n, s), Sent(n, t))
  <2>1. Fair(n, s)
    BY <1>1 DEF Well
  <2>2. /\ m \in Node \ {n} /\ Knows(With(n, s), n, m) /\ p.type # "announce"
        /\ p.about # m /\ (p.about # n => Knows(With(n, s), n, p.about))
    BY <1>1, <1>3, <1>4, <1>5
  <2>3. QED
    BY <1>2, <1>5, <2>1, <2>2, SendFair
<1> HIDE DEF t
<1>7. Ties(With(n, t), Sent(n, t), up)
  <2>1. Ties(With(n, s), Sent(n, s), up)
    BY <1>1 DEF Well
  <2>2. QED
    BY <1>2, <1>6, <2>1, LikeTies
<1>8. Good(broker', wire', up)
  <2>1. Well(n, t) /\ lost = {}
    BY <1>6, <1>7 DEF Well, Calm
  <2>2. QED
    BY <1>3, <2>1, EndGood
<1>9. QED
  BY <1>3, <1>8, GoodPrimed


LEMMA TellEndGood ==
    ASSUME IInv, Calm, JInv, NEW n \in Node, NEW m \in Node, TellEnd(n, m)
    PROVE  JInv'
<1> DEFINE s == broker[n]
           r == [s EXCEPT !.watchers = @ \ {m}]
           k == KillMessage(n, m)
           t == SendTo(r, m, k)
           C == With(n, r)
           D == With(n, t)
           G == Sent(n, t)
<1>1. Well(n, s) /\ With(n, s) = broker /\ Sent(n, s) = wire
  BY StartWell, WithSelf
<1>2. /\ broker \in [Node -> Broker] /\ wire \in [Conn -> [Node -> Seq(Packet)]] /\ Sound(s, n)
      /\ up \in [Conn -> SUBSET Node] /\ s \in Broker /\ Fair(n, s) /\ Ties(broker, wire, up)
  BY <1>1 DEF IInv, Wired, Tables, Well
<1>3. m \in s.watchers /\ Commit(n, t, wire, up) /\ up' = up /\ ends' = ends /\ lost = {}
  BY DEF TellEnd, network, Calm
<1>4. m # n /\ Knows(broker, n, m)
  <2>1. m # n
    BY <1>2, <1>3 DEF Sound
  <2>2. QED
    BY <1>2, <1>3, <2>1 DEF Ties
<1>5. Plain(k) /\ k.src = n /\ k.dst = m /\ k.type = "kill"
  BY <1>4 DEF Plain, KillMessage, Message, Routed, Maybe
<1> HIDE DEF k
<1>6. /\ r \in Broker /\ SameTables(s, r) /\ r.byNid = s.byNid /\ r.id = s.id /\ r.out = s.out
      /\ r.hops = s.hops /\ r.servers = s.servers /\ r.proxies = s.proxies
      /\ r.watchers = s.watchers \ {m} /\ Unnoticed(s, r)
  BY <1>2 DEF Broker, SameTables, Unnoticed
<1>7. C[n] = r /\ \A x \in Node \ {n} : C[x] = broker[x]
  BY <1>2, <1>6, WithFacts
<1> HIDE DEF r
<1>8. Sound(r, n)
  <2>1. n \notin r.proxies \cup r.watchers /\ Tended(r)
    BY <1>2, <1>6, UnnoticedTended DEF Sound
  <2>2. QED
    BY <1>2, <1>6, <2>1, SameTablesSound
<1>9. Fair(n, r) /\ Sent(n, r) = wire /\ \A x, d \in Node : Knows(C, x, d) = Knows(broker, x, d)
  <2>1. Booked(n, s, r)
    BY <1>2, <1>4, <1>6, <1>8, BooksFair
  <2>2. QED
    BY <1>1, <2>1 DEF Booked
<1>10. Fair(n, t) /\ Like(C, D) /\ Grown(wire, G) /\ InFlight(G, up, "kill", n, m)
  <2>1. m \in Node \ {n} /\ Knows(C, n, m) /\ k.type # "announce" /\ k.type # "dispatch"
    BY <1>4, <1>5, <1>9
  <2>2. Fair(n, t) /\ Like(C, D) /\ Grown(Sent(n, r), G) /\ InFlight(G, up, k.type, n, m)
    BY <1>2, <1>5, <1>9, <2>1, SendFair
  <2>3. QED
    BY <1>5, <1>9, <2>2
<1> HIDE DEF s, t, C, D, G
<1>11. \A x, d \in Node : Knows(D, x, d) = Knows(broker, x, d)
  BY <1>9, <1>10, LikeSame
<1>12. \A x \in Node : D[x].proxies = C[x].proxies /\ D[x].watchers = C[x].watchers
  BY <1>10 DEF Like, Alike
<1>13. \A x \in Node : /\ D[x].proxies = broker[x].proxies
                       /\ D[x].watchers = IF x = n THEN broker[x].watchers \ {m} ELSE broker[x].watchers
  BY <1>6, <1>7, <1>12 DEF s
<1>14. Ties(D, G, up)
  <2>1. ASSUME NEW x \in Node, NEW d \in Node, x # d, d \in D[x].proxies
        PROVE  \/ x \in D[d].watchers
               \/ Waiting(G, "announce", x, d) \/ InFlight(G, up, "kill", d, x)
    <3>1. \/ x \in broker[d].watchers
          \/ Waiting(wire, "announce", x, d) \/ InFlight(wire, up, "kill", d, x)
      BY <1>2, <1>13, <2>1 DEF Ties
    <3>2. /\ InFlight(wire, up, "kill", d, x) => InFlight(G, up, "kill", d, x)
          /\ Waiting(wire, "announce", x, d) => Waiting(G, "announce", x, d)
      BY <1>2, <1>10, InFlightGrown, WaitingGrown
    <3>3. x \in broker[d].watchers => x \in D[d].watchers \/ (d = n /\ x = m)
      BY <1>13
    <3>4. QED
      BY <1>10, <3>1, <3>2, <3>3
  <2>2. ASSUME NEW x \in Node, NEW d \in Node, x # d
        PROVE  /\ Knows(D, x, d) => d \in D[x].proxies \/ Knows(D, d, x)
               /\ d \in D[x].proxies \cup D[x].watchers => Knows(D, x, d)
    <3>1. /\ Knows(broker, x, d) => d \in broker[x].proxies \/ Knows(broker, d, x)
          /\ d \in broker[x].proxies \cup broker[x].watchers => Knows(broker, x, d)
      BY <1>2, <2>2 DEF Ties
    <3>2. Knows(D, x, d) = Knows(broker, x, d) /\ Knows(D, d, x) = Knows(broker, d, x)
      BY <1>11
    <3>3. D[x].proxies = broker[x].proxies /\ D[x].watchers \subseteq broker[x].watchers
      BY <1>13
    <3>4. QED
      BY <3>1, <3>2, <3>3
  <2>3. QED
    BY <2>1, <2>2 DEF Ties
<1>15. Good(broker', wire', up)
  <2>1. Well(n, t)
    BY <1>10, <1>14 DEF Well, D, G
  <2>2. QED
    BY <1>3, <2>1, EndGood
<1>16. QED
  BY <1>3, <1>15, GoodPrimed

(* A connection that is left was no route, or the other end would hold it. *)
LEMMA ClosedGood ==
    ASSUME IInv, Calm, JInv, Covered, NEW n \in Node, NEW c \in Conn, Closed(n, c)
    PROVE  JInv'
<1>1. Framed(broker, wire, up) /\ Good(broker, wire, up)
  BY InvFramed DEF JInv
<1>2. /\ n \in up[c] /\ Peer(c, n) \notin up[c] /\ Len(wire[c][n]) = unsent[c][n]
      /\ up' = [up EXCEPT ![c] = up[c] \ {n}] /\ ends' = ends /\ wire' = wire
  BY DEF Closed, Calm
<1>3. Idles(broker, c)
  <2>1. ASSUME NEW x \in Node, NEW y \in Node, Line(broker, x, y, c) PROVE FALSE
    <3>1. Roads(broker, up)
      BY <1>1 DEF Good
    <3>2. x \in up[c] /\ y \in up[c] /\ x # y /\ up[c] = {x, y} /\ Peer(c, x) = y /\ Peer(c, y) = x
      BY <1>1, <2>1, <3>1, LineFacts
    <3>3. QED
      BY <1>2, <3>2
  <2>2. QED
    BY <2>1 DEF Idles
<1>4. broker[n].byHdl[c] = None
  <2>1. Sound(broker[n], n) /\ broker[n].byHdl[c] \in Maybe(Node)
    BY DEF IInv, Tables, Broker
  <2>2. ASSUME broker[n].byHdl[c] # None PROVE FALSE
    <3>1. broker[n].byHdl[c] \in Node
      BY <2>1, <2>2 DEF Maybe
    <3>2. Line(broker, n, broker[n].byHdl[c], c)
      BY <2>1, <2>2 DEF Sound, Line
    <3>3. QED
      BY <1>3, <3>1, <3>2 DEF Idles
  <2>3. QED
    BY <2>2
<1>5. broker' = broker
  BY <1>4 DEF Closed
<1>6. Leaves(wire, up, c, n, up')
  <2>1. wire[c][n] \in Seq(Packet) /\ n \in Node
    BY DEF IInv, Wired
  <2>2. ASSUME NEW i \in DOMAIN wire[c][n] PROVE wire[c][n][i].type = "announce"
    <3>1. i > Len(wire[c][n]) - unsent[c][n]
      BY <1>2, <2>1
    <3>2. Announcement(wire[c][n][i])
      BY <2>1, <3>1 DEF Covered, Waits
    <3>3. QED
      BY <3>2 DEF Announcement, Message
  <2>3. QED
    BY <1>2, <2>2 DEF Leaves
<1>7. Good(broker, wire, up')
  BY <1>1, <1>3, <1>6, LeavingGood
<1>8. QED
  BY <1>2, <1>5, <1>7, GoodPrimed


(* From one step to the next a connection has been opened, on which the    *)
(* server greets.                                                          *)
Opens(c, n, m) ==
    /\ c \in Conn /\ c > Len(ends) /\ Len(ends) \in Nat /\ up[c] = {}
    /\ ends' \in Seq({p \in Node \X Node : p[1] # p[2]}) /\ Len(ends') = c /\ ends'[c] = <<n, m>>
    /\ \A i \in 1 .. Len(ends) : ends'[i] = ends[i]
    /\ DOMAIN ends = 1 .. Len(ends) /\ DOMAIN ends' = 1 .. c
    /\ up'[c] = {n, m} /\ \A e \in Conn : e # c => up'[e] = up[e]
    /\ \A y \in {n, m} : \A i \in DOMAIN wire'[c][y] : wire'[c][y][i].type = "server"
    /\ \A e \in Conn, y \in Node : e # c => wire'[e][y] = wire[e][y]
    /\ Grown(wire, wire')

LEMMA Opening ==
    ASSUME IInv, NEW n \in Node, NEW m \in Node, Connect(n, m)
    PROVE  (\E c \in Conn : Opens(c, n, m)) /\ Like(broker, broker')
<1> DEFINE s == broker[n]
           t == [s EXCEPT !.pending = @ \cup {m}]
           hello == Message("server", m, None, None)
<1>1. /\ Wired /\ s \in Broker /\ broker \in [Node -> Broker] /\ up \in [Conn -> SUBSET Node]
      /\ wire \in [Conn -> [Node -> Seq(Packet)]]
      /\ ends \in Seq({p \in Node \X Node : p[1] # p[2]})
  BY DEF IInv, Tables, Wired, Sound
<1>2. /\ Len(ends) + 1 \in Conn /\ Len(ends) \in Nat
      /\ <<n, m>> \in {p \in Node \X Node : p[1] # p[2]}
  BY <1>1, BaspAssumption DEF Connect, Conn
<1>3. PICK c \in Conn : c = Len(ends) + 1
  BY <1>2
<1>4. /\ ends' = Append(ends, <<n, m>>) /\ up' = [up EXCEPT ![c] = {n, m}]
      /\ wire' = [wire EXCEPT ![c][n] = <<hello>>] /\ broker' = [broker EXCEPT ![n] = t]
  BY <1>3 DEF Connect
<1>5. /\ ends' \in Seq({p \in Node \X Node : p[1] # p[2]}) /\ Len(ends') = c
      /\ ends'[c] = <<n, m>> /\ \A i \in 1 .. Len(ends) : ends'[i] = ends[i]
      /\ DOMAIN ends = 1 .. Len(ends) /\ DOMAIN ends' = 1 .. c
  BY <1>1, <1>2, <1>3, <1>4
<1>6. c > Len(ends) /\ up[c] = {} /\ \A x \in Node : wire[c][x] = << >>
  <2>1. c > Len(ends)
    BY <1>2, <1>3
  <2>2. QED
    BY <1>1, <2>1 DEF Wired
<1>7. /\ \A e \in Conn, y \in Node : e # c \/ y # n => wire'[e][y] = wire[e][y]
      /\ wire'[c][n] = <<hello>>
  BY <1>1, <1>4
<1>8. hello.type = "server"
  BY DEF Message
<1> HIDE DEF hello
<1>9. ASSUME NEW y \in {n, m}, NEW i \in DOMAIN wire'[c][y] PROVE wire'[c][y][i].type = "server"
  <2>1. CASE y = n
    BY <1>7, <1>8, <1>9, <2>1
  <2>2. CASE y # n
    BY <1>6, <1>7, <1>9, <2>2
  <2>3. QED
    BY <2>1, <2>2
<1>10. Grown(wire, wire')
  <2>1. ASSUME NEW e \in Conn, NEW y \in Node
        PROVE  DOMAIN wire[e][y] \subseteq DOMAIN wire'[e][y] /\ \A i \in DOMAIN wire[e][y] : wire'[e][y][i] = wire[e][y][i]
    <3>1. CASE e = c
      <4>1. DOMAIN wire[e][y] = {}
        BY <1>6, <3>1
      <4>2. QED
        BY <4>1
    <3>2. CASE e # c
      BY <1>7, <3>2
    <3>3. QED
      BY <3>1, <3>2
  <2>2. QED
    BY <2>1 DEF Grown
<1>11. up'[c] = {n, m} /\ \A e \in Conn : e # c => up'[e] = up[e]
  BY <1>1, <1>4
<1>12. Opens(c, n, m)
  BY <1>2, <1>5, <1>6, <1>7, <1>9, <1>10, <1>11 DEF Opens
<1>13. Like(broker, broker')
  <2>1. Alike(s, t) /\ Alike(s, s)
    BY <1>1 DEF Alike, Broker
  <2>2. ASSUME NEW x \in Node PROVE Alike(broker[x], broker'[x])
    <3>1. broker'[x] = IF x = n THEN t ELSE broker[x]
      BY <1>1, <1>4
    <3> HIDE DEF t
    <3>2. CASE x = n
      BY <2>1, <3>1, <3>2
    <3>3. CASE x # n
      BY <3>1, <3>3 DEF Alike
    <3>4. QED
      BY <3>2, <3>3
  <2>3. QED
    BY <2>2 DEF Like
<1>14. QED
  BY <1>12, <1>13

LEMMA ConnectGood ==
    ASSUME IInv, JInv, Calm', NEW n \in Node, NEW m \in Node, Connect(n, m)
    PROVE  JInv'
<1> DEFINE C == broker'
           G == wire'
           U == up'
<1>1. PICK c \in Conn : Opens(c, n, m)
  BY Opening
<1>2. /\ c > Len(ends) /\ Len(ends) \in Nat /\ up[c] = {}
      /\ ends' \in Seq({p \in Node \X Node : p[1] # p[2]}) /\ Len(ends') = c /\ ends'[c] = <<n, m>>
      /\ \A i \in 1 .. Len(ends) : ends'[i] = ends[i]
      /\ DOMAIN ends = 1 .. Len(ends) /\ DOMAIN ends' = 1 .. c
      /\ U[c] = {n, m} /\ \A e \in Conn : e # c => U[e] = up[e]
      /\ \A y \in {n, m} : \A i \in DOMAIN G[c][y] : G[c][y][i].type = "server"
      /\ \A e \in Conn, y \in Node : e # c => G[e][y] = wire[e][y]
      /\ Grown(wire, G)
  BY <1>1 DEF Opens
<1>3. Calm
  <2>1. Crossed => Crossed'
    <3>1. DOMAIN ends \subseteq DOMAIN ends' /\ \A i \in DOMAIN ends : ends'[i] = ends[i]
      BY <1>2
    <3>2. QED
      BY <3>1 DEF Crossed
  <2>2. lost' = lost
    BY DEF Connect
  <2>3. QED
    BY <2>1, <2>2 DEF Calm
<1>4. Framed(broker, wire, up) /\ Good(broker, wire, up) /\ Like(broker, C)
  BY <1>3, InvFramed, Opening DEF JInv
<1>5. /\ Roads(broker, up) /\ Mail(broker, wire, up) /\ Answered(broker, wire) /\ Ties(broker, wire, up)
  BY <1>4 DEF Good
<1>6. Roads(C, up) /\ Mail(C, wire, up) /\ Answered(C, wire) /\ Mono(broker, C)
  BY <1>4, <1>5, LikeFair, LikeSame
<1>7. up \in [Conn -> SUBSET Node]
  BY <1>4 DEF Framed
<1>8. ASSUME NEW e \in Conn, up[e] # {} PROVE e # c /\ e \in 1 .. Len(ends) /\ ends'[e] = ends[e] /\ U[e] = up[e]
  <2>1. e \in 1 .. Len(ends)
    BY <1>4, <1>8 DEF Framed
  <2>2. QED
    BY <1>2, <2>1
<1>9. ASSUME NEW x \in Node, NEW d \in Node, NEW e \in Conn, Line(C, x, d, e)
      PROVE  e # c /\ ends'[e] = ends[e] /\ U[e] = up[e]
  <2>1. d \in up[e]
    BY <1>6, <1>9 DEF Roads
  <2>2. QED
    BY <1>8, <2>1
<1> HIDE DEF C, G, U
<1>10. Roads(broker, up)'
  <2>1. ASSUME NEW x \in Node, NEW d \in Node, x # d
        PROVE  /\ \A h \in C[x].hops[d] : h \in Node \ {x, d} /\ Direct(C, x, h) /\ Direct(C, h, d)
               /\ d \in C[x].servers =>
                     Knows(C, x, d) \/ \E i \in DOMAIN ends' : ends'[i][2] = x /\ ends'[i][1] \notin {x, d}
    <3>1. /\ \A h \in C[x].hops[d] : h \in Node \ {x, d} /\ Direct(C, x, h) /\ Direct(C, h, d)
          /\ d \in C[x].servers =>
                Knows(C, x, d) \/ \E i \in DOMAIN ends : ends[i][2] = x /\ ends[i][1] \notin {x, d}
      BY <1>6, <2>1 DEF Roads
    <3>2. \A i \in DOMAIN ends : i \in DOMAIN ends' /\ ends'[i] = ends[i]
      BY <1>2
    <3>3. QED
      BY <3>1, <3>2
  <2>2. ASSUME NEW x \in Node, NEW d \in Node, NEW e \in Conn
        PROVE  /\ Line(C, x, d, e) => d \in U[e] /\ IF x = ends'[e][1] THEN C[x].id[e] = d ELSE Line(C, d, x, e)
               /\ C[x].id[e] = d => Line(C, x, d, e) /\ x = ends'[e][1]
    <3>1. /\ Line(C, x, d, e) => d \in up[e] /\ IF x = ends[e][1] THEN C[x].id[e] = d ELSE Line(C, d, x, e)
          /\ C[x].id[e] = d => Line(C, x, d, e) /\ x = ends[e][1]
      BY <1>6 DEF Roads
    <3>2. Line(C, x, d, e) => ends'[e] = ends[e] /\ U[e] = up[e]
      BY <1>9
    <3>3. QED
      BY <3>1, <3>2
  <2>3. ASSUME NEW e \in Conn, e <= Len(ends'), ends'[e][1] \in U[e] PROVE ends'[e][2] \in U[e]
    <3>1. CASE e = c
      BY <1>2, <3>1
    <3>2. CASE e # c
      <4>1. U[e] = up[e] /\ up[e] # {}
        BY <1>2, <2>3, <3>2
      <4>2. e \in 1 .. Len(ends) /\ ends'[e] = ends[e]
        BY <1>8, <4>1
      <4>3. e <= Len(ends)
        BY <4>2
      <4>4. QED
        BY <1>6, <2>3, <4>1, <4>2, <4>3 DEF Roads
    <3>3. QED
      BY <3>1, <3>2
  <2>4. QED
    BY <2>1, <2>2, <2>3 DEF Roads, Direct, Knows, Line, C, U
<1>11. ASSUME NEW e \in Conn, NEW y \in U[e], NEW i \in DOMAIN G[e][y]
       PROVE  Letter(broker, wire, up, e, Peer(e, y), y, i, wire[e][y][i])'
  <2>1. CASE e = c
    <3>1. y \in {n, m} /\ G[e][y][i].type = "server"
      BY <1>2, <1>11, <2>1
    <3>2. Letter(C, G, U, e, Peer(e, y)', y, i, G[e][y][i])
      BY <3>1 DEF Letter, Routed
    <3>3. QED
      BY <3>2 DEF C, G, U
  <2>2. CASE e # c
    <3>1. U[e] = up[e] /\ y \in up[e] /\ y \in Node /\ G[e][y] = wire[e][y]
      BY <1>2, <1>7, <1>11, <2>2
    <3>2. ends'[e] = ends[e]
      BY <1>8, <3>1
    <3>3. Peer(e, y)' = Peer(e, y)
      BY <3>2 DEF Peer
    <3>4. Letter(C, G, up, e, Peer(e, y), y, i, G[e][y][i])
      <4>1. i \in DOMAIN wire[e][y] /\ Grown(wire, G)
        BY <1>2, <1>11, <3>1
      <4>2. QED
        BY <1>4, <1>5, <1>6, <3>1, <4>1, MailKept
    <3>5. Letter(C, G, U, e, Peer(e, y), y, i, G[e][y][i])
      BY <3>1, <3>4 DEF Letter
    <3>6. QED
      BY <3>3, <3>5 DEF C, G, U
  <2>3. QED
    BY <2>1, <2>2
<1>12. Mail(broker, wire, up)'
  BY <1>11 DEF Mail, G, U
<1>13. Answered(broker, wire)'
  <2>1. ASSUME NEW k \in Node, NEW s \in Node, NEW e \in Conn, Line(C, k, s, e), k = ends'[e][1]
        PROVE  Line(C, s, k, e) \/ Queued(G[e][s], "client", k, s)
    <3>1. e # c /\ ends'[e] = ends[e]
      BY <1>9, <2>1
    <3>2. G[e][s] = wire[e][s]
      BY <1>2, <3>1
    <3>3. QED
      BY <1>6, <2>1, <3>1, <3>2 DEF Answered
  <2>2. QED
    BY <2>1 DEF Answered, Line, Queued, C, G
<1>14. Ties(broker, wire, up)'
  <2>1. ASSUME NEW type, NEW a, NEW b, InFlight(wire, up, type, a, b) PROVE InFlight(G, U, type, a, b)
    <3>1. PICK e \in Conn : \E y \in up[e] : Queued(wire[e][y], type, a, b)
      BY <2>1 DEF InFlight
    <3>2. PICK y \in up[e] : Queued(wire[e][y], type, a, b)
      BY <3>1
    <3>3. U[e] = up[e] /\ e # c /\ y \in Node
      BY <1>7, <1>8, <3>2
    <3>4. G[e][y] = wire[e][y]
      BY <1>2, <3>3
    <3>5. QED
      BY <3>2, <3>3, <3>4 DEF InFlight
  <2>2. Grown(wire, wire)
    BY DEF Grown
  <2>3. Ties(C, wire, up)
    BY <1>4, <1>5, <1>7, <2>2, LikeTies
  <2>4. Ties(C, G, U)
    <3>1. \A a, b \in Node : Waiting(wire, "announce", a, b) => Waiting(G, "announce", a, b)
      BY <1>2, WaitingGrown
    <3>2. QED
      BY <2>1, <2>3, <3>1 DEF Ties
  <2>5. QED
    BY <2>4 DEF C, G, U
<1>15. QED
  BY <1>10, <1>12, <1>13, <1>14 DEF JInv, Good


(* A broker that has handled what it has read ends well. *)
LEMMA ReadGood ==
    ASSUME IInv, IInv', Calm, NEW n \in Node, NEW c \in Conn, n \in up[c], NEW t, Well(n, t),
           NEW before, Reads(before, c, n), Commit(n, t, before, up), up' = up, ends' = ends,
           wire[c][n][1].type = "client" => Line(With(n, t), n, Peer(c, n), c),
           Relieved(With(n, t), Sent(n, t), up, n, wire[c][n][1])
    PROVE  JInv'
<1>1. broker \in [Node -> Broker] /\ wire' \in [Conn -> [Node -> Seq(Packet)]] /\ lost = {}
  BY DEF IInv, Wired, Calm
<1>2. t \in Broker
  BY <1>1, FairFacts DEF Well
<1>3. Like(With(n, t), broker')
  BY <1>2, CommitLike
<1>4. Dropped(Sent(n, t), wire', c, n) /\ Sent(n, t)[c][n] = wire[c][n]
  BY <1>1, CommitDropped
<1>5. PICK m : m = wire[c][n][1]
  OBVIOUS
<1>6. /\ m = Sent(n, t)[c][n][1] /\ (m.type = "client" => Line(With(n, t), n, Peer(c, n), c))
      /\ Relieved(With(n, t), Sent(n, t), up, n, m)
  BY <1>4, <1>5
<1>7. Good(broker', wire', up)
  BY <1>1, <1>3, <1>4, <1>6, DropGood
<1>8. QED
  BY <1>7, GoodPrimed

(* A message for an actor. *)
LEMMA ReadPlain ==
    ASSUME IInv, IInv', Calm, JInv, NEW n \in Node, NEW c \in Conn, n \in up[c],
           NEW m, wire[c][n] # << >>, m = wire[c][n][1], Plain(m),
           NEW before, Reads(before, c, n), Commit(n, Handled(broker[n], n, c, m), before, up),
           up' = up, ends' = ends
    PROVE  JInv'
<1> DEFINE s == broker[n]
           p == Peer(c, n)
           t == Handled(s, n, c, m)
<1>1. /\ Well(n, s) /\ With(n, s) = broker /\ Sent(n, s) = wire
      /\ Framed(broker, wire, up) /\ Good(broker, wire, up)
  BY StartWell, WithSelf, InvFramed DEF JInv
<1>2. /\ broker \in [Node -> Broker] /\ wire \in [Conn -> [Node -> Seq(Packet)]]
      /\ ends \in Seq({q \in Node \X Node : q[1] # q[2]})
  BY DEF IInv, Wired
<1>3. p \in Node
  BY <1>1, PeerFacts
<1>4. Letter(broker, wire, up, c, p, n, 1, m)
  <2>1. 1 \in DOMAIN wire[c][n]
    <3>1. wire[c][n] \in Seq(Packet)
      BY <1>2
    <3>2. QED
      BY <3>1
  <2>2. QED
    BY <1>1, <2>1 DEF Good, Mail
<1>5. m.type \in Routed
  BY DEF Plain
<1> HIDE DEF p
<1>6. (Says(m, "announce", p, n) /\ Knows(broker, n, p)) \/ AtHand(broker, wire, c, p, n, m)
  <2>1. CASE Posted(broker, wire, c, p, n, 1, m)
    BY <1>2, <1>3, <2>1, PostedAtHand
  <2>2. CASE Says(m, "announce", p, n) /\ Knows(broker, n, p)
    BY <2>2
  <2>3. QED
    BY <1>4, <1>5, <2>1, <2>2 DEF Letter
<1>7. Done(n, s, t, m)
  <2>1. (Says(m, "announce", p, n) /\ Knows(With(n, s), n, p)) \/ AtHand(With(n, s), Sent(n, s), c, p, n, m)
    BY <1>1, <1>6
  <2> HIDE DEF s
  <2>2. Done(n, s, Handled(s, n, c, m), m)
    BY <1>1, <1>2, <1>3, <2>1, HandledWell
  <2>3. QED
    BY <2>2
<1> HIDE DEF t
<1>8. Well(n, t) /\ Relieved(With(n, t), Sent(n, t), up, n, wire[c][n][1])
  BY <1>7 DEF Done
<1>9. Commit(n, t, before, up) /\ wire[c][n][1].type # "client"
  BY <1>5 DEF t, Routed
<1>10. QED
  BY <1>8, <1>9, ReadGood

(* The handshake of node d at the other end. *)
Hails(n, c, type, d) ==
    /\ n \in up[c] /\ d \in up[c] /\ d \in Node \ {n} /\ Peer(c, n) = d /\ broker[n].byHdl[c] = None
    /\ wire[c][n] # << >> /\ Says(wire[c][n][1], type, d, wire[c][n][1].dst)

LEMMA NothingRelieved ==
    ASSUME NEW B, NEW F, NEW U, NEW n, NEW m, m.type \in {"server", "client"}
    PROVE  Relieved(B, F, U, n, m)
BY DEF Relieved

LEMMA ReadServer ==
    ASSUME IInv, IInv', Calm, JInv, NEW n \in Node, NEW c \in Conn, NEW d, Hails(n, c, "server", d),
           n = ends[c][1], broker[n].byNid[d] = None,
           NEW before, Reads(before, c, n), Commit(n, ServerHandshake(broker[n], n, c, d), before, up),
           up' = up, ends' = ends
    PROVE  JInv'
<1> DEFINE s == broker[n]
           t == ServerHandshake(s, n, c, d)
<1>1. Well(n, s)
  BY StartWell
<1>2. broker \in [Node -> Broker] /\ wire \in [Conn -> [Node -> Seq(Packet)]]
  BY DEF IInv, Wired
<1>3. n \in up[c] /\ d \in up[c] /\ d \in Node \ {n} /\ Peer(c, n) = d /\ s.byHdl[c] = None /\ s.byNid[d] = None
  BY DEF Hails
<1>4. Well(n, t)
  <2> HIDE DEF s
  <2>1. Well(n, ServerHandshake(s, n, c, d))
    BY <1>1, <1>2, <1>3, ServerHandshakeWell
  <2>2. QED
    BY <2>1
<1>5. wire[c][n][1].type = "server"
  BY DEF Hails, Says
<1>6. Relieved(With(n, t), Sent(n, t), up, n, wire[c][n][1])
  BY <1>5, NothingRelieved
<1>7. Commit(n, t, before, up)
  OBVIOUS
<1> HIDE DEF t
<1>8. QED
  BY <1>3, <1>4, <1>5, <1>6, <1>7, ReadGood

LEMMA ReadClient ==
    ASSUME IInv, IInv', Calm, JInv, NEW n \in Node, NEW c \in Conn, NEW d, Hails(n, c, "client", d),
           Dialled(c, d, n), Line(broker, d, n, c),
           NEW before, Reads(before, c, n), Commit(n, ClientHandshake(broker[n], n, c, d), before, up),
           up' = up, ends' = ends
    PROVE  JInv'
<1> DEFINE s == broker[n]
           t == ClientHandshake(s, n, c, d)
<1>1. Well(n, s) /\ Line(With(n, s), d, n, c)
  BY StartWell, WithSelf
<1>2. /\ broker \in [Node -> Broker] /\ wire \in [Conn -> [Node -> Seq(Packet)]]
      /\ ends \in Seq({q \in Node \X Node : q[1] # q[2]})
  BY DEF IInv, Wired
<1>3. n \in up[c] /\ d \in up[c] /\ d \in Node \ {n} /\ Peer(c, n) = d /\ s.byHdl[c] = None
  BY DEF Hails
<1>4. Well(n, t) /\ Line(With(n, t), n, d, c)
  <2> HIDE DEF s
  <2>1. Well(n, ClientHandshake(s, n, c, d)) /\ Line(With(n, ClientHandshake(s, n, c, d)), n, d, c)
    BY <1>1, <1>2, <1>3, ClientHandshakeWell
  <2>2. QED
    BY <2>1
<1>5. wire[c][n][1].type = "client"
  BY DEF Hails, Says
<1>6. Relieved(With(n, t), Sent(n, t), up, n, wire[c][n][1])
  BY <1>5, NothingRelieved
<1>7. Commit(n, t, before, up)
  OBVIOUS
<1> HIDE DEF t
<1>8. Line(With(n, t), n, Peer(c, n), c)
  BY <1>3, <1>4
<1>9. QED
  BY <1>3, <1>4, <1>6, <1>7, <1>8, ReadGood


(* A server that is known already: the client leaves its connection. *)
LEMMA ReadAgain ==
    ASSUME IInv, IInv', Calm, JInv, NEW n \in Node, NEW c \in Conn, NEW d, Hails(n, c, "server", d),
           n = ends[c][1], broker[n].byNid[d] # None, Idles(broker, c),
           NEW before \in [Conn -> [Node -> Seq(Packet)]], Reads(before, c, n),
           NEW w, Leaves(wire, up, c, n, w),
           Commit(n, ServerHandshake(broker[n], n, c, d), before, w), up' = w, ends' = ends
    PROVE  JInv'
<1> DEFINE s == broker[n]
           t == ServerHandshake(s, n, c, d)
           a == Message("announce", n, d, None)
           H == before
<1>1. /\ Framed(broker, wire, up) /\ Good(broker, wire, up) /\ Roads(broker, up)
      /\ broker \in [Node -> Broker] /\ s \in Broker /\ Sound(s, n) /\ lost = {}
      /\ wire \in [Conn -> [Node -> Seq(Packet)]] /\ up \in [Conn -> SUBSET Node]
  BY InvFramed DEF JInv, IInv, Wired, Tables, Calm, Good
<1>2. n \in up[c] /\ d \in up[c] /\ d \in Node \ {n} /\ Peer(c, n) = d /\ wire[c][n] # << >>
  BY DEF Hails
<1>3. Peer(c, d) = n
  BY <1>1, <1>2, PeerFacts
<1>5. Framed(broker, wire, w) /\ Good(broker, wire, w)
  BY <1>1, LeavingGood
<1>6. /\ w \in [Conn -> SUBSET Node] /\ w[c] = up[c] \ {n} /\ \A e \in Conn : e # c => w[e] = up[e]
  BY <1>1 DEF Leaves
<1>7. \A e \in Conn, y \in Node : e # c \/ y # n => H[e][y] = wire[e][y]
  BY DEF Reads
<1>8. Good(broker, H, w)
  <2>1. ASSUME NEW e \in Conn, NEW y \in w[e] PROVE H[e][y] = wire[e][y]
    BY <1>6, <1>7, <2>1
  <2>2. HeldSame(wire, H, w)
    BY <2>1 DEF HeldSame
  <2>3. Shifted(wire[c][n], H[c][n]) /\ wire[c][n][1].type = "server"
    <3>1. wire[c][n] \in Seq(Packet) /\ H[c][n] = Tail(wire[c][n])
      BY <1>1 DEF Reads
    <3>2. QED
      BY <1>2, <3>1, TailShifted DEF Hails, Says
  <2> HIDE DEF H
  <2>4. ASSUME NEW src, NEW dst, Waiting(wire, "announce", src, dst) PROVE Waiting(H, "announce", src, dst)
    <3>1. PICK e \in Conn, y \in Node : Queued(wire[e][y], "announce", src, dst)
      BY <2>4 DEF Waiting
    <3>2. CASE e = c /\ y = n
      <4>1. Queued(H[c][n], "announce", src, dst)
        BY <2>3, <3>1, <3>2 DEF Shifted, Says
      <4>2. QED
        BY <4>1 DEF Waiting
    <3>3. CASE ~(e = c /\ y = n)
      <4>1. H[e][y] = wire[e][y]
        BY <1>7, <3>3 DEF H
      <4>2. QED
        BY <3>1, <4>1 DEF Waiting
    <3>4. QED
      BY <3>2, <3>3
  <2>5. QED
    BY <1>5, <2>2, <2>4, UnheldGood
<1>9. Framed(broker, H, w)
  <2>1. \A e \in Conn, y \in Node : \A i \in DOMAIN wire[e][y] : Plain(wire[e][y][i]) \/ Greeting(wire[e][y][i])
    BY <1>1 DEF Framed
  <2>2. Shifted(wire[c][n], H[c][n])
    <3>1. wire[c][n] \in Seq(Packet) /\ H[c][n] = Tail(wire[c][n])
      BY <1>1 DEF Reads
    <3>2. QED
      BY <1>2, <3>1, TailShifted
  <2>3. ASSUME NEW e \in Conn, NEW y \in Node, NEW i \in DOMAIN H[e][y]
        PROVE  Plain(H[e][y][i]) \/ Greeting(H[e][y][i])
    <3>1. CASE e = c /\ y = n
      BY <2>1, <2>2, <2>3, <3>1 DEF Shifted
    <3>2. CASE ~(e = c /\ y = n)
      BY <1>7, <2>1, <2>3, <3>2
    <3>3. QED
      BY <3>1, <3>2
  <2>4. QED
    BY <1>5, <2>3 DEF Framed
<1>10. s.id[c] = None
  <2>1. s.id[c] \in Maybe(Node)
    BY <1>1 DEF Broker
  <2>2. ASSUME s.id[c] \in Node PROVE FALSE
    <3>1. Line(broker, n, s.id[c], c)
      BY <1>1, <2>2 DEF Roads
    <3>2. QED
      BY <2>2, <3>1 DEF Idles
  <2>3. QED
    BY <2>1, <2>2 DEF Maybe
<1>11. Repeated(n, c, d, s, t)
  <2> HIDE DEF s
  <2>1. Repeated(n, c, d, s, ServerHandshake(s, n, c, d))
    BY <1>1, <1>2, <1>10, SecondHandshake DEF s
  <2>2. QED
    BY <2>1
<1>12. s.out = [e \in Conn |-> << >>]
  BY DEF IInv
<1>13. a \in Packet /\ Says(a, "announce", n, d)
  BY <1>2 DEF Message, Packet, Types, Routed, Maybe, Says
<1> HIDE DEF t, a, H
<1>14. \A e \in Conn : t.out[e] = IF e = c /\ d \notin s.proxies THEN <<a>> ELSE << >>
  <2>1. Append(<< >>, a) = <<a>>
    OBVIOUS
  <2>2. t.out = IF d \in s.proxies THEN s.out ELSE [s.out EXCEPT ![c] = Append(s.out[c], a)]
    BY <1>11 DEF Repeated, a
  <2>3. QED
    BY <1>12, <2>1, <2>2
<1>15. \A e \in Conn, y \in Node : wire'[e][y] = IF y \in w[e] \ {n} THEN H[e][y] \o t.out[e] ELSE H[e][y]
  <2>1. Commit(n, t, H, w) /\ lost = {}
    BY <1>1 DEF t, H
  <2>2. ASSUME NEW e \in Conn, NEW y \in Node
        PROVE  wire'[e][y] = IF y \in w[e] \ {n} THEN H[e][y] \o t.out[e] ELSE H[e][y]
    BY <2>1, CommitWire
  <2>3. QED
    BY <2>2
<1>16. \A e \in Conn, y \in Node : e # c \/ y # d \/ d \in s.proxies => wire'[e][y] = H[e][y]
  <2>1. ASSUME NEW e \in Conn, NEW y \in Node, e # c \/ y # d \/ d \in s.proxies PROVE wire'[e][y] = H[e][y]
    <3>1. H[e][y] \in Seq(Packet)
      BY <1>9 DEF Framed
    <3>2. H[e][y] \o << >> = H[e][y]
      BY <3>1, ConcatEmptySeq
    <3>3. CASE y \in w[e] \ {n}
      <4>1. e = c => y = d
        <5>1. up[c] \subseteq {ends[c][1], ends[c][2]}
          BY <1>1, <1>2 DEF Framed
        <5>2. QED
          BY <1>2, <1>6, <3>3, <5>1 DEF Peer
      <4>2. t.out[e] = << >>
        BY <1>14, <2>1, <4>1
      <4>3. QED
        BY <1>15, <3>2, <4>2
    <3>4. CASE y \notin w[e] \ {n}
      BY <1>15, <3>4
    <3>5. QED
      BY <3>3, <3>4
  <2>2. QED
    BY <2>1
<1>17. d \notin s.proxies => wire'[c][d] = Append(H[c][d], a)
  <2>1. H[c][d] \in Seq(Packet)
    BY <1>2, <1>9 DEF Framed
  <2>2. H[c][d] \o <<a>> = Append(H[c][d], a)
    BY <1>13, <2>1
  <2>3. d \in w[c] \ {n} /\ d \in Node
    BY <1>2, <1>6
  <2>4. QED
    BY <1>14, <1>15, <2>2, <2>3
<1>18. \A x \in Node : Alike(With(n, t)[x], broker'[x])
  <2>1. t \in Broker
    <3>1. s.byHdl[c] = None
      BY DEF Hails
    <3>2. Sound(t, n)
      BY <1>1, <1>2, <3>1, ServerHandshakeSound DEF t
    <3>3. QED
      BY <3>2 DEF Sound
  <2>2. Commit(n, t, H, w)
    BY DEF t, H
  <2>3. QED
    BY <2>1, <2>2, CommitLike DEF Like
<1>19. Announced(broker, H, broker', wire', c, n, d)
  <2>1. ASSUME NEW x \in Node
        PROVE  /\ broker'[x].byHdl = broker[x].byHdl /\ broker'[x].byNid = broker[x].byNid
               /\ broker'[x].hops = broker[x].hops /\ broker'[x].id = broker[x].id
               /\ broker'[x].servers = broker[x].servers /\ broker'[x].watchers = broker[x].watchers
               /\ broker'[x].proxies = IF x = n THEN broker[n].proxies \cup {d} ELSE broker[x].proxies
    <3>1. Alike(With(n, t)[x], broker'[x])
      BY <1>18
    <3>2. With(n, t)[x] = IF x = n THEN t ELSE broker[x]
      BY <1>1 DEF With
    <3>3. CASE x = n
      <4>1. Alike(t, broker'[n])
        BY <3>1, <3>2, <3>3
      <4>2. /\ broker'[n].byHdl = broker[n].byHdl /\ broker'[n].byNid = broker[n].byNid
            /\ broker'[n].hops = broker[n].hops /\ broker'[n].id = broker[n].id
            /\ broker'[n].servers = broker[n].servers /\ broker'[n].watchers = broker[n].watchers
            /\ broker'[n].proxies = broker[n].proxies \cup {d}
        BY <1>11, <4>1 DEF Alike, Repeated
      <4>3. QED
        BY <3>3, <4>2
    <3>4. CASE x # n
      <4>1. Alike(broker[x], broker'[x])
        BY <3>1, <3>2, <3>4
      <4>2. QED
        BY <3>4, <4>1 DEF Alike
    <3>5. QED
      BY <3>3, <3>4
  <2>2. ASSUME NEW e \in Conn, NEW y \in Node
        PROVE  /\ DOMAIN H[e][y] \subseteq DOMAIN wire'[e][y]
               /\ \A i \in DOMAIN H[e][y] : wire'[e][y][i] = H[e][y][i]
               /\ \A i \in DOMAIN wire'[e][y] :
                    \/ i \in DOMAIN H[e][y]
                    \/ e = c /\ y = d /\ d \notin broker[n].proxies /\ Says(wire'[e][y][i], "announce", n, d)
    <3>1. CASE e # c \/ y # d \/ d \in s.proxies
      BY <1>16, <3>1
    <3>2. CASE e = c /\ y = d /\ d \notin s.proxies
      <4>1. H[c][d] \in Seq(Packet)
        BY <1>2, <1>9 DEF Framed
      <4>2. PICK q \in Seq(Packet) : q = H[c][d]
        BY <4>1
      <4>3. wire'[c][d] = Append(q, a)
        BY <1>17, <3>2, <4>2
      <4>4. /\ DOMAIN q = 1 .. Len(q) /\ Len(q) \in Nat /\ DOMAIN Append(q, a) = 1 .. Len(q) + 1
            /\ Append(q, a)[Len(q) + 1] = a /\ \A i \in 1 .. Len(q) : Append(q, a)[i] = q[i]
        BY <1>13
      <4>5. QED
        BY <1>13, <3>2, <4>2, <4>3, <4>4
    <3>3. QED
      BY <3>1, <3>2
  <2>3. d \notin broker[n].proxies => Queued(wire'[c][d], "announce", n, d)
    <3>1. ASSUME d \notin s.proxies PROVE Queued(wire'[c][d], "announce", n, d)
      <4>1. H[c][d] \in Seq(Packet)
        BY <1>2, <1>9 DEF Framed
      <4>2. PICK q \in Seq(Packet) : q = H[c][d]
        BY <4>1
      <4>3. wire'[c][d] = Append(q, a)
        BY <1>17, <3>1, <4>2
      <4>4. Len(q) + 1 \in DOMAIN Append(q, a) /\ Append(q, a)[Len(q) + 1] = a
        BY <1>13
      <4>5. QED
        BY <1>13, <4>3, <4>4 DEF Queued
    <3>2. QED
      BY <3>1
  <2>4. Grown(H, wire')
    BY <2>2 DEF Grown
  <2>5. QED
    BY <2>1, <2>2, <2>3, <2>4 DEF Announced
<1>20. Good(broker', wire', w)
  <2>1. Direct(broker, n, d) /\ d \in w[c] /\ n \notin w[c]
    BY <1>2, <1>6 DEF Direct
  <2>2. QED
    BY <1>3, <1>8, <1>9, <1>19, <2>1, AnnouncedGood
<1>21. QED
  BY <1>20, GoodPrimed

(* Until the handshake sent to its client has been read, a connection is   *)
(* nobody's route.                                                         *)
LEMMA HandshakeIdle ==
    ASSUME IInv, Calm, JInv, NEW n \in Node, NEW c \in Conn, n \in up[c],
           1 \in DOMAIN wire[c][n], wire[c][n][1].type = "server"
    PROVE  Idles(broker, c) /\ n = ends[c][1] /\ wire[c][n][1].src = ends[c][2] /\ broker[n].byHdl[c] = None
<1>1. HandshakesOn(c) /\ Is("server", c, n, 1)
  BY DEF IInv, Is
<1>2. /\ n = ends[c][1] /\ wire[c][n][1].src = ends[c][2]
      /\ \A x \in Node : broker[x].byHdl[c] = None
  BY <1>1 DEF HandshakesOn
<1>3. ASSUME NEW x \in Node, NEW y \in Node, Line(broker, x, y, c) PROVE FALSE
  <2>1. Framed(broker, wire, up) /\ Roads(broker, up)
    BY InvFramed DEF JInv, Good
  <2>2. broker[x].byHdl[c] = y
    BY <1>3, <2>1, LineFacts
  <2>3. QED
    BY <1>2, <2>2, BaspAssumption
<1>4. QED
  BY <1>2, <1>3 DEF Idles


(* What broker n does on reading message m of d's, ends the step with and  *)
(* holds then.                                                             *)
Shrinks(w, c, n) == w = [up EXCEPT ![c] = up[c] \ {n}]

Received(n, c, m, d, before, w) ==
    /\ n \in up[c] /\ wire[c][n] # << >> /\ m = wire[c][n][1] /\ 1 \in DOMAIN wire[c][n] /\ d = m.src
    /\ before \in [Conn -> [Node -> Seq(Packet)]] /\ Reads(before, c, n)
    /\ Commit(n, Handled(broker[n], n, c, m), before, w) /\ up' = w /\ ends' = ends
    /\ IF m.type = "server" /\ broker[n].byNid[d] # None THEN Shrinks(w, c, n) ELSE w = up

LEMMA Receiving ==
    ASSUME IInv, NEW n \in Node, NEW c \in Conn, Receive(n, c)
    PROVE  \E m, d, before, w : Received(n, c, m, d, before, w)
<1> DEFINE m == Head(wire[c][n])
           closes == m.type = "server" /\ broker[n].byNid[m.src] # None
           w == IF closes THEN [up EXCEPT ![c] = @ \ {n}] ELSE up
           before == [wire EXCEPT ![c][n] = Tail(@)]
           t == Handled(broker[n], n, c, m)
<1>1. Commit(n, t, before, w)
  BY Zenon DEF Receive
<1>2. up' = w
  BY Zenon DEF Receive
<1>3. n \in up[c] /\ unsent[c][n] < Len(wire[c][n]) /\ ends' = ends
  BY Zenon DEF Receive
<1>4. /\ wire \in [Conn -> [Node -> Seq(Packet)]] /\ wire[c][n] \in Seq(Packet) /\ wire[c][n] # << >>
      /\ n \in up[c] /\ ends' = ends
  <2>1. /\ wire \in [Conn -> [Node -> Seq(Packet)]] /\ wire[c][n] \in Seq(Packet)
        /\ unsent[c][n] \in Nat
    BY DEF IInv, Wired
  <2>2. QED
    BY <1>3, <2>1
<1>5. before \in [Conn -> [Node -> Seq(Packet)]] /\ Reads(before, c, n)
  BY <1>4 DEF Reads
<1>6. 1 \in DOMAIN wire[c][n] /\ m = wire[c][n][1]
  BY <1>4
<1>7. IF closes THEN Shrinks(w, c, n) ELSE w = up
  BY DEF Shrinks
<1>8. PICK q : q = m
  OBVIOUS
<1>9. PICK d : d = q.src
  OBVIOUS
<1> HIDE DEF before, w, m
<1>10. Commit(n, Handled(broker[n], n, c, q), before, w)
  BY <1>1, <1>8
<1>11. IF q.type = "server" /\ broker[n].byNid[d] # None THEN Shrinks(w, c, n) ELSE w = up
  BY <1>7, <1>8, <1>9
<1>12. Received(n, c, q, d, before, w)
  BY <1>2, <1>4, <1>5, <1>6, <1>8, <1>9, <1>10, <1>11 DEF Received
<1>13. QED
  BY <1>12

(* A handshake at the head of what travels to n is that of its peer. *)
LEMMA Hailed ==
    ASSUME IInv, Calm, JInv, NEW n \in Node, NEW c \in Conn, n \in up[c],
           NEW d, NEW type, type \in {"server", "client"},
           wire[c][n] # << >>, 1 \in DOMAIN wire[c][n], wire[c][n][1].type = type, wire[c][n][1].src = d
    PROVE  /\ Hails(n, c, type, d)
           /\ type = "server" => Dialled(c, n, d) /\ Idles(broker, c)
           /\ type = "client" => Dialled(c, d, n) /\ Line(broker, d, n, c)
<1>1. /\ Framed(broker, wire, up) /\ Good(broker, wire, up) /\ Roads(broker, up) /\ HandshakesOn(c)
  BY InvFramed DEF JInv, Good, IInv
<1>2. Is(type, c, n, 1)
  BY DEF Is
<1>3. broker[n].byHdl[c] = None
  BY <1>1, <1>2 DEF HandshakesOn
<1>4. /\ type = "server" => n = ends[c][1] /\ d = ends[c][2]
      /\ type = "client" => n = ends[c][2] /\ d = ends[c][1]
  BY <1>1, <1>2 DEF HandshakesOn
<1>5. up[c] # {} /\ c \in 1 .. Len(ends) /\ ends[c][1] # ends[c][2] /\ c <= Len(ends)
  <2>1. up[c] # {}
    OBVIOUS
  <2>2. c \in 1 .. Len(ends) /\ ends[c][1] # ends[c][2]
    BY <1>1, <2>1 DEF Framed
  <2>3. Len(ends) \in Nat
    <3>1. ends \in Seq({q \in Node \X Node : q[1] # q[2]})
      BY DEF IInv, Wired
    <3>2. QED
      BY <3>1
  <2>4. QED
    BY <2>1, <2>2, <2>3
<1>6. Peer(c, n) = d
  <2>1. CASE type = "server"
    BY <1>4, <2>1 DEF Peer
  <2>2. CASE type = "client"
    BY <1>4, <1>5, <2>2 DEF Peer
  <2>3. QED
    BY <2>1, <2>2
<1>7. d \in Node /\ d # n
  BY <1>1, <1>6, PeerFacts
<1>8. type = "client" => Line(broker, d, n, c)
  <2>1. Letter(broker, wire, up, c, Peer(c, n), n, 1, wire[c][n][1])
    BY <1>1 DEF Good, Mail
  <2>2. QED
    BY <1>6, <2>1 DEF Letter
<1>9. d \in up[c]
  <2>1. CASE type = "server"
    <3>1. ends[c][1] \in up[c]
      BY <1>4, <2>1
    <3>2. ends[c][2] \in up[c]
      BY <1>1, <1>5, <3>1 DEF Roads
    <3>3. QED
      BY <1>4, <2>1, <3>2
  <2>2. CASE type = "client"
    BY <1>1, <1>7, <1>8, <2>2, LineFacts
  <2>3. QED
    BY <2>1, <2>2
<1>10. Hails(n, c, type, d)
  BY <1>3, <1>6, <1>7, <1>9 DEF Hails, Says
<1>11. type = "server" => Idles(broker, c)
  BY HandshakeIdle
<1>12. QED
  BY <1>4, <1>8, <1>10, <1>11 DEF Dialled

LEMMA ReceivedServer ==
    ASSUME IInv, IInv', Calm, JInv, NEW n \in Node, NEW c \in Conn, NEW d, Hails(n, c, "server", d),
           Dialled(c, n, d), Idles(broker, c),
           NEW before \in [Conn -> [Node -> Seq(Packet)]], Reads(before, c, n),
           NEW w, Commit(n, ServerHandshake(broker[n], n, c, d), before, w), up' = w, ends' = ends,
           IF broker[n].byNid[d] # None THEN Shrinks(w, c, n) ELSE w = up
    PROVE  JInv'
<1>1. n = ends[c][1]
  BY DEF Dialled
<1>2. CASE broker[n].byNid[d] = None
  <2>1. Commit(n, ServerHandshake(broker[n], n, c, d), before, up) /\ up' = up
    BY <1>2
  <2>2. QED
    BY <1>1, <1>2, <2>1, ReadServer
<1>3. CASE broker[n].byNid[d] # None
  <2>1. n \in up[c] /\ Peer(c, n) \in up[c]
    BY DEF Hails
  <2>2. Leaves(wire, up, c, n, w)
    <3>1. Shrinks(w, c, n)
      BY <1>3
    <3>2. QED
      BY <1>1, <2>1, <3>1 DEF Leaves, Shrinks
  <2>3. QED
    BY <1>1, <1>3, <2>2, ReadAgain
<1>4. QED
  BY <1>2, <1>3

LEMMA ReceivedGood ==
    ASSUME IInv, IInv', Calm, JInv, NEW n \in Node, NEW c \in Conn,
           NEW m, NEW d, NEW before, NEW w, Received(n, c, m, d, before, w)
    PROVE  JInv'
<1>1. n \in up[c] /\ wire[c][n] # << >> /\ 1 \in DOMAIN wire[c][n]
  BY DEF Received
<1>2. before \in [Conn -> [Node -> Seq(Packet)]] /\ Reads(before, c, n)
  BY DEF Received
<1>3. Commit(n, Handled(broker[n], n, c, m), before, w) /\ up' = w /\ ends' = ends
  BY DEF Received
<1>4. m = wire[c][n][1] /\ m.src = d
  BY DEF Received
<1>5. IF m.type = "server" /\ broker[n].byNid[d] # None THEN Shrinks(w, c, n) ELSE w = up
  BY DEF Received
<1>6. Plain(m) \/ Greeting(m)
  BY <1>1, <1>4, InvFramed DEF Framed
<1>7. CASE Plain(m)
  <2>1. m.type # "server"
    BY <1>7 DEF Plain, Routed
  <2>2. Commit(n, Handled(broker[n], n, c, m), before, up) /\ up' = up /\ ends' = ends
    BY <1>3, <1>5, <2>1
  <2>3. m = wire[c][n][1]
    BY <1>4
  <2>4. QED
    BY <1>1, <1>2, <1>7, <2>2, <2>3, ReadPlain
<1>8. CASE m.type = "server"
  <2>1. Hails(n, c, "server", d) /\ Dialled(c, n, d) /\ Idles(broker, c)
    BY <1>1, <1>4, <1>8, Hailed
  <2>2. Commit(n, ServerHandshake(broker[n], n, c, d), before, w)
    <3>1. Handled(broker[n], n, c, m) = ServerHandshake(broker[n], n, c, d)
      BY <1>4, <1>8 DEF Handled
    <3>2. QED
      BY <1>3, <3>1
  <2>3. IF broker[n].byNid[d] # None THEN Shrinks(w, c, n) ELSE w = up
    BY <1>5, <1>8
  <2>4. up' = w /\ ends' = ends
    BY <1>3
  <2>5. QED
    BY <1>2, <2>1, <2>2, <2>3, <2>4, ReceivedServer
<1>9. CASE m.type = "client"
  <2>1. Hails(n, c, "client", d) /\ Dialled(c, d, n) /\ Line(broker, d, n, c)
    BY <1>1, <1>4, <1>9, Hailed
  <2>2. Commit(n, ClientHandshake(broker[n], n, c, d), before, up) /\ up' = up /\ ends' = ends
    <3>1. Handled(broker[n], n, c, m) = ClientHandshake(broker[n], n, c, d)
      BY <1>4, <1>9 DEF Handled
    <3>2. w = up
      BY <1>5, <1>9
    <3>3. QED
      BY <1>3, <3>1, <3>2
  <2>3. QED
    BY <1>2, <2>1, <2>2, ReadClient
<1>10. QED
  BY <1>6, <1>7, <1>8, <1>9 DEF Greeting

LEMMA ReceiveGood ==
    ASSUME IInv, IInv', Calm, JInv, NEW n \in Node, NEW c \in Conn, Receive(n, c)
    PROVE  JInv'
BY Receiving, ReceivedGood

LEMMA InitJInv ==
    ASSUME Init
    PROVE  JInv
<1>1. /\ broker = [n \in Node |-> FreshBroker] /\ up = [c \in Conn |-> {}]
      /\ wire = [c \in Conn |-> [n \in Node |-> << >>]]
  BY DEF Init
<1>2. \A n \in Node :
          /\ \A d \in Node : broker[n].byNid[d] = None /\ broker[n].hops[d] = {}
          /\ \A c \in Conn : broker[n].id[c] = None
          /\ broker[n].servers = {} /\ broker[n].proxies = {} /\ broker[n].watchers = {}
  BY <1>1 DEF FreshBroker
<1>3. \A n, d \in Node : /\ ~Direct(broker, n, d) /\ ~Knows(broker, n, d)
                         /\ \A c \in Conn : ~Line(broker, n, d, c) /\ broker[n].id[c] # d
  BY <1>2, BaspAssumption DEF Direct, Knows, Line, Conn
<1>4. \A c \in Conn : up[c] = {}
  BY <1>1
<1>5. Roads(broker, up)
  BY <1>2, <1>3, <1>4 DEF Roads
<1>6. Mail(broker, wire, up) /\ Answered(broker, wire)
  BY <1>3, <1>4 DEF Mail, Answered
<1>7. Ties(broker, wire, up)
  BY <1>2, <1>3 DEF Ties
<1>8. QED
  BY <1>5, <1>6, <1>7 DEF JInv, Good

LEMMA NextJInv == Covered /\ IInv /\ IInv' /\ JInv /\ [Next]_vars => JInv'
<1> SUFFICES ASSUME Covered, IInv, IInv', JInv, [Next]_vars PROVE JInv'
  OBVIOUS
<1>1. ASSUME NEW n \in Node, NEW m \in Node, Connect(n, m) PROVE JInv'
  <2>1. CASE Calm'
    BY <1>1, <2>1, ConnectGood
  <2>2. CASE ~Calm'
    BY <2>2 DEF JInv
  <2>3. QED
    BY <2>1, <2>2
<1>2. ASSUME NEW c \in Conn, Lose(c) PROVE JInv'
  <2>1. lost' # {}
    BY <1>2 DEF Lose
  <2>2. ~Calm'
    BY <2>1 DEF Calm
  <2>3. QED
    BY <2>2 DEF JInv
<1>3. ASSUME lost' = lost, ends' = ends, Calm => JInv' PROVE JInv'
  <2>1. CASE Calm'
    BY <1>3, <2>1, StillCalm
  <2>2. CASE ~Calm'
    BY <2>2 DEF JInv
  <2>3. QED
    BY <2>1, <2>2
<1>4. ASSUME NEW n \in Node, NEW c \in Conn, Receive(n, c) PROVE JInv'
  <2>1. lost' = lost /\ ends' = ends
    BY <1>4, Zenon DEF Receive
  <2>2. Calm => JInv'
    BY <1>4, ReceiveGood
  <2>3. QED
    BY <1>3, <2>1, <2>2
<1>5. ASSUME NEW n \in Node, NEW c \in Conn, Closed(n, c) PROVE JInv'
  BY <1>3, <1>5, ClosedGood DEF Closed
<1>6. ASSUME NEW n \in Node, NEW m \in Node, TellEnd(n, m) PROVE JInv'
  BY <1>3, <1>6, TellEndGood DEF TellEnd, network
<1>7. ASSUME NEW n \in Node, NEW m \in Node, NEW x \in Node, Tell(n, m, x) PROVE JInv'
  BY <1>3, <1>7, TellGood DEF Tell, network
<1>8. ASSUME NEW n \in Node, Note(n) PROVE JInv'
  <2>1. lost' = lost /\ ends' = ends /\ up' = up /\ wire' = wire
    BY <1>8 DEF Note, network
  <2>2. Like(broker, broker')
    <3>1. PICK e \in broker[n].mail : broker' = [broker EXCEPT ![n] = Noted(broker[n], e)]
      BY <1>8 DEF Note
    <3>2. /\ broker \in [Node -> Broker] /\ Sound(broker[n], n)
      BY DEF IInv, Tables
    <3>3. Alike(broker[n], Noted(broker[n], e))
      BY <3>1, <3>2, NotedSound DEF Alike, SameTables
    <3>4. ASSUME NEW x \in Node PROVE Alike(broker[x], broker'[x])
      BY <3>1, <3>2, <3>3 DEF Alike
    <3>5. QED
      BY <3>4 DEF Like
  <2>3. Calm => JInv'
    <3> SUFFICES ASSUME Calm PROVE Good(broker', wire, up)
      BY <2>1, GoodPrimed
    <3>1. Framed(broker, wire, up) /\ Good(broker, wire, up)
      BY InvFramed DEF JInv
    <3>2. Roads(broker', up) /\ Mail(broker', wire, up) /\ Answered(broker', wire)
      BY <2>2, <3>1, LikeFair DEF Good
    <3>3. Grown(wire, wire) /\ up \in [Conn -> SUBSET Node]
      BY <3>1 DEF Grown, Framed
    <3>4. Ties(broker', wire, up)
      BY <2>2, <3>1, <3>3, LikeTies DEF Good
    <3>5. QED
      BY <3>2, <3>4 DEF Good
  <2>4. QED
    BY <1>3, <2>1, <2>3
<1>9. ASSUME UNCHANGED <<broker, network, wire>> PROVE JInv'
  <2>1. broker' = broker /\ wire' = wire /\ up' = up /\ ends' = ends /\ lost' = lost
    BY <1>9 DEF network
  <2>2. Calm => JInv'
    <3>1. ASSUME Calm PROVE Good(broker', wire', up')
      BY <2>1, <3>1 DEF JInv
    <3>2. QED
      BY <2>1, <3>1, GoodPrimed
  <2>3. QED
    BY <1>3, <2>1, <2>2
<1>10. ASSUME NEW n \in Node, Die(n) PROVE JInv'
  BY <1>9, <1>10 DEF Die
<1>11. CASE vars' = vars
  BY <1>9, <1>11 DEF vars
<1>12. QED
  BY <1>1, <1>2, <1>4, <1>5, <1>6, <1>7, <1>8, <1>10, <1>11 DEF Next, BrokerStep

-----------------------------------------------------------------------------
(* What waits in the buffers of the streams                                *)

(* In state s nothing but announcements has been written to streams that   *)
(* are not flushed, those of D apart.                                      *)
Quiet(s, D) ==
    /\ s \in Broker
    /\ \A e \in Conn \ (s.flushed \cup D) : \A i \in DOMAIN s.out[e] : Announcement(s.out[e][i])

LEMMA QuietKept ==
    ASSUME NEW s, NEW t \in Broker, NEW D, Quiet(s, D), s.flushed \subseteq t.flushed,
           \A e \in Conn \ (t.flushed \cup D) : t.out[e] = s.out[e]
    PROVE  Quiet(t, D)
BY DEF Quiet

LEMMA LookedQuiet ==
    ASSUME NEW s, NEW d \in Node, NEW D, Quiet(s, D)
    PROVE  Quiet(Looked(s, d), D)
<1> DEFINE t == [s EXCEPT !.hops[d] = Usable(s, d)]
<1>1. s \in Broker
  BY DEF Quiet
<1>2. [s.hops EXCEPT ![d] = Usable(s, d)] \in [Node -> SUBSET Maybe(Node)]
  BY <1>1 DEF Broker, Usable
<1>3. t \in Broker /\ t.out = s.out /\ t.flushed = s.flushed
  BY <1>1, <1>2 DEF Broker
<1> HIDE DEF t
<1>4. Quiet(t, D)
  BY <1>3, QuietKept
<1>5. Looked(s, d) \in {s, t}
  BY DEF Looked, t
<1>6. QED
  BY <1>4, <1>5

LEMMA WriteQuiet ==
    ASSUME NEW s, NEW D, Quiet(s, D), NEW c \in Conn, NEW m \in Packet
    PROVE  /\ Quiet(Flush(Write(s, c, m), c), D)
           /\ Announcement(m) => \A r \in Conn : Quiet(Flush(Write(s, c, m), r), D)
<1>1. s \in Broker /\ s.out \in [Conn -> Seq(Packet)] /\ s.flushed \in SUBSET Conn
  BY DEF Quiet, Broker
<1>2. [s.out EXCEPT ![c] = Append(s.out[c], m)] \in [Conn -> Seq(Packet)]
  BY <1>1
<1>3. ASSUME NEW r \in Conn
      PROVE  LET t == Flush(Write(s, c, m), r) IN
                /\ t \in Broker /\ t.flushed = s.flushed \cup {r} /\ t.out[c] = Append(s.out[c], m)
                /\ \A e \in Conn \ {c} : t.out[e] = s.out[e]
  BY <1>1, <1>2 DEF Broker, Write, Flush
<1>4. Quiet(Flush(Write(s, c, m), c), D)
  <2> DEFINE t == Flush(Write(s, c, m), c)
  <2>1. /\ t \in Broker /\ t.flushed = s.flushed \cup {c}
        /\ \A e \in Conn \ {c} : t.out[e] = s.out[e]
    BY <1>3
  <2> HIDE DEF t
  <2>2. Quiet(t, D)
    BY <2>1, QuietKept
  <2>3. QED
    BY <2>2 DEF t
<1>5. ASSUME Announcement(m), NEW r \in Conn PROVE Quiet(Flush(Write(s, c, m), r), D)
  <2> DEFINE t == Flush(Write(s, c, m), r)
  <2>1. /\ t \in Broker /\ t.flushed = s.flushed \cup {r} /\ t.out[c] = Append(s.out[c], m)
        /\ \A e \in Conn \ {c} : t.out[e] = s.out[e]
    BY <1>3
  <2> HIDE DEF t
  <2>2. ASSUME NEW e \in Conn \ (t.flushed \cup D), NEW i \in DOMAIN t.out[e]
        PROVE  Announcement(t.out[e][i])
    <3>1. \A j \in DOMAIN s.out[e] : Announcement(s.out[e][j])
      BY <2>1, <2>2 DEF Quiet
    <3>2. CASE e = c
      <4>1. s.out[c] \in Seq(Packet)
        BY <1>1
      <4>2. PICK q \in Seq(Packet) : q = s.out[c]
        BY <4>1
      <4>3. t.out[e] = Append(q, m) /\ \A j \in DOMAIN q : Announcement(q[j])
        BY <2>1, <3>1, <3>2, <4>2
      <4>4. \A j \in DOMAIN Append(q, m) : Append(q, m)[j] = m \/ (j \in DOMAIN q /\ Append(q, m)[j] = q[j])
        OBVIOUS
      <4>5. QED
        BY <1>5, <2>2, <4>3, <4>4
    <3>3. CASE e # c
      BY <2>1, <2>2, <3>1, <3>3
    <3>4. QED
      BY <3>2, <3>3
  <2>3. Quiet(t, D)
    BY <2>1, <2>2 DEF Quiet
  <2>4. QED
    BY <2>3 DEF t
<1>6. QED
  BY <1>4, <1>5

LEMMA SendToQuiet ==
    ASSUME NEW s, NEW D, Quiet(s, D), NEW d \in Node, NEW m \in Packet
    PROVE  Quiet(SendTo(s, d, m), D)
<1>1. Quiet(Looked(s, d), D)
  BY LookedQuiet
<1>2. CASE Route(s, d) = None
  BY <1>1, <1>2 DEF SendTo
<1>3. CASE Route(s, d) # None
  <2>1. Route(s, d) \in Conn
    BY <1>3, RouteIsConn DEF Maybe, Quiet
  <2>2. Quiet(Flush(Write(Looked(s, d), Route(s, d), m), Route(s, d)), D)
    BY <1>1, <2>1, WriteQuiet
  <2>3. QED
    BY <1>3, <2>2 DEF SendTo
<1>4. QED
  BY <1>2, <1>3

LEMMA MessageIsPacket ==
    ASSUME NEW type \in Types, NEW src \in Node, NEW dst \in Maybe(Node), NEW about \in Maybe(Node)
    PROVE  Message(type, src, dst, about) \in Packet
BY DEF Message, Packet

LEMMA LearnedNewNodeQuiet ==
    ASSUME NEW n \in Node, NEW s, NEW D, Quiet(s, D), NEW d \in Node
    PROVE  Quiet(LearnedNewNode(s, n, d), D)
<1> DEFINE t == [s EXCEPT !.servers = @ \cup {d}]
<1>1. t \in Broker /\ t.out = s.out /\ t.flushed = s.flushed
  BY DEF Quiet, Broker
<1> HIDE DEF t
<1>2. Quiet(t, D)
  BY <1>1, QuietKept
<1>3. Message("spawn", n, d, None) \in Packet
  BY MessageIsPacket DEF Types, Routed, Maybe
<1>4. Quiet(SendTo(t, d, Message("spawn", n, d, None)), D)
  BY <1>2, <1>3, SendToQuiet
<1>5. QED
  BY <1>4 DEF LearnedNewNode, t

LEMMA AddIndirectQuiet ==
    ASSUME NEW n \in Node, NEW s, NEW D, Quiet(s, D), NEW hop \in Maybe(Node), NEW d \in Node
    PROVE  Quiet(AddIndirect(s, n, hop, d), D)
<1> DEFINE t == [s EXCEPT !.hops[d] = @ \cup {hop}, !.indirect = @ \cup {d}]
<1>1. s \in Broker
  BY DEF Quiet
<1>2. [s.hops EXCEPT ![d] = s.hops[d] \cup {hop}] \in [Node -> SUBSET Maybe(Node)]
  BY <1>1 DEF Broker
<1>3. t \in Broker /\ t.out = s.out /\ t.flushed = s.flushed
  BY <1>1, <1>2 DEF Broker
<1> HIDE DEF t
<1>4. Quiet(t, D) /\ Quiet(LearnedNewNode(t, n, d), D)
  BY <1>3, QuietKept, LearnedNewNodeQuiet
<1>5. AddIndirect(s, n, hop, d) \in {t, LearnedNewNode(t, n, d)}
  BY DEF AddIndirect, t
<1>6. QED
  BY <1>4, <1>5

LEMMA LearnRouteQuiet ==
    ASSUME NEW n \in Node, NEW s, NEW D, Quiet(s, D), NEW c \in Conn, NEW src \in Node
    PROVE  Quiet(LearnRoute(s, n, c, src), D)
<1>1. s.byHdl[c] \in Maybe(Node)
  BY DEF Quiet, Broker
<1>2. Quiet(AddIndirect(s, n, s.byHdl[c], src), D)
  BY <1>1, AddIndirectQuiet
<1>3. QED
  BY <1>2 DEF LearnRoute

LEMMA MeetQuiet ==
    ASSUME NEW n \in Node, NEW s, NEW D, Quiet(s, D), NEW c \in Conn, NEW a \in Node
    PROVE  Quiet(Meet(s, n, c, a), D)
<1> DEFINE t == IF a # s.id[c] /\ s.byNid[a] = None THEN AddIndirect(s, n, s.id[c], a) ELSE s
           l == Looked(t, a)
           p == [l EXCEPT !.proxies = @ \cup {a}]
           m == Message("announce", n, a, None)
           r == Route(t, a)
<1>1. CASE a \in s.proxies \cup {n}
  BY <1>1 DEF Meet
<1>2. CASE a \notin s.proxies \cup {n}
  <2>1. s.id[c] \in Maybe(Node)
    BY DEF Quiet, Broker
  <2>2. Quiet(t, D)
    BY <2>1, AddIndirectQuiet
  <2>3. Meet(s, n, c, a) = IF r = None THEN l ELSE Flush(Write(p, c, m), r)
    BY <1>2 DEF Meet
  <2>4. m \in Packet /\ Announcement(m)
    BY MessageIsPacket DEF Types, Routed, Maybe, Announcement
  <2> HIDE DEF t, m
  <2>5. Quiet(l, D)
    BY <2>2, LookedQuiet
  <2>6. r \in Maybe(Conn)
    BY <2>2, RouteIsConn DEF Quiet
  <2> HIDE DEF l, r
  <2>7. p \in Broker /\ p.out = l.out /\ p.flushed = l.flushed
    BY <2>5 DEF Quiet, Broker
  <2> HIDE DEF p
  <2>8. Quiet(p, D)
    BY <2>5, <2>7, QuietKept
  <2>9. r # None => Quiet(Flush(Write(p, c, m), r), D)
    BY <2>4, <2>6, <2>8, WriteQuiet DEF Maybe
  <2>10. QED
    BY <2>3, <2>5, <2>9
<1>3. QED
  BY <1>1, <1>2

LEMMA FinalizeHandshakeQuiet ==
    ASSUME NEW n \in Node, NEW s, NEW D, Quiet(s, D), NEW c \in Conn, NEW d \in Node
    PROVE  Quiet(FinalizeHandshake(s, n, c, d), D)
<1> DEFINE i == [s EXCEPT !.id[c] = d]
           t == Meet(i, n, c, d)
           u == Answer(t, d)
<1>1. s \in Broker /\ [s.id EXCEPT ![c] = d] \in [Conn -> Maybe(Node)]
  BY DEF Quiet, Broker, Maybe
<1>2. i \in Broker /\ i.out = s.out /\ i.flushed = s.flushed
  BY <1>1 DEF Broker
<1>3. FinalizeHandshake(s, n, c, d) = u
  BY DEF FinalizeHandshake, Answer
<1> HIDE DEF i
<1>4. Quiet(i, D)
  BY <1>2, QuietKept
<1>5. Quiet(t, D)
  BY <1>4, MeetQuiet
<1> HIDE DEF t
<1>6. [what |-> IF d \in t.proxies THEN "proxy" ELSE "nothing", node |-> d] \in Event
  BY DEF Event
<1>7. u \in Broker /\ u.out = t.out /\ u.flushed = t.flushed
  BY <1>5, <1>6 DEF Quiet, Broker, Answer
<1> HIDE DEF u
<1>8. Quiet(u, D)
  BY <1>5, <1>7, QuietKept
<1>9. QED
  BY <1>3, <1>8

LEMMA AddDirectQuiet ==
    ASSUME NEW n \in Node, NEW s, NEW D, Quiet(s, D), NEW c \in Conn, NEW d \in Node,
           NEW reply \in Seq(Packet), c \in D \/ reply = << >>
    PROVE  Quiet(AddDirect(s, n, c, d, reply), D)
<1> DEFINE l == Linked(s, c, d, reply)
<1>1. s \in Broker /\ s.out \in [Conn -> Seq(Packet)]
  BY DEF Quiet, Broker
<1>2. Joined(s, c, d, reply, l)
  BY <1>1, LinkedFacts
<1> HIDE DEF l
<1>3. ASSUME NEW e \in Conn \ D PROVE l.out[e] = s.out[e]
  <2>1. l.out = [s.out EXCEPT ![c] = s.out[c] \o reply]
    BY <1>2 DEF Joined
  <2>2. s.out[c] \in Seq(Packet)
    BY <1>1
  <2>3. s.out[c] \o << >> = s.out[c]
    BY <2>2, ConcatEmptySeq
  <2>4. QED
    BY <1>1, <2>1, <2>3
<1>4. Quiet(l, D)
  BY <1>2, <1>3, QuietKept DEF Joined
<1>5. Quiet(LearnedNewNode(l, n, d), D)
  BY <1>4, LearnedNewNodeQuiet
<1>6. AddDirect(s, n, c, d, reply) \in {l, LearnedNewNode(l, n, d)}
  BY DEF AddDirect, Linked, l
<1>7. QED
  BY <1>4, <1>5, <1>6

(* What the client answers is flushed with what else it writes.            *)
LEMMA ServerHandshakeQuiet ==
    ASSUME NEW n \in Node, NEW s, Quiet(s, {}), NEW c \in Conn, NEW d \in Node
    PROVE  Quiet(ServerHandshake(s, n, c, d), {})
<1>1. CASE s.byNid[d] # None
  <2> DEFINE f == FinalizeHandshake(s, n, c, d)
             t == [f EXCEPT !.id[c] = None]
  <2>1. Quiet(f, {})
    BY FinalizeHandshakeQuiet
  <2>2. ServerHandshake(s, n, c, d) = t
    BY <1>1 DEF ServerHandshake
  <2> HIDE DEF f
  <2>3. f \in Broker /\ [f.id EXCEPT ![c] = None] \in [Conn -> Maybe(Node)]
    BY <2>1 DEF Quiet, Broker, Maybe
  <2>4. t \in Broker /\ t.out = f.out /\ t.flushed = f.flushed
    BY <2>3 DEF Broker
  <2> HIDE DEF t
  <2>5. Quiet(t, {})
    BY <2>1, <2>4, QuietKept
  <2>6. QED
    BY <2>2, <2>5
<1>2. CASE s.byNid[d] = None
  <2> DEFINE reply == <<Message("client", n, d, None)>>
             a == AddDirect(s, n, c, d, reply)
             f == FinalizeHandshake(a, n, c, d)
  <2>1. Quiet(s, {c})
    BY DEF Quiet
  <2>2. reply \in Seq(Packet)
    <3>1. Message("client", n, d, None) \in Packet
      BY MessageIsPacket DEF Types, Maybe
    <3>2. QED
      BY <3>1
  <2> HIDE DEF reply
  <2>3. Quiet(a, {c})
    BY <2>1, <2>2, AddDirectQuiet
  <2> HIDE DEF a
  <2>4. Quiet(f, {c})
    BY <2>3, FinalizeHandshakeQuiet
  <2>5. ServerHandshake(s, n, c, d) = Flush(f, c)
    BY <1>2 DEF ServerHandshake, a, reply
  <2> HIDE DEF f
  <2>6. /\ Flush(f, c) \in Broker /\ Flush(f, c).out = f.out
        /\ Flush(f, c).flushed = f.flushed \cup {c}
    BY <2>4 DEF Quiet, Broker, Flush
  <2>7. Quiet(Flush(f, c), {})
    BY <2>4, <2>6 DEF Quiet
  <2>8. QED
    BY <2>5, <2>7
<1>3. QED
  BY <1>1, <1>2

LEMMA ForwardQuiet ==
    ASSUME NEW s, NEW D, Quiet(s, D), NEW m \in Packet, m.dst \in Node
    PROVE  Quiet(Forward(s, m), D)
<1>1. m.src \in Node
  BY DEF Packet
<1>2. Quiet(SendTo(s, m.dst, m), D) /\ Quiet(Looked(Looked(s, m.dst), m.src), D)
  BY <1>1, SendToQuiet, LookedQuiet
<1>3. QED
  BY <1>2 DEF Forward

LEMMA DispatchMessageQuiet ==
    ASSUME NEW n \in Node, NEW s, NEW D, Quiet(s, D), NEW c \in Conn, NEW m, m.src \in Node, m.about \in Node
    PROVE  Quiet(DispatchMessage(s, n, c, m), D)
<1>1. Quiet(LearnRoute(s, n, c, m.src), D)
  BY LearnRouteQuiet
<1>2. Quiet(Meet(LearnRoute(s, n, c, m.src), n, c, m.about), D)
  BY <1>1, MeetQuiet
<1>3. Quiet(Meet(Meet(LearnRoute(s, n, c, m.src), n, c, m.about), n, c, m.src), D)
  BY <1>2, MeetQuiet
<1>4. QED
  BY <1>3 DEF DispatchMessage

LEMMA ProxyAnnouncedQuiet ==
    ASSUME NEW n \in Node, NEW s, NEW D, Quiet(s, D), NEW src \in Node
    PROVE  Quiet(ProxyAnnounced(s, n, src), D)
<1> DEFINE t == [s EXCEPT !.watchers = @ \cup {src}]
<1>1. t \in Broker /\ t.out = s.out /\ t.flushed = s.flushed
  BY DEF Quiet, Broker
<1> HIDE DEF t
<1>2. Quiet(t, D)
  BY <1>1, QuietKept
<1>3. KillMessage(n, src) \in Packet
  BY MessageIsPacket DEF KillMessage, Types, Routed, Maybe
<1>4. Quiet(SendTo(s, src, KillMessage(n, src)), D)
  BY <1>3, SendToQuiet
<1>5. QED
  BY <1>2, <1>4 DEF ProxyAnnounced, t

LEMMA KillProxyQuiet ==
    ASSUME NEW n \in Node, NEW s, Sound(s, n), NEW D, Quiet(s, D), NEW src \in Node
    PROVE  Quiet(KillProxy(s, src), D)
<1> DEFINE t == EndProxies(s, {src})
<1>1. t \in Broker /\ SameTables(s, t) /\ t.flushed = s.flushed
  BY EndProxiesSound
<1> HIDE DEF t
<1>2. Quiet(t, D)
  BY <1>1, QuietKept DEF SameTables
<1>3. QED
  BY <1>2 DEF KillProxy, t

LEMMA HandledQuiet ==
    ASSUME NEW n \in Node, NEW s, Sound(s, n), Quiet(s, {}), NEW c \in Conn,
           NEW m, Plain(m) \/ Greeting(m)
    PROVE  Quiet(Handled(s, n, c, m), {})
<1>1. CASE m.type = "server"
  <2>1. m.src \in Node
    BY DEF Plain, Greeting
  <2>2. QED
    BY <1>1, <2>1, ServerHandshakeQuiet DEF Handled
<1>2. CASE m.type = "client"
  <2>1. m.src \in Node /\ << >> \in Seq(Packet)
    BY DEF Plain, Greeting
  <2>2. Quiet(AddDirect(s, n, c, m.src, << >>), {})
    BY <2>1, AddDirectQuiet
  <2>3. Handled(s, n, c, m) = ClientHandshake(s, n, c, m.src)
    BY <1>2 DEF Handled
  <2>4. QED
    BY <2>2, <2>3 DEF ClientHandshake
<1>3. CASE m.type \notin {"server", "client"}
  <2>1. Plain(m)
    BY <1>3 DEF Greeting
  <2>2. m \in Packet /\ m.src \in Node /\ m.dst \in Node /\ (m.type = "dispatch" => m.about \in Node)
        /\ m.type \in {"spawn", "dispatch", "announce", "kill"}
    BY <2>1 DEF Plain, Packet, Types, Routed, Maybe
  <2>3. CASE m.dst # n
    <3>1. Handled(s, n, c, m) = Forward(s, m)
      BY <1>3, <2>2, <2>3 DEF Handled
    <3>2. QED
      BY <2>2, <3>1, ForwardQuiet
  <2>4. CASE m.dst = n /\ m.type = "spawn"
    BY <2>2, <2>4, LearnRouteQuiet DEF Handled
  <2>5. CASE m.dst = n /\ m.type = "dispatch"
    BY <2>2, <2>5, DispatchMessageQuiet DEF Handled
  <2>6. CASE m.dst = n /\ m.type = "announce"
    BY <2>2, <2>6, ProxyAnnouncedQuiet DEF Handled
  <2>7. CASE m.dst = n /\ m.type = "kill"
    BY <2>2, <2>7, KillProxyQuiet DEF Handled
  <2>8. QED
    BY <2>2, <2>3, <2>4, <2>5, <2>6, <2>7
<1>4. QED
  BY <1>1, <1>2, <1>3

LEMMA WaitsTail ==
    ASSUME NEW q \in Seq(Packet), NEW k \in Nat, k < Len(q), Waits(q, k)
    PROVE  Waits(Tail(q), k) /\ k <= Len(Tail(q))
<1>1. /\ Len(Tail(q)) = Len(q) - 1 /\ Len(q) \in Nat /\ DOMAIN Tail(q) = 1 .. Len(q) - 1 /\ DOMAIN q = 1 .. Len(q)
      /\ \A i \in 1 .. Len(q) - 1 : Tail(q)[i] = q[i + 1]
  OBVIOUS
<1>2. ASSUME NEW i \in DOMAIN Tail(q), i > Len(Tail(q)) - k PROVE Announcement(Tail(q)[i])
  <2>1. i + 1 \in DOMAIN q /\ i + 1 > Len(q) - k /\ Tail(q)[i] = q[i + 1]
    BY <1>1, <1>2
  <2>2. QED
    BY <2>1 DEF Waits
<1>3. QED
  BY <1>1, <1>2 DEF Waits

LEMMA WaitsConcat ==
    ASSUME NEW q \in Seq(Packet), NEW r \in Seq(Packet), NEW k \in Nat, k <= Len(q), Waits(q, k),
           \A i \in DOMAIN r : Announcement(r[i])
    PROVE  Waits(q \o r, k + Len(r))
<1> DEFINE p == q \o r
<1>1. /\ Len(p) = Len(q) + Len(r) /\ Len(q) \in Nat /\ Len(r) \in Nat
      /\ DOMAIN p = 1 .. Len(q) + Len(r) /\ DOMAIN q = 1 .. Len(q) /\ DOMAIN r = 1 .. Len(r)
      /\ \A i \in 1 .. Len(q) + Len(r) : p[i] = IF i <= Len(q) THEN q[i] ELSE r[i - Len(q)]
  OBVIOUS
<1> HIDE DEF p
<1>2. ASSUME NEW i \in DOMAIN p, i > Len(p) - (k + Len(r)) PROVE Announcement(p[i])
  <2>1. CASE i <= Len(q)
    <3>1. i \in DOMAIN q /\ i > Len(q) - k /\ p[i] = q[i]
      BY <1>1, <1>2, <2>1
    <3>2. QED
      BY <3>1 DEF Waits
  <2>2. CASE ~(i <= Len(q))
    <3>1. i - Len(q) \in DOMAIN r /\ p[i] = r[i - Len(q)]
      BY <1>1, <1>2, <2>2
    <3>2. QED
      BY <3>1
  <2>3. QED
    BY <2>1, <2>2
<1>3. QED
  BY <1>2 DEF Waits, p

LEMMA WaitsNone ==
    ASSUME NEW q \in Seq(Packet)
    PROVE  Waits(q, 0)
BY DEF Waits

(* What the end of a step leaves as it was.                                *)
LEMMA CommitElse ==
    ASSUME NEW n \in Node, NEW t, NEW before, NEW w, Commit(n, t, before, w), NEW c \in Conn, NEW y \in Node,
           ~Arrives(w, c, y) \/ y = n
    PROVE  wire'[c][y] = before[c][y] /\ unsent'[c][y] = unsent[c][y]
<1>1. wire'[c][y] = before[c][y]
  BY DEF Commit
<1>2. PICK late \in SUBSET Conn :
         unsent' = [e \in Conn |-> [d \in Node |->
            CASE ~Arrives(w, e, d) \/ d = n -> unsent[e][d]
              [] Arrives(w, e, d) /\ d # n /\ e \in t.flushed \cup late -> 0
              [] Arrives(w, e, d) /\ d # n /\ e \notin t.flushed \cup late -> unsent[e][d] + Len(t.out[e])]]
  BY DEF Commit
<1>3. unsent'[c][y] = CASE ~Arrives(w, c, y) \/ y = n -> unsent[c][y]
              [] Arrives(w, c, y) /\ y # n /\ c \in t.flushed \cup late -> 0
              [] Arrives(w, c, y) /\ y # n /\ c \notin t.flushed \cup late -> unsent[c][y] + Len(t.out[c])
  BY <1>2
<1>4. QED
  BY <1>1, <1>3

LEMMA CommitCovered ==
    ASSUME IInv, NEW n \in Node, NEW t, Quiet(t, {}), NEW before \in [Conn -> [Node -> Seq(Packet)]],
           NEW w, Commit(n, t, before, w),
           \A c \in Conn, y \in Node : Waits(before[c][y], unsent[c][y]) /\ unsent[c][y] <= Len(before[c][y])
    PROVE  Covered'
<1>1. PICK late \in SUBSET Conn :
         unsent' = [e \in Conn |-> [d \in Node |->
            CASE ~Arrives(w, e, d) \/ d = n -> unsent[e][d]
              [] Arrives(w, e, d) /\ d # n /\ e \in t.flushed \cup late -> 0
              [] Arrives(w, e, d) /\ d # n /\ e \notin t.flushed \cup late -> unsent[e][d] + Len(t.out[e])]]
  BY DEF Commit
<1>2. ASSUME NEW c \in Conn, NEW y \in Node PROVE Waits(wire'[c][y], unsent'[c][y])
  <2>1. CASE ~Arrives(w, c, y) \/ y = n
    <3>1. wire'[c][y] = before[c][y] /\ unsent'[c][y] = unsent[c][y]
      BY <2>1, CommitElse
    <3>2. QED
      BY <3>1
  <2>2. CASE Arrives(w, c, y) /\ y # n
    <3>1. wire'[c][y] = before[c][y] \o t.out[c]
      BY <2>2 DEF Commit
    <3>2. unsent'[c][y] = CASE ~Arrives(w, c, y) \/ y = n -> unsent[c][y]
              [] Arrives(w, c, y) /\ y # n /\ c \in t.flushed \cup late -> 0
              [] Arrives(w, c, y) /\ y # n /\ c \notin t.flushed \cup late -> unsent[c][y] + Len(t.out[c])
      BY <1>1
    <3>3. before[c][y] \in Seq(Packet) /\ t.out[c] \in Seq(Packet) /\ unsent[c][y] \in Nat
      BY DEF Quiet, Broker, IInv, Wired
    <3>4. CASE c \in t.flushed \cup late
      <4>1. unsent'[c][y] = 0 /\ wire'[c][y] \in Seq(Packet)
        BY <2>2, <3>1, <3>2, <3>3, <3>4
      <4>2. QED
        BY <4>1, WaitsNone
    <3>5. CASE c \notin t.flushed \cup late
      <4>1. unsent'[c][y] = unsent[c][y] + Len(t.out[c])
        BY <2>2, <3>2, <3>5
      <4>2. \A i \in DOMAIN t.out[c] : Announcement(t.out[c][i])
        BY <3>5 DEF Quiet
      <4>3. Waits(before[c][y] \o t.out[c], unsent[c][y] + Len(t.out[c]))
        BY <3>3, <4>2, WaitsConcat
      <4>4. QED
        BY <3>1, <4>1, <4>3
    <3>6. QED
      BY <3>4, <3>5
  <2>3. QED
    BY <2>1, <2>2
<1>3. QED
  BY <1>2 DEF Covered, Waits, Announcement, Message

(* Between two steps nothing is left to be written to any stream.          *)
LEMMA StartQuiet ==
    ASSUME IInv, NEW n \in Node
    PROVE  Quiet(broker[n], {}) /\ Sound(broker[n], n)
<1>1. broker[n] \in Broker /\ Sound(broker[n], n) /\ \A c \in Conn : broker[n].out[c] = << >>
  BY DEF IInv, Tables
<1>2. QED
  BY <1>1 DEF Quiet

LEMMA ReceiveCovered ==
    ASSUME IInv, Covered, NEW n \in Node, NEW c \in Conn, Receive(n, c)
    PROVE  Covered'
<1>1. PICK m, d, before, w : Received(n, c, m, d, before, w)
  BY Receiving
<1>2. /\ n \in up[c] /\ m = wire[c][n][1] /\ 1 \in DOMAIN wire[c][n]
      /\ before \in [Conn -> [Node -> Seq(Packet)]] /\ Reads(before, c, n)
      /\ Commit(n, Handled(broker[n], n, c, m), before, w)
  BY <1>1 DEF Received
<1>3. Plain(m) \/ Greeting(m)
  BY <1>2, InvFramed DEF Framed
<1>4. Quiet(Handled(broker[n], n, c, m), {})
  BY <1>3, StartQuiet, HandledQuiet
<1>5. unsent[c][n] < Len(wire[c][n])
  BY Zenon DEF Receive
<1>6. ASSUME NEW e \in Conn, NEW y \in Node
      PROVE  Waits(before[e][y], unsent[e][y]) /\ unsent[e][y] <= Len(before[e][y])
  <2>1. /\ wire[e][y] \in Seq(Packet) /\ unsent[e][y] \in Nat /\ unsent[e][y] <= Len(wire[e][y])
        /\ Waits(wire[e][y], unsent[e][y])
    BY DEF IInv, Wired, Covered
  <2>2. CASE e = c /\ y = n
    <3>1. before[e][y] = Tail(wire[e][y])
      BY <1>2, <2>2 DEF Reads
    <3>2. QED
      BY <1>5, <2>1, <2>2, <3>1, WaitsTail
  <2>3. CASE ~(e = c /\ y = n)
    <3>1. before[e][y] = wire[e][y]
      BY <1>2, <2>3 DEF Reads
    <3>2. QED
      BY <2>1, <3>1
  <2>4. QED
    BY <2>2, <2>3
<1>7. QED
  BY <1>2, <1>4, <1>6, CommitCovered

LEMMA WriteCovered ==
    ASSUME IInv, Covered, NEW n \in Node, NEW t, Quiet(t, {}), NEW w, Commit(n, t, wire, w)
    PROVE  Covered'
<1>1. /\ wire \in [Conn -> [Node -> Seq(Packet)]]
      /\ \A c \in Conn, y \in Node : Waits(wire[c][y], unsent[c][y]) /\ unsent[c][y] <= Len(wire[c][y])
  BY DEF IInv, Wired, Covered
<1>2. QED
  BY <1>1, CommitCovered

LEMMA NextCovered == IInv /\ Covered /\ [Next]_vars => Covered'
<1> SUFFICES ASSUME IInv, Covered, [Next]_vars PROVE Covered'
  OBVIOUS
<1>1. ASSUME UNCHANGED <<wire, unsent>> PROVE Covered'
  BY <1>1 DEF Covered, Waits, Announcement, Message
<1>2. ASSUME NEW n \in Node, NEW m \in Node, NEW x \in Node, Tell(n, m, x) PROVE Covered'
  <2>1. Message("dispatch", n, m, x) \in Packet
    BY MessageIsPacket DEF Types, Routed, Maybe
  <2>2. Quiet(SendTo(broker[n], m, Message("dispatch", n, m, x)), {})
    BY <2>1, StartQuiet, SendToQuiet
  <2>3. QED
    BY <1>2, <2>2, WriteCovered DEF Tell
<1>3. ASSUME NEW n \in Node, NEW m \in Node, TellEnd(n, m) PROVE Covered'
  <2> DEFINE s == broker[n]
             t == [s EXCEPT !.watchers = @ \ {m}]
  <2>1. KillMessage(n, m) \in Packet
    BY MessageIsPacket DEF KillMessage, Types, Routed, Maybe
  <2>2. Quiet(s, {})
    BY StartQuiet
  <2>3. Commit(n, SendTo(t, m, KillMessage(n, m)), wire, up)
    BY <1>3 DEF TellEnd
  <2> HIDE DEF s
  <2>4. t \in Broker /\ t.out = s.out /\ t.flushed = s.flushed
    BY <2>2 DEF Quiet, Broker
  <2> HIDE DEF t
  <2>5. Quiet(t, {})
    BY <2>2, <2>4, QuietKept
  <2>6. Quiet(SendTo(t, m, KillMessage(n, m)), {})
    BY <2>1, <2>5, SendToQuiet
  <2>7. QED
    BY <2>3, <2>6, WriteCovered
<1>4. ASSUME NEW n \in Node, NEW m \in Node, Connect(n, m) PROVE Covered'
  <2>1. PICK c \in Conn : Opens(c, n, m)
    BY <1>4, Opening
  <2>2. unsent' = unsent /\ IInv'
    BY <1>4, ConnectIInv DEF Connect
  <2>3. ASSUME NEW e \in Conn, NEW y \in Node PROVE Waits(wire'[e][y], unsent'[e][y])
    <3>1. CASE e = c
      <4>1. wire[c][y] = << >> /\ unsent[c][y] \in Nat /\ unsent[c][y] <= Len(wire[c][y])
        BY <2>1 DEF IInv, Wired, Opens
      <4>2. unsent'[e][y] = 0 /\ wire'[e][y] \in Seq(Packet)
        BY <2>2, <3>1, <4>1 DEF IInv, Wired
      <4>3. QED
        BY <4>2, WaitsNone
    <3>2. CASE e # c
      BY <2>1, <2>2, <3>2 DEF Opens, Covered
    <3>3. QED
      BY <3>1, <3>2
  <2>4. QED
    BY <2>3 DEF Covered, Waits, Announcement, Message
<1>5. ASSUME NEW c \in Conn, Lose(c) PROVE Covered'
  <2>1. wire \in [Conn -> [Node -> Seq(Packet)]] /\ unsent \in [Conn -> [Node -> Nat]]
    BY DEF IInv, Wired
  <2>2. ASSUME NEW e \in Conn, NEW y \in Node PROVE Waits(wire'[e][y], unsent'[e][y])
    <3>1. CASE e = c
      <4>1. wire'[e][y] = << >>
        BY <1>5, <2>1, <3>1 DEF Lose
      <4>2. QED
        BY <4>1 DEF Waits
    <3>2. CASE e # c
      <4>1. wire'[e][y] = wire[e][y] /\ unsent'[e][y] = unsent[e][y]
        BY <1>5, <2>1, <3>2 DEF Lose
      <4>2. QED
        BY <4>1 DEF Covered
    <3>3. QED
      BY <3>1, <3>2
  <2>3. QED
    BY <2>2 DEF Covered, Waits, Announcement, Message
<1>6. ASSUME NEW n \in Node, Note(n) \/ Die(n) PROVE Covered'
  BY <1>1, <1>6 DEF Note, Die
<1>7. ASSUME NEW n \in Node, NEW c \in Conn, Closed(n, c) PROVE Covered'
  BY <1>1, <1>7 DEF Closed
<1>8. CASE vars' = vars
  BY <1>1, <1>8 DEF vars
<1>9. QED
  BY <1>2, <1>3, <1>4, <1>5, <1>6, <1>7, <1>8, ReceiveCovered DEF Next, BrokerStep

(* Whoever leaves a connection has read all that was sent to it.           *)
Abandoned ==
    Calm => \A c \in Conn : \A y \in Node \ up[c] : unsent[c][y] = Len(wire[c][y])

(* A step that only writes changes nothing of that, and one that reads     *)
(* changes it only where it reads.                                         *)
LEMMA CommitAbandoned ==
    ASSUME NEW n \in Node, NEW t, NEW before, Commit(n, t, before, up'),
           \A c \in Conn : \A y \in Node \ up'[c] : unsent[c][y] = Len(before[c][y])
    PROVE  Abandoned'
<1>1. ASSUME NEW c \in Conn, NEW y \in Node \ up'[c] PROVE unsent'[c][y] = Len(wire'[c][y])
  <2>1. ~Arrives(up', c, y)
    BY DEF Arrives
  <2>2. wire'[c][y] = before[c][y] /\ unsent'[c][y] = unsent[c][y]
    BY <2>1, CommitElse
  <2>3. QED
    BY <2>2
<1>2. QED
  BY <1>1 DEF Abandoned

(* A client that leaves has read the only message it was sent.             *)
LEMMA ReceiveAbandoned ==
    ASSUME IInv, Calm, JInv, Abandoned, NEW n \in Node, NEW c \in Conn, Receive(n, c)
    PROVE  Abandoned'
<1>1. PICK m, d, before, w : Received(n, c, m, d, before, w)
  BY Receiving
<1>2. /\ n \in up[c] /\ m = wire[c][n][1] /\ 1 \in DOMAIN wire[c][n] /\ wire[c][n] # << >> /\ d = m.src
      /\ Reads(before, c, n) /\ Commit(n, Handled(broker[n], n, c, m), before, w) /\ up' = w
      /\ IF m.type = "server" /\ broker[n].byNid[d] # None THEN Shrinks(w, c, n) ELSE w = up
  BY <1>1 DEF Received
<1>3. /\ wire[c][n] \in Seq(Packet) /\ unsent[c][n] \in Nat /\ up \in [Conn -> SUBSET Node]
      /\ unsent[c][n] < Len(wire[c][n])
  <2>1. unsent[c][n] < Len(wire[c][n])
    BY Zenon DEF Receive
  <2>2. QED
    BY <2>1 DEF IInv, Wired
<1>4. ASSUME NEW e \in Conn, NEW y \in Node \ up'[e], ~(e = c /\ y = n)
      PROVE  unsent[e][y] = Len(before[e][y])
  <2>1. before[e][y] = wire[e][y]
    BY <1>2, <1>4 DEF Reads
  <2>2. y \notin up[e]
    BY <1>2, <1>3, <1>4 DEF Shrinks
  <2>3. QED
    BY <2>1, <2>2 DEF Abandoned
<1>5. ASSUME n \notin up'[c] PROVE unsent[c][n] = Len(before[c][n])
  <2>1. m.type = "server"
    BY <1>2, <1>5
  <2>2. Hails(n, c, "server", d) /\ Idles(broker, c)
    BY <1>2, <2>1, Hailed
  <2>3. Framed(broker, wire, up) /\ Mail(broker, wire, up) /\ HandshakesOn(c)
    BY InvFramed DEF JInv, Good, IInv
  <2>4. ASSUME NEW i \in DOMAIN wire[c][n] PROVE i = 1
    <3>1. Peer(c, n) \in up[c]
      BY <2>2 DEF Hails
    <3>2. wire[c][n][i].type \notin Routed \cup {"client"}
      BY <1>2, <2>2, <2>3, <3>1, IdleMail
    <3>3. Is("server", c, n, i)
      BY <2>3, <3>2 DEF Framed, Plain, Greeting, Is
    <3>4. QED
      BY <2>3, <3>3 DEF HandshakesOn
  <2>5. Len(wire[c][n]) = 1
    <3>1. DOMAIN wire[c][n] = 1 .. Len(wire[c][n]) /\ Len(wire[c][n]) \in Nat
      BY <1>3
    <3>2. 2 \notin DOMAIN wire[c][n] /\ 1 \in DOMAIN wire[c][n]
      BY <1>2, <2>4
    <3>3. PICK k \in Nat : k = Len(wire[c][n])
      BY <3>1
    <3>4. 2 \notin 1 .. k /\ 1 \in 1 .. k
      BY <3>1, <3>2, <3>3
    <3>5. k = 1
      BY <3>4
    <3>6. QED
      BY <3>3, <3>5, Zenon
  <2>6. before[c][n] = Tail(wire[c][n])
    BY <1>2 DEF Reads
  <2>7. PICK q \in Seq(Packet) : q = wire[c][n]
    BY <1>3
  <2>8. Len(q) = 1 /\ before[c][n] = Tail(q) /\ unsent[c][n] = 0
    BY <1>3, <2>5, <2>6, <2>7
  <2>9. Len(Tail(q)) = 0
    BY <2>8
  <2>10. QED
    BY <2>8, <2>9
<1>6. \A e \in Conn : \A y \in Node \ up'[e] : unsent[e][y] = Len(before[e][y])
  BY <1>4, <1>5
<1>7. QED
  BY <1>2, <1>6, CommitAbandoned

LEMMA ConnectCalm ==
    ASSUME IInv, Calm', NEW n \in Node, NEW m \in Node, Connect(n, m)
    PROVE  Calm
<1>1. PICK c \in Conn : Opens(c, n, m)
  BY Opening
<1>2. Crossed => Crossed'
  <2>1. DOMAIN ends \subseteq DOMAIN ends' /\ \A i \in DOMAIN ends : ends'[i] = ends[i]
    BY <1>1 DEF Opens
  <2>2. QED
    BY <2>1 DEF Crossed
<1>3. lost' = lost
  BY DEF Connect
<1>4. QED
  BY <1>2, <1>3 DEF Calm

LEMMA NextAbandoned == IInv /\ IInv' /\ JInv /\ Abandoned /\ [Next]_vars => Abandoned'
<1> SUFFICES ASSUME IInv, IInv', JInv, Abandoned, [Next]_vars, Calm' PROVE Abandoned'
  BY DEF Abandoned
<1>1. ASSUME Calm, UNCHANGED <<up, wire, unsent>> PROVE Abandoned'
  BY <1>1 DEF Abandoned
<1>2. ASSUME NEW n \in Node, NEW m \in Node, Connect(n, m) PROVE Abandoned'
  <2>1. Calm
    BY <1>2, ConnectCalm
  <2>2. PICK c \in Conn : Opens(c, n, m)
    BY <1>2, Opening
  <2>3. unsent' = unsent /\ up' = [up EXCEPT ![c] = {n, m}] /\ wire' = [wire EXCEPT ![c][n] = wire'[c][n]]
    <3>1. c = Len(ends) + 1
      BY <1>2, <2>2 DEF Connect, Opens
    <3>2. wire \in [Conn -> [Node -> Seq(Packet)]]
      BY DEF IInv, Wired
    <3>3. QED
      BY <1>2, <3>1, <3>2 DEF Connect
  <2>4. ASSUME NEW e \in Conn, NEW y \in Node \ up'[e] PROVE unsent'[e][y] = Len(wire'[e][y])
    <3>1. up \in [Conn -> SUBSET Node] /\ wire \in [Conn -> [Node -> Seq(Packet)]]
      BY DEF IInv, Wired
    <3>2. y \notin up[e]
      BY <2>2, <2>4 DEF Opens
    <3>3. ~(e = c /\ y = n)
      BY <2>2, <2>4 DEF Opens
    <3>4. wire'[e][y] = wire[e][y]
      BY <2>3, <3>1, <3>3
    <3>5. QED
      BY <2>1, <2>3, <3>2, <3>4 DEF Abandoned
  <2>5. QED
    BY <2>4 DEF Abandoned
<1>3. ASSUME lost' = lost, ends' = ends PROVE Calm
  BY <1>3, StillCalm
<1>4. ASSUME NEW n \in Node, NEW c \in Conn, Receive(n, c) PROVE Abandoned'
  <2>1. lost' = lost /\ ends' = ends
    BY <1>4, Zenon DEF Receive
  <2>2. QED
    BY <1>3, <1>4, <2>1, ReceiveAbandoned
<1>5. ASSUME NEW n \in Node, NEW c \in Conn, Closed(n, c) PROVE Abandoned'
  <2>1. Calm
    BY <1>3, <1>5 DEF Closed
  <2>2. /\ Len(wire[c][n]) = unsent[c][n] /\ up' = [up EXCEPT ![c] = up[c] \ {n}]
        /\ wire' = wire /\ unsent' = unsent
    BY <1>5, <2>1 DEF Closed, Calm
  <2>3. up \in [Conn -> SUBSET Node]
    BY DEF IInv, Wired
  <2>4. ASSUME NEW e \in Conn, NEW y \in Node \ up'[e] PROVE unsent'[e][y] = Len(wire'[e][y])
    BY <2>1, <2>2, <2>3 DEF Abandoned
  <2>5. QED
    BY <2>4 DEF Abandoned
<1>6. ASSUME NEW n \in Node, NEW m \in Node, TellEnd(n, m) PROVE Abandoned'
  <2>1. Calm /\ up' = up
    BY <1>3, <1>6 DEF TellEnd, network
  <2>2. PICK t : Commit(n, t, wire, up')
    BY <1>6, <2>1 DEF TellEnd
  <2>3. QED
    BY <2>1, <2>2, CommitAbandoned DEF Abandoned
<1>7. ASSUME NEW n \in Node, NEW m \in Node, NEW x \in Node, Tell(n, m, x) PROVE Abandoned'
  <2>1. Calm /\ up' = up
    BY <1>3, <1>7 DEF Tell, network
  <2>2. PICK t : Commit(n, t, wire, up')
    BY <1>7, <2>1 DEF Tell
  <2>3. QED
    BY <2>1, <2>2, CommitAbandoned DEF Abandoned
<1>8. ASSUME NEW c \in Conn, Lose(c) PROVE Abandoned'
  <2>1. lost' # {}
    BY <1>8 DEF Lose
  <2>2. QED
    BY <2>1 DEF Calm
<1>9. ASSUME NEW n \in Node, Note(n) \/ Die(n) PROVE Abandoned'
  BY <1>1, <1>3, <1>9 DEF Note, Die, network
<1>10. CASE vars' = vars
  BY <1>1, <1>3, <1>10 DEF vars, network
<1>11. QED
  BY <1>2, <1>4, <1>5, <1>6, <1>7, <1>8, <1>9, <1>10 DEF Next, BrokerStep

LEMMA InitWaits ==
    ASSUME Init
    PROVE  Covered /\ Abandoned
<1>1. \A c \in Conn, y \in Node : wire[c][y] = << >> /\ unsent[c][y] = 0
  BY DEF Init
<1>2. QED
  BY <1>1 DEF Covered, Waits, Abandoned

(* Once nothing is under way, every node that has met an actor knows of    *)
(* its end or has its own announcement still in a buffer, with at most     *)
(* three nodes, no losses and no two nodes that have dialled each other: a *)
(* proxy is watched for where its actor lives, or the announcement or the  *)
(* end is still on its way, and only announcements are never flushed.      *)
THEOREM BaspDeadActorsForgotten == Spec => []DeadActorsForgotten
<1> DEFINE Inv == IInv /\ JInv /\ Covered /\ Abandoned
<1>1. Init => Inv
  BY InitIInv, InitJInv, InitWaits
<1>2. Inv /\ [Next]_vars => Inv'
  BY NextIInv, NextJInv, NextCovered, NextAbandoned
<1>3. Inv => DeadActorsForgotten
  <2> SUFFICES ASSUME IInv, JInv, Covered, Abandoned, Calm, Settled, NEW n \in Node,
                      NEW d \in broker[n].proxies \ alive
               PROVE  Unannounced(n, d)
    BY DEF DeadActorsForgotten, Calm
  <2>1. Sound(broker[n], n) /\ d \in Node /\ n # d
    <3>1. Sound(broker[n], n)
      BY DEF IInv, Tables
    <3>2. QED
      BY <3>1 DEF Sound, Broker
  <2>2. ASSUME NEW c \in Conn, NEW y \in Node, NEW i \in DOMAIN wire[c][y]
        PROVE  i > Len(wire[c][y]) - unsent[c][y] /\ Announcement(wire[c][y][i])
    <3>1. unsent[c][y] = Len(wire[c][y])
      BY DEF Settled, Abandoned
    <3>2. wire[c][y] \in Seq(Packet)
      BY DEF IInv, Wired
    <3>3. i > Len(wire[c][y]) - unsent[c][y]
      BY <3>1, <3>2
    <3>4. QED
      BY <3>3 DEF Covered, Waits
  <2>3. \/ n \in broker[d].watchers
        \/ Waiting(wire, "announce", n, d) \/ InFlight(wire, up, "kill", d, n)
    <3>1. Ties(broker, wire, up)
      BY DEF JInv, Good
    <3>2. QED
      BY <2>1, <3>1 DEF Ties
  <2>4. n \notin broker[d].watchers
    BY <2>1 DEF Settled
  <2>5. ~InFlight(wire, up, "kill", d, n)
    <3>1. \A c \in Conn : up[c] \subseteq Node
      BY DEF IInv, Wired
    <3>2. ASSUME NEW c \in Conn, NEW y \in up[c], NEW i \in DOMAIN wire[c][y] PROVE wire[c][y][i].type # "kill"
      <4>1. PICK a, b \in Node : wire[c][y][i] = Message("announce", a, b, None)
        BY <2>2, <3>1, <3>2 DEF Announcement
      <4>2. QED
        BY <4>1 DEF Message
    <3>3. QED
      BY <3>2 DEF InFlight, Queued, Says
  <2>6. PICK c \in Conn, y \in Node : Queued(wire[c][y], "announce", n, d)
    BY <2>3, <2>4, <2>5 DEF Waiting
  <2>7. PICK i \in DOMAIN wire[c][y] : Says(wire[c][y][i], "announce", n, d)
    BY <2>6 DEF Queued
  <2>8. wire[c][y][i] = Message("announce", n, d, None)
    <3>1. PICK a, b \in Node : wire[c][y][i] = Message("announce", a, b, None)
      BY <2>2 DEF Announcement
    <3>2. a = n /\ b = d
      BY <2>7, <3>1 DEF Says, Message
    <3>3. QED
      BY <3>1, <3>2
  <2>9. QED
    BY <2>2, <2>8 DEF Unannounced
<1>4. QED
  BY <1>1, <1>2, <1>3, PTL DEF Spec
=============================================================================
