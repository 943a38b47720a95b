--------------------------------- MODULE Basp ---------------------------------
(***************************************************************************)
(* CAF's network layer: the BASP brokers of several nodes (basp_broker,    *)
(* instance, routing_table, proxy_registry) and their middleman actors.    *)
(* Each node has one published actor, which goes by the node's name.       *)
(* Brokers shake hands over TCP connections, learn which node relays to    *)
(* which other, keep a proxy for each remote actor they have met, tell the *)
(* actor's node about it (announce_proxy) and are told when the actor ends *)
(* (kill_proxy).  The middleman actor, on a thread of its own, answers     *)
(* connect requests and monitors the proxies it has cached.                *)
(*                                                                         *)
(* A broker handles one event at a time, in one step.  Its state is a      *)
(* record, and what a handler does is a chain of operators on that record; *)
(* out collects what it writes, flushed whose stream it flushes.  Header   *)
(* and payload of a message arrive together.  Spawn servers are named by   *)
(* the node they were started for; the proxies the other side keeps for    *)
(* them are left out, and so is the second erasure of a proxy that its own *)
(* functor posts.                                                          *)
(***************************************************************************)
EXTENDS Integers, Sequences, FiniteSets

CONSTANTS
    Node,
    None,        \* invalid_node_id, invalid_connection_handle
    Dial,        \* pairs <<n, m>>: the program on n may connect to m
    Talk,        \* triples <<n, m, x>>: n may send m's actor a handle to x's
    Mortal,      \* nodes whose actor may end
    MaxConns,    \* bound: connections opened
    MaxTells,    \* bound: messages sent by programs
    Fragile      \* bound: the connections the network may drop

ASSUME BaspAssumption ==
    /\ None \notin Node /\ Dial \subseteq {p \in Node \X Node : p[1] # p[2]}
    /\ Talk \subseteq Node \X Node \X Node
    /\ IsFiniteSet(Node) /\ MaxConns \in Nat /\ MaxTells \in Nat
    /\ None \notin 1 .. MaxConns /\ Fragile \subseteq 1 .. MaxConns

Conn == 1 .. MaxConns

VARIABLES
    broker,      \* each node's basp_broker_state, with its middleman actor's
    alive,       \* nodes whose actor lives
    ends,        \* client and server of each connection opened so far
    up,          \* the ends that still hold a connection
    lost,        \* connections the network has dropped
    wire,        \* wire[c][n]: what was written to n on connection c, in order
    unsent,      \* how many of these, the last, wait in wr_offline_buf_
    tells        \* messages sent by programs so far

network == <<ends, up, lost>>
vars == <<broker, alive, network, wire, unsent, tells>>

(* byHdl, byNid: direct routes; indirect, hops: destinations and relays;   *)
(* id: the node a connection's context names; servers: spawn_servers;      *)
(* watchers: nodes the own actor's functors will tell of its end.  Of the  *)
(* middleman actor: connect requests under way (pending) and answered      *)
(* (cached), the proxies whose end it is told of (monitored), and what is  *)
(* in its mailbox: the answers of the broker and ends of proxies, in no    *)
(* order, since there is one at a time for each endpoint.                  *)
FreshBroker ==
    [byHdl |-> [c \in Conn |-> None], byNid |-> [d \in Node \cup {None} |-> None],
     indirect |-> {}, hops |-> [d \in Node |-> {}], id |-> [c \in Conn |-> None],
     servers |-> {}, proxies |-> {}, watchers |-> {}, pending |-> {}, cached |-> {},
     monitored |-> {}, mail |-> {}, out |-> [c \in Conn |-> << >>], flushed |-> {}]

Peer(c, n) == IF ends[c][1] = n THEN ends[c][2] ELSE ends[c][1]

Message(type, src, dst, about) == [type |-> type, src |-> src, dst |-> dst, about |-> about]

-----------------------------------------------------------------------------
(* routing_table, on the record s of a broker *)

Usable(s, d) == {h \in s.hops[d] : s.byNid[h] # None}

(* lookup: the direct connection, or that to a relay; relays without one   *)
(* are dropped on the way (the set has no order: all of them).             *)
Route(s, d) ==
    IF s.byNid[d] # None \/ Usable(s, d) = {} THEN s.byNid[d]
    ELSE s.byNid[CHOOSE h \in Usable(s, d) : TRUE]

Looked(s, d) == IF s.byNid[d] # None THEN s ELSE [s EXCEPT !.hops[d] = Usable(s, d)]

Write(s, c, m) == [s EXCEPT !.out[c] = Append(@, m)]

Flush(s, c) == [s EXCEPT !.flushed = @ \cup {c}]

(* A message without a route is not sent. *)
SendTo(s, d, m) ==
    IF Route(s, d) = None THEN Looked(s, d)
    ELSE Flush(Write(Looked(s, d), Route(s, d), m), Route(s, d))

(* learned_new_node: a spawn server asks its colleague over there. *)
LearnedNewNode(s, n, d) ==
    IF d \in s.servers THEN s
    ELSE SendTo([s EXCEPT !.servers = @ \cup {d}], d, Message("spawn", n, d, None))

(* add_indirect and, for the first relay, learned_new_node_indirectly.     *)
AddIndirect(s, n, hop, d) ==
    LET added == [s EXCEPT !.hops[d] = @ \cup {hop}, !.indirect = @ \cup {d}]
    IN  IF s.hops[d] = {} THEN LearnedNewNode(added, n, d) ELSE added

M_EraseIndirect(s, d) == s

EraseIndirect(s, d) == [s EXCEPT !.hops[d] = {}, !.indirect = @ \ {d}]

(* add_direct, erase_indirect and learned_new_node_directly, with what the *)
(* handshake writes in between.                                            *)
AddDirect(s, n, c, d, reply) ==
    LET t == EraseIndirect([s EXCEPT !.byHdl[c] = d, !.byNid[d] = c, !.out[c] = @ \o reply], d)
    IN  IF d \in s.indirect THEN t ELSE LearnedNewNode(t, n, d)

(* proxy_registry::erase: the proxies of the nodes in gone end, and those  *)
(* who monitor them are told; an answer may hold one that has ended since. *)
EndProxies(s, gone) ==
    [s EXCEPT !.proxies = @ \ gone, !.monitored = @ \ gone,
              !.mail = {IF e.what = "proxy" /\ e.node \in gone THEN [e EXCEPT !.what = "ended"] ELSE e : e \in @}
                          \cup [what : {"down"}, node : gone \cap s.monitored]]

(* erase and purge_state: node d is gone, and so are its proxies. *)
EraseNode(s, d) ==
    LET gone == {x \in {d} \cup s.hops[d] : s.byNid[x] # None}
        left == [EndProxies(s, gone) EXCEPT
                    !.id = [c \in Conn |-> IF \E x \in gone : s.byNid[x] = c THEN None ELSE s.id[c]]]
    IN  EraseIndirect([left EXCEPT !.byHdl[s.byNid[d]] = None, !.byNid[d] = None], d)

(* get_or_put and make_proxy for the actor of node a, met in a message on  *)
(* connection c: whoever mentions it is taken for a relay to it.  The      *)
(* announcement is written to c and the route to a is flushed.             *)
Meet(s, n, c, a) ==
    IF a \in s.proxies \cup {n} THEN s
    ELSE LET t == IF a # s.id[c] /\ s.byNid[a] = None THEN AddIndirect(s, n, s.id[c], a) ELSE s
         IN  IF Route(t, a) = None THEN Looked(t, a)
             ELSE Flush(Write([Looked(t, a) EXCEPT !.proxies = @ \cup {a}], c, Message("announce", n, a, None)),
                        Route(t, a))

(* The callback answers the middleman actor. *)
FinalizeHandshake(s, n, c, d) ==
    LET t == Meet([s EXCEPT !.id[c] = d], n, c, d)
    IN  [t EXCEPT !.mail = @ \cup {[what |-> IF d \in t.proxies THEN "proxy" ELSE "nothing", node |-> d]}]

KillMessage(n, d) == Message("kill", n, d, None)

-----------------------------------------------------------------------------
(* instance::handle, by node n for message m that came on connection c *)

Forward(s, m) ==
    IF Route(s, m.dst) # None THEN SendTo(s, m.dst, m) ELSE Looked(Looked(s, m.dst), m.src)

ServerHandshake(s, n, c, d) ==
    IF s.byNid[d] # None THEN [FinalizeHandshake(s, n, c, d) EXCEPT !.id[c] = None]
    ELSE Flush(FinalizeHandshake(AddDirect(s, n, c, d, <<Message("client", n, d, None)>>), n, c, d), c)

ClientHandshake(s, n, c, d) == IF s.byNid[d] # None THEN s ELSE AddDirect(s, n, c, d, << >>)

LearnRoute(s, n, c, src) ==
    IF s.byHdl[c] # src /\ s.byNid[src] = None THEN AddIndirect(s, n, s.byHdl[c], src) ELSE s

DispatchMessage(s, n, c, m) ==
    Meet(Meet(LearnRoute(s, n, c, m.src), n, c, m.about), n, c, m.src)

M_ProxyAnnounced(s, n, src) ==
    IF n \in alive THEN [s EXCEPT !.watchers = @ \cup {src}] ELSE s

(* An actor that has ended already kills the proxy at once. *)
ProxyAnnounced(s, n, src) ==
    IF n \in alive THEN [s EXCEPT !.watchers = @ \cup {src}] ELSE SendTo(s, src, KillMessage(n, src))

KillProxy(s, src) == EndProxies(s, {src})

Handled(s, n, c, m) ==
    CASE m.type = "server" -> ServerHandshake(s, n, c, m.src)
      [] m.type = "client" -> ClientHandshake(s, n, c, m.src)
      [] m.type \notin {"server", "client"} /\ m.dst # n -> Forward(s, m)
      [] m.type = "spawn" /\ m.dst = n -> LearnRoute(s, n, c, m.src)
      [] m.type = "dispatch" /\ m.dst = n -> DispatchMessage(s, n, c, m)
      [] m.type = "announce" /\ m.dst = n -> ProxyAnnounced(s, n, m.src)
      [] m.type = "kill" /\ m.dst = n -> KillProxy(s, m.src)

-----------------------------------------------------------------------------
(* Steps *)

Arrives(w, c, n) == c \notin lost /\ n \in w[c]

(* What n wrote earlier may still be on its way into the socket. *)
Writing(c, n) == \E d \in Node \ {n} : wire[c][d] # << >> /\ unsent[c][d] = 0

(* What broker n has written in state s reaches the wires that are held    *)
(* open; w says who holds which.  It is sent with all that waited when the *)
(* stream is flushed or was still writing, and waits otherwise.            *)
Commit(n, s, before, w) ==
    /\ broker' = [broker EXCEPT ![n] = [s EXCEPT !.out = [c \in Conn |-> << >>], !.flushed = {}]]
    /\ wire' = [c \in Conn |-> [d \in Node |->
            IF Arrives(w, c, d) /\ d # n THEN before[c][d] \o s.out[c] ELSE before[c][d]]]
    /\ \E late \in SUBSET {c \in Conn \ s.flushed : s.out[c] # << >> /\ Writing(c, n)} :
          unsent' = [c \in Conn |-> [d \in Node |->
              CASE ~Arrives(w, c, d) \/ d = n -> unsent[c][d]
                [] Arrives(w, c, d) /\ d # n /\ c \in s.flushed \cup late -> 0
                [] Arrives(w, c, d) /\ d # n /\ c \notin s.flushed \cup late -> unsent[c][d] + Len(s.out[c])]]

(* The program asks the middleman actor, which asks the broker unless the  *)
(* endpoint is cached or a request for it is under way; the other side's   *)
(* broker writes its handshake as soon as it has accepted.                 *)
Connect(n, m) ==
    /\ <<n, m>> \in Dial /\ m \notin broker[n].cached \cup broker[n].pending
    /\ Len(ends) < MaxConns
    /\ ends' = Append(ends, <<n, m>>)
    /\ LET c == Len(ends) + 1
       IN  /\ up' = [up EXCEPT ![c] = {n, m}]
           /\ wire' = [wire EXCEPT ![c][n] = <<Message("server", m, None, None)>>]
    /\ broker' = [broker EXCEPT ![n].pending = @ \cup {m}]
    /\ UNCHANGED <<alive, lost, unsent, tells>>

M_Noted(s, e) ==                     \* monitors without finding out it has ended
    LET rest == [s EXCEPT !.mail = @ \ {e}]
        over == [rest EXCEPT !.pending = @ \ {e.node}]
    IN  CASE e.what = "down"    -> [rest EXCEPT !.cached = @ \ {e.node}]
          [] e.what = "nothing" -> over
          [] e.what = "proxy"   -> [over EXCEPT !.cached = @ \cup {e.node}, !.monitored = @ \cup {e.node}]
          [] e.what = "ended"   -> [over EXCEPT !.cached = @ \cup {e.node}]

(* The middleman actor reads e: to monitor a proxy that has ended already  *)
(* brings its down message at once.                                        *)
Noted(s, e) ==
    LET rest == [s EXCEPT !.mail = @ \ {e}]
        over == [rest EXCEPT !.pending = @ \ {e.node}]
    IN  CASE e.what = "down"    -> [rest EXCEPT !.cached = @ \ {e.node}]
          [] e.what = "nothing" -> over
          [] e.what = "proxy"   -> [over EXCEPT !.cached = @ \cup {e.node}, !.monitored = @ \cup {e.node}]
          [] e.what = "ended"   -> [over EXCEPT !.cached = @ \cup {e.node},
                                                !.mail = @ \cup {[what |-> "down", node |-> e.node]}]

Note(n) ==
    /\ \E e \in broker[n].mail : broker' = [broker EXCEPT ![n] = Noted(@, e)]
    /\ UNCHANGED <<alive, network, wire, unsent, tells>>

Receive(n, c) ==
    /\ n \in up[c] /\ unsent[c][n] < Len(wire[c][n])
    /\ LET m == Head(wire[c][n])
           closes == m.type = "server" /\ broker[n].byNid[m.src] # None
           w == IF closes THEN [up EXCEPT ![c] = @ \ {n}] ELSE up
       IN  /\ Commit(n, Handled(broker[n], n, c, m), [wire EXCEPT ![c][n] = Tail(@)], w)
           /\ up' = w
    /\ UNCHANGED <<alive, ends, lost, tells>>

(* connection_closed_msg *)
Closed(n, c) ==
    /\ n \in up[c]
    /\ c \in lost \/ (Peer(c, n) \notin up[c] /\ Len(wire[c][n]) = unsent[c][n])
    /\ up' = [up EXCEPT ![c] = @ \ {n}]
    /\ LET s == broker[n]
       IN  broker' = IF s.byHdl[c] = None THEN broker
                     ELSE [broker EXCEPT ![n] = EraseNode(s, s.byHdl[c])]
    /\ UNCHANGED <<alive, ends, lost, wire, unsent, tells>>

(* The network drops a connection and what travels on it; each end notices *)
(* in its own time.                                                        *)
Lose(c) ==
    /\ c \in Fragile \ lost /\ c <= Len(ends)
    /\ lost' = lost \cup {c}
    /\ wire' = [wire EXCEPT ![c] = [n \in Node |-> << >>]]
    /\ unsent' = [unsent EXCEPT ![c] = [n \in Node |-> 0]]
    /\ UNCHANGED <<broker, alive, ends, up, tells>>

(* The program on n sends m's actor a message that holds a handle to x's.  *)
Tell(n, m, x) ==
    /\ <<n, m, x>> \in Talk /\ m \in broker[n].proxies /\ x \in (broker[n].proxies \cup {n}) \ {m}
    /\ tells < MaxTells /\ tells' = tells + 1
    /\ Commit(n, SendTo(broker[n], m, Message("dispatch", n, m, x)), wire, up)
    /\ UNCHANGED <<alive, network>>

Die(n) ==
    /\ n \in alive \cap Mortal /\ alive' = alive \ {n}
    /\ UNCHANGED <<broker, network, wire, unsent, tells>>

(* The functor proxy_announced has attached, posted to the broker's thread *)
TellEnd(n, m) ==
    /\ n \notin alive /\ m \in broker[n].watchers
    /\ Commit(n, SendTo([broker[n] EXCEPT !.watchers = @ \ {m}], m, KillMessage(n, m)), wire, up)
    /\ UNCHANGED <<alive, network, tells>>

Init ==
    /\ broker = [n \in Node |-> FreshBroker] /\ alive = Node
    /\ ends = << >> /\ up = [c \in Conn |-> {}] /\ lost = {}
    /\ wire = [c \in Conn |-> [n \in Node |-> << >>]]
    /\ unsent = [c \in Conn |-> [n \in Node |-> 0]]
    /\ tells = 0

BrokerStep(n) == (\E c \in Conn : Receive(n, c) \/ Closed(n, c)) \/ \E m \in Node : TellEnd(n, m)

Next ==
    \/ \E n \in Node : BrokerStep(n) \/ Note(n) \/ Die(n)
    \/ \E n, m \in Node : Connect(n, m)
    \/ \E n, m, x \in Node : Tell(n, m, x)
    \/ \E c \in Conn : Lose(c)

Spec == Init /\ [][Next]_vars

-----------------------------------------------------------------------------
(* Properties *)

(* Types.  And an endpoint is cached only with a proxy whose end the       *)
(* middleman actor will be told of: it monitors the proxy, or the down     *)
(* message is in its mailbox, whichever thread was first.                  *)
TypeOK ==
    /\ alive \subseteq Node /\ tells \in 0 .. MaxTells
    /\ \A c \in Conn : /\ up[c] \subseteq Node /\ (up[c] # {} => c <= Len(ends))
                       /\ \A n \in Node : unsent[c][n] \in 0 .. Len(wire[c][n])
    /\ \A n \in Node :
          /\ n \notin broker[n].proxies \cup broker[n].indirect
          /\ broker[n].proxies \cup broker[n].servers \cup broker[n].watchers \subseteq Node
          /\ broker[n].monitored \subseteq broker[n].proxies
          /\ \A d \in broker[n].cached :
                d \in broker[n].monitored \/ [what |-> "down", node |-> d] \in broker[n].mail

(* The two tables of direct routes are each other's inverse, a direct      *)
(* route is a connection its node still holds and that leads there, and    *)
(* no node is both a direct and an indirect destination (erase would       *)
(* otherwise purge its relays as well), through handshakes that cross,     *)
(* second connections and losses the two ends notice at different times.   *)
TablesAgree ==
    \A n \in Node : LET s == broker[n] IN
        /\ \A c \in Conn : s.byHdl[c] # None => s.byNid[s.byHdl[c]] = c
        /\ \A d \in Node : s.byNid[d] # None =>
              /\ s.byHdl[s.byNid[d]] = d /\ d \notin s.indirect /\ s.hops[d] = {}
              /\ n \in up[s.byNid[d]] /\ Peer(s.byNid[d], n) = d
        /\ \A d \in Node : s.hops[d] # {} => d \in s.indirect

Crossed == \E i, j \in DOMAIN ends : ends[i][1] = ends[j][2] /\ ends[i][2] = ends[j][1]

(* Nothing is under way: all that was sent has been read.                  *)
Settled ==
    /\ \A c \in Conn : \A n \in up[c] : unsent[c][n] = Len(wire[c][n])
    /\ \A n \in Node \ alive : broker[n].watchers = {}

(* The announcement of n's proxy for the actor of d waits in a buffer that *)
(* nobody has flushed.                                                     *)
Unannounced(n, d) ==
    \E c \in Conn, y \in Node : \E i \in DOMAIN wire[c][y] :
        /\ i > Len(wire[c][y]) - unsent[c][y]
        /\ wire[c][y][i] = Message("announce", n, d, None)

(* A proxy does not outlive its actor: once nothing is under way, every    *)
(* node that has met the actor knows of its end, wherever the handle was   *)
(* passed on, whichever route the announcement took and however it met     *)
(* the end, unless the node never sent its announcement.  (make_proxy      *)
(* flushes the route to the actor's node, which need not be the connection *)
(* it has written to.)  Excepted are lost connections, nodes that have     *)
(* dialled each other, and networks of four nodes or more: there a handle  *)
(* may come by way of a node that has never heard of its actor, is taken   *)
(* for the relay to it all the same, and drops the announcement (Forward). *)
DeadActorsForgotten ==
    Cardinality(Node) <= 3 /\ lost = {} /\ ~Crossed /\ Settled =>
        \A n \in Node : \A d \in broker[n].proxies \ alive : Unannounced(n, d)
=============================================================================
