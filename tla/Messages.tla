------------------------------- MODULE Messages -------------------------------
(***************************************************************************)
(* How a message crosses the mesh: sendRemoteMessage of core/federation.js,*)
(* broadcastChannelMessage of core/presenceManager.js and the handler of   *)
(* DIRECT_MESSAGE and CHANNEL_MESSAGE of core/federationPacketHandler.js,  *)
(* over the tunnels and routes of Routes.  A message of the global channel *)
(* is flooded; one to a user goes from relay to relay to his tunnel.  Every*)
(* node remembers the ids it has seen and keeps the message in its table.  *)
(***************************************************************************)
EXTENDS Routes

CONSTANTS
    Global,         \* messages to the global channel
    Direct,         \* messages to a user of another node
    From,           \* From[m]: the node of the sender
    To,             \* To[m]: the node of the user a direct message is for
    HopLimit,       \* ttl, 5
    Restarts,       \* bound: nodes that may restart
    MaxSent         \* bound: messages sent

Msg == Global \cup Direct

ASSUME MessagesAssumption ==
    /\ Global \cap Direct = {}
    /\ \A m \in Msg : From[m] \in Node
    /\ \A m \in Direct : From[m] \in Edge /\ To[m] \in Edge \ {From[m]}
    /\ HopLimit \in Nat \ {0}
    /\ IsFiniteSet(Node)
    /\ Restarts \subseteq Node
    /\ MaxSent \in Nat

VARIABLES
    sent,           \* messages their users have sent
    seen,           \* seen[n]: seenMessages of n
    table,          \* table[n]: the messages n has saved under their own id
    mnet,           \* copies of messages on their way
    clean,          \* history: messages sent over right routes, undisturbed since
    restarted       \* history: nodes that lost their seenMessages

msgVars == <<sent, seen, table, mnet, clean, restarted>>
vars == <<routeVars, msgVars>>

Copy == [msg : Msg, hop : 0 .. (HopLimit - 1), src : Node, dst : Node]

\* Type invariant.
TypeOK ==
    /\ RoutesTypeOK
    /\ sent \subseteq Msg
    /\ seen \in [Node -> SUBSET Msg]
    /\ table \in [Node -> SUBSET Msg]
    /\ mnet \subseteq Copy
    /\ clean \subseteq sent
    /\ restarted \subseteq Node

Init ==
    /\ RoutesInit
    /\ sent = {}
    /\ seen = [n \in Node |-> {}]
    /\ table = [n \in Node |-> {}]
    /\ mnet = {}
    /\ clean = {}
    /\ restarted = {}
-----------------------------------------------------------------------------
\* Copies to a node that has seen the id change nothing there: it answers
\* `duplicate'.
Unknown(net, known) == {k \in net : k.msg \notin known[k.dst]}

CopiesOf(m, hop, n, dsts) == [msg : {m}, hop : {hop}, src : {n}, dst : dsts]

\* broadcastChannelMessage: the known peers, the tunnels and the own relays.
\* The address a copy came from is left out.  Of a relay that dialled this
\* node it is not the one it listens on, so that it gets the message back.
Flood(n, src) ==
    LET own == IF n \in Relay THEN peers[n] ELSE (peers[n] \cup RelaysOf(n)) \ {src}
    IN own \cup (TunnelsOf(n) \ {src})

\* Where a relay passes a direct message on: the tunnel of the target or,
\* without one, the relays of its route or else all known ones; not back.
Transit(n, e, src) ==
    LET known == rdv[n][e] \ {n}
    IN IF n \in Edge THEN {}
       ELSE IF <<n, e>> \in tunnels THEN {e}
       ELSE (IF known # {} THEN known \cap Relay ELSE peers[n]) \ {src}

NextHops(n, m, src) ==
    IF m \in Global THEN Flood(n, src)
    ELSE IF To[m] = n THEN {} ELSE Transit(n, To[m], src)

\* Mutant: without a relay that the route names, to none.
MutHandover(n, e) == RelaysOf(n) \cap rdv[n][e]

\* An edge hands a direct message to those of its relays that the route names,
\* or to all of them.
Handover(n, e) ==
    LET named == RelaysOf(n) \cap rdv[n][e]
    IN IF named # {} THEN named ELSE RelaysOf(n)

\* No relay is missing among the peers of another.
Whole == \A r \in Relay : peers[r] = Relay \ {r}

\* All nodes have the right route to e, and so have the packets on their way.
RouteRight(e) ==
    /\ RelaysOf(e) # {}
    /\ \A n \in Node \ {e} : rdv[n][e] = RelaysOf(e)
    /\ \A p \in rnet : p.edge = e =>
         IF p.kind = "announce" THEN p.list = RelaysOf(e) ELSE p.list \subseteq RelaysOf(e)

\* m is sent while nothing is amiss: over the right route, or to some relay of
\* a mesh that is whole.
SentWell(m) == IF m \in Direct THEN RouteRight(To[m]) ELSE Whole /\ Flood(From[m], From[m]) # {}

\* Mutant: the id is not noted by the sender.
MutSendRemoteMessage(m) ==
    LET n == From[m]
        dsts == IF m \in Global THEN Flood(n, n) ELSE Handover(n, To[m])
    IN
    /\ m \notin sent /\ Cardinality(sent) < MaxSent
    /\ m \in Direct => RelaysOf(n) # {}
    /\ sent' = sent \cup {m}
    /\ mnet' = mnet \cup CopiesOf(m, 0, n, dsts)
    /\ clean' = IF SentWell(m) THEN clean \cup {m} ELSE clean
    /\ UNCHANGED <<routeVars, seen, table, restarted>>

\* sendRemoteMessage.  The sender's node has saved the message under another
\* id, so only `seen' tells it that a copy is its own.  A direct message of
\* a node without relays goes into a circuit or the outbox (Outbox, Circuits).
SendRemoteMessage(m) ==
    LET n == From[m]
        dsts == IF m \in Global THEN Flood(n, n) ELSE Handover(n, To[m])
    IN
    /\ m \notin sent /\ Cardinality(sent) < MaxSent
    /\ m \in Direct => RelaysOf(n) # {}
    /\ sent' = sent \cup {m}
    /\ seen' = [seen EXCEPT ![n] = @ \cup {m}]
    /\ mnet' = mnet \cup CopiesOf(m, 0, n, dsts)
    /\ clean' = IF SentWell(m) THEN clean \cup {m} ELSE clean
    /\ UNCHANGED <<routeVars, table, restarted>>

\* A message of another node's user teaches the address it came from as one of
\* that node's.
Learned(k) ==
    LET e == From[k.msg]
    IN IF e \in Edge /\ e # k.dst THEN [rdv EXCEPT ![k.dst][e] = @ \cup {k.src}] ELSE rdv

\* Mutant: a copy that has used up its hops is passed on once more.
MutOnward(k) ==
    IF k.msg \notin table[k.dst] /\ k.hop + 1 <= HopLimit
    THEN CopiesOf(k.msg, k.hop + 1, k.dst, NextHops(k.dst, k.msg, k.src)) ELSE {}

\* Mutant: one hop short, as if the first one had been counted twice.
MutOnwardShort(k) ==
    IF k.msg \notin table[k.dst] /\ k.hop + 2 < HopLimit
    THEN CopiesOf(k.msg, k.hop + 1, k.dst, NextHops(k.dst, k.msg, k.src)) ELSE {}

\* The copies a first copy gives rise to.  A message that is in the table
\* already, since before a restart, is not passed on.
Onward(k) ==
    IF k.msg \notin table[k.dst] /\ k.hop + 1 < HopLimit
    THEN CopiesOf(k.msg, k.hop + 1, k.dst, NextHops(k.dst, k.msg, k.src)) ELSE {}

\* handleDirectOrChannelMessage, the first copy.
ReceiveMessage(k) ==
    /\ seen' = [seen EXCEPT ![k.dst] = @ \cup {k.msg}]
    /\ table' = [table EXCEPT ![k.dst] = @ \cup {k.msg}]
    /\ rdv' = Learned(k)
    /\ mnet' = Unknown(mnet \cup Onward(k), seen')
    /\ UNCHANGED <<peers, edgeIps, tunnels, seenRoutes, rnet, moves, sent, clean, restarted>>
-----------------------------------------------------------------------------
\* The channel breaks.
Lose(k) ==
    /\ Move
    /\ mnet' = mnet \ {k}
    /\ clean' = clean \ {k.msg}
    /\ UNCHANGED <<peers, edgeIps, tunnels, rdv, seenRoutes, rnet, sent, seen, table, restarted>>

\* seenMessages, edgeIps, the tunnels and all channels are gone; table, routes
\* and peers are on disk.  Edges that do not roam have their tunnels back.
Restart(n) ==
    /\ Move
    /\ seen' = [seen EXCEPT ![n] = {}]
    /\ edgeIps' = [edgeIps EXCEPT ![n] = {}]
    /\ tunnels' = {t \in tunnels : n \notin {t[1], t[2]} \/ t[2] \notin Roams}
    /\ Flying({p \in rnet : n \notin {p.src, p.dst}}, [seenRoutes EXCEPT ![n] = {}])
    /\ mnet' = {k \in mnet : n \notin {k.src, k.dst}}
    /\ clean' = {}
    /\ restarted' = restarted \cup {n}
    /\ UNCHANGED <<peers, rdv, sent, table>>

\* A tunnel that closes takes the copies in it along.
Moved ==
    /\ \E r \in Relay, e \in Edge :
         \/ Bind(r, e) /\ mnet' = mnet
         \/ Unbind(r, e) /\ mnet' = {k \in mnet : {k.src, k.dst} # {r, e}}
    /\ clean' = {}
    /\ UNCHANGED <<sent, seen, table, restarted>>

\* Routes changes on its own; a relay that is evicted is a disturbance.
Quietly ==
    /\ clean' = IF Whole' THEN clean ELSE clean \ Global
    /\ UNCHANGED <<sent, seen, table, mnet, restarted>>

Next ==
    \/ \E m \in Msg : SendRemoteMessage(m)
    \/ \E k \in mnet : ReceiveMessage(k) \/ Lose(k)
    \/ \E n \in Restarts : Restart(n)
    \/ Moved
    \/ RoutesNext /\ Quietly

Spec == Init /\ [][Next]_vars

\* The announcement timer of every edge fires, and announcements that are
\* written to a node's channels arrive there unless a channel breaks.
Fairness ==
    /\ \A e \in Roams : WF_vars(Announce(e) /\ Quietly)
    /\ \A n \in Node : WF_vars(\E p \in rnet : p.dst = n /\ ReceiveAnnounce(p) /\ Quietly)

FairSpec == Spec /\ Fairness
-----------------------------------------------------------------------------
OnItsWay(m) == \E k \in mnet : k.msg = m

\* A message of the global channel that reached some relay and that nothing
\* disturbed ends up at every relay and every edge with a tunnel: a node that
\* drops a second copy has passed the first one on with hops to spare,
\* whichever path was faster.
FloodReaches ==
    \A m \in Global \cap clean :
        OnItsWay(m)
        \/ \A n \in (Relay \cup {e \in Edge : RelaysOf(e) # {}}) \ {From[m]} : m \in table[n]

\* A direct message handed over while all nodes knew the right route arrives,
\* whichever copy is first at each node, although repeated announcements,
\* updates and the addresses its own copies teach keep writing to the tables.
DirectArrives ==
    \A m \in Direct \cap clean : OnItsWay(m) \/ m \in table[To[m]]

\* A message that comes back to the node it was sent from is not stored and
\* shown there a second time, unless the node has forgotten it in a restart.
OwnOnce == \A m \in sent : m \in table[From[m]] => From[m] \in restarted

\* Once an edge's tunnels stay as they are, every node settles on the relays
\* it is bound to, although older announcements that arrive late replace newer
\* ones and updates only ever add.  (So it is among relays with host names:
\* those known by their IP evict each other.)
Settle ==
    \A e \in Roams :
        <>[](RelaysOf(e) = {} \/ \A n \in Node \ {e} : rdv[n][e] = RelaysOf(e))
=============================================================================
