-------------------------------- MODULE Routes --------------------------------
(***************************************************************************)
(* Which relays an edge is reached through, as every node knows it: the    *)
(* route part of the PRESENCE_ANNOUNCE handler, and ROUTE_UPDATE, of       *)
(* core/federationPacketHandler.js and core/presenceManager.js.  An edge   *)
(* announces the relays it is bound to, a relay the edges it has a tunnel  *)
(* of.  Copies of one packet travel over different channels: an older one  *)
(* may come last.  What the announcements say of users is in Presence.     *)
(* As in the default configuration, edges keep the role EDGE with any      *)
(* number of relays, and gossip between them.                              *)
(***************************************************************************)
EXTENDS Naturals, FiniteSets

CONSTANTS
    Relay, Edge,
    Named,          \* relays known by a host name; the others by their IP
    Roams,          \* bound: edges whose tunnels change and that announce
    MayBind,        \* bound: <<r, e>> where edge e may get a tunnel to relay r
    Start,          \* the tunnels there are at the start
    MaxIds,         \* bound: announcements of one edge on their way, of different lists
    MaxMoves        \* bound: tunnels opened or closed, and faults

Node == Relay \cup Edge

ASSUME RoutesAssumption ==
    /\ Relay \cap Edge = {}
    /\ Named \subseteq Relay
    /\ Roams \subseteq Edge
    /\ MayBind \subseteq Relay \X Roams
    /\ Start \subseteq Relay \X Edge
    /\ MaxIds \in Nat /\ MaxMoves \in Nat

VARIABLES
    peers,      \* peers[n]: the relays in getAllPeers of n
    edgeIps,    \* edgeIps[n]: the relays whose IP n takes for an edge's
    tunnels,    \* pairs <<r, e>>: both ends have the tunnel
    rdv,        \* rdv[n][e]: rendezvousNodes of e in presenceTable or routing_table of n
    seenRoutes, \* seenPresenceAnnounces and seenRouteUpdates
    rnet,       \* copies of announcements and updates on their way
    moves

routeVars == <<peers, edgeIps, tunnels, rdv, seenRoutes, rnet, moves>>

RelaysOf(e) == {r \in Relay : <<r, e>> \in tunnels}

TunnelsOf(n) == {e \in Edge : <<n, e>> \in tunnels}

\* An update is new at every timestamp; one of a relay and edge is on its way
\* at a time, so that the relay is its id.
Announcement == [kind : {"announce"}, edge : Roams, id : 1 .. MaxIds,
                 list : SUBSET Relay, src : Node, dst : Node]
Update == [kind : {"update"}, edge : Roams, id : Relay,
           list : SUBSET Relay, src : Node, dst : Node]

Key(p) == <<p.edge, p.id>>
Keys == (Roams \X (1 .. MaxIds)) \cup (Roams \X Relay)

RoutesTypeOK ==
    /\ peers \in [Node -> SUBSET Relay]
    /\ edgeIps \in [Node -> SUBSET Relay]
    /\ tunnels \subseteq Relay \X Edge
    /\ rdv \in [Node -> [Edge -> SUBSET Node]]
    /\ seenRoutes \in [Node -> SUBSET Keys]
    /\ rnet \subseteq Announcement \cup Update
    /\ moves \in 0 .. MaxMoves

\* The relays know each other, and everyone the tunnels.
RoutesInit ==
    /\ peers = [n \in Node |-> Relay \ {n}]
    /\ edgeIps = [n \in Node |-> {}]
    /\ tunnels = Start
    /\ rdv = [n \in Node |-> [e \in Edge |-> {r \in Relay : <<r, e>> \in Start}]]
    /\ seenRoutes = [n \in Node |-> {}]
    /\ rnet = {}
    /\ moves = 0
-----------------------------------------------------------------------------
\* Copies that change something where they arrive: an edge drops its own
\* announcements, and of an update everyone takes the first copy only.
Unseen(net, seen) ==
    {p \in net : IF p.kind = "announce" THEN p.dst # p.edge ELSE Key(p) \notin seen[p.dst]}

\* The caches of seen packets, which have room for 2000, need to hold the keys
\* of copies that are on their way.
Flying(net, seen) ==
    /\ rnet' = Unseen(net, seen)
    /\ seenRoutes' = [n \in Node |-> {k \in seen[n] : \E p \in rnet' : k = Key(p)}]

Copies(kind, e, i, list, n, dsts) ==
    [kind : {kind}, edge : {e}, id : {i}, list : {list}, src : {n}, dst : dsts]

\* broadcastPresenceAnnounce of an edge, over its tunnels.  Other channels that
\* its pool may hold are left out.
AnnounceCopies(e, i, bound) == Copies("announce", e, i, bound, e, bound)

\* broadcastRouteUpdate of relay r: its peers and its other tunnels.
UpdateCopies(r, e) ==
    Copies("update", e, r, {r}, r, peers[r] \cup (TunnelsOf(r) \ {e}))

\* Bound: an edge does not announce the same list again while copies of it are
\* on their way.  Ids are taken in order.
Flown(e) == {p \in rnet : p.kind = "announce" /\ p.edge = e}
FreshIds(e, list) ==
    {i \in 1 .. MaxIds :
        /\ \A p \in Flown(e) : p.list # list /\ p.id # i
        /\ \A j \in 1 .. (i - 1) : \E p \in Flown(e) : p.id = j}
Quiet(r, e) == \A p \in rnet : Key(p) # <<e, r>>

\* The 10 s timer of an edge.
Announce(e) ==
    /\ e \in Roams /\ RelaysOf(e) # {}
    /\ \E i \in FreshIds(e, RelaysOf(e)) : rnet' = rnet \cup AnnounceCopies(e, i, RelaysOf(e))
    /\ UNCHANGED <<peers, edgeIps, tunnels, rdv, seenRoutes, moves>>

\* The 10 s timer of a relay, for each of its tunnels.
RefreshRoute(r, e) ==
    /\ e \in Roams /\ <<r, e>> \in tunnels
    /\ Quiet(r, e)
    /\ rnet' = rnet \cup UpdateCopies(r, e)
    /\ UNCHANGED <<peers, edgeIps, tunnels, rdv, seenRoutes, moves>>

Move == moves < MaxMoves /\ moves' = moves + 1

\* handleRendezvousBind: the record is replaced and the route made known.  The
\* edge announces when it gets the ACK.
Bind(r, e) ==
    /\ <<r, e>> \in MayBind \ tunnels
    /\ Move
    /\ tunnels' = tunnels \cup {<<r, e>>}
    /\ rdv' = [rdv EXCEPT ![r][e] = {r}]
    /\ \E new \in {{}} \cup {AnnounceCopies(e, i, RelaysOf(e) \cup {r}) :
                            i \in FreshIds(e, RelaysOf(e) \cup {r})} :
         rnet' = rnet \cup new \cup (IF Quiet(r, e) THEN UpdateCopies(r, e) ELSE {})
    /\ UNCHANGED <<peers, edgeIps, seenRoutes>>

\* A tunnel closes: what is on its way through it is lost.  Neither end
\* touches the record.
Unbind(r, e) ==
    /\ e \in Roams /\ <<r, e>> \in tunnels
    /\ Move
    /\ tunnels' = tunnels \ {<<r, e>>}
    /\ Flying({p \in rnet : {p.src, p.dst} # {r, e}}, seenRoutes)
    /\ UNCHANGED <<peers, edgeIps, rdv>>

\* cleanupExpiredPresence and deleteExpiredRoutes: 60 s without a word of an
\* edge that has no tunnel.
ExpireRoute(n, e) ==
    /\ RelaysOf(e) = {} /\ \A p \in rnet : p.edge # e
    /\ rdv[n][e] # {}
    /\ rdv' = [rdv EXCEPT ![n][e] = {}]
    /\ UNCHANGED <<peers, edgeIps, tunnels, seenRoutes, rnet, moves>>
-----------------------------------------------------------------------------
(* The handlers                                                             *)

\* registerEdgeIp: a packet that speaks of an edge is taken to come from the
\* edge's own host.  A relay known by its IP is evicted from the peers.
MarkEdge(n, src) ==
    /\ edgeIps' = [edgeIps EXCEPT ![n] = @ \cup ((Relay \ Named) \cap {src})]
    /\ peers' = [peers EXCEPT ![n] = @ \ ((Relay \ Named) \cap {src})]

\* Relays pass a packet on to their peers and tunnels, but not back.
RelayTargets(n, src, e) == (peers[n] \ {src}) \cup (TunnelsOf(n) \ {src, e})

\* A transit edge passes an announcement on to its other relays.
BridgeTargets(n, src) == IF Cardinality(RelaysOf(n)) >= 2 THEN RelaysOf(n) \ {src} ELSE {}

Took(p, dsts) ==
    LET onward == {[p EXCEPT !.src = p.dst, !.dst = n] : n \in dsts}
    IN
    /\ Flying((rnet \ {p}) \cup onward, [seenRoutes EXCEPT ![p.dst] = @ \cup {Key(p)}])
    /\ UNCHANGED <<tunnels, moves>>

IsNew(p) == Key(p) \notin seenRoutes[p.dst]

AnnounceTargets(p) ==
    IF ~IsNew(p) THEN {}
    ELSE IF p.dst \in Relay THEN RelayTargets(p.dst, p.src, p.edge)
    ELSE BridgeTargets(p.dst, p.src)

\* Mutant: the lists are merged, as handleRouteUpdate does.
MutReceiveAnnounce(p) ==
    /\ p.kind = "announce"
    /\ rdv' = [rdv EXCEPT ![p.dst][p.edge] = @ \cup p.list]
    /\ MarkEdge(p.dst, p.src)
    /\ Took(p, AnnounceTargets(p))

\* handlePresenceAnnounce: every copy replaces the record, whatever its
\* timestamp; the first one is passed on.  Not modelled: a relay's announcement
\* also makes a record for the edge of a listed user, if there is none.
ReceiveAnnounce(p) ==
    /\ p.kind = "announce"
    /\ rdv' = [rdv EXCEPT ![p.dst][p.edge] = p.list]
    /\ MarkEdge(p.dst, p.src)
    /\ Took(p, AnnounceTargets(p))

\* handleRouteUpdate: the first copy adds the relay to the record; the relay
\* becomes a peer, and the sender is then taken for an edge.
ReceiveUpdate(p) ==
    LET n == p.dst
        ip == (Relay \ Named) \cap {p.src}
    IN
    /\ p.kind = "update"
    /\ rdv' = [rdv EXCEPT ![n][p.edge] = @ \cup p.list]
    /\ edgeIps' = [edgeIps EXCEPT ![n] = @ \cup ip]
    /\ peers' = [peers EXCEPT ![n] = (@ \cup (p.list \ (edgeIps[n] \cup {n}))) \ ip]
    /\ Took(p, IF n \in Relay THEN (peers'[n] \ {p.src}) \cup (TunnelsOf(n) \ {p.edge}) ELSE {})

ReceiveRoute(p) == ReceiveAnnounce(p) \/ ReceiveUpdate(p)

RoutesNext ==
    \/ \E e \in Edge : Announce(e)
    \/ \E r \in Relay, e \in Edge : RefreshRoute(r, e)
    \/ \E n \in Node, e \in Edge : ExpireRoute(n, e)
    \/ \E p \in rnet : ReceiveRoute(p)
=============================================================================
