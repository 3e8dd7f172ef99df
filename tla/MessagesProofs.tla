---------------------------- MODULE MessagesProofs ----------------------------
(***************************************************************************)
(* Proofs about Messages: its types; that a message which comes back to    *)
(* its sender's node is not kept there again; and that undisturbed         *)
(* messages arrive, when there are hops enough for the longest way a first *)
(* copy may have taken.                                                    *)
(***************************************************************************)
EXTENDS Messages, FiniteSetTheorems, TLAPS

SeenBy(m) == {n \in Node : m \in seen[n]}

\* A copy of m is on its way to n.
Coming(m, n) == \E k \in mnet : k.msg = m /\ k.dst = n

Reached(m, n) == n \in SeenBy(m) \/ Coming(m, n)

\* No node is its own peer.
NoSelf == \A n \in Node : n \notin peers[n]

\* What is on its way, seen or kept was sent, and no copy goes where the
\* message has been seen.
Fresh ==
    /\ \A n \in Node : seen[n] \subseteq sent /\ table[n] \subseteq sent
    /\ \A k \in mnet : k.msg \in sent /\ k.msg \notin seen[k.dst]

\* The sender's node knows the message, and its table does not have it.
Own ==
    \A m \in sent : From[m] \in restarted \/ (m \in seen[From[m]] /\ m \notin table[From[m]])

\* The relays of e stand in every record of it, and in every announcement.
RouteHolds(e) ==
    /\ RelaysOf(e) # {}
    /\ \A n \in Node \ {e} : RelaysOf(e) \subseteq rdv[n][e]
    /\ \A p \in rnet : p.kind = "announce" /\ p.edge = e => RelaysOf(e) \subseteq p.list

\* m has gone as far as it is to go.
Done(m) == IF m \in Global THEN SeenBy(m) = Node ELSE To[m] \in SeenBy(m)

\* Whom relay n sends an undisturbed m to, whoever it has it from.
Nbrs(m, n) ==
    IF m \in Global THEN (Relay \cup TunnelsOf(n)) \ {n}
    ELSE IF n \in RelaysOf(To[m]) THEN {To[m]} ELSE RelaysOf(To[m])

\* Some relay gets m, and a relay that has it has sent it on.
Spread(m) ==
    /\ \E r \in Relay : Reached(m, r)
    /\ \A n \in Relay \cap SeenBy(m) : \A x \in Nbrs(m, n) : Reached(m, x)

\* Where m can be; all of the mesh, or the relays between two edges.
Ambit(m) == IF m \in Global THEN Node ELSE Relay \cup {From[m], To[m]}

\* Hops enough for a way through all nodes that pass m on.
Enough(m) ==
    IF m \in Global THEN Cardinality(Node) <= HopLimit + 1 ELSE Cardinality(Relay) < HopLimit

\* An undisturbed m: who has seen it has kept it, copies come from nodes that
\* have seen it and have made no more hops than there are such nodes.
Undisturbed(m) ==
    /\ m \in seen[From[m]]
    /\ \A n \in Node : m \in table[n] <=> m \in seen[n] /\ n # From[m]
    /\ SeenBy(m) \subseteq Ambit(m)
    /\ \A k \in mnet : k.msg = m =>
          k.src \in SeenBy(m) /\ k.dst \in Ambit(m) /\ k.hop < Cardinality(SeenBy(m))
    /\ IF m \in Global THEN Whole ELSE RouteHolds(To[m])
    /\ Enough(m) => Done(m) \/ Spread(m)

\* The inductive invariant.
IInv ==
    /\ TypeOK
    /\ NoSelf
    /\ Fresh
    /\ Own
    /\ \A m \in clean : Undisturbed(m)
-----------------------------------------------------------------------------
(* Routes                                                                   *)

Packets == Announcement \cup Update

\* A packet that says what p says, sent on to n.
Passed(p, n) == [p EXCEPT !.src = p.dst, !.dst = n]

LEMMA PassedType ==
    ASSUME NEW p \in Packets, NEW n \in Node
    PROVE  /\ Passed(p, n) \in Packets
           /\ Passed(p, n).kind = p.kind /\ Passed(p, n).edge = p.edge /\ Passed(p, n).list = p.list
<1>1. CASE p \in Announcement
  BY <1>1 DEF Packets, Announcement, Passed
<1>2. CASE p \in Update
  BY <1>2 DEF Packets, Update, Passed
<1> QED BY <1>1, <1>2 DEF Packets

\* What a packet is about.
LEMMA PacketType ==
    ASSUME NEW p \in Packets
    PROVE  /\ p.edge \in Roams /\ p.edge \in Edge /\ p.list \subseteq Relay
           /\ p.src \in Node /\ p.dst \in Node /\ Key(p) \in Keys
<1>1. CASE p \in Announcement
  BY <1>1, RoutesAssumption DEF Announcement, Key, Keys
<1>2. CASE p \in Update
  BY <1>2, RoutesAssumption DEF Update, Key, Keys
<1> QED BY <1>1, <1>2 DEF Packets

\* Announcements are of the tunnels they are made of, updates of one.
LEMMA CopiesType ==
    ASSUME NEW e \in Roams
    PROVE  /\ \A i \in 1 .. MaxIds, R \in SUBSET Relay :
                /\ AnnounceCopies(e, i, R) \subseteq Packets
                /\ \A p \in AnnounceCopies(e, i, R) : p.edge = e /\ p.list = R
           /\ \A r \in Relay : RoutesTypeOK =>
                /\ UpdateCopies(r, e) \subseteq Packets
                /\ \A p \in UpdateCopies(r, e) : p.kind = "update"
<1>1. e \in Node /\ Relay \subseteq Node
  BY RoutesAssumption DEF Node
<1>2. \A i \in 1 .. MaxIds, R \in SUBSET Relay :
        /\ AnnounceCopies(e, i, R) \subseteq Announcement
        /\ \A p \in AnnounceCopies(e, i, R) : p.edge = e /\ p.list = R
  BY <1>1 DEF AnnounceCopies, Copies, Announcement
<1>3. ASSUME NEW r \in Relay, RoutesTypeOK
      PROVE  /\ UpdateCopies(r, e) \subseteq Update
             /\ \A p \in UpdateCopies(r, e) : p.kind = "update"
  <2>1. peers[r] \cup (TunnelsOf(r) \ {e}) \subseteq Node
    BY <1>1, <1>3 DEF RoutesTypeOK, TunnelsOf, Node
  <2> QED BY <1>1, <2>1 DEF UpdateCopies, Copies, Update
<1> QED BY <1>2, <1>3 DEF Packets

\* Packets that are dropped or remembered.
LEMMA FlyingType ==
    ASSUME NEW net \in SUBSET Packets, NEW known \in [Node -> SUBSET Keys], Flying(net, known)
    PROVE  rnet' \subseteq net /\ seenRoutes' \in [Node -> SUBSET Keys]
BY DEF Flying, Unseen

LEMMA TookType ==
    ASSUME RoutesTypeOK, NEW p \in rnet, NEW D \in SUBSET Node, Took(p, D)
    PROVE  /\ rnet' \subseteq Packets /\ seenRoutes' \in [Node -> SUBSET Keys]
           /\ tunnels' = tunnels /\ moves' = moves
           /\ \A q \in rnet' : \E o \in rnet : q.kind = o.kind /\ q.edge = o.edge /\ q.list = o.list
<1> DEFINE onward == {Passed(p, n) : n \in D}
           net == (rnet \ {p}) \cup onward
           known == [seenRoutes EXCEPT ![p.dst] = @ \cup {Key(p)}]
<1>1. rnet \subseteq Packets
  BY DEF RoutesTypeOK, Packets
<1>2. \A q \in onward : q \in Packets /\ q.kind = p.kind /\ q.edge = p.edge /\ q.list = p.list
  BY <1>1, PassedType
<1>3. net \in SUBSET Packets
  BY <1>1, <1>2
<1>4. known \in [Node -> SUBSET Keys]
  BY <1>1, PacketType DEF RoutesTypeOK
<1>5. Flying(net, known) /\ tunnels' = tunnels /\ moves' = moves
  BY DEF Took, Passed
<1> HIDE DEF known
<1>6. rnet' \subseteq net /\ seenRoutes' \in [Node -> SUBSET Keys]
  BY <1>3, <1>4, <1>5, FlyingType
<1> QED BY <1>2, <1>3, <1>5, <1>6

\* A record that keeps the relays of e holds what the route needs.
LEMMA RouteKept ==
    ASSUME NEW e \in Edge, RouteHolds(e), tunnels' = tunnels,
           \A n \in Node \ {e} : rdv[n][e] \subseteq rdv'[n][e] \/ RelaysOf(e) \subseteq rdv'[n][e],
           \A q \in rnet' : q.kind = "announce" /\ q.edge = e =>
                RelaysOf(e) \subseteq q.list \/ \E o \in rnet : q.kind = o.kind /\ q.edge = o.edge /\ q.list = o.list
    PROVE  RouteHolds(e)'
<1>1. RelaysOf(e)' = RelaysOf(e)
  BY DEF RelaysOf
<1> QED BY <1>1 DEF RouteHolds

\* What every step of Routes keeps.
RoutesGood ==
    /\ RoutesTypeOK' /\ NoSelf' /\ tunnels' = tunnels
    /\ \A e \in Edge : RouteHolds(e) => RouteHolds(e)'

LEMMA SendsGood ==
    ASSUME RoutesTypeOK, NoSelf,
           \/ \E e \in Edge : Announce(e)
           \/ \E r \in Relay, e \in Edge : RefreshRoute(r, e)
    PROVE  RoutesGood
<1>1. ASSUME NEW e \in Edge, Announce(e)
      PROVE  RoutesGood
  <2>1. PICK i \in 1 .. MaxIds : rnet' = rnet \cup AnnounceCopies(e, i, RelaysOf(e))
    BY <1>1 DEF Announce, FreshIds
  <2>2. e \in Roams /\ UNCHANGED <<peers, edgeIps, tunnels, rdv, seenRoutes, moves>>
    BY <1>1 DEF Announce
  <2>3. RelaysOf(e) \in SUBSET Relay
    BY DEF RelaysOf
  <2>4. /\ AnnounceCopies(e, i, RelaysOf(e)) \subseteq Packets
        /\ \A p \in AnnounceCopies(e, i, RelaysOf(e)) : p.edge = e /\ p.list = RelaysOf(e)
    BY <2>2, <2>3, CopiesType
  <2>5. RoutesTypeOK' /\ NoSelf'
    BY <2>1, <2>2, <2>4 DEF RoutesTypeOK, NoSelf, Packets
  <2>6. ASSUME NEW f \in Edge, RouteHolds(f)
        PROVE  RouteHolds(f)'
    <3>1. \A q \in rnet' : q \in rnet \/ (q.edge = e /\ q.list = RelaysOf(e))
      BY <2>1, <2>4
    <3> QED BY <2>2, <2>6, <3>1, RouteKept
  <2> QED BY <2>2, <2>5, <2>6 DEF RoutesGood
<1>2. ASSUME NEW r \in Relay, NEW e \in Edge, RefreshRoute(r, e)
      PROVE  RoutesGood
  <2>1. /\ e \in Roams /\ rnet' = rnet \cup UpdateCopies(r, e)
        /\ UNCHANGED <<peers, edgeIps, tunnels, rdv, seenRoutes, moves>>
    BY <1>2 DEF RefreshRoute
  <2>2. UpdateCopies(r, e) \subseteq Packets /\ \A p \in UpdateCopies(r, e) : p.kind = "update"
    BY <2>1, CopiesType
  <2>3. RoutesTypeOK' /\ NoSelf'
    BY <2>1, <2>2 DEF RoutesTypeOK, NoSelf, Packets
  <2>4. ASSUME NEW f \in Edge, RouteHolds(f)
        PROVE  RouteHolds(f)'
    <3>1. \A q \in rnet' : q \in rnet \/ q.kind # "announce"
      BY <2>1, <2>2
    <3> QED BY <2>1, <2>4, <3>1, RouteKept
  <2> QED BY <2>1, <2>3, <2>4 DEF RoutesGood
<1> QED BY <1>1, <1>2

LEMMA ExpiresGood ==
    ASSUME RoutesTypeOK, NoSelf, NEW n \in Node, NEW e \in Edge, ExpireRoute(n, e)
    PROVE  RoutesGood
<1>1. /\ RelaysOf(e) = {} /\ rdv' = [rdv EXCEPT ![n][e] = {}]
      /\ UNCHANGED <<peers, edgeIps, tunnels, seenRoutes, rnet, moves>>
  BY DEF ExpireRoute
<1>2. RoutesTypeOK' /\ NoSelf'
  BY <1>1 DEF RoutesTypeOK, NoSelf
<1>3. ASSUME NEW f \in Edge, RouteHolds(f)
      PROVE  RouteHolds(f)'
  <2>1. f # e
    BY <1>1, <1>3 DEF RouteHolds
  <2>2. \A x \in Node : rdv'[x][f] = rdv[x][f]
    BY <1>1, <2>1 DEF RoutesTypeOK
  <2> QED BY <1>1, <1>3, <2>2, RouteKept
<1> QED BY <1>1, <1>2, <1>3 DEF RoutesGood

LEMMA ReceivesGood ==
    ASSUME RoutesTypeOK, NoSelf, NEW p \in rnet, ReceiveRoute(p)
    PROVE  RoutesGood
<1>1. p \in Packets /\ p.edge \in Edge /\ p.list \subseteq Relay /\ p.dst \in Node /\ p.src \in Node
  BY PacketType DEF RoutesTypeOK, Packets
<1>2. \A n \in Node : RelayTargets(n, p.src, p.edge) \subseteq Node /\ BridgeTargets(n, p.src) \subseteq Node
  BY DEF RelayTargets, BridgeTargets, RelaysOf, TunnelsOf, Node, RoutesTypeOK
<1>3. CASE ReceiveAnnounce(p)
  <2>1. AnnounceTargets(p) \in SUBSET Node
    BY <1>1, <1>2 DEF AnnounceTargets
  <2>2. /\ p.kind = "announce" /\ rdv' = [rdv EXCEPT ![p.dst][p.edge] = p.list]
        /\ MarkEdge(p.dst, p.src) /\ Took(p, AnnounceTargets(p))
    BY <1>3 DEF ReceiveAnnounce
  <2>3. /\ rnet' \subseteq Packets /\ seenRoutes' \in [Node -> SUBSET Keys]
        /\ tunnels' = tunnels /\ moves' = moves
        /\ \A q \in rnet' : \E o \in rnet : q.kind = o.kind /\ q.edge = o.edge /\ q.list = o.list
    BY <2>1, <2>2, TookType
  <2>4. rdv' \in [Node -> [Edge -> SUBSET Node]]
    BY <1>1, <2>2 DEF RoutesTypeOK, Node
  <2>5. peers' \in [Node -> SUBSET Relay] /\ edgeIps' \in [Node -> SUBSET Relay] /\ NoSelf'
    BY <1>1, <2>2 DEF MarkEdge, RoutesTypeOK, NoSelf
  <2>6. ASSUME NEW f \in Edge, RouteHolds(f)
        PROVE  RouteHolds(f)'
    <3>1. \A n \in Node \ {f} : rdv[n][f] \subseteq rdv'[n][f] \/ RelaysOf(f) \subseteq rdv'[n][f]
      BY <1>1, <2>2, <2>6 DEF RoutesTypeOK, RouteHolds
    <3> QED BY <2>3, <2>6, <3>1, RouteKept
  <2> QED BY <2>3, <2>4, <2>5, <2>6 DEF RoutesGood, RoutesTypeOK, Packets
<1>4. CASE ReceiveUpdate(p)
  <2>1. /\ rdv' = [rdv EXCEPT ![p.dst][p.edge] = @ \cup p.list]
        /\ peers' \in [Node -> SUBSET Relay] /\ edgeIps' \in [Node -> SUBSET Relay] /\ NoSelf'
    BY <1>1, <1>4 DEF ReceiveUpdate, RoutesTypeOK, NoSelf
  <2>2. PICK D \in SUBSET Node : Took(p, D)
    <3>1. peers'[p.dst] \cup TunnelsOf(p.dst) \subseteq Node
      BY <1>1, <2>1 DEF TunnelsOf, Node
    <3>2. (IF p.dst \in Relay THEN (peers'[p.dst] \ {p.src}) \cup (TunnelsOf(p.dst) \ {p.edge}) ELSE {})
            \in SUBSET Node
      BY <3>1
    <3> QED BY <1>4, <3>2 DEF ReceiveUpdate
  <2>3. /\ rnet' \subseteq Packets /\ seenRoutes' \in [Node -> SUBSET Keys]
        /\ tunnels' = tunnels /\ moves' = moves
        /\ \A q \in rnet' : \E o \in rnet : q.kind = o.kind /\ q.edge = o.edge /\ q.list = o.list
    BY <2>2, TookType
  <2>4. rdv' \in [Node -> [Edge -> SUBSET Node]]
    BY <1>1, <2>1 DEF RoutesTypeOK, Node
  <2>5. ASSUME NEW f \in Edge, RouteHolds(f)
        PROVE  RouteHolds(f)'
    <3>1. \A n \in Node \ {f} : rdv[n][f] \subseteq rdv'[n][f] \/ RelaysOf(f) \subseteq rdv'[n][f]
      BY <1>1, <2>1 DEF RoutesTypeOK
    <3> QED BY <2>3, <2>5, <3>1, RouteKept
  <2> QED BY <2>1, <2>3, <2>4, <2>5 DEF RoutesGood, RoutesTypeOK, Packets
<1> QED BY <1>3, <1>4 DEF ReceiveRoute

LEMMA RoutesStepGood ==
    ASSUME RoutesTypeOK, NoSelf, RoutesNext
    PROVE  RoutesGood
BY SendsGood, ExpiresGood, ReceivesGood DEF RoutesNext
-----------------------------------------------------------------------------
(* Messages                                                                 *)

\* The constants of a message.
LEMMA MsgType ==
    ASSUME NEW m \in Msg
    PROVE  /\ From[m] \in Node
           /\ m \in Global <=> m \notin Direct
           /\ m \in Direct => To[m] \in Edge /\ To[m] \in Node /\ To[m] # From[m]
           /\ \A r \in Relay : r \in Node /\ r \notin Edge
BY MessagesAssumption, RoutesAssumption DEF Msg, Node

LEMMA SeenFinite ==
    \A m : IsFiniteSet(SeenBy(m)) /\ Cardinality(SeenBy(m)) \in Nat
BY MessagesAssumption, FS_Subset, FS_CardinalityType DEF SeenBy

\* Copies are copies.
LEMMA CopiesOfType ==
    ASSUME NEW m \in Msg, NEW h \in 0 .. (HopLimit - 1), NEW n \in Node, NEW D \in SUBSET Node
    PROVE  /\ CopiesOf(m, h, n, D) \subseteq Copy
           /\ \A k \in CopiesOf(m, h, n, D) : k.msg = m /\ k.hop = h /\ k.src = n /\ k.dst \in D
           /\ \A x \in D : \E k \in CopiesOf(m, h, n, D) : k.msg = m /\ k.dst = x
<1>1. CopiesOf(m, h, n, D) \subseteq Copy
  BY DEF CopiesOf, Copy
<1>2. \A k \in CopiesOf(m, h, n, D) : k.msg = m /\ k.hop = h /\ k.src = n /\ k.dst \in D
  BY DEF CopiesOf
<1>3. ASSUME NEW x \in D
      PROVE  \E k \in CopiesOf(m, h, n, D) : k.msg = m /\ k.dst = x
  <2>1. [msg |-> m, hop |-> h, src |-> n, dst |-> x] \in CopiesOf(m, h, n, D)
    BY DEF CopiesOf
  <2> QED BY <2>1
<1> QED BY <1>1, <1>2, <1>3

\* A flood stays on the mesh and does not come back to the node it starts from.
LEMMA FloodType ==
    ASSUME RoutesTypeOK, NoSelf, NEW n \in Node, NEW src \in Node
    PROVE  /\ Flood(n, src) \subseteq Node
           /\ n \notin Flood(n, n)
<1>1. peers[n] \subseteq Relay /\ n \notin peers[n]
  BY DEF RoutesTypeOK, NoSelf
<1>2. RelaysOf(n) \subseteq Relay /\ TunnelsOf(n) \subseteq Edge
  BY DEF RelaysOf, TunnelsOf
<1> QED BY <1>1, <1>2 DEF Flood, Node

\* What a node passes on stays within the ambit of the message.
LEMMA NextHopsType ==
    ASSUME RoutesTypeOK, NoSelf, NEW m \in Msg, NEW n \in Node, NEW src \in Node
    PROVE  NextHops(n, m, src) \subseteq Node /\ NextHops(n, m, src) \subseteq Ambit(m)
<1>1. CASE m \in Global
  BY <1>1, FloodType DEF NextHops, Ambit
<1>2. CASE m \notin Global
  <2>1. peers[n] \subseteq Relay /\ To[m] \in Node
    BY <1>2, MsgType DEF RoutesTypeOK
  <2>2. Transit(n, To[m], src) \subseteq Relay \cup {To[m]}
    BY <2>1 DEF Transit
  <2> QED BY <1>2, <2>1, <2>2, MsgType DEF NextHops, Ambit
<1> QED BY <1>1, <1>2

\* A step that does nothing to an undisturbed message.
LEMMA Untouched ==
    ASSUME NEW m \in Msg, Undisturbed(m), tunnels' = tunnels,
           \A n \in Node : /\ m \in seen'[n] <=> m \in seen[n]
                           /\ m \in table'[n] <=> m \in table[n],
           \A k : k.msg = m => (k \in mnet' <=> k \in mnet),
           IF m \in Global THEN Whole' ELSE RouteHolds(To[m])'
    PROVE  Undisturbed(m)'
<1>1. SeenBy(m)' = SeenBy(m)
  BY DEF SeenBy
<1>2. \A n : Reached(m, n)' <=> Reached(m, n)
  BY <1>1 DEF Reached, Coming
<1>3. Done(m)' <=> Done(m)
  BY <1>1 DEF Done
<1>4. \A n : Nbrs(m, n)' = Nbrs(m, n)
  BY DEF Nbrs, TunnelsOf, RelaysOf
<1>5. Spread(m)' <=> Spread(m)
  BY <1>1, <1>2, <1>4 DEF Spread
<1>6. m \in seen[From[m]]' /\ \A n \in Node : m \in table[n]' <=> m \in seen[n]' /\ n # From[m]
  BY MsgType DEF Undisturbed
<1>7. /\ SeenBy(m)' \subseteq Ambit(m)
      /\ \A k \in mnet' : k.msg = m =>
            k.src \in SeenBy(m)' /\ k.dst \in Ambit(m) /\ k.hop < Cardinality(SeenBy(m)')
  BY <1>1 DEF Undisturbed
<1>8. Enough(m) => Done(m)' \/ Spread(m)'
  BY <1>3, <1>5 DEF Undisturbed
<1> QED BY <1>1, <1>6, <1>7, <1>8 DEF Undisturbed, Ambit, Enough
-----------------------------------------------------------------------------
(* The steps of a message                                                   *)

\* The sender hands out the first copies.
LEMMA SendStep ==
    ASSUME IInv, NEW m \in Msg, SendRemoteMessage(m)
    PROVE  IInv'
<1> DEFINE n == From[m]
           D == IF m \in Global THEN Flood(n, n) ELSE Handover(n, To[m])
           C == CopiesOf(m, 0, n, D)
<1>1. /\ m \notin sent /\ sent' = sent \cup {m} /\ seen' = [seen EXCEPT ![n] = @ \cup {m}]
      /\ mnet' = mnet \cup C /\ clean' = IF SentWell(m) THEN clean \cup {m} ELSE clean
      /\ m \in Direct => RelaysOf(n) # {}
      /\ UNCHANGED <<peers, edgeIps, tunnels, rdv, seenRoutes, rnet, moves, table, restarted>>
  BY DEF SendRemoteMessage, routeVars
<1>2. TypeOK /\ RoutesTypeOK /\ NoSelf /\ n \in Node
  BY MsgType DEF IInv, TypeOK
<1>3. D \subseteq Node /\ n \notin D /\ (m \notin Global => D \subseteq Relay)
  <2>1. CASE m \in Global
    BY <1>2, <2>1, FloodType
  <2>2. CASE m \notin Global
    <3>1. n \in Edge
      BY <2>2, MsgType, MessagesAssumption
    <3>2. Handover(n, To[m]) \subseteq Relay
      BY DEF Handover, RelaysOf
    <3> QED BY <2>2, <3>1, <3>2, MsgType
  <2> QED BY <2>1, <2>2
<1>4. /\ C \subseteq Copy
      /\ \A k \in C : k.msg = m /\ k.hop = 0 /\ k.src = n /\ k.dst \in D
      /\ \A x \in D : \E k \in C : k.msg = m /\ k.dst = x
  <2>1. 0 \in 0 .. (HopLimit - 1)
    BY MessagesAssumption
  <2> QED BY <1>2, <1>3, <2>1, CopiesOfType
<1> HIDE DEF C, D
<1>5. TypeOK' /\ NoSelf'
  <2>1. RoutesTypeOK' /\ NoSelf'
    BY <1>1, <1>2 DEF RoutesTypeOK, NoSelf
  <2> QED BY <1>1, <1>2, <1>4, <2>1 DEF TypeOK
<1>6. \A x \in Node : m \notin seen[x] /\ m \notin table[x]
  BY <1>1 DEF IInv, Fresh
<1>7. /\ \A x \in Node : seen'[x] = IF x = n THEN seen[x] \cup {m} ELSE seen[x]
      /\ \A k \in mnet : k.msg # m
  BY <1>1, <1>2 DEF TypeOK, IInv, Fresh
<1>8. Fresh'
  BY <1>1, <1>2, <1>3, <1>4, <1>6, <1>7 DEF IInv, Fresh, TypeOK, Copy
<1>9. Own'
  BY <1>1, <1>2, <1>6, <1>7, MsgType DEF IInv, Own, TypeOK
<1>10. ASSUME NEW x \in clean
       PROVE  Undisturbed(x)'
  <2>1. x \in Msg /\ x # m /\ Undisturbed(x)
    BY <1>1, <1>2 DEF IInv, TypeOK
  <2>2. \A y \in Node : (x \in seen'[y] <=> x \in seen[y]) /\ (x \in table'[y] <=> x \in table[y])
    BY <1>1, <1>7, <2>1
  <2>3. \A k : k.msg = x => (k \in mnet' <=> k \in mnet)
    BY <1>1, <1>4, <2>1
  <2>4. IF x \in Global THEN Whole' ELSE RouteHolds(To[x])'
    BY <1>1, <2>1 DEF Undisturbed, Whole, RouteHolds, RelaysOf
  <2> QED BY <1>1, <2>1, <2>2, <2>3, <2>4, Untouched
<1>11. ASSUME SentWell(m)
       PROVE  Undisturbed(m)'
  <2>1. SeenBy(m)' = {n}
    BY <1>2, <1>6, <1>7 DEF SeenBy
  <2>2. Cardinality(SeenBy(m)') = 1
    BY <2>1, FS_Singleton
  <2>3. m \in seen'[n] /\ \A x \in Node : m \in table'[x] <=> m \in seen'[x] /\ x # n
    BY <1>1, <1>2, <1>6, <1>7
  <2>4. SeenBy(m)' \subseteq Ambit(m)
    BY <1>2, <2>1 DEF Ambit
  <2>5. \A k \in mnet' : k.msg = m =>
            k.src \in SeenBy(m)' /\ k.dst \in Ambit(m) /\ k.hop < Cardinality(SeenBy(m)')
    <3>1. ASSUME NEW k \in C
          PROVE  k.src \in SeenBy(m)' /\ k.dst \in Ambit(m) /\ k.hop < Cardinality(SeenBy(m)')
      BY <1>3, <1>4, <2>1, <2>2 DEF Ambit
    <3> QED BY <1>1, <1>7, <3>1
  <2>6. IF m \in Global THEN Whole' ELSE RouteHolds(To[m])'
    <3>1. CASE m \in Global
      BY <1>1, <1>11, <3>1, MsgType DEF SentWell, Whole
    <3>2. CASE m \notin Global
      <4>1. RouteRight(To[m])
        BY <1>11, <3>2, MsgType DEF SentWell
      <4>2. RouteHolds(To[m])
        BY <4>1 DEF RouteRight, RouteHolds
      <4> QED BY <1>1, <3>2, <4>2 DEF RouteHolds, RelaysOf
    <3> QED BY <3>1, <3>2
  <2>7. Spread(m)'
    <3>1. \E r \in Relay : r \in D \/ r = n
      <4>1. CASE m \in Global /\ n \notin Relay
        <5>1. Flood(n, n) # {}
          BY <1>11, <4>1, MsgType DEF SentWell
        <5>2. n \in Edge /\ TunnelsOf(n) = {} /\ Flood(n, n) \subseteq Relay
          BY <1>2, <4>1, RoutesAssumption DEF Flood, TunnelsOf, RelaysOf, RoutesTypeOK, Node
        <5> QED BY <4>1, <5>1, <5>2 DEF D
      <4>2. CASE m \notin Global
        <5>1. RelaysOf(n) # {} /\ RelaysOf(n) \subseteq Relay
          BY <1>1, <4>2, MsgType DEF RelaysOf
        <5> QED BY <4>2, <5>1 DEF D, Handover
      <4> QED BY <4>1, <4>2
    <3>2. \A x \in D : Coming(m, x)'
      BY <1>1, <1>4 DEF Coming
    <3>3. \E r \in Relay : Reached(m, r)'
      BY <2>1, <3>1, <3>2 DEF Reached
    <3>4. ASSUME n \in Relay
          PROVE  \A x \in Nbrs(m, n)' : x \in D
      <4>1. m \in Global
        BY <3>4, MsgType, MessagesAssumption
      <4>2. peers[n] = Relay \ {n}
        BY <1>11, <3>4, <4>1, MsgType DEF SentWell, Whole
      <4>3. D = (Relay \ {n}) \cup (TunnelsOf(n) \ {n})
        BY <3>4, <4>1, <4>2 DEF D, Flood
      <4>4. Nbrs(m, n)' = (Relay \cup TunnelsOf(n)) \ {n}
        BY <1>1, <4>1 DEF Nbrs, TunnelsOf
      <4> QED BY <4>3, <4>4
    <3>5. \A r \in Relay \cap SeenBy(m)' : \A x \in Nbrs(m, r)' : Reached(m, x)'
      BY <2>1, <3>2, <3>4 DEF Reached
    <3> QED BY <3>3, <3>5 DEF Spread
  <2> QED BY <2>3, <2>4, <2>5, <2>6, <2>7 DEF Undisturbed, Ambit
<1>12. \A x \in clean' : Undisturbed(x)'
  BY <1>1, <1>10, <1>11
<1> QED BY <1>5, <1>8, <1>9, <1>12 DEF IInv

\* With hops enough, a copy that reaches a relay first is passed on, unless the
\* message is done with.
LEMMA HopsLeft ==
    ASSUME IInv, NEW k \in mnet, k.msg \in clean, k.dst \in Relay, Enough(k.msg),
           IF k.msg \in Global THEN SeenBy(k.msg) \cup {k.dst} # Node ELSE To[k.msg] \notin SeenBy(k.msg)
    PROVE  k.hop + 1 < HopLimit
<1> DEFINE m == k.msg
           S == SeenBy(m)
<1>1. m \in Msg /\ k \in Copy /\ k.dst \notin S /\ S \subseteq Node /\ k.dst \in Node
  BY DEF IInv, TypeOK, Fresh, SeenBy, Copy
<1>2. k.hop < Cardinality(S) /\ S \subseteq Ambit(m) /\ From[m] \in S
  BY <1>1, MsgType DEF IInv, Undisturbed, SeenBy
<1>3. IsFiniteSet(S) /\ Cardinality(S) \in Nat /\ k.hop \in Nat /\ HopLimit \in Nat
  BY <1>1, SeenFinite, MessagesAssumption DEF Copy
<1>4. CASE m \in Global
  <2>1. IsFiniteSet(S \cup {k.dst}) /\ Cardinality(S \cup {k.dst}) = Cardinality(S) + 1
    BY <1>1, <1>3, FS_AddElement
  <2>2. S \cup {k.dst} \subseteq Node /\ S \cup {k.dst} # Node
    BY <1>1, <1>4
  <2>3. Cardinality(S) + 1 <= Cardinality(Node) /\ Cardinality(S) + 1 # Cardinality(Node)
    BY <2>1, <2>2, MessagesAssumption, FS_Subset
  <2>4. Cardinality(Node) \in Nat /\ Cardinality(Node) <= HopLimit + 1
    BY <1>4, MessagesAssumption, FS_CardinalityType DEF Enough
  <2> QED BY <1>2, <1>3, <2>3, <2>4
<1>5. CASE m \notin Global
  <2>1. From[m] \notin Relay /\ To[m] \notin S
    BY <1>1, <1>5, MsgType, MessagesAssumption
  <2>2. S \ {From[m]} \subseteq Relay \ {k.dst}
    BY <1>1, <1>2, <1>5, <2>1 DEF Ambit
  <2>3. IsFiniteSet(Relay) /\ Cardinality(Relay) \in Nat
    BY MessagesAssumption, FS_Subset, FS_CardinalityType DEF Node
  <2>4. /\ IsFiniteSet(Relay \ {k.dst}) /\ Cardinality(Relay \ {k.dst}) = Cardinality(Relay) - 1
        /\ Cardinality(S \ {From[m]}) = Cardinality(S) - 1
    BY <1>2, <1>3, <2>3, FS_RemoveElement
  <2>5. Cardinality(S) - 1 <= Cardinality(Relay) - 1
    BY <2>2, <2>4, FS_Subset
  <2>6. Cardinality(Relay) < HopLimit
    BY <1>5 DEF Enough
  <2> QED BY <1>2, <1>3, <2>3, <2>5, <2>6
<1> QED BY <1>4, <1>5

\* The neighbours a relay owes a message to are among its next hops, but for
\* the one it has the message from.
LEMMA NbrsAreNext ==
    ASSUME RoutesTypeOK, NEW m \in Msg, NEW n \in Relay, NEW src,
           IF m \in Global THEN Whole ELSE RouteHolds(To[m])
    PROVE  Nbrs(m, n) \subseteq NextHops(n, m, src) \cup {src}
<1>1. CASE m \in Global
  <2>1. Flood(n, src) = (Relay \ {n}) \cup (TunnelsOf(n) \ {src})
    BY <1>1 DEF Flood, Whole
  <2> QED BY <1>1, <2>1 DEF Nbrs, NextHops
<1>2. CASE m \notin Global
  <2> DEFINE e == To[m]
             R == RelaysOf(e)
  <2>1. e \in Edge /\ n # e /\ n \notin Edge /\ n \in Node
    BY <1>2, MsgType
  <2>2. R # {} /\ R \subseteq rdv[n][e] /\ R \subseteq Relay
    BY <1>2, <2>1 DEF RouteHolds, RelaysOf
  <2>3. NextHops(n, m, src) = Transit(n, e, src)
    BY <1>2, <2>1 DEF NextHops
  <2>4. n \in R <=> <<n, e>> \in tunnels
    BY DEF RelaysOf
  <2>5. CASE n \in R
    BY <1>2, <2>1, <2>3, <2>4, <2>5 DEF Nbrs, Transit
  <2>6. CASE n \notin R
    <3>1. R \subseteq rdv[n][e] \ {n}
      BY <2>2, <2>6
    <3>2. R \ {src} \subseteq Transit(n, e, src)
      BY <2>1, <2>2, <2>4, <2>6, <3>1 DEF Transit
    <3> QED BY <1>2, <2>3, <2>6, <3>2 DEF Nbrs
  <2> QED BY <2>5, <2>6
<1> QED BY <1>1, <1>2

\* Copies that a first copy makes.
LEMMA OnwardType ==
    ASSUME IInv, NEW k \in mnet
    PROVE  /\ Onward(k) \subseteq Copy
           /\ \A j \in Onward(k) : /\ j.msg = k.msg /\ j.hop = k.hop + 1 /\ j.src = k.dst
                                   /\ j.dst \in Ambit(k.msg)
           /\ k.msg \notin table[k.dst] /\ k.hop + 1 < HopLimit =>
                \A x \in NextHops(k.dst, k.msg, k.src) : \E j \in Onward(k) : j.msg = k.msg /\ j.dst = x
<1> DEFINE D == NextHops(k.dst, k.msg, k.src)
<1>1. k \in Copy /\ k.msg \in Msg /\ k.dst \in Node /\ k.src \in Node /\ k.hop \in 0 .. (HopLimit - 1)
  BY DEF IInv, TypeOK, Copy
<1>2. D \subseteq Node /\ D \subseteq Ambit(k.msg)
  BY <1>1, NextHopsType DEF IInv, TypeOK
<1> HIDE DEF D
<1>3. CASE k.msg \notin table[k.dst] /\ k.hop + 1 < HopLimit
  <2>1. k.hop + 1 \in 0 .. (HopLimit - 1)
    BY <1>1, <1>3, MessagesAssumption
  <2>2. Onward(k) = CopiesOf(k.msg, k.hop + 1, k.dst, D)
    BY <1>3 DEF Onward, D
  <2> QED BY <1>1, <1>2, <2>1, <2>2, CopiesOfType DEF D
<1>4. CASE ~(k.msg \notin table[k.dst] /\ k.hop + 1 < HopLimit)
  BY <1>4 DEF Onward
<1> QED BY <1>3, <1>4

\* The first copy of an undisturbed message at a node.
LEMMA FirstCopy ==
    ASSUME IInv, NEW k \in mnet, k.msg \in clean, ReceiveMessage(k)
    PROVE  Undisturbed(k.msg)'
<1> DEFINE m == k.msg
           n == k.dst
<1>1. /\ seen' = [seen EXCEPT ![n] = @ \cup {m}] /\ table' = [table EXCEPT ![n] = @ \cup {m}]
      /\ rdv' = Learned(k) /\ mnet' = Unknown(mnet \cup Onward(k), seen')
      /\ UNCHANGED <<peers, tunnels, rnet, sent, clean, restarted>>
  BY DEF ReceiveMessage
<1>2. /\ m \in Msg /\ n \in Node /\ k \in Copy /\ m \notin seen[n] /\ k.src \in SeenBy(m)
      /\ Undisturbed(m) /\ n \in Ambit(m) /\ From[m] \in Node
      /\ seen \in [Node -> SUBSET Msg] /\ table \in [Node -> SUBSET Msg]
  BY MsgType DEF IInv, TypeOK, Fresh, Copy, Undisturbed
<1>3. n # From[m] /\ m \notin table[n]
  BY <1>2 DEF Undisturbed
<1>4. SeenBy(m)' = SeenBy(m) \cup {n}
  BY <1>1, <1>2 DEF SeenBy
<1>5. /\ Cardinality(SeenBy(m)') = Cardinality(SeenBy(m)) + 1
      /\ Cardinality(SeenBy(m)) \in Nat
  <2>1. n \notin SeenBy(m)
    BY <1>2 DEF SeenBy
  <2>2. IsFiniteSet(SeenBy(m)) /\ Cardinality(SeenBy(m)) \in Nat
    BY SeenFinite
  <2>3. Cardinality(SeenBy(m) \cup {n}) = Cardinality(SeenBy(m)) + 1
    BY <2>1, <2>2, FS_AddElement
  <2> QED BY <1>4, <2>2, <2>3
<1>6. /\ Onward(k) \subseteq Copy
      /\ \A j \in Onward(k) : j.msg = m /\ j.hop = k.hop + 1 /\ j.src = n /\ j.dst \in Ambit(m)
      /\ k.hop + 1 < HopLimit =>
            \A x \in NextHops(n, m, k.src) : \E j \in Onward(k) : j.msg = m /\ j.dst = x
  BY <1>3, OnwardType
<1>7. m \in seen'[From[m]] /\ \A x \in Node : m \in table'[x] <=> m \in seen'[x] /\ x # From[m]
  BY <1>1, <1>2, <1>3 DEF Undisturbed
<1>8. SeenBy(m)' \subseteq Ambit(m)
  BY <1>2, <1>4 DEF Undisturbed
<1>9. ASSUME NEW j \in mnet', j.msg = m
      PROVE  j.src \in SeenBy(m)' /\ j.dst \in Ambit(m) /\ j.hop < Cardinality(SeenBy(m)')
  <2>1. j \in mnet \/ j \in Onward(k)
    BY <1>1 DEF Unknown
  <2>2. CASE j \in mnet
    <3>1. j.src \in SeenBy(m) /\ j.dst \in Ambit(m) /\ j.hop < Cardinality(SeenBy(m)) /\ j.hop \in Nat
      BY <1>2, <1>9, <2>2 DEF Undisturbed, IInv, TypeOK, Copy
    <3> QED BY <1>4, <1>5, <3>1
  <2>3. CASE j \in Onward(k)
    <3>1. k.hop < Cardinality(SeenBy(m)) /\ k.hop \in Nat
      BY <1>2 DEF Undisturbed, Copy
    <3> QED BY <1>4, <1>5, <1>6, <2>3, <3>1
  <2> QED BY <2>1, <2>2, <2>3
<1>10. IF m \in Global THEN Whole ELSE RouteHolds(To[m])
  BY <1>2 DEF Undisturbed
<1>11. IF m \in Global THEN Whole' ELSE RouteHolds(To[m])'
  <2>1. CASE m \in Global
    BY <1>1, <1>10, <2>1 DEF Whole
  <2>2. CASE m \notin Global
    <3>1. \A e \in Edge, x \in Node : rdv[x][e] \subseteq rdv'[x][e]
      BY <1>1, <1>2 DEF Learned, IInv, TypeOK, RoutesTypeOK
    <3>2. To[m] \in Edge /\ RouteHolds(To[m])
      BY <1>2, <1>10, <2>2, MsgType
    <3> QED BY <1>1, <2>2, <3>1, <3>2, RouteKept
  <2> QED BY <2>1, <2>2
<1>12. \A x : Reached(m, x) => Reached(m, x)'
  <2>1. ASSUME NEW j \in mnet, j.msg = m
        PROVE  j \in mnet' \/ j.dst \in SeenBy(m)'
    BY <1>1, <2>1 DEF Unknown, SeenBy, IInv, TypeOK, Copy
  <2> QED BY <1>4, <2>1 DEF Reached, Coming
<1>13. ASSUME Enough(m), ~Done(m)'
       PROVE  Spread(m)'
  <2>1. Spread(m)
    BY <1>2, <1>4, <1>13, MsgType DEF Undisturbed, Done, SeenBy
  <2>2. \A x : Nbrs(m, x)' = Nbrs(m, x)
    BY <1>1 DEF Nbrs, TunnelsOf, RelaysOf
  <2>3. ASSUME n \in Relay
        PROVE  \A x \in Nbrs(m, n) : Reached(m, x)'
    <3>1. IF m \in Global THEN SeenBy(m) \cup {n} # Node ELSE To[m] \notin SeenBy(m)
      BY <1>4, <1>13 DEF Done
    <3>2. k.hop + 1 < HopLimit
      BY <1>13, <2>3, <3>1, HopsLeft
    <3>3. \A x \in NextHops(n, m, k.src) : Reached(m, x)'
      <4>1. ASSUME NEW j \in Onward(k)
            PROVE  j \in mnet' \/ j.dst \in SeenBy(m)'
        BY <1>1, <1>6, <4>1 DEF Unknown, SeenBy, Copy
      <4> QED BY <1>6, <3>2, <4>1 DEF Reached, Coming
    <3>4. Reached(m, k.src)'
      BY <1>2, <1>4 DEF Reached
    <3>5. Nbrs(m, n) \subseteq NextHops(n, m, k.src) \cup {k.src}
      BY <1>2, <1>10, <2>3, NbrsAreNext DEF IInv, TypeOK
    <3> QED BY <3>3, <3>4, <3>5
  <2>4. \A r \in Relay \cap SeenBy(m)' : \A x \in Nbrs(m, r)' : Reached(m, x)'
    BY <1>4, <1>12, <2>1, <2>2, <2>3 DEF Spread
  <2>5. \E r \in Relay : Reached(m, r)'
    BY <1>12, <2>1 DEF Spread
  <2> QED BY <2>4, <2>5 DEF Spread
<1> QED BY <1>7, <1>8, <1>9, <1>11, <1>13 DEF Undisturbed, Ambit, Enough

LEMMA ReceiveStep ==
    ASSUME IInv, NEW k \in mnet, ReceiveMessage(k)
    PROVE  IInv'
<1> DEFINE m == k.msg
           n == k.dst
<1>1. /\ seen' = [seen EXCEPT ![n] = @ \cup {m}] /\ table' = [table EXCEPT ![n] = @ \cup {m}]
      /\ rdv' = Learned(k) /\ mnet' = Unknown(mnet \cup Onward(k), seen')
      /\ UNCHANGED <<peers, edgeIps, tunnels, seenRoutes, rnet, moves, sent, clean, restarted>>
  BY DEF ReceiveMessage
<1>2. /\ m \in Msg /\ m \in sent /\ n \in Node /\ k.src \in Node /\ k \in Copy /\ m \notin seen[n]
      /\ seen \in [Node -> SUBSET Msg] /\ table \in [Node -> SUBSET Msg]
  BY DEF IInv, TypeOK, Fresh, Copy
<1>3. Onward(k) \subseteq Copy /\ \A j \in Onward(k) : j.msg = m
  BY OnwardType
<1>4. RoutesTypeOK' /\ NoSelf'
  <2>1. rdv' \in [Node -> [Edge -> SUBSET Node]]
    BY <1>1, <1>2 DEF Learned, IInv, TypeOK, RoutesTypeOK
  <2> QED BY <1>1, <2>1 DEF IInv, TypeOK, RoutesTypeOK, NoSelf
<1>5. mnet' \subseteq mnet \cup Onward(k) /\ \A j \in mnet' : j.msg \notin seen'[j.dst]
  BY <1>1 DEF Unknown
<1>6. TypeOK'
  BY <1>1, <1>2, <1>3, <1>4, <1>5 DEF IInv, TypeOK
<1>7. Fresh'
  BY <1>1, <1>2, <1>3, <1>5 DEF IInv, Fresh
<1>8. Own'
  <2>1. From[m] # n \/ From[m] \in restarted
    BY <1>2 DEF IInv, Own
  <2> QED BY <1>1, <1>2, <2>1 DEF IInv, Own, TypeOK
<1>9. ASSUME NEW x \in clean'
      PROVE  Undisturbed(x)'
  <2>1. CASE x = m
    BY <1>1, <1>9, <2>1, FirstCopy
  <2>2. CASE x # m
    <3>1. x \in Msg /\ Undisturbed(x)
      BY <1>1, <1>9 DEF IInv, TypeOK
    <3>2. \A y \in Node : (x \in seen'[y] <=> x \in seen[y]) /\ (x \in table'[y] <=> x \in table[y])
      BY <1>1, <1>2, <2>2
    <3>3. \A j : j.msg = x => (j \in mnet' <=> j \in mnet)
      <4>1. ASSUME NEW j \in mnet, j.msg = x
            PROVE  j \in mnet'
        BY <1>1, <3>2, <4>1 DEF Unknown, IInv, Fresh, TypeOK, Copy
      <4> QED BY <1>3, <1>5, <2>2, <4>1
    <3>4. IF x \in Global THEN Whole' ELSE RouteHolds(To[x])'
      <4>1. CASE x \in Global
        BY <1>1, <3>1, <4>1 DEF Whole, Undisturbed
      <4>2. CASE x \notin Global
        <5>1. \A e \in Edge, y \in Node : rdv[y][e] \subseteq rdv'[y][e]
          BY <1>1, <1>2 DEF Learned, IInv, TypeOK, RoutesTypeOK
        <5>2. To[x] \in Edge /\ RouteHolds(To[x])
          BY <3>1, <4>2, MsgType DEF Undisturbed
        <5> QED BY <1>1, <4>2, <5>1, <5>2, RouteKept
      <4> QED BY <4>1, <4>2
    <3> QED BY <1>1, <3>1, <3>2, <3>3, <3>4, Untouched
  <2> QED BY <2>1, <2>2
<1> QED BY <1>4, <1>6, <1>7, <1>8, <1>9 DEF IInv

\* A copy is lost, and its message disturbed.
LEMMA LoseStep ==
    ASSUME IInv, NEW k \in mnet, Lose(k)
    PROVE  IInv'
<1>1. /\ moves' \in 0 .. MaxMoves /\ mnet' = mnet \ {k} /\ clean' = clean \ {k.msg}
      /\ UNCHANGED <<peers, edgeIps, tunnels, rdv, seenRoutes, rnet, sent, seen, table, restarted>>
  BY RoutesAssumption DEF Lose, Move, IInv, TypeOK, RoutesTypeOK
<1>2. TypeOK' /\ NoSelf' /\ Fresh' /\ Own'
  BY <1>1 DEF IInv, TypeOK, RoutesTypeOK, NoSelf, Fresh, Own
<1>3. ASSUME NEW m \in clean'
      PROVE  Undisturbed(m)'
  <2>1. m \in Msg /\ m # k.msg /\ Undisturbed(m)
    BY <1>1, <1>3 DEF IInv, TypeOK
  <2>2. IF m \in Global THEN Whole' ELSE RouteHolds(To[m])'
    BY <1>1, <2>1 DEF Undisturbed, Whole, RouteHolds, RelaysOf
  <2> QED BY <1>1, <2>1, <2>2, Untouched
<1> QED BY <1>2, <1>3 DEF IInv

\* A node restarts.
LEMMA RestartStep ==
    ASSUME IInv, NEW n \in Node, Restart(n)
    PROVE  IInv'
<1>1. /\ moves' \in 0 .. MaxMoves /\ seen' = [seen EXCEPT ![n] = {}]
      /\ edgeIps' = [edgeIps EXCEPT ![n] = {}] /\ tunnels' \subseteq tunnels
      /\ mnet' = {k \in mnet : n \notin {k.src, k.dst}} /\ clean' = {} /\ restarted' = restarted \cup {n}
      /\ UNCHANGED <<peers, rdv, sent, table>>
  BY RoutesAssumption DEF Restart, Move, IInv, TypeOK, RoutesTypeOK
<1>2. rnet' \subseteq rnet /\ seenRoutes' \in [Node -> SUBSET Keys]
  <2> DEFINE net == {p \in rnet : n \notin {p.src, p.dst}}
             known == [seenRoutes EXCEPT ![n] = {}]
  <2>1. net \in SUBSET Packets /\ known \in [Node -> SUBSET Keys] /\ Flying(net, known)
    BY DEF Restart, IInv, TypeOK, RoutesTypeOK, Packets
  <2> HIDE DEF known
  <2>2. rnet' \subseteq net /\ seenRoutes' \in [Node -> SUBSET Keys]
    BY <2>1, FlyingType
  <2> QED BY <2>2
<1>3. RoutesTypeOK' /\ NoSelf'
  BY <1>1, <1>2 DEF IInv, TypeOK, RoutesTypeOK, NoSelf
<1>4. TypeOK' /\ Fresh'
  BY <1>1, <1>3 DEF IInv, TypeOK, Fresh, Copy
<1>5. Own'
  BY <1>1 DEF IInv, Own, TypeOK
<1> QED BY <1>1, <1>3, <1>4, <1>5 DEF IInv

\* A tunnel opens or closes.
LEMMA MovedStep ==
    ASSUME IInv, Moved
    PROVE  IInv'
<1>1. PICK r \in Relay, e \in Edge :
         \/ Bind(r, e) /\ mnet' = mnet
         \/ Unbind(r, e) /\ mnet' = {k \in mnet : {k.src, k.dst} # {r, e}}
  BY DEF Moved
<1>2. mnet' \subseteq mnet /\ clean' = {} /\ UNCHANGED <<sent, seen, table, restarted>>
  BY <1>1 DEF Moved
<1>3. r \in Node /\ e \in Node
  BY DEF Node
<1>4. CASE Bind(r, e)
  <2>1. /\ moves' \in 0 .. MaxMoves /\ e \in Roams /\ tunnels' = tunnels \cup {<<r, e>>}
        /\ rdv' = [rdv EXCEPT ![r][e] = {r}] /\ UNCHANGED <<peers, edgeIps, seenRoutes>>
    BY <1>4, RoutesAssumption DEF Bind, Move, IInv, TypeOK, RoutesTypeOK
  <2>2. PICK new \in {{}} \cup {AnnounceCopies(e, i, RelaysOf(e) \cup {r}) :
                               i \in FreshIds(e, RelaysOf(e) \cup {r})} :
            rnet' = rnet \cup new \cup (IF Quiet(r, e) THEN UpdateCopies(r, e) ELSE {})
    BY <1>4 DEF Bind
  <2>3. new \subseteq Packets
    <3>1. RelaysOf(e) \cup {r} \in SUBSET Relay
      BY DEF RelaysOf
    <3> QED BY <2>1, <2>2, <3>1, CopiesType DEF FreshIds
  <2>4. UpdateCopies(r, e) \subseteq Packets
    BY <2>1, CopiesType DEF IInv, TypeOK
  <2>5. rnet' \subseteq Packets
    BY <2>2, <2>3, <2>4 DEF IInv, TypeOK, RoutesTypeOK, Packets
  <2>6. rdv' \in [Node -> [Edge -> SUBSET Node]]
    BY <1>3, <2>1 DEF IInv, TypeOK, RoutesTypeOK
  <2> QED BY <1>2, <2>1, <2>5, <2>6 DEF IInv, TypeOK, RoutesTypeOK, NoSelf, Fresh, Own, Packets
<1>5. CASE Unbind(r, e)
  <2>1. moves' \in 0 .. MaxMoves /\ tunnels' \subseteq tunnels /\ UNCHANGED <<peers, edgeIps, rdv>>
    BY <1>5, RoutesAssumption DEF Unbind, Move, IInv, TypeOK, RoutesTypeOK
  <2>2. rnet' \subseteq rnet /\ seenRoutes' \in [Node -> SUBSET Keys]
    <3> DEFINE net == {p \in rnet : {p.src, p.dst} # {r, e}}
    <3>1. net \in SUBSET Packets /\ seenRoutes \in [Node -> SUBSET Keys] /\ Flying(net, seenRoutes)
      BY <1>5 DEF Unbind, IInv, TypeOK, RoutesTypeOK, Packets
    <3> QED BY <3>1, FlyingType
  <2> QED BY <1>2, <2>1, <2>2 DEF IInv, TypeOK, RoutesTypeOK, NoSelf, Fresh, Own
<1> QED BY <1>1, <1>4, <1>5

\* Routes changes on its own.
LEMMA QuietStep ==
    ASSUME IInv, RoutesNext, Quietly
    PROVE  IInv'
<1>1. RoutesGood
  BY RoutesStepGood DEF IInv, TypeOK
<1>2. /\ clean' = IF Whole' THEN clean ELSE clean \ Global
      /\ UNCHANGED <<sent, seen, table, mnet, restarted>>
  BY DEF Quietly
<1>3. TypeOK' /\ NoSelf' /\ Fresh' /\ Own'
  BY <1>1, <1>2 DEF RoutesGood, IInv, TypeOK, Fresh, Own
<1>4. ASSUME NEW m \in clean'
      PROVE  Undisturbed(m)'
  <2>1. m \in Msg /\ Undisturbed(m)
    BY <1>2, <1>4 DEF IInv, TypeOK
  <2>2. IF m \in Global THEN Whole' ELSE RouteHolds(To[m])'
    BY <1>1, <1>2, <1>4, <2>1, MsgType DEF RoutesGood, Undisturbed
  <2> QED BY <1>1, <1>2, <2>1, <2>2, Untouched DEF RoutesGood
<1> QED BY <1>3, <1>4 DEF IInv
-----------------------------------------------------------------------------
(* The theorems                                                             *)

LEMMA InitInvariant == Init => IInv
<1> SUFFICES ASSUME Init
             PROVE  IInv
  OBVIOUS
<1>1. RoutesTypeOK /\ NoSelf
  BY RoutesAssumption DEF Init, RoutesInit, RoutesTypeOK, NoSelf, Node
<1> QED BY <1>1 DEF Init, TypeOK, Fresh, Own, IInv

LEMMA Invariance == Spec => []IInv
<1>1. IInv /\ [Next]_vars => IInv'
  <2> SUFFICES ASSUME IInv, [Next]_vars
               PROVE  IInv'
    OBVIOUS
  <2>1. CASE UNCHANGED vars
    <3>1. UNCHANGED <<peers, edgeIps, tunnels, rdv, seenRoutes, rnet, moves>>
      BY <2>1 DEF vars, routeVars
    <3>2. UNCHANGED <<sent, seen, table, mnet, clean, restarted>>
      BY <2>1 DEF vars, msgVars
    <3>3. TypeOK' /\ NoSelf' /\ Fresh' /\ Own'
      BY <3>1, <3>2 DEF IInv, TypeOK, RoutesTypeOK, NoSelf, Fresh, Own
    <3>4. ASSUME NEW m \in clean'
          PROVE  Undisturbed(m)'
      <4>1. m \in Msg /\ Undisturbed(m)
        BY <3>2, <3>4 DEF IInv, TypeOK
      <4>2. IF m \in Global THEN Whole' ELSE RouteHolds(To[m])'
        BY <3>1, <4>1 DEF Undisturbed, Whole, RouteHolds, RelaysOf
      <4> QED BY <3>1, <3>2, <4>1, <4>2, Untouched
    <3> QED BY <3>3, <3>4 DEF IInv
  <2>2. CASE \E m \in Msg : SendRemoteMessage(m)
    BY <2>2, SendStep
  <2>3. CASE \E k \in mnet : ReceiveMessage(k) \/ Lose(k)
    BY <2>3, ReceiveStep, LoseStep
  <2>4. CASE (\E n \in Restarts : Restart(n)) \/ Moved \/ (RoutesNext /\ Quietly)
    BY <2>4, MessagesAssumption, RestartStep, MovedStep, QuietStep
  <2> QED BY <2>1, <2>2, <2>3, <2>4 DEF Next
<1> QED BY InitInvariant, <1>1, PTL DEF Spec

\* Tables, routes and all copies on their way keep their types.
THEOREM TypeCorrect == Spec => []TypeOK
<1>1. IInv => TypeOK
  BY DEF IInv
<1> QED BY Invariance, <1>1, PTL

\* seenMessages of the sender's node stops every copy of an own message: it is
\* stored a second time only by a node that has restarted.
THEOREM OwnStoredOnce == Spec => []OwnOnce
<1>1. IInv => OwnOnce
  BY DEF IInv, Own, OwnOnce
<1> QED BY Invariance, <1>1, PTL

\* handleDirectOrChannelMessage lets the first copy of a message decide.  With
\* more hops than there are relays that is safe: a message to a user, sent over
\* the right route and not disturbed, arrives, whichever way was faster.
THEOREM DirectGetsThere ==
    ASSUME Cardinality(Relay) < HopLimit
    PROVE  Spec => []DirectArrives
<1>1. ASSUME IInv, NEW m \in Direct \cap clean, ~OnItsWay(m)
      PROVE  m \in table[To[m]]
  <2>1. /\ m \in Msg /\ m \notin Global /\ To[m] \in Edge /\ To[m] \in Node /\ To[m] # From[m]
        /\ Undisturbed(m)
    BY <1>1, MsgType DEF IInv, TypeOK, Msg
  <2>2. \A n : Reached(m, n) <=> n \in SeenBy(m)
    BY <1>1 DEF Reached, Coming, OnItsWay
  <2>3. RelaysOf(To[m]) # {} /\ RelaysOf(To[m]) \subseteq Relay
    BY <2>1 DEF Undisturbed, RouteHolds, RelaysOf
  <2>4. CASE Spread(m)
    <3>1. PICK r \in Relay : r \in SeenBy(m)
      BY <2>2, <2>4 DEF Spread
    <3>2. \E q \in RelaysOf(To[m]) : q \in SeenBy(m)
      BY <2>1, <2>2, <2>3, <2>4, <3>1 DEF Spread, Nbrs
    <3>3. To[m] \in SeenBy(m)
      BY <2>1, <2>2, <2>3, <2>4, <3>2 DEF Spread, Nbrs
    <3> QED BY <2>1, <3>3 DEF Undisturbed, SeenBy
  <2>5. CASE Done(m)
    BY <2>1, <2>5 DEF Done, Undisturbed, SeenBy
  <2>6. Enough(m)
    BY <2>1 DEF Enough
  <2> QED BY <2>1, <2>4, <2>5, <2>6 DEF Undisturbed
<1>2. IInv => DirectArrives
  BY <1>1 DEF DirectArrives
<1> QED BY Invariance, <1>2, PTL

\* The same for a flood, which may go through edges too: with as many hops as
\* there are nodes besides the sender's, every relay and every edge with a
\* tunnel gets an undisturbed message of the global channel.
THEOREM FloodGetsAround ==
    ASSUME Cardinality(Node) <= HopLimit + 1
    PROVE  Spec => []FloodReaches
<1>1. ASSUME IInv, NEW m \in Global \cap clean, ~OnItsWay(m),
             NEW n \in (Relay \cup {e \in Edge : RelaysOf(e) # {}}) \ {From[m]}
      PROVE  m \in table[n]
  <2>1. m \in Msg /\ n \in Node /\ Undisturbed(m) /\ m \in Global
    BY <1>1 DEF IInv, TypeOK, Msg, Node
  <2>2. \A x : Reached(m, x) <=> x \in SeenBy(m)
    BY <1>1 DEF Reached, Coming, OnItsWay
  <2>3. n \in SeenBy(m)
    <3>1. CASE Spread(m)
      <4>1. PICK r \in Relay : r \in SeenBy(m)
        BY <2>2, <3>1 DEF Spread
      <4>2. \A q \in Relay : q \in SeenBy(m)
        BY <2>1, <2>2, <3>1, <4>1 DEF Spread, Nbrs
      <4>3. CASE n \notin Relay
        <5>1. PICK q \in Relay : <<q, n>> \in tunnels
          BY <1>1, <4>3 DEF RelaysOf
        <5>2. n \in Nbrs(m, q)
          BY <1>1, <2>1, <4>3, <5>1 DEF Nbrs, TunnelsOf
        <5> QED BY <2>2, <3>1, <4>2, <5>1, <5>2 DEF Spread
      <4> QED BY <4>2, <4>3
    <3>2. CASE Done(m)
      BY <2>1, <3>2 DEF Done
    <3>3. Enough(m)
      BY <2>1 DEF Enough
    <3> QED BY <2>1, <3>1, <3>2, <3>3 DEF Undisturbed
  <2> QED BY <1>1, <2>1, <2>3 DEF Undisturbed, SeenBy
<1>2. IInv => FloodReaches
  BY <1>1 DEF FloodReaches
<1> QED BY Invariance, <1>2, PTL
=============================================================================
