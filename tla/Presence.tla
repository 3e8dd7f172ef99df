------------------------------ MODULE Presence -------------------------------
(***************************************************************************)
(* Who is online where: core/presenceManager.js and the PRESENCE_ANNOUNCE  *)
(* and USER_OFFLINE handlers of core/federationPacketHandler.js.  Relays   *)
(* know each other; an edge reaches the mesh through tunnels.  A node      *)
(* announces its own users, a relay those of its tunnelled edges as well.  *)
(* Copies of one packet travel over different channels, so they overtake   *)
(* each other.  Ages stand for Date.now() - timestamp: clocks agree.       *)
(***************************************************************************)
EXTENDS Integers, FiniteSets

CONSTANTS
    Relay, Edge,
    User,
    Home,           \* Home[u]: the node u logs in at
    Nick,           \* Nick[u]: the name without the node
    Ttl,            \* CONFIG.presenceTtl, 60 s, in clock units
    MaxSessions,    \* bound: logins of each user
    MaxIds,         \* bound: announcements of one node on their way
    MaxInFlight,    \* bound: packets on their way when a node broadcasts, see Room
    MaxDelay,       \* bound: clock units a USER_OFFLINE may be on its way
    MayBind,        \* bound: <<r, e>> where edge e may get a tunnel to relay r
    MayCrash        \* bound: nodes that may stop

Node == Relay \cup Edge

ASSUME PresenceAssumption ==
    /\ Relay \cap Edge = {}
    /\ Home \in [User -> Node]
    /\ DOMAIN Nick = User
    /\ Ttl \in Nat \ {0}
    /\ MaxSessions \in [User -> Nat] /\ MaxIds \in Nat /\ MaxInFlight \in Nat
    /\ MaxDelay \in 0 .. Ttl
    /\ MayBind \subseteq Relay \X Edge
    /\ MayCrash \subseteq Node

VARIABLES
    up,             \* nodes that run
    active,         \* users with a session (ClientServer.sessions)
    session,        \* session[u]: number of u's last login
    online,         \* online[n][u]: remoteOnlineUsers of n
    tunnels,        \* tunnels[r]: edges in rendezvousTunnels of relay r
    relays,         \* relays[e]: relays in rendezvousRelays of edge e
    seenPresence,   \* seenPresenceAnnounces
    seenOffline,    \* seenOfflineAnnounces
    net             \* copies on their way

seenVars == <<seenPresence, seenOffline>>
loginVars == <<active, session>>
linkVars == <<tunnels, relays>>
vars == <<up, loginVars, online, linkVars, seenVars, net>>

(***************************************************************************)
(* Tables and packets.  The session number stands for what an announcement *)
(* says of a user (channels, isSsh, kemPublicKey); 0 is a user not named.  *)
(***************************************************************************)
Id == 1 .. MaxIds
Entry == [age : 0 .. Ttl, session : Nat]
Absent == [age |-> 0, session |-> 0]

Announcement == [kind : {"announce"}, src : Node, dst : Node, origin : Node,
                 id : Id, users : [User -> Nat], reply : BOOLEAN]
Offline == [kind : {"offline"}, src : Node, dst : Node, user : User,
            age : 0 .. MaxDelay]

TypeOK ==
    /\ up \subseteq Node /\ active \subseteq User
    /\ session \in [User -> Nat]
    /\ online \in [Node -> [User -> Entry]]
    /\ tunnels \in [Relay -> SUBSET Edge]
    /\ relays \in [Edge -> SUBSET Relay]
    /\ seenPresence \in [Node -> SUBSET (Node \X Id)]
    /\ seenOffline \in [Node -> SUBSET User]
    /\ net \subseteq Announcement \cup Offline

Listed(n, u) == online[n][u].session # 0

Tunnelled(n, u) == n \in Relay /\ Home[u] \in tunnels[n]

Namesakes(u) == {v \in User \ {u} : Nick[v] = Nick[u]}

\* createPresenceAnnouncePayload marks the users of tunnelled edges as seen now ...
Refreshed(tab, tunnelled) ==
    [u \in User |-> IF Home[u] \in tunnelled THEN [tab[u] EXCEPT !.age = 0] ELSE tab[u]]

\* Mutant: names every user it lists, not those behind its tunnels only.
MutMembers(n, tab, tunnelled) ==
    [u \in User |-> IF Home[u] = n THEN IF u \in active THEN session[u] ELSE 0
                    ELSE tab[u].session]

\* ... and names them next to the node's own.
Members(n, tab, tunnelled) ==
    [u \in User |-> CASE Home[u] = n -> IF u \in active THEN session[u] ELSE 0
                      [] Home[u] \in tunnelled -> tab[u].session
                      [] OTHER -> 0]

TunnelsOf(n) == IF n \in Relay THEN tunnels[n] ELSE {}

\* Whom a node writes to: its tunnels, and every node it has or can get a
\* channel to.  A channel that is missing is a copy that is lost.
Reach(n) == (Relay \ {n}) \cup TunnelsOf(n)

FreshIds(n) == {i \in Id : \A m \in net : ~(m.kind = "announce" /\ m.origin = n /\ m.id = i)}

\* Bound: a broadcast meets at most MaxInFlight packets, and not only announcements.
Room(msgs) ==
    /\ Cardinality(msgs) <= MaxInFlight
    /\ Cardinality({m \in msgs : m.kind = "announce"}) < MaxInFlight

Copies(n, dsts, origin, i, users, reply) ==
    [kind : {"announce"}, src : {n}, dst : dsts \cap up, origin : {origin},
     id : {i}, users : {users}, reply : {reply}]

\* broadcastPresenceAnnounce: an announcement with a new timestamp, which no
\* node has seen, or one of which every copy is lost.
Broadcast(n, users, dsts) ==
    \/ UNCHANGED net
    \/ /\ Room(net)
       /\ \E i \in FreshIds(n) : net' = net \cup Copies(n, dsts, n, i, users, FALSE)

\* What the caches of seen packets need to hold of a packet: that it was seen,
\* while copies are on their way.  They have room for 2000 of them.
KeepPresence(seen, msgs) ==
    [n \in Node |-> {k \in seen[n] :
        \E m \in msgs : m.kind = "announce" /\ k = <<m.origin, m.id>>}]

KeepOffline(seen, msgs) ==
    [n \in Node |-> {u \in seen[n] : \E m \in msgs : m.kind = "offline" /\ u = m.user}]

Init ==
    /\ up = Node /\ active = {} /\ session = [u \in User |-> 0]
    /\ online = [n \in Node |-> [u \in User |-> Absent]]
    /\ tunnels = [r \in Relay |-> {}]
    /\ relays = [e \in Edge |-> {}]
    /\ seenPresence = [n \in Node |-> {}]
    /\ seenOffline = [n \in Node |-> {}]
    /\ net = {}

-----------------------------------------------------------------------------
(***************************************************************************)
(* Users.                                                                  *)
(***************************************************************************)
\* A login replaces an older session of the user.  It takes longer than the
\* clock unit in which that session ended.
Login(u) ==
    /\ Home[u] \in up /\ session[u] < MaxSessions[u]
    /\ \A m \in net : m.kind = "offline" /\ m.user = u => m.age > 0
    /\ active' = active \cup {u}
    /\ session' = [session EXCEPT ![u] = @ + 1]
    /\ LET n == Home[u]
       IN /\ online' = [online EXCEPT ![n] = Refreshed(online[n], TunnelsOf(n))]
          /\ Broadcast(n, [Members(n, online[n], TunnelsOf(n)) EXCEPT ![u] = session[u] + 1],
                       Reach(n))
    /\ UNCHANGED <<up, linkVars, seenVars>>

\* broadcastUserOffline.  A new timestamp: no node has seen this packet.
\* Bound: one USER_OFFLINE at a time is on its way.
Logoff(u) ==
    /\ u \in active
    /\ \A m \in net : m.kind # "offline"
    /\ active' = active \ {u}
    /\ LET n == Home[u]
       IN /\ online' = [online EXCEPT ![n] = [v \in User |->
                            IF v = u \/ v \in Namesakes(u) THEN Absent ELSE @[v]]]
          /\ net' = net \cup [kind : {"offline"}, src : {n}, dst : Reach(n) \cap up,
                              user : {u}, age : {0}]
    /\ UNCHANGED <<up, session, linkVars, seenVars>>

(***************************************************************************)
(* The timers of start: broadcastPresence every 10 s, cleanupExpired-      *)
(* Presence every 30 s.                                                    *)
(***************************************************************************)
Announce(n) ==
    /\ n \in up
    /\ online' = [online EXCEPT ![n] = Refreshed(@, TunnelsOf(n))]
    /\ Broadcast(n, Members(n, online[n], TunnelsOf(n)), Reach(n))
    /\ UNCHANGED <<up, loginVars, linkVars, seenVars>>

Cleanup(n) ==
    /\ n \in up
    /\ online' = [online EXCEPT ![n] = [u \in User |->
            CASE Tunnelled(n, u) -> [@[u] EXCEPT !.age = 0]
              [] ~Tunnelled(n, u) /\ @[u].age >= Ttl -> Absent
              [] OTHER -> @[u]]]
    /\ UNCHANGED <<up, loginVars, linkVars, seenVars, net>>

(***************************************************************************)
(* handlePresenceAnnounce.  The table is updated for every copy; only the  *)
(* first one is forwarded and may be answered with the node's own table.   *)
(***************************************************************************)
Named(m) == {u \in User : m.users[u] # 0 /\ Home[u] # m.dst}

\* Of users with one name the last in the list of memberships stays.
Kept(m) == {K \in SUBSET Named(m) :
              \A u \in Named(m) : \E v \in K : /\ v = u \/ v \in Namesakes(u)
                                               /\ Namesakes(v) \cap K = {}}

Merged(m, K) ==
    [u \in User |-> CASE u \in K -> [age |-> 0, session |-> m.users[u]]
                      [] u \notin K /\ Namesakes(u) \cap Named(m) # {} -> Absent
                      [] OTHER -> online[m.dst][u]]

ForwardTo(m) ==
    LET n == m.dst
    IN CASE n \in Relay -> (Relay \ {n, m.src, m.origin}) \cup (tunnels[n] \ {m.origin})
         [] n \in Edge /\ Cardinality(relays[n]) >= 2 -> relays[n] \ {m.src}
         [] OTHER -> {}

IsNew(m) == <<m.origin, m.id>> \notin seenPresence[m.dst]

Noted(m) == [seenPresence EXCEPT ![m.dst] = @ \cup {<<m.origin, m.id>>}]

Forwards(m) ==
    IF IsNew(m) THEN Copies(m.dst, ForwardTo(m), m.origin, m.id, m.users, m.reply) ELSE {}

ReceiveOwn(m) ==
    /\ m.kind = "announce" /\ m.origin = m.dst
    /\ net' = net \ {m}
    /\ seenPresence' = KeepPresence(seenPresence, net')
    /\ UNCHANGED <<up, loginVars, online, linkVars, seenOffline>>

ReceiveAnnounce(m) ==
    /\ m.kind = "announce" /\ m.origin # m.dst
    /\ \E K \in Kept(m) : online' = [online EXCEPT ![m.dst] = Merged(m, K)]
    /\ net' = (net \ {m}) \cup Forwards(m)
    /\ seenPresence' = KeepPresence(Noted(m), net')
    /\ UNCHANGED <<up, loginVars, linkVars, seenOffline>>

\* The same, and the bilateral reply: at most one in 10 s on a channel.
ReceiveAndReply(m) ==
    LET n == m.dst
    IN /\ m.kind = "announce" /\ m.origin # n
       /\ IsNew(m) /\ ~m.reply /\ m.origin \in Relay
       /\ Room(net \ {m})
       /\ \E K \in Kept(m), i \in FreshIds(n) :
            LET users == Members(n, Merged(m, K), TunnelsOf(n))
            IN /\ \E u \in User : users[u] # 0
               /\ online' = [online EXCEPT ![n] = Refreshed(Merged(m, K), TunnelsOf(n))]
               /\ net' = (net \ {m}) \cup Forwards(m)
                            \cup Copies(n, {m.src}, n, i, users, TRUE)
               /\ seenPresence' = KeepPresence(Noted(m), net')
       /\ UNCHANGED <<up, loginVars, linkVars, seenOffline>>

(***************************************************************************)
(* handleUserOffline.  A packet older than the entry is dropped, and not   *)
(* forwarded either.                                                       *)
(***************************************************************************)
\* Mutant: timestamps are not compared.
MutIsStale(m) == FALSE

IsStale(m) == Listed(m.dst, m.user) /\ online[m.dst][m.user].age < m.age

ReceiveStale(m) ==
    /\ m.kind = "offline" /\ IsStale(m)
    /\ net' = net \ {m}
    /\ seenOffline' = KeepOffline(seenOffline, net')
    /\ UNCHANGED <<up, loginVars, online, linkVars, seenPresence>>

ReceiveOffline(m) ==
    LET n == m.dst
        dsts == IF n \in Relay /\ m.user \notin seenOffline[n]
                THEN Reach(n) \ {m.src} ELSE {}
    IN /\ m.kind = "offline" /\ ~IsStale(m)
       /\ online' = [online EXCEPT ![n] = [u \in User |->
             IF u = m.user \/ (u \in Namesakes(m.user) /\ @[u].age >= m.age)
             THEN Absent ELSE @[u]]]
       /\ net' = (net \ {m}) \cup [kind : {"offline"}, src : {n}, dst : dsts \cap up,
                                   user : {m.user}, age : {m.age}]
       /\ seenOffline' = KeepOffline([seenOffline EXCEPT ![n] = @ \cup {m.user}], net')
       /\ UNCHANGED <<up, loginVars, linkVars, seenPresence>>

Receive(m) ==
    \/ ReceiveOwn(m) \/ ReceiveAnnounce(m) \/ ReceiveAndReply(m)
    \/ ReceiveStale(m) \/ ReceiveOffline(m)

Lose(m) ==
    /\ net' = net \ {m}
    /\ seenPresence' = KeepPresence(seenPresence, net')
    /\ seenOffline' = KeepOffline(seenOffline, net')
    /\ UNCHANGED <<up, loginVars, online, linkVars>>

(***************************************************************************)
(* Tunnels, which Rendezvous models in detail: both ends announce when a   *)
(* tunnel is bound, the relay when it notices that one is closed.          *)
(***************************************************************************)
AcceptBind(r, e) ==
    /\ {r, e} \subseteq up /\ r \notin relays[e] /\ <<r, e>> \in MayBind
    /\ tunnels' = [tunnels EXCEPT ![r] = @ \cup {e}]
    /\ online' = [online EXCEPT ![r] = Refreshed(@, tunnels[r] \cup {e})]
    /\ Broadcast(r, Members(r, online[r], tunnels[r] \cup {e}), Reach(r) \cup {e})
    /\ UNCHANGED <<up, loginVars, relays, seenVars>>

\* Mutant: the edge notes its own name for the relay's.
MutBound(e, r) ==
    /\ {r, e} \subseteq up /\ r \notin relays[e] /\ e \in tunnels[r]
    /\ relays' = [relays EXCEPT ![e] = @ \cup {e}]
    /\ Broadcast(e, Members(e, online[e], {}), Reach(e))
    /\ UNCHANGED <<up, loginVars, online, tunnels, seenVars>>

Bound(e, r) ==
    /\ {r, e} \subseteq up /\ r \notin relays[e] /\ e \in tunnels[r]
    /\ relays' = [relays EXCEPT ![e] = @ \cup {r}]
    /\ Broadcast(e, Members(e, online[e], {}), Reach(e))
    /\ UNCHANGED <<up, loginVars, online, tunnels, seenVars>>

Break(e, r) ==
    /\ r \in relays[e]
    /\ relays' = [relays EXCEPT ![e] = @ \ {r}]
    /\ UNCHANGED <<up, loginVars, online, tunnels, seenVars, net>>

TunnelClosed(r, e) ==
    /\ r \in up /\ e \in tunnels[r] /\ r \notin relays[e]
    /\ tunnels' = [tunnels EXCEPT ![r] = @ \ {e}]
    /\ online' = [online EXCEPT ![r] = Refreshed(@, tunnels[r] \ {e})]
    /\ Broadcast(r, Members(r, online[r], tunnels[r] \ {e}), Reach(r) \ {e})
    /\ UNCHANGED <<up, loginVars, relays, seenVars>>

(***************************************************************************)
(* Processes and time.  All of this is memory: a node that stops tells     *)
(* nobody and comes back empty.                                            *)
(***************************************************************************)
Crash(n) ==
    /\ n \in up \cap MayCrash
    /\ up' = up \ {n}
    /\ active' = {u \in active : Home[u] # n}
    /\ online' = [online EXCEPT ![n] = [u \in User |-> Absent]]
    /\ tunnels' = [r \in Relay |-> IF r = n THEN {} ELSE tunnels[r]]
    /\ relays' = [e \in Edge |-> IF e = n THEN {} ELSE relays[e] \ {n}]
    /\ net' = {m \in net : m.dst # n}
    /\ seenPresence' = KeepPresence([seenPresence EXCEPT ![n] = {}], net')
    /\ seenOffline' = KeepOffline([seenOffline EXCEPT ![n] = {}], net')
    /\ UNCHANGED session

Restart(n) ==
    /\ n \in Node \ up
    /\ up' = up \cup {n}
    /\ UNCHANGED <<loginVars, online, linkVars, seenVars, net>>

Older(m) == IF m.kind = "offline" THEN [m EXCEPT !.age = @ + 1] ELSE m

Tick ==
    /\ online' = [n \in Node |-> [u \in User |->
          IF Listed(n, u) /\ online[n][u].age < Ttl
          THEN [online[n][u] EXCEPT !.age = @ + 1] ELSE online[n][u]]]
    /\ net' = {Older(m) : m \in {k \in net : k.kind = "offline" => k.age < MaxDelay}}
    /\ seenOffline' = KeepOffline(seenOffline, net')
    /\ UNCHANGED <<up, loginVars, linkVars, seenPresence>>

Next ==
    \/ \E u \in User : Login(u) \/ Logoff(u)
    \/ \E n \in Node : Announce(n) \/ Cleanup(n) \/ Crash(n) \/ Restart(n)
    \/ \E m \in net : Receive(m) \/ Lose(m)
    \/ \E r \in Relay, e \in Edge :
          AcceptBind(r, e) \/ Bound(e, r) \/ Break(e, r) \/ TunnelClosed(r, e)
    \/ Tick

Spec == Init /\ [][Next]_vars

\* Time passes, the cleanup timer of a running node fires, and a relay
\* notices in the end that a tunnel is gone (heartbeats).
Fairness ==
    /\ WF_vars(Tick)
    /\ \A n \in Node : WF_vars(Cleanup(n))
    /\ \A r \in Relay, e \in Edge : WF_vars(TunnelClosed(r, e))

FairSpec == Spec /\ Fairness

-----------------------------------------------------------------------------
(***************************************************************************)
(* Properties.                                                             *)
(***************************************************************************)
\* A user who left and came back is not taken out by the USER_OFFLINE of the
\* session before: where the new session is known, that packet is stale, over
\* whatever channel and however late it arrives.
ReturnKept ==
    [][\A m \in net :
          /\ ReceiveOffline(m)
          /\ m.user \in active /\ online[m.dst][m.user].session = session[m.user]
          => FALSE]_vars

\* A user who is gone together with the tunnels of the edge he was on leaves
\* every table in the end.  Relays repeat to each other what they list, but
\* no two of them keep a user alive between them.
Gone(u) == u \notin active /\ (Home[u] \in Edge => Home[u] \notin up)

GoneLeave ==
    \A u \in User : <>[]Gone(u) => <>[](\A n \in Node : ~Listed(n, u))

\* Once the tunnels are settled, whoever has logged off leaves every table in
\* the end.  tests/presence.test.js:199 expects it of a relay whose edge has sent
\* USER_OFFLINE, README.md:74 of inactive entries after 60 s.
Settled ==
    \A r \in Relay, e \in Edge : \/ <>[](e \in tunnels[r] /\ r \in relays[e])
                               \/ <>[](e \notin tunnels[r] /\ r \notin relays[e])

LogoffLeaves ==
    Settled => \A u \in User :
        <>[](u \notin active) => <>[](\A n \in Node : ~Listed(n, u))
=============================================================================
