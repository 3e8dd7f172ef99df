---------------------------- MODULE PresenceProofs ----------------------------
(***************************************************************************)
(* Type correctness of Presence, and that a returning user is not taken    *)
(* out by the USER_OFFLINE of an earlier session, for every mesh, number   *)
(* of sessions, packets and delays.                                        *)
(***************************************************************************)
EXTENDS Presence, TLAPS

\* Sessions are numbered from 1, and no table or packet is ahead of a login.
Numbered ==
    /\ \A u \in active : session[u] > 0
    /\ \A n \in Node, u \in User : online[n][u].session <= session[u]
    /\ \A m \in net : m.kind = "announce" => \A u \in User : m.users[u] <= session[u]

\* A USER_OFFLINE of a user who is back is older than his new session, so it
\* is older than every entry of that session.
Outdated ==
    \A m \in net : m.kind = "offline" /\ m.user \in active =>
        /\ m.age > 0
        /\ \A n \in Node : online[n][m.user].session = session[m.user]
                              => online[n][m.user].age < m.age

IInv == TypeOK /\ Numbered /\ Outdated

Packet == Announcement \cup Offline

Table == [User -> Entry]

-----------------------------------------------------------------------------
(***************************************************************************)
(* Operators.                                                              *)
(***************************************************************************)
LEMMA AbsentType == Absent \in Entry
BY PresenceAssumption DEF Absent, Entry

LEMMA EntryFields ==
  ASSUME NEW x \in Entry
  PROVE  x.age \in 0 .. Ttl /\ x.session \in Nat
BY DEF Entry

\* The table a node writes keeps every session and only makes entries younger.
LEMMA RefreshedTable ==
  ASSUME NEW tab \in Table, NEW S
  PROVE  /\ Refreshed(tab, S) \in Table
         /\ \A u \in User : /\ Refreshed(tab, S)[u].session = tab[u].session
                            /\ Refreshed(tab, S)[u].age <= tab[u].age
<1>1. 0 \in 0 .. Ttl
  BY PresenceAssumption
<1>2. ASSUME NEW x \in Entry
      PROVE  LET y == [x EXCEPT !.age = 0]
             IN y \in Entry /\ y.session = x.session /\ y.age <= x.age
  <2>1. [x EXCEPT !.age = 0] = [age |-> 0, session |-> x.session]
    BY DEF Entry
  <2>2. x.session \in Nat /\ x.age \in 0 .. Ttl
    BY EntryFields
  <2>3. [age |-> 0, session |-> x.session] \in Entry
    BY <1>1, <2>2 DEF Entry
  <2> QED
    BY <2>1, <2>2, <2>3
<1>3. ASSUME NEW u \in User
      PROVE  /\ Refreshed(tab, S)[u] \in Entry
             /\ Refreshed(tab, S)[u].session = tab[u].session
             /\ Refreshed(tab, S)[u].age <= tab[u].age
  <2>1. tab[u] \in Entry /\ tab[u].age \in 0 .. Ttl
    BY EntryFields DEF Table
  <2>2. CASE Home[u] \in S
    <3>1. Refreshed(tab, S)[u] = [tab[u] EXCEPT !.age = 0]
      BY <2>2 DEF Refreshed
    <3> QED
      BY <1>2, <2>1, <3>1
  <2>3. CASE Home[u] \notin S
    <3>1. Refreshed(tab, S)[u] = tab[u]
      BY <2>3 DEF Refreshed
    <3> QED
      BY <2>1, <3>1, PresenceAssumption
  <2> QED
    BY <2>2, <2>3
<1> QED
  BY <1>3 DEF Refreshed, Table

\* What an announcement says of a user is known from his login or a table.
LEMMA MembersFrom ==
  ASSUME NEW tab \in Table, NEW n, NEW S,
         session \in [User -> Nat],
         \A u \in User : tab[u].session <= session[u]
  PROVE  /\ Members(n, tab, S) \in [User -> Nat]
         /\ \A u \in User : Members(n, tab, S)[u] <= session[u]
<1>1. ASSUME NEW u \in User
      PROVE  Members(n, tab, S)[u] \in Nat /\ Members(n, tab, S)[u] <= session[u]
  <2>1. tab[u].session \in Nat /\ session[u] \in Nat
    BY EntryFields DEF Table
  <2> QED
    BY <2>1 DEF Members
<1> QED
  BY <1>1 DEF Members

LEMMA CopiesType ==
  ASSUME TypeOK, NEW n \in Node, NEW dsts, NEW o \in Node, NEW i \in Id,
         NEW users \in [User -> Nat], NEW reply \in BOOLEAN,
         NEW m \in Copies(n, dsts, o, i, users, reply)
  PROVE  m \in Announcement /\ m.kind = "announce" /\ m.users = users
BY DEF Copies, Announcement, TypeOK

LEMMA BroadcastNet ==
  ASSUME TypeOK, NEW n \in Node, NEW users \in [User -> Nat], NEW dsts,
         Broadcast(n, users, dsts)
  PROVE  /\ net' \subseteq Packet
         /\ \A m \in net' : m \in net \/ (m.kind = "announce" /\ m.users = users)
<1>1. CASE UNCHANGED net
  BY <1>1 DEF TypeOK, Packet
<1>2. CASE \E i \in FreshIds(n) : net' = net \cup Copies(n, dsts, n, i, users, FALSE)
  <2>1. PICK i \in Id : net' = net \cup Copies(n, dsts, n, i, users, FALSE)
    BY <1>2 DEF FreshIds
  <2>2. \A m \in Copies(n, dsts, n, i, users, FALSE) :
           m \in Announcement /\ m.kind = "announce" /\ m.users = users
    BY <2>1 DEF Copies, Announcement, TypeOK
  <2> QED
    BY <2>1, <2>2 DEF TypeOK, Packet
<1>3. (UNCHANGED net) \/ \E i \in FreshIds(n) : net' = net \cup Copies(n, dsts, n, i, users, FALSE)
  BY Zenon DEF Broadcast
<1> QED
  BY <1>1, <1>2, <1>3

LEMMA KeepType ==
  ASSUME NEW msgs
  PROVE  /\ \A seen \in [Node -> SUBSET (Node \X Id)] :
               KeepPresence(seen, msgs) \in [Node -> SUBSET (Node \X Id)]
         /\ \A seen \in [Node -> SUBSET User] :
               KeepOffline(seen, msgs) \in [Node -> SUBSET User]
BY DEF KeepPresence, KeepOffline

-----------------------------------------------------------------------------
(***************************************************************************)
(* Every step but a login and the clock's derives its tables and packets   *)
(* from those there were: entries go, stay, get younger or come from an    *)
(* announcement; a USER_OFFLINE is passed on as it is, or its user left.   *)
(***************************************************************************)
TableFrom ==
    \A n \in Node, u \in User :
        \/ online'[n][u].session = 0
        \/ /\ online'[n][u].session = online[n][u].session
           /\ online'[n][u].age <= online[n][u].age
        \/ online'[n][u].age = 0 /\ online'[n][u].session <= session[u]

NetFrom ==
    \A m \in net' :
        /\ m.kind = "announce" => \A u \in User : m.users[u] <= session[u]
        /\ m.kind = "offline" =>
              \/ m.user \notin active'
              \/ \E k \in net : k.kind = "offline" /\ k.user = m.user /\ k.age = m.age

LEMMA Derived ==
  ASSUME IInv, TypeOK', UNCHANGED session, active' \subseteq active,
         TableFrom, NetFrom
  PROVE  IInv'
<1>1. \A n \in Node, u \in User :
         /\ online[n][u].session \in Nat /\ online[n][u].age \in 0 .. Ttl
         /\ online'[n][u].session \in Nat /\ online'[n][u].age \in 0 .. Ttl
         /\ session[u] \in Nat
  BY EntryFields DEF IInv, TypeOK
<1>2. Numbered'
  <2>1. \A n \in Node, u \in User : online'[n][u].session <= session[u]
    BY <1>1 DEF IInv, Numbered, TableFrom
  <2> QED
    BY <2>1 DEF IInv, Numbered, NetFrom
<1>3. Outdated'
  <2> SUFFICES ASSUME NEW m \in net', m.kind = "offline", m.user \in active'
               PROVE  /\ m.age > 0
                      /\ \A n \in Node : online'[n][m.user].session = session[m.user]
                                            => online'[n][m.user].age < m.age
    BY DEF Outdated
  <2>1. PICK k \in net : k.kind = "offline" /\ k.user = m.user /\ k.age = m.age
    BY DEF NetFrom
  <2>2. /\ m.age > 0 /\ m.user \in User /\ session[m.user] > 0
        /\ \A n \in Node : online[n][m.user].session = session[m.user]
                              => online[n][m.user].age < m.age
    BY <2>1 DEF IInv, Outdated, Numbered, TypeOK
  <2>3. m.age \in Nat
    BY <2>1, PresenceAssumption DEF IInv, TypeOK, Announcement, Offline
  <2> QED
    BY <1>1, <2>2, <2>3 DEF TableFrom
<1> QED
  BY <1>2, <1>3 DEF IInv

\* An unchanged net, or less of it.
LEMMA FewerPackets ==
  ASSUME IInv, net' \subseteq net, UNCHANGED session
  PROVE  NetFrom
BY DEF NetFrom, IInv, Numbered

LEMMA SameTable ==
  ASSUME IInv, UNCHANGED online
  PROVE  TableFrom
<1>1. \A n \in Node, u \in User : online[n][u].age \in 0 .. Ttl
  BY EntryFields DEF IInv, TypeOK
<1> QED
  BY <1>1, PresenceAssumption DEF TableFrom

\* One node's table changed.
LEMMA OneTable ==
  ASSUME IInv, NEW n \in Node, NEW tab \in Table,
         online' = [online EXCEPT ![n] = tab],
         \A u \in User :
            \/ tab[u].session = 0
            \/ tab[u].session = online[n][u].session /\ tab[u].age <= online[n][u].age
            \/ tab[u].age = 0 /\ tab[u].session <= session[u]
  PROVE  TableFrom /\ online' \in [Node -> Table]
<1>1. \A k \in Node, u \in User : online[k][u].age \in 0 .. Ttl
  BY EntryFields DEF IInv, TypeOK
<1>2. online \in [Node -> Table]
  BY DEF IInv, TypeOK, Table
<1> QED
  BY <1>1, <1>2, PresenceAssumption DEF TableFrom

\* A node refreshes its table and broadcasts it.
LEMMA Publishes ==
  ASSUME IInv, NEW n \in Node, NEW S, NEW T, NEW dsts,
         UNCHANGED session,
         UNCHANGED online \/ online' = [online EXCEPT ![n] = Refreshed(online[n], S)],
         Broadcast(n, Members(n, online[n], T), dsts)
  PROVE  /\ TableFrom /\ NetFrom
         /\ online' \in [Node -> Table] /\ net' \subseteq Packet
<1>1. online[n] \in Table /\ online \in [Node -> Table]
  BY DEF IInv, TypeOK, Table
<1>2. TableFrom /\ online' \in [Node -> Table]
  <2>1. CASE UNCHANGED online
    BY <1>1, <2>1, SameTable
  <2>2. CASE online' = [online EXCEPT ![n] = Refreshed(online[n], S)]
    BY <1>1, <2>2, RefreshedTable, OneTable
  <2> QED
    BY <2>1, <2>2
<1>3. /\ Members(n, online[n], T) \in [User -> Nat]
      /\ \A u \in User : Members(n, online[n], T)[u] <= session[u]
  BY <1>1, MembersFrom DEF IInv, TypeOK, Numbered
<1>4. /\ net' \subseteq Packet
      /\ \A m \in net' : m \in net \/ (m.kind = "announce" /\ m.users = Members(n, online[n], T))
  BY <1>3, BroadcastNet DEF IInv
<1>5. NetFrom
  BY <1>3, <1>4 DEF NetFrom, IInv, Numbered
<1> QED
  BY <1>2, <1>4, <1>5

-----------------------------------------------------------------------------
(***************************************************************************)
(* The actions.                                                            *)
(***************************************************************************)
LEMMA InitHolds == Init => IInv
<1> SUFFICES ASSUME Init PROVE IInv
  OBVIOUS
<1>1. TypeOK
  BY AbsentType DEF Init, TypeOK
<1>2. Numbered /\ Outdated
  BY DEF Init, Numbered, Outdated, Absent
<1> QED
  BY <1>1, <1>2 DEF IInv

LEMMA LogoffStep ==
  ASSUME IInv, NEW u \in User, Logoff(u)
  PROVE  IInv'
<1> DEFINE n == Home[u]
           tab == [v \in User |-> IF v = u \/ v \in Namesakes(u) THEN Absent ELSE online[n][v]]
           sent == [kind : {"offline"}, src : {n}, dst : Reach(n) \cap up, user : {u}, age : {0}]
<1>1. n \in Node /\ 0 \in 0 .. MaxDelay
  BY PresenceAssumption
<1>2. tab \in Table /\ online[n] \in Table
  BY <1>1, AbsentType DEF IInv, TypeOK, Table
<1>3. /\ online' = [online EXCEPT ![n] = tab]
      /\ net' = net \cup sent
      /\ active' = active \ {u}
      /\ UNCHANGED <<up, session, linkVars, seenVars>>
  BY DEF Logoff
<1>4. \A v \in User : online[n][v].age \in 0 .. Ttl
  BY <1>2, EntryFields DEF Table
<1>5. \A v \in User : \/ tab[v].session = 0
                      \/ tab[v].session = online[n][v].session /\ tab[v].age <= online[n][v].age
  BY <1>4, PresenceAssumption DEF Absent
<1>6. TableFrom /\ online' \in [Node -> Table]
  <2> HIDE DEF tab, n
  <2> QED
    BY <1>1, <1>2, <1>3, <1>5, OneTable
<1>7. \A m \in sent : m \in Offline /\ m.kind = "offline" /\ m.user = u
  BY <1>1 DEF Offline, IInv, TypeOK
<1>8. NetFrom
  <2> HIDE DEF sent, n
  <2> QED
    BY <1>3, <1>7 DEF NetFrom, IInv, Numbered
<1>9. TypeOK'
  <2> HIDE DEF sent, n, tab
  <2> QED
    BY <1>3, <1>6, <1>7 DEF IInv, TypeOK, Table, linkVars, seenVars
<1> QED
  BY <1>3, <1>6, <1>8, <1>9, Derived

LEMMA AnnounceStep ==
  ASSUME IInv, NEW n \in Node, Announce(n)
  PROVE  IInv'
<1>1. /\ TableFrom /\ NetFrom
      /\ online' \in [Node -> Table] /\ net' \subseteq Packet
  BY Publishes DEF Announce, loginVars
<1>2. TypeOK'
  BY <1>1 DEF Announce, loginVars, linkVars, seenVars, IInv, TypeOK, Table, Packet
<1> QED
  BY <1>1, <1>2, Derived DEF Announce, loginVars

LEMMA BindStep ==
  ASSUME IInv, NEW r \in Relay, NEW e \in Edge,
         AcceptBind(r, e) \/ Bound(e, r) \/ TunnelClosed(r, e)
  PROVE  IInv'
<1>1. r \in Node /\ e \in Node
  BY DEF Node
<1>2. /\ TableFrom /\ NetFrom
      /\ online' \in [Node -> Table] /\ net' \subseteq Packet
  <2>1. CASE AcceptBind(r, e)
    BY <1>1, <2>1, Publishes DEF AcceptBind, loginVars
  <2>2. CASE Bound(e, r)
    BY <1>1, <2>2, Publishes DEF Bound, loginVars
  <2>3. CASE TunnelClosed(r, e)
    BY <1>1, <2>3, Publishes DEF TunnelClosed, loginVars
  <2> QED
    BY <2>1, <2>2, <2>3
<1>3. /\ UNCHANGED <<up, active, session, seenPresence, seenOffline>>
      /\ tunnels' \in [Relay -> SUBSET Edge] /\ relays' \in [Edge -> SUBSET Relay]
  <2>1. tunnels \in [Relay -> SUBSET Edge] /\ relays \in [Edge -> SUBSET Relay]
    BY DEF IInv, TypeOK
  <2>2. CASE AcceptBind(r, e)
    BY <2>1, <2>2 DEF AcceptBind, loginVars, seenVars
  <2>3. CASE Bound(e, r)
    BY <2>1, <2>3 DEF Bound, loginVars, seenVars
  <2>4. CASE TunnelClosed(r, e)
    BY <2>1, <2>4 DEF TunnelClosed, loginVars, seenVars
  <2> QED
    BY <2>2, <2>3, <2>4
<1>4. TypeOK'
  BY <1>2, <1>3 DEF IInv, TypeOK, Table, Packet
<1> QED
  BY <1>2, <1>3, <1>4, Derived

LEMMA CleanupStep ==
  ASSUME IInv, NEW n \in Node, Cleanup(n)
  PROVE  IInv'
<1> DEFINE tab == [u \in User |->
              CASE Tunnelled(n, u) -> [online[n][u] EXCEPT !.age = 0]
                [] ~Tunnelled(n, u) /\ online[n][u].age >= Ttl -> Absent
                [] OTHER -> online[n][u]]
<1>1. /\ online' = [online EXCEPT ![n] = tab]
      /\ UNCHANGED <<up, loginVars, linkVars, seenVars, net>>
  BY DEF Cleanup
<1>2. ASSUME NEW u \in User
      PROVE  /\ tab[u] \in Entry
             /\ \/ tab[u].session = 0
                \/ tab[u].session = online[n][u].session /\ tab[u].age <= online[n][u].age
  <2>1. online[n][u] \in Entry /\ online[n][u].age \in 0 .. Ttl /\ online[n][u].session \in Nat
    BY EntryFields DEF IInv, TypeOK
  <2>2. [online[n][u] EXCEPT !.age = 0] = [age |-> 0, session |-> online[n][u].session]
    BY <2>1 DEF Entry
  <2>3. 0 \in 0 .. Ttl
    BY PresenceAssumption
  <2>4. [age |-> 0, session |-> online[n][u].session] \in Entry
    BY <2>1, <2>3 DEF Entry
  <2>5. tab[u] \in {[age |-> 0, session |-> online[n][u].session], Absent, online[n][u]}
    BY <2>2
  <2> HIDE DEF tab
  <2> QED
    BY <2>1, <2>4, <2>5, AbsentType, PresenceAssumption DEF Absent
<1>3. tab \in Table
  <2>1. \A u \in User : tab[u] \in Entry
    BY <1>2
  <2> QED
    BY <2>1 DEF Table
<1>4. TableFrom /\ online' \in [Node -> Table]
  <2> HIDE DEF tab
  <2> QED
    BY <1>1, <1>2, <1>3, OneTable
<1>5. NetFrom
  BY <1>1, FewerPackets DEF loginVars
<1>6. TypeOK'
  BY <1>1, <1>4 DEF IInv, TypeOK, Table, loginVars, linkVars, seenVars
<1> QED
  BY <1>1, <1>4, <1>5, <1>6, Derived DEF loginVars

\* The table after an announcement.
LEMMA MergedTable ==
  ASSUME IInv, NEW m \in net, m.kind = "announce", NEW K \in Kept(m)
  PROVE  /\ m \in Announcement
         /\ Merged(m, K) \in Table
         /\ \A u \in User : LET x == Merged(m, K)[u]
                              y == online[m.dst][u]
                          IN \/ x.session = 0
                             \/ x.session = y.session /\ x.age <= y.age
                             \/ x.age = 0 /\ x.session <= session[u]
<1>1. m \in Announcement
  BY PresenceAssumption DEF IInv, TypeOK, Announcement, Offline
<1>2. m.dst \in Node /\ m.users \in [User -> Nat] /\ \A u \in User : m.users[u] <= session[u]
  BY <1>1 DEF Announcement, IInv, Numbered
<1>3. ASSUME NEW u \in User
      PROVE  LET x == Merged(m, K)[u]
                 y == online[m.dst][u]
             IN /\ x \in Entry
                /\ \/ x.session = 0
                   \/ x.session = y.session /\ x.age <= y.age
                   \/ x.age = 0 /\ x.session <= session[u]
  <2>1. online[m.dst][u] \in Entry /\ online[m.dst][u].age \in 0 .. Ttl
    BY <1>2, EntryFields DEF IInv, TypeOK
  <2>2. [age |-> 0, session |-> m.users[u]] \in Entry
    BY <1>2, PresenceAssumption DEF Entry
  <2>3. Merged(m, K)[u] \in {[age |-> 0, session |-> m.users[u]], Absent, online[m.dst][u]}
    BY DEF Merged
  <2>4. CASE Merged(m, K)[u] = [age |-> 0, session |-> m.users[u]]
    BY <1>2, <2>2, <2>4
  <2>5. CASE Merged(m, K)[u] = Absent
    BY <2>5, AbsentType DEF Absent
  <2>6. CASE Merged(m, K)[u] = online[m.dst][u]
    BY <2>1, <2>6, PresenceAssumption
  <2> QED
    BY <2>3, <2>4, <2>5, <2>6
<1>4. Merged(m, K) \in Table
  <2>1. \A u \in User : Merged(m, K)[u] \in Entry
    BY <1>3
  <2> QED
    BY <2>1 DEF Merged, Table
<1> QED
  BY <1>1, <1>3, <1>4

LEMMA ForwardsType ==
  ASSUME IInv, NEW m \in Announcement, NEW k \in Forwards(m)
  PROVE  k \in Announcement /\ k.kind = "announce" /\ k.users = m.users
<1>1. /\ m.dst \in Node /\ m.origin \in Node /\ m.id \in Id
      /\ m.users \in [User -> Nat] /\ m.reply \in BOOLEAN
  BY DEF Announcement
<1> QED
  BY <1>1, CopiesType DEF Forwards, IInv

LEMMA NotedType ==
  ASSUME IInv, NEW m \in Announcement
  PROVE  Noted(m) \in [Node -> SUBSET (Node \X Id)]
BY DEF Noted, Announcement, IInv, TypeOK

LEMMA ReceiveAnnounceStep ==
  ASSUME IInv, NEW m \in net, ReceiveAnnounce(m)
  PROVE  IInv'
<1>1. PICK K \in Kept(m) : online' = [online EXCEPT ![m.dst] = Merged(m, K)]
  BY DEF ReceiveAnnounce
<1>2. /\ m.kind = "announce" /\ net' = (net \ {m}) \cup Forwards(m)
      /\ seenPresence' = KeepPresence(Noted(m), net')
      /\ UNCHANGED <<up, active, session, tunnels, relays, seenOffline>>
  BY DEF ReceiveAnnounce, loginVars, linkVars
<1>3. m \in Announcement /\ m.dst \in Node
  BY <1>2, MergedTable DEF Announcement
<1>4. TableFrom /\ online' \in [Node -> Table]
  BY <1>1, <1>2, <1>3, MergedTable, OneTable
<1>5. \A k \in Forwards(m) : k \in Announcement /\ k.kind = "announce" /\ k.users = m.users
  BY <1>3, ForwardsType
<1>6. NetFrom
  BY <1>2, <1>5 DEF NetFrom, IInv, Numbered
<1>7. seenPresence' \in [Node -> SUBSET (Node \X Id)]
  BY <1>2, <1>3, NotedType, KeepType
<1>8. TypeOK'
  BY <1>2, <1>4, <1>5, <1>7 DEF IInv, TypeOK, Table
<1> QED
  BY <1>2, <1>4, <1>6, <1>8, Derived

LEMMA ReceiveAndReplyStep ==
  ASSUME IInv, NEW m \in net, ReceiveAndReply(m)
  PROVE  IInv'
<1> DEFINE n == m.dst
           T == TunnelsOf(n)
<1>1. m.kind = "announce" /\ UNCHANGED <<up, active, session, tunnels, relays, seenOffline>>
  BY DEF ReceiveAndReply, loginVars, linkVars
<1>2. PICK K \in Kept(m), i \in FreshIds(n) :
        LET users == Members(n, Merged(m, K), T)
        IN /\ online' = [online EXCEPT ![n] = Refreshed(Merged(m, K), T)]
           /\ net' = (net \ {m}) \cup Forwards(m) \cup Copies(n, {m.src}, n, i, users, TRUE)
           /\ seenPresence' = KeepPresence(Noted(m), net')
  BY DEF ReceiveAndReply
<1> DEFINE tab == Merged(m, K)
           new == Refreshed(tab, T)
           users == Members(n, tab, T)
<1>3. /\ m \in Announcement /\ n \in Node /\ i \in Id
      /\ tab \in Table
      /\ \A u \in User : \/ tab[u].session = 0
                         \/ /\ tab[u].session = online[n][u].session
                            /\ tab[u].age <= online[n][u].age
                         \/ tab[u].age = 0 /\ tab[u].session <= session[u]
  BY <1>1, MergedTable DEF Announcement, FreshIds
<1>4. /\ new \in Table
      /\ \A u \in User : new[u].session = tab[u].session /\ new[u].age <= tab[u].age
  <2> HIDE DEF T, tab
  <2> QED
    BY <1>3, RefreshedTable
<1>5. \A u \in User : /\ online[n][u].age \in 0 .. Ttl /\ online[n][u].session \in Nat
                      /\ tab[u].age \in 0 .. Ttl /\ tab[u].session \in Nat
                      /\ new[u].age \in 0 .. Ttl /\ session[u] \in Nat
                      /\ online[n][u].session <= session[u]
  <2> HIDE DEF n, new, tab
  <2> QED
    BY <1>3, <1>4, EntryFields DEF IInv, TypeOK, Numbered, Table
<1>6. TableFrom /\ online' \in [Node -> Table]
  <2>1. \A u \in User : \/ new[u].session = 0
                        \/ new[u].session = online[n][u].session /\ new[u].age <= online[n][u].age
                        \/ new[u].age = 0 /\ new[u].session <= session[u]
    <3> HIDE DEF n, new, tab
    <3> QED
      BY <1>3, <1>4, <1>5, PresenceAssumption
  <2>2. online' = [online EXCEPT ![n] = new]
    BY <1>2
  <2> HIDE DEF n, new, tab
  <2> QED
    BY <1>3, <1>4, <2>1, <2>2, OneTable
<1>7. users \in [User -> Nat] /\ \A u \in User : users[u] <= session[u]
  <2>1. \A u \in User : tab[u].session <= session[u]
    <3> HIDE DEF n, tab, new
    <3> QED
      BY <1>3, <1>5
  <2>2. session \in [User -> Nat]
    BY DEF IInv, TypeOK
  <2> HIDE DEF tab, n, T
  <2> QED
    BY <1>3, <2>1, <2>2, MembersFrom
<1>8. \A k \in Copies(n, {m.src}, n, i, users, TRUE) :
         k \in Announcement /\ k.kind = "announce" /\ k.users = users
  <2> HIDE DEF users, n
  <2> QED
    BY <1>3, <1>7 DEF Copies, Announcement, IInv, TypeOK
<1>9. \A k \in Forwards(m) : k \in Announcement /\ k.kind = "announce" /\ k.users = m.users
  BY <1>3, ForwardsType
<1>10. net' = (net \ {m}) \cup Forwards(m) \cup Copies(n, {m.src}, n, i, users, TRUE)
  BY <1>2
<1> HIDE DEF users, new, tab, n, T
<1>11. NetFrom
  BY <1>1, <1>7, <1>8, <1>9, <1>10 DEF NetFrom, IInv, Numbered
<1>12. seenPresence' \in [Node -> SUBSET (Node \X Id)]
  BY <1>2, <1>3, NotedType, KeepType
<1>13. TypeOK'
  BY <1>1, <1>6, <1>8, <1>9, <1>10, <1>12 DEF IInv, TypeOK, Table
<1> QED
  BY <1>1, <1>6, <1>11, <1>13, Derived

LEMMA ReceiveOfflineStep ==
  ASSUME IInv, NEW m \in net, ReceiveOffline(m)
  PROVE  IInv'
<1> DEFINE n == m.dst
           tab == [u \in User |->
                      IF u = m.user \/ (u \in Namesakes(m.user) /\ online[n][u].age >= m.age)
                      THEN Absent ELSE online[n][u]]
           dsts == IF n \in Relay /\ m.user \notin seenOffline[n] THEN Reach(n) \ {m.src} ELSE {}
           sent == [kind : {"offline"}, src : {n}, dst : dsts \cap up,
                    user : {m.user}, age : {m.age}]
           noted == [seenOffline EXCEPT ![n] = @ \cup {m.user}]
<1>1. /\ m.kind = "offline"
      /\ online' = [online EXCEPT ![n] = tab]
      /\ net' = (net \ {m}) \cup sent
      /\ seenOffline' = KeepOffline(noted, net')
      /\ UNCHANGED <<up, active, session, tunnels, relays, seenPresence>>
  BY DEF ReceiveOffline, loginVars, linkVars
<1>2. m \in Offline /\ n \in Node /\ m.user \in User /\ m.age \in 0 .. MaxDelay
  BY <1>1 DEF IInv, TypeOK, Announcement, Offline
<1>3. tab \in Table
  BY <1>2, AbsentType DEF IInv, TypeOK, Table
<1>4. \A u \in User : \/ tab[u].session = 0
                      \/ tab[u].session = online[n][u].session /\ tab[u].age <= online[n][u].age
  <2>1. \A u \in User : online[n][u].age \in 0 .. Ttl /\ tab[u] \in {Absent, online[n][u]}
    BY <1>2, EntryFields DEF IInv, TypeOK
  <2> HIDE DEF tab, n
  <2> QED
    BY <2>1, PresenceAssumption DEF Absent
<1>5. TableFrom /\ online' \in [Node -> Table]
  <2> HIDE DEF tab, n
  <2> QED
    BY <1>1, <1>2, <1>3, <1>4, OneTable
<1>6. \A k \in sent : /\ k \in Offline /\ k.kind = "offline"
                      /\ k.user = m.user /\ k.age = m.age
  <2> HIDE DEF dsts, n
  <2> QED
    BY <1>2 DEF Offline, IInv, TypeOK
<1>7. NetFrom
  <2> HIDE DEF sent, n
  <2> QED
    BY <1>1, <1>6 DEF NetFrom, IInv, Numbered
<1>8. seenOffline' \in [Node -> SUBSET User]
  <2>1. noted \in [Node -> SUBSET User]
    BY <1>2 DEF IInv, TypeOK
  <2> QED
    BY <1>1, <2>1, KeepType
<1>9. TypeOK'
  <2> HIDE DEF sent, n, tab, noted
  <2> QED
    BY <1>1, <1>5, <1>6, <1>8 DEF IInv, TypeOK, Table
<1> QED
  BY <1>1, <1>5, <1>7, <1>9, Derived

\* Steps that leave the tables alone and at most take packets away.
LEMMA QuietStep ==
  ASSUME IInv,
         \/ \E m \in net : ReceiveOwn(m) \/ ReceiveStale(m) \/ Lose(m)
         \/ \E r \in Relay, e \in Edge : Break(e, r)
         \/ \E n \in Node : Restart(n)
         \/ UNCHANGED vars
  PROVE  IInv'
<1> USE DEF loginVars, linkVars, seenVars
<1> DEFINE Quiet ==
        /\ UNCHANGED <<online, active, session, tunnels>> /\ net' \subseteq net
        /\ up' \subseteq Node /\ relays' \in [Edge -> SUBSET Relay]
        /\ seenPresence' \in [Node -> SUBSET (Node \X Id)]
        /\ seenOffline' \in [Node -> SUBSET User]
<1>1. Quiet
  <2>1. /\ up \subseteq Node /\ relays \in [Edge -> SUBSET Relay]
        /\ seenPresence \in [Node -> SUBSET (Node \X Id)]
        /\ seenOffline \in [Node -> SUBSET User]
    BY DEF IInv, TypeOK
  <2>2. ASSUME NEW m \in net, ReceiveOwn(m) PROVE Quiet
    BY <2>1, <2>2, KeepType DEF ReceiveOwn
  <2>3. ASSUME NEW m \in net, ReceiveStale(m) PROVE Quiet
    BY <2>1, <2>3, KeepType DEF ReceiveStale
  <2>4. ASSUME NEW m \in net, Lose(m) PROVE Quiet
    BY <2>1, <2>4, KeepType DEF Lose
  <2>5. ASSUME NEW r \in Relay, NEW e \in Edge, Break(e, r) PROVE Quiet
    BY <2>1, <2>5 DEF Break
  <2>6. ASSUME NEW n \in Node, Restart(n) PROVE Quiet
    BY <2>1, <2>6 DEF Restart
  <2>7. CASE UNCHANGED vars
    BY <2>1, <2>7 DEF vars
  <2> QED
    BY <2>2, <2>3, <2>4, <2>5, <2>6, <2>7
<1>2. TypeOK'
  BY <1>1 DEF IInv, TypeOK
<1> QED
  BY <1>1, <1>2, SameTable, FewerPackets, Derived

LEMMA CrashStep ==
  ASSUME IInv, NEW n \in Node, Crash(n)
  PROVE  IInv'
<1> DEFINE tab == [u \in User |-> Absent]
<1>1. /\ online' = [online EXCEPT ![n] = tab]
      /\ up' = up \ {n} /\ active' = {u \in active : Home[u] # n}
      /\ net' = {m \in net : m.dst # n}
      /\ tunnels' = [r \in Relay |-> IF r = n THEN {} ELSE tunnels[r]]
      /\ relays' = [e \in Edge |-> IF e = n THEN {} ELSE relays[e] \ {n}]
      /\ seenPresence' = KeepPresence([seenPresence EXCEPT ![n] = {}], net')
      /\ seenOffline' = KeepOffline([seenOffline EXCEPT ![n] = {}], net')
      /\ UNCHANGED session
  BY DEF Crash
<1>2. tab \in Table /\ \A u \in User : tab[u].session = 0
  BY AbsentType DEF Table, Absent
<1>3. TableFrom /\ online' \in [Node -> Table]
  <2> HIDE DEF tab
  <2> QED
    BY <1>1, <1>2, OneTable
<1>4. NetFrom
  BY <1>1, FewerPackets
<1>5. /\ seenPresence' \in [Node -> SUBSET (Node \X Id)]
      /\ seenOffline' \in [Node -> SUBSET User]
  <2>1. /\ [seenPresence EXCEPT ![n] = {}] \in [Node -> SUBSET (Node \X Id)]
        /\ [seenOffline EXCEPT ![n] = {}] \in [Node -> SUBSET User]
    BY DEF IInv, TypeOK
  <2> QED
    BY <1>1, <2>1, KeepType
<1>6. /\ tunnels' \in [Relay -> SUBSET Edge] /\ relays' \in [Edge -> SUBSET Relay]
  BY <1>1 DEF IInv, TypeOK
<1>7. TypeOK'
  BY <1>1, <1>3, <1>5, <1>6 DEF IInv, TypeOK, Table
<1> QED
  BY <1>1, <1>3, <1>4, <1>7, Derived

\* A login makes a session no table and no packet knows; a USER_OFFLINE still
\* on its way is of an earlier time.
LEMMA LoginStep ==
  ASSUME IInv, NEW u \in User, Login(u)
  PROVE  IInv'
<1> DEFINE n == Home[u]
           T == TunnelsOf(n)
           new == Refreshed(online[n], T)
           users == [Members(n, online[n], T) EXCEPT ![u] = session[u] + 1]
<1>1. /\ \A m \in net : m.kind = "offline" /\ m.user = u => m.age > 0
      /\ active' = active \cup {u} /\ session' = [session EXCEPT ![u] = session[u] + 1]
      /\ online' = [online EXCEPT ![n] = new]
      /\ Broadcast(n, users, Reach(n))
      /\ UNCHANGED <<up, tunnels, relays, seenPresence, seenOffline>>
  BY DEF Login, linkVars, seenVars
<1>2. n \in Node /\ online[n] \in Table /\ session \in [User -> Nat]
  BY PresenceAssumption DEF IInv, TypeOK, Table
<1>3. /\ new \in Table
      /\ \A v \in User : new[v].session = online[n][v].session /\ new[v].age <= online[n][v].age
  <2> HIDE DEF n, T
  <2> QED
    BY <1>2, RefreshedTable
<1>4. /\ Members(n, online[n], T) \in [User -> Nat]
      /\ \A v \in User : Members(n, online[n], T)[v] <= session[v]
  <2> HIDE DEF n, T
  <2> QED
    BY <1>2, MembersFrom DEF IInv, Numbered
<1>5. /\ users \in [User -> Nat] /\ \A v \in User : users[v] <= session'[v]
      /\ session' \in [User -> Nat]
      /\ \A v \in User : session'[v] >= session[v] /\ (v # u => session'[v] = session[v])
      /\ session'[u] > session[u]
  <2> HIDE DEF n, T
  <2> QED
    BY <1>1, <1>2, <1>4
<1>6. /\ net' \subseteq Packet
      /\ \A m \in net' : m \in net \/ (m.kind = "announce" /\ m.users = users)
  <2> HIDE DEF n, users
  <2> QED
    BY <1>1, <1>2, <1>5, BroadcastNet DEF IInv
<1>7. online' \in [Node -> Table]
  <2> HIDE DEF n, new
  <2> QED
    BY <1>1, <1>2, <1>3 DEF IInv, TypeOK, Table
<1>8. \A k \in Node, v \in User :
         /\ online'[k][v].session = online[k][v].session
         /\ online'[k][v].age <= online[k][v].age
         /\ online[k][v].session \in Nat /\ online[k][v].age \in 0 .. Ttl
         /\ online'[k][v].age \in 0 .. Ttl
         /\ online[k][v].session <= session[v]
  <2>1. \A k \in Node, v \in User :
           /\ online[k][v].session \in Nat /\ online[k][v].age \in 0 .. Ttl
           /\ online[k][v].session <= session[v]
    BY EntryFields DEF IInv, TypeOK, Numbered
  <2>2. \A k \in Node, v \in User : online'[k][v].age \in 0 .. Ttl
    BY <1>7, EntryFields DEF Table
  <2>3. online \in [Node -> Table]
    BY DEF IInv, TypeOK, Table
  <2> HIDE DEF n, new
  <2> QED
    BY <1>1, <1>2, <1>3, <2>1, <2>2, <2>3, PresenceAssumption
<1> HIDE DEF n, T, new, users
<1>9. TypeOK'
  BY <1>1, <1>5, <1>6, <1>7 DEF IInv, TypeOK, Table, Packet
<1>10. Numbered'
  <2>1. \A v \in active' : session'[v] > 0
    BY <1>1, <1>2, <1>5 DEF IInv, Numbered, TypeOK
  <2>2. \A k \in Node, v \in User : online'[k][v].session <= session'[v]
    BY <1>2, <1>5, <1>8
  <2>3. ASSUME NEW m \in net', m.kind = "announce", NEW v \in User
        PROVE  m.users[v] <= session'[v]
    <3>1. CASE m.users = users
      BY <1>5, <3>1
    <3>2. CASE m \in net
      <4>1. m.users[v] <= session[v] /\ m.users[v] \in Nat
        BY <2>3, <3>2, PresenceAssumption DEF IInv, Numbered, TypeOK, Announcement, Offline
      <4> QED
        BY <1>2, <1>5, <4>1
    <3> QED
      BY <1>6, <2>3, <3>1, <3>2
  <2> QED
    BY <2>1, <2>2, <2>3 DEF Numbered
<1>11. Outdated'
  <2> SUFFICES ASSUME NEW m \in net', m.kind = "offline", m.user \in active'
               PROVE  /\ m.age > 0
                      /\ \A k \in Node : online'[k][m.user].session = session'[m.user]
                                            => online'[k][m.user].age < m.age
    BY DEF Outdated
  <2>1. m \in net /\ m \in Offline
    BY <1>6 DEF IInv, TypeOK, Announcement, Offline
  <2>2. m.user \in User /\ m.age \in Nat
    BY <2>1, PresenceAssumption DEF Offline
  <2>3. CASE m.user = u
    BY <1>1, <1>2, <1>5, <1>8, <2>1, <2>2, <2>3
  <2>4. CASE m.user # u
    <3>1. m.user \in active
      BY <1>1, <2>4
    <3>2. /\ m.age > 0
          /\ \A k \in Node : online[k][m.user].session = session[m.user]
                                => online[k][m.user].age < m.age
      BY <2>1, <3>1 DEF IInv, Outdated
    <3> QED
      BY <1>5, <1>8, <2>2, <2>4, <3>2
  <2> QED
    BY <2>3, <2>4
<1> QED
  BY <1>9, <1>10, <1>11 DEF IInv

\* Entries and packets grow older together.
LEMMA TickStep ==
  ASSUME IInv, Tick
  PROVE  IInv'
<1>1. /\ UNCHANGED <<up, active, session, tunnels, relays, seenPresence>>
      /\ net' = {Older(m) : m \in {k \in net : k.kind = "offline" => k.age < MaxDelay}}
      /\ seenOffline' = KeepOffline(seenOffline, net')
  BY DEF Tick, loginVars, linkVars
<1>2. ASSUME NEW n \in Node, NEW u \in User
      PROVE  /\ online'[n][u] \in Entry
             /\ online'[n][u].session = online[n][u].session
             /\ online[n][u].age \in Nat
             /\ online'[n][u].age \in Nat /\ online'[n][u].age <= online[n][u].age + 1
  <2> DEFINE x == online[n][u]
  <2>1. x \in Entry /\ x.age \in 0 .. Ttl /\ x.session \in Nat
    BY EntryFields DEF IInv, TypeOK
  <2>2. [x EXCEPT !.age = @ + 1] = [age |-> x.age + 1, session |-> x.session]
    BY <2>1 DEF Entry
  <2>3. online'[n][u] = IF x.session # 0 /\ x.age < Ttl
                        THEN [age |-> x.age + 1, session |-> x.session] ELSE x
    BY <2>2 DEF Tick, Listed
  <2>4. CASE x.session # 0 /\ x.age < Ttl
    <3>1. x.age + 1 \in 0 .. Ttl
      BY <2>1, <2>4, PresenceAssumption
    <3> QED
      BY <2>1, <2>3, <2>4, <3>1 DEF Entry
  <2>5. CASE ~(x.session # 0 /\ x.age < Ttl)
    BY <2>1, <2>3, <2>5, PresenceAssumption
  <2> QED
    BY <2>4, <2>5
<1>3. online' \in [Node -> [User -> Entry]]
  <2>1. online' = [n \in Node |-> [u \in User |-> online'[n][u]]]
    BY DEF Tick
  <2> QED
    BY <1>2, <2>1
<1>4. ASSUME NEW m \in net'
      PROVE  \/ m \in net /\ m \in Announcement /\ m.kind = "announce"
             \/ /\ m \in Offline /\ m.kind = "offline"
                /\ \E k \in net : /\ k \in Offline /\ k.kind = "offline" /\ k.user = m.user
                                 /\ m.age = k.age + 1
  <2>1. PICK k \in net : m = Older(k) /\ (k.kind = "offline" => k.age < MaxDelay)
    BY <1>1
  <2>2. CASE k \in Announcement
    BY <2>1, <2>2 DEF Older, Announcement
  <2>3. CASE k \in Offline
    <3>1. m = [kind |-> "offline", src |-> k.src, dst |-> k.dst, user |-> k.user, age |-> k.age + 1]
      BY <2>1, <2>3 DEF Older, Offline
    <3>2. k.kind = "offline" /\ k.age + 1 \in 0 .. MaxDelay
      BY <2>1, <2>3, PresenceAssumption DEF Offline
    <3> QED
      BY <2>3, <3>1, <3>2 DEF Offline
  <2> QED
    BY <2>2, <2>3 DEF IInv, TypeOK
<1>5. TypeOK'
  <2>1. seenOffline' \in [Node -> SUBSET User]
    BY <1>1, KeepType DEF IInv, TypeOK
  <2>2. net' \subseteq Announcement \cup Offline
    BY <1>4
  <2> QED
    BY <1>1, <1>3, <2>1, <2>2 DEF IInv, TypeOK
<1>6. Numbered'
  <2>1. \A m \in net' : m.kind = "announce" => \A u \in User : m.users[u] <= session[u]
    BY <1>4 DEF IInv, Numbered
  <2>2. \A n \in Node, u \in User : online'[n][u].session <= session[u]
    BY <1>2 DEF IInv, Numbered
  <2> QED
    BY <1>1, <2>1, <2>2 DEF IInv, Numbered
<1>7. Outdated'
  <2> SUFFICES ASSUME NEW m \in net', m.kind = "offline", m.user \in active'
               PROVE  /\ m.age > 0
                      /\ \A n \in Node : online'[n][m.user].session = session'[m.user]
                                            => online'[n][m.user].age < m.age
    BY DEF Outdated
  <2>1. PICK k \in net : /\ k \in Offline /\ k.kind = "offline" /\ k.user = m.user
                         /\ m.age = k.age + 1
    BY <1>4
  <2>2. k.age \in Nat /\ m.user \in User
    BY <2>1, PresenceAssumption DEF Offline
  <2>3. \A n \in Node : online[n][m.user].session = session[m.user]
                            => online[n][m.user].age < k.age
    BY <1>1, <2>1 DEF IInv, Outdated
  <2> QED
    BY <1>1, <1>2, <2>1, <2>2, <2>3
<1> QED
  BY <1>5, <1>6, <1>7 DEF IInv

LEMMA StepHolds == IInv /\ [Next]_vars => IInv'
<1> SUFFICES ASSUME IInv, [Next]_vars
             PROVE  IInv'
  OBVIOUS
<1>1. ASSUME NEW u \in User, Login(u) \/ Logoff(u) PROVE IInv'
  BY <1>1, LoginStep, LogoffStep
<1>2. ASSUME NEW n \in Node, Announce(n) \/ Cleanup(n) \/ Crash(n) \/ Restart(n) PROVE IInv'
  BY <1>2, AnnounceStep, CleanupStep, CrashStep, QuietStep
<1>3. ASSUME NEW m \in net, Receive(m) \/ Lose(m) PROVE IInv'
  BY <1>3, ReceiveAnnounceStep, ReceiveAndReplyStep, ReceiveOfflineStep, QuietStep DEF Receive
<1>4. ASSUME NEW r \in Relay, NEW e \in Edge,
             AcceptBind(r, e) \/ Bound(e, r) \/ Break(e, r) \/ TunnelClosed(r, e)
      PROVE IInv'
  BY <1>4, BindStep, QuietStep
<1>5. CASE Tick
  BY <1>5, TickStep
<1>6. CASE UNCHANGED vars
  BY <1>6, QuietStep
<1> QED
  BY <1>1, <1>2, <1>3, <1>4, <1>5, <1>6 DEF Next

-----------------------------------------------------------------------------
\* Tables, tunnels and packets stay what the code takes them for.
THEOREM TypeCorrect == Spec => []TypeOK
<1>1. IInv => TypeOK
  BY DEF IInv
<1> QED
  BY <1>1, InitHolds, StepHolds, PTL DEF Spec

\* A USER_OFFLINE of an earlier session never takes out a user who is back,
\* at any node that has heard of the new session: handleUserOffline drops it.
THEOREM ReturningUserKept == Spec => ReturnKept
<1>1. IInv => \A m \in net :
         m.kind = "offline" /\ m.user \in active
           /\ online[m.dst][m.user].session = session[m.user] => IsStale(m)
  <2> SUFFICES ASSUME IInv, NEW m \in net, m.kind = "offline", m.user \in active,
                      online[m.dst][m.user].session = session[m.user]
               PROVE  IsStale(m)
    OBVIOUS
  <2>1. m.dst \in Node
    BY DEF IInv, TypeOK, Announcement, Offline
  <2>2. session[m.user] \in Nat /\ session[m.user] > 0
    BY DEF IInv, TypeOK, Numbered
  <2> QED
    BY <2>1, <2>2 DEF IInv, Outdated, IsStale, Listed
<1>2. IInv => [\A m \in net :
                 /\ ReceiveOffline(m)
                 /\ m.user \in active /\ online[m.dst][m.user].session = session[m.user]
                 => FALSE]_vars
  BY <1>1 DEF ReceiveOffline
<1> QED
  BY <1>2, InitHolds, StepHolds, PTL DEF Spec, ReturnKept
=============================================================================
