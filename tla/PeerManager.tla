----------------------------- MODULE PeerManager -----------------------------
(***************************************************************************)
(* The scored pool of peer addresses of core/peerManager.js and the file   *)
(* it is kept in.  Calls come from connections, failed dials, gossip, LAN  *)
(* beacons, rendezvous binds (edge addresses) and AutoNAT (own address).   *)
(* savePeers writes the file without waiting, so a write may land late,    *)
(* over a newer one, or be cut short by a crash.                           *)
(***************************************************************************)
EXTENDS Integers, FiniteSets

CONSTANTS
    Addr,          \* host:port addresses that are not loopback or broadcast
    Host,
    HostOf,        \* HostOf[a] is the host of address a
    OwnPort,       \* addresses whose port is one of this node's federation ports
    OwnHosts,      \* CONFIG.serverName and the interface addresses
    Bootstrap,     \* CONFIG.bootstrapPeers
    Capacity,      \* 250
    StartScore,    \* 100
    GossipScore,   \* 60
    Penalty,       \* 5
    SampleScore,   \* 80, getRandomSample
    MaxFailures,   \* 10, addOrUpdate
    LoadFailures,  \* 3, loadPeers
    NoHost,        \* publicIp is not known
    FailureCap,    \* bound: consecutive failures of a bootstrap peer
    MaxLate        \* bound: writes of the file in flight at once

ASSUME AddrAssumption ==
    /\ IsFiniteSet(Addr)
    /\ HostOf \in [Addr -> Host]
    /\ OwnPort \subseteq Addr
    /\ OwnHosts \subseteq Host
    /\ Bootstrap \subseteq Addr
    /\ NoHost \notin Host

ASSUME ScoreAssumption ==
    /\ Capacity \in Nat \ {0}
    /\ StartScore \in Nat /\ GossipScore \in Nat /\ SampleScore \in Nat
    /\ GossipScore < SampleScore /\ GossipScore <= StartScore
    /\ Penalty \in Nat \ {0}
    /\ MaxFailures \in Nat /\ LoadFailures \in Nat
    /\ FailureCap \in Nat /\ MaxLate \in Nat

VARIABLES
    pool,       \* addresses in the peers map
    meta,       \* score, failures and origin of each address of the pool
    edgeIps,    \* hosts registered as edge nodes
    publicIp,   \* own address as seen by others
    file,       \* contents of the peers file
    late,       \* snapshots whose write has not landed
    heard       \* history: addresses this node was in direct contact with

vars == <<pool, meta, edgeIps, publicIp, file, late, heard>>

\* No score exceeds that of a direct contact.
Scores == {s \in Int : s <= StartScore}

Meta == [score : Scores, failures : 0..FailureCap, fromGossip : BOOLEAN]

NoMeta == [score |-> 0, failures |-> 0, fromGossip |-> FALSE]

\* A snapshot of the pool; a torn file parses as none.
Snapshots == [pool : SUBSET Addr, meta : [Addr -> Meta]]

Snapshot == [pool |-> pool, meta |-> meta]

Torn == [pool |-> {}, meta |-> [a \in Addr |-> NoMeta]]

TypeOK ==
    /\ pool \subseteq Addr
    /\ meta \in [Addr -> Meta]
    /\ edgeIps \subseteq Host
    /\ publicIp \in Host \cup {NoHost}
    /\ file \in Snapshots
    /\ late \subseteq Snapshots
    /\ heard \subseteq Addr

\* A first start without a file.
Init ==
    /\ pool = {}
    /\ meta = [a \in Addr |-> NoMeta]
    /\ edgeIps = {}
    /\ publicIp = NoHost
    /\ file = Torn
    /\ late = {}
    /\ heard = {}
-----------------------------------------------------------------------------
IsSelfAddress(a, ip) == a \in OwnPort /\ HostOf[a] \in OwnHosts \cup {ip}

\* The early returns of addOrUpdate.
Admissible(a) == ~IsSelfAddress(a, publicIp) /\ HostOf[a] \notin edgeIps

\* savePeers: the write lands at once, later, or is lost with its error.
SavePeers ==
    \/ file' = Snapshot' /\ late' = late
    \/ /\ Cardinality(late) < MaxLate
       /\ late' = late \cup {Snapshot'}
       /\ file' = file
    \/ UNCHANGED <<file, late>>

\* An earlier write lands, whatever was written since.
LandWrite ==
    /\ \E s \in late : file' = s /\ late' = late \ {s}
    /\ UNCHANGED <<pool, meta, edgeIps, publicIp, heard>>

\* Mutant: a full pool makes no room.
MutRoom(a) == {pool}

\* At capacity an entry of the lowest score makes room for a new address,
\* before the outcome for that address is looked at.
Room(a) ==
    IF a \in pool \/ Cardinality(pool) < Capacity THEN {pool}
    ELSE {pool \ {b} : b \in {x \in pool : \A y \in pool : meta[x].score <= meta[y].score}}

Current(a, gossip) ==
    IF a \in pool THEN meta[a]
    ELSE [score |-> IF gossip THEN GossipScore ELSE StartScore,
          failures |-> 0, fromGossip |-> gossip]

Evicted(a, mt) ==
    /\ a \notin Bootstrap
    /\ \/ mt.score <= 0
       \/ mt.failures >= MaxFailures
       \/ mt.fromGossip /\ mt.failures >= 1

\* The end of addOrUpdate: a is dropped or stored with its new entry.
Store(a, mt) ==
    \E room \in Room(a) :
        /\ pool' = IF Evicted(a, mt) THEN room \ {a} ELSE room \cup {a}
        /\ meta' = [b \in Addr |-> IF b \notin pool' THEN NoMeta
                                   ELSE IF b = a THEN mt ELSE meta[b]]

\* addOrUpdate(a, true): a connection became ready, an exchange worked, or a
\* LAN beacon came from a.
DirectContact(a) ==
    /\ Admissible(a)
    /\ Store(a, [score |-> StartScore, failures |-> 0, fromGossip |-> FALSE])
    /\ SavePeers
    /\ heard' = heard \cup {a}
    /\ UNCHANGED <<edgeIps, publicIp>>

\* Mutant: gossip refreshes a known address like a new one.
MutGossipKnown(a) ==
    /\ Admissible(a)
    /\ a \in pool
    /\ Store(a, [score |-> GossipScore, failures |-> 0, fromGossip |-> TRUE])
    /\ SavePeers
    /\ UNCHANGED <<edgeIps, publicIp, heard>>

\* addOrUpdate(a, true, true) of a known address only dates it.
GossipKnown(a) ==
    /\ Admissible(a)
    /\ a \in pool
    /\ UNCHANGED <<pool, meta>>
    /\ SavePeers
    /\ UNCHANGED <<edgeIps, publicIp, heard>>

\* Mutant: a gossiped address gets the score of a direct contact.
MutGossipNew(a) ==
    /\ Admissible(a)
    /\ a \notin pool
    /\ Store(a, [score |-> StartScore, failures |-> 0, fromGossip |-> TRUE])
    /\ SavePeers
    /\ UNCHANGED <<edgeIps, publicIp, heard>>

GossipNew(a) ==
    /\ Admissible(a)
    /\ a \notin pool
    /\ Store(a, [score |-> GossipScore, failures |-> 0, fromGossip |-> TRUE])
    /\ SavePeers
    /\ UNCHANGED <<edgeIps, publicIp, heard>>

\* Mutant: a failure raises the score.
MutDirectFailure(a) ==
    LET cur == Current(a, FALSE) IN
    /\ Admissible(a)
    /\ cur.failures < FailureCap
    /\ Store(a, [cur EXCEPT !.score = @ + Penalty, !.failures = @ + 1])
    /\ SavePeers
    /\ UNCHANGED <<edgeIps, publicIp, heard>>

\* addOrUpdate(a, false): a dial or an exchange failed.
DirectFailure(a) ==
    LET cur == Current(a, FALSE) IN
    /\ Admissible(a)
    /\ cur.failures < FailureCap
    /\ Store(a, [cur EXCEPT !.score = @ - Penalty, !.failures = @ + 1])
    /\ SavePeers
    /\ UNCHANGED <<edgeIps, publicIp, heard>>

\* Keep the addresses of S in the pool.
Retain(S) ==
    /\ pool' = S
    /\ meta' = [a \in Addr |-> IF a \in S THEN meta[a] ELSE NoMeta]

\* registerEdgeIp and evictHost; saved only when an address was evicted.
RegisterEdgeIp(h) ==
    /\ edgeIps' = edgeIps \cup {h}
    /\ Retain({a \in pool : HostOf[a] # h})
    /\ IF pool' = pool THEN UNCHANGED <<file, late>> ELSE SavePeers
    /\ UNCHANGED <<publicIp, heard>>

\* Mutant: the pool is not purged of the new own address.
MutSetPublicIp(h) ==
    /\ publicIp' = h
    /\ UNCHANGED <<pool, meta, edgeIps, heard>>
    /\ SavePeers

\* setPublicIp
SetPublicIp(h) ==
    /\ publicIp' = h
    /\ Retain({a \in pool : ~IsSelfAddress(a, h)})
    /\ SavePeers
    /\ UNCHANGED <<edgeIps, heard>>

\* A stop or crash and loadPeers of the next start: writes in flight are
\* lost or cut short, and what is known of edges and of the own address is gone.
Restart ==
    /\ edgeIps' = {}
    /\ publicIp' = NoHost
    /\ late' = {}
    /\ \E f \in {file} \cup (IF late = {} THEN {} ELSE {Torn}) :
         /\ file' = f
         /\ pool' = {a \in f.pool : /\ ~IsSelfAddress(a, NoHost)
                                    /\ f.meta[a].failures < LoadFailures
                                    /\ f.meta[a].score > 0}
         /\ meta' = [a \in Addr |-> IF a \in pool' THEN f.meta[a] ELSE NoMeta]
    /\ heard' = heard

Next ==
    \/ \E a \in Addr : \/ DirectContact(a) \/ GossipKnown(a)
                       \/ GossipNew(a) \/ DirectFailure(a)
    \/ \E h \in Host : RegisterEdgeIp(h) \/ SetPublicIp(h)
    \/ LandWrite
    \/ Restart

Spec == Init /\ [][Next]_vars
-----------------------------------------------------------------------------
(* Properties                                                               *)

\* The pool never outgrows its capacity, also when it is loaded again from
\* a snapshot of another moment.
PoolBound ==
    /\ Cardinality(pool) <= Capacity
    /\ Cardinality(file.pool) <= Capacity
    /\ \A s \in late : Cardinality(s.pool) <= Capacity

\* No address of a registered edge host and no address of the node itself is
\* in the pool, in whatever order contacts, gossip, binds and the discovery
\* of the own address arrive (a late gossip must not bring one back).
PoolClean ==
    \A a \in pool : HostOf[a] \notin edgeIps /\ ~IsSelfAddress(a, publicIp)

\* getRandomSample: what this node passes on to others.
Sample == {a \in pool : meta[a].failures = 0 /\ meta[a].score >= SampleScore}

\* Only addresses this node was itself in contact with are passed on, also
\* after gossip, evictions, stale files and restarts.
SampleHeard == Sample \subseteq heard

\* Gossip never clears what the node itself observed: while an address stays
\* in the pool, its failure counter goes down, or its score up, only with a
\* direct contact (or a restart from an older file).
GossipNeverForgives ==
    [][ \A a \in pool \cap pool' :
          (meta'[a].failures < meta[a].failures \/ meta'[a].score > meta[a].score)
              => DirectContact(a) \/ Restart ]_vars
=============================================================================
