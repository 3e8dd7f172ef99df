---------------------------- MODULE FileProofs -------------------------------
(***************************************************************************)
(* Theorems about the two files a node keeps beside its database.  The     *)
(* lock file: for every number of processes, process ids and crashes.  The *)
(* peers file and the pool it is read into: for every finite set of        *)
(* addresses, every capacity and every scoring.                            *)
(***************************************************************************)
EXTENDS DbLock, PeerManager, FiniteSetTheorems, TLAPS

(* The lock file                                                            *)

\* Processes that are up have ids of their own.
OwnIds == \A p, q \in Process : pc[p] # "down" /\ pc[q] # "down" /\ pid[p] = pid[q] => p = q

\* Nobody has read a file that is not there.
JudgedThere == judged # {} => lock # NoFile

Holding == {"open", "check", "remove"}

\* A process past its start has its lock file in place, with its id in it.
Locked ==
    \A p \in Process :
        /\ pc[p] \in Holding => lock = p /\ text[p] = pid[p]
        /\ pc[p] = "write" => lock = p /\ text[p] = Unreadable

\* Whoever goes by the file that is there knows the id in it, and has seen that
\* the process with that id is gone before removing it.
Sound ==
    \A p \in Process :
        /\ pc[p] = "probe" => seen[p] \in Pid
        /\ pc[p] = "probe" /\ p \in judged => Content = seen[p]
        /\ pc[p] = "unlink" /\ p \in judged =>
              \A q \in Process : pc[q] \notin Holding \cup {"write"}

LockInv == LockTypeOK /\ OwnIds /\ JudgedThere /\ (races # {} \/ (Locked /\ Sound))

LEMMA LockInitHolds == LockInit => LockInv
BY DbLockAssumption
DEF LockInit, LockInv, LockTypeOK, OwnIds, JudgedThere, Locked, Sound, Starting, Stopping, Holding

\* The types hold whatever processes do.
LEMMA LockTypeStep == LockTypeOK /\ [LockNext]_lockVars => LockTypeOK'
<1> SUFFICES ASSUME LockTypeOK, [LockNext]_lockVars
             PROVE  LockTypeOK'
  OBVIOUS
<1> USE DbLockAssumption DEF LockTypeOK, Starting, Stopping, Goto, Replaced
<1>1. ASSUME NEW p \in Process, Start(p) PROVE LockTypeOK'
  BY <1>1 DEF Start
<1>2. ASSUME NEW p \in Process, Create(p) \/ Retry(p) PROVE LockTypeOK'
  BY <1>2 DEF Create, Retry, CreateOr
<1>3. ASSUME NEW p \in Process, Write(p) \/ Close(p) \/ Remove(p) PROVE LockTypeOK'
  BY <1>3 DEF Write, Close, Remove
<1>4. ASSUME NEW p \in Process, Read(p) PROVE LockTypeOK'
  BY <1>4 DEF Read, Content
<1>5. ASSUME NEW p \in Process, Probe(p) \/ Unlink(p) \/ Check(p) PROVE LockTypeOK'
  BY <1>5 DEF Probe, Unlink, Check
<1>6. ASSUME NEW p \in Process, Crash(p) PROVE LockTypeOK'
  BY <1>6 DEF Crash
<1>7. CASE UNCHANGED lockVars
  BY <1>7 DEF lockVars
<1> QED
  BY <1>1, <1>2, <1>3, <1>4, <1>5, <1>6, <1>7 DEF LockNext, Step

\* What holds whether or not a race occurred.
LEMMA IdsStep ==
    LockTypeOK /\ OwnIds /\ JudgedThere /\ [LockNext]_lockVars => OwnIds' /\ JudgedThere'
<1> SUFFICES ASSUME LockTypeOK, OwnIds, JudgedThere, [LockNext]_lockVars
             PROVE  OwnIds' /\ JudgedThere'
  OBVIOUS
<1> USE DbLockAssumption DEF LockTypeOK, OwnIds, JudgedThere, Goto, Replaced
<1>1. ASSUME NEW p \in Process, Start(p) PROVE OwnIds' /\ JudgedThere'
  <2>1. PICK i \in Pid : ~Running(i) /\ pid' = [pid EXCEPT ![p] = i]
    BY <1>1 DEF Start
  <2>2. \A q \in Process : pc[q] # "down" => pid[q] # i
    BY <2>1 DEF Running, Up
  <2>3. pc' = [pc EXCEPT ![p] = "create"] /\ UNCHANGED <<lock, judged>>
    BY <1>1 DEF Start
  <2> QED
    BY <2>1, <2>2, <2>3
<1>2. ASSUME NEW p \in Process, Create(p) \/ Retry(p) PROVE OwnIds' /\ JudgedThere'
  BY <1>2 DEF Create, Retry, CreateOr
<1>3. ASSUME NEW p \in Process, Write(p) \/ Close(p) \/ Check(p) PROVE OwnIds' /\ JudgedThere'
  BY <1>3 DEF Write, Close, Check
<1>4. ASSUME NEW p \in Process, Read(p) PROVE OwnIds' /\ JudgedThere'
  BY <1>4 DEF Read
<1>5. ASSUME NEW p \in Process, Probe(p) PROVE OwnIds' /\ JudgedThere'
  BY <1>5 DEF Probe
<1>6. ASSUME NEW p \in Process, Unlink(p) \/ Remove(p) PROVE OwnIds' /\ JudgedThere'
  BY <1>6 DEF Unlink, Remove
<1>7. ASSUME NEW p \in Process, Crash(p) PROVE OwnIds' /\ JudgedThere'
  BY <1>7 DEF Crash
<1>8. CASE UNCHANGED lockVars
  BY <1>8 DEF lockVars
<1> QED
  BY <1>1, <1>2, <1>3, <1>4, <1>5, <1>6, <1>7, <1>8 DEF LockNext, Step

\* A probe that ends in an unlink has found that the file's owner is gone.
LEMMA ProbeHolds ==
    ASSUME LockInv, races = {}, NEW p \in Process, Probe(p)
    PROVE  Locked' /\ Sound'
<1> USE DbLockAssumption
    DEF LockInv, LockTypeOK, Locked, Sound, Starting, Stopping, Holding, Goto, Probe
<1>1. Locked'
  OBVIOUS
<1>2. ASSUME ~Running(seen[p]), p \in judged, NEW q \in Process
      PROVE  pc[q] \notin Holding \cup {"write"}
  BY <1>2 DEF Content, Running, Up
<1>3. Sound'
  BY <1>2 DEF Content
<1> QED
  BY <1>1, <1>3

\* A read that misses no id judges the file rightly.
LEMMA ReadHolds ==
    ASSUME LockInv, races = {}, NEW p \in Process, Read(p), races' = {}
    PROVE  Locked' /\ Sound'
<1> USE DbLockAssumption
    DEF LockInv, LockTypeOK, JudgedThere, Locked, Sound, Starting, Stopping, Holding, Goto, Read
<1>1. Locked'
  OBVIOUS
<1>2. Content' = Content
  BY DEF Content
<1>3. CASE Content = Unreadable
  <2>1. ASSUME p \in judged', NEW q \in Process
        PROVE  pc[q] \notin Holding \cup {"write"}
    BY <1>3, <2>1 DEF Content
  <2> QED
    BY <1>2, <1>3, <2>1
<1>4. CASE Content # Unreadable
  BY <1>2, <1>4 DEF Content
<1> QED
  BY <1>1, <1>3, <1>4

\* No step without a race takes the lock from a process that holds it.
LEMMA LockStepHolds == LockInv /\ [LockNext]_lockVars => LockInv'
<1> SUFFICES ASSUME LockInv, [LockNext]_lockVars, races' = {}
             PROVE  Locked' /\ Sound'
  BY LockTypeStep, IdsStep DEF LockInv
<1>r. races = {}
  BY DEF LockInv, LockTypeOK, LockNext, Step, lockVars, Start, Create, Retry, CreateOr, Write,
         Read, Probe, Unlink, Close, Check, Remove, Crash
<1> USE <1>r, DbLockAssumption
    DEF LockInv, LockTypeOK, JudgedThere, Locked, Sound, Content, Starting, Stopping, Holding,
        Goto, Replaced
<1>1. ASSUME NEW p \in Process, Start(p) PROVE Locked' /\ Sound'
  BY <1>1 DEF Start
<1>2. ASSUME NEW p \in Process, Create(p) \/ Retry(p) PROVE Locked' /\ Sound'
  BY <1>2 DEF Create, Retry, CreateOr
<1>3. ASSUME NEW p \in Process, Write(p) PROVE Locked' /\ Sound'
  BY <1>3 DEF Write
<1>4. ASSUME NEW p \in Process, Read(p) PROVE Locked' /\ Sound'
  BY <1>4, ReadHolds
<1>5. ASSUME NEW p \in Process, Probe(p) PROVE Locked' /\ Sound'
  BY <1>5, ProbeHolds
<1>6. ASSUME NEW p \in Process, Unlink(p) PROVE Locked' /\ Sound'
  BY <1>6 DEF Unlink
<1>7. ASSUME NEW p \in Process, Close(p) \/ Check(p) PROVE Locked' /\ Sound'
  BY <1>7 DEF Close, Check
<1>8. ASSUME NEW p \in Process, Remove(p) PROVE Locked' /\ Sound'
  BY <1>8 DEF Remove
<1>9. ASSUME NEW p \in Process, Crash(p) PROVE Locked' /\ Sound'
  BY <1>9 DEF Crash
<1>10. CASE UNCHANGED lockVars
  BY <1>10 DEF lockVars
<1> QED
  BY <1>1, <1>2, <1>3, <1>4, <1>5, <1>6, <1>7, <1>8, <1>9, <1>10 DEF LockNext, Step

LEMMA Excludes == LockInv => Exclusive
BY DEF LockInv, Locked, Holding, Exclusive

\* The lock file, what is written to it and what processes have read of it
\* keep their types, with overlapping starts and recurring process ids, too.
THEOREM LockTypeCorrect == LockSpec => []LockTypeOK
<1>1. LockInit => LockTypeOK
  BY DbLockAssumption DEF LockInit, LockTypeOK, Starting
<1> QED
  BY <1>1, LockTypeStep, PTL DEF LockSpec

\* Two processes have the database open at once only after a start read a lock
\* file before the id was in it, or unlinked a file it had not read: no other
\* order of starts, closes and crashes, and no recurring id, leads there.
THEOREM MutualExclusion == LockSpec => []Exclusive
<1> QED
  BY LockInitHolds, LockStepHolds, Excludes, PTL DEF LockSpec
-----------------------------------------------------------------------------
(* The peers file                                                           *)

\* Entries of the pool and of its snapshots are typed.
LEMMA EntriesTyped ==
    /\ NoMeta \in Meta
    /\ Torn \in Snapshots
    /\ \A a \in Addr, g \in BOOLEAN : TypeOK => Current(a, g) \in Meta
<1>1. NoMeta \in Meta
  BY ScoreAssumption DEF NoMeta, Meta, Scores
<1>2. Torn \in Snapshots
  BY <1>1 DEF Torn, Snapshots
<1>3. ASSUME NEW a \in Addr, NEW g \in BOOLEAN, TypeOK PROVE Current(a, g) \in Meta
  BY <1>3, ScoreAssumption DEF Current, Meta, Scores, TypeOK
<1> QED
  BY <1>1, <1>2, <1>3

\* What the end of addOrUpdate leaves in the pool.
LEMMA StoreTyped ==
    ASSUME TypeOK, NEW a \in Addr, NEW mt \in Meta, Store(a, mt)
    PROVE  /\ pool' \subseteq pool \cup {a}
           /\ meta' \in [Addr -> Meta]
<1>1. \A room \in Room(a) : room \subseteq pool
  BY DEF Room
<1> QED
  BY <1>1, EntriesTyped DEF Store, TypeOK

\* A subset of a finite set is finite and no larger.
LEMMA SubsetBounded ==
    ASSUME NEW S, IsFiniteSet(S), NEW T \in SUBSET S, Cardinality(S) <= Capacity
    PROVE  Cardinality(T) <= Capacity
BY FS_Subset, FS_CardinalityType, ScoreAssumption

\* A pool within its capacity stays within it.
LEMMA StoreBounded ==
    ASSUME TypeOK, NEW a \in Addr, NEW mt, Store(a, mt), Cardinality(pool) <= Capacity
    PROVE  Cardinality(pool') <= Capacity
<1>1. IsFiniteSet(pool)
  BY AddrAssumption, FS_Subset DEF TypeOK
<1>2. PICK room \in Room(a) :
        pool' = IF Evicted(a, mt) THEN room \ {a} ELSE room \cup {a}
  BY DEF Store
<1>3. Cardinality(pool) \in Nat /\ Capacity \in Nat \ {0}
  BY <1>1, FS_CardinalityType, ScoreAssumption
<1>4. room \subseteq pool
  BY DEF Room
<1>5. Cardinality(room \ {a}) <= Capacity
  <2>1. room \ {a} \in SUBSET pool
    BY <1>4
  <2> QED
    BY <1>1, <2>1, SubsetBounded
<1>6. CASE a \in pool \/ Cardinality(pool) < Capacity
  <2>1. room = pool
    BY <1>6 DEF Room
  <2>2. Cardinality(pool \cup {a})
          = IF a \in pool THEN Cardinality(pool) ELSE Cardinality(pool) + 1
    BY <1>1, FS_AddElement
  <2>3. Cardinality(pool \cup {a}) <= Capacity
    BY <1>3, <1>6, <2>2
  <2> QED
    BY <1>2, <1>5, <2>1, <2>3
<1>7. CASE ~(a \in pool \/ Cardinality(pool) < Capacity)
  <2>1. PICK b \in pool : room = pool \ {b}
    BY <1>7 DEF Room
  <2>2. IsFiniteSet(room) /\ Cardinality(room) = Cardinality(pool) - 1
    BY <1>1, <2>1, FS_RemoveElement
  <2>3. Cardinality(room \cup {a}) <= Capacity
    BY <1>3, <2>1, <2>2, FS_AddElement
  <2> QED
    BY <1>2, <1>5, <2>3
<1> QED
  BY <1>6, <1>7
-----------------------------------------------------------------------------
\* Every call of addOrUpdate ends in Store with a typed entry, or leaves the
\* pool alone.
LEMMA CallsStore ==
    ASSUME TypeOK, NEW a \in Addr,
           DirectContact(a) \/ GossipKnown(a) \/ GossipNew(a) \/ DirectFailure(a)
    PROVE  /\ Admissible(a)
           /\ SavePeers
           /\ UNCHANGED <<edgeIps, publicIp>>
           /\ \/ UNCHANGED <<pool, meta>>
              \/ \E mt \in Meta : /\ Store(a, mt)
                                  /\ mt.failures = 0 /\ mt.score >= SampleScore => a \in heard'
           /\ heard \subseteq heard' /\ heard' \subseteq heard \cup {a}
<1>1. CASE DirectContact(a)
  <2>1. [score |-> StartScore, failures |-> 0, fromGossip |-> FALSE] \in Meta
    BY ScoreAssumption DEF Meta, Scores
  <2> QED
    BY <1>1, <2>1 DEF DirectContact
<1>2. CASE GossipKnown(a)
  BY <1>2 DEF GossipKnown
<1>3. CASE GossipNew(a)
  <2>1. [score |-> GossipScore, failures |-> 0, fromGossip |-> TRUE] \in Meta
    BY ScoreAssumption DEF Meta, Scores
  <2> QED
    BY <1>3, <2>1, ScoreAssumption DEF GossipNew
<1>4. CASE DirectFailure(a)
  <2> DEFINE cur == Current(a, FALSE)
             mt == [cur EXCEPT !.score = @ - Penalty, !.failures = @ + 1]
  <2>1. cur \in Meta
    BY EntriesTyped
  <2>2. cur.failures < FailureCap
    BY <1>4 DEF DirectFailure
  <2> HIDE DEF cur
  <2>3. mt \in Meta
    <3>1. ASSUME NEW s \in Scores, NEW f \in 0..FailureCap, NEW r \in Meta
          PROVE  [r EXCEPT !.score = s, !.failures = f] \in Meta
      BY <3>1 DEF Meta
    <3>2. cur.score - Penalty \in Scores /\ cur.failures + 1 \in 0..FailureCap
      BY <2>1, <2>2, ScoreAssumption DEF Meta, Scores
    <3> QED
      BY <2>1, <3>1, <3>2 DEF Meta
  <2>4. Store(a, mt)
    BY <1>4 DEF DirectFailure, cur
  <2>5. mt.failures # 0
    BY <2>1, ScoreAssumption DEF Meta
  <2> QED
    BY <1>4, <2>3, <2>4, <2>5 DEF DirectFailure
<1> QED
  BY <1>1, <1>2, <1>3, <1>4

\* SavePeers keeps every property of snapshots that the new pool has.
LEMMA SaveKeeps ==
    ASSUME SavePeers, NEW S, Snapshot' \in S, file \in S, late \subseteq S
    PROVE  file' \in S /\ late' \subseteq S
BY DEF SavePeers

\* The pool, the file and the writes in flight are typed, and no score
\* exceeds that of a direct contact.
THEOREM TypeCorrect == Spec => []TypeOK
<1>1. Init => TypeOK
  BY EntriesTyped DEF Init, TypeOK
<1>2. TypeOK /\ [Next]_vars => TypeOK'
  <2> SUFFICES ASSUME TypeOK, [Next]_vars PROVE TypeOK'
    OBVIOUS
  <2>1. ASSUME NEW a \in Addr,
               DirectContact(a) \/ GossipKnown(a) \/ GossipNew(a) \/ DirectFailure(a)
        PROVE  TypeOK'
    <3>1. pool' \subseteq Addr /\ meta' \in [Addr -> Meta]
      BY <2>1, CallsStore, StoreTyped DEF TypeOK
    <3>2. Snapshot' \in Snapshots
      BY <3>1 DEF Snapshot, Snapshots
    <3>3. file' \in Snapshots /\ late' \subseteq Snapshots
      BY <2>1, <3>2, CallsStore, SaveKeeps DEF TypeOK
    <3> QED
      BY <2>1, <3>1, <3>3, CallsStore DEF TypeOK
  <2>2. ASSUME NEW h \in Host, RegisterEdgeIp(h) PROVE TypeOK'
    <3>1. pool' \subseteq Addr /\ meta' \in [Addr -> Meta]
      BY <2>2, EntriesTyped DEF RegisterEdgeIp, Retain, TypeOK
    <3>2. Snapshot' \in Snapshots
      BY <3>1 DEF Snapshot, Snapshots
    <3>3. file' \in Snapshots /\ late' \subseteq Snapshots
      BY <2>2, <3>2, SaveKeeps DEF RegisterEdgeIp, TypeOK
    <3> QED
      BY <2>2, <3>1, <3>3 DEF RegisterEdgeIp, TypeOK
  <2>3. ASSUME NEW h \in Host, SetPublicIp(h) PROVE TypeOK'
    <3>1. pool' \subseteq Addr /\ meta' \in [Addr -> Meta]
      BY <2>3, EntriesTyped DEF SetPublicIp, Retain, TypeOK
    <3>2. Snapshot' \in Snapshots
      BY <3>1 DEF Snapshot, Snapshots
    <3>3. file' \in Snapshots /\ late' \subseteq Snapshots
      BY <2>3, <3>2, SaveKeeps DEF SetPublicIp, TypeOK
    <3> QED
      BY <2>3, <3>1, <3>3 DEF SetPublicIp, TypeOK
  <2>4. CASE LandWrite
    BY <2>4 DEF LandWrite, TypeOK
  <2>5. CASE Restart
    <3>1. PICK f \in {file} \cup (IF late = {} THEN {} ELSE {Torn}) :
            /\ file' = f
            /\ pool' = {a \in f.pool : /\ ~IsSelfAddress(a, NoHost)
                                       /\ f.meta[a].failures < LoadFailures
                                       /\ f.meta[a].score > 0}
            /\ meta' = [a \in Addr |-> IF a \in pool' THEN f.meta[a] ELSE NoMeta]
      BY <2>5 DEF Restart
    <3>2. f \in Snapshots
      BY EntriesTyped DEF TypeOK
    <3>3. pool' \subseteq Addr /\ meta' \in [Addr -> Meta]
      BY <3>1, <3>2, EntriesTyped DEF Snapshots
    <3> QED
      BY <2>5, <3>1, <3>2, <3>3 DEF Restart, TypeOK
  <2>6. CASE UNCHANGED vars
    BY <2>6 DEF vars, TypeOK
  <2> QED
    BY <2>1, <2>2, <2>3, <2>4, <2>5, <2>6 DEF Next
<1> QED
  BY <1>1, <1>2, PTL DEF Spec
-----------------------------------------------------------------------------
\* Snapshots within the capacity.
Bounded == {s \in Snapshots : Cardinality(s.pool) <= Capacity}

\* The pool and every copy of it stay within the capacity, whichever entry
\* makes room and whichever snapshot a restart finds.
THEOREM PoolStaysBounded == Spec => []PoolBound
<1>1. Init => PoolBound
  BY FS_EmptySet, ScoreAssumption DEF Init, PoolBound, Torn
<1>2. TypeOK /\ TypeOK' /\ PoolBound /\ [Next]_vars => PoolBound'
  <2> SUFFICES ASSUME TypeOK, TypeOK', PoolBound, [Next]_vars PROVE PoolBound'
    OBVIOUS
  <2>1. IsFiniteSet(pool) /\ IsFiniteSet(file.pool)
    BY AddrAssumption, FS_Subset DEF TypeOK, Snapshots
  <2>2. file \in Bounded /\ late \subseteq Bounded
    BY DEF TypeOK, PoolBound, Bounded
  <2>3. ASSUME Cardinality(pool') <= Capacity, SavePeers PROVE PoolBound'
    <3>1. Snapshot' \in Bounded
      BY <2>3 DEF Snapshot, Snapshots, Bounded, TypeOK
    <3>2. file' \in Bounded /\ late' \subseteq Bounded
      BY <2>2, <2>3, <3>1, SaveKeeps
    <3> QED
      BY <2>3, <3>2 DEF PoolBound, Bounded
  <2>4. ASSUME NEW a \in Addr,
               DirectContact(a) \/ GossipKnown(a) \/ GossipNew(a) \/ DirectFailure(a)
        PROVE  PoolBound'
    <3>1. Cardinality(pool') <= Capacity
      BY <2>4, CallsStore, StoreBounded DEF PoolBound
    <3> QED
      BY <2>3, <2>4, <3>1, CallsStore
  <2>5. ASSUME NEW h \in Host, RegisterEdgeIp(h) \/ SetPublicIp(h) PROVE PoolBound'
    <3>1. pool' \in SUBSET pool
      BY <2>5 DEF RegisterEdgeIp, SetPublicIp, Retain
    <3>2. Cardinality(pool') <= Capacity
      BY <2>1, <3>1, SubsetBounded DEF PoolBound
    <3>3. SavePeers \/ UNCHANGED <<file, late>>
      BY <2>5 DEF RegisterEdgeIp, SetPublicIp
    <3> QED
      BY <2>3, <3>2, <3>3 DEF PoolBound
  <2>6. CASE LandWrite
    BY <2>6 DEF LandWrite, PoolBound
  <2>7. CASE Restart
    <3>1. PICK f \in {file} \cup (IF late = {} THEN {} ELSE {Torn}) :
            file' = f /\ pool' \subseteq f.pool
      BY <2>7 DEF Restart
    <3>2. IsFiniteSet(f.pool) /\ Cardinality(f.pool) <= Capacity
      <4>1. CASE f = file
        BY <2>1, <4>1 DEF PoolBound
      <4>2. CASE f = Torn
        <5>1. f.pool = {}
          BY <4>2 DEF Torn
        <5> QED
          BY <5>1, FS_EmptySet, ScoreAssumption
      <4> QED
        BY <4>1, <4>2
    <3>3. Cardinality(pool') <= Capacity
      BY <3>1, <3>2, SubsetBounded
    <3> QED
      BY <2>7, <3>1, <3>2, <3>3 DEF Restart, PoolBound
  <2>8. CASE UNCHANGED vars
    BY <2>8 DEF vars, PoolBound
  <2> QED
    BY <2>4, <2>5, <2>6, <2>7, <2>8 DEF Next
<1> QED
  BY <1>1, <1>2, TypeCorrect, PTL DEF Spec

\* No address of an edge host or of the node itself comes back into the pool.
THEOREM PoolStaysClean == Spec => []PoolClean
<1>1. Init => PoolClean
  BY DEF Init, PoolClean
<1>2. TypeOK /\ PoolClean /\ [Next]_vars => PoolClean'
  <2> SUFFICES ASSUME TypeOK, PoolClean, [Next]_vars PROVE PoolClean'
    OBVIOUS
  <2>1. ASSUME NEW a \in Addr,
               DirectContact(a) \/ GossipKnown(a) \/ GossipNew(a) \/ DirectFailure(a)
        PROVE  PoolClean'
    <3>1. pool' \subseteq pool \cup {a} /\ Admissible(a) /\ UNCHANGED <<edgeIps, publicIp>>
      BY <2>1, CallsStore, StoreTyped
    <3> QED
      BY <3>1 DEF PoolClean, Admissible, IsSelfAddress
  <2>2. ASSUME NEW h \in Host, RegisterEdgeIp(h) PROVE PoolClean'
    BY <2>2 DEF RegisterEdgeIp, Retain, PoolClean, IsSelfAddress
  <2>3. ASSUME NEW h \in Host, SetPublicIp(h) PROVE PoolClean'
    BY <2>3 DEF SetPublicIp, Retain, PoolClean, IsSelfAddress
  <2>4. CASE LandWrite
    BY <2>4 DEF LandWrite, PoolClean, IsSelfAddress
  <2>5. CASE Restart
    BY <2>5 DEF Restart, PoolClean, IsSelfAddress
  <2>6. CASE UNCHANGED vars
    BY <2>6 DEF vars, PoolClean, IsSelfAddress
  <2> QED
    BY <2>1, <2>2, <2>3, <2>4, <2>5, <2>6 DEF Next
<1> QED
  BY <1>1, <1>2, TypeCorrect, PTL DEF Spec
-----------------------------------------------------------------------------
\* What would be passed on from snapshot s, given the contacts H.
Vouched(s, H) ==
    \A a \in s.pool :
        s.meta[a].failures = 0 /\ s.meta[a].score >= SampleScore => a \in H

\* The inductive form of SampleHeard: it holds of the pool, of the file and of
\* every write in flight, since a restart may load any of them.
VouchedEverywhere ==
    /\ Vouched(Snapshot, heard)
    /\ Vouched(file, heard)
    /\ \A s \in late : Vouched(s, heard)

\* A pool whose entries come from the old one, but for a contact, is vouched for.
LEMMA StoreVouched ==
    ASSUME TypeOK, NEW a \in Addr, NEW mt \in Meta, Store(a, mt),
           NEW H, Vouched(Snapshot, heard), heard \subseteq H,
           mt.failures = 0 /\ mt.score >= SampleScore => a \in H
    PROVE  Vouched(Snapshot', H)
<1>1. /\ pool' \subseteq pool \cup {a}
      /\ pool' \subseteq Addr
  BY StoreTyped DEF TypeOK
<1>2. meta' = [b \in Addr |-> IF b \notin pool' THEN NoMeta
                              ELSE IF b = a THEN mt ELSE meta[b]]
  BY DEF Store
<1>3. \A b \in pool' : meta'[b] = IF b = a THEN mt ELSE meta[b]
  BY <1>1, <1>2
<1> QED
  BY <1>1, <1>3 DEF Vouched, Snapshot

\* Only addresses this node was itself in contact with are passed on.
THEOREM OnlyHeardShared == Spec => []SampleHeard
<1>1. Init => VouchedEverywhere
  BY DEF Init, VouchedEverywhere, Vouched, Snapshot, Torn
<1>2. TypeOK /\ VouchedEverywhere /\ [Next]_vars => VouchedEverywhere'
  <2> SUFFICES ASSUME TypeOK, VouchedEverywhere, [Next]_vars PROVE VouchedEverywhere'
    OBVIOUS
  <2>1. ASSUME Vouched(Snapshot', heard'), SavePeers, heard \subseteq heard'
        PROVE  VouchedEverywhere'
    <3>1. Vouched(file, heard') /\ \A s \in late : Vouched(s, heard')
      BY <2>1 DEF VouchedEverywhere, Vouched
    <3>2. file' = Snapshot' \/ file' = file
      BY <2>1 DEF SavePeers
    <3>3. \A s \in late' : s = Snapshot' \/ s \in late
      BY <2>1 DEF SavePeers
    <3>4. Vouched(file', heard')
      BY <2>1, <3>1, <3>2
    <3>5. \A s \in late' : Vouched(s, heard')
      BY <2>1, <3>1, <3>3
    <3> QED
      BY <2>1, <3>4, <3>5 DEF VouchedEverywhere, Vouched, Snapshot
  <2>2. ASSUME NEW a \in Addr,
               DirectContact(a) \/ GossipKnown(a) \/ GossipNew(a) \/ DirectFailure(a)
        PROVE  VouchedEverywhere'
    <3>1. SavePeers /\ heard \subseteq heard'
      BY <2>2, CallsStore
    <3>2. CASE UNCHANGED <<pool, meta>>
      <4>1. Vouched(Snapshot', heard')
        BY <3>1, <3>2 DEF VouchedEverywhere, Vouched, Snapshot
      <4> QED
        BY <2>1, <3>1, <4>1
    <3>3. CASE ~ UNCHANGED <<pool, meta>>
      <4>1. PICK mt \in Meta :
              /\ Store(a, mt)
              /\ mt.failures = 0 /\ mt.score >= SampleScore => a \in heard'
        BY <2>2, <3>3, CallsStore
      <4>2. Vouched(Snapshot', heard')
        BY <3>1, <4>1, StoreVouched DEF VouchedEverywhere
      <4> QED
        BY <2>1, <3>1, <4>2
    <3> QED
      BY <3>2, <3>3
  <2>3. ASSUME NEW h \in Host, RegisterEdgeIp(h) \/ SetPublicIp(h)
        PROVE  VouchedEverywhere'
    <3>1. /\ pool' \subseteq pool /\ pool \subseteq Addr
          /\ meta' = [a \in Addr |-> IF a \in pool' THEN meta[a] ELSE NoMeta]
          /\ heard' = heard
      BY <2>3 DEF RegisterEdgeIp, SetPublicIp, Retain, TypeOK
    <3>2. \A a \in pool' : meta'[a] = meta[a]
      BY <3>1
    <3>3. Vouched(Snapshot', heard')
      BY <3>1, <3>2 DEF VouchedEverywhere, Vouched, Snapshot
    <3>4. SavePeers \/ UNCHANGED <<file, late>>
      BY <2>3 DEF RegisterEdgeIp, SetPublicIp
    <3>5. CASE UNCHANGED <<file, late>>
      BY <3>1, <3>3, <3>5 DEF VouchedEverywhere, Vouched, Snapshot
    <3> QED
      BY <2>1, <3>1, <3>3, <3>4, <3>5
  <2>4. CASE LandWrite
    BY <2>4 DEF LandWrite, VouchedEverywhere, Vouched, Snapshot
  <2>5. CASE Restart
    <3>1. PICK f \in {file} \cup (IF late = {} THEN {} ELSE {Torn}) :
            /\ file' = f
            /\ pool' \subseteq f.pool
            /\ meta' = [a \in Addr |-> IF a \in pool' THEN f.meta[a] ELSE NoMeta]
      BY <2>5 DEF Restart
    <3>2. heard' = heard /\ late' = {}
      BY <2>5 DEF Restart
    <3>3. Vouched(f, heard)
      BY DEF VouchedEverywhere, Vouched, Torn
    <3>4. f.pool \subseteq Addr
      BY EntriesTyped DEF TypeOK, Snapshots
    <3>5. \A a \in pool' : meta'[a] = f.meta[a]
      BY <3>1, <3>4
    <3>6. Vouched(Snapshot', heard')
      BY <3>1, <3>2, <3>3, <3>5 DEF Vouched, Snapshot
    <3> QED
      BY <3>1, <3>2, <3>3, <3>6 DEF VouchedEverywhere, Vouched, Snapshot
  <2>6. CASE UNCHANGED vars
    BY <2>6 DEF vars, VouchedEverywhere, Vouched, Snapshot
  <2> QED
    BY <2>2, <2>3, <2>4, <2>5, <2>6 DEF Next
<1>3. VouchedEverywhere => SampleHeard
  BY DEF VouchedEverywhere, Vouched, Snapshot, SampleHeard, Sample
<1> QED
  BY <1>1, <1>2, <1>3, TypeCorrect, PTL DEF Spec
-----------------------------------------------------------------------------
\* Storing an entry for one address leaves those of the others as they are.
LEMMA StoreKeepsOthers ==
    ASSUME TypeOK, NEW a \in Addr, NEW mt, Store(a, mt), NEW b \in pool \cap pool'
    PROVE  meta'[b] = IF b = a THEN mt ELSE meta[b]
BY DEF Store, TypeOK

\* What is neither worse in its score nor cleared of a failure.
Forgiven(b) == meta'[b].failures < meta[b].failures \/ meta'[b].score > meta[b].score

LEMMA SameNotForgiven == ASSUME TypeOK, NEW b \in Addr, meta'[b] = meta[b] PROVE ~Forgiven(b)
<1>1. meta[b].failures \in Int /\ meta[b].score \in Int
  BY DEF TypeOK, Meta, Scores
<1> QED
  BY <1>1 DEF Forgiven

\* A failure lowers the score of its address and counts.
LEMMA FailureNotForgiven ==
    ASSUME TypeOK, NEW a \in Addr, DirectFailure(a), NEW b \in pool \cap pool'
    PROVE  ~Forgiven(b)
<1>1. b \in Addr
  BY DEF TypeOK
<1>2. CASE b # a
  BY <1>1, <1>2, StoreKeepsOthers, SameNotForgiven DEF DirectFailure
<1>3. CASE b = a
  <2>1. Current(a, FALSE) = meta[a] /\ meta[a] \in Meta
    BY <1>3, <1>1 DEF Current, TypeOK
  <2>2. Store(a, [meta[a] EXCEPT !.score = @ - Penalty, !.failures = @ + 1])
    BY <2>1 DEF DirectFailure
  <2>3. meta'[a] = [meta[a] EXCEPT !.score = @ - Penalty, !.failures = @ + 1]
    BY <1>3, <2>2, StoreKeepsOthers
  <2>4. meta'[a].score = meta[a].score - Penalty /\ meta'[a].failures = meta[a].failures + 1
    BY <2>1, <2>3 DEF Meta
  <2>5. meta[a].score \in Int /\ meta[a].failures \in Int
    BY <2>1 DEF Meta, Scores
  <2> QED
    BY <1>3, <2>4, <2>5, ScoreAssumption DEF Forgiven
<1> QED
  BY <1>2, <1>3

\* Gossip, own failures, late writes, edge hosts and the discovery of the own
\* address never clear an address of a failure and never raise its score.
THEOREM ObservedStands == Spec => GossipNeverForgives
<1>1. TypeOK /\ [Next]_vars =>
        \A b \in pool \cap pool' : Forgiven(b) => DirectContact(b) \/ Restart
  <2> SUFFICES ASSUME TypeOK, [Next]_vars, NEW b \in pool \cap pool', Forgiven(b)
               PROVE  DirectContact(b) \/ Restart
    OBVIOUS
  <2> b \in Addr
    BY DEF TypeOK
  <2>1. meta'[b] # meta[b]
    BY SameNotForgiven
  <2>2. ASSUME NEW a \in Addr, DirectContact(a) PROVE DirectContact(b)
    BY <2>1, <2>2, StoreKeepsOthers DEF DirectContact
  <2>3. ASSUME NEW a \in Addr, GossipKnown(a) PROVE FALSE
    BY <2>1, <2>3 DEF GossipKnown
  <2>4. ASSUME NEW a \in Addr, GossipNew(a) PROVE FALSE
    BY <2>1, <2>4, StoreKeepsOthers DEF GossipNew
  <2>5. ASSUME NEW a \in Addr, DirectFailure(a) PROVE FALSE
    BY <2>5, FailureNotForgiven
  <2>6. ASSUME NEW h \in Host, RegisterEdgeIp(h) \/ SetPublicIp(h) PROVE FALSE
    BY <2>1, <2>6 DEF RegisterEdgeIp, SetPublicIp, Retain
  <2>7. CASE LandWrite
    BY <2>1, <2>7 DEF LandWrite
  <2>8. CASE UNCHANGED vars
    BY <2>1, <2>8 DEF vars
  <2> QED
    BY <2>2, <2>3, <2>4, <2>5, <2>6, <2>7, <2>8 DEF Next
<1>2. TypeOK /\ [Next]_vars =>
        [\A a \in pool \cap pool' :
            (meta'[a].failures < meta[a].failures \/ meta'[a].score > meta[a].score)
                => DirectContact(a) \/ Restart]_vars
  BY <1>1 DEF Forgiven
<1> QED
  BY <1>2, TypeCorrect, PTL DEF Spec, GossipNeverForgives
=============================================================================
