---------------------------- MODULE OutboxProofs ----------------------------
(***************************************************************************)
(* Theorems about Outbox for every set of messages, every set of forced    *)
(* runs and every value of the limits.                                     *)
(***************************************************************************)
EXTENDS Outbox, TLAPS

\* The values rows and runs start from are typed.
LEMMA FreshTyped == FreshRow \in Rows /\ IdleRun \in RunStates
  BY LimitsAssumption DEF FreshRow, Rows, IdleRun, RunStates

\* The four table operations keep the table well typed.
LEMMA TableOps ==
    ASSUME NEW m \in Msgs, TypeOK
    PROVE  /\ QueueOutbox(m) \/ RemoveOutbox(m) \/ UpdateOutboxRetry(m)
                  \/ RetryRow(m, FreshRow) =>
                /\ spool' \subseteq Msgs
                /\ row' \in [Msgs -> Rows]
                /\ expired' \subseteq Msgs
           /\ QueueOutbox(m) => spool' = spool \cup {m} /\ expired' = expired
           /\ RemoveOutbox(m) => spool' = spool \ {m} /\ expired' = expired
           /\ RetryRow(m, FreshRow) =>
                \/ spool' = spool \ {m} /\ expired' = expired \cup {m}
                \/ spool' = spool \cup {m} /\ expired' = expired
           /\ UpdateOutboxRetry(m) =>
                \/ m \in spool /\ spool' = spool \ {m} /\ expired' = expired \cup {m}
                \/ spool' = spool /\ expired' = expired
<1>1. FreshRow \in Rows
  BY LimitsAssumption DEF FreshRow, Rows
<1>2. ASSUME NEW r \in Rows, ~GivesUp(r)
      PROVE  BackedOff(r) \in Rows
  <2>1. r.retries \in Nat /\ r.retries + 1 \in 1..MaxRetries
    BY <1>2, LimitsAssumption DEF GivesUp, Rows
  <2>2. Backoff[r.retries + 1] \in Nat
    BY <2>1, LimitsAssumption
  <2>3. r.retries + 1 \in 0..(MaxRetries - 1)
    BY <1>2, <2>1, LimitsAssumption DEF GivesUp
  <2> QED
    BY <2>2, <2>3 DEF BackedOff, Rows
<1>3. row[m] \in Rows
  BY DEF TypeOK
<1>4. ASSUME NEW r \in Rows, RetryRow(m, r)
      PROVE  /\ spool' \subseteq Msgs
             /\ row' \in [Msgs -> Rows]
             /\ expired' \subseteq Msgs
  BY <1>1, <1>2, <1>4 DEF RetryRow, TypeOK
<1>5. QueueOutbox(m) \/ RemoveOutbox(m) => row' \in [Msgs -> Rows]
  BY <1>1 DEF QueueOutbox, RemoveOutbox, TypeOK
<1> QED
  BY <1>1, <1>3, <1>4, <1>5
  DEF QueueOutbox, RemoveOutbox, UpdateOutboxRetry, RetryRow, TypeOK, ovars

LEMMA InitTypeOK == Init => TypeOK
<1>1. ASSUME Init PROVE path \in [Targets -> PathKinds]
  BY <1>1 DEF Init, PathKinds
<1>2. ASSUME Init PROVE crashes \in 0..MaxCrashes
  BY <1>2, LimitsAssumption DEF Init
<1> QED
  BY <1>1, <1>2, FreshTyped DEF Init, TypeOK

LEMMA StartRunTypeOK ==
    ASSUME TypeOK, NEW r \in Runs, NEW f \in BOOLEAN, StartRun(r, f)
    PROVE  /\ spool' \subseteq Msgs
           /\ row' \in [Msgs -> Rows]
           /\ expired' \subseteq Msgs
           /\ run' \in [Runs -> RunStates]
           /\ cleanDue' \in BOOLEAN
<1>1. FreshRow \in Rows
  BY LimitsAssumption DEF FreshRow, Rows
<1>2. Cleaned \subseteq Msgs
  BY DEF TypeOK, Cleaned, StaleRows
<1>3. row' \in [Msgs -> Rows]
  BY <1>1 DEF StartRun, TypeOK
<1>4. PICK batch \in Batches({m \in spool \ Cleaned : f \/ row[m].wait = 0}) :
        run' = [run EXCEPT ![r] = [phase |-> "running", todo |-> batch,
                                   item |-> NoMsg]]
  BY DEF StartRun
<1>5. batch \subseteq Msgs
  BY DEF Batches, TypeOK
<1>6. run' \in [Runs -> RunStates]
  BY <1>4, <1>5 DEF TypeOK, RunStates
<1> QED
  BY <1>2, <1>3, <1>6 DEF StartRun, TypeOK

LEMMA NextTypeOK == TypeOK /\ [Next]_vars => TypeOK'
<1> SUFFICES ASSUME TypeOK, [Next]_vars PROVE TypeOK'
  OBVIOUS
<1>1. ASSUME NEW m \in Msgs,
             FanOut(m) \/ SendRemoteMessage(m) \/ CallSent(m) \/ CallFailed(m)
      PROVE  TypeOK'
  <2>1. CASE FanOut(m) \/ CallSent(m)
    BY <2>1 DEF TypeOK, FanOut, CallSent, ovars
  <2>2. CASE CallFailed(m)
    BY <2>2, TableOps DEF TypeOK, CallFailed
  <2>3. CASE SendRemoteMessage(m)
    BY <2>3, TableOps DEF TypeOK, SendRemoteMessage, ovars
  <2> QED
    BY <1>1, <2>1, <2>2, <2>3
<1>2. CASE StartWorker
  BY <1>2, StartRunTypeOK DEF StartWorker, StartRun, TypeOK, Runs
<1>3. ASSUME NEW r \in Flushes, StartFlush(r) PROVE TypeOK'
  BY <1>3, StartRunTypeOK DEF StartFlush, StartRun, TypeOK, Runs
<1>4. ASSUME NEW r \in Runs, ItemStep(r) PROVE TypeOK'
  <2>1. ASSUME NEW m \in Msgs,
               \/ ItemDelivered(r, m) \/ ItemRequeued(r, m)
               \/ ItemUnroutable(r, m) \/ ItemAwaited(r, m)
        PROVE  TypeOK'
    <3>1. run' \in [Runs -> RunStates]
      BY <2>1 DEF RunStates, TypeOK, ItemDelivered, ItemRequeued, ItemUnroutable,
                  ItemAwaited, Take
    <3> QED
      BY <2>1, <3>1, TableOps
      DEF TypeOK, ItemDelivered, ItemRequeued, ItemUnroutable, ItemAwaited,
          NextItem, ovars
  <2>2. CASE ItemSent(r) \/ ItemFailed(r)
    <3>1. run[r].item \in Msgs
      BY <2>2 DEF TypeOK, RunStates, ItemSent, ItemFailed
    <3>2. run' \in [Runs -> RunStates]
      BY <2>2 DEF TypeOK, RunStates, ItemSent, ItemFailed
    <3> QED
      BY <2>2, <3>1, <3>2, TableOps DEF TypeOK, ItemSent, ItemFailed
  <2>3. CASE FinishRun(r)
    BY <2>3, FreshTyped DEF TypeOK, FinishRun, ovars
  <2> QED
    BY <1>4, <2>1, <2>2, <2>3 DEF ItemStep, RunStep
<1>5. ASSUME NEW t \in Targets, NEW k \in Kinds[t], NEW r \in Flushes,
             LearnRoute(t, k, r)
      PROVE  TypeOK'
  <2>1. row' \in [Msgs -> Rows]
    <3>1. ASSUME NEW x \in Rows
          PROVE  [x EXCEPT !.retries = 0, !.wait = 0] \in Rows
      <4>1. 0 \in 0..(MaxRetries - 1)
        BY LimitsAssumption
      <4> QED
        BY <4>1 DEF Rows
    <3> QED
      BY <1>5, <3>1 DEF LearnRoute, ResetOutboxForTarget, TypeOK
  <2>2. run' \in [Runs -> RunStates]
    BY <1>5 DEF LearnRoute, TypeOK, RunStates, Runs
  <2>3. path' \in [Targets -> PathKinds]
    BY <1>5, MsgsAssumption DEF LearnRoute, TypeOK
  <2> QED
    BY <1>5, <2>1, <2>2, <2>3 DEF LearnRoute, TypeOK
<1>6. ASSUME NEW t \in Targets, NEW k \in Kinds[t], ChangePath(t, k)
      PROVE  TypeOK'
  BY <1>6, MsgsAssumption DEF ChangePath, TypeOK, ovars
<1>7. CASE Tick
  <2>1. ASSUME NEW r \in Rows
        PROVE  [r EXCEPT !.wait = IF @ = 0 THEN 0 ELSE @ - 1,
                         !.age = IF @ > Ttl THEN @ ELSE @ + 1] \in Rows
    <3>1. /\ (IF r.wait = 0 THEN 0 ELSE r.wait - 1) \in Nat
          /\ (IF r.age > Ttl THEN r.age ELSE r.age + 1) \in 0..(Ttl + 1)
      BY LimitsAssumption DEF Rows
    <3> QED
      BY <3>1 DEF Rows
  <2>2. row' \in [Msgs -> Rows]
    BY <1>7, <2>1 DEF Tick, TypeOK
  <2> QED
    BY <1>7, <2>2 DEF Tick, TypeOK
<1>8. CASE Crash
  <2>1. crashes' \in 0..MaxCrashes
    BY <1>8, LimitsAssumption DEF Crash, TypeOK
  <2> QED
    BY <1>8, <2>1, FreshTyped DEF Crash, TypeOK, ovars
<1>9. CASE UNCHANGED vars
  BY <1>9 DEF TypeOK, vars
<1> QED
  BY <1>1, <1>2, <1>3, <1>4, <1>5, <1>6, <1>7, <1>8, <1>9 DEF Next

\* Type correctness: in particular the retry counter of a row stays below
\* OUTBOX_MAX_RETRIES and its age below the limit, whatever the runs do.
THEOREM TypeCorrect == Spec => []TypeOK
  BY InitTypeOK, NextTypeOK, PTL DEF Spec
-----------------------------------------------------------------------------
\* A run only handles messages that were handed over, and no message is both
\* in its first call and in the spool or a run.
InHand(r) == run[r].todo \cup ({run[r].item} \ {NoMsg})

RunsHandleUsed == \A r \in Runs : InHand(r) \subseteq used

CallsApart == calls \cap spool = {} /\ \A r \in Runs : calls \cap InHand(r) = {}

IInv == TypeOK /\ NoSilentLoss /\ RunsHandleUsed /\ CallsApart

\* What a step may change in the hand of a run.
LEMMA HandOfStep ==
    ASSUME TypeOK, NEW r \in Runs, ItemStep(r)
    PROVE  \A q \in Runs : InHand(q)' \subseteq InHand(q)
<1>1. ASSUME NEW q \in Runs, q # r PROVE InHand(q)' = InHand(q)
  BY <1>1 DEF ItemStep, RunStep, ItemDelivered, ItemRequeued, ItemUnroutable,
              ItemAwaited, Take, ItemSent, ItemFailed, FinishRun, InHand, TypeOK
<1>2. ASSUME NEW m \in Msgs, NEW i \in {m, NoMsg}, m \in run[r].todo, Take(r, m, i)
      PROVE  InHand(r)' \subseteq InHand(r)
  BY <1>2, MsgsAssumption DEF Take, InHand, TypeOK, RunStates
<1>3. ASSUME NEW m \in Msgs,
             \/ ItemDelivered(r, m) \/ ItemRequeued(r, m)
             \/ ItemUnroutable(r, m) \/ ItemAwaited(r, m)
      PROVE  InHand(r)' \subseteq InHand(r)
  <2>1. m \in run[r].todo /\ (Take(r, m, NoMsg) \/ Take(r, m, m))
    BY <1>3 DEF ItemDelivered, ItemRequeued, ItemUnroutable, ItemAwaited, NextItem
  <2> QED
    BY <1>2, <2>1
<1>4. ASSUME ItemSent(r) \/ ItemFailed(r) PROVE InHand(r)' \subseteq InHand(r)
  BY <1>4 DEF ItemSent, ItemFailed, InHand, TypeOK, RunStates
<1>5. ASSUME FinishRun(r) PROVE InHand(r)' \subseteq InHand(r)
  <2>1. run'[r] = [phase |-> "idle", todo |-> {}, item |-> NoMsg]
    BY <1>5 DEF FinishRun, IdleRun, TypeOK, RunStates
  <2>2. run'[r].todo = {} /\ run'[r].item = NoMsg
    BY <2>1
  <2> QED
    BY <2>2 DEF InHand
<1> QED
  <2>1. InHand(r)' \subseteq InHand(r)
    BY <1>3, <1>4, <1>5 DEF ItemStep, RunStep
  <2> QED
    BY <1>1, <2>1

LEMMA InitIInv == Init => IInv
  BY InitTypeOK
  DEF Init, IInv, NoSilentLoss, RunsHandleUsed, CallsApart, InHand, IdleRun

LEMMA NextIInv == IInv /\ [Next]_vars => IInv'
<1> SUFFICES ASSUME IInv, [Next]_vars
             PROVE  NoSilentLoss' /\ RunsHandleUsed' /\ CallsApart'
  BY NextTypeOK DEF IInv
<1> USE DEF IInv
<1>0. TypeOK
  OBVIOUS
<1>1. ASSUME NEW m \in Msgs,
             FanOut(m) \/ SendRemoteMessage(m) \/ CallSent(m) \/ CallFailed(m)
      PROVE  NoSilentLoss' /\ RunsHandleUsed' /\ CallsApart'
  <2>1. \A q \in Runs : InHand(q)' = InHand(q)
    BY <1>1 DEF FanOut, SendRemoteMessage, CallSent, CallFailed, InHand
  <2>2. NoSilentLoss'
    BY <1>1, TableOps DEF FanOut, SendRemoteMessage, CallSent, CallFailed,
                          NoSilentLoss, ovars
  <2>3. RunsHandleUsed'
    BY <1>1, <2>1 DEF FanOut, SendRemoteMessage, CallSent, CallFailed,
                      RunsHandleUsed
  <2>4. CallsApart'
    BY <1>1, <2>1, TableOps DEF FanOut, SendRemoteMessage, CallSent, CallFailed,
       RunsHandleUsed, CallsApart, NoSilentLoss, ovars
  <2> QED
    BY <2>2, <2>3, <2>4
<1>2. ASSUME NEW r \in Runs, NEW f \in BOOLEAN, StartRun(r, f)
      PROVE  NoSilentLoss' /\ RunsHandleUsed' /\ CallsApart'
  <2>1. spool' = spool \ Cleaned /\ expired' = expired \cup Cleaned
        /\ UNCHANGED <<used, calls, lost, wire>>
    BY <1>2 DEF StartRun
  <2>2. Cleaned \subseteq spool
    BY DEF Cleaned, StaleRows
  <2>3. \A q \in Runs : q # r => InHand(q)' = InHand(q)
    BY <1>2 DEF StartRun, InHand, TypeOK
  <2>4. InHand(r)' \subseteq spool
    BY <1>2 DEF StartRun, Batches, InHand, TypeOK
  <2> QED
    BY <2>1, <2>2, <2>3, <2>4 DEF NoSilentLoss, RunsHandleUsed, CallsApart
<1>3. CASE StartWorker
  BY <1>2, <1>3 DEF StartWorker, Runs
<1>4. ASSUME NEW r \in Flushes, StartFlush(r)
      PROVE  NoSilentLoss' /\ RunsHandleUsed' /\ CallsApart'
  BY <1>2, <1>4 DEF StartFlush, Runs
<1>5. ASSUME NEW r \in Runs, ItemStep(r)
      PROVE  NoSilentLoss' /\ RunsHandleUsed' /\ CallsApart'
  <2>1. PICK m \in Msgs \cup {NoMsg} :
          /\ m \in InHand(r) \/ UNCHANGED <<ovars, wire>>
          /\ UNCHANGED <<used, calls, lost>>
          /\ \/ UNCHANGED <<ovars, wire>>
             \/ m \in Msgs /\ RemoveOutbox(m) /\ wire' = wire \cup {m}
             \/ m \in Msgs /\ RetryRow(m, FreshRow) /\ wire' = wire
             \/ m \in Msgs /\ UpdateOutboxRetry(m) /\ wire' = wire
    <3>1. ASSUME NEW m \in Msgs, NextItem(r, m) PROVE m \in InHand(r)
      BY <3>1, MsgsAssumption DEF NextItem, InHand
    <3>2. run[r].item # NoMsg => run[r].item \in InHand(r) /\ run[r].item \in Msgs
      BY DEF InHand, TypeOK, RunStates
    <3> QED
      BY <1>5, <3>1, <3>2 DEF ItemStep, RunStep, ItemDelivered, ItemRequeued,
         ItemUnroutable, ItemAwaited, NextItem, ItemSent, ItemFailed, FinishRun
  <2>2. \A q \in Runs : InHand(q)' \subseteq InHand(q)
    BY <1>5, HandOfStep
  <2>3. NoSilentLoss'
    BY <2>1, TableOps DEF NoSilentLoss, RunsHandleUsed, ovars
  <2>4. RunsHandleUsed'
    BY <2>1, <2>2 DEF RunsHandleUsed
  <2>5. CallsApart'
    BY <2>1, <2>2, TableOps DEF CallsApart, ovars
  <2> QED
    BY <2>3, <2>4, <2>5
<1>6. ASSUME NEW t \in Targets, NEW k \in Kinds[t], NEW r \in Flushes,
             LearnRoute(t, k, r)
      PROVE  NoSilentLoss' /\ RunsHandleUsed' /\ CallsApart'
  <2>1. \A q \in Runs : InHand(q)' = InHand(q)
    BY <1>6 DEF LearnRoute, InHand, TypeOK, RunStates, Runs
  <2> QED
    BY <1>6, <2>1 DEF LearnRoute, NoSilentLoss, RunsHandleUsed, CallsApart
<1>7. CASE Tick \/ UNCHANGED vars
           \/ \E t \in Targets : \E k \in Kinds[t] : ChangePath(t, k)
  BY <1>7 DEF Tick, ChangePath, vars, ovars, NoSilentLoss, RunsHandleUsed,
              CallsApart, InHand
<1>8. CASE Crash
  BY <1>8 DEF Crash, ovars, NoSilentLoss, RunsHandleUsed, CallsApart, InHand,
              IdleRun
<1> QED
  BY <1>1, <1>3, <1>4, <1>5, <1>6, <1>7, <1>8 DEF Next

\* Whatever way sends, runs, timeouts and restarts interleave, every message
\* handed to sendRemoteMessage is accounted for.
THEOREM NothingLost == Spec => []NoSilentLoss
<1>1. IInv => NoSilentLoss
  BY DEF IInv
<1> QED
  BY <1>1, InitIInv, NextIInv, PTL DEF Spec
-----------------------------------------------------------------------------
(* Outbox implements MessageSpool for the messages whose routes have keys.  *)

Keyed == \A m \in Steady : path[To[m]] # "keyless"

\* A step that changes nothing of a steady message is a stutter.
LEMMA Unseen ==
    ASSUME \A x \in Steady : /\ x \in used' <=> x \in used
                             /\ x \in calls' <=> x \in calls
                             /\ x \in spool' <=> x \in spool
                             /\ x \in wire' <=> x \in wire
    PROVE  UNCHANGED Abs!svars
<1>1. Stage' = Stage
  BY DEF Stage
<1>2. (wire \cap Steady)' = wire \cap Steady
  OBVIOUS
<1> QED
  BY <1>1, <1>2 DEF Abs!svars

\* A copy of m goes out and m is not in the spool afterwards.
LEMMA PostStep ==
    ASSUME NEW m \in used, m \in Msgs, m \in calls => m \notin spool,
           used' = used, calls' = calls \ {m}, spool' = spool \ {m},
           wire' = wire \cup {m}
    PROVE  [Abs!Next]_(Abs!svars)
<1>1. CASE m \notin Steady
  BY <1>1, Unseen
<1>2. CASE m \in Steady
  <2>1. Stage[m] # "new" /\ Stage' = [Stage EXCEPT ![m] = "done"]
    BY <1>2 DEF Stage
  <2>2. (wire \cap Steady)' = (wire \cap Steady) \cup {m}
    BY <1>2
  <2> QED
    BY <1>2, <2>1, <2>2 DEF Abs!Post, Abs!Next
<1> QED
  BY <1>1, <1>2

\* Some pending or spooled messages are given up.
LEMMA DropStep ==
    ASSUME NEW S, S \subseteq used, S \subseteq calls \cup spool, calls \cap spool = {},
           used' = used, calls' = calls \ S, spool' = spool \ S, wire' = wire
    PROVE  [Abs!Next]_(Abs!svars)
<1>1. \A m \in S \cap Steady : Stage[m] \in {"calling", "spooled"}
  BY DEF Stage
<1>2. Stage' = [m \in Steady |-> IF m \in S \cap Steady THEN "done" ELSE Stage[m]]
  BY DEF Stage
<1>3. Abs!Drop(S \cap Steady)
  BY <1>1, <1>2 DEF Abs!Drop
<1> QED
  BY <1>3 DEF Abs!Next

\* The table operation of a run's item, seen from outside.
LEMMA ItemMaps ==
    ASSUME IInv, Keyed, NEW r \in Runs, ItemStep(r)
    PROVE  [Abs!Next]_(Abs!svars)
<1> USE DEF IInv
<1>0. TypeOK
  OBVIOUS
<1>1. CASE UNCHANGED <<spool, used, calls, wire>>
  BY <1>1, Unseen
<1>2. ASSUME NEW m \in Msgs, m \in InHand(r), RemoveOutbox(m),
             wire' = wire \cup {m}, UNCHANGED <<used, calls>>
      PROVE  [Abs!Next]_(Abs!svars)
  <2>1. m \in used /\ m \notin calls
    BY <1>2 DEF RunsHandleUsed, CallsApart
  <2> QED
    BY <1>2, <2>1, PostStep DEF RemoveOutbox
<1>3. ASSUME NEW m \in Msgs, UpdateOutboxRetry(m), wire' = wire,
             UNCHANGED <<used, calls>>
      PROVE  [Abs!Next]_(Abs!svars)
  <2>1. CASE spool' = spool
    BY <1>1, <1>3, <2>1
  <2>2. CASE m \in spool /\ spool' = spool \ {m}
    <3>1. {m} \subseteq used /\ calls \cap spool = {} /\ calls' = calls \ {m}
      BY <1>3, <2>2 DEF CallsApart, NoSilentLoss
    <3> QED
      BY <1>3, <2>2, <3>1, DropStep
  <2> QED
    BY <1>3, <2>1, <2>2, TableOps
<1>4. ASSUME NEW m \in Msgs, ItemRequeued(r, m) PROVE [Abs!Next]_(Abs!svars)
  <2>1. m \notin Steady
    BY <1>4 DEF ItemRequeued, Keyed
  <2>2. spool' \in {spool \cup {m}, spool \ {m}}
    BY <1>4, TableOps DEF ItemRequeued
  <2> QED
    BY <1>4, <2>1, <2>2, Unseen DEF ItemRequeued, NextItem
<1>5. ASSUME NEW m \in Msgs, NextItem(r, m) PROVE m \in InHand(r)
  BY <1>5, MsgsAssumption DEF NextItem, InHand
<1>6. run[r].item # NoMsg => run[r].item \in InHand(r) /\ run[r].item \in Msgs
  BY DEF InHand, TypeOK, RunStates
<1> QED
  BY <1>1, <1>2, <1>3, <1>4, <1>5, <1>6
  DEF ItemStep, RunStep, ItemDelivered, ItemUnroutable, ItemAwaited, NextItem, ItemSent,
      ItemFailed, FinishRun, ovars

\* sendRemoteMessage is the abstract call.
LEMMA CallMaps ==
    ASSUME IInv, NEW m \in Msgs, FanOut(m) \/ SendRemoteMessage(m)
    PROVE  [Abs!Next]_(Abs!svars)
<1>1. m \notin used /\ m \notin calls /\ m \notin spool /\ used' = used \cup {m}
  BY DEF FanOut, SendRemoteMessage, IInv, NoSilentLoss
<1>2. \/ wire' = wire \cup {m} /\ UNCHANGED <<spool, calls>>
      \/ calls' = calls \cup {m} /\ UNCHANGED <<spool, wire>>
      \/ spool' = spool \cup {m} /\ UNCHANGED <<calls, wire>>
  BY DEF FanOut, SendRemoteMessage, QueueOutbox, ovars
<1>3. CASE m \notin Steady
  BY <1>1, <1>2, <1>3, Unseen
<1>4. CASE m \in Steady
  <2>1. Stage[m] = "new"
    BY <1>1, <1>4 DEF Stage
  <2>2. CASE wire' = wire \cup {m} /\ UNCHANGED <<spool, calls>>
    <3>1. Stage' = [Stage EXCEPT ![m] = "done"]
      BY <1>1, <1>4, <2>2 DEF Stage
    <3>2. (wire \cap Steady)' = (wire \cap Steady) \cup {m}
      BY <1>4, <2>2
    <3> QED
      BY <1>4, <2>1, <3>1, <3>2 DEF Abs!Call, Abs!Next
  <2>3. CASE calls' = calls \cup {m} /\ UNCHANGED <<spool, wire>>
    <3>1. Stage' = [Stage EXCEPT ![m] = "calling"]
      BY <1>1, <1>4, <2>3 DEF Stage
    <3> QED
      BY <1>4, <2>1, <2>3, <3>1 DEF Abs!Call, Abs!Next
  <2>4. CASE spool' = spool \cup {m} /\ UNCHANGED <<calls, wire>>
    <3>1. Stage' = [Stage EXCEPT ![m] = "spooled"]
      BY <1>1, <1>4, <2>4 DEF Stage
    <3> QED
      BY <1>4, <2>1, <2>4, <3>1 DEF Abs!Call, Abs!Next
  <2> QED
    BY <1>2, <2>2, <2>3, <2>4
<1> QED
  BY <1>3, <1>4

LEMMA StepMaps ==
    ASSUME IInv, Keyed, [Next]_vars
    PROVE  [Abs!Next]_(Abs!svars)
<1> USE DEF IInv
<1>0. TypeOK
  OBVIOUS
<1>1. CASE UNCHANGED <<spool, used, calls, wire>>
  BY <1>1, Unseen
<1>2. ASSUME NEW m \in Msgs, CallSent(m) PROVE [Abs!Next]_(Abs!svars)
  BY <1>2, PostStep DEF CallSent, CallsApart, NoSilentLoss, ovars
<1>3. ASSUME NEW m \in Msgs, CallFailed(m) PROVE [Abs!Next]_(Abs!svars)
  <2>1. CASE m \notin Steady
    BY <1>3, <2>1, Unseen DEF CallFailed, QueueOutbox
  <2>2. CASE m \in Steady
    <3>1. Stage[m] = "calling" /\ Stage' = [Stage EXCEPT ![m] = "spooled"]
      BY <1>3, <2>2 DEF CallFailed, QueueOutbox, Stage, NoSilentLoss
    <3> QED
      BY <1>3, <2>2, <3>1 DEF CallFailed, Abs!Spool, Abs!Next
  <2> QED
    BY <2>1, <2>2
<1>4. ASSUME NEW r \in Runs, NEW f \in BOOLEAN, StartRun(r, f)
      PROVE  [Abs!Next]_(Abs!svars)
  <2>1. Cleaned \subseteq spool
    BY DEF Cleaned, StaleRows
  <2> QED
    BY <1>4, <2>1, DropStep DEF StartRun, CallsApart, NoSilentLoss, TypeOK
<1>5. CASE Crash
  BY <1>5, DropStep DEF Crash, CallsApart, NoSilentLoss, TypeOK, ovars
<1>6. CASE \/ Tick \/ UNCHANGED vars
           \/ \E t \in Targets : \E k \in Kinds[t] : \/ ChangePath(t, k)
                                                  \/ \E r \in Flushes : LearnRoute(t, k, r)
  BY <1>1, <1>6 DEF Tick, LearnRoute, ChangePath, vars, ovars
<1>7. CASE StartWorker \/ \E r \in Flushes : StartFlush(r)
  BY <1>4, <1>7 DEF StartWorker, StartFlush, Runs
<1> QED
  BY <1>2, <1>3, <1>5, <1>6, <1>7, CallMaps, ItemMaps DEF Next

LEMMA KeyedStep ==
    ASSUME TypeOK, Keyed, [Next]_vars
    PROVE  Keyed'
<1>1. ASSUME NEW t \in Targets, NEW k \in Kinds[t],
             \/ ChangePath(t, k)
             \/ \E r \in Flushes : LearnRoute(t, k, r)
      PROVE  Keyed'
  <2>1. t \in Mesh /\ path' = [path EXCEPT ![t] = k]
    BY <1>1 DEF ChangePath, LearnRoute
  <2>2. ASSUME NEW m \in Steady PROVE path'[To[m]] # "keyless"
    <3>1. To[m] \in Targets
      BY MsgsAssumption DEF Steady
    <3> QED
      BY <2>1, <3>1 DEF Keyed, Steady, TypeOK
  <2> QED
    BY <2>2 DEF Keyed
<1>2. CASE path' = path
  BY <1>2 DEF Keyed
<1> QED
  BY <1>1, <1>2
  DEF Next, vars, FanOut, SendRemoteMessage, CallSent, CallFailed, StartWorker,
      StartFlush, StartRun, ItemStep, RunStep, ItemDelivered, ItemRequeued,
      ItemUnroutable, ItemAwaited, NextItem, ItemSent, ItemFailed, FinishRun,
      Tick, Crash

\* A message every known rendezvous address of which comes with a KEM key goes
\* through the spool at most once: no run, however stale its snapshot, brings
\* back a row that was sent or discarded.
THEOREM SpoolRefinement == Spec => SpoolsOnce
<1>1. Init => Keyed
  BY MsgsAssumption DEF Init, Keyed, Steady
<1>2. Init => Abs!Init
  BY DEF Init, Abs!Init, Stage
<1>3. IInv /\ Keyed /\ [Next]_vars => Keyed'
  BY KeyedStep DEF IInv
<1>4. IInv /\ Keyed /\ [Next]_vars => [Abs!Next]_(Abs!svars)
  BY StepMaps
<1> QED
  BY <1>1, <1>2, <1>3, <1>4, InitIInv, NextIInv, PTL DEF Spec, SpoolsOnce, Abs!Spec
=============================================================================
