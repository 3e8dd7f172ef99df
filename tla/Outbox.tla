------------------------------- MODULE Outbox -------------------------------
(***************************************************************************)
(* The sender's outbox: sendRemoteMessage, sendViaOnion and processOutbox  *)
(* of core/federation.js over the outbox table of storage/database.js.     *)
(*                                                                         *)
(* processOutbox works on a snapshot of the table and awaits between its   *)
(* items.  The worker's own run and the forced runs that PRESENCE_ANNOUNCE *)
(* and ROUTE_UPDATE schedule with setImmediate interleave at every await.  *)
(*                                                                         *)
(* Time is counted in ticks of one worker period (5 s).  Each row counts   *)
(* the ticks since it was created (age) and until it is due (wait).        *)
(***************************************************************************)
EXTENDS Naturals, FiniteSets

CONSTANTS
    Msgs,          \* messages a user may send, each with its own id
    Targets,       \* addresses they are sent to
    Mesh,          \* the targets that are .mesh node ids; the others are host:port
    To,            \* To[m] is the target of m
    Kinds,         \* Kinds[t]: what this node may know about target t, see path
    Flushes,       \* bound: forced runs that may be in progress at once
    Worker,        \* the periodic run
    NoMsg,         \* no item is awaited
    MaxRetries,    \* OUTBOX_MAX_RETRIES
    Ttl,           \* OUTBOX_TTL_MS, in ticks
    Backoff,       \* Backoff[n]: ticks before a row that failed n times is due
    BatchLimit,    \* LIMIT of the SELECT in getPendingOutbox
    MaxCrashes     \* bound: restarts of the node

\* What sendViaOnion finds out about a target, in the order it looks:
\*   live     a writable tunnel of the target, or a relay that is the target
\*   circuit  a rendezvous relay with a known KEM key: an onion circuit is awaited
\*   keyless  a rendezvous address for which no KEM key is known
\*   none     no rendezvous address
PathKinds == {"live", "circuit", "keyless", "none"}

ASSUME MsgsAssumption ==
    /\ IsFiniteSet(Msgs)
    /\ NoMsg \notin Msgs
    /\ To \in [Msgs -> Targets]
    /\ Mesh \subseteq Targets
    /\ Kinds \in [Targets -> SUBSET PathKinds]
    /\ \A t \in Mesh : "none" \in Kinds[t]
    /\ Worker \notin Flushes

ASSUME LimitsAssumption ==
    /\ MaxRetries \in Nat \ {0}
    /\ Ttl \in Nat
    /\ Backoff \in [1..MaxRetries -> Nat \ {0}]
    /\ BatchLimit \in Nat \ {0}
    /\ MaxCrashes \in Nat

VARIABLES
    spool,      \* ids of the rows of the outbox table
    row,        \* the row of each id in spool
    expired,    \* history: ids whose row was discarded by a limit
    used,       \* ids handed to sendRemoteMessage
    calls,      \* ids whose sendRemoteMessage is still awaiting its first attempt
    lost,       \* history: ids whose pending call died with the process
    wire,       \* ids of which a copy was written to a peer
    path,       \* what is known about each target
    run,        \* the runs of processOutbox
    workerDue,  \* the worker's timer has fired
    cleanDue,   \* at least 5 s since _lastOutboxClean
    crashes

ovars == <<spool, row, expired>>
vars  == <<spool, row, expired, used, calls, lost, wire, path, run,
           workerDue, cleanDue, crashes>>

Runs == Flushes \cup {Worker}

Rows == [retries : 0..(MaxRetries - 1), wait : Nat, age : 0..(Ttl + 1)]

\* queueOutbox: INSERT OR REPLACE with retries 0, next_retry in 5 s and
\* created_at now, whatever the replaced row said.
FreshRow == [retries |-> 0, wait |-> 1, age |-> 0]

RunStates == [phase : {"idle", "scheduled", "running"},
              todo : SUBSET Msgs,          \* rest of the snapshot
              item : Msgs \cup {NoMsg}]    \* item whose send is awaited

IdleRun == [phase |-> "idle", todo |-> {}, item |-> NoMsg]

TypeOK ==
    /\ spool \subseteq Msgs
    /\ row \in [Msgs -> Rows]
    /\ expired \subseteq Msgs
    /\ used \subseteq Msgs
    /\ calls \subseteq Msgs
    /\ lost \subseteq Msgs
    /\ wire \subseteq Msgs
    /\ path \in [Targets -> PathKinds]
    /\ run \in [Runs -> RunStates]
    /\ workerDue \in BOOLEAN
    /\ cleanDue \in BOOLEAN
    /\ crashes \in 0..MaxCrashes

\* A legacy target is always dialled; nothing is known of a mesh target.
Init ==
    /\ spool = {}
    /\ row = [m \in Msgs |-> FreshRow]
    /\ expired = {}
    /\ used = {}
    /\ calls = {}
    /\ lost = {}
    /\ wire = {}
    /\ path = [t \in Targets |-> IF t \in Mesh THEN "none" ELSE "circuit"]
    /\ run = [r \in Runs |-> IdleRun]
    /\ workerDue = FALSE
    /\ cleanDue = TRUE
    /\ crashes = 0

-----------------------------------------------------------------------------
(* The table operations.  A deleted id keeps FreshRow, which nothing reads. *)

QueueOutbox(m) ==
    /\ spool' = spool \cup {m}
    /\ row' = [row EXCEPT ![m] = FreshRow]
    /\ expired' = expired

RemoveOutbox(m) ==
    /\ spool' = spool \ {m}
    /\ row' = [row EXCEPT ![m] = FreshRow]
    /\ expired' = expired

\* Mutant: one retry too many.
MutGivesUp(r) == r.retries + 1 > MaxRetries \/ r.age > Ttl

\* updateOutboxRetry gives up on a row that reached a limit.
GivesUp(r) == r.retries + 1 >= MaxRetries \/ r.age > Ttl

BackedOff(r) == [r EXCEPT !.retries = @ + 1, !.wait = Backoff[r.retries + 1]]

\* updateOutboxRetry on a row r of m: the row is backed off or discarded.
RetryRow(m, r) ==
    IF GivesUp(r)
    THEN /\ spool' = spool \ {m}
         /\ row' = [row EXCEPT ![m] = FreshRow]
         /\ expired' = expired \cup {m}
    ELSE /\ spool' = spool \cup {m}
         /\ row' = [row EXCEPT ![m] = BackedOff(r)]
         /\ expired' = expired

\* A row that another run removed meanwhile is left alone.
UpdateOutboxRetry(m) ==
    IF m \in spool THEN RetryRow(m, row[m]) ELSE UNCHANGED ovars

\* cleanExpiredOutbox, called by getPendingOutbox at most every 5 s.
StaleRows == {m \in spool : row[m].retries >= MaxRetries \/ row[m].age > Ttl}

Cleaned == IF cleanDue THEN StaleRows ELSE {}

\* LIMIT without ORDER BY: any rows, but as many as the limit admits.
Batches(S) == {B \in SUBSET S : \/ B = S /\ Cardinality(S) <= BatchLimit
                                \/ Cardinality(B) = BatchLimit}
-----------------------------------------------------------------------------
(* sendRemoteMessage                                                        *)

\* A node bound to rendezvous relays hands the message to them whatever it
\* knows of the target, and counts it as delivered.
FanOut(m) ==
    /\ m \notin used
    /\ To[m] \in Mesh
    /\ used' = used \cup {m}
    /\ wire' = wire \cup {m}
    /\ UNCHANGED <<ovars, calls, lost, path, run, workerDue, cleanDue, crashes>>

\* Otherwise it depends on what is known of the target.
SendRemoteMessage(m) ==
    /\ m \notin used
    /\ used' = used \cup {m}
    /\ \/ /\ path[To[m]] = "live"
          /\ wire' = wire \cup {m}
          /\ UNCHANGED <<ovars, calls>>
       \/ /\ path[To[m]] = "circuit"
          /\ calls' = calls \cup {m}
          /\ UNCHANGED <<ovars, wire>>
       \/ /\ path[To[m]] \in {"keyless", "none"}
          /\ QueueOutbox(m)
          /\ UNCHANGED <<calls, wire>>
    /\ UNCHANGED <<lost, path, run, workerDue, cleanDue, crashes>>

\* The awaited circuit or connection worked ...
CallSent(m) ==
    /\ m \in calls
    /\ calls' = calls \ {m}
    /\ wire' = wire \cup {m}
    /\ UNCHANGED <<ovars, used, lost, path, run, workerDue, cleanDue, crashes>>

\* ... or failed, and the message is queued.
CallFailed(m) ==
    /\ m \in calls
    /\ calls' = calls \ {m}
    /\ QueueOutbox(m)
    /\ UNCHANGED <<used, lost, wire, path, run, workerDue, cleanDue, crashes>>
-----------------------------------------------------------------------------
(* processOutbox                                                            *)

\* The snapshot, after the cleaning getPendingOutbox does first.
StartRun(r, forced) ==
    /\ spool' = spool \ Cleaned
    /\ row' = [m \in Msgs |-> IF m \in Cleaned THEN FreshRow ELSE row[m]]
    /\ expired' = expired \cup Cleaned
    /\ \E batch \in Batches({m \in spool \ Cleaned : forced \/ row[m].wait = 0}) :
          run' = [run EXCEPT ![r] = [phase |-> "running", todo |-> batch,
                                     item |-> NoMsg]]
    /\ cleanDue' = FALSE
    /\ UNCHANGED <<used, calls, lost, wire, path, crashes>>

StartWorker ==
    /\ workerDue
    /\ run[Worker].phase = "idle"
    /\ StartRun(Worker, FALSE)
    /\ workerDue' = FALSE

StartFlush(r) ==
    /\ run[r].phase = "scheduled"
    /\ StartRun(r, TRUE)
    /\ UNCHANGED workerDue

\* The next item of the snapshot.  Every branch but the circuit one ends
\* without giving way to another handler.
NextItem(r, m) ==
    /\ run[r].phase = "running"
    /\ run[r].item = NoMsg
    /\ m \in run[r].todo
    /\ UNCHANGED <<used, calls, lost, path, workerDue, cleanDue, crashes>>

Take(r, m, i) == run' = [run EXCEPT ![r].todo = @ \ {m}, ![r].item = i]

ItemDelivered(r, m) ==
    /\ NextItem(r, m)
    /\ path[To[m]] = "live"
    /\ Take(r, m, NoMsg)
    /\ RemoveOutbox(m)
    /\ wire' = wire \cup {m}

\* sendViaOnion queues the item again itself, answers "queued", and
\* processOutbox counts a retry on the row just replaced.
ItemRequeued(r, m) ==
    /\ NextItem(r, m)
    /\ path[To[m]] = "keyless"
    /\ Take(r, m, NoMsg)
    /\ RetryRow(m, FreshRow)
    /\ wire' = wire

\* Mutant: fromOutbox is ignored and the item is queued again.
MutItemUnroutable(r, m) ==
    /\ NextItem(r, m)
    /\ path[To[m]] = "none"
    /\ Take(r, m, NoMsg)
    /\ QueueOutbox(m)
    /\ wire' = wire

\* fromOutbox makes sendViaOnion throw instead of queueing.
ItemUnroutable(r, m) ==
    /\ NextItem(r, m)
    /\ path[To[m]] = "none"
    /\ Take(r, m, NoMsg)
    /\ UpdateOutboxRetry(m)
    /\ wire' = wire

ItemAwaited(r, m) ==
    /\ NextItem(r, m)
    /\ path[To[m]] = "circuit"
    /\ Take(r, m, m)
    /\ UNCHANGED <<ovars, wire>>

\* The circuit or connection of the awaited item answers, if it ever does: a
\* connection that closes without an error while it is opened leaves its caller
\* awaiting.  A sendPacket that nobody acknowledges within 3.5 s counts as sent.
ItemSent(r) ==
    /\ run[r].item # NoMsg
    /\ run' = [run EXCEPT ![r].item = NoMsg]
    /\ RemoveOutbox(run[r].item)
    /\ wire' = wire \cup {run[r].item}
    /\ UNCHANGED <<used, calls, lost, path, workerDue, cleanDue, crashes>>

\* Mutant: the row is removed whatever the outcome.
MutItemFailed(r) ==
    /\ run[r].item # NoMsg
    /\ run' = [run EXCEPT ![r].item = NoMsg]
    /\ RemoveOutbox(run[r].item)
    /\ UNCHANGED <<used, calls, lost, wire, path, workerDue, cleanDue, crashes>>

ItemFailed(r) ==
    /\ run[r].item # NoMsg
    /\ run' = [run EXCEPT ![r].item = NoMsg]
    /\ UpdateOutboxRetry(run[r].item)
    /\ UNCHANGED <<used, calls, lost, wire, path, workerDue, cleanDue, crashes>>

FinishRun(r) ==
    /\ run[r].phase = "running"
    /\ run[r].todo = {}
    /\ run[r].item = NoMsg
    /\ run' = [run EXCEPT ![r] = IdleRun]
    /\ UNCHANGED <<ovars, used, calls, lost, wire, path, workerDue, cleanDue, crashes>>
-----------------------------------------------------------------------------
(* The world around the outbox                                              *)

\* Mutant: the reset makes the row young again.
MutResetOutboxForTarget(t) ==
    row' = [m \in Msgs |-> IF m \in spool /\ To[m] = t
                           THEN [retries |-> 0, wait |-> 0, age |-> 0]
                           ELSE row[m]]

\* resetOutboxForTarget
ResetOutboxForTarget(t) ==
    row' = [m \in Msgs |-> IF m \in spool /\ To[m] = t
                           THEN [row[m] EXCEPT !.retries = 0, !.wait = 0]
                           ELSE row[m]]

\* PRESENCE_ANNOUNCE or ROUTE_UPDATE of node t: the route is learned, the
\* rows for t become due, and a forced run is scheduled.
LearnRoute(t, k, r) ==
    /\ t \in Mesh
    /\ run[r].phase = "idle"
    /\ path' = [path EXCEPT ![t] = k]
    /\ ResetOutboxForTarget(t)
    /\ run' = [run EXCEPT ![r].phase = "scheduled"]
    /\ UNCHANGED <<spool, expired, used, calls, lost, wire, workerDue, cleanDue, crashes>>

\* A message of a user of t arrives through a relay: only the relay's
\* address is learned.  Routes expire and tunnels close.
ChangePath(t, k) ==
    /\ t \in Mesh
    /\ k # "live"
    /\ path[t] # k
    /\ path' = [path EXCEPT ![t] = k]
    /\ UNCHANGED <<ovars, used, calls, lost, wire, run, workerDue, cleanDue, crashes>>

\* A worker period goes by.  The timer fires on time, so the period ends
\* only when the worker has started (it may still be awaiting).
Tick ==
    /\ ~(workerDue /\ run[Worker].phase = "idle")
    /\ row' = [m \in Msgs |->
                 IF m \in spool
                 THEN [row[m] EXCEPT !.wait = IF @ = 0 THEN 0 ELSE @ - 1,
                                     !.age = IF @ > Ttl THEN @ ELSE @ + 1]
                 ELSE row[m]]
    /\ workerDue' = TRUE
    /\ cleanDue' = TRUE
    /\ UNCHANGED <<spool, expired, used, calls, lost, wire, path, run, crashes>>

\* The process dies and starts again: the table survives, runs and calls do not.
Crash ==
    /\ crashes < MaxCrashes
    /\ crashes' = crashes + 1
    /\ calls' = {}
    /\ lost' = lost \cup calls
    /\ run' = [r \in Runs |-> IdleRun]
    /\ workerDue' = FALSE
    /\ cleanDue' = TRUE
    /\ UNCHANGED <<ovars, used, wire, path>>

\* What a run does on its own, and what it awaits.
RunStep(r) ==
    \/ \E m \in Msgs : \/ ItemDelivered(r, m) \/ ItemRequeued(r, m)
                       \/ ItemUnroutable(r, m) \/ ItemAwaited(r, m)
    \/ FinishRun(r)

ItemStep(r) == RunStep(r) \/ ItemSent(r) \/ ItemFailed(r)

Next ==
    \/ \E m \in Msgs : \/ FanOut(m) \/ SendRemoteMessage(m)
                       \/ CallSent(m) \/ CallFailed(m)
    \/ StartWorker
    \/ \E r \in Flushes : StartFlush(r)
    \/ \E r \in Runs : ItemStep(r)
    \/ \E t \in Targets : \E k \in Kinds[t] : \/ ChangePath(t, k)
                                            \/ \E r \in Flushes : LearnRoute(t, k, r)
    \/ Tick
    \/ Crash

Spec == Init /\ [][Next]_vars

\* Timers fire, scheduled callbacks run and a run goes on by itself until it
\* awaits an item.  Nothing is assumed of the awaits: a circuit waits for its
\* connection before its own 4 s timer starts, and that may take for ever.
Fairness ==
    /\ WF_vars(Tick)
    /\ WF_vars(StartWorker)
    /\ \A r \in Flushes : WF_vars(StartFlush(r))
    /\ \A r \in Runs : WF_vars(RunStep(r))

FairSpec == Spec /\ Fairness
-----------------------------------------------------------------------------
(* Properties                                                               *)

\* No message is lost in silence: whatever way the calls, the runs and the
\* restarts interleave, a message handed over is still being sent, or waits
\* in the table, or was written to a peer, or was discarded by a limit, or
\* was in a pending call when the process died.
NoSilentLoss == used = calls \cup spool \cup wire \cup expired \cup lost

\* The messages whose routes always come with a KEM key.
Steady == {m \in Msgs : To[m] \in Mesh => "keyless" \notin Kinds[To[m]]}

\* The stage of a message in the abstract specification.
Stage ==
    [m \in Steady |-> IF m \notin used THEN "new"
                      ELSE IF m \in calls THEN "calling"
                      ELSE IF m \in spool THEN "spooled" ELSE "done"]

Abs == INSTANCE MessageSpool
         WITH Msgs <- Steady, stage <- Stage, wire <- wire \cap Steady

\* A run that works on a stale snapshot never brings back a row that another
\* run removed after sending it: a message goes through the spool once, unless
\* it is queued for want of a KEM key.
SpoolsOnce == Abs!Spec

\* Unless the worker awaits one item for ever, every row leaves the table: it is
\* sent, or OUTBOX_MAX_RETRIES or OUTBOX_TTL_MS discards it, however often
\* announcements make it due again and reset its retry counter.  Only a row whose
\* target is found without a KEM key again and again may stay: it is made new.
EveryRowLeaves ==
    \/ <>[](run[Worker].item # NoMsg)
    \/ \A m \in Msgs : \/ []<>(path[To[m]] = "keyless")
                       \/ (m \in spool) ~> (m \notin spool)
=============================================================================
