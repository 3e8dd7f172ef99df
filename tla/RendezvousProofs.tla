-------------------------- MODULE RendezvousProofs ---------------------------
(***************************************************************************)
(* Theorems about Rendezvous for every set of relays and channels, every   *)
(* number of overlapping calls and every limit.                            *)
(***************************************************************************)
EXTENDS Rendezvous, FiniteSetTheorems, TLAPS

LEMMA AnyRelayTyped == AnyRelay \in Relay
BY PoolAssumption DEF AnyRelay

LEMMA IdleTyped == Idle \in Progress
BY AnyRelayTyped DEF Idle, Progress, AnyChan

\* An awaited channel is a channel.
CallOK(p) ==
    /\ p.pc \in Awaits => p.c \in Chan
    /\ p.pc \in {"redial", "redialed", "reply"} => p.d \in Chan

Calls == maint \in [Maintainer -> Progress] /\ \A m \in Maintainer : CallOK(maint[m])

\* isMaintainingTunnels lets one call at a time run, and its limit on bound
\* relays was checked before it awaited anything.
Alone ==
    /\ \A m, n \in Maintainer : maint[m].pc # "idle" /\ maint[n].pc # "idle" => m = n
    /\ ~isMaintaining => \A m \in Maintainer : maint[m].pc = "idle"

Room == \A m \in Maintainer : maint[m].pc \in Awaits => Cardinality(bound) < MaxRelays

\* The invariant that carries the theorems below.
IInv == TypeOK /\ Calls /\ Alone /\ Room /\ BoundLimit /\ PoolBound

\* One running call moves on; it awaits something only if there is room.
LEMMA CallMoves ==
    ASSUME Calls, Alone, NEW m \in Maintainer, maint[m].pc # "idle",
           NEW q \in Progress, CallOK(q), q.pc # "idle",
           q.pc \in Awaits => Cardinality(bound') < MaxRelays,
           maint' = [maint EXCEPT ![m] = q], isMaintaining' = isMaintaining
    PROVE  Calls' /\ Alone' /\ Room'
<1>1. maint'[m] = q /\ \A n \in Maintainer \ {m} : maint'[n] = maint[n]
  BY DEF Calls
<1>2. \A n \in Maintainer \ {m} : maint[n].pc = "idle"
  BY DEF Alone
<1>3. Calls'
  BY <1>1 DEF Calls, CallOK, Awaits
<1>4. isMaintaining
  BY DEF Alone
<1> QED
  BY <1>1, <1>2, <1>3, <1>4 DEF Alone, Room, Awaits

\* No call starts, moves or ends.
LEMMA CallsStay ==
    ASSUME Calls, Alone, maint' = maint, isMaintaining' = isMaintaining
    PROVE  Calls' /\ Alone'
BY DEF Calls, CallOK, Alone

\* A call starts when none runs.
LEMMA CallStarts ==
    ASSUME Calls, Alone, ~isMaintaining, NEW m \in Maintainer, NEW T \in SUBSET Relay,
           maint' = [maint EXCEPT ![m].pc = "next", ![m].todo = T], isMaintaining'
    PROVE  Calls' /\ Alone' /\ Room'
<1>1. maint[m] \in Progress
  BY DEF Calls
<1>2. [[maint[m] EXCEPT !.pc = "next"] EXCEPT !.todo = T] \in Progress
  BY <1>1 DEF Progress
<1>3. maint' = [maint EXCEPT ![m] = [[maint[m] EXCEPT !.pc = "next"] EXCEPT !.todo = T]]
  BY DEF Calls
<1>4. [[maint[m] EXCEPT !.pc = "next"] EXCEPT !.todo = T].pc = "next"
  BY <1>1 DEF Progress
<1>5. maint' \in [Maintainer -> Progress] /\ maint'[m].pc = "next"
  BY <1>2, <1>3, <1>4 DEF Calls
<1>6. \A n \in Maintainer \ {m} : maint'[n] = maint[n] /\ maint[n].pc = "idle"
  BY <1>3 DEF Calls, Alone
<1> QED
  BY <1>5, <1>6 DEF Calls, CallOK, Alone, Room, Awaits

\* Where Goto and Advance lead.
LEMMA GotoMoves ==
    ASSUME Calls, Alone, NEW m \in Maintainer, maint[m].pc # "idle",
           NEW pc \in Awaits, NEW r \in Relay, NEW c \in Chan, NEW d \in AnyChan,
           NEW own \in BOOLEAN,
           pc # "dial" => d \in Chan,
           pc # "dialed",
           Cardinality(bound') < MaxRelays,
           Goto(m, pc, r, c, d, own), isMaintaining' = isMaintaining
    PROVE  Calls' /\ Alone' /\ Room'
<1> DEFINE q == [pc |-> pc, todo |-> maint[m].todo \ {r}, r |-> r, c |-> c, d |-> d,
                 own |-> own]
<1>1. maint[m].todo \ {r} \in SUBSET Relay
  BY DEF Calls, Progress
<1>2. /\ pc \in {"idle", "next", "dial", "dialed", "redial", "redialed", "reply", "hung"}
      /\ pc # "idle"
  BY DEF Awaits
<1>3. q \in Progress
  BY <1>1, <1>2 DEF Progress, AnyChan
<1>4. q.pc = pc /\ CallOK(q)
  BY DEF CallOK, Awaits
<1>5. maint' = [maint EXCEPT ![m] = q]
  BY DEF Goto
<1> HIDE DEF q
<1> QED
  BY <1>2, <1>3, <1>4, <1>5, CallMoves

LEMMA NextMoves ==
    ASSUME Calls, Alone, NEW m \in Maintainer, maint[m].pc # "idle", NEW T \in SUBSET Relay,
           maint' = [maint EXCEPT ![m] = [Idle EXCEPT !.pc = "next", !.todo = T]],
           isMaintaining' = isMaintaining
    PROVE  Calls' /\ Alone' /\ Room'
<1> DEFINE q == [Idle EXCEPT !.pc = "next", !.todo = T]
<1>1. q \in Progress /\ q.pc = "next"
  BY IdleTyped DEF Progress
<1>2. CallOK(q)
  BY <1>1 DEF CallOK, Awaits
<1>3. q.pc \notin Awaits
  BY <1>1 DEF Awaits
<1>4. maint' = [maint EXCEPT ![m] = q]
  OBVIOUS
<1> HIDE DEF q
<1> QED
  BY <1>1, <1>2, <1>3, <1>4, CallMoves

LEMMA AdvanceMoves ==
    ASSUME Calls, Alone, NEW m \in Maintainer, maint[m].pc # "idle",
           Advance(m), isMaintaining' = isMaintaining
    PROVE  Calls' /\ Alone' /\ Room'
<1>1. maint[m].todo \in SUBSET Relay
  BY DEF Calls, Progress
<1> QED
  BY <1>1, NextMoves DEF Advance, GivenUp
\* What an event of channel c tells a call: nothing, that c is ready, to turn to
\* the next relay, or to hang.
Told(p, q) ==
    \/ q = p
    \/ /\ p.pc \in {"dial", "redial"} /\ q \in Progress
       /\ \/ q.pc \in {"next", "hung"}
          \/ /\ q.pc = IF p.pc = "dial" THEN "dialed" ELSE "redialed"
             /\ q.r = p.r /\ q.c = p.c /\ q.d = p.d

LEMMA GivenUpTyped ==
    ASSUME Calls, NEW m \in Maintainer
    PROVE  GivenUp(m) \in Progress /\ GivenUp(m).pc = "next"
<1>1. maint[m].todo \in SUBSET Relay
  BY DEF Calls, Progress
<1> QED
  BY <1>1, IdleTyped DEF GivenUp, Progress

LEMMA RejectedTells ==
    ASSUME Calls, NEW S, Rejected(S),
           \A m \in Maintainer : m \in S => maint[m].pc \in {"dial", "redial"}
    PROVE  maint' \in [Maintainer -> Progress]
           /\ \A m \in Maintainer : Told(maint[m], maint'[m])
<1>1. ASSUME NEW m \in Maintainer
      PROVE  maint'[m] \in Progress /\ Told(maint[m], maint'[m])
  <2>1. maint'[m] = IF m \in S THEN GivenUp(m) ELSE maint[m]
    BY DEF Rejected
  <2>2. maint[m] \in Progress
    BY DEF Calls
  <2> QED
    BY <2>1, <2>2, GivenUpTyped DEF Told
<1>2. maint' = [m \in Maintainer |-> maint'[m]]
  BY DEF Rejected
<1> QED
  BY <1>1, <1>2

LEMMA AwaitingPc ==
    ASSUME NEW c, NEW m \in Awaiting(c)
    PROVE  maint[m].pc \in {"dial", "redial"}
BY DEF Awaiting

LEMMA HandshakeTells ==
    ASSUME Calls, NEW c \in Chan, HandshakeDone(c)
    PROVE  maint' \in [Maintainer -> Progress]
           /\ \A m \in Maintainer : Told(maint[m], maint'[m])
<1> DEFINE up(m) == [maint[m] EXCEPT !.pc = IF @ = "dial" THEN "dialed" ELSE "redialed"]
<1>1. maint' = [m \in Maintainer |-> IF m \in Awaiting(c) THEN up(m) ELSE maint[m]]
  BY DEF HandshakeDone
<1>2. ASSUME NEW m \in Maintainer
      PROVE  maint'[m] \in Progress /\ Told(maint[m], maint'[m])
  <2>1. maint[m] \in Progress
    BY DEF Calls
  <2>2. up(m) \in Progress
    BY <2>1 DEF Progress
  <2>3. /\ up(m).pc = IF maint[m].pc = "dial" THEN "dialed" ELSE "redialed"
        /\ up(m).r = maint[m].r /\ up(m).c = maint[m].c /\ up(m).d = maint[m].d
    BY <2>1 DEF Progress
  <2> HIDE DEF up
  <2>4. maint'[m] = IF m \in Awaiting(c) THEN up(m) ELSE maint[m]
    BY <1>1
  <2> QED
    BY <2>1, <2>2, <2>3, <2>4, AwaitingPc DEF Told
<1>3. maint' = [m \in Maintainer |-> maint'[m]]
  BY <1>1
<1> QED
  BY <1>2, <1>3

LEMMA BreakTells ==
    ASSUME Calls, NEW c \in Chan, EdgeBreak(c)
    PROVE  maint' \in [Maintainer -> Progress]
           /\ \A m \in Maintainer : Told(maint[m], maint'[m])
<1>1. CASE maint' = maint
  BY <1>1 DEF Calls, Told
<1>2. ASSUME NEW S \in {Awaiting(c), Openers(c)}, Rejected(S)
      PROVE  maint' \in [Maintainer -> Progress]
             /\ \A m \in Maintainer : Told(maint[m], maint'[m])
  <2>1. \A m \in Maintainer : m \in S => m \in Awaiting(c)
    BY <1>2 DEF Openers
  <2> QED
    BY <1>2, <2>1, AwaitingPc, RejectedTells
<1> QED
  BY <1>1, <1>2 DEF EdgeBreak

LEMMA CloseTells ==
    ASSUME Calls, NEW c \in Chan, CloseEvent(c)
    PROVE  maint' \in [Maintainer -> Progress]
           /\ \A m \in Maintainer : Told(maint[m], maint'[m])
<1> DEFINE stuck == [Idle EXCEPT !.pc = "hung"]
<1>1. stuck \in Progress /\ stuck.pc = "hung"
  BY IdleTyped DEF Progress
<1>2. maint' = [m \in Maintainer |-> IF m \in Openers(c) THEN stuck
                                    ELSE IF m \in Awaiting(c) THEN GivenUp(m) ELSE maint[m]]
  BY DEF CloseEvent, Closed
<1> HIDE DEF stuck
<1>3. ASSUME NEW m \in Maintainer
      PROVE  maint'[m] \in Progress /\ Told(maint[m], maint'[m])
  <2>1. maint[m] \in Progress
    BY DEF Calls
  <2>2. m \in Openers(c) => m \in Awaiting(c)
    BY DEF Openers
  <2>3. maint'[m] = IF m \in Openers(c) THEN stuck
                    ELSE IF m \in Awaiting(c) THEN GivenUp(m) ELSE maint[m]
    BY <1>2
  <2> QED
    BY <1>1, <2>1, <2>2, <2>3, AwaitingPc, GivenUpTyped DEF Told
<1>4. maint' = [m \in Maintainer |-> maint'[m]]
  BY <1>2
<1> QED
  BY <1>3, <1>4

LEMMA ChannelTells ==
    ASSUME Calls, NEW c \in Chan,
           HandshakeDone(c) \/ EdgeBreak(c) \/ CloseEvent(c)
    PROVE  maint' \in [Maintainer -> Progress]
           /\ \A m \in Maintainer : Told(maint[m], maint'[m])
BY HandshakeTells, BreakTells, CloseTells

\* A call that is told something goes on running.
LEMMA ToldKeeps ==
    ASSUME Calls, Alone, Room, maint' \in [Maintainer -> Progress],
           \A m \in Maintainer : Told(maint[m], maint'[m]),
           isMaintaining' = isMaintaining,
           Cardinality(bound) \in Nat, Cardinality(bound') \in Nat,
           Cardinality(bound') <= Cardinality(bound)
    PROVE  Calls' /\ Alone' /\ Room'
<1>1. ASSUME NEW m \in Maintainer
      PROVE  /\ CallOK(maint'[m]) /\ (maint'[m].pc = "idle" <=> maint[m].pc = "idle")
             /\ maint'[m].pc \in Awaits => maint[m].pc \in Awaits
  <2>1. Told(maint[m], maint'[m]) /\ CallOK(maint[m])
    BY DEF Calls
  <2> QED
    BY <2>1 DEF Told, CallOK, Awaits
<1>2. Calls'
  BY <1>1 DEF Calls
<1>3. Alone'
  BY <1>1 DEF Alone
<1>4. Room'
  <2>1. ASSUME NEW m \in Maintainer, maint'[m].pc \in Awaits
        PROVE  Cardinality(bound') < MaxRelays
    <3>1. Cardinality(bound) < MaxRelays
      BY <1>1, <2>1 DEF Room
    <3> QED
      BY <3>1, RendezvousAssumption
  <2> QED
    BY <2>1 DEF Room
<1> QED
  BY <1>2, <1>3, <1>4
-----------------------------------------------------------------------------
(* The pool                                                                 *)

LEMMA OpenedTyped ==
    ASSUME PoolTypeOK, NEW r \in Relay, NEW c \in Chan, NEW p \in Opened(r, c)
    PROVE  p \in [Relay -> Chan \cup {NoChan}] /\ p[r] = c
BY DEF Opened, PoolTypeOK, Pooled

\* Opening a channel keeps the pool within its size.
LEMMA OpenedBounded ==
    ASSUME PoolTypeOK, NEW r \in Relay, NEW c \in Chan, NEW p \in Opened(r, c),
           Cardinality(Pooled) <= PoolSize
    PROVE  Cardinality({x \in Relay : p[x] # NoChan}) <= PoolSize
<1> DEFINE after == {x \in Relay : p[x] # NoChan}
<1> SUFFICES Cardinality(after) <= PoolSize
  OBVIOUS
<1> HIDE DEF after
<1>1. IsFiniteSet(Pooled) /\ Cardinality(Pooled) \in Nat /\ PoolSize \in Nat \ {0}
  <2>1. Pooled \in SUBSET Relay
    BY DEF Pooled
  <2> QED
    BY <2>1, PoolAssumption, FS_Subset, FS_CardinalityType
<1>2. CASE r \in Pooled \/ Cardinality(Pooled) < PoolSize
  <2>1. p = [pool EXCEPT ![r] = c]
    BY <1>2 DEF Opened
  <2>2. after = Pooled \cup {r}
    BY <2>1, PoolAssumption DEF PoolTypeOK, Pooled, after
  <2>3. Cardinality(Pooled \cup {r})
          = IF r \in Pooled THEN Cardinality(Pooled) ELSE Cardinality(Pooled) + 1
    BY <1>1, FS_AddElement
  <2>4. Cardinality(Pooled \cup {r}) <= PoolSize
    BY <1>1, <1>2, <2>3
  <2> QED
    BY <2>2, <2>4
<1>3. CASE ~(r \in Pooled \/ Cardinality(Pooled) < PoolSize)
  <2>1. PICK e \in Pooled : p = [pool EXCEPT ![e] = NoChan, ![r] = c]
    BY <1>3 DEF Opened
  <2>2. after = (Pooled \ {e}) \cup {r}
    BY <1>3, <2>1, PoolAssumption DEF PoolTypeOK, Pooled, after
  <2>3. IsFiniteSet(Pooled \ {e}) /\ Cardinality(Pooled \ {e}) = Cardinality(Pooled) - 1
    BY <1>1, <2>1, FS_RemoveElement
  <2>4. Cardinality((Pooled \ {e}) \cup {r})
          = IF r \in Pooled \ {e} THEN Cardinality(Pooled \ {e})
            ELSE Cardinality(Pooled \ {e}) + 1
    BY <2>3, FS_AddElement
  <2>5. Cardinality((Pooled \ {e}) \cup {r}) <= PoolSize
    BY <1>1, <2>3, <2>4
  <2> QED
    BY <2>2, <2>5
<1> QED
  BY <1>2, <1>3

\* Removing entries keeps it too.
LEMMA FewerPooled ==
    ASSUME PoolTypeOK, Cardinality(Pooled) <= PoolSize, Pooled' \subseteq Pooled
    PROVE  Cardinality(Pooled') <= PoolSize
<1>1. IsFiniteSet(Pooled) /\ PoolSize \in Nat
  <2>1. Pooled \in SUBSET Relay
    BY DEF Pooled
  <2> QED
    BY <2>1, PoolAssumption, FS_Subset
<1>2. Cardinality(Pooled') <= Cardinality(Pooled) /\ IsFiniteSet(Pooled')
  BY <1>1, FS_Subset
<1> QED
  BY <1>1, <1>2, FS_CardinalityType

LEMMA OpenTyped ==
    ASSUME TypeOK, NEW r \in Relay, Open(r)
    PROVE  /\ PoolTypeOK'
           /\ age' \in [Chan -> 0..2]
           /\ handler' \subseteq Chan
           /\ pool'[r] \in Chan
           /\ Cardinality(Pooled) <= PoolSize => Cardinality(Pooled') <= PoolSize
<1> DEFINE c == CHOOSE x \in Free : TRUE
<1>1. c \in Chan
  BY DEF Open, Free
<1>2. /\ Dial(r, c)
      /\ age' = [age EXCEPT ![c] = 0]
      /\ handler' = handler \ {c}
  BY DEF Open
<1> HIDE DEF c
<1>3. pool' \in [Relay -> Chan \cup {NoChan}] /\ pool'[r] = c
  BY <1>1, <1>2, OpenedTyped DEF Dial, TypeOK
<1>4. phase' \in [Chan -> Phases]
  BY <1>1, <1>2 DEF Dial, Destroyed, TypeOK, PoolTypeOK, Phases
<1>5. to' \in [Chan -> Relay]
  BY <1>1, <1>2 DEF Dial, TypeOK, PoolTypeOK
<1>6. Cardinality(Pooled) <= PoolSize => Cardinality(Pooled') <= PoolSize
  BY <1>1, <1>2, OpenedBounded DEF Dial, TypeOK, Pooled
<1>7. age' \in [Chan -> 0..2]
  BY <1>1, <1>2 DEF TypeOK
<1>8. handler' \subseteq Chan
  BY <1>2 DEF TypeOK
<1>9. PoolTypeOK'
  BY <1>3, <1>4, <1>5 DEF PoolTypeOK
<1> QED
  BY <1>1, <1>3, <1>6, <1>7, <1>8, <1>9
-----------------------------------------------------------------------------
(* The bound relays                                                         *)

LEMMA BoundFinite ==
    ASSUME TypeOK
    PROVE  IsFiniteSet(bound) /\ Cardinality(bound) \in Nat
BY PoolAssumption, FS_Subset, FS_CardinalityType DEF TypeOK

\* Unbinding keeps the types, the limit and the room.
LEMMA UnbindKeeps ==
    ASSUME TypeOK, NEW S \in SUBSET Relay, Unbind(S)
    PROVE  /\ bound' \subseteq Relay /\ relays' \in [Relay -> AnyChan] /\ role' \in Roles
           /\ Cardinality(bound') <= Cardinality(bound)
           /\ Cardinality(bound') \in Nat
<1>1. bound' \subseteq bound
  BY DEF Unbind
<1>2. Cardinality(bound') <= Cardinality(bound) /\ IsFiniteSet(bound')
  BY <1>1, BoundFinite, FS_Subset
<1>3. relays' \in [Relay -> AnyChan]
  BY DEF Unbind, TypeOK, AnyChan
<1>4. role' \in Roles
  BY DEF Unbind, TypeOK, Checked, Roles
<1> QED
  BY <1>1, <1>2, <1>3, <1>4, FS_CardinalityType DEF TypeOK

\* Nothing the limits speak of changes.
LEMMA LimitsStay ==
    ASSUME BoundLimit, Room, bound' = bound, maint' = maint
    PROVE  BoundLimit' /\ Room'
BY DEF BoundLimit, Room

LEMMA PoolStays ==
    ASSUME PoolTypeOK, PoolBound,
           pool' \in {pool} \cup {[pool EXCEPT ![r] = NoChan] : r \in Relay}
    PROVE  pool' \in [Relay -> Chan \cup {NoChan}] /\ PoolBound'
<1>1. pool' \in [Relay -> Chan \cup {NoChan}] /\ Pooled' \subseteq Pooled
  BY DEF PoolTypeOK, Pooled
<1> QED
  BY <1>1, FewerPooled DEF PoolBound
-----------------------------------------------------------------------------
(* Every action keeps the invariant                                         *)

LEMMA ChannelSteps ==
    ASSUME IInv, NEW c \in Chan,
           HandshakeDone(c) \/ EdgeBreak(c) \/ CloseEvent(c)
    PROVE  IInv'
<1>0. /\ maint' \in [Maintainer -> Progress]
      /\ \A m \in Maintainer : Told(maint[m], maint'[m])
  BY ChannelTells DEF IInv
<1>1. CASE HandshakeDone(c)
  <2>1. TypeOK'
    BY <1>0, <1>1 DEF HandshakeDone, Ready, IInv, TypeOK, PoolTypeOK, Phases, edgeVars
  <2>2. PoolBound'
    BY <1>1 DEF HandshakeDone, Ready, IInv, PoolBound, Pooled
  <2>3. bound' = bound /\ isMaintaining' = isMaintaining
    BY <1>1 DEF HandshakeDone, edgeVars
  <2>4. Calls' /\ Alone' /\ Room' /\ BoundLimit'
    BY <1>0, <2>3, BoundFinite, ToldKeeps DEF IInv, BoundLimit
  <2> QED
    BY <2>1, <2>2, <2>4 DEF IInv
<1>2. CASE EdgeBreak(c)
  <2>1. pool' \in [Relay -> Chan \cup {NoChan}] /\ PoolBound'
    BY <1>2, PoolStays DEF EdgeBreak, Break, IInv, TypeOK, PoolTypeOK
  <2>2. faults' \in 0..MaxFaults
    BY <1>2, RendezvousAssumption DEF EdgeBreak, Fault, IInv, TypeOK
  <2>3. TypeOK'
    BY <1>0, <1>2, <2>1, <2>2
    DEF EdgeBreak, Break, IInv, TypeOK, PoolTypeOK, Phases, edgeVars, relayVars
  <2>4. bound' = bound /\ isMaintaining' = isMaintaining
    BY <1>2 DEF EdgeBreak, edgeVars
  <2>5. Calls' /\ Alone' /\ Room' /\ BoundLimit'
    BY <1>0, <2>4, BoundFinite, ToldKeeps DEF IInv, BoundLimit
  <2> QED
    BY <2>1, <2>3, <2>5 DEF IInv
<1>3. CASE CloseEvent(c)
  <2>1. pool' \in [Relay -> Chan \cup {NoChan}] /\ PoolBound'
    BY <1>3, PoolStays DEF CloseEvent, Forget, IInv, TypeOK, PoolTypeOK
  <2>2. /\ bound' \subseteq Relay /\ relays' \in [Relay -> AnyChan] /\ role' \in Roles
        /\ Cardinality(bound') <= Cardinality(bound)
        /\ Cardinality(bound') \in Nat
    <3>1. CASE c \in handler
      <4>1. Unbind({to[c]}) /\ {to[c]} \in SUBSET Relay
        BY <1>3, <3>1 DEF CloseEvent, IInv, TypeOK, PoolTypeOK
      <4> QED
        BY <4>1, UnbindKeeps DEF IInv
    <3>2. CASE c \notin handler
      BY <1>3, <3>2, BoundFinite DEF CloseEvent, IInv, TypeOK, edgeVars
    <3> QED
      BY <3>1, <3>2
  <2>3. TypeOK'
    BY <1>0, <1>3, <2>1, <2>2
    DEF CloseEvent, Forget, IInv, TypeOK, PoolTypeOK, Phases, edgeVars
  <2>4. isMaintaining' = isMaintaining
    BY <1>3 DEF CloseEvent
  <2>5. Calls' /\ Alone' /\ Room'
    BY <1>0, <2>2, <2>4, BoundFinite, ToldKeeps DEF IInv
  <2>6. BoundLimit'
    BY <2>2, BoundFinite, RendezvousAssumption DEF IInv, BoundLimit
  <2> QED
    BY <2>1, <2>3, <2>5, <2>6 DEF IInv
<1> QED
  BY <1>1, <1>2, <1>3

LEMMA RelaySteps ==
    ASSUME IInv, NEW c \in Chan,
           RelayAccepts(c) \/ RelayRejects(c) \/ RelayLoses(c)
    PROVE  IInv'
<1>1. bound' = bound /\ maint' = maint /\ isMaintaining' = isMaintaining /\ pool' = pool
  BY DEF RelayAccepts, RelayRejects, RelayLoses, edgeVars, poolVars
<1>2. TypeOK'
  <2>1. CASE RelayAccepts(c)
    BY <2>1 DEF RelayAccepts, IInv, TypeOK, PoolTypeOK, edgeVars, poolVars, AnyChan
  <2>2. CASE RelayRejects(c)
    BY <2>2, RendezvousAssumption
    DEF RelayRejects, Fault, IInv, TypeOK, PoolTypeOK, edgeVars, poolVars
  <2>3. CASE RelayLoses(c)
    <3>1. faults' \in 0..MaxFaults
      BY <2>3, RendezvousAssumption DEF RelayLoses, Fault, IInv, TypeOK
    <3>2. tunnel' \in [Relay -> AnyChan]
      BY <2>3 DEF RelayLoses, IInv, TypeOK, AnyChan
    <3> QED
      BY <2>3, <3>1, <3>2 DEF RelayLoses, IInv, TypeOK, PoolTypeOK, edgeVars, poolVars
  <2> QED
    BY <2>1, <2>2, <2>3
<1>3. PoolBound'
  BY <1>1 DEF IInv, PoolBound, Pooled
<1> QED
  BY <1>1, <1>2, <1>3, CallsStay, LimitsStay DEF IInv

LEMMA OtherSenderStep ==
    ASSUME IInv, NEW r \in Relay, OtherSender(r)
    PROVE  IInv'
<1>1. Open(r) /\ bound' = bound /\ maint' = maint /\ isMaintaining' = isMaintaining
  BY DEF OtherSender
<1>2. PoolTypeOK' /\ age' \in [Chan -> 0..2] /\ handler' \subseteq Chan /\ PoolBound'
  BY <1>1, OpenTyped DEF IInv, PoolBound
<1>3. faults' \in 0..MaxFaults
  BY RendezvousAssumption DEF OtherSender, Fault, IInv, TypeOK
<1>4. TypeOK'
  BY <1>2, <1>3 DEF OtherSender, IInv, TypeOK, relayVars
<1> QED
  BY <1>1, <1>2, <1>4, CallsStay, LimitsStay DEF IInv

\* The three ways a call gets hold of a channel.
LEMMA BindNextStep ==
    ASSUME IInv, NEW m \in Maintainer, NEW r \in Relay, BindNext(m, r)
    PROVE  IInv'
<1>1. maint[m].pc # "idle" /\ Cardinality(bound) < MaxRelays
  BY DEF BindNext
<1>2. bound' = bound /\ isMaintaining' = isMaintaining
  BY DEF BindNext
<1>3. pool[r] \in AnyChan /\ NoChan \in AnyChan
  BY DEF IInv, TypeOK, PoolTypeOK, AnyChan
<1>4. BoundLimit'
  BY <1>2 DEF IInv, BoundLimit
<1>5. CASE Live(pool[r]) /\ SendBind(m, r, pool[r], pool[r])
  <2>1. pool[r] \in Chan
    BY <1>3, <1>5 DEF Live, AnyChan
  <2>2. Calls' /\ Alone' /\ Room'
    BY <1>1, <1>2, <1>5, <2>1, GotoMoves DEF IInv, SendBind, Awaits, AnyChan
  <2>3. binds' \subseteq Chan /\ PoolBound'
    BY <1>5, <2>1 DEF SendBind, IInv, TypeOK, PoolBound, Pooled, poolVars
  <2>4. TypeOK'
    BY <1>5, <2>2, <2>3
    DEF SendBind, BindNext, IInv, TypeOK, PoolTypeOK, poolVars, Calls
  <2> QED
    BY <1>4, <2>2, <2>3, <2>4 DEF IInv
<1>6. CASE /\ Live(pool[r]) /\ Goto(m, "dial", r, pool[r], NoChan, FALSE)
           /\ UNCHANGED <<poolVars, age, handler, binds>>
  <2>1. pool[r] \in Chan
    BY <1>3, <1>6 DEF Live, AnyChan
  <2>2. Calls' /\ Alone' /\ Room'
    BY <1>1, <1>2, <1>3, <1>6, <2>1, GotoMoves DEF IInv, Awaits
  <2>3. PoolBound'
    BY <1>6 DEF IInv, PoolBound, Pooled, poolVars
  <2>4. TypeOK'
    BY <1>6, <2>2 DEF BindNext, IInv, TypeOK, PoolTypeOK, poolVars, Calls
  <2> QED
    BY <1>4, <2>2, <2>3, <2>4 DEF IInv
<1>7. CASE Open(r) /\ Goto(m, "dial", r, pool'[r], NoChan, TRUE) /\ UNCHANGED binds
  <2>1. /\ PoolTypeOK' /\ age' \in [Chan -> 0..2] /\ handler' \subseteq Chan
        /\ pool'[r] \in Chan /\ PoolBound'
    BY <1>7, OpenTyped DEF IInv, PoolBound
  <2>2. Calls' /\ Alone' /\ Room'
    BY <1>1, <1>2, <1>3, <1>7, <2>1, GotoMoves DEF IInv, Awaits
  <2>3. TypeOK'
    BY <1>7, <2>1, <2>2 DEF BindNext, IInv, TypeOK, Calls
  <2> QED
    BY <1>4, <2>1, <2>2, <2>3 DEF IInv
<1> QED
  BY <1>5, <1>6, <1>7 DEF BindNext

LEMMA DialedStep ==
    ASSUME IInv, NEW m \in Maintainer, Dialed(m)
    PROVE  IInv'
<1> DEFINE r == maint[m].r
           c == maint[m].c
<1>1. maint[m].pc = "dialed"
  BY DEF Dialed
<1>2. bound' = bound /\ isMaintaining' = isMaintaining
  BY DEF Dialed
<1>3. r \in Relay /\ c \in Chan /\ Cardinality(bound) < MaxRelays
  BY <1>1 DEF IInv, Calls, CallOK, Room, Awaits, Progress
<1>4. BoundLimit'
  BY <1>2 DEF IInv, BoundLimit
<1>5. \/ Live(pool[r]) /\ SendBind(m, r, c, pool[r])
      \/ /\ Live(pool[r]) /\ Goto(m, "redial", r, c, pool[r], FALSE)
         /\ UNCHANGED <<poolVars, age, handler, binds>>
      \/ Open(r) /\ Goto(m, "redial", r, c, pool'[r], TRUE) /\ UNCHANGED binds
  BY DEF Dialed
<1> HIDE DEF r, c
<1>6. pool[r] \in AnyChan
  BY <1>3 DEF IInv, TypeOK, PoolTypeOK, AnyChan
<1>7. CASE Live(pool[r]) /\ SendBind(m, r, c, pool[r])
  <2>1. pool[r] \in Chan
    BY <1>6, <1>7 DEF Live, AnyChan
  <2>2. Calls' /\ Alone' /\ Room'
    BY <1>1, <1>2, <1>3, <1>6, <1>7, <2>1, GotoMoves DEF IInv, SendBind, Awaits
  <2>3. binds' \subseteq Chan /\ PoolBound'
    BY <1>7, <2>1 DEF SendBind, IInv, TypeOK, PoolBound, Pooled, poolVars
  <2>4. TypeOK'
    BY <1>7, <2>2, <2>3 DEF SendBind, Dialed, IInv, TypeOK, PoolTypeOK, poolVars, Calls
  <2> QED
    BY <1>4, <2>2, <2>3, <2>4 DEF IInv
<1>8. CASE /\ Live(pool[r]) /\ Goto(m, "redial", r, c, pool[r], FALSE)
           /\ UNCHANGED <<poolVars, age, handler, binds>>
  <2>1. pool[r] \in Chan
    BY <1>6, <1>8 DEF Live, AnyChan
  <2>2. Calls' /\ Alone' /\ Room'
    BY <1>1, <1>2, <1>3, <1>6, <1>8, <2>1, GotoMoves DEF IInv, Awaits
  <2>3. PoolBound'
    BY <1>8 DEF IInv, PoolBound, Pooled, poolVars
  <2>4. TypeOK'
    BY <1>8, <2>2 DEF Dialed, IInv, TypeOK, PoolTypeOK, poolVars, Calls
  <2> QED
    BY <1>4, <2>2, <2>3, <2>4 DEF IInv
<1>9. CASE Open(r) /\ Goto(m, "redial", r, c, pool'[r], TRUE) /\ UNCHANGED binds
  <2>1. /\ PoolTypeOK' /\ age' \in [Chan -> 0..2] /\ handler' \subseteq Chan
        /\ pool'[r] \in Chan /\ PoolBound'
    BY <1>3, <1>9, OpenTyped DEF IInv, PoolBound
  <2>2. Calls' /\ Alone' /\ Room'
    BY <1>1, <1>2, <1>3, <1>9, <2>1, GotoMoves DEF IInv, Awaits, AnyChan
  <2>3. TypeOK'
    BY <1>9, <2>1, <2>2 DEF Dialed, IInv, TypeOK, Calls
  <2> QED
    BY <1>4, <2>1, <2>2, <2>3 DEF IInv
<1> QED
  BY <1>5, <1>7, <1>8, <1>9

LEMMA RedialedStep ==
    ASSUME IInv, NEW m \in Maintainer, Redialed(m)
    PROVE  IInv'
<1> DEFINE r == maint[m].r
           c == maint[m].c
           d == maint[m].d
<1>1. maint[m].pc = "redialed" /\ SendBind(m, r, c, d)
  BY DEF Redialed
<1>2. bound' = bound /\ isMaintaining' = isMaintaining
  BY DEF Redialed
<1>3. r \in Relay /\ c \in Chan /\ d \in Chan /\ Cardinality(bound) < MaxRelays
  BY <1>1 DEF IInv, Calls, CallOK, Room, Awaits, Progress
<1> HIDE DEF r, c, d
<1>4. Calls' /\ Alone' /\ Room'
  BY <1>1, <1>2, <1>3, GotoMoves DEF IInv, SendBind, Awaits, AnyChan
<1>5. binds' \subseteq Chan /\ PoolBound'
  BY <1>1, <1>3 DEF SendBind, IInv, TypeOK, PoolBound, Pooled, poolVars
<1>6. TypeOK'
  BY <1>1, <1>4, <1>5 DEF SendBind, Redialed, IInv, TypeOK, PoolTypeOK, poolVars, Calls
<1>7. BoundLimit'
  BY <1>2 DEF IInv, BoundLimit
<1> QED
  BY <1>4, <1>5, <1>6, <1>7 DEF IInv

\* The steps that give up on a relay or have nothing to do for it.
LEMMA PassSteps ==
    ASSUME IInv, NEW m \in Maintainer,
           NotBound(m) \/ \E r \in Relay : Refused(m, r)
    PROVE  IInv'
<1>1. /\ maint[m].pc # "idle"
      /\ bound' = bound /\ isMaintaining' = isMaintaining /\ pool' = pool
  BY DEF Refused, NotBound, edgeVars, poolVars
<1>2. Calls' /\ Alone' /\ Room'
  <2>1. CASE Advance(m)
    BY <1>1, <2>1, AdvanceMoves DEF IInv
  <2>2. ASSUME NEW r \in Relay, Refused(m, r)
        PROVE  Calls' /\ Alone' /\ Room'
    <3>1. maint' = [maint EXCEPT ![m] = [Idle EXCEPT !.pc = "next", !.todo = maint[m].todo \ {r}]]
      BY <2>2 DEF Refused
    <3>2. maint[m].todo \ {r} \in SUBSET Relay
      BY DEF IInv, Calls, Progress
    <3> QED
      BY <1>1, <3>1, <3>2, NextMoves DEF IInv
  <2> QED
    BY <2>1, <2>2 DEF NotBound
<1>3. faults' \in 0..MaxFaults
  <2>1. faults' = faults \/ Fault
    BY DEF Refused, NotBound
  <2> QED
    BY <2>1, RendezvousAssumption DEF Fault, IInv, TypeOK
<1>4. TypeOK'
  BY <1>2, <1>3
  DEF Refused, NotBound, IInv, TypeOK, PoolTypeOK,
      edgeVars, poolVars, relayVars, Calls
<1>5. BoundLimit' /\ PoolBound'
  BY <1>1 DEF IInv, BoundLimit, PoolBound, Pooled
<1> QED
  BY <1>2, <1>4, <1>5 DEF IInv

\* One more relay is bound: there was room for it before the first await and
\* no other call ran since.
LEMMA BindStep ==
    ASSUME IInv, NEW m \in Maintainer, Bind(m)
    PROVE  IInv'
<1> DEFINE r == maint[m].r
           c == maint[m].c
<1>1. /\ maint[m].pc = "reply" /\ Advance(m) /\ isMaintaining' = isMaintaining
      /\ bound' = bound \cup {r} /\ relays' = [relays EXCEPT ![r] = c]
      /\ role' = Checked(bound') /\ handler' = handler \cup {c}
  BY DEF Bind
<1>2. r \in Relay /\ c \in Chan /\ Cardinality(bound) < MaxRelays
  BY <1>1 DEF IInv, Calls, CallOK, Room, Awaits, Progress
<1> HIDE DEF r, c
<1>3. Calls' /\ Alone' /\ Room'
  BY <1>1, AdvanceMoves DEF IInv
<1>4. BoundLimit'
  <2>1. IsFiniteSet(bound) /\ Cardinality(bound) \in Nat
    BY BoundFinite DEF IInv
  <2>2. Cardinality(bound \cup {r})
          = IF r \in bound THEN Cardinality(bound) ELSE Cardinality(bound) + 1
    BY <2>1, FS_AddElement
  <2>3. Cardinality(bound \cup {r}) <= MaxRelays
    BY <1>2, <2>1, <2>2, RendezvousAssumption
  <2> QED
    BY <1>1, <2>3 DEF BoundLimit
<1>5. role' \in Roles
  BY <1>1 DEF Checked, Roles, IInv, TypeOK
<1>6. relays' \in [Relay -> AnyChan]
  BY <1>1, <1>2 DEF IInv, TypeOK, AnyChan
<1>7. TypeOK'
  BY <1>1, <1>2, <1>3, <1>5, <1>6
  DEF Bind, IInv, TypeOK, PoolTypeOK, poolVars, Calls
<1>8. PoolBound'
  BY DEF Bind, IInv, PoolBound, Pooled, poolVars
<1> QED
  BY <1>3, <1>4, <1>7, <1>8 DEF IInv

LEMMA EndsStep ==
    ASSUME IInv, NEW m \in Maintainer, Maintained(m)
    PROVE  IInv'
<1>1. /\ maint[m].pc = "next" /\ maint' = [maint EXCEPT ![m] = Idle]
      /\ isMaintaining' = FALSE /\ bound' = bound /\ pool' = pool
  BY DEF Maintained, edgeVars, poolVars
<1>2. Idle \in Progress /\ Idle.pc = "idle"
  BY IdleTyped DEF Idle
<1>3. maint' \in [Maintainer -> Progress] /\ \A n \in Maintainer : maint'[n].pc = "idle"
  BY <1>1, <1>2 DEF IInv, Calls, Alone
<1>4. Calls' /\ Alone' /\ Room'
  BY <1>3 DEF Calls, CallOK, Alone, Room, Awaits
<1>5. TypeOK'
  BY <1>1, <1>3 DEF Maintained, IInv, TypeOK, PoolTypeOK, edgeVars, poolVars, relayVars
<1>6. BoundLimit' /\ PoolBound'
  BY <1>1 DEF IInv, BoundLimit, PoolBound, Pooled
<1> QED
  BY <1>4, <1>5, <1>6 DEF IInv

LEMMA StartsStep ==
    ASSUME IInv, NEW m \in Maintainer, Maintain(m)
    PROVE  IInv'
<1>1. PICK T \in SUBSET Relay : maint' = [maint EXCEPT ![m].pc = "next", ![m].todo = T]
  BY DEF Maintain
<1>2. ~isMaintaining /\ isMaintaining' /\ bound' = bound /\ pool' = pool
  BY DEF Maintain, edgeVars, poolVars
<1>3. Calls' /\ Alone' /\ Room'
  BY <1>1, <1>2, CallStarts DEF IInv
<1>4. TypeOK'
  BY <1>3 DEF Maintain, IInv, TypeOK, PoolTypeOK, edgeVars, poolVars, relayVars, Calls
<1>5. BoundLimit' /\ PoolBound'
  BY <1>2 DEF IInv, BoundLimit, PoolBound, Pooled
<1> QED
  BY <1>3, <1>4, <1>5 DEF IInv

LEMMA VerdictStep ==
    ASSUME IInv, NEW r \in NatRoles, NatVerdict(r)
    PROVE  IInv'
<1>1. /\ bound' = bound /\ maint' = maint /\ isMaintaining' = isMaintaining /\ pool' = pool
  BY DEF NatVerdict, poolVars
<1>2. TypeOK'
  BY RendezvousAssumption
  DEF NatVerdict, Fault, IInv, TypeOK, PoolTypeOK, poolVars, relayVars, Roles
<1>3. PoolBound'
  BY <1>1 DEF IInv, PoolBound, Pooled
<1> QED
  BY <1>1, <1>2, <1>3, CallsStay, LimitsStay DEF IInv

LEMMA HeartbeatStep ==
    ASSUME IInv, Heartbeat
    PROVE  IInv'
<1> DEFINE drop == IF role = "RELAY" THEN {} ELSE Lost \cup Zombie
<1>1. drop \in SUBSET Relay
  BY DEF Lost, Zombie, IInv, TypeOK
<1>2. age' \in [Chan -> 0..2]
  <2>1. ASSUME NEW L, Aged(L) PROVE age' \in [Chan -> 0..2]
    BY <2>1 DEF Aged, IInv, TypeOK
  <2>2. \E L : Aged(L)
    BY DEF Heartbeat
  <2> QED
    BY <2>1, <2>2
<1>3. faults' \in 0..MaxFaults
  <2>1. faults' = faults \/ Fault
    BY DEF Heartbeat
  <2> QED
    BY <2>1, RendezvousAssumption DEF Fault, IInv, TypeOK
<1>4. /\ swept' \in BOOLEAN /\ to' = to /\ handler' = handler
      /\ rend' = rend /\ tunnel' = tunnel /\ binds' = binds /\ acks' = acks
  BY DEF Heartbeat, relayVars
<1>5. CASE drop = {}
  <2>1. UNCHANGED <<phase, pool, role, bound, relays, isMaintaining, maint>>
    BY <1>5 DEF Heartbeat
  <2>2. TypeOK'
    BY <1>2, <1>3, <1>4, <2>1 DEF IInv, TypeOK, PoolTypeOK
  <2>3. PoolBound'
    BY <2>1 DEF IInv, PoolBound, Pooled
  <2> QED
    BY <2>1, <2>2, <2>3, CallsStay, LimitsStay DEF IInv
<1>6. CASE drop # {}
  <2>1. /\ phase' = Destroyed({pool[r] : r \in Zombie})
        /\ pool' = [r \in Relay |-> IF r \in Zombie THEN NoChan ELSE pool[r]]
        /\ Unbind(drop) /\ isMaintaining'
        /\ \/ isMaintaining /\ maint' = maint
           \/ /\ ~isMaintaining
              /\ \E m \in Maintainer, T \in SUBSET Relay :
                   maint' = [maint EXCEPT ![m].pc = "next", ![m].todo = T]
    BY <1>6 DEF Heartbeat
  <2> HIDE DEF drop
  <2>2. /\ bound' \subseteq Relay /\ relays' \in [Relay -> AnyChan] /\ role' \in Roles
        /\ Cardinality(bound') <= Cardinality(bound) /\ Cardinality(bound') \in Nat
    BY <1>1, <2>1, UnbindKeeps DEF IInv
  <2>3. Cardinality(bound) \in Nat
    BY BoundFinite DEF IInv
  <2>4. Calls' /\ Alone' /\ Room'
    <3>1. CASE isMaintaining /\ maint' = maint
      <4>1. Calls' /\ Alone'
        BY <2>1, <3>1, CallsStay DEF IInv
      <4>2. Room'
        BY <2>2, <2>3, <3>1, RendezvousAssumption DEF IInv, Room
      <4> QED
        BY <4>1, <4>2
    <3>2. CASE ~isMaintaining
      BY <2>1, <3>2, CallStarts DEF IInv
    <3> QED
      BY <2>1, <3>1, <3>2
  <2>5. BoundLimit'
    BY <2>2, <2>3, RendezvousAssumption DEF IInv, BoundLimit
  <2>6. pool' \in [Relay -> Chan \cup {NoChan}] /\ PoolBound'
    <3>1. pool' \in [Relay -> Chan \cup {NoChan}] /\ Pooled' \subseteq Pooled
      BY <2>1 DEF IInv, TypeOK, PoolTypeOK, Pooled
    <3> QED
      BY <3>1, FewerPooled DEF IInv, TypeOK, PoolBound
  <2>7. phase' \in [Chan -> Phases]
    BY <2>1 DEF Destroyed, IInv, TypeOK, PoolTypeOK, Phases
  <2>8. TypeOK'
    BY <1>2, <1>3, <1>4, <2>1, <2>2, <2>4, <2>6, <2>7 DEF IInv, TypeOK, PoolTypeOK, Calls
  <2> QED
    BY <2>4, <2>5, <2>6, <2>8 DEF IInv
<1> QED
  BY <1>5, <1>6

LEMMA InitHolds == Init => IInv
<1> SUFFICES ASSUME Init PROVE IInv
  OBVIOUS
<1>1. TypeOK
  <2>1. maint \in [Maintainer -> Progress]
    BY IdleTyped DEF Init
  <2>2. PoolTypeOK
    BY AnyRelayTyped DEF Init, PoolInit, PoolTypeOK, Phases
  <2>3. relays \in [Relay -> AnyChan] /\ tunnel \in [Relay -> AnyChan] /\ role \in Roles
    BY DEF Init, Roles, AnyChan
  <2>4. age \in [Chan -> 0..2] /\ faults \in 0..MaxFaults
    BY RendezvousAssumption DEF Init
  <2> QED
    BY <2>1, <2>2, <2>3, <2>4 DEF Init, TypeOK
<1>2. \A m \in Maintainer : maint[m].pc = "idle"
  BY DEF Init, Idle
<1>3. Calls /\ Alone /\ Room
  BY <1>1, <1>2 DEF TypeOK, Calls, CallOK, Alone, Room, Awaits
<1>4. BoundLimit
  <2>1. Cardinality(bound) = 0
    BY FS_EmptySet DEF Init
  <2> QED
    BY <2>1, RendezvousAssumption DEF BoundLimit
<1>5. PoolBound
  <2>1. Pooled = {}
    BY DEF Init, PoolInit, Pooled
  <2>2. Cardinality(Pooled) = 0
    BY <2>1, FS_EmptySet
  <2> QED
    BY <2>2, PoolAssumption DEF PoolBound
<1> QED
  BY <1>1, <1>3, <1>4, <1>5 DEF IInv

LEMMA StepHolds == IInv /\ [Next]_vars => IInv'
<1> SUFFICES ASSUME IInv, [Next]_vars PROVE IInv'
  OBVIOUS
<1>1. ASSUME NEW r \in Contacted, OtherSender(r) PROVE IInv'
  BY <1>1, OtherSenderStep, RendezvousAssumption
<1>2. ASSUME NEW c \in Chan, HandshakeDone(c) \/ EdgeBreak(c) \/ CloseEvent(c) PROVE IInv'
  BY <1>2, ChannelSteps
<1>3. ASSUME NEW c \in Chan, RelayAccepts(c) \/ RelayRejects(c) \/ RelayLoses(c) PROVE IInv'
  BY <1>3, RelaySteps
<1>4. ASSUME NEW m \in Maintainer, MaintStep(m) PROVE IInv'
  BY <1>4, BindNextStep, DialedStep, RedialedStep, PassSteps, BindStep, EndsStep DEF MaintStep
<1>5. ASSUME NEW m \in Maintainer, Maintain(m) PROVE IInv'
  BY <1>5, StartsStep
<1>6. CASE Heartbeat
  BY <1>6, HeartbeatStep
<1>7. ASSUME NEW r \in NatRoles, NatVerdict(r) PROVE IInv'
  BY <1>7, VerdictStep
<1>8. CASE UNCHANGED vars
  <2>1. UNCHANGED <<phase, to, pool, role, bound, relays, handler, age, isMaintaining,
                    swept, maint, rend, tunnel, binds, acks, faults>>
    BY <1>8 DEF vars, poolVars, edgeVars, relayVars
  <2>2. TypeOK'
    BY <2>1 DEF IInv, TypeOK, PoolTypeOK
  <2>3. PoolBound'
    BY <2>1 DEF IInv, PoolBound, Pooled
  <2> QED
    BY <2>1, <2>2, <2>3, CallsStay, LimitsStay DEF IInv
<1> QED
  BY <1>1, <1>2, <1>3, <1>4, <1>5, <1>6, <1>7, <1>8 DEF Next, Event

LEMMA Invariance == Spec => []IInv
BY InitHolds, StepHolds, PTL DEF Spec

\* The pool, the calls of maintenance and the relays' side are typed.
THEOREM TypeCorrect == Spec => []TypeOK
<1>1. IInv => TypeOK
  BY DEF IInv
<1> QED
  BY <1>1, Invariance, PTL

\* The pool keeps within its size for every size, also when a close handler
\* deletes an entry that is not its own.
THEOREM PoolStaysBounded == Spec => []PoolBound
<1>1. IInv => PoolBound
  BY DEF IInv
<1> QED
  BY <1>1, Invariance, PTL

\* The number of bound relays keeps within its limit although the check and
\* the bind are three awaits apart.
THEOREM BoundStaysLimited == Spec => []BoundLimit
<1>1. IInv => BoundLimit
  BY DEF IInv
<1> QED
  BY <1>1, Invariance, PTL
-----------------------------------------------------------------------------
(* The role                                                                 *)

LEMMA CheckedRole ==
    ASSUME role' = Checked(bound') \/ role' \in {"EDGE", "RELAY"} \/ UNCHANGED <<role, bound>>,
           TransitRole
    PROVE  TransitRole'
BY DEF Checked, TransitRole

\* A run of the maintenance binds only in Bind, and never touches the relays.
LEMMA MaintQuiet ==
    ASSUME NEW m \in Maintainer, MaintStep(m)
    PROVE  tunnel' = tunnel /\ (Bind(m) \/ UNCHANGED <<role, bound>>)
<1>1. ASSUME NEW r \in Relay, BindNext(m, r)
      PROVE  UNCHANGED <<role, bound, tunnel>>
  BY <1>1 DEF BindNext
<1>2. ASSUME NEW r \in Relay, Refused(m, r)
      PROVE  UNCHANGED <<role, bound, tunnel>>
  BY <1>2 DEF Refused, edgeVars, relayVars
<1>3. Dialed(m) \/ Redialed(m) => UNCHANGED <<role, bound, tunnel>>
  BY DEF Dialed, Redialed
<1>4. NotBound(m) \/ Maintained(m) => UNCHANGED <<role, bound, tunnel>>
  BY DEF NotBound, Maintained, edgeVars, relayVars
<1>5. Bind(m) => tunnel' = tunnel
  BY DEF Bind
<1> QED
  BY <1>1, <1>2, <1>3, <1>4, <1>5 DEF MaintStep

\* The role is only ever that of a transit edge while enough relays are bound.
THEOREM RoleHonest == Spec => []TransitRole
<1>1. Init => TransitRole
  BY DEF Init, TransitRole
<1>2. TransitRole /\ [Next]_vars => TransitRole'
  <2> SUFFICES ASSUME TransitRole, [Next]_vars PROVE TransitRole'
    OBVIOUS
  <2>1. CASE \/ \E r \in Contacted : OtherSender(r)
             \/ \E c \in Chan : HandshakeDone(c) \/ EdgeBreak(c)
             \/ \E c \in Chan : RelayAccepts(c) \/ RelayRejects(c) \/ RelayLoses(c)
             \/ \E m \in Maintainer : Maintain(m) \/ (MaintStep(m) /\ ~Bind(m))
             \/ UNCHANGED vars
    <3>1. CASE \E r \in Contacted : OtherSender(r)
      BY <3>1, CheckedRole DEF OtherSender
    <3>2. ASSUME NEW c \in Chan, HandshakeDone(c) \/ EdgeBreak(c)
          PROVE  TransitRole'
      BY <3>2, CheckedRole DEF HandshakeDone, EdgeBreak, edgeVars
    <3>3. ASSUME NEW c \in Chan, RelayAccepts(c) \/ RelayRejects(c) \/ RelayLoses(c)
          PROVE  TransitRole'
      BY <3>3, CheckedRole DEF RelayAccepts, RelayRejects, RelayLoses, edgeVars
    <3>4. ASSUME NEW m \in Maintainer, Maintain(m) \/ (MaintStep(m) /\ ~Bind(m))
          PROVE  TransitRole'
      <4>1. UNCHANGED <<role, bound>>
        BY <3>4, MaintQuiet DEF Maintain, edgeVars
      <4> QED
        BY <4>1, CheckedRole
    <3>5. CASE UNCHANGED vars
      BY <3>5, CheckedRole DEF vars, edgeVars
    <3> QED
      BY <2>1, <3>1, <3>2, <3>3, <3>4, <3>5
  <2>2. ASSUME NEW c \in Chan, CloseEvent(c) PROVE TransitRole'
    <3>1. role' = Checked(bound') \/ UNCHANGED <<role, bound>>
      BY <2>2 DEF CloseEvent, Unbind, edgeVars
    <3> QED
      BY <3>1, CheckedRole
  <2>3. ASSUME NEW m \in Maintainer, Bind(m) PROVE TransitRole'
    <3>1. role' = Checked(bound')
      BY <2>3 DEF Bind
    <3> QED
      BY <3>1, CheckedRole
  <2>4. CASE Heartbeat
    <3>1. role' = Checked(bound') \/ UNCHANGED <<role, bound>>
      BY <2>4 DEF Heartbeat, Unbind
    <3> QED
      BY <3>1, CheckedRole
  <2>5. ASSUME NEW r \in NatRoles, NatVerdict(r) PROVE TransitRole'
    <3>1. role' \in {"EDGE", "RELAY"}
      BY <2>5, RendezvousAssumption DEF NatVerdict
    <3> QED
      BY <3>1, CheckedRole
  <2> QED
    BY <2>1, <2>2, <2>3, <2>4, <2>5 DEF Next, Event
<1> QED
  BY <1>1, <1>2, PTL DEF Spec
-----------------------------------------------------------------------------
(* The relay's tunnels                                                      *)

\* A step that takes a relay's tunnel away takes its channel's relay end along.
LEMMA TunnelSteps ==
    ASSUME TypeOK, [Next]_vars, NEW r \in Relay,
           tunnel[r] # NoChan, tunnel'[r] = NoChan
    PROVE  tunnel[r] \notin rend'
<1>1. CASE \/ \E x \in Contacted : OtherSender(x)
           \/ \E c \in Chan : HandshakeDone(c) \/ EdgeBreak(c) \/ CloseEvent(c) \/ RelayRejects(c)
           \/ \E m \in Maintainer : Maintain(m) \/ MaintStep(m)
           \/ Heartbeat
           \/ \E x \in NatRoles : NatVerdict(x)
           \/ UNCHANGED vars
  <2>1. CASE \E x \in Contacted : OtherSender(x)
    BY <2>1 DEF OtherSender, relayVars
  <2>2. CASE \E c \in Chan : HandshakeDone(c) \/ EdgeBreak(c) \/ CloseEvent(c) \/ RelayRejects(c)
    BY <2>2 DEF HandshakeDone, EdgeBreak, CloseEvent, RelayRejects, relayVars
  <2>3. CASE \E m \in Maintainer : Maintain(m) \/ MaintStep(m)
    BY <2>3, MaintQuiet DEF Maintain, relayVars
  <2>4. CASE Heartbeat \/ UNCHANGED vars
    BY <2>4 DEF Heartbeat, vars, relayVars
  <2>5. CASE \E x \in NatRoles : NatVerdict(x)
    BY <2>5 DEF NatVerdict, relayVars
  <2> QED
    BY <1>1, <2>1, <2>2, <2>3, <2>4, <2>5
<1>2. ASSUME NEW c \in Chan, RelayAccepts(c) PROVE FALSE
  <2>1. tunnel' = [tunnel EXCEPT ![to[c]] = c]
    BY <1>2 DEF RelayAccepts
  <2> QED
    BY <2>1, PoolAssumption DEF TypeOK
<1>3. ASSUME NEW c \in Chan, RelayLoses(c) PROVE tunnel[r] \notin rend'
  <2>1. /\ tunnel' = [tunnel EXCEPT ![to[c]] = IF @ = c THEN NoChan ELSE @]
        /\ rend' = rend \ {c}
    BY <1>3 DEF RelayLoses
  <2>2. tunnel[r] = c
    BY <2>1 DEF TypeOK
  <2> QED
    BY <2>1, <2>2
<1> QED
  BY <1>1, <1>2, <1>3 DEF Next, Event

\* A relay gives up its tunnel for the edge only when that tunnel's own channel
\* is gone: a channel that was replaced and closes late leaves the new one.
THEOREM TunnelEndsWithChannel == Spec => TunnelKept
<1>1. TypeOK /\ [Next]_vars =>
        [\A r \in Relay :
            tunnel[r] # NoChan /\ tunnel'[r] = NoChan => tunnel[r] \notin rend']_vars
  BY TunnelSteps
<1> QED
  BY <1>1, TypeCorrect, PTL DEF Spec, TunnelKept
-----------------------------------------------------------------------------
(* Whom the edge counts on                                                  *)

\* An entry of the pool leads to its address over a channel that is in use.
Held ==
    \A r \in Relay : pool[r] # NoChan => to[pool[r]] = r /\ phase[pool[r]] # "closed"

\* A running call awaits a relay that is not bound yet, and awaits its answer
\* on a channel that was opened to that relay and to no other since.
AimOK(p) ==
    /\ p.pc \in Awaits => p.r \notin bound
    /\ p.pc \in {"redial", "redialed", "reply"} => to[p.d] = p.r

Aimed == \A m \in Maintainer : AimOK(maint[m])

\* A new channel replaces none that is in use: its address is its relay's,
\* and the channels in the pool, of awaits and of answers keep theirs.
LEMMA OpenAims ==
    ASSUME TypeOK, Held, NEW r \in Relay, Open(r)
    PROVE  /\ Held' /\ pool'[r] \in Chan /\ to'[pool'[r]] = r
           /\ \A c \in Chan \ Free : to'[c] = to[c]
<1> DEFINE c == CHOOSE x \in Free : TRUE
<1>1. c \in Free
  BY DEF Open
<1>2. Dial(r, c)
  BY DEF Open
<1> HIDE DEF c
<1>3. c \in Chan /\ phase[c] = "closed"
  BY <1>1 DEF Free
<1>4. pool' \in [Relay -> Chan \cup {NoChan}] /\ pool'[r] = c
  BY <1>2, <1>3, OpenedTyped DEF Dial, TypeOK
<1>5. \A x \in Relay \ {r} : pool'[x] # NoChan => pool'[x] = pool[x]
  <2>1. pool \in [Relay -> Chan \cup {NoChan}] /\ pool' \in Opened(r, c)
    BY <1>2 DEF Dial, TypeOK, PoolTypeOK
  <2>2. \A e \in Pooled : e \in Relay
    BY DEF Pooled
  <2> QED
    BY <2>1, <2>2 DEF Opened
<1>6. to' = [to EXCEPT ![c] = r] /\ to \in [Chan -> Relay]
  BY <1>2 DEF Dial, TypeOK, PoolTypeOK
<1>7. to'[c] = r /\ \A x \in Chan \ {c} : to'[x] = to[x]
  BY <1>3, <1>6
<1>8. phase \in [Chan -> Phases]
  BY DEF TypeOK, PoolTypeOK
<1>9. \A x \in Chan : phase'[x] = "closed" => phase[x] = "closed" /\ x # c
  <2>1. PICK D : phase' = [Destroyed(D) EXCEPT ![c] = "dialing"]
    BY <1>2 DEF Dial
  <2>2. \A x \in Chan : phase'[x] = IF x = c THEN "dialing" ELSE Destroyed(D)[x]
    BY <1>3, <2>1 DEF Destroyed
  <2>3. \A x \in Chan : Destroyed(D)[x] \in {"dying", phase[x]}
    BY DEF Destroyed
  <2> QED
    BY <2>2, <2>3
<1>10. ASSUME NEW x \in Relay, pool'[x] # NoChan
       PROVE  to'[pool'[x]] = x /\ phase'[pool'[x]] # "closed"
  <2>1. CASE x = r
    BY <1>3, <1>4, <1>7, <1>9, <2>1
  <2>2. CASE x # r
    <3>1. pool'[x] = pool[x] /\ pool[x] \in Chan
      BY <1>4, <1>5, <1>10, <2>2
    <3>2. to[pool[x]] = x /\ phase[pool[x]] # "closed"
      BY <1>10, <3>1 DEF Held
    <3>3. pool[x] # c
      BY <1>3, <3>2
    <3> QED
      BY <1>7, <1>9, <3>1, <3>2, <3>3
  <2> QED
    BY <2>1, <2>2
<1>11. Held'
  BY <1>10 DEF Held
<1> QED
  BY <1>1, <1>3, <1>4, <1>7, <1>11

\* Entries that stay lead where they led.
LEMMA HeldStays ==
    ASSUME Held, to' = to,
           \A r \in Relay : pool'[r] # NoChan =>
               /\ pool'[r] = pool[r]
               /\ phase[pool[r]] # "closed" => phase'[pool[r]] # "closed"
    PROVE  Held'
<1>1. ASSUME NEW r \in Relay, pool'[r] # NoChan
      PROVE  to'[pool'[r]] = r /\ phase'[pool'[r]] # "closed"
  <2>1. pool'[r] = pool[r] /\ (phase[pool[r]] # "closed" => phase'[pool[r]] # "closed")
    BY <1>1
  <2>2. to[pool[r]] = r /\ phase[pool[r]] # "closed"
    BY <1>1, <2>1 DEF Held
  <2> QED
    BY <2>1, <2>2
<1> QED
  BY <1>1 DEF Held

\* No call moves, no relay is bound and the channels of awaits are the same.
LEMMA AimedStays ==
    ASSUME Calls, Aimed, maint' = maint, bound' \subseteq bound,
           \A m \in Maintainer :
               maint[m].pc \in {"redial", "redialed", "reply"} => to'[maint[m].d] = to[maint[m].d]
    PROVE  Aimed'
<1>1. ASSUME NEW m \in Maintainer
      PROVE  /\ maint[m].pc \in Awaits => maint[m].r \notin bound'
             /\ maint[m].pc \in {"redial", "redialed", "reply"} => to'[maint[m].d] = maint[m].r
  <2>1. AimOK(maint[m])
    BY DEF Aimed
  <2> QED
    BY <2>1 DEF AimOK
<1> QED
  BY <1>1 DEF Aimed, AimOK

\* The one call that runs moves on.
LEMMA AimMoves ==
    ASSUME Calls, Alone, NEW m \in Maintainer, maint[m].pc # "idle", NEW q,
           maint' = [maint EXCEPT ![m] = q],
           q.pc \in Awaits => q.r \notin bound',
           q.pc \in {"redial", "redialed", "reply"} => to'[q.d] = q.r
    PROVE  Aimed'
<1>1. maint'[m] = q
  BY DEF Calls
<1>2. \A n \in Maintainer \ {m} : maint'[n] = maint[n] /\ maint[n].pc = "idle"
  BY DEF Calls, Alone
<1>3. ASSUME NEW n \in Maintainer
      PROVE  /\ maint'[n].pc \in Awaits => maint'[n].r \notin bound'
             /\ maint'[n].pc \in {"redial", "redialed", "reply"} => to'[maint'[n].d] = maint'[n].r
  <2>1. CASE n = m
    BY <1>1, <2>1
  <2>2. CASE n # m
    BY <1>2, <2>2 DEF Awaits
  <2> QED
    BY <2>1, <2>2
<1> QED
  BY <1>3 DEF Aimed, AimOK

LEMMA AimGoto ==
    ASSUME Calls, Alone, NEW m \in Maintainer, maint[m].pc # "idle",
           NEW pc, NEW r, NEW c, NEW d, NEW own,
           Goto(m, pc, r, c, d, own), r \notin bound',
           pc \in {"redial", "redialed", "reply"} => to'[d] = r
    PROVE  Aimed'
<1> DEFINE q == [pc |-> pc, todo |-> maint[m].todo \ {r}, r |-> r, c |-> c, d |-> d,
                 own |-> own]
<1>1. q.pc = pc /\ q.r = r /\ q.d = d
  OBVIOUS
<1>2. maint' = [maint EXCEPT ![m] = q]
  BY DEF Goto
<1> HIDE DEF q
<1> QED
  BY <1>1, <1>2, AimMoves

LEMMA AimNext ==
    ASSUME Calls, Alone, NEW m \in Maintainer, maint[m].pc # "idle", NEW T,
           maint' = [maint EXCEPT ![m] = [Idle EXCEPT !.pc = "next", !.todo = T]]
    PROVE  Aimed'
<1> DEFINE q == [Idle EXCEPT !.pc = "next", !.todo = T]
<1>1. q.pc \notin Awaits /\ q.pc \notin {"redial", "redialed", "reply"}
  BY DEF Idle, Awaits
<1>2. maint' = [maint EXCEPT ![m] = q]
  OBVIOUS
<1> HIDE DEF q
<1> QED
  BY <1>1, <1>2, AimMoves
-----------------------------------------------------------------------------
LEMMA ChannelAims ==
    ASSUME TypeOK, Calls, Held, Aimed, NEW c \in Chan,
           HandshakeDone(c) \/ EdgeBreak(c) \/ CloseEvent(c)
    PROVE  Held' /\ Aimed'
<1>1. phase \in [Chan -> Phases] /\ pool \in [Relay -> Chan \cup {NoChan}]
      /\ to \in [Chan -> Relay]
  BY DEF TypeOK, PoolTypeOK
<1>2. to' = to /\ bound' \subseteq bound
  BY DEF HandshakeDone, Ready, EdgeBreak, Break, CloseEvent, Forget, Unbind, edgeVars
<1>3. Aimed'
  <2>1. ASSUME NEW m \in Maintainer
        PROVE  /\ maint'[m].pc \in Awaits => maint'[m].r \notin bound'
               /\ maint'[m].pc \in {"redial", "redialed", "reply"}
                    => to'[maint'[m].d] = maint'[m].r
    <3>1. Told(maint[m], maint'[m])
      BY ChannelTells
    <3>2. /\ maint[m].pc \in Awaits => maint[m].r \notin bound'
          /\ maint[m].pc \in {"redial", "redialed", "reply"} => to'[maint[m].d] = maint[m].r
      BY <1>2 DEF Aimed, AimOK
    <3> QED
      BY <3>1, <3>2 DEF Told, Awaits
  <2> QED
    BY <2>1 DEF Aimed, AimOK
<1>4. CASE HandshakeDone(c) \/ EdgeBreak(c)
  <2>1. \A x \in Chan : phase[x] # "closed" => phase'[x] # "closed"
    BY <1>1, <1>4 DEF HandshakeDone, Ready, EdgeBreak, Break
  <2>2. \A r \in Relay : pool'[r] # NoChan => pool'[r] = pool[r]
    BY <1>1, <1>4 DEF HandshakeDone, Ready, EdgeBreak, Break
  <2> QED
    BY <1>1, <1>2, <1>3, <2>1, <2>2, HeldStays
<1>5. CASE CloseEvent(c)
  <2>1. phase' = [phase EXCEPT ![c] = "closed"] /\ pool' = [pool EXCEPT ![to[c]] = NoChan]
    BY <1>5 DEF CloseEvent, Forget
  <2>2. ASSUME NEW r \in Relay, pool'[r] # NoChan
        PROVE  /\ pool'[r] = pool[r]
               /\ phase[pool[r]] # "closed" => phase'[pool[r]] # "closed"
    <3>1. r # to[c] /\ pool'[r] = pool[r]
      BY <1>1, <2>1, <2>2
    <3>2. pool[r] \in Chan /\ to[pool[r]] = r
      BY <1>1, <2>2, <3>1 DEF Held
    <3>3. pool[r] # c
      BY <3>1, <3>2
    <3> QED
      BY <1>1, <2>1, <3>1, <3>2, <3>3
  <2> QED
    BY <1>2, <1>3, <2>2, HeldStays
<1> QED
  BY <1>4, <1>5

\* Neither the pool nor the calls are the relay's.
LEMMA RelayAims ==
    ASSUME Calls, Held, Aimed, UNCHANGED <<phase, pool, to, maint>>, bound' \subseteq bound
    PROVE  Held' /\ Aimed'
<1>1. Aimed'
  BY AimedStays
<1>2. Held'
  BY DEF Held
<1> QED
  BY <1>1, <1>2

LEMMA OtherSenderAims ==
    ASSUME TypeOK, Calls, Held, Aimed, NEW r \in Relay, OtherSender(r)
    PROVE  Held' /\ Aimed'
<1>1. Open(r) /\ bound' = bound /\ maint' = maint
  BY DEF OtherSender
<1>2. Held' /\ \A x \in Chan \ Free : to'[x] = to[x]
  BY <1>1, OpenAims
<1>3. ASSUME NEW m \in Maintainer, maint[m].pc \in {"redial", "redialed", "reply"}
      PROVE  to'[maint[m].d] = to[maint[m].d]
  <2>1. maint[m].d \in Chan
    BY <1>3 DEF Calls, CallOK
  <2>2. maint[m].d \notin Free
    BY <1>3 DEF Free, Awaits
  <2> QED
    BY <1>2, <2>1, <2>2
<1> QED
  BY <1>1, <1>2, <1>3, AimedStays

\* A call goes to the channel the pool has for its relay.
LEMMA LookUpAims ==
    ASSUME TypeOK, Calls, Alone, Held, NEW m \in Maintainer, NEW r \in Relay, NEW c,
           maint[m].pc # "idle", r \notin bound', NEW pc, NEW own,
           \/ SendBind(m, r, c, pool[r]) /\ Live(pool[r])
           \/ /\ Goto(m, pc, r, c, pool[r], own) /\ Live(pool[r])
              /\ UNCHANGED <<poolVars, age, handler, binds>>
           \/ Open(r) /\ Goto(m, pc, r, c, pool'[r], own)
    PROVE  Held' /\ Aimed'
<1>1. CASE Live(pool[r]) /\ ~Open(r)
  <2>1. UNCHANGED <<phase, to, pool>>
    BY <1>1 DEF SendBind, poolVars
  <2>2. to[pool[r]] = r
    BY <1>1 DEF Held, Live
  <2>3. \E q, o : Goto(m, q, r, c, pool[r], o)
    BY <1>1 DEF SendBind
  <2>4. Held'
    BY <2>1 DEF Held
  <2> QED
    BY <2>1, <2>2, <2>3, <2>4, AimGoto
<1>2. CASE Open(r) /\ Goto(m, pc, r, c, pool'[r], own)
  <2>1. Held' /\ to'[pool'[r]] = r
    BY <1>2, OpenAims
  <2> QED
    BY <1>2, <2>1, AimGoto
<1>3. Open(r) => ~Live(pool[r])
  BY DEF Open, Dial
<1> QED
  BY <1>1, <1>2, <1>3

LEMMA BindNextAims ==
    ASSUME TypeOK, Calls, Alone, Held, NEW m \in Maintainer, NEW r \in Relay, BindNext(m, r)
    PROVE  Held' /\ Aimed'
<1>1. maint[m].pc # "idle" /\ r \notin bound /\ bound' = bound
  BY DEF BindNext
<1>2. CASE Live(pool[r]) /\ SendBind(m, r, pool[r], pool[r])
  BY <1>1, <1>2, LookUpAims
<1>3. CASE Goto(m, "dial", r, pool[r], NoChan, FALSE) /\ UNCHANGED poolVars
  <2>1. Held'
    BY <1>3 DEF Held, poolVars
  <2> QED
    BY <1>1, <1>3, <2>1, AimGoto
<1>4. CASE Open(r) /\ Goto(m, "dial", r, pool'[r], NoChan, TRUE)
  BY <1>1, <1>4, OpenAims, AimGoto
<1> QED
  BY <1>2, <1>3, <1>4 DEF BindNext

LEMMA DialedAims ==
    ASSUME TypeOK, Calls, Alone, Held, Aimed, NEW m \in Maintainer, Dialed(m)
    PROVE  Held' /\ Aimed'
<1> DEFINE r == maint[m].r
           c == maint[m].c
<1>1. maint[m].pc = "dialed" /\ bound' = bound
  BY DEF Dialed
<1>2. \/ SendBind(m, r, c, pool[r]) /\ Live(pool[r])
      \/ /\ Goto(m, "redial", r, c, pool[r], FALSE) /\ Live(pool[r])
         /\ UNCHANGED <<poolVars, age, handler, binds>>
      \/ Open(r) /\ Goto(m, "redial", r, c, pool'[r], TRUE)
  BY DEF Dialed
<1>3. r \in Relay /\ r \notin bound'
  BY <1>1 DEF Calls, Progress, Aimed, AimOK, Awaits
<1>4. maint[m].pc # "idle"
  BY <1>1
<1> HIDE DEF r, c
<1> QED
  BY <1>2, <1>3, <1>4, LookUpAims

LEMMA RedialedAims ==
    ASSUME Calls, Alone, Held, Aimed, NEW m \in Maintainer, Redialed(m)
    PROVE  Held' /\ Aimed'
<1> DEFINE r == maint[m].r
           d == maint[m].d
<1>1. maint[m].pc = "redialed" /\ SendBind(m, r, maint[m].c, d) /\ bound' = bound
  BY DEF Redialed
<1>2. r \notin bound' /\ to[d] = r
  BY <1>1 DEF Aimed, AimOK, Awaits
<1>3. UNCHANGED <<phase, to, pool>> /\ Goto(m, "reply", r, maint[m].c, d, FALSE)
  BY <1>1 DEF SendBind, poolVars
<1>4. Held'
  BY <1>3 DEF Held
<1>5. maint[m].pc # "idle"
  BY <1>1
<1> HIDE DEF r, d
<1> QED
  BY <1>2, <1>3, <1>4, <1>5, AimGoto

\* Bound or given up, the call goes on to the relays that are left.
LEMMA PassAims ==
    ASSUME Calls, Alone, Held, NEW m \in Maintainer,
           \/ \E r \in Relay : Refused(m, r)
           \/ Bind(m) \/ NotBound(m) \/ Maintained(m)
    PROVE  Held' /\ Aimed'
<1>1. UNCHANGED <<phase, to, pool>> /\ maint[m].pc # "idle"
  BY DEF Refused, Bind, NotBound, Maintained, poolVars
<1>2. Held'
  BY <1>1 DEF Held
<1>3. CASE \E T : maint' = [maint EXCEPT ![m] = [Idle EXCEPT !.pc = "next", !.todo = T]]
  BY <1>1, <1>2, <1>3, AimNext
<1>4. CASE Maintained(m)
  <2>1. maint' = [maint EXCEPT ![m] = Idle]
    BY <1>4 DEF Maintained
  <2>2. Idle.pc \notin Awaits /\ Idle.pc \notin {"redial", "redialed", "reply"}
    BY DEF Idle, Awaits
  <2> QED
    BY <1>1, <1>2, <2>1, <2>2, AimMoves
<1>5. (\E r \in Relay : Refused(m, r)) \/ Bind(m) \/ NotBound(m)
        => \E T : maint' = [maint EXCEPT ![m] = [Idle EXCEPT !.pc = "next", !.todo = T]]
  BY DEF Refused, Bind, NotBound, Advance, GivenUp
<1> QED
  BY <1>2, <1>3, <1>4, <1>5

LEMMA StartAims ==
    ASSUME Calls, Alone, ~isMaintaining, NEW m \in Maintainer, NEW T,
           maint' = [maint EXCEPT ![m].pc = "next", ![m].todo = T]
    PROVE  Aimed'
<1>1. maint \in [Maintainer -> Progress] /\ \A n \in Maintainer : maint[n].pc = "idle"
  BY DEF Calls, Alone
<1>2. maint'[m].pc = "next"
  BY <1>1 DEF Progress
<1>3. \A n \in Maintainer \ {m} : maint'[n] = maint[n]
  BY <1>1
<1> QED
  BY <1>1, <1>2, <1>3 DEF Aimed, AimOK, Awaits

LEMMA HeartbeatAims ==
    ASSUME TypeOK, Calls, Alone, Held, Aimed, Heartbeat
    PROVE  Held' /\ Aimed'
<1> DEFINE drop == IF role = "RELAY" THEN {} ELSE Lost \cup Zombie
<1>1. to' = to
  BY DEF Heartbeat
<1>2. CASE drop = {}
  <2>1. UNCHANGED <<phase, pool, bound, maint>>
    BY <1>2 DEF Heartbeat
  <2> QED
    BY <1>1, <2>1, RelayAims
<1>3. CASE drop # {}
  <2>1. /\ phase' = Destroyed({pool[r] : r \in Zombie})
        /\ pool' = [r \in Relay |-> IF r \in Zombie THEN NoChan ELSE pool[r]]
        /\ Unbind(drop)
        /\ \/ maint' = maint
           \/ /\ ~isMaintaining
              /\ \E m \in Maintainer, T \in SUBSET Relay :
                   maint' = [maint EXCEPT ![m].pc = "next", ![m].todo = T]
    BY <1>3 DEF Heartbeat
  <2> HIDE DEF drop
  <2>2. Aimed'
    <3>1. CASE maint' = maint
      <4>1. bound' \subseteq bound
        BY <2>1 DEF Unbind
      <4> QED
        BY <1>1, <3>1, <4>1, AimedStays
    <3>2. CASE maint' # maint
      BY <2>1, <3>2, StartAims
    <3> QED
      BY <3>1, <3>2
  <2>3. ASSUME NEW r \in Relay, pool'[r] # NoChan
        PROVE  /\ pool'[r] = pool[r]
               /\ phase[pool[r]] # "closed" => phase'[pool[r]] # "closed"
    <3>1. pool'[r] = pool[r] /\ pool[r] \in Chan
      BY <2>1, <2>3 DEF TypeOK, PoolTypeOK
    <3>2. phase'[pool[r]] \in {"dying", phase[pool[r]]}
      BY <2>1, <3>1 DEF Destroyed
    <3> QED
      BY <3>1, <3>2
  <2>4. Held'
    BY <1>1, <2>3, HeldStays
  <2> QED
    BY <2>2, <2>4
<1> QED
  BY <1>2, <1>3

LEMMA AimStep ==
    ASSUME IInv, Held, Aimed, [Next]_vars
    PROVE  Held' /\ Aimed'
<1>0. TypeOK /\ Calls /\ Alone
  BY DEF IInv
<1>1. ASSUME NEW r \in Contacted, OtherSender(r) PROVE Held' /\ Aimed'
  BY <1>0, <1>1, OtherSenderAims, RendezvousAssumption
<1>2. ASSUME NEW c \in Chan, HandshakeDone(c) \/ EdgeBreak(c) \/ CloseEvent(c)
      PROVE  Held' /\ Aimed'
  BY <1>0, <1>2, ChannelAims
<1>3. ASSUME NEW c \in Chan, RelayAccepts(c) \/ RelayRejects(c) \/ RelayLoses(c)
      PROVE  Held' /\ Aimed'
  <2>1. UNCHANGED <<phase, pool, to, maint, bound>>
    BY <1>3 DEF RelayAccepts, RelayRejects, RelayLoses, poolVars, edgeVars
  <2> QED
    BY <1>0, <2>1, RelayAims
<1>4. ASSUME NEW m \in Maintainer, MaintStep(m) PROVE Held' /\ Aimed'
  BY <1>0, <1>4, BindNextAims, DialedAims, RedialedAims, PassAims DEF MaintStep
<1>5. ASSUME NEW m \in Maintainer, Maintain(m) PROVE Held' /\ Aimed'
  <2>1. UNCHANGED <<phase, pool, to>> /\ ~isMaintaining
        /\ \E T : maint' = [maint EXCEPT ![m].pc = "next", ![m].todo = T]
    BY <1>5 DEF Maintain, poolVars
  <2>2. Held'
    BY <2>1 DEF Held
  <2> QED
    BY <1>0, <2>1, <2>2, StartAims
<1>6. CASE Heartbeat
  BY <1>0, <1>6, HeartbeatAims
<1>7. ASSUME UNCHANGED vars \/ \E r \in NatRoles : NatVerdict(r) PROVE Held' /\ Aimed'
  <2>1. UNCHANGED <<phase, pool, to, maint, bound>>
    BY <1>7 DEF NatVerdict, vars, poolVars, edgeVars
  <2> QED
    BY <1>0, <2>1, RelayAims
<1> QED
  BY <1>1, <1>2, <1>3, <1>4, <1>5, <1>6, <1>7 DEF Next, Event

LEMMA AimInit == Init => Held /\ Aimed
<1>1. Init => Held
  BY DEF Init, PoolInit, Held
<1>2. Init => Aimed
  BY DEF Init, Idle, Aimed, AimOK, Awaits
<1> QED
  BY <1>1, <1>2
-----------------------------------------------------------------------------
(* Steps of the abstract specification                                      *)

\* The relays and their answers are left alone, but for answers that are lost.
LEMMA DropMaps ==
    ASSUME tunnel' = tunnel, acks' \subseteq acks, bound' \subseteq bound,
           \A c \in acks : to'[c] = to[c]
    PROVE  Ends!Next
<1>1. {to'[c] : c \in acks'} \subseteq {to[c] : c \in acks}
  OBVIOUS
<1> QED
  BY <1>1 DEF Ends!Next, Ends!Drop

LEMMA AbstractSteps ==
    ASSUME NEW r \in Relay, Ends!Accept(r) \/ Ends!Lose(r) \/ Ends!Bind(r)
    PROVE  Ends!Next
BY DEF Ends!Next, Ends!Accept, Ends!Lose, Ends!Bind

LEMMA RelayMaps ==
    ASSUME TypeOK, NEW c \in Chan,
           RelayAccepts(c) \/ RelayRejects(c) \/ RelayLoses(c)
    PROVE  Ends!Next
<1>1. to \in [Chan -> Relay] /\ tunnel \in [Relay -> AnyChan] /\ to' = to /\ bound' = bound
  BY DEF TypeOK, PoolTypeOK, RelayAccepts, RelayRejects, RelayLoses, poolVars, edgeVars
<1>2. PICK r \in Relay : r = to[c]
  BY <1>1
<1>3. CASE RelayAccepts(c)
  <2>1. tunnel' = [tunnel EXCEPT ![r] = c] /\ acks' \in {acks, acks \cup {c}}
    BY <1>3, <1>2 DEF RelayAccepts
  <2>2. {x \in Relay : tunnel'[x] # NoChan} = {x \in Relay : tunnel[x] # NoChan} \cup {r}
    BY <1>1, <1>2, <2>1, PoolAssumption
  <2>3. {to'[x] : x \in acks'}
          \in {{to[x] : x \in acks}, {to[x] : x \in acks} \cup {r}}
    BY <1>1, <1>2, <2>1
  <2>4. Ends!Accept(r)
    BY <1>1, <2>2, <2>3 DEF Ends!Accept
  <2> QED
    BY <2>4, AbstractSteps
<1>4. CASE RelayRejects(c)
  BY <1>1, <1>4, DropMaps DEF RelayRejects
<1>5. CASE RelayLoses(c)
  <2>1. tunnel' = [tunnel EXCEPT ![r] = IF @ = c THEN NoChan ELSE @] /\ acks' = acks
    BY <1>5, <1>2 DEF RelayLoses
  <2>2. CASE tunnel[r] = c
    <3>1. {x \in Relay : tunnel'[x] # NoChan} = {x \in Relay : tunnel[x] # NoChan} \ {r}
      BY <1>1, <2>1, <2>2
    <3>2. Ends!Lose(r)
      BY <1>1, <2>1, <3>1 DEF Ends!Lose
    <3> QED
      BY <3>2, AbstractSteps
  <2>3. CASE tunnel[r] # c
    <3>1. tunnel' = tunnel
      BY <1>1, <2>1, <2>3
    <3> QED
      BY <1>1, <2>1, <3>1, DropMaps
  <2> QED
    BY <2>2, <2>3
<1> QED
  BY <1>3, <1>4, <1>5

\* The ACK a call waits for is of the relay it binds: its channel, looked up
\* again since, leads nowhere else.
LEMMA BindMaps ==
    ASSUME IInv, Aimed, NEW m \in Maintainer, Bind(m)
    PROVE  Ends!Next
<1> DEFINE d == maint[m].d
<1>0. PICK r \in Relay : r = maint[m].r
  BY DEF IInv, Calls, Progress
<1>1. /\ maint[m].pc = "reply" /\ d \in acks /\ acks' = acks \ {d}
      /\ bound' = bound \cup {r} /\ tunnel' = tunnel /\ to' = to
  BY <1>0 DEF Bind, poolVars
<1>2. Cardinality(bound) < MaxRelays
  BY <1>1 DEF IInv, Room, Awaits
<1>3. r \notin bound /\ to[d] = r
  BY <1>0, <1>1 DEF Aimed, AimOK, Awaits
<1> HIDE DEF d
<1>4. r \in {to[x] : x \in acks} \ bound
  BY <1>1, <1>3
<1>5. {to'[x] : x \in acks'} \in {{to[x] : x \in acks}, {to[x] : x \in acks} \ {r}}
  <2>1. CASE \E x \in acks \ {d} : to[x] = r
    <3>1. {to[x] : x \in acks \ {d}} = {to[x] : x \in acks}
      BY <1>3, <2>1
    <3> QED
      BY <1>1, <3>1
  <2>2. CASE \A x \in acks \ {d} : to[x] # r
    <3>1. {to[x] : x \in acks \ {d}} = {to[x] : x \in acks} \ {r}
      BY <1>3, <2>2
    <3> QED
      BY <1>1, <3>1
  <2> QED
    BY <2>1, <2>2
<1>6. Ends!Bind(r)
  <2>1. Ends!Cardinality(bound) = Cardinality(bound)
    BY DEF Ends!Cardinality, Cardinality
  <2> QED
    BY <1>1, <1>2, <1>4, <1>5, <2>1 DEF Ends!Bind
<1> QED
  BY <1>6, AbstractSteps

\* A new channel is none an answer is on its way on.
LEMMA OpenKeepsAnswers ==
    ASSUME TypeOK, Held, NEW r \in Relay, Open(r)
    PROVE  \A c \in acks : to'[c] = to[c]
<1>1. acks \subseteq Chan \ Free
  BY DEF TypeOK, Free
<1> QED
  BY <1>1, OpenAims

\* The other steps of a call.
LEMMA CallMaps ==
    ASSUME TypeOK, Calls, Held, NEW m \in Maintainer, MaintStep(m), ~Bind(m)
    PROVE  Ends!Next
<1>1. tunnel' = tunnel /\ bound' = bound
  BY MaintQuiet
<1>2. ASSUME NEW r \in Relay, BindNext(m, r)
      PROVE  acks' = acks /\ (to' = to \/ Open(r))
  BY <1>2 DEF BindNext, SendBind, poolVars
<1>3. ASSUME Dialed(m)
      PROVE  acks' = acks /\ (to' = to \/ Open(maint[m].r))
  BY <1>3 DEF Dialed, SendBind, poolVars
<1>4. maint[m].r \in Relay
  BY DEF Calls, Progress
<1>5. ASSUME \/ \E r \in Relay : Refused(m, r)
             \/ Redialed(m) \/ NotBound(m) \/ Maintained(m)
      PROVE  acks' = acks /\ to' = to
  <2>1. CASE \E r \in Relay : Refused(m, r)
    BY <2>1 DEF Refused, relayVars, poolVars
  <2>2. CASE Redialed(m)
    BY <2>2 DEF Redialed, SendBind, poolVars
  <2>3. CASE NotBound(m) \/ Maintained(m)
    BY <2>3 DEF NotBound, Maintained, relayVars, poolVars
  <2> QED
    BY <1>5, <2>1, <2>2, <2>3
<1>6. acks' = acks /\ (to' = to \/ \E r \in Relay : Open(r))
  BY <1>2, <1>3, <1>4, <1>5 DEF MaintStep
<1>7. \A c \in acks : to'[c] = to[c]
  BY <1>6, OpenKeepsAnswers
<1> QED
  BY <1>1, <1>6, <1>7, DropMaps

LEMMA StepMaps ==
    ASSUME IInv, Held, Aimed, [Next]_vars
    PROVE  [Ends!Next]_(Ends!tvars)
<1> SUFFICES Ends!Next
  OBVIOUS
<1>0. TypeOK /\ Calls
  BY DEF IInv
<1>1. ASSUME NEW r \in Contacted, OtherSender(r) PROVE Ends!Next
  <2>1. r \in Relay
    BY RendezvousAssumption
  <2>2. Open(r) /\ tunnel' = tunnel /\ acks' = acks /\ bound' = bound
    BY <1>1 DEF OtherSender, relayVars
  <2> QED
    BY <1>0, <2>1, <2>2, OpenKeepsAnswers, DropMaps
<1>2. ASSUME NEW c \in Chan, HandshakeDone(c) \/ EdgeBreak(c) \/ CloseEvent(c)
      PROVE  Ends!Next
  <2>1. to' = to /\ tunnel' = tunnel /\ acks' \subseteq acks /\ bound' \subseteq bound
    BY <1>2
    DEF HandshakeDone, Ready, EdgeBreak, Break, CloseEvent, Forget, Unbind, edgeVars, relayVars
  <2> QED
    BY <2>1, DropMaps
<1>3. ASSUME NEW c \in Chan, RelayAccepts(c) \/ RelayRejects(c) \/ RelayLoses(c)
      PROVE  Ends!Next
  BY <1>0, <1>3, RelayMaps
<1>4. ASSUME NEW m \in Maintainer, MaintStep(m) PROVE Ends!Next
  BY <1>0, <1>4, BindMaps, CallMaps
<1>5. CASE Heartbeat
  <2>1. to' = to /\ tunnel' = tunnel /\ acks' = acks
    BY <1>5 DEF Heartbeat, relayVars
  <2>2. bound' \subseteq bound
    BY <1>5 DEF Heartbeat, Unbind
  <2> QED
    BY <2>1, <2>2, DropMaps
<1>6. ASSUME \/ \E m \in Maintainer : Maintain(m)
             \/ \E r \in NatRoles : NatVerdict(r)
             \/ UNCHANGED vars
      PROVE  Ends!Next
  <2>1. to' = to /\ tunnel' = tunnel /\ acks' = acks /\ bound' = bound
    BY <1>6 DEF Maintain, NatVerdict, vars, poolVars, edgeVars, relayVars
  <2> QED
    BY <2>1, DropMaps
<1> QED
  BY <1>1, <1>2, <1>3, <1>4, <1>5, <1>6 DEF Next, Event

\* However lookups, closes and heartbeats interleave with the three awaits of a
\* bind, the edge takes a relay on only upon that relay's own acceptance, once,
\* and while there is room for it.
THEOREM TunnelRefinement == Spec => OnlyAccepted
<1>1. Init => Ends!Init
  BY DEF Init, Ends!Init
<1>2. IInv /\ Held /\ Aimed /\ [Next]_vars => [Ends!Next]_(Ends!tvars)
  BY StepMaps
<1>3. IInv /\ Held /\ Aimed /\ [Next]_vars => (Held /\ Aimed)'
  BY AimStep
<1> QED
  BY <1>1, <1>2, <1>3, AimInit, Invariance, PTL DEF Spec, OnlyAccepted, Ends!Spec
=============================================================================
