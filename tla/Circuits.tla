------------------------------ MODULE Circuits ------------------------------
(***************************************************************************)
(* Onion circuits: sendViaOnion of core/federation.js from the moment the  *)
(* hops are known, core/onionRouter.js at the initiator and at the hops,   *)
(* and the circuit records of storage/database.js.                         *)
(*                                                                         *)
(* A build writes one layered packet to the guard, which peels its layer   *)
(* and extends to the next hop; answers come back hop by hop.  Nobody      *)
(* matches an answer with a circuit: whoever listens on a channel takes    *)
(* the first 'circuit_ready' or 'error' on it for its own.                 *)
(*                                                                         *)
(* Channels of the initiator come from its pool.  Those between hops are   *)
(* one FIFO link per pair, which may break; dialling it again is part of   *)
(* the step that writes to it.                                             *)
(***************************************************************************)
EXTENDS ChannelPool, Sequences, SequencesExt

CONSTANTS
    Send,       \* calls of sendViaOnion
    To,         \* To[s]: the target node of s
    Routes,     \* Routes[t]: lists of hops to t that its routes may give
    Id,         \* circuit ids; bound: every build draws a new one
    NoId,
    MaxFaults   \* bound: broken links and restarts of hops

Targets == {To[s] : s \in Send}
HopLists == UNION {Routes[t] : t \in Targets}

\* No relay twice on a route: relayPool holds an address once.  No channel of
\* the initiator is a link between hops.
ASSUME CircuitsAssumption ==
    /\ NoId \notin Id /\ IsFiniteSet(Id)
    /\ Send # {}
    /\ (Chan \cup {NoChan}) \cap (Relay \X Relay) = {}
    /\ \A t \in Targets : Routes[t] \subseteq Seq(Relay) \ {<<>>}
    /\ \A p \in HopLists : \A i, j \in DOMAIN p : p[i] = p[j] => i = j
    /\ MaxFaults \in Nat

VARIABLES
    call,       \* progress of each call of sendViaOnion
    circuits,   \* clientCircuits
    plan,       \* plan[c]: the hops and the target circuit c is built for
    there,      \* packets on each link, away from the initiator
    back,       \* answers on each link
    via,        \* via[<<h, c>>]: the link h got the packet of c on, while it is up
    listening,  \* builds and extensions that wait for an answer on a link
    saved,      \* <<h, c>>: hop h has a record of c
    told,       \* history: <<h, c>> that were ever saved
    mixed,      \* history: circuits that took another circuit's answer for theirs
    swallowed,  \* history: <<h, c>>: h dropped a cell of a circuit it has a record of
    faults

wires == <<there, back, via>>
history == <<told, mixed, swallowed>>
hopVars == <<listening, saved, history>>
vars == <<poolVars, call, circuits, plan, wires, hopVars, faults>>

\* The initiator's channels, and the hops' channels to each other.
HopLink == UNION {{<<p[i - 1], p[i]>> : i \in 2..Len(p)} : p \in HopLists}
Link == Chan \cup HopLink

\* A call dials the guard, awaits its answer, retries after a failure, then
\* wants a channel for its cell and writes it there.
Calls == [pc : {"idle", "dial", "await", "failed", "cell", "write", "sent", "thrown"},
          id : Id \cup {NoId}, first : Id \cup {NoId}, chan : Chan \cup {NoChan}]

Packets == [kind : {"create", "cell"}, id : Id]
Answers == [ready : BOOLEAN, id : Id]

TypeOK ==
    /\ PoolTypeOK
    /\ call \in [Send -> Calls]
    /\ circuits \subseteq Id
    /\ plan \in [Id -> [hops : HopLists \cup {<<>>}, to : Targets]]
    /\ there \in [Link -> Seq(Packets)]
    /\ back \in [Link -> Seq(Answers)]
    /\ via \in [Relay \X Id -> Link \cup {NoChan}]
    /\ listening \in [Link -> SUBSET Id]
    /\ saved \subseteq told /\ told \subseteq Relay \X Id
    /\ mixed \subseteq Id
    /\ swallowed \subseteq told
    /\ faults \in 0..MaxFaults

Init ==
    /\ PoolInit
    /\ call = [s \in Send |-> [pc |-> "idle", id |-> NoId, first |-> NoId, chan |-> NoChan]]
    /\ circuits = {}
    /\ plan = [c \in Id |-> [hops |-> <<>>, to |-> CHOOSE t \in Targets : TRUE]]
    /\ there = [l \in Link |-> <<>>]
    /\ back = [l \in Link |-> <<>>]
    /\ via = [x \in Relay \X Id |-> NoChan]
    /\ listening = [l \in Link |-> {}]
    /\ saved = {} /\ told = {} /\ mixed = {} /\ swallowed = {}
    /\ faults = 0
-----------------------------------------------------------------------------
(* The initiator's channels                                                 *)

Hops(c) == plan[c].hops

\* removeCircuitsForHop, for each address in R.
Without(C, R) == {c \in C : Range(Hops(c)) \cap R = {}}

\* What is on its way over the links L is lost.
Cut(L) ==
    /\ there' = [l \in Link |-> IF l \in L THEN <<>> ELSE there[l]]
    /\ back' = [l \in Link |-> IF l \in L THEN <<>> ELSE back[l]]
    /\ via' = [x \in Relay \X Id |-> IF via[x] \in L THEN NoChan ELSE via[x]]

\* A channel nothing refers to any more stands for the next one opened.
Free == {k \in Chan : phase[k] = "closed" /\ listening[k] = {}
                        /\ \A s \in Send : call[s].chan # k}

NewChannel(k) == Free # {} /\ k = CHOOSE x \in Free : TRUE

\* The circuits of C without those over an address the pool gave up.
Evicted(C) == Without(C, {e \in Pooled : pool'[e] = NoChan})

\* getOrCreateSecureChannel, by a call that has left the circuits C: the
\* pool's channel to r, or a new one.
GetChannel(C, r, k) ==
    \/ /\ k = pool[r] /\ Live(k)
       /\ circuits' = C
       /\ UNCHANGED <<poolVars, wires>>
    \/ /\ NewChannel(k) /\ Dial(r, k)
       /\ circuits' = Evicted(C)
       /\ Cut({x \in Chan : phase'[x] = "dying"})

HandshakeDone(k) ==
    /\ Ready(k)
    /\ UNCHANGED <<call, circuits, plan, wires, hopVars, faults>>

\* A connection ends or fails; an 'error' event drops the circuits over its
\* address at once.
Breaks(k) ==
    /\ Break(k)
    /\ Cut({k})
    /\ circuits' \in {circuits, Without(circuits, {to[k]})}
    /\ UNCHANGED <<call, plan, hopVars>>

DialBreaks(k) == phase[k] = "dialing" /\ Breaks(k) /\ faults' = faults

Fault == faults < MaxFaults /\ faults' = faults + 1

ChannelBreaks(k) == phase[k] = "ready" /\ Breaks(k) /\ Fault

\* Mutant: the circuits over the address stay.
MutCloseEvent(k) ==
    /\ Forget(k)
    /\ UNCHANGED <<call, circuits, plan, wires, hopVars, faults>>

\* The 'close' event drops the circuits over its address, whatever channel
\* they were built over.
CloseEvent(k) ==
    /\ Forget(k)
    /\ circuits' = Without(circuits, {to[k]})
    /\ UNCHANGED <<call, plan, wires, hopVars, faults>>
-----------------------------------------------------------------------------
(* The initiator                                                            *)

\* The circuits sendViaOnion may find for its target.
Active(s) == {c \in circuits : plan[c].to = To[s]}

Reuse(s) ==
    /\ call[s].pc = "idle"
    /\ \E p \in Routes[To[s]], c \in Active(s) :
         /\ Last(Hops(c)) = Last(p)
         /\ call' = [call EXCEPT ![s].pc = "cell", ![s].id = c]
    /\ UNCHANGED <<poolVars, circuits, plan, wires, hopVars, faults>>

\* A build of s over the hops p has id c and awaits channel k to the guard.
Building(s, p, c, k) ==
    /\ Hops(c) = <<>> /\ c = CHOOSE x \in Id : Hops(x) = <<>>
    /\ plan' = [plan EXCEPT ![c] = [hops |-> p, to |-> To[s]]]
    /\ call' = [call EXCEPT ![s].pc = "dial", ![s].id = c, ![s].chan = k,
                            ![s].first = IF @ = NoId THEN c ELSE @]

\* Without an active circuit, or instead of one that leads to another exit.
FirstBuild(s) ==
    /\ call[s].pc = "idle"
    /\ \E p \in Routes[To[s]], c \in Id, k \in Chan :
         /\ Building(s, p, c, k)
         /\ \/ Active(s) = {} /\ GetChannel(circuits, p[1], k)
            \/ \E d \in Active(s) : /\ Last(Hops(d)) # Last(p)
                                     /\ GetChannel(circuits \ {d}, p[1], k)
    /\ UNCHANGED <<hopVars, faults>>

\* Mutant: the build waits under the address of the guard.
MutWriteCreate(s) ==
    LET c == call[s].id  k == call[s].chan IN
    /\ call[s].pc = "dial" /\ phase[k] = "ready"
    /\ there' = [there EXCEPT ![k] = Append(@, [kind |-> "create", id |-> c])]
    /\ listening' = [listening EXCEPT ![k] = @ \cup {to[k]}]
    /\ call' = [call EXCEPT ![s].pc = "await"]
    /\ UNCHANGED <<poolVars, circuits, plan, back, via, saved, history, faults>>

\* The channel is ready: the packet is written and the guard's answer awaited.
WriteCreate(s) ==
    LET c == call[s].id  k == call[s].chan IN
    /\ call[s].pc = "dial" /\ phase[k] = "ready"
    /\ there' = [there EXCEPT ![k] = Append(@, [kind |-> "create", id |-> c])]
    /\ listening' = [listening EXCEPT ![k] = @ \cup {c}]
    /\ call' = [call EXCEPT ![s].pc = "await"]
    /\ UNCHANGED <<poolVars, circuits, plan, back, via, saved, history, faults>>

\* What a failed build leads to: one more, then an exception.
Failed(s) == [call[s] EXCEPT !.pc = IF call[s].id = call[s].first THEN "failed" ELSE "thrown"]

\* The guard's channel could not be had.
DialFails(s) ==
    /\ call[s].pc = "dial" /\ ~Live(call[s].chan)
    /\ call' = [call EXCEPT ![s] = Failed(s)]
    /\ UNCHANGED <<poolVars, circuits, plan, wires, hopVars, faults>>

\* The first answer on a channel settles every build that listens on it.
GuardAnswer(k) ==
    LET a == Head(back[k])  W == listening[k] IN
    /\ back[k] # <<>>
    /\ back' = [back EXCEPT ![k] = Tail(@)]
    /\ listening' = [listening EXCEPT ![k] = {}]
    /\ call' = [s \in Send |-> IF call[s].pc # "await" \/ call[s].id \notin W THEN call[s]
                              ELSE IF a.ready THEN [call[s] EXCEPT !.pc = "cell"]
                              ELSE Failed(s)]
    /\ circuits' = IF a.ready THEN circuits \cup W ELSE circuits
    /\ mixed' = IF a.ready THEN mixed \cup (W \ {a.id}) ELSE mixed
    /\ UNCHANGED <<poolVars, plan, there, via, saved, told, swallowed, faults>>

\* No answer for 4 s.
GuardTimeout(s) ==
    LET c == call[s].id  k == call[s].chan IN
    /\ call[s].pc = "await"
    /\ listening' = [listening EXCEPT ![k] = @ \ {c}]
    /\ call' = [call EXCEPT ![s] = Failed(s)]
    /\ UNCHANGED <<poolVars, circuits, plan, wires, saved, history, faults>>

\* Mutant: the second build goes over the channel of the first if it is up.
MutRetry(s) ==
    LET p == Hops(call[s].id) IN
    /\ call[s].pc = "failed"
    /\ \E c \in Id, k \in Chan : Building(s, p, c, k) /\ GetChannel(circuits, p[1], k)
    /\ UNCHANGED <<hopVars, faults>>

\* After a failure the pool's channel to the guard is destroyed, whoever else
\* uses it, and the same hops are tried once more over a new one.
Retry(s) ==
    LET p == Hops(call[s].id)  g == p[1] IN
    /\ call[s].pc = "failed"
    /\ \E c \in Id, k \in Chan :
         /\ Building(s, p, c, k)
         /\ NewChannel(k)
         /\ pool' \in Opened(g, k)
         /\ phase' = [Destroyed({pool[e] : e \in {x \in Pooled : pool'[x] # pool[x]}})
                        EXCEPT ![k] = "dialing"]
         /\ to' = [to EXCEPT ![k] = g]
         /\ circuits' = Evicted(circuits)
         /\ Cut({x \in Chan : phase'[x] = "dying"})
    /\ UNCHANGED <<hopVars, faults>>

\* sendOnionCell asks the pool for the guard once more.
TakeChannel(s) ==
    /\ call[s].pc = "cell"
    /\ \E k \in Chan : /\ GetChannel(circuits, Hops(call[s].id)[1], k)
                       /\ call' = [call EXCEPT ![s].pc = "write", ![s].chan = k]
    /\ UNCHANGED <<plan, hopVars, faults>>

\* 'onion_sent': the cell goes out as a payload of the secure channel.
WriteCell(s) ==
    LET k == call[s].chan IN
    /\ call[s].pc = "write" /\ phase[k] = "ready"
    /\ there' = [there EXCEPT ![k] = Append(@, [kind |-> "cell", id |-> call[s].id])]
    /\ call' = [call EXCEPT ![s].pc = "sent", ![s].chan = NoChan]
    /\ UNCHANGED <<poolVars, circuits, plan, back, via, hopVars, faults>>

CellFails(s) ==
    /\ call[s].pc = "write" /\ ~Live(call[s].chan)
    /\ circuits' = circuits \ {call[s].id}
    /\ call' = [call EXCEPT ![s].pc = "thrown", ![s].chan = NoChan]
    /\ UNCHANGED <<poolVars, plan, wires, hopVars, faults>>

\* getActiveCircuitForTarget and cleanupExpiredCircuits drop a circuit after
\* circuitTtl, 10 minutes; no time is modelled.
Expire(c) ==
    /\ c \in circuits
    /\ circuits' = circuits \ {c}
    /\ UNCHANGED <<poolVars, call, plan, wires, hopVars, faults>>
-----------------------------------------------------------------------------
(* The hops                                                                 *)

\* The relay at the far end of a link.
At(l) == IF l \in Chan THEN to[l] ELSE l[2]

Exit(c) == Last(Hops(c))

\* The link over which h extends c.
Onto(h, c) == <<h, Hops(c)[1 + CHOOSE i \in DOMAIN Hops(c) : Hops(c)[i] = h]>>

\* A 'create' arrives over l: its layer is peeled and the record saved.
Arrives(l, kind) == there[l] # <<>> /\ Head(there[l]).kind = kind

Saves(h, c, l) ==
    /\ saved' = saved \cup {<<h, c>>}
    /\ told' = told \cup {<<h, c>>}
    /\ via' = [via EXCEPT ![<<h, c>>] = l]

Answered(l, c, ready) == [back EXCEPT ![l] = Append(@, [ready |-> ready, id |-> c])]

AnswerAsExit(l) ==
    LET c == Head(there[l]).id IN
    /\ Arrives(l, "create") /\ At(l) = Exit(c)
    /\ Saves(At(l), c, l)
    /\ there' = [there EXCEPT ![l] = Tail(@)]
    /\ back' = Answered(l, c, TRUE)
    /\ UNCHANGED <<poolVars, call, circuits, plan, listening, mixed, swallowed, faults>>

Extend(l) ==
    LET h == At(l)  c == Head(there[l]).id  x == Onto(h, c) IN
    /\ Arrives(l, "create") /\ h # Exit(c)
    /\ Saves(h, c, l)
    /\ there' = [there EXCEPT ![l] = Tail(@), ![x] = Append(@, Head(there[l]))]
    /\ listening' = [listening EXCEPT ![x] = @ \cup {c}]
    /\ UNCHANGED <<poolVars, call, circuits, plan, back, mixed, swallowed, faults>>

\* Mutant: the failure is not told.
MutExtendFails(l) ==
    LET c == Head(there[l]).id IN
    /\ Arrives(l, "create") /\ At(l) # Exit(c)
    /\ Saves(At(l), c, l)
    /\ there' = [there EXCEPT ![l] = Tail(@)]
    /\ back' = Answered(l, c, TRUE)
    /\ UNCHANGED <<poolVars, call, circuits, plan, listening, mixed, swallowed, faults>>

\* The next hop cannot be reached.
ExtendFails(l) ==
    LET c == Head(there[l]).id IN
    /\ Arrives(l, "create") /\ At(l) # Exit(c)
    /\ Saves(At(l), c, l)
    /\ there' = [there EXCEPT ![l] = Tail(@)]
    /\ back' = Answered(l, c, FALSE)
    /\ UNCHANGED <<poolVars, call, circuits, plan, listening, mixed, swallowed, faults>>

\* The first answer of the next hop settles every extension that listens on
\* the link; each passes it on, with its own circuit's id, where it can.
HopAnswer(l) ==
    LET a == Head(back[l])  W == listening[l]
        Passed(x) == {[ready |-> a.ready, id |-> c] : c \in {w \in W : via[<<l[1], w>>] = x}} IN
    /\ back[l] # <<>>
    /\ back' = [x \in Link |-> IF x = l THEN Tail(back[x]) ELSE back[x] \o SetToSeq(Passed(x))]
    /\ listening' = [listening EXCEPT ![l] = {}]
    /\ mixed' = IF a.ready THEN mixed \cup (W \ {a.id}) ELSE mixed
    /\ UNCHANGED <<poolVars, call, circuits, plan, there, via, saved, told, swallowed, faults>>

\* No answer for 4 s, or 3.5 s over a tunnel.
HopTimeout(l, c) ==
    LET x == via[<<l[1], c>>] IN
    /\ c \in listening[l]
    /\ listening' = [listening EXCEPT ![l] = @ \ {c}]
    /\ back' = IF x = NoChan THEN back ELSE Answered(x, c, FALSE)
    /\ UNCHANGED <<poolVars, call, circuits, plan, there, via, saved, history, faults>>

\* A cell comes out of the secure channel as a payload, for which
\* handleIncoming calls a method OnionRouter does not have; SecureChannel
\* catches the exception.
DropCell(l) ==
    LET x == <<At(l), Head(there[l]).id>> IN
    /\ Arrives(l, "cell")
    /\ there' = [there EXCEPT ![l] = Tail(@)]
    /\ swallowed' = swallowed \cup ({x} \cap saved)
    /\ UNCHANGED <<poolVars, call, circuits, plan, back, via, listening, saved, told, mixed, faults>>

HopLinkBreaks(l) ==
    /\ Cut({l}) /\ Fault
    /\ UNCHANGED <<poolVars, call, circuits, plan, hopVars>>

\* A hop that restarts forgets its circuits: the keys in the database are
\* encrypted under a key drawn by each process.
RestartHop(h) ==
    LET mine == {l \in HopLink : h \in {l[1], l[2]}} IN
    /\ Fault
    /\ phase' = Destroyed({k \in Chan : to[k] = h})
    /\ Cut(mine \cup {k \in Chan : to[k] = h})
    /\ saved' = {x \in saved : x[1] # h}
    /\ listening' = [l \in Link |-> IF l \in HopLink /\ l[1] = h THEN {} ELSE listening[l]]
    /\ UNCHANGED <<to, pool, call, circuits, plan, history>>
-----------------------------------------------------------------------------
CallStep(s) ==
    \/ Reuse(s) \/ FirstBuild(s)
    \/ WriteCreate(s) \/ DialFails(s) \/ GuardTimeout(s) \/ Retry(s)
    \/ TakeChannel(s) \/ WriteCell(s) \/ CellFails(s)

LinkStep(l) == AnswerAsExit(l) \/ Extend(l) \/ ExtendFails(l) \/ DropCell(l)

Next ==
    \/ \E s \in Send : CallStep(s)
    \/ \E k \in Chan : \/ HandshakeDone(k) \/ DialBreaks(k) \/ ChannelBreaks(k)
                       \/ CloseEvent(k) \/ GuardAnswer(k)
    \/ \E l \in Link : LinkStep(l)
    \/ \E l \in HopLink : \/ HopAnswer(l) \/ HopLinkBreaks(l)
                          \/ \E c \in Id : HopTimeout(l, c)
    \/ \E h \in Relay : RestartHop(h)
    \/ \E c \in Id : Expire(c)

Spec == Init /\ [][Next]_vars
-----------------------------------------------------------------------------
(* Properties                                                               *)

\* The stretches of the way of c: to its guard, and from each hop to the next.
Legs(c) ==
    {IF i = 1 THEN Hops(c)[1] ELSE <<Hops(c)[i - 1], Hops(c)[i]>> : i \in DOMAIN Hops(c)}

WentThrough ==
    \A c \in circuits \ mixed : \A h \in Range(Hops(c)) : <<h, c>> \in told

Mistaken == \A c \in mixed : \E d \in Id \ {c} : Legs(c) \cap Legs(d) # {}

\* A circuit the initiator keeps went through: every hop has been told its
\* key, unless an answer to another circuit was taken for its own on the way;
\* and that other circuit shares a stretch of its way.
ToldAll == WentThrough /\ Mistaken

\* Neither the packet of the failed first build nor a late answer to it is on
\* the channel the second build listens on.
RetryApart ==
    \A s \in Send : call[s].pc = "await" /\ call[s].id # call[s].first =>
        LET k == call[s].chan  c == call[s].first IN
        /\ \A i \in DOMAIN there[k] : there[k][i].id # c
        /\ \A i \in DOMAIN back[k] : back[k][i].id # c

\* Once no connection to the guard is left, no circuit over it is.
GuardUp ==
    \A c \in circuits : \E k \in Chan : to[k] = Hops(c)[1] /\ phase[k] # "closed"

\* A hop that has the key of a circuit peels the cells it gets on it.
CellsPeeled == swallowed = {}
=============================================================================
