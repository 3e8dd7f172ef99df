----------------------------- MODULE Rendezvous ------------------------------
(***************************************************************************)
(* The tunnels an edge node keeps to its relays: core/rendezvousManager.js *)
(* over the connection pool.  Maintenance binds to one relay after the     *)
(* other and awaits each; heartbeats, close events, AutoNAT and other      *)
(* senders run in between.  The relay's side of each tunnel is modelled    *)
(* too: it may accept, reject or lose a channel without the edge knowing.  *)
(***************************************************************************)
EXTENDS ChannelPool

CONSTANTS
    Maintainer,     \* calls of maintainRendezvousTunnels that may overlap
    Bootstrap,      \* relays that are always candidates
    Contacted,      \* relays that other senders talk to
    MaxRelays,      \* CONFIG.maxEdgeRendezvousRelays, 4
    TransitMin,     \* 2, checkTransitEdgeRole
    AllowEdgeRouting,
    NatRoles,       \* what AutoNAT may set: {"EDGE"} if meshRole is 'EDGE'
    MaxFaults       \* bound: lost replies, rejected binds, broken links,
                    \* verdicts of AutoNAT, dials by other senders

ASSUME RendezvousAssumption ==
    /\ Bootstrap \subseteq Relay /\ Contacted \subseteq Relay
    /\ MaxRelays \in Nat \ {0}
    /\ TransitMin \in Nat
    /\ AllowEdgeRouting \in BOOLEAN
    /\ NatRoles \subseteq {"EDGE", "RELAY"}
    /\ MaxFaults \in Nat

VARIABLES
    role,           \* of the edge node
    bound,          \* boundRendezvousRelays, also the keys of rendezvousRelays
    relays,         \* rendezvousRelays: the channel noted for each bound relay
    handler,        \* channels with a rendezvous close handler
    age,            \* heartbeats since the last PONG of a channel, up to 2 (60 s)
    isMaintaining,  \* isMaintainingTunnels
    swept,          \* maintenance has run since the last heartbeat
    maint,          \* progress of each call of maintainRendezvousTunnels
    rend,           \* channels whose relay end is open
    tunnel,         \* tunnel[r]: the channel relay r keeps for this edge
    binds,          \* channels with a RENDEZVOUS_BIND on its way
    acks,           \* channels with a RENDEZVOUS_ACK on its way
    faults

edgeVars == <<role, bound, relays, handler>>
relayVars == <<rend, tunnel, binds, acks>>
vars == <<poolVars, edgeVars, age, isMaintaining, swept, maint, relayVars, faults>>

Roles == {"EDGE", "CAP_EDGE_TRANSIT", "RELAY"}

AnyChan == Chan \cup {NoChan}

\* Where a call of maintainRendezvousTunnels is: r is the relay it binds to,
\* c the channel of its first await, d the one the BIND is sent on, and own
\* says that the call opened the channel whose handshake it awaits.  A hung
\* call awaits for ever.
Progress == [pc : {"idle", "next", "dial", "dialed", "redial", "redialed", "reply", "hung"},
             todo : SUBSET Relay, r : Relay, c : AnyChan, d : AnyChan, own : BOOLEAN]

Idle == [pc |-> "idle", todo |-> {}, r |-> AnyRelay, c |-> NoChan, d |-> NoChan, own |-> FALSE]

Awaits == {"dial", "dialed", "redial", "redialed", "reply"}

TypeOK ==
    /\ PoolTypeOK
    /\ role \in Roles
    /\ bound \subseteq Relay
    /\ relays \in [Relay -> AnyChan]
    /\ handler \subseteq Chan
    /\ age \in [Chan -> 0..2]
    /\ isMaintaining \in BOOLEAN /\ swept \in BOOLEAN
    /\ maint \in [Maintainer -> Progress]
    /\ rend \subseteq Chan
    /\ tunnel \in [Relay -> AnyChan]
    /\ binds \subseteq Chan /\ acks \subseteq Chan
    /\ faults \in 0..MaxFaults

\* A fresh node: an edge, or a relay if AutoNAT may make it one.
Init ==
    /\ PoolInit
    /\ role = IF "RELAY" \in NatRoles THEN "RELAY" ELSE "EDGE"
    /\ bound = {}
    /\ relays = [r \in Relay |-> NoChan]
    /\ handler = {}
    /\ age = [c \in Chan |-> 0]
    /\ isMaintaining = FALSE /\ swept = FALSE
    /\ maint = [m \in Maintainer |-> Idle]
    /\ rend = {}
    /\ tunnel = [r \in Relay |-> NoChan]
    /\ binds = {} /\ acks = {}
    /\ faults = 0
-----------------------------------------------------------------------------
(* Channels                                                                 *)

\* A channel nothing refers to any more stands for the next one opened.
Free == {c \in Chan :
            /\ phase[c] = "closed"
            /\ c \notin rend \cup acks \cup binds
            /\ \A r \in Relay : c # relays[r] /\ c # tunnel[r]
            /\ \A m \in Maintainer : maint[m].pc \in Awaits => c # maint[m].c /\ c # maint[m].d}

Open(r) ==
    /\ Free # {}
    /\ LET c == CHOOSE x \in Free : TRUE IN
         /\ Dial(r, c)
         /\ age' = [age EXCEPT ![c] = 0]
         /\ handler' = handler \ {c}

Fault == faults < MaxFaults /\ faults' = faults + 1

\* checkTransitEdgeRole
Checked(b) ==
    IF role = "RELAY" THEN role
    ELSE IF AllowEdgeRouting /\ Cardinality(b) >= TransitMin THEN "CAP_EDGE_TRANSIT"
    ELSE "EDGE"

\* Mutant: the role is left as it is.
MutUnbind(S) ==
    /\ bound' = bound \ S
    /\ relays' = [r \in Relay |-> IF r \in S THEN NoChan ELSE relays[r]]
    /\ role' = role

Unbind(S) ==
    /\ bound' = bound \ S
    /\ relays' = [r \in Relay |-> IF r \in S THEN NoChan ELSE relays[r]]
    /\ role' = Checked(bound')

\* Another sender (a packet, an announcement, a circuit) wants a channel to r.
OtherSender(r) ==
    /\ Open(r)
    /\ Fault
    /\ UNCHANGED <<role, bound, relays, isMaintaining, swept, maint, relayVars>>

\* A handshake and the time between heartbeats take longer than a 'close'
\* event that is due.
Settled == \A c \in Chan : phase[c] # "dying"

\* Calls that await the handshake of c, and those of them that opened c.
Awaiting(c) == {m \in Maintainer :
                  \/ maint[m].pc = "dial" /\ maint[m].c = c
                  \/ maint[m].pc = "redial" /\ maint[m].d = c}

Openers(c) == {m \in Awaiting(c) : maint[m].own}

\* m gives its target up and turns to the next one.
GivenUp(m) == [Idle EXCEPT !.pc = "next", !.todo = maint[m].todo]

\* The promises of the calls in S reject.
Rejected(S) == maint' = [m \in Maintainer |-> IF m \in S THEN GivenUp(m) ELSE maint[m]]

HandshakeDone(c) ==
    /\ Settled
    /\ Ready(c)
    /\ rend' = rend \cup {c}
    /\ maint' = [m \in Maintainer |->
                   IF m \in Awaiting(c)
                   THEN [maint[m] EXCEPT !.pc = IF @ = "dial" THEN "dialed" ELSE "redialed"]
                   ELSE maint[m]]
    /\ UNCHANGED <<edgeVars, age, isMaintaining, swept, tunnel, binds, acks, faults>>

\* The edge's end of c breaks: its relay end is gone, or by a fault.  An 'error'
\* rejects every call that awaits c, the 6 s timeout of a dial the one that
\* opened it; both delete the entry.  An end without error (the relay hangs up,
\* the channel or another sender destroys the socket) tells no call.
EdgeBreak(c) ==
    /\ Break(c)
    /\ IF phase[c] = "ready" /\ c \notin rend THEN faults' = faults ELSE Fault
    /\ \/ maint' = maint
       \/ pool'[to[c]] = NoChan /\ \E S \in {Awaiting(c), Openers(c)} : Rejected(S)
    /\ UNCHANGED <<edgeVars, age, isMaintaining, swept, relayVars>>

\* A call that found c in the pool learns of its end from the 'close' event;
\* the one that opened c does not and, if nothing else rejected it, awaits for ever.
Closed(c) ==
    maint' = [m \in Maintainer |->
                IF m \in Openers(c) THEN [Idle EXCEPT !.pc = "hung"]
                ELSE IF m \in Awaiting(c) THEN GivenUp(m) ELSE maint[m]]

\* The 'close' event of c: the pool's handler and, if there is one, the
\* rendezvous handler, which unbinds the address without looking at its channel.
CloseEvent(c) ==
    /\ Closed(c)
    /\ Forget(c)
    /\ IF c \in handler
       THEN Unbind({to[c]}) /\ handler' = handler \ {c}
       ELSE UNCHANGED edgeVars
    /\ acks' = acks \ {c}
    /\ age' = [age EXCEPT ![c] = 0]
    /\ UNCHANGED <<isMaintaining, swept, rend, tunnel, binds, faults>>
-----------------------------------------------------------------------------
(* The relay                                                                *)

\* handleRendezvousBind: the latest channel replaces the one before.
RelayAccepts(c) ==
    /\ c \in binds \cap rend
    /\ tunnel' = [tunnel EXCEPT ![to[c]] = c]
    /\ binds' = binds \ {c}
    /\ acks' = IF Live(c) THEN acks \cup {c} ELSE acks
    /\ UNCHANGED <<poolVars, edgeVars, age, isMaintaining, swept, maint, rend, faults>>

\* No capacity, an old timestamp or a nonce seen before.
RelayRejects(c) ==
    /\ c \in binds
    /\ Fault
    /\ binds' = binds \ {c}
    /\ UNCHANGED <<poolVars, edgeVars, age, isMaintaining, swept, maint, rend, tunnel, acks>>

\* Mutant: an old channel's close handler removes the new one's tunnel.
MutRelayLoses(c) ==
    /\ c \in rend
    /\ IF Live(c) THEN Fault ELSE faults' = faults
    /\ rend' = rend \ {c}
    /\ binds' = binds \ {c}
    /\ tunnel' = [tunnel EXCEPT ![to[c]] = NoChan]
    /\ UNCHANGED <<poolVars, edgeVars, age, isMaintaining, swept, maint, acks>>

\* The relay's end of c closes: it sees the edge's end closed, or by a fault
\* (a restart, a link that broke silently).  Only the tunnel of c itself goes.
RelayLoses(c) ==
    /\ c \in rend
    /\ IF Live(c) THEN Fault ELSE faults' = faults
    /\ rend' = rend \ {c}
    /\ binds' = binds \ {c}
    /\ tunnel' = [tunnel EXCEPT ![to[c]] = IF @ = c THEN NoChan ELSE @]
    /\ UNCHANGED <<poolVars, edgeVars, age, isMaintaining, swept, maint, acks>>
-----------------------------------------------------------------------------
(* maintainRendezvousTunnels and bindToRendezvousRelay                      *)

\* By its timer, after a close event, or after an announcement.  A relay the
\* loop comes to while it is bound is passed over: it is as good as no target.
Maintain(m) ==
    /\ maint[m].pc = "idle"
    /\ role # "RELAY"
    /\ ~isMaintaining
    /\ isMaintaining' = TRUE
    /\ \E T \in SUBSET Relay :
         Bootstrap \ bound \subseteq T /\ maint' = [maint EXCEPT ![m].pc = "next", ![m].todo = T]
    /\ UNCHANGED <<poolVars, edgeVars, age, swept, relayVars, faults>>

Goto(m, pc, r, c, d, own) ==
    maint' = [maint EXCEPT ![m] = [pc |-> pc, todo |-> maint[m].todo \ {r},
                                   r |-> r, c |-> c, d |-> d, own |-> own]]

\* The BIND goes out on d, after first awaiting c; a relay end that is gone
\* does not get it.
SendBind(m, r, c, d) ==
    /\ Goto(m, "reply", r, c, d, FALSE)
    /\ binds' = binds \cup ({d} \cap rend)
    /\ UNCHANGED <<poolVars, age, handler>>

\* Mutant: one relay too many.
MutBindNext(m, r) ==
    /\ maint[m].pc = "next"
    /\ r \in maint[m].todo \ bound
    /\ Cardinality(bound) <= MaxRelays
    /\ LET c == pool[r] IN
         \/ Live(c) /\ phase[c] = "ready" /\ SendBind(m, r, c, c)
         \/ /\ Live(c) /\ phase[c] = "dialing"
            /\ Goto(m, "dial", r, c, NoChan, FALSE)
            /\ UNCHANGED <<poolVars, age, handler, binds>>
         \/ /\ Open(r)
            /\ Goto(m, "dial", r, pool'[r], NoChan, TRUE)
            /\ UNCHANGED binds
    /\ UNCHANGED <<role, bound, relays, isMaintaining, swept, rend, tunnel, acks, faults>>

\* Both awaits of getOrCreateSecureChannel: the entry if it is live, ready or
\* still dialing, otherwise a new channel.
BindNext(m, r) ==
    /\ maint[m].pc = "next"
    /\ r \in maint[m].todo \ bound
    /\ Cardinality(bound) < MaxRelays
    /\ LET c == pool[r] IN
         \/ Live(c) /\ phase[c] = "ready" /\ SendBind(m, r, c, c)
         \/ /\ Live(c) /\ phase[c] = "dialing"
            /\ Goto(m, "dial", r, c, NoChan, FALSE)
            /\ UNCHANGED <<poolVars, age, handler, binds>>
         \/ /\ Open(r)
            /\ Goto(m, "dial", r, pool'[r], NoChan, TRUE)
            /\ UNCHANGED binds
    /\ UNCHANGED <<role, bound, relays, isMaintaining, swept, rend, tunnel, acks, faults>>

\* The first await is over: sendPacket looks the address up once more.
Dialed(m) ==
    LET r == maint[m].r
        c == maint[m].c
        d == pool[r]
    IN
    /\ maint[m].pc = "dialed"
    /\ \/ Live(d) /\ phase[d] = "ready" /\ SendBind(m, r, c, d)
       \/ /\ Live(d) /\ phase[d] = "dialing"
          /\ Goto(m, "redial", r, c, d, FALSE)
          /\ UNCHANGED <<poolVars, age, handler, binds>>
       \/ /\ Open(r)
          /\ Goto(m, "redial", r, c, pool'[r], TRUE)
          /\ UNCHANGED binds
    /\ UNCHANGED <<role, bound, relays, isMaintaining, swept, rend, tunnel, acks, faults>>

Redialed(m) ==
    /\ maint[m].pc = "redialed"
    /\ SendBind(m, maint[m].r, maint[m].c, maint[m].d)
    /\ UNCHANGED <<role, bound, relays, isMaintaining, swept, rend, tunnel, acks, faults>>

Advance(m) == maint' = [maint EXCEPT ![m] = GivenUp(m)]

\* The dial fails at once; here, when every channel is taken.
Refused(m, r) ==
    /\ \/ maint[m].pc = "next" /\ r \in maint[m].todo \ bound /\ Cardinality(bound) < MaxRelays
       \/ maint[m].pc = "dialed" /\ r = maint[m].r
    /\ ~Live(pool[r]) /\ Free = {}
    /\ maint' = [maint EXCEPT ![m] = [Idle EXCEPT !.pc = "next", !.todo = maint[m].todo \ {r}]]
    /\ UNCHANGED <<poolVars, edgeVars, age, isMaintaining, swept, relayVars, faults>>

\* The relay's ACK is the first payload on d: the relay is bound, and the
\* channel noted and watched for it is c.
Bind(m) ==
    LET r == maint[m].r
        c == maint[m].c
        d == maint[m].d
    IN
    /\ maint[m].pc = "reply"
    /\ d \in acks /\ phase[d] = "ready"
    /\ acks' = acks \ {d}
    /\ bound' = bound \cup {r}
    /\ relays' = [relays EXCEPT ![r] = c]
    /\ role' = Checked(bound')
    /\ handler' = handler \cup {c}
    /\ Advance(m)
    /\ UNCHANGED <<poolVars, age, isMaintaining, swept, rend, tunnel, binds, faults>>

\* 3.5 s pass, or another payload comes first, or the relay rejected.  While
\* the ACK can still come it takes a fault to miss it.
NotBound(m) ==
    LET d == maint[m].d IN
    /\ maint[m].pc = "reply"
    /\ IF Live(d) /\ (d \in binds \cap rend \/ d \in acks) THEN Fault ELSE faults' = faults
    /\ Advance(m)
    /\ UNCHANGED <<poolVars, edgeVars, age, isMaintaining, swept, relayVars>>

\* Every target left is bound, or enough relays are bound.
Maintained(m) ==
    /\ maint[m].pc = "next"
    /\ maint[m].todo \subseteq bound \/ Cardinality(bound) >= MaxRelays
    /\ maint' = [maint EXCEPT ![m] = Idle]
    /\ isMaintaining' = FALSE
    /\ swept' = TRUE
    /\ UNCHANGED <<poolVars, edgeVars, age, relayVars, faults>>
-----------------------------------------------------------------------------
\* Mutant: only a silent entry is noticed.
MutLost == {}

\* Bound relays whose pool entry is gone.
Lost == {r \in bound : ~Live(pool[r])}

\* Bound relays whose entry gave no PONG for 60 s.
Zombie == {r \in bound : Live(pool[r]) /\ age[pool[r]] = 2}

Pinged == IF role = "RELAY" THEN {} ELSE {pool[r] : r \in bound \ (Lost \cup Zombie)}

\* Mutant: the age is not capped.
MutAged(lost) ==
    age' = [c \in Chan |-> IF c \in (Pinged \cap rend) \ lost THEN 0 ELSE age[c] + 1]

\* Ages after a heartbeat: a PING is answered by an open relay end, unless
\* its PONG is lost or runs into other data.
Aged(lost) ==
    age' = [c \in Chan |-> IF ~Live(c) \/ c \in (Pinged \cap rend) \ lost THEN 0
                           ELSE IF age[c] < 2 THEN age[c] + 1 ELSE 2]

\* A channel that closed without an error while it was being opened leaves the
\* call that opened it hung, and maintenance with it.
Hung == \E m \in Maintainer : maint[m].pc = "hung"

\* sendRendezvousHeartbeat every 30 s: PING the tunnels, drop the zombies and
\* the lost, and start maintenance if one was dropped.  Maintenance runs
\* every 15 s, so a run has ended since the last heartbeat, unless its links
\* are slow or it hangs.
Heartbeat ==
    LET drop == IF role = "RELAY" THEN {} ELSE Lost \cup Zombie
        slow == ~swept /\ role # "RELAY" /\ ~Hung
    IN
    /\ Settled
    /\ \/ Aged({}) /\ IF slow THEN Fault ELSE faults' = faults
       \/ ~slow /\ Fault /\ \E c \in Pinged \cap rend : Aged({c})
    /\ swept' = FALSE
    /\ IF drop = {}
       THEN UNCHANGED <<phase, pool, role, bound, relays, isMaintaining, maint>>
       ELSE /\ phase' = Destroyed({pool[r] : r \in Zombie})
            /\ pool' = [r \in Relay |-> IF r \in Zombie THEN NoChan ELSE pool[r]]
            /\ Unbind(drop)
            /\ isMaintaining' = TRUE
            /\ \/ isMaintaining /\ maint' = maint
               \/ /\ ~isMaintaining
                  /\ \E m \in Maintainer, T \in SUBSET Relay :
                       /\ maint[m].pc = "idle" /\ Bootstrap \ bound' \subseteq T
                       /\ maint' = [maint EXCEPT ![m].pc = "next", ![m].todo = T]
    /\ UNCHANGED <<to, handler, relayVars>>

\* AutoNAT's verdict: setRole.
NatVerdict(r) ==
    /\ role # r
    /\ Fault
    /\ role' = r
    /\ UNCHANGED <<poolVars, bound, relays, handler, age, isMaintaining, swept, maint, relayVars>>

MaintStep(m) ==
    \/ \E r \in Relay : BindNext(m, r) \/ Refused(m, r)
    \/ Dialed(m) \/ Redialed(m) \/ Bind(m) \/ NotBound(m) \/ Maintained(m)

Event ==
    \/ \E r \in Contacted : OtherSender(r)
    \/ \E c \in Chan : \/ HandshakeDone(c) \/ EdgeBreak(c) \/ CloseEvent(c)
                       \/ RelayAccepts(c) \/ RelayRejects(c) \/ RelayLoses(c)
    \/ \E m \in Maintainer : Maintain(m)
    \/ Heartbeat
    \/ \E r \in NatRoles : NatVerdict(r)

\* A call whose promise was resolved goes on before the next event.
Resuming == \E m \in Maintainer : maint[m].pc \in {"dialed", "redialed"}

Next == (Event /\ ~Resuming) \/ \E m \in Maintainer : MaintStep(m)

Spec == Init /\ [][Next]_vars
-----------------------------------------------------------------------------
(* Properties                                                               *)

\* A node only calls itself a transit edge while it has enough relays, also
\* when tunnels close while others are bound and AutoNAT has its say.
TransitRole == role = "CAP_EDGE_TRANSIT" => Cardinality(bound) >= TransitMin

\* The limit on bound relays holds although each bind is awaited and tunnels
\* close and reopen meanwhile.
BoundLimit == Cardinality(bound) <= MaxRelays

Ends == INSTANCE Tunnels
          WITH held <- {r \in Relay : tunnel[r] # NoChan}, offered <- {to[c] : c \in acks}

\* The edge counts on a relay only upon an ACK of that relay, although the
\* channel it awaits one on is looked up once more after each await, and it
\* never takes on more than the limit it checked three awaits before.
OnlyAccepted == Ends!Spec

\* A relay's tunnel for the edge ends only with its own channel.
TunnelKept ==
    [][ \A r \in Relay :
          tunnel[r] # NoChan /\ tunnel'[r] = NoChan => tunnel[r] \notin rend' ]_vars

Fairness ==
    /\ \A c \in Chan : /\ WF_vars(HandshakeDone(c))
                       /\ WF_vars(EdgeBreak(c) /\ faults' = faults)
                       /\ WF_vars(CloseEvent(c))
                       /\ WF_vars(RelayAccepts(c))
                       /\ WF_vars(RelayLoses(c) /\ faults' = faults)
    /\ \A m \in Maintainer : WF_vars(MaintStep(m))
    /\ WF_vars(\E m \in Maintainer : Maintain(m))
    /\ WF_vars(Heartbeat)

FairSpec == Spec /\ Fairness

\* Bound to as many relays as the node may, and to none whose end of the
\* connection is gone; a relay binds to none.
Rebound ==
    \/ role = "RELAY"
    \/ /\ Bootstrap \subseteq bound \/ Cardinality(bound) = MaxRelays
       /\ \A r \in bound : Live(pool[r]) /\ pool[r] \in rend

\* Unless maintenance hangs, the tunnels come back after any failure, wherever
\* it falls between the awaits of maintenance, heartbeats and close events.
RebindsAll == <>[](Hung \/ Rebound)
=============================================================================
