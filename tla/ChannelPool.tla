----------------------------- MODULE ChannelPool -----------------------------
(***************************************************************************)
(* The connection pool of core/federation.js: one outgoing secure channel  *)
(* per address, opened on demand.  Destroying a socket and its 'close'     *)
(* event are two moments: whatever opens a connection in between meets the *)
(* old channel's close handler later, which deletes by address alone.      *)
(***************************************************************************)
EXTENDS Naturals, FiniteSets

CONSTANTS
    Relay,      \* host:port addresses of relays
    Chan,       \* channels that can exist at once
    NoChan,
    PoolSize    \* CONFIG.maxConnectionPoolSize, 500

ASSUME PoolAssumption ==
    /\ IsFiniteSet(Relay) /\ Relay # {}
    /\ NoChan \notin Chan
    /\ PoolSize \in Nat \ {0}

VARIABLES
    phase,      \* phase[c]: the initiator's socket of channel c
    to,         \* to[c]: the address c was opened to
    pool        \* connectionPool

poolVars == <<phase, to, pool>>

Phases == {"closed", "dialing", "ready", "dying"}

PoolTypeOK ==
    /\ phase \in [Chan -> Phases]
    /\ to \in [Chan -> Relay]
    /\ pool \in [Relay -> Chan \cup {NoChan}]

\* Stands for no relay where one is required.
AnyRelay == CHOOSE r \in Relay : TRUE

PoolInit ==
    /\ phase = [c \in Chan |-> "closed"]
    /\ to = [c \in Chan |-> AnyRelay]
    /\ pool = [r \in Relay |-> NoChan]
-----------------------------------------------------------------------------
Pooled == {r \in Relay : pool[r] # NoChan}

\* Not destroyed and writable.
Live(c) == c # NoChan /\ phase[c] \in {"dialing", "ready"}

\* Mutant: the pool makes no room.
MutOpened(r, c) == {[pool EXCEPT ![r] = c]}

\* A full pool gives up its oldest entry.  The pool also serves every other
\* part of the node, so any entry may be the oldest.
Opened(r, c) ==
    IF r \in Pooled \/ Cardinality(Pooled) < PoolSize
    THEN {[pool EXCEPT ![r] = c]}
    ELSE {[pool EXCEPT ![e] = NoChan, ![r] = c] : e \in Pooled}

\* Destroy the sockets of D; their 'close' events are still to come.
Destroyed(D) == [c \in Chan |-> IF c \in D /\ Live(c) THEN "dying" ELSE phase[c]]

\* getOrCreateSecureChannel without a live entry for r: c is the new channel.
Dial(r, c) ==
    /\ ~Live(pool[r])
    /\ pool' \in Opened(r, c)
    /\ phase' = [Destroyed({pool[e] : e \in {x \in Pooled \ {r} : pool'[x] = NoChan}})
                   EXCEPT ![c] = "dialing"]
    /\ to' = [to EXCEPT ![c] = r]

\* The handshake of c is complete.
Ready(c) ==
    /\ phase[c] = "dialing"
    /\ phase' = [phase EXCEPT ![c] = "ready"]
    /\ UNCHANGED <<to, pool>>

\* The socket of c ends (entry kept), fails ('error' and the timeout of a dial
\* delete the entry at once), or is destroyed by a retry of sendViaOnion, which
\* deletes the entry, too.
Break(c) ==
    /\ Live(c)
    /\ phase' = [phase EXCEPT ![c] = "dying"]
    /\ pool' \in {pool, [pool EXCEPT ![to[c]] = NoChan]}
    /\ to' = to

\* The 'close' handler deletes the entry of the address, whoever holds it.
Forget(c) ==
    /\ phase[c] = "dying"
    /\ phase' = [phase EXCEPT ![c] = "closed"]
    /\ pool' = [pool EXCEPT ![to[c]] = NoChan]
    /\ to' = to

\* Never more entries than the pool size, however opens, breaks and late
\* close events alternate.
PoolBound == Cardinality(Pooled) <= PoolSize
=============================================================================
