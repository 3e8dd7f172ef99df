------------------------------- MODULE AutoNat -------------------------------
(***************************************************************************)
(* core/autoNat.js over secure channels.  A node learns its public address *)
(* from the HANDSHAKE_REPLYs of its peers.  When two of them agree on a    *)
(* new one it asks a peer to dial it back, and becomes a relay if that     *)
(* peer's DIALBACK_CONFIRM comes within 5 s.  The peers' side is modelled  *)
(* too: a peer serves a few dialbacks at a time.                           *)
(***************************************************************************)
EXTENDS SecureChannel, FiniteSets

CONSTANTS
    Peers,
    PeerOf,         \* PeerOf[c]: the peer this node dials with channel c
    Address,        \* public addresses the node may be seen at
    NoAddress,
    Votes,          \* votes from channels that are closed by now
    Dialback,       \* nonces of this node's dialbacks
    Notes,          \* other payloads that cross its channels
    Writers,        \* the ends they are written at
    NoChan,
    MaxDialbacks    \* maxConcurrentDialbacks, 5

Request(d) == [type |-> "DIALBACK_REQUEST", nonce |-> d]
Confirm(d) == [type |-> "DIALBACK_CONFIRM", nonce |-> d]

ASSUME AutoNatAssumption ==
    /\ Peers # {} /\ PeerOf \in [Chan -> Peers]
    /\ NoAddress \notin Address /\ NoChan \notin Chan
    /\ Writers \subseteq End
    /\ Votes \in [Address -> SUBSET Peers]
    /\ IsFiniteSet(Dialback)
    /\ \A n \in Notes, d \in Dialback : n # Request(d) /\ n # Confirm(d)
    /\ Payload = Notes \cup {Request(d) : d \in Dialback} \cup {Confirm(d) : d \in Dialback}
    /\ MaxDialbacks \in Nat \ {0}

VARIABLES
    meshRole,       \* CONFIG.meshRole
    role,
    votes,          \* observedAddressVotes
    publicIp,
    running,        \* isDialbackRunning
    pending,        \* pendingDialbacks
    test,           \* test[d]: the peer asked and where sendPacket stands
    serve,          \* serve[d]: how far the peer is with request d
    freed,          \* dialbacks whose slot was released
    active,         \* active[p]: activeDialbacks of peer p
    reached         \* history: dialbacks whose dial reached the node

natVars == <<meshRole, role, votes, publicIp, running, pending, test>>
peerVars == <<serve, freed, active, reached>>
vars == <<chanVars, natVars, peerVars>>

NoTest == [sent |-> "new", peer |-> CHOOSE p \in Peers : TRUE]
Idle == [pc |-> "none", peer |-> CHOOSE p \in Peers : TRUE, via |-> NoChan]

TypeOK ==
    /\ ChanTypeOK
    /\ meshRole \in {"EDGE", "RELAY"} /\ role \in {"EDGE", "RELAY"}
    /\ votes \in [Address -> SUBSET Peers]
    /\ publicIp \in Address \cup {NoAddress}
    /\ running \in BOOLEAN /\ pending \subseteq Dialback
    /\ test \in [Dialback -> [sent : {"new", "awaited", "sent", "failed"}, peer : Peers]]
    /\ serve \in [Dialback -> [pc : {"none", "dialing", "dialed", "closed"}, peer : Peers,
                               via : Chan \cup {NoChan}]]
    /\ freed \subseteq Dialback
    /\ active \in [Peers -> Nat]
    /\ reached \subseteq Dialback

Init ==
    /\ ChanInit
    /\ meshRole \in {"EDGE", "RELAY"} /\ role = meshRole
    /\ votes = Votes /\ publicIp = NoAddress
    /\ running = FALSE /\ pending = {}
    /\ test = [d \in Dialback |-> NoTest]
    /\ serve = [x \in Dialback |-> Idle]
    /\ freed = {}
    /\ active = [p \in Peers |-> 0]
    /\ reached = {}
-----------------------------------------------------------------------------
(* The node                                                                 *)

DialPeer(c) == Dial(c) /\ UNCHANGED <<natVars, peerVars>>

\* initiateDialback, as far as the packet it awaits.  The peer is the first
\* one known, whichever that is, if any is and has a port.
InitiateDialback ==
    \/ /\ running
       /\ UNCHANGED <<running, pending, test, role>>
    \/ /\ ~running
       /\ role' = "EDGE"
       /\ UNCHANGED <<running, pending, test>>
    \/ /\ ~running
       /\ running' = TRUE
       /\ \E d \in Dialback, p \in Peers :
            /\ test[d].sent = "new"
            /\ pending' = pending \cup {d}
            /\ test' = [test EXCEPT ![d] = [sent |-> "awaited", peer |-> p]]
       /\ UNCHANGED role

\* handleObservedAddress
HandleObservedAddress(a, p) ==
    LET agreed == Cardinality(votes[a] \cup {p}) >= 2 /\ publicIp # a IN
    /\ votes' = [votes EXCEPT ![a] = @ \cup {p}]
    /\ publicIp' = IF agreed THEN a ELSE publicIp
    /\ \/ ~agreed /\ UNCHANGED <<role, running, pending, test>>
       \/ agreed /\ meshRole = "EDGE" /\ role' = "EDGE" /\ UNCHANGED <<running, pending, test>>
       \/ agreed /\ meshRole # "EDGE" /\ InitiateDialback
    /\ UNCHANGED meshRole

\* The reply tells the address the peer saw, before the channel is ready.
ReplyArrives(c) ==
    /\ ReceiveReply(c)
    /\ \E a \in Address : HandleObservedAddress(a, PeerOf[c])
    /\ UNCHANGED peerVars

\* sendPacket has a channel: its promise can only resolve from now on.
SendRequest(d, c) ==
    /\ test[d].sent = "awaited" /\ test[d].peer = PeerOf[c]
    /\ state[<<c, "ini">>] = "ready"
    /\ WritePayload(<<c, "ini">>, Request(d))
    /\ test' = [test EXCEPT ![d].sent = "sent"]
    /\ UNCHANGED <<meshRole, role, votes, publicIp, running, pending, peerVars>>

\* Mutant: the node stays busy.
MutRequestFails(d) ==
    /\ test[d].sent = "awaited"
    /\ Fault
    /\ test' = [test EXCEPT ![d].sent = "failed"]
    /\ pending' = pending \ {d}
    /\ role' = "EDGE"
    /\ UNCHANGED <<state, wire, queue, glued, wrote, got, meshRole, votes, publicIp, running,
                   peerVars>>

\* The peer cannot be dialled, or its channel breaks or is not ready in 6 s,
\* which may be after the dialback's own timer.
RequestFails(d) ==
    /\ test[d].sent = "awaited"
    /\ Fault
    /\ test' = [test EXCEPT ![d].sent = "failed"]
    /\ pending' = pending \ {d}
    /\ running' = FALSE
    /\ role' = "EDGE"
    /\ UNCHANGED <<state, wire, queue, glued, wrote, got, meshRole, votes, publicIp, peerVars>>

\* The 5 s timer.
DialbackTimer(d) ==
    /\ d \in pending
    /\ pending' = pending \ {d}
    /\ running' = FALSE
    /\ role' = "EDGE"
    /\ UNCHANGED <<chanVars, meshRole, votes, publicIp, test, peerVars>>

\* Mutant: the nonce is not looked up.
MutHandleDialbackConfirm(d) ==
    /\ pending' = pending \ {d}
    /\ running' = FALSE
    /\ role' = "RELAY"
    /\ UNCHANGED <<meshRole, votes, publicIp, test>>

\* handleDialbackConfirm
HandleDialbackConfirm(d) ==
    IF d \in pending
    THEN /\ pending' = pending \ {d}
         /\ running' = FALSE
         /\ role' = "RELAY"
         /\ UNCHANGED <<meshRole, votes, publicIp, test>>
    ELSE UNCHANGED natVars

ConfirmArrives(c, d) ==
    /\ ReceiveFrame(<<c, "ini">>, Confirm(d))
    /\ IF state[<<c, "ini">>] = "ready" THEN HandleDialbackConfirm(d) ELSE UNCHANGED natVars
    /\ UNCHANGED peerVars
-----------------------------------------------------------------------------
(* Its peers                                                                *)

\* Mutant: one dialback too many.
MutServe(d, p, c) ==
    /\ active[p] <= MaxDialbacks
    /\ serve' = [serve EXCEPT ![d] = [pc |-> "dialing", peer |-> p, via |-> c]]
    /\ active' = [active EXCEPT ![p] = @ + 1]
    /\ UNCHANGED <<freed, reached>>

\* handleDialbackRequest takes a slot and dials the requester.
Serve(d, p, c) ==
    /\ active[p] < MaxDialbacks
    /\ serve' = [serve EXCEPT ![d] = [pc |-> "dialing", peer |-> p, via |-> c]]
    /\ active' = [active EXCEPT ![p] = @ + 1]
    /\ UNCHANGED <<freed, reached>>

\* No slot is free, or the address asked less than 10 s ago, or is private:
\* no answer.
RequestArrives(c, d) ==
    /\ ReceiveFrame(<<c, "res">>, Request(d))
    /\ \/ state[<<c, "res">>] = "ready" /\ Serve(d, PeerOf[c], c)
       \/ UNCHANGED peerVars
    /\ UNCHANGED natVars

\* releaseSlot
Release(d) ==
    /\ freed' = freed \cup {d}
    /\ active' = [active EXCEPT ![serve[d].peer] =
                    IF d \in freed \/ @ = 0 THEN @ ELSE @ - 1]

Moves(d, from, to) ==
    /\ serve[d].pc = from
    /\ serve' = [serve EXCEPT ![d].pc = to]
    /\ Release(d)
    /\ UNCHANGED natVars

\* The dial reaches the requester, who is told on the channel of its request.
Dialed(d) ==
    /\ Moves(d, "dialing", "dialed")
    /\ reached' = reached \cup {d}
    /\ WritePayload(<<serve[d].via, "res">>, Confirm(d))

\* The error event, or the 3 s timer, which may also fire on a dialled socket
\* that the requester does not close.
DialFails(d) ==
    /\ Moves(d, "dialing", "dialed") \/ Moves(d, "dialed", "dialed")
    /\ UNCHANGED <<chanVars, reached>>

\* The close event.
DialCloses(d) == Moves(d, "dialed", "closed") /\ UNCHANGED <<chanVars, reached>>
-----------------------------------------------------------------------------
\* Any other traffic of the channel's owners.
Note(e, n) ==
    /\ \A x \in End : n \notin Range(wrote[x])
    /\ state[e] # "gone" /\ (state[e] = "new" => Accepted(e))
    /\ WritePayload(e, n)
    /\ UNCHANGED <<natVars, peerVars>>

NoteArrives(e, n) == ReceiveFrame(e, n) /\ UNCHANGED <<natVars, peerVars>>

Next ==
    \/ ChanStep /\ UNCHANGED <<natVars, peerVars>>
    \/ \E c \in Chan : \/ DialPeer(c) \/ ReplyArrives(c)
                       \/ \E d \in Dialback : \/ SendRequest(d, c) \/ ConfirmArrives(c, d)
                                              \/ RequestArrives(c, d)
    \/ \E d \in Dialback : \/ RequestFails(d) \/ DialbackTimer(d)
                           \/ Dialed(d) \/ DialFails(d) \/ DialCloses(d)
    \/ \E n \in Notes : \/ \E e \in Writers : Note(e, n)
                       \/ \E e \in End : NoteArrives(e, n)

Spec == Init /\ [][Next]_vars

\* Timers fire: of the handshakes and of the dialbacks.
Fairness ==
    /\ \A e \in End : WF_vars(Timeout(e) /\ UNCHANGED <<natVars, peerVars>>)
    /\ \A d \in Dialback : WF_vars(DialbackTimer(d))

FairSpec == Spec /\ Fairness
-----------------------------------------------------------------------------
(* Properties                                                               *)

\* A peer's counter is the number of its dials that have not come to an end,
\* whatever events a dial still raises afterwards, so it never admits more
\* than MaxDialbacks of them.
SlotCount ==
    \A p \in Peers :
      /\ active[p] = Cardinality({x \in Dialback : serve[x].pc = "dialing" /\ serve[x].peer = p})
      /\ active[p] <= MaxDialbacks

\* A node is promoted only by the answer to a dialback that is still pending
\* and that did reach it: no answer that comes after the timer, and no failed
\* dial, makes it a relay.
PromotedByTest ==
    [][ role # "RELAY" /\ role' = "RELAY" =>
          \E d \in pending \ pending' : d \in reached ]_vars

\* A test ends, whatever becomes of its packet, its answer and the channels:
\* the node can test its next address.
DialbackEnds == running ~> ~running
=============================================================================
