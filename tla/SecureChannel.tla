----------------------------- MODULE SecureChannel -----------------------------
(***************************************************************************)
(* core/secureChannel.js: one encrypted channel from the dial on, as its   *)
(* two ends see it.  The initiator writes HANDSHAKE_INIT, the responder    *)
(* checks the declared address, which may await a DNS lookup, and answers  *)
(* with HANDSHAKE_REPLY.  Payloads written before an end is ready wait in  *)
(* its queue.  Frames end with a newline; a chunk of one byte is a         *)
(* keepalive, also if that byte is the newline of a frame.  Signatures and *)
(* ciphers are taken as sound.                                             *)
(***************************************************************************)
EXTENDS Naturals, Sequences, SequencesExt

CONSTANTS
    Chan,           \* channels, each dialled at most once
    Payload,        \* what is written to them
    MaxFaults       \* bound: refused dials, broken channels, torn frames

ASSUME ChannelAssumption == MaxFaults \in Nat

End == Chan \X {"ini", "res"}

Peer(e) == <<e[1], IF e[2] = "ini" THEN "res" ELSE "ini">>

VARIABLES
    state,          \* state[e]: of the end e, see States
    wire,           \* wire[e]: frames that e has written and its peer not read
    queue,          \* queue[e]: pendingQueue
    glued,          \* ends whose buffer holds a frame without its newline
    wrote,          \* history, wrote[e]: payloads e was given to write
    got,            \* history, got[e]: payloads e emitted
    faults

chanVars == <<state, wire, queue, glued, wrote, got, faults>>

\* "checking" awaits validatePeerIp; "gone" is a destroyed or closed socket.
States == {"new", "waiting", "checking", "ready", "gone"}

HandshakeInit == [type |-> "HANDSHAKE_INIT"]
HandshakeReply == [type |-> "HANDSHAKE_REPLY"]
Encrypted(p) == [type |-> "ENCRYPTED_FRAME", payload |-> p]
Frame == {HandshakeInit, HandshakeReply} \cup {Encrypted(p) : p \in Payload}

ChanTypeOK ==
    /\ state \in [End -> States]
    /\ wire \in [End -> Seq(Frame)]
    /\ queue \in [End -> Seq(Payload)]
    /\ glued \subseteq End
    /\ wrote \in [End -> Seq(Payload)] /\ got \in [End -> Seq(Payload)]
    /\ faults \in 0 .. MaxFaults

ChanInit ==
    /\ state = [e \in End |-> "new"]
    /\ wire = [e \in End |-> <<>>]
    /\ queue = [e \in End |-> <<>>]
    /\ glued = {}
    /\ wrote = [e \in End |-> <<>>] /\ got = [e \in End |-> <<>>]
    /\ faults = 0
-----------------------------------------------------------------------------
Sealed(payloads) == [i \in DOMAIN payloads |-> Encrypted(payloads[i])]

\* sendHandshakeInit of the constructor.
Dial(c) ==
    /\ state[<<c, "ini">>] = "new"
    /\ state' = [state EXCEPT ![<<c, "ini">>] = "waiting"]
    /\ wire' = [wire EXCEPT ![<<c, "ini">>] = <<HandshakeInit>>]
    /\ UNCHANGED <<queue, glued, wrote, got, faults>>

\* Frame f is the next line in the buffer of e.
Reads(e, f) ==
    /\ state[e] # "gone" /\ e \notin glued
    /\ wire[Peer(e)] # <<>> /\ Head(wire[Peer(e)]) = f

\* Mutant: the queue is written before the reply.
MutMarkReady(e, first, rest) ==
    /\ state' = [state EXCEPT ![e] = "ready"]
    /\ wire' = [wire EXCEPT ![e] = @ \o Sealed(queue[e]) \o first, ![Peer(e)] = rest]
    /\ queue' = [queue EXCEPT ![e] = <<>>]
    /\ UNCHANGED <<glued, wrote, got, faults>>

\* markReady, after `first' was written: the queue goes out in its order.
MarkReady(e, first, rest) ==
    /\ state' = [state EXCEPT ![e] = "ready"]
    /\ wire' = [wire EXCEPT ![e] = @ \o first \o Sealed(queue[e]), ![Peer(e)] = rest]
    /\ queue' = [queue EXCEPT ![e] = <<>>]
    /\ UNCHANGED <<glued, wrote, got, faults>>

\* HANDSHAKE_INIT, as far as the lookup that is awaited.
ReceiveInit(c) ==
    /\ state[<<c, "res">>] = "new" /\ Reads(<<c, "res">>, HandshakeInit)
    /\ state' = [state EXCEPT ![<<c, "res">>] = "checking"]
    /\ wire' = [wire EXCEPT ![<<c, "ini">>] = Tail(@)]
    /\ UNCHANGED <<queue, glued, wrote, got, faults>>

\* The rest of HANDSHAKE_INIT.
Checked(c) ==
    /\ state[<<c, "res">>] = "checking"
    /\ MarkReady(<<c, "res">>, <<HandshakeReply>>, wire[<<c, "ini">>])

\* HANDSHAKE_REPLY.
ReceiveReply(c) ==
    /\ state[<<c, "ini">>] = "waiting" /\ Reads(<<c, "ini">>, HandshakeReply)
    /\ MarkReady(<<c, "ini">>, <<>>, Tail(wire[<<c, "res">>]))

\* ENCRYPTED_FRAME: dropped by an end that is not ready.
ReceiveFrame(e, p) ==
    /\ Reads(e, Encrypted(p))
    /\ wire' = [wire EXCEPT ![Peer(e)] = Tail(@)]
    /\ got' = IF state[e] = "ready" THEN [got EXCEPT ![e] = Append(@, p)] ELSE got
    /\ UNCHANGED <<state, queue, glued, wrote, faults>>

\* writePayload.  On a destroyed socket the frame vanishes.
WritePayload(e, p) ==
    /\ wrote' = [wrote EXCEPT ![e] = Append(@, p)]
    /\ queue' = IF state[e] \in {"ready", "gone"} THEN queue
                ELSE [queue EXCEPT ![e] = Append(@, p)]
    /\ wire' = IF state[e] = "ready" THEN [wire EXCEPT ![e] = Append(@, Encrypted(p))] ELSE wire
    /\ UNCHANGED <<state, glued, got, faults>>
-----------------------------------------------------------------------------
Fault == faults < MaxFaults /\ faults' = faults + 1

\* The newline of the next frame comes in a chunk of its own: it is taken for
\* a PONG, and the frame stays in the buffer ...
SwallowNewline(e) ==
    /\ Fault
    /\ state[e] # "gone" /\ e \notin glued /\ wire[Peer(e)] # <<>>
    /\ wire' = [wire EXCEPT ![Peer(e)] = Tail(@)]
    /\ glued' = glued \cup {e}
    /\ UNCHANGED <<state, queue, wrote, got>>

\* ... where the one after it is glued to it, and neither can be parsed.
DropGlued(e) ==
    /\ state[e] # "gone" /\ e \in glued /\ wire[Peer(e)] # <<>>
    /\ wire' = [wire EXCEPT ![Peer(e)] = Tail(@)]
    /\ glued' = glued \ {e}
    /\ UNCHANGED <<state, queue, wrote, got, faults>>

\* socket.destroy at e: of what it has written a part still arrives.
Destroy(e) ==
    /\ state' = [state EXCEPT ![e] = "gone"]
    /\ \E n \in 0 .. Len(wire[e]) :
         wire' = [wire EXCEPT ![e] = SubSeq(@, 1, n), ![Peer(e)] = <<>>]
    /\ UNCHANGED <<queue, glued, wrote, got, faults>>

Accepted(e) == e[2] = "res" /\ state[e] = "new" /\ state[Peer(e)] # "new"

\* Mutant: the timer is off as soon as the first frame has come.
MutTimeout(e) == (state[e] = "waiting" \/ Accepted(e)) /\ Destroy(e)

\* The idle timers of the socket, 6 s of the initiator and 30 s of the
\* responder, while the handshake is not done.
Timeout(e) == (state[e] \in {"waiting", "checking"} \/ Accepted(e)) /\ Destroy(e)

\* The declared address is not the peer's, or the signature is wrong.
Rejected(c) == state[<<c, "res">>] = "checking" /\ Destroy(<<c, "res">>)

\* The `close' event, after what the other end had written; a paused socket
\* does not see the end.
Closed(e) ==
    /\ state[e] \notin {"checking", "gone"} /\ state[Peer(e)] = "gone" /\ wire[Peer(e)] = <<>>
    /\ Destroy(e)

\* The network or the other process fails; this end learns of it at once, the
\* other one from its timers or not at all.
Break(e) ==
    /\ Fault
    /\ state[e] \notin {"new", "gone"}
    /\ state' = [state EXCEPT ![e] = "gone"]
    /\ wire' = [wire EXCEPT ![e] = <<>>, ![Peer(e)] = <<>>]
    /\ UNCHANGED <<queue, glued, wrote, got>>

\* What happens to a channel whatever is sent on it.
ChanStep ==
    \/ \E c \in Chan : ReceiveInit(c) \/ Checked(c) \/ Rejected(c)
    \/ \E e \in End : \/ SwallowNewline(e) \/ DropGlued(e)
                      \/ Timeout(e) \/ Closed(e) \/ Break(e)

\* Timers fire.
ChanFairness == \A e \in End : WF_chanVars(Timeout(e))
-----------------------------------------------------------------------------
(* Properties                                                               *)

\* What was given to one end before, during and after the handshake comes out
\* of the other end at most once and in its order.  Of what was given to a
\* channel that stays up nothing is missing but what a swallowed newline took,
\* the frame before it and the next.
Delivered ==
    \A e \in End :
      LET in == got[Peer(e)]
          out == wrote[e]
      IN /\ \E at \in [DOMAIN in -> DOMAIN out] :
               \A j \in DOMAIN in : /\ in[j] = out[at[j]]
                                    /\ \A k \in DOMAIN in : j < k => at[j] < at[k]
         /\ \/ state[e] # "ready" \/ state[Peer(e)] # "ready" \/ wire[e] # <<>>
            \/ Len(out) - Len(in) <= 2 * faults

\* No handshake stays open at either end, also if a lookup never returns, the
\* other process dies or a frame is lost.  Each channel has one.
HandshakesEnd == <>[](\A e \in End : state[e] \notin {"waiting", "checking"} /\ ~Accepted(e))
=============================================================================
