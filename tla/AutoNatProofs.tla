---------------------------- MODULE AutoNatProofs ----------------------------
(***************************************************************************)
(* Proofs about AutoNat: its types, the peers' slots, that only an         *)
(* answered dialback promotes the node, and that its channels deliver what *)
(* is written to them in order and once.                                   *)
(***************************************************************************)
EXTENDS AutoNat, SequenceTheorems, FiniteSetTheorems, TLAPS

Positions(s) == 1 .. Len(s)

\* In a step, every wire drops frames at its start or end; frames it gets
\* besides are in X.
Carried(X) ==
    \A e \in End : \E k \in Nat : \A i \in Positions(wire'[e]) :
        wire'[e][i] \in X \/ (i + k \in Positions(wire[e]) /\ wire'[e][i] = wire[e][i + k])

\* What markReady may write.
Handshaken ==
    {HandshakeInit, HandshakeReply}
    \cup UNION {{Encrypted(queue[e][i]) : i \in Positions(queue[e])} : e \in End}

\* A step that gives the channels nothing to write.
ChanQuiet ==
    /\ ChanTypeOK'
    /\ Carried(Handshaken)
    /\ \A e \in End : queue'[e] = queue[e] \/ queue'[e] = <<>>

\* The peer of an end is an end.
LEMMA PeerType == \A e \in End : Peer(e) \in End /\ Peer(e) # e
BY DEF End, Peer

\* Channel ends, as their actions name them.
LEMMA EndType ==
    \A c \in Chan : /\ <<c, "ini">> \in End /\ <<c, "res">> \in End
                    /\ Peer(<<c, "ini">>) = <<c, "res">> /\ Peer(<<c, "res">>) = <<c, "ini">>
BY DEF End, Peer

\* Frames that are written are frames.
LEMMA FrameType ==
    /\ HandshakeInit \in Frame /\ HandshakeReply \in Frame
    /\ \A p \in Payload : Encrypted(p) \in Frame
BY DEF Frame

\* A sealed queue is a sequence of frames.
LEMMA SealedType ==
    ASSUME NEW q \in Seq(Payload)
    PROVE  /\ Sealed(q) \in Seq(Frame) /\ Len(Sealed(q)) = Len(q)
           /\ \A i \in Positions(q) : Sealed(q)[i] = Encrypted(q[i])
<1>1. DOMAIN q = 1 .. Len(q) /\ Len(q) \in Nat /\ \A i \in 1 .. Len(q) : q[i] \in Payload
  BY ElementOfSeq, LenProperties
<1>2. Sealed(q) \in [1 .. Len(q) -> Frame]
  BY <1>1, FrameType DEF Sealed
<1>3. Sealed(q) \in Seq(Frame) /\ Len(Sealed(q)) = Len(q)
  BY <1>1, <1>2, IsASeq, LenProperties
<1> QED BY <1>1, <1>3 DEF Sealed, Positions

\* Wires that lose frames at their start, or at their end.
LEMMA TailCarried ==
    ASSUME NEW S, NEW s \in Seq(S), s # <<>>
    PROVE  /\ Tail(s) \in Seq(S)
           /\ \A i \in Positions(Tail(s)) : i + 1 \in Positions(s) /\ Tail(s)[i] = s[i + 1]
BY HeadTailProperties, LenProperties DEF Positions

LEMMA CutCarried ==
    ASSUME NEW S, NEW s \in Seq(S), NEW n \in 0 .. Len(s)
    PROVE  /\ SubSeq(s, 1, n) \in Seq(S)
           /\ \A i \in Positions(SubSeq(s, 1, n)) : i + 0 \in Positions(s) /\ SubSeq(s, 1, n)[i] = s[i + 0]
<1>1. Len(s) \in Nat
  BY LenProperties
<1>2. CASE n = 0
  BY <1>2, SubSeqEmpty, EmptySeq DEF Positions
<1>3. CASE n # 0
  <2>1. 1 \in 1 .. Len(s) /\ n \in 1 .. Len(s)
    BY <1>1, <1>3
  <2> QED BY <1>1, <2>1, SubSeqProperties DEF Positions
<1> QED BY <1>2, <1>3

\* A wire with more frames written behind it.
LEMMA ConcatCarried ==
    ASSUME NEW S, NEW s \in Seq(S), NEW t \in Seq(S), NEW X,
           \A i \in Positions(t) : t[i] \in X
    PROVE  /\ s \o t \in Seq(S)
           /\ \A i \in Positions(s \o t) :
                (s \o t)[i] \in X \/ (i + 0 \in Positions(s) /\ (s \o t)[i] = s[i + 0])
<1>1. Len(s) \in Nat /\ Len(t) \in Nat
  BY LenProperties
<1>2. /\ s \o t \in Seq(S) /\ Len(s \o t) = Len(s) + Len(t)
      /\ \A i \in 1 .. Len(s) + Len(t) :
            (s \o t)[i] = IF i <= Len(s) THEN s[i] ELSE t[i - Len(s)]
  BY ConcatProperties
<1>3. ASSUME NEW i \in Positions(s \o t)
      PROVE  (s \o t)[i] \in X \/ (i + 0 \in Positions(s) /\ (s \o t)[i] = s[i + 0])
  <2>1. CASE i <= Len(s)
    BY <1>1, <1>2, <2>1 DEF Positions
  <2>2. CASE ~(i <= Len(s))
    <3>1. i - Len(s) \in Positions(t)
      BY <1>1, <1>2, <2>2 DEF Positions
    <3> QED BY <1>1, <1>2, <2>2, <3>1 DEF Positions
  <2> QED BY <2>1, <2>2
<1> QED BY <1>2, <1>3
\* A wire that is carried over with offset k.
Follows(w, s, k, X) ==
    \A i \in Positions(w) : w[i] \in X \/ (i + k \in Positions(s) /\ w[i] = s[i + k])

\* A step that changes no wire, one, or two.
LEMMA NoWire ==
    ASSUME ChanTypeOK, wire' = wire, NEW X
    PROVE  Carried(X) /\ wire' \in [End -> Seq(Frame)]
<1>1. \A e \in End : \A i \in Positions(wire[e]) : i + 0 = i
  BY LenProperties DEF Positions, ChanTypeOK
<1> QED BY <1>1 DEF Carried, ChanTypeOK

LEMMA TwoWires ==
    ASSUME ChanTypeOK, NEW X, NEW e \in End, NEW f \in End, e # f,
           NEW w \in Seq(Frame), NEW v \in Seq(Frame), NEW k \in Nat, NEW l \in Nat,
           Follows(w, wire[e], k, X), Follows(v, wire[f], l, X),
           wire' = [wire EXCEPT ![e] = w, ![f] = v]
    PROVE  Carried(X) /\ wire' \in [End -> Seq(Frame)]
<1>1. wire \in [End -> Seq(Frame)]
  BY DEF ChanTypeOK
<1>2. wire'[e] = w /\ wire'[f] = v /\ \A g \in End \ {e, f} : wire'[g] = wire[g]
  BY <1>1
<1>3. ASSUME NEW g \in End
      PROVE  \E j \in Nat : Follows(wire'[g], wire[g], j, X)
  <2>1. CASE g = e
    BY <1>2, <2>1
  <2>2. CASE g = f
    BY <1>2, <2>2
  <2>3. CASE g \notin {e, f}
    <3>1. \A i \in Positions(wire[g]) : i + 0 = i
      BY <1>1, LenProperties DEF Positions
    <3>2. Follows(wire'[g], wire[g], 0, X)
      BY <1>2, <2>3, <3>1 DEF Follows
    <3> QED BY <3>2
  <2> QED BY <2>1, <2>2, <2>3
<1>4. wire' \in [End -> Seq(Frame)]
  BY <1>1
<1> QED BY <1>3, <1>4 DEF Carried, Follows

LEMMA OneWire ==
    ASSUME ChanTypeOK, NEW X, NEW e \in End, NEW w \in Seq(Frame), NEW k \in Nat,
           Follows(w, wire[e], k, X), wire' = [wire EXCEPT ![e] = w]
    PROVE  Carried(X) /\ wire' \in [End -> Seq(Frame)]
<1>1. wire \in [End -> Seq(Frame)]
  BY DEF ChanTypeOK
<1>2. Peer(e) \in End /\ Peer(e) # e
  BY PeerType
<1>3. wire' = [wire EXCEPT ![e] = w, ![Peer(e)] = wire[Peer(e)]]
  BY <1>1, <1>2
<1>4. \A i \in Positions(wire[Peer(e)]) : i + 0 = i
  BY <1>1, <1>2, LenProperties DEF Positions
<1>5. Follows(wire[Peer(e)], wire[Peer(e)], 0, X)
  BY <1>4 DEF Follows
<1>6. wire[Peer(e)] \in Seq(Frame)
  BY <1>1, <1>2
<1> QED BY <1>2, <1>3, <1>5, <1>6, TwoWires

\* What the lemmas on sequences say, in these words.
LEMMA Followers ==
    ASSUME NEW s \in Seq(Frame), NEW X
    PROVE  /\ s # <<>> => Tail(s) \in Seq(Frame) /\ Follows(Tail(s), s, 1, X)
           /\ \A n \in 0 .. Len(s) : SubSeq(s, 1, n) \in Seq(Frame) /\ Follows(SubSeq(s, 1, n), s, 0, X)
           /\ <<>> \in Seq(Frame) /\ Follows(<<>>, s, 0, X)
           /\ \A t \in Seq(Frame) : (\A i \in Positions(t) : t[i] \in X)
                => s \o t \in Seq(Frame) /\ Follows(s \o t, s, 0, X)
<1>1. s # <<>> => Tail(s) \in Seq(Frame) /\ Follows(Tail(s), s, 1, X)
  BY TailCarried DEF Follows
<1>2. ASSUME NEW n \in 0 .. Len(s)
      PROVE  SubSeq(s, 1, n) \in Seq(Frame) /\ Follows(SubSeq(s, 1, n), s, 0, X)
  BY CutCarried DEF Follows
<1>3. <<>> \in Seq(Frame) /\ Follows(<<>>, s, 0, X)
  BY EmptySeq DEF Follows, Positions
<1>4. ASSUME NEW t \in Seq(Frame), \A i \in Positions(t) : t[i] \in X
      PROVE  s \o t \in Seq(Frame) /\ Follows(s \o t, s, 0, X)
  BY <1>4, ConcatCarried DEF Follows
<1> QED BY <1>1, <1>2, <1>3, <1>4

\* Whoever reads takes the first frame of a wire that has one.
LEMMA ReadsType ==
    ASSUME ChanTypeOK, NEW e \in End, NEW f, Reads(e, f)
    PROVE  /\ Peer(e) \in End /\ wire[Peer(e)] \in Seq(Frame) /\ wire[Peer(e)] # <<>>
           /\ 1 \in Positions(wire[Peer(e)]) /\ wire[Peer(e)][1] = f
           /\ Tail(wire[Peer(e)]) \in Seq(Frame)
           /\ \A X : Follows(Tail(wire[Peer(e)]), wire[Peer(e)], 1, X)
<1>1. Peer(e) \in End /\ wire[Peer(e)] \in Seq(Frame) /\ wire[Peer(e)] # <<>> /\ Head(wire[Peer(e)]) = f
  BY PeerType DEF Reads, ChanTypeOK
<1>2. 1 \in Positions(wire[Peer(e)]) /\ wire[Peer(e)][1] = f
  BY <1>1, HeadTailProperties, LenProperties, EmptySeq DEF Positions
<1>3. ASSUME NEW X
      PROVE  Follows(Tail(wire[Peer(e)]), wire[Peer(e)], 1, X)
  BY <1>1, Followers
<1>4. Tail(wire[Peer(e)]) \in Seq(Frame)
  BY <1>1, Followers
<1> QED BY <1>1, <1>2, <1>3, <1>4
-----------------------------------------------------------------------------
(* The channel's own steps write nothing but handshakes and what waited.    *)

LEMMA DialQuiet ==
    ASSUME ChanTypeOK, NEW c \in Chan, Dial(c)
    PROVE  ChanQuiet
<1> DEFINE e == <<c, "ini">>
<1>1. e \in End /\ wire[e] \in Seq(Frame)
  BY EndType DEF ChanTypeOK
<1>2. <<HandshakeInit>> \in Seq(Frame) /\ Len(<<HandshakeInit>>) = 1 /\ <<HandshakeInit>>[1] = HandshakeInit
  BY FrameType
<1>3. Follows(<<HandshakeInit>>, wire[e], 0, Handshaken)
  BY <1>2 DEF Follows, Positions, Handshaken
<1>4. wire' = [wire EXCEPT ![e] = <<HandshakeInit>>]
  BY DEF Dial
<1>5. Carried(Handshaken) /\ wire' \in [End -> Seq(Frame)]
  BY <1>1, <1>2, <1>3, <1>4, OneWire
<1> QED BY <1>1, <1>5 DEF ChanQuiet, Dial, ChanTypeOK, States

LEMMA FramesAssociate ==
    ASSUME NEW s \in Seq(Frame), NEW t \in Seq(Frame), NEW u \in Seq(Frame)
    PROVE  (s \o t) \o u = s \o (t \o u)
BY ConcatAssociative

LEMMA MarkReadyQuiet ==
    ASSUME ChanTypeOK, NEW e \in End, NEW first \in Seq(Frame), NEW rest \in Seq(Frame), NEW k \in Nat,
           \A i \in Positions(first) : first[i] \in Handshaken,
           Follows(rest, wire[Peer(e)], k, Handshaken), MarkReady(e, first, rest)
    PROVE  ChanQuiet
<1> DEFINE more == first \o Sealed(queue[e])
<1>1. /\ e \in End /\ Peer(e) \in End /\ Peer(e) # e
      /\ wire[e] \in Seq(Frame) /\ queue[e] \in Seq(Payload)
  BY PeerType DEF ChanTypeOK
<1>2. Sealed(queue[e]) \in Seq(Frame) /\ \A i \in Positions(Sealed(queue[e])) : Sealed(queue[e])[i] \in Handshaken
  BY <1>1, SealedType DEF Handshaken, Positions
<1>3. wire[e] \o first \in Seq(Frame) /\ Follows(wire[e] \o first, wire[e], 0, Handshaken)
  BY <1>1, Followers
<1>4. (wire[e] \o first) \o Sealed(queue[e]) = wire[e] \o more /\ more \in Seq(Frame)
  <2> DEFINE w == wire[e]
             s == Sealed(queue[e])
  <2>1. w \in Seq(Frame) /\ s \in Seq(Frame)
    BY <1>1, <1>2
  <2> HIDE DEF w, s
  <2>2. (w \o first) \o s = w \o (first \o s)
    BY <2>1, FramesAssociate
  <2>3. first \o s \in Seq(Frame)
    BY <2>1, ConcatProperties
  <2> QED BY <2>2, <2>3 DEF w, s
<1>5. \A i \in Positions(more) : more[i] \in Handshaken
  <2>1. Len(first) \in Nat /\ Len(Sealed(queue[e])) \in Nat
    BY <1>2, LenProperties
  <2>2. /\ Len(more) = Len(first) + Len(Sealed(queue[e]))
        /\ \A i \in 1 .. Len(first) + Len(Sealed(queue[e])) :
              more[i] = IF i <= Len(first) THEN first[i] ELSE Sealed(queue[e])[i - Len(first)]
    BY <1>2, ConcatProperties
  <2>3. ASSUME NEW i \in Positions(more), ~(i <= Len(first))
        PROVE  i - Len(first) \in Positions(Sealed(queue[e]))
    BY <2>1, <2>2, <2>3 DEF Positions
  <2>4. ASSUME NEW i \in Positions(more), i <= Len(first)
        PROVE  i \in Positions(first)
    BY <2>1, <2>2, <2>4 DEF Positions
  <2> QED BY <1>2, <2>2, <2>3, <2>4 DEF Positions
<1>6. wire[e] \o more \in Seq(Frame) /\ Follows(wire[e] \o more, wire[e], 0, Handshaken)
  BY <1>1, <1>4, <1>5, Followers
<1>7. wire' = [wire EXCEPT ![e] = wire[e] \o more, ![Peer(e)] = rest]
  BY <1>4 DEF MarkReady
<1> HIDE DEF more
<1>8. Carried(Handshaken) /\ wire' \in [End -> Seq(Frame)]
  BY <1>1, <1>6, <1>7, TwoWires
<1>9. queue' \in [End -> Seq(Payload)] /\ \A f \in End : queue'[f] = queue[f] \/ queue'[f] = <<>>
  BY EmptySeq DEF MarkReady, ChanTypeOK
<1> QED BY <1>8, <1>9 DEF ChanQuiet, MarkReady, ChanTypeOK, States

LEMMA ReplyQuiet ==
    ASSUME ChanTypeOK, NEW c \in Chan, ReceiveReply(c)
    PROVE  ChanQuiet
<1> DEFINE e == <<c, "ini">>
<1>1. e \in End /\ Peer(e) = <<c, "res">>
  BY EndType
<1>2. /\ Tail(wire[Peer(e)]) \in Seq(Frame)
      /\ Follows(Tail(wire[Peer(e)]), wire[Peer(e)], 1, Handshaken)
  BY <1>1, ReadsType DEF ReceiveReply
<1>3. <<>> \in Seq(Frame) /\ \A i \in Positions(<<>>) : <<>>[i] \in Handshaken
  BY EmptySeq DEF Positions
<1>4. MarkReady(e, <<>>, Tail(wire[Peer(e)]))
  BY <1>1 DEF ReceiveReply
<1> HIDE DEF e
<1> QED BY <1>1, <1>2, <1>3, <1>4, MarkReadyQuiet

LEMMA DestroyQuiet ==
    ASSUME ChanTypeOK, NEW e \in End, Destroy(e)
    PROVE  ChanQuiet
<1>1. /\ Peer(e) \in End /\ Peer(e) # e
      /\ wire[e] \in Seq(Frame) /\ wire[Peer(e)] \in Seq(Frame)
  BY PeerType DEF ChanTypeOK
<1>2. PICK n \in 0 .. Len(wire[e]) :
        wire' = [wire EXCEPT ![e] = SubSeq(wire[e], 1, n), ![Peer(e)] = <<>>]
  BY DEF Destroy
<1>3. SubSeq(wire[e], 1, n) \in Seq(Frame) /\ Follows(SubSeq(wire[e], 1, n), wire[e], 0, Handshaken)
  BY <1>1, Followers
<1>4. <<>> \in Seq(Frame) /\ Follows(<<>>, wire[Peer(e)], 0, Handshaken)
  BY <1>1, Followers
<1>5. Carried(Handshaken) /\ wire' \in [End -> Seq(Frame)]
  BY <1>1, <1>2, <1>3, <1>4, TwoWires
<1> QED BY <1>5 DEF ChanQuiet, Destroy, ChanTypeOK, States

LEMMA BreakQuiet ==
    ASSUME ChanTypeOK, NEW e \in End, Break(e)
    PROVE  ChanQuiet
<1>1. /\ Peer(e) \in End /\ Peer(e) # e
      /\ wire[e] \in Seq(Frame) /\ wire[Peer(e)] \in Seq(Frame)
  BY PeerType DEF ChanTypeOK
<1>2. /\ <<>> \in Seq(Frame) /\ Follows(<<>>, wire[e], 0, Handshaken)
      /\ Follows(<<>>, wire[Peer(e)], 0, Handshaken)
  BY <1>1, Followers
<1>3. wire' = [wire EXCEPT ![e] = <<>>, ![Peer(e)] = <<>>]
  BY DEF Break
<1>4. Carried(Handshaken) /\ wire' \in [End -> Seq(Frame)]
  BY <1>1, <1>2, <1>3, TwoWires
<1>5. faults' \in 0 .. MaxFaults
  BY ChannelAssumption DEF Break, Fault, ChanTypeOK
<1> QED BY <1>4, <1>5 DEF ChanQuiet, Break, ChanTypeOK, States

\* The first frame of a wire is read, or lost.
LEMMA DropsFirst ==
    ASSUME ChanTypeOK, NEW e \in End, wire[e] # <<>>, wire' = [wire EXCEPT ![e] = Tail(wire[e])]
    PROVE  Carried(Handshaken) /\ wire' \in [End -> Seq(Frame)]
<1>1. wire[e] \in Seq(Frame)
  BY DEF ChanTypeOK
<1>2. Tail(wire[e]) \in Seq(Frame) /\ Follows(Tail(wire[e]), wire[e], 1, Handshaken)
  BY <1>1, Followers
<1> QED BY <1>2, OneWire

LEMMA ReceiveInitQuiet ==
    ASSUME ChanTypeOK, NEW c \in Chan, ReceiveInit(c)
    PROVE  ChanQuiet
<1>1. <<c, "ini">> \in End /\ <<c, "res">> \in End /\ Peer(<<c, "res">>) = <<c, "ini">>
  BY EndType
<1>2. wire[<<c, "ini">>] # <<>> /\ wire' = [wire EXCEPT ![<<c, "ini">>] = Tail(wire[<<c, "ini">>])]
  BY <1>1 DEF ReceiveInit, Reads
<1>3. Carried(Handshaken) /\ wire' \in [End -> Seq(Frame)]
  BY <1>1, <1>2, DropsFirst
<1> QED BY <1>1, <1>3 DEF ChanQuiet, ReceiveInit, ChanTypeOK, States

LEMMA CheckedQuiet ==
    ASSUME ChanTypeOK, NEW c \in Chan, Checked(c)
    PROVE  ChanQuiet
<1> DEFINE e == <<c, "res">>
<1>1. e \in End /\ Peer(e) = <<c, "ini">> /\ wire[Peer(e)] \in Seq(Frame)
  BY EndType DEF ChanTypeOK
<1>2. /\ <<HandshakeReply>> \in Seq(Frame)
      /\ \A i \in Positions(<<HandshakeReply>>) : <<HandshakeReply>>[i] \in Handshaken
  BY FrameType DEF Positions, Handshaken
<1>3. \A i \in Positions(wire[Peer(e)]) : i + 0 = i
  BY <1>1, LenProperties DEF Positions
<1>4. Follows(wire[Peer(e)], wire[Peer(e)], 0, Handshaken)
  BY <1>3 DEF Follows
<1>5. MarkReady(e, <<HandshakeReply>>, wire[Peer(e)])
  BY <1>1 DEF Checked
<1> HIDE DEF e
<1> QED BY <1>1, <1>2, <1>4, <1>5, MarkReadyQuiet

LEMMA NewlineQuiet ==
    ASSUME ChanTypeOK, NEW e \in End, SwallowNewline(e) \/ DropGlued(e)
    PROVE  ChanQuiet
<1>1. Peer(e) \in End
  BY PeerType
<1>2. wire[Peer(e)] # <<>> /\ wire' = [wire EXCEPT ![Peer(e)] = Tail(wire[Peer(e)])]
  BY DEF SwallowNewline, DropGlued
<1>3. Carried(Handshaken) /\ wire' \in [End -> Seq(Frame)]
  BY <1>1, <1>2, DropsFirst
<1> QED BY <1>3, ChannelAssumption
        DEF ChanQuiet, SwallowNewline, DropGlued, Fault, ChanTypeOK

LEMMA ChanStepQuiet ==
    ASSUME ChanTypeOK, ChanStep
    PROVE  ChanQuiet
<1>1. ASSUME NEW c \in Chan, ReceiveInit(c) \/ Checked(c) \/ Rejected(c)
      PROVE  ChanQuiet
  BY <1>1, ReceiveInitQuiet, CheckedQuiet, DestroyQuiet, EndType DEF Rejected
<1>2. ASSUME NEW e \in End, SwallowNewline(e) \/ DropGlued(e) \/ Timeout(e) \/ Closed(e) \/ Break(e)
      PROVE  ChanQuiet
  BY <1>2, NewlineQuiet, DestroyQuiet, BreakQuiet DEF Timeout, Closed
<1> QED BY <1>1, <1>2 DEF ChanStep

LEMMA FrameQuiet ==
    ASSUME ChanTypeOK, NEW e \in End, NEW p \in Payload, ReceiveFrame(e, p)
    PROVE  ChanQuiet
<1>1. Peer(e) \in End
  BY PeerType
<1>2. wire[Peer(e)] # <<>> /\ wire' = [wire EXCEPT ![Peer(e)] = Tail(wire[Peer(e)])]
  BY DEF ReceiveFrame, Reads
<1>3. Carried(Handshaken) /\ wire' \in [End -> Seq(Frame)]
  BY <1>1, <1>2, DropsFirst
<1>4. got' \in [End -> Seq(Payload)]
  <2>1. got[e] \in Seq(Payload)
    BY DEF ChanTypeOK
  <2>2. Append(got[e], p) \in Seq(Payload)
    BY <2>1, AppendProperties
  <2> QED BY <2>2 DEF ReceiveFrame, ChanTypeOK
<1> QED BY <1>3, <1>4 DEF ChanQuiet, ReceiveFrame, ChanTypeOK
-----------------------------------------------------------------------------
(* An owner writes.                                                         *)

\* The frame is the last one of its wire, or the payload waits.
LEMMA Written ==
    ASSUME ChanTypeOK, NEW e \in End, NEW p \in Payload, WritePayload(e, p)
    PROVE  /\ ChanTypeOK'
           /\ Carried({Encrypted(p)})
           /\ \A f \in End : \A i \in Positions(queue'[f]) :
                 queue'[f][i] = p \/ (i \in Positions(queue[f]) /\ queue'[f][i] = queue[f][i])
           /\ state[e] = "ready" => queue' = queue
           /\ \A f \in End : \A i \in Positions(wire'[f]) :
                 \/ i \in Positions(wire[f]) /\ wire'[f][i] = wire[f][i]
                 \/ f = e /\ i = Len(wire[e]) + 1 /\ wire'[f][i] = Encrypted(p)
<1>1. /\ wire[e] \in Seq(Frame) /\ queue[e] \in Seq(Payload) /\ wrote[e] \in Seq(Payload)
      /\ wire \in [End -> Seq(Frame)] /\ queue \in [End -> Seq(Payload)]
      /\ wrote \in [End -> Seq(Payload)]
      /\ Encrypted(p) \in Frame
  BY FrameType DEF ChanTypeOK
<1> DEFINE w == Append(wire[e], Encrypted(p))
           q == Append(queue[e], p)
<1>2. /\ w \in Seq(Frame) /\ Len(wire[e]) \in Nat /\ Len(w) = Len(wire[e]) + 1
      /\ w[Len(wire[e]) + 1] = Encrypted(p) /\ \A i \in 1 .. Len(wire[e]) : w[i] = wire[e][i]
  BY <1>1, AppendProperties, LenProperties
<1>3. /\ q \in Seq(Payload) /\ Len(queue[e]) \in Nat /\ Len(q) = Len(queue[e]) + 1
      /\ q[Len(queue[e]) + 1] = p /\ \A i \in 1 .. Len(queue[e]) : q[i] = queue[e][i]
  BY <1>1, AppendProperties, LenProperties
<1>4. Append(wrote[e], p) \in Seq(Payload)
  BY <1>1, AppendProperties
<1>5. /\ queue' = queue \/ queue' = [queue EXCEPT ![e] = q]
      /\ state[e] = "ready" => queue' = queue
      /\ wire' = wire \/ wire' = [wire EXCEPT ![e] = w]
      /\ wrote' = [wrote EXCEPT ![e] = Append(wrote[e], p)]
  BY DEF WritePayload
<1>6. Follows(w, wire[e], 0, {Encrypted(p)})
  BY <1>2 DEF Follows, Positions
<1> HIDE DEF w, q
<1>7. Carried({Encrypted(p)}) /\ wire' \in [End -> Seq(Frame)]
  BY <1>2, <1>5, <1>6, OneWire, NoWire
<1>8. queue' \in [End -> Seq(Payload)] /\ wrote' \in [End -> Seq(Payload)]
  BY <1>1, <1>3, <1>4, <1>5
<1>9. ASSUME NEW f \in End, NEW i \in Positions(queue'[f])
      PROVE  queue'[f][i] = p \/ (i \in Positions(queue[f]) /\ queue'[f][i] = queue[f][i])
  <2>1. CASE queue'[f] = queue[f]
    BY <1>9, <2>1
  <2>2. CASE queue'[f] # queue[f]
    <3>1. f = e /\ queue'[f] = q
      BY <1>1, <1>5, <2>2
    <3> QED BY <1>3, <1>9, <3>1 DEF Positions
  <2> QED BY <2>1, <2>2
<1>10. ASSUME NEW f \in End, NEW i \in Positions(wire'[f])
       PROVE  \/ i \in Positions(wire[f]) /\ wire'[f][i] = wire[f][i]
              \/ f = e /\ i = Len(wire[e]) + 1 /\ wire'[f][i] = Encrypted(p)
  <2>1. CASE wire'[f] = wire[f]
    BY <1>10, <2>1
  <2>2. CASE wire'[f] # wire[f]
    <3>1. f = e /\ wire'[f] = w
      BY <1>1, <1>5, <2>2
    <3> QED BY <1>2, <1>10, <3>1 DEF Positions
  <2> QED BY <2>1, <2>2
<1>11. ChanTypeOK'
  BY <1>7, <1>8 DEF WritePayload, ChanTypeOK
<1> QED BY <1>5, <1>7, <1>9, <1>10, <1>11
-----------------------------------------------------------------------------
(* The invariant                                                            *)

\* A request on a wire was sent and is not served yet, and is there once.
RequestsOnce ==
    /\ \A d \in Dialback, e \in End : \A i \in Positions(wire[e]) :
          wire[e][i] = Encrypted(Request(d)) => test[d].sent = "sent" /\ serve[d].pc = "none"
    /\ \A d \in Dialback, e, f \in End : \A i \in Positions(wire[e]), j \in Positions(wire[f]) :
          wire[e][i] = Encrypted(Request(d)) /\ wire[f][j] = Encrypted(Request(d)) => e = f /\ i = j
    /\ \A d \in Dialback : serve[d].pc # "none" => test[d].sent = "sent"
    /\ \A d \in Dialback, e \in End : \A i \in Positions(queue[e]) : queue[e][i] # Request(d)

\* A confirmation exists only of a dial that reached the node.
ConfirmsTrue ==
    /\ \A d \in Dialback, e \in End : \A i \in Positions(wire[e]) :
          wire[e][i] = Encrypted(Confirm(d)) => d \in reached
    /\ \A d \in Dialback, e \in End : \A i \in Positions(queue[e]) :
          queue[e][i] = Confirm(d) => d \in reached

DialsOf(p) == {x \in Dialback : serve[x].pc = "dialing" /\ serve[x].peer = p}

\* A dial under way answers a channel; its slot is given back with its first
\* event.
Slots ==
    /\ \A d \in Dialback : d \in freed <=> serve[d].pc \in {"dialed", "closed"}
    /\ \A d \in Dialback : serve[d].pc = "dialing" => serve[d].via \in Chan
    /\ \A p \in Peers : active[p] = Cardinality(DialsOf(p)) /\ active[p] <= MaxDialbacks

IInv == TypeOK /\ RequestsOnce /\ ConfirmsTrue /\ Slots

\* The payloads are of three kinds.
LEMMA Kinds ==
    /\ \A d \in Dialback : Request(d) \in Payload /\ Confirm(d) \in Payload
    /\ \A n \in Notes : n \in Payload
    /\ \A d, x : Request(d) # Confirm(x) /\ (Request(d) = Request(x) => d = x)
                 /\ (Confirm(d) = Confirm(x) => d = x)
    /\ \A p, q : Encrypted(p) = Encrypted(q) => p = q
    /\ \A p : Encrypted(p) # HandshakeInit /\ Encrypted(p) # HandshakeReply
<1>1. \A d, x : Request(d) # Confirm(x)
  <2> SUFFICES ASSUME NEW d, NEW x, Request(d) = Confirm(x)
               PROVE  FALSE
    OBVIOUS
  <2>1. Request(d).type = "DIALBACK_REQUEST" /\ Confirm(x).type = "DIALBACK_CONFIRM"
    BY DEF Request, Confirm
  <2> QED BY <2>1
<1>2. \A d, x : Request(d) = Request(x) => d = x
  <2> SUFFICES ASSUME NEW d, NEW x, Request(d) = Request(x)
               PROVE  d = x
    OBVIOUS
  <2>1. Request(d).nonce = d /\ Request(x).nonce = x
    BY DEF Request
  <2> QED BY <2>1
<1>3. \A d, x : Confirm(d) = Confirm(x) => d = x
  <2> SUFFICES ASSUME NEW d, NEW x, Confirm(d) = Confirm(x)
               PROVE  d = x
    OBVIOUS
  <2>1. Confirm(d).nonce = d /\ Confirm(x).nonce = x
    BY DEF Confirm
  <2> QED BY <2>1
<1>4. \A p, q : Encrypted(p) = Encrypted(q) => p = q
  <2> SUFFICES ASSUME NEW p, NEW q, Encrypted(p) = Encrypted(q)
               PROVE  p = q
    OBVIOUS
  <2>1. Encrypted(p).payload = p /\ Encrypted(q).payload = q
    BY DEF Encrypted
  <2> QED BY <2>1
<1>5. \A p : Encrypted(p) # HandshakeInit /\ Encrypted(p) # HandshakeReply
  <2> SUFFICES ASSUME NEW p, Encrypted(p) = HandshakeInit \/ Encrypted(p) = HandshakeReply
               PROVE  FALSE
    OBVIOUS
  <2>1. /\ Encrypted(p).type = "ENCRYPTED_FRAME"
        /\ HandshakeInit.type = "HANDSHAKE_INIT" /\ HandshakeReply.type = "HANDSHAKE_REPLY"
    BY DEF Encrypted, HandshakeInit, HandshakeReply
  <2> QED BY <2>1
<1> QED BY <1>1, <1>2, <1>3, <1>4, <1>5, AutoNatAssumption

\* A step that writes no request keeps those there are, if what is served was
\* on no wire and sent requests stay sent.
LEMMA RequestsStep ==
    ASSUME TypeOK, RequestsOnce, NEW X, Carried(X),
           \A d \in Dialback : Encrypted(Request(d)) \notin X,
           \A d \in Dialback, e \in End : \A i \in Positions(queue'[e]) : queue'[e][i] # Request(d),
           \A d \in Dialback : test[d].sent = "sent" => test'[d].sent = "sent",
           \A d \in Dialback : serve[d].pc # "none" => serve'[d].pc # "none",
           \A d \in Dialback : serve[d].pc = "none" /\ serve'[d].pc # "none" =>
              /\ test[d].sent = "sent"
              /\ \A e \in End : \A i \in Positions(wire'[e]) : wire'[e][i] # Encrypted(Request(d))
    PROVE  RequestsOnce'
<1>1. ASSUME NEW d \in Dialback, NEW e \in End, NEW i \in Positions(wire'[e]),
             wire'[e][i] = Encrypted(Request(d))
      PROVE  /\ \E k \in Nat : i + k \in Positions(wire[e]) /\ wire[e][i + k] = Encrypted(Request(d))
             /\ test'[d].sent = "sent" /\ serve'[d].pc = "none"
  <2>1. PICK k \in Nat : i + k \in Positions(wire[e]) /\ wire'[e][i] = wire[e][i + k]
    BY <1>1 DEF Carried
  <2>2. test[d].sent = "sent" /\ serve[d].pc = "none"
    BY <1>1, <2>1 DEF RequestsOnce
  <2> QED BY <1>1, <2>1, <2>2
<1>2. ASSUME NEW d \in Dialback, NEW e \in End, NEW f \in End,
             NEW i \in Positions(wire'[e]), NEW j \in Positions(wire'[f]),
             wire'[e][i] = Encrypted(Request(d)), wire'[f][j] = Encrypted(Request(d))
      PROVE  e = f /\ i = j
  <2>1. PICK k \in Nat : \A h \in Positions(wire'[e]) :
            wire'[e][h] \in X \/ (h + k \in Positions(wire[e]) /\ wire'[e][h] = wire[e][h + k])
    BY DEF Carried
  <2>2. PICK l \in Nat : \A h \in Positions(wire'[f]) :
            wire'[f][h] \in X \/ (h + l \in Positions(wire[f]) /\ wire'[f][h] = wire[f][h + l])
    BY DEF Carried
  <2>3. i + k \in Positions(wire[e]) /\ wire[e][i + k] = Encrypted(Request(d))
    BY <1>2, <2>1
  <2>4. j + l \in Positions(wire[f]) /\ wire[f][j + l] = Encrypted(Request(d))
    BY <1>2, <2>2
  <2>5. e = f
    BY <2>3, <2>4 DEF RequestsOnce
  <2>6. j + k \in Positions(wire[e]) /\ wire[e][j + k] = Encrypted(Request(d))
    BY <1>2, <2>1, <2>5
  <2>7. i + k = j + k
    BY <2>3, <2>6 DEF RequestsOnce
  <2>8. i \in Int /\ j \in Int
    BY DEF Positions
  <2> QED BY <2>5, <2>7, <2>8
<1>3. \A d \in Dialback : serve'[d].pc # "none" => test'[d].sent = "sent"
  BY DEF RequestsOnce
<1> QED BY <1>1, <1>2, <1>3 DEF RequestsOnce

\* Likewise for confirmations.
LEMMA ConfirmsStep ==
    ASSUME ConfirmsTrue, NEW X, Carried(X), reached \subseteq reached',
           \A d \in Dialback : Encrypted(Confirm(d)) \in X => d \in reached',
           \A d \in Dialback, e \in End : \A i \in Positions(queue'[e]) :
              queue'[e][i] = Confirm(d) => d \in reached'
    PROVE  ConfirmsTrue'
<1>1. ASSUME NEW d \in Dialback, NEW e \in End, NEW i \in Positions(wire'[e]),
             wire'[e][i] = Encrypted(Confirm(d))
      PROVE  d \in reached'
  <2>1. CASE wire'[e][i] \in X
    BY <1>1, <2>1
  <2>2. CASE \E k \in Nat : i + k \in Positions(wire[e]) /\ wire'[e][i] = wire[e][i + k]
    BY <1>1, <2>2 DEF ConfirmsTrue
  <2> QED BY <2>1, <2>2 DEF Carried
<1> QED BY <1>1 DEF ConfirmsTrue

\* What waits in a queue may be written.
LEMMA HandshakenTrue ==
    ASSUME RequestsOnce, ConfirmsTrue
    PROVE  /\ \A d \in Dialback : Encrypted(Request(d)) \notin Handshaken
           /\ \A d \in Dialback : Encrypted(Confirm(d)) \in Handshaken => d \in reached
BY Kinds DEF Handshaken, RequestsOnce, ConfirmsTrue

\* A step of the channels that the node and the peers do not write in.
LEMMA QuietStep ==
    ASSUME TypeOK, RequestsOnce, ConfirmsTrue, ChanQuiet, reached' = reached,
           \A d \in Dialback : test[d].sent = "sent" => test'[d].sent = "sent",
           \A d \in Dialback : serve[d].pc # "none" => serve'[d].pc # "none",
           \A d \in Dialback : serve[d].pc = "none" /\ serve'[d].pc # "none" =>
              /\ test[d].sent = "sent"
              /\ \A e \in End : \A i \in Positions(wire'[e]) : wire'[e][i] # Encrypted(Request(d))
    PROVE  RequestsOnce' /\ ConfirmsTrue'
<1>1. \A d \in Dialback, e \in End : \A i \in Positions(queue'[e]) :
         queue'[e][i] # Request(d) /\ (queue'[e][i] = Confirm(d) => d \in reached')
  <2>1. Positions(<<>>) = {}
    BY EmptySeq DEF Positions
  <2> QED BY <2>1 DEF ChanQuiet, RequestsOnce, ConfirmsTrue
<1>2. Carried(Handshaken)
  BY DEF ChanQuiet
<1>3. RequestsOnce'
  BY <1>1, <1>2, HandshakenTrue, RequestsStep
<1>4. ConfirmsTrue'
  BY <1>1, <1>2, HandshakenTrue, ConfirmsStep
<1> QED BY <1>3, <1>4-----------------------------------------------------------------------------
(* Slots                                                                    *)

LEMMA DialsFinite ==
    \A p \in Peers : IsFiniteSet(DialsOf(p)) /\ IsFiniteSet(DialsOf(p)')
BY AutoNatAssumption, FS_Subset DEF DialsOf

LEMMA ServeSlots ==
    ASSUME TypeOK, Slots, NEW d \in Dialback, NEW p \in Peers, NEW c \in Chan,
           serve[d].pc = "none", Serve(d, p, c)
    PROVE  Slots'
<1>1. /\ serve' = [serve EXCEPT ![d] = [pc |-> "dialing", peer |-> p, via |-> c]]
      /\ active' = [active EXCEPT ![p] = active[p] + 1] /\ active[p] < MaxDialbacks
      /\ freed' = freed
  BY DEF Serve
<1>2. \A x \in Dialback \ {d} : serve'[x] = serve[x]
  BY <1>1 DEF TypeOK
<1>3. serve'[d].pc = "dialing" /\ serve'[d].peer = p /\ serve'[d].via = c
  BY <1>1 DEF TypeOK
<1>4. \A x \in Dialback : /\ x \in freed' <=> serve'[x].pc \in {"dialed", "closed"}
                          /\ serve'[x].pc = "dialing" => serve'[x].via \in Chan
  BY <1>1, <1>2, <1>3 DEF Slots
<1>5. ASSUME NEW q \in Peers, q # p
      PROVE  active'[q] = Cardinality(DialsOf(q)') /\ active'[q] <= MaxDialbacks
  <2>1. DialsOf(q)' = DialsOf(q)
    BY <1>2, <1>3, <1>5 DEF DialsOf
  <2>2. active'[q] = active[q]
    BY <1>1, <1>5 DEF TypeOK
  <2> QED BY <2>1, <2>2 DEF Slots
<1>6. active'[p] = Cardinality(DialsOf(p)') /\ active'[p] <= MaxDialbacks
  <2>1. DialsOf(p)' = DialsOf(p) \cup {d} /\ d \notin DialsOf(p)
    BY <1>2, <1>3 DEF DialsOf
  <2>2. Cardinality(DialsOf(p)') = Cardinality(DialsOf(p)) + 1
    BY <2>1, DialsFinite, FS_AddElement
  <2>3. active'[p] = active[p] + 1 /\ active[p] \in Nat
    BY <1>1 DEF TypeOK
  <2> QED BY <1>1, <2>2, <2>3, AutoNatAssumption DEF Slots
<1> QED BY <1>4, <1>5, <1>6 DEF Slots

LEMMA MovesSlots ==
    ASSUME TypeOK, Slots, NEW d \in Dialback, NEW from \in {"dialing", "dialed"},
           NEW to \in {"dialed", "closed"}, Moves(d, from, to)
    PROVE  Slots'
<1>0. PICK p \in Peers : p = serve[d].peer
  BY DEF TypeOK
<1>1. /\ serve[d].pc = from /\ serve' = [serve EXCEPT ![d].pc = to]
      /\ freed' = freed \cup {d}
      /\ active' = [active EXCEPT ![p] = IF d \in freed \/ active[p] = 0 THEN active[p] ELSE active[p] - 1]
  BY <1>0 DEF Moves, Release
<1>2. p \in Peers /\ active[p] \in Nat
  BY DEF TypeOK
<1>3. \A x \in Dialback \ {d} : serve'[x] = serve[x]
  BY <1>1 DEF TypeOK
<1>4. serve'[d].pc = to /\ serve'[d].peer = p
  BY <1>0, <1>1 DEF TypeOK
<1>5. \A x \in Dialback : /\ x \in freed' <=> serve'[x].pc \in {"dialed", "closed"}
                          /\ serve'[x].pc = "dialing" => serve'[x].via \in Chan
  BY <1>1, <1>3, <1>4 DEF Slots
<1>6. ASSUME NEW q \in Peers, q # p
      PROVE  active'[q] = Cardinality(DialsOf(q)') /\ active'[q] <= MaxDialbacks
  <2>1. DialsOf(q)' = DialsOf(q)
    BY <1>0, <1>3, <1>4, <1>6 DEF DialsOf
  <2>2. active'[q] = active[q]
    BY <1>1, <1>6 DEF TypeOK
  <2> QED BY <2>1, <2>2 DEF Slots
<1>7. CASE from = "dialing"
  <2>1. DialsOf(p)' = DialsOf(p) \ {d} /\ d \in DialsOf(p)
    BY <1>0, <1>1, <1>3, <1>4, <1>7 DEF DialsOf
  <2>2. Cardinality(DialsOf(p)') = Cardinality(DialsOf(p)) - 1
    BY <1>2, <2>1, DialsFinite, FS_RemoveElement
  <2>3. Cardinality(DialsOf(p)) # 0
    BY <1>2, <2>1, DialsFinite, FS_EmptySet
  <2>4. d \notin freed /\ active[p] = Cardinality(DialsOf(p)) /\ active[p] <= MaxDialbacks
    BY <1>1, <1>2, <1>7 DEF Slots
  <2>5. active'[p] = active[p] - 1
    BY <1>1, <1>2, <2>3, <2>4 DEF TypeOK
  <2>6. active'[p] = Cardinality(DialsOf(p)') /\ active'[p] <= MaxDialbacks
    BY <1>2, <2>2, <2>4, <2>5, AutoNatAssumption
  <2> QED BY <1>5, <1>6, <2>6 DEF Slots
<1>8. CASE from = "dialed"
  <2>1. DialsOf(p)' = DialsOf(p) /\ d \in freed
    BY <1>0, <1>1, <1>3, <1>4, <1>8 DEF DialsOf, Slots
  <2>2. active'[p] = active[p]
    BY <1>1, <1>2, <2>1 DEF TypeOK
  <2>3. active'[p] = Cardinality(DialsOf(p)') /\ active'[p] <= MaxDialbacks
    BY <1>2, <2>1, <2>2 DEF Slots
  <2> QED BY <1>5, <1>6, <2>3 DEF Slots
<1> QED BY <1>7, <1>8
-----------------------------------------------------------------------------
(* The steps                                                                *)

\* The node's role rises only by the answer to a test that reached it.
Promotes == role # "RELAY" /\ role' = "RELAY" => \E d \in pending \ pending' : d \in reached

Good == IInv' /\ Promotes

\* What the peers keep, in a step that is not theirs.
LEMMA Kept ==
    ASSUME IInv, UNCHANGED peerVars
    PROVE  /\ Slots'
           /\ serve' \in [Dialback -> [pc : {"none", "dialing", "dialed", "closed"}, peer : Peers,
                                       via : Chan \cup {NoChan}]]
           /\ freed' \subseteq Dialback /\ active' \in [Peers -> Nat] /\ reached' \subseteq Dialback
           /\ serve' = serve /\ reached' = reached
BY DEF IInv, TypeOK, Slots, DialsOf, peerVars

LEMMA ChanGood ==
    ASSUME IInv, UNCHANGED <<natVars, peerVars>>, ChanQuiet
    PROVE  Good
<1>1. TypeOK' /\ Slots' /\ test' = test /\ serve' = serve /\ reached' = reached
  BY Kept DEF ChanQuiet, IInv, TypeOK, natVars
<1>2. RequestsOnce' /\ ConfirmsTrue'
  BY <1>1, QuietStep DEF IInv
<1> QED BY <1>1, <1>2 DEF Good, IInv, Promotes, natVars

LEMMA ReplyGood ==
    ASSUME IInv, NEW c \in Chan, ReplyArrives(c)
    PROVE  Good
<1>1. ChanQuiet /\ UNCHANGED peerVars
  BY ReplyQuiet DEF ReplyArrives, IInv, TypeOK
<1>2. PICK a \in Address : HandleObservedAddress(a, PeerOf[c])
  BY DEF ReplyArrives
<1>3. PeerOf[c] \in Peers
  BY AutoNatAssumption
<1>4. /\ votes' \in [Address -> SUBSET Peers] /\ publicIp' \in Address \cup {NoAddress}
      /\ meshRole' = meshRole
  BY <1>2, <1>3 DEF HandleObservedAddress, IInv, TypeOK
<1>5. \/ role' = role /\ UNCHANGED <<running, pending, test>>
      \/ role' = "EDGE" /\ UNCHANGED <<running, pending, test>>
      \/ /\ running' = TRUE /\ role' = role
         /\ \E d \in Dialback, p \in Peers :
              /\ test[d].sent = "new" /\ pending' = pending \cup {d}
              /\ test' = [test EXCEPT ![d] = [sent |-> "awaited", peer |-> p]]
  BY <1>2 DEF HandleObservedAddress, InitiateDialback
<1>6. /\ role' \in {"EDGE", "RELAY"} /\ running' \in BOOLEAN /\ pending' \subseteq Dialback
      /\ test' \in [Dialback -> [sent : {"new", "awaited", "sent", "failed"}, peer : Peers]]
      /\ \A d \in Dialback : test[d].sent = "sent" => test'[d].sent = "sent"
  <2>1. CASE UNCHANGED <<running, pending, test>>
    BY <1>5, <2>1 DEF IInv, TypeOK
  <2>2. ASSUME NEW d \in Dialback, NEW p \in Peers, test[d].sent = "new", pending' = pending \cup {d},
               test' = [test EXCEPT ![d] = [sent |-> "awaited", peer |-> p]],
               running' = TRUE, role' = role
        PROVE  /\ role' \in {"EDGE", "RELAY"} /\ running' \in BOOLEAN /\ pending' \subseteq Dialback
               /\ test' \in [Dialback -> [sent : {"new", "awaited", "sent", "failed"}, peer : Peers]]
               /\ \A x \in Dialback : test[x].sent = "sent" => test'[x].sent = "sent"
    BY <2>2 DEF IInv, TypeOK
  <2> QED BY <1>5, <2>1, <2>2
<1>7. TypeOK'
  BY <1>1, <1>4, <1>6, Kept DEF ChanQuiet, IInv, TypeOK
<1>8. RequestsOnce' /\ ConfirmsTrue'
  BY <1>1, <1>6, Kept, QuietStep DEF IInv
<1>9. Promotes
  BY <1>5 DEF Promotes
<1> QED BY <1>1, <1>7, <1>8, <1>9, Kept DEF Good, IInv

LEMMA SendGood ==
    ASSUME IInv, NEW d \in Dialback, NEW c \in Chan, SendRequest(d, c)
    PROVE  Good
<1> DEFINE e == <<c, "ini">>
<1>1. e \in End /\ Request(d) \in Payload
  BY EndType, Kinds
<1>2. /\ WritePayload(e, Request(d)) /\ state[e] = "ready" /\ test[d].sent = "awaited"
      /\ test' = [test EXCEPT ![d].sent = "sent"]
      /\ UNCHANGED <<meshRole, role, votes, publicIp, running, pending, peerVars>>
  BY DEF SendRequest
<1>3. /\ ChanTypeOK' /\ Carried({Encrypted(Request(d))}) /\ queue' = queue
      /\ \A f \in End : \A i \in Positions(wire'[f]) :
            \/ i \in Positions(wire[f]) /\ wire'[f][i] = wire[f][i]
            \/ f = e /\ i = Len(wire[e]) + 1 /\ wire'[f][i] = Encrypted(Request(d))
  <2>1. ChanTypeOK
    BY DEF IInv, TypeOK
  <2>2. WritePayload(e, Request(d)) /\ state[e] = "ready"
    BY <1>2
  <2> HIDE DEF e
  <2> DEFINE p == Request(d)
  <2>3. p \in Payload /\ WritePayload(e, p)
    BY <1>1, <2>2
  <2> HIDE DEF p
  <2>4. ChanTypeOK' /\ Carried({Encrypted(p)})
    BY <1>1, <2>1, <2>3, Written
  <2>5. queue' = queue
    BY <2>2 DEF WritePayload
  <2>6. \A f \in End : \A i \in Positions(wire'[f]) :
           \/ i \in Positions(wire[f]) /\ wire'[f][i] = wire[f][i]
           \/ f = e /\ i = Len(wire[e]) + 1 /\ wire'[f][i] = Encrypted(p)
    BY <1>1, <2>1, <2>3, Written
  <2> QED BY <2>4, <2>5, <2>6 DEF p
<1>4. /\ test' \in [Dialback -> [sent : {"new", "awaited", "sent", "failed"}, peer : Peers]]
      /\ test'[d].sent = "sent" /\ \A x \in Dialback \ {d} : test'[x] = test[x]
  <2>1. test \in [Dialback -> [sent : {"new", "awaited", "sent", "failed"}, peer : Peers]]
    BY DEF IInv, TypeOK
  <2> QED BY <1>2, <2>1
<1>5. TypeOK' /\ Slots' /\ serve' = serve /\ reached' = reached
  BY <1>2, <1>3, <1>4, Kept DEF IInv, TypeOK
<1>6. serve[d].pc = "none" /\ \A f \in End : \A i \in Positions(wire[f]) : wire[f][i] # Encrypted(Request(d))
  BY <1>2 DEF IInv, RequestsOnce, TypeOK
<1>7. ASSUME NEW x \in Dialback, NEW f \in End, NEW i \in Positions(wire'[f]),
             wire'[f][i] = Encrypted(Request(x))
      PROVE  \/ x = d /\ f = e /\ i = Len(wire[e]) + 1
             \/ x # d /\ i \in Positions(wire[f]) /\ wire[f][i] = Encrypted(Request(x))
  <2>1. CASE x = d
    BY <1>3, <1>6, <1>7, <2>1
  <2>2. CASE x # d
    <3>1. wire'[f][i] # Encrypted(Request(d))
      BY <1>7, <2>2, Kinds
    <3> QED BY <1>3, <1>7, <2>2, <3>1
  <2> QED BY <2>1, <2>2
<1>8. RequestsOnce'
  <2>1. \A x \in Dialback, f \in End : \A i \in Positions(wire'[f]) :
           wire'[f][i] = Encrypted(Request(x)) => test'[x].sent = "sent" /\ serve'[x].pc = "none"
    BY <1>4, <1>5, <1>6, <1>7 DEF IInv, RequestsOnce
  <2>2. \A x \in Dialback, f, g \in End : \A i \in Positions(wire'[f]), j \in Positions(wire'[g]) :
           wire'[f][i] = Encrypted(Request(x)) /\ wire'[g][j] = Encrypted(Request(x)) => f = g /\ i = j
    <3> SUFFICES ASSUME NEW x \in Dialback, NEW f \in End, NEW g \in End,
                        NEW i \in Positions(wire'[f]), NEW j \in Positions(wire'[g]),
                        wire'[f][i] = Encrypted(Request(x)), wire'[g][j] = Encrypted(Request(x))
                 PROVE  f = g /\ i = j
      OBVIOUS
    <3>1. CASE x = d
      BY <1>7, <3>1
    <3>2. CASE x # d
      <4>1. /\ i \in Positions(wire[f]) /\ wire[f][i] = Encrypted(Request(x))
            /\ j \in Positions(wire[g]) /\ wire[g][j] = Encrypted(Request(x))
        BY <1>7, <3>2
      <4> QED BY <4>1 DEF IInv, RequestsOnce
    <3> QED BY <3>1, <3>2
  <2>3. \A x \in Dialback : serve'[x].pc # "none" => test'[x].sent = "sent"
    BY <1>4, <1>5 DEF IInv, RequestsOnce
  <2> QED BY <1>3, <2>1, <2>2, <2>3 DEF IInv, RequestsOnce
<1>9. ConfirmsTrue'
  <2>1. \A x \in Dialback : Encrypted(Confirm(x)) \notin {Encrypted(Request(d))}
    BY Kinds
  <2> QED BY <1>3, <1>5, <2>1, ConfirmsStep DEF IInv, ConfirmsTrue
<1> QED BY <1>2, <1>5, <1>8, <1>9 DEF Good, IInv, Promotes

LEMMA ConfirmGood ==
    ASSUME IInv, NEW d \in Dialback, NEW c \in Chan, ConfirmArrives(c, d)
    PROVE  Good
<1> DEFINE e == <<c, "ini">>
<1>1. e \in End /\ Confirm(d) \in Payload
  BY EndType, Kinds
<1>2. ReceiveFrame(e, Confirm(d)) /\ UNCHANGED peerVars
  BY DEF ConfirmArrives
<1>3. ChanQuiet
  BY <1>1, <1>2, FrameQuiet DEF IInv, TypeOK
<1>4. d \in reached
  BY <1>1, <1>2, ReadsType DEF ReceiveFrame, IInv, TypeOK, ConfirmsTrue
<1>5. /\ UNCHANGED <<meshRole, votes, publicIp, test>>
      /\ \/ UNCHANGED <<role, running, pending>>
         \/ d \in pending /\ pending' = pending \ {d} /\ running' = FALSE /\ role' = "RELAY"
  BY DEF ConfirmArrives, HandleDialbackConfirm, natVars
<1>6. TypeOK'
  BY <1>2, <1>3, <1>5, Kept DEF ChanQuiet, IInv, TypeOK
<1>7. RequestsOnce' /\ ConfirmsTrue'
  BY <1>2, <1>3, <1>5, Kept, QuietStep DEF IInv
<1>8. Promotes
  BY <1>4, <1>5 DEF Promotes
<1> QED BY <1>2, <1>6, <1>7, <1>8, Kept DEF Good, IInv

LEMMA RequestGood ==
    ASSUME IInv, NEW d \in Dialback, NEW c \in Chan, RequestArrives(c, d)
    PROVE  Good
<1> DEFINE e == <<c, "res">>
<1>1. e \in End /\ Request(d) \in Payload /\ PeerOf[c] \in Peers
  BY EndType, Kinds, AutoNatAssumption
<1>2. ReceiveFrame(e, Request(d)) /\ UNCHANGED natVars
  BY DEF RequestArrives
<1>3. ChanQuiet
  BY <1>1, <1>2, FrameQuiet DEF IInv, TypeOK
<1>4. CASE UNCHANGED peerVars
  BY <1>2, <1>3, <1>4, ChanGood
<1>5. CASE Serve(d, PeerOf[c], c)
  <2>1. /\ Peer(e) \in End /\ 1 \in Positions(wire[Peer(e)])
        /\ wire[Peer(e)][1] = Encrypted(Request(d))
    BY <1>1, <1>2, ReadsType DEF ReceiveFrame, IInv, TypeOK
  <2>2. test[d].sent = "sent" /\ serve[d].pc = "none"
    BY <2>1 DEF IInv, RequestsOnce
  <2>3. /\ serve' = [serve EXCEPT ![d] = [pc |-> "dialing", peer |-> PeerOf[c], via |-> c]]
        /\ active' = [active EXCEPT ![PeerOf[c]] = active[PeerOf[c]] + 1]
        /\ UNCHANGED <<freed, reached>>
    BY <1>5 DEF Serve
  <2>4. /\ serve' \in [Dialback -> [pc : {"none", "dialing", "dialed", "closed"}, peer : Peers,
                                    via : Chan \cup {NoChan}]]
        /\ serve'[d].pc = "dialing" /\ \A x \in Dialback \ {d} : serve'[x] = serve[x]
    BY <1>1, <2>3 DEF IInv, TypeOK
  <2>5. active' \in [Peers -> Nat]
    BY <1>1, <2>3 DEF IInv, TypeOK
  <2>6. TypeOK'
    BY <1>2, <1>3, <2>3, <2>4, <2>5 DEF ChanQuiet, IInv, TypeOK, natVars
  <2>7. ASSUME NEW f \in End, NEW i \in Positions(wire'[f])
        PROVE  wire'[f][i] # Encrypted(Request(d))
    <3> SUFFICES ASSUME wire'[f][i] = Encrypted(Request(d))
                 PROVE  FALSE
      OBVIOUS
    <3>1. wire' = [wire EXCEPT ![Peer(e)] = Tail(wire[Peer(e)])]
      BY <1>2 DEF ReceiveFrame
    <3>2. CASE f # Peer(e)
      <4>1. wire'[f] = wire[f]
        BY <3>1, <3>2 DEF IInv, TypeOK, ChanTypeOK
      <4> QED BY <2>1, <3>2, <4>1 DEF IInv, RequestsOnce
    <3>3. CASE f = Peer(e)
      <4>1. wire[f] \in Seq(Frame) /\ wire[f] # <<>> /\ wire'[f] = Tail(wire[f])
        BY <1>1, <1>2, <3>1, <3>3, ReadsType DEF ReceiveFrame, IInv, TypeOK, ChanTypeOK
      <4>2. i + 1 \in Positions(wire[f]) /\ wire[f][i + 1] = Encrypted(Request(d))
        <5> DEFINE s == wire[f]
        <5>1. s \in Seq(Frame) /\ s # <<>> /\ wire'[f] = Tail(s)
          BY <4>1
        <5> HIDE DEF s
        <5>2. \A j \in Positions(Tail(s)) : j + 1 \in Positions(s) /\ Tail(s)[j] = s[j + 1]
          BY <5>1, TailCarried
        <5>3. i + 1 \in Positions(s) /\ wire'[f][i] = s[i + 1]
          BY <5>1, <5>2
        <5> QED BY <5>3 DEF s
      <4>3. i + 1 = 1
        BY <2>1, <3>3, <4>2 DEF IInv, RequestsOnce
      <4>4. i \in Nat /\ i # 0
        BY DEF Positions
      <4> QED BY <4>3, <4>4
    <3> QED BY <3>2, <3>3
  <2>8. RequestsOnce' /\ ConfirmsTrue'
    <3>1. test' = test /\ reached' = reached
      BY <1>2, <2>3 DEF natVars
    <3>2. \A x \in Dialback : serve[x].pc # "none" => serve'[x].pc # "none"
      BY <2>4
    <3>3. \A x \in Dialback : serve[x].pc = "none" /\ serve'[x].pc # "none" => x = d
      BY <2>4
    <3> QED BY <1>3, <2>2, <2>7, <3>1, <3>2, <3>3, QuietStep DEF IInv
  <2>9. Slots'
    BY <1>1, <1>5, <2>2, ServeSlots DEF IInv
  <2> QED BY <1>2, <2>6, <2>8, <2>9 DEF Good, IInv, Promotes, natVars
<1> QED BY <1>4, <1>5 DEF RequestArrives

\* The ends of a test that send nothing.
LEMMA TestEnds ==
    ASSUME IInv, NEW d \in Dialback, RequestFails(d) \/ DialbackTimer(d)
    PROVE  Good
<1>1. /\ UNCHANGED <<state, wire, queue, glued, wrote, got, meshRole, votes, publicIp, peerVars>>
      /\ faults' \in 0 .. MaxFaults
      /\ pending' = pending \ {d} /\ running' = FALSE /\ role' = "EDGE"
  BY ChannelAssumption DEF RequestFails, DialbackTimer, Fault, chanVars, IInv, TypeOK, ChanTypeOK
<1>2. \/ test' = test
      \/ test[d].sent = "awaited" /\ test' = [test EXCEPT ![d].sent = "failed"]
  BY DEF RequestFails, DialbackTimer
<1>3. /\ test' \in [Dialback -> [sent : {"new", "awaited", "sent", "failed"}, peer : Peers]]
      /\ \A x \in Dialback : test[x].sent = "sent" => test'[x].sent = "sent"
  <2>1. test \in [Dialback -> [sent : {"new", "awaited", "sent", "failed"}, peer : Peers]]
    BY DEF IInv, TypeOK
  <2>2. CASE test' = test
    BY <2>1, <2>2
  <2>3. CASE test[d].sent = "awaited" /\ test' = [test EXCEPT ![d].sent = "failed"]
    <3>1. test' \in [Dialback -> [sent : {"new", "awaited", "sent", "failed"}, peer : Peers]]
      BY <2>1, <2>3
    <3>2. \A x \in Dialback : x # d => test'[x] = test[x]
      BY <2>1, <2>3
    <3>3. test[d].sent # "sent"
      BY <2>3
    <3> QED BY <3>1, <3>2, <3>3
  <2> QED BY <1>2, <2>2, <2>3
<1>4. ChanTypeOK' /\ Carried(Handshaken)
  BY <1>1, NoWire DEF IInv, TypeOK, ChanTypeOK
<1>5. ChanQuiet
  BY <1>1, <1>4 DEF ChanQuiet
<1>6. TypeOK'
  BY <1>1, <1>3, <1>4, Kept DEF IInv, TypeOK
<1>7. RequestsOnce' /\ ConfirmsTrue'
  BY <1>1, <1>3, <1>5, Kept, QuietStep DEF IInv
<1> QED BY <1>1, <1>6, <1>7, Kept DEF Good, IInv, Promotes

\* What a move of a dial leaves as it is.
LEMMA MovesType ==
    ASSUME IInv, NEW d \in Dialback, NEW from \in {"dialing", "dialed"},
           NEW to \in {"dialed", "closed"}, Moves(d, from, to)
    PROVE  /\ Slots' /\ UNCHANGED natVars
           /\ serve' \in [Dialback -> [pc : {"none", "dialing", "dialed", "closed"}, peer : Peers,
                                       via : Chan \cup {NoChan}]]
           /\ freed' \subseteq Dialback /\ active' \in [Peers -> Nat]
           /\ \A x \in Dialback : (serve[x].pc = "none") <=> (serve'[x].pc = "none")
<1>1. Slots' /\ UNCHANGED natVars
  BY MovesSlots DEF IInv, Moves
<1>2. PICK p \in Peers : p = serve[d].peer
  BY DEF IInv, TypeOK
<1>3. /\ serve[d].pc = from /\ serve' = [serve EXCEPT ![d].pc = to] /\ freed' = freed \cup {d}
      /\ active' = [active EXCEPT ![p] = IF d \in freed \/ active[p] = 0 THEN active[p] ELSE active[p] - 1]
  BY <1>2 DEF Moves, Release
<1>4. active \in [Peers -> Nat] /\ active[p] \in Nat
  BY DEF IInv, TypeOK
<1>5. active' \in [Peers -> Nat]
  <2>1. (IF d \in freed \/ active[p] = 0 THEN active[p] ELSE active[p] - 1) \in Nat
    BY <1>4
  <2> QED BY <1>3, <1>4, <2>1, Zenon
<1>6. /\ serve' \in [Dialback -> [pc : {"none", "dialing", "dialed", "closed"}, peer : Peers,
                                  via : Chan \cup {NoChan}]]
      /\ \A x \in Dialback : (serve[x].pc = "none") <=> (serve'[x].pc = "none")
  BY <1>3 DEF IInv, TypeOK
<1> QED BY <1>1, <1>3, <1>5, <1>6 DEF IInv, TypeOK

\* A payload that is no request, and no confirmation of a dial that failed.
LEMMA WriteStep ==
    ASSUME IInv, NEW e \in End, NEW q \in Payload, WritePayload(e, q),
           \A x \in Dialback : q # Request(x),
           \A x \in Dialback : q = Confirm(x) => x \in reached',
           reached \subseteq reached', test' = test,
           \A x \in Dialback : (serve[x].pc = "none") <=> (serve'[x].pc = "none")
    PROVE  ChanTypeOK' /\ RequestsOnce' /\ ConfirmsTrue'
<1>1. /\ ChanTypeOK' /\ Carried({Encrypted(q)})
      /\ \A f \in End : \A i \in Positions(queue'[f]) :
            queue'[f][i] = q \/ (i \in Positions(queue[f]) /\ queue'[f][i] = queue[f][i])
  <2>1. ChanTypeOK
    BY DEF IInv, TypeOK
  <2>2. WritePayload(e, q)
    OBVIOUS
  <2> QED BY <2>1, <2>2, Written
<1>2. \A x \in Dialback, f \in End : \A i \in Positions(queue'[f]) :
         queue'[f][i] # Request(x) /\ (queue'[f][i] = Confirm(x) => x \in reached')
  BY <1>1 DEF IInv, RequestsOnce, ConfirmsTrue
<1>3. \A x \in Dialback : /\ Encrypted(Request(x)) \notin {Encrypted(q)}
                          /\ Encrypted(Confirm(x)) \in {Encrypted(q)} => x \in reached'
  BY Kinds
<1>4. RequestsOnce'
  BY <1>1, <1>2, <1>3, RequestsStep DEF IInv
<1>5. ConfirmsTrue'
  BY <1>1, <1>2, <1>3, ConfirmsStep DEF IInv
<1> QED BY <1>1, <1>4, <1>5

LEMMA DialedGood ==
    ASSUME IInv, NEW d \in Dialback, Dialed(d)
    PROVE  Good
<1> DEFINE e == <<serve[d].via, "res">>
<1>1. /\ Moves(d, "dialing", "dialed") /\ reached' = reached \cup {d} /\ WritePayload(e, Confirm(d))
  BY DEF Dialed
<1>2. /\ Slots' /\ UNCHANGED natVars
      /\ serve' \in [Dialback -> [pc : {"none", "dialing", "dialed", "closed"}, peer : Peers,
                                  via : Chan \cup {NoChan}]]
      /\ freed' \subseteq Dialback /\ active' \in [Peers -> Nat]
      /\ \A x \in Dialback : (serve[x].pc = "none") <=> (serve'[x].pc = "none")
  BY <1>1, MovesType
<1>3. e \in End /\ Confirm(d) \in Payload
  BY <1>1, EndType, Kinds DEF Moves, IInv, Slots
<1>4. test' = test
  BY <1>2 DEF natVars
<1>5. ChanTypeOK' /\ RequestsOnce' /\ ConfirmsTrue'
  BY <1>1, <1>2, <1>3, <1>4, Kinds, WriteStep
<1>6. TypeOK'
  BY <1>1, <1>2, <1>5 DEF IInv, TypeOK, natVars
<1> QED BY <1>2, <1>5, <1>6 DEF Good, IInv, Promotes, natVars

LEMMA DialEndsGood ==
    ASSUME IInv, NEW d \in Dialback, DialFails(d) \/ DialCloses(d)
    PROVE  Good
<1>1. PICK from \in {"dialing", "dialed"}, to \in {"dialed", "closed"} : Moves(d, from, to)
  BY DEF DialFails, DialCloses
<1>2. UNCHANGED <<chanVars, reached>>
  BY DEF DialFails, DialCloses
<1>3. /\ Slots' /\ UNCHANGED natVars
      /\ serve' \in [Dialback -> [pc : {"none", "dialing", "dialed", "closed"}, peer : Peers,
                                  via : Chan \cup {NoChan}]]
      /\ freed' \subseteq Dialback /\ active' \in [Peers -> Nat]
      /\ \A x \in Dialback : (serve[x].pc = "none") <=> (serve'[x].pc = "none")
  BY <1>1, MovesType
<1>4. ChanTypeOK' /\ wire' = wire /\ queue' = queue
  BY <1>2 DEF IInv, TypeOK, ChanTypeOK, chanVars
<1>5. TypeOK'
  BY <1>2, <1>3, <1>4 DEF IInv, TypeOK, natVars
<1>6. ChanQuiet
  BY <1>4, NoWire DEF ChanQuiet, IInv, TypeOK
<1>7. test' = test /\ reached' = reached
  BY <1>2, <1>3 DEF natVars
<1>8. RequestsOnce' /\ ConfirmsTrue'
  BY <1>3, <1>6, <1>7, QuietStep DEF IInv
<1> QED BY <1>3, <1>5, <1>8 DEF Good, IInv, Promotes, natVars

LEMMA NoteGood ==
    ASSUME IInv, NEW e \in End, NEW n \in Notes, Note(e, n) \/ NoteArrives(e, n)
    PROVE  Good
<1>1. n \in Payload /\ UNCHANGED <<natVars, peerVars>>
  BY Kinds DEF Note, NoteArrives
<1>2. CASE NoteArrives(e, n)
  BY <1>1, <1>2, FrameQuiet, ChanGood DEF NoteArrives, IInv, TypeOK
<1>3. CASE Note(e, n)
  <2>1. /\ Slots' /\ serve' = serve /\ reached' = reached /\ test' = test
        /\ WritePayload(e, n)
    BY <1>1, <1>3, Kept DEF Note, natVars
  <2>2. \A x \in Dialback : n # Request(x) /\ n # Confirm(x)
    BY AutoNatAssumption
  <2>3. ChanTypeOK' /\ RequestsOnce' /\ ConfirmsTrue'
    BY <1>1, <2>1, <2>2, WriteStep
  <2>4. TypeOK'
    BY <1>1, <2>3, Kept DEF IInv, TypeOK, natVars
  <2> QED BY <1>1, <2>1, <2>3, <2>4 DEF Good, IInv, Promotes, natVars
<1> QED BY <1>2, <1>3

LEMMA InitInvariant == Init => IInv
<1> SUFFICES ASSUME Init
             PROVE  IInv
  OBVIOUS
<1>1. ChanTypeOK
  BY EmptySeq, ChannelAssumption DEF Init, ChanInit, ChanTypeOK, States
<1>2. (CHOOSE p \in Peers : TRUE) \in Peers
  BY AutoNatAssumption
<1>3. TypeOK
  BY <1>1, <1>2, AutoNatAssumption DEF Init, NoTest, Idle, TypeOK
<1>4. /\ \A e \in End : Positions(wire[e]) = {} /\ Positions(queue[e]) = {}
      /\ \A d \in Dialback : serve[d].pc = "none"
  BY EmptySeq DEF Init, ChanInit, Idle, Positions
<1>5. RequestsOnce /\ ConfirmsTrue
  BY <1>4 DEF RequestsOnce, ConfirmsTrue
<1>6. Slots
  <2>1. \A p \in Peers : DialsOf(p) = {}
    BY <1>4 DEF DialsOf
  <2>2. \A p \in Peers : active[p] = Cardinality(DialsOf(p)) /\ active[p] <= MaxDialbacks
    <3>1. Cardinality({}) = 0 /\ \A p \in Peers : active[p] = 0
      BY FS_EmptySet DEF Init
    <3> QED BY <2>1, <3>1, AutoNatAssumption
  <2> QED BY <1>4, <2>2 DEF Slots, Init
<1> QED BY <1>3, <1>5, <1>6 DEF IInv

LEMMA StepGood == IInv /\ [Next]_vars => IInv' /\ (UNCHANGED vars \/ Promotes)
<1> SUFFICES ASSUME IInv, [Next]_vars
             PROVE  IInv' /\ (UNCHANGED vars \/ Promotes)
  OBVIOUS
<1>1. CASE UNCHANGED vars
  <2>1. UNCHANGED <<chanVars, natVars, peerVars>>
    BY <1>1 DEF vars
  <2>2. ChanTypeOK' /\ wire' = wire /\ queue' = queue
    BY <2>1 DEF IInv, TypeOK, ChanTypeOK, chanVars
  <2>3. ChanQuiet
    BY <2>2, NoWire DEF ChanQuiet, IInv, TypeOK
  <2> QED BY <1>1, <2>1, <2>3, ChanGood DEF Good
<1>2. CASE ChanStep /\ UNCHANGED <<natVars, peerVars>>
  BY <1>2, ChanStepQuiet, ChanGood DEF Good, IInv, TypeOK
<1>3. ASSUME NEW c \in Chan, DialPeer(c)
      PROVE  Good
  BY <1>3, DialQuiet, ChanGood DEF DialPeer, IInv, TypeOK
<1>4. ASSUME NEW c \in Chan, NEW d \in Dialback,
             SendRequest(d, c) \/ ConfirmArrives(c, d) \/ RequestArrives(c, d)
      PROVE  Good
  BY <1>4, SendGood, ConfirmGood, RequestGood
<1>5. ASSUME NEW d \in Dialback,
             RequestFails(d) \/ DialbackTimer(d) \/ Dialed(d) \/ DialFails(d) \/ DialCloses(d)
      PROVE  Good
  BY <1>5, TestEnds, DialedGood, DialEndsGood
<1>6. ASSUME NEW n \in Notes, (\E e \in Writers : Note(e, n)) \/ (\E e \in End : NoteArrives(e, n))
      PROVE  Good
  BY <1>6, NoteGood, AutoNatAssumption
<1> QED BY <1>1, <1>2, <1>3, <1>4, <1>5, <1>6, ReplyGood DEF Next, Good
-----------------------------------------------------------------------------
(* Payloads come out in order and are missed only if a newline was.         *)

Handshakes == {HandshakeInit, HandshakeReply}

\* The payloads an end has received and, behind them, the frames still coming.
Line(g, q) ==
    [k \in 1 .. Len(g) + Len(q) |-> IF k <= Len(g) THEN Encrypted(g[k]) ELSE q[k - Len(g)]]

\* The payloads in l are some of w, each once and in the order of w.
InOrder(l, w) ==
    \E at \in [DOMAIN l -> Nat] :
        \A j \in DOMAIN l : l[j] \notin Handshakes =>
            /\ at[j] \in Positions(w) /\ l[j] = Encrypted(w[at[j]])
            /\ \A k \in DOMAIN l : l[k] \notin Handshakes /\ j < k => at[j] < at[k]

\* Frames may get lost ...
LEMMA OrderLost ==
    ASSUME NEW l, NEW m, NEW w, InOrder(l, w), NEW h \in [DOMAIN m -> DOMAIN l],
           \A j, k \in DOMAIN m : j < k => h[j] < h[k],
           \A j \in DOMAIN m : m[j] = l[h[j]]
    PROVE  InOrder(m, w)
<1>1. PICK at \in [DOMAIN l -> Nat] :
          \A j \in DOMAIN l : l[j] \notin Handshakes =>
              /\ at[j] \in Positions(w) /\ l[j] = Encrypted(w[at[j]])
              /\ \A k \in DOMAIN l : l[k] \notin Handshakes /\ j < k => at[j] < at[k]
  BY DEF InOrder
<1> DEFINE b == [j \in DOMAIN m |-> at[h[j]]]
<1>2. b \in [DOMAIN m -> Nat]
  OBVIOUS
<1>3. ASSUME NEW j \in DOMAIN m, m[j] \notin Handshakes
      PROVE  /\ b[j] \in Positions(w) /\ m[j] = Encrypted(w[b[j]])
             /\ \A k \in DOMAIN m : m[k] \notin Handshakes /\ j < k => b[j] < b[k]
  <2>1. h[j] \in DOMAIN l /\ l[h[j]] \notin Handshakes /\ b[j] = at[h[j]]
    BY <1>3
  <2>2. ASSUME NEW k \in DOMAIN m, m[k] \notin Handshakes, j < k
        PROVE  b[j] < b[k]
    <3>1. h[k] \in DOMAIN l /\ l[h[k]] \notin Handshakes /\ b[k] = at[h[k]] /\ h[j] < h[k]
      BY <2>2
    <3> QED BY <1>1, <2>1, <3>1
  <2> QED BY <1>1, <1>3, <2>1, <2>2
<1> HIDE DEF b
<1> QED BY <1>2, <1>3 DEF InOrder

LEMMA LineDomain ==
    ASSUME NEW g, NEW q, Len(g) \in Nat, Len(q) \in Nat
    PROVE  /\ DOMAIN Line(g, q) = 1 .. Len(g) + Len(q)
           /\ \A k \in 1 .. Len(g) + Len(q) :
                 Line(g, q)[k] = IF k <= Len(g) THEN Encrypted(g[k]) ELSE q[k - Len(g)]
BY DEF Line

\* ... at the start of a wire,
LEMMA LineTail ==
    ASSUME NEW S, NEW T, NEW g \in Seq(S), NEW q \in Seq(T), q # <<>>, NEW w,
           InOrder(Line(g, q), w)
    PROVE  InOrder(Line(g, Tail(q)), w)
<1>1. /\ Tail(q) \in Seq(T) /\ Len(Tail(q)) = Len(q) - 1 /\ Len(q) \in Nat \ {0}
      /\ \A k \in 1 .. Len(q) - 1 : Tail(q)[k] = q[k + 1]
  BY HeadTailProperties, EmptySeq
<1> DEFINE l == Line(g, q)
           m == Line(g, Tail(q))
           h == [k \in DOMAIN m |-> IF k <= Len(g) THEN k ELSE k + 1]
<1>2. /\ Len(g) \in Nat
      /\ DOMAIN l = 1 .. Len(g) + Len(q)
      /\ \A k \in 1 .. Len(g) + Len(q) : l[k] = IF k <= Len(g) THEN Encrypted(g[k]) ELSE q[k - Len(g)]
      /\ DOMAIN m = 1 .. Len(g) + Len(Tail(q))
      /\ \A k \in 1 .. Len(g) + Len(Tail(q)) :
            m[k] = IF k <= Len(g) THEN Encrypted(g[k]) ELSE Tail(q)[k - Len(g)]
  <2> DEFINE t == Tail(q)
  <2>1. t \in Seq(T)
    BY <1>1
  <2> HIDE DEF t
  <2>2. /\ DOMAIN Line(g, t) = 1 .. Len(g) + Len(t)
        /\ \A k \in 1 .. Len(g) + Len(t) :
              Line(g, t)[k] = IF k <= Len(g) THEN Encrypted(g[k]) ELSE t[k - Len(g)]
    <3>1. Len(g) \in Nat /\ Len(t) \in Nat
      BY <2>1, LenProperties
    <3> QED BY <3>1, LineDomain
  <2>3. /\ Len(g) \in Nat
        /\ DOMAIN Line(g, q) = 1 .. Len(g) + Len(q)
        /\ \A k \in 1 .. Len(g) + Len(q) :
              Line(g, q)[k] = IF k <= Len(g) THEN Encrypted(g[k]) ELSE q[k - Len(g)]
    <3>1. Len(g) \in Nat /\ Len(q) \in Nat
      BY LenProperties
    <3> QED BY <3>1, LineDomain
  <2> QED BY <2>2, <2>3, Zenon DEF t
<1> HIDE DEF l, m
<1>3. h \in [DOMAIN m -> DOMAIN l]
  BY <1>1, <1>2
<1>4. \A j, k \in DOMAIN m : j < k => h[j] < h[k]
  BY <1>1, <1>2
<1>5. ASSUME NEW k \in DOMAIN m
      PROVE  m[k] = l[h[k]]
  <2>1. CASE k <= Len(g)
    BY <1>1, <1>2, <2>1
  <2>2. CASE ~(k <= Len(g))
    <3>1. k - Len(g) \in 1 .. Len(q) - 1 /\ (k - Len(g)) + 1 = (k + 1) - Len(g) /\ h[k] = k + 1
          /\ ~(k + 1 <= Len(g)) /\ k + 1 \in 1 .. Len(g) + Len(q)
      BY <1>1, <1>2, <2>2
    <3>2. m[k] = Tail(q)[k - Len(g)] /\ l[k + 1] = q[(k + 1) - Len(g)]
      BY <1>1, <1>2, <2>2, <3>1
    <3> QED BY <1>1, <3>1, <3>2
  <2> QED BY <2>1, <2>2
<1> HIDE DEF h
<1>6. InOrder(m, w)
  BY <1>3, <1>4, <1>5, OrderLost DEF l
<1> QED BY <1>6 DEF m

\* ... or at its end.
LEMMA LineCut ==
    ASSUME NEW S, NEW T, NEW g \in Seq(S), NEW q \in Seq(T), NEW v \in Seq(T), Len(v) <= Len(q),
           \A k \in 1 .. Len(v) : v[k] = q[k], NEW w, InOrder(Line(g, q), w)
    PROVE  InOrder(Line(g, v), w)
<1> DEFINE l == Line(g, q)
           m == Line(g, v)
           h == [k \in DOMAIN m |-> k]
<1>1. /\ Len(g) \in Nat /\ Len(q) \in Nat /\ Len(v) \in Nat
      /\ DOMAIN l = 1 .. Len(g) + Len(q)
      /\ \A k \in 1 .. Len(g) + Len(q) : l[k] = IF k <= Len(g) THEN Encrypted(g[k]) ELSE q[k - Len(g)]
      /\ DOMAIN m = 1 .. Len(g) + Len(v)
      /\ \A k \in 1 .. Len(g) + Len(v) : m[k] = IF k <= Len(g) THEN Encrypted(g[k]) ELSE v[k - Len(g)]
  <2>1. Len(g) \in Nat /\ Len(q) \in Nat /\ Len(v) \in Nat
    BY LenProperties
  <2> QED BY <2>1, LineDomain
<1> HIDE DEF l, m
<1>2. h \in [DOMAIN m -> DOMAIN l] /\ \A j, k \in DOMAIN m : j < k => h[j] < h[k]
  BY <1>1
<1>3. ASSUME NEW k \in DOMAIN m
      PROVE  m[k] = l[h[k]]
  <2>1. CASE k <= Len(g)
    BY <1>1, <2>1
  <2>2. CASE ~(k <= Len(g))
    <3>1. k - Len(g) \in 1 .. Len(v) /\ h[k] = k
      BY <1>1, <2>2
    <3> QED BY <1>1, <2>2, <3>1
  <2> QED BY <2>1, <2>2
<1> HIDE DEF h
<1>4. InOrder(m, w)
  BY <1>2, <1>3, OrderLost DEF l
<1> QED BY <1>4 DEF m

\* A frame that is received leaves the line as it was.
LEMMA LineRead ==
    ASSUME NEW S, NEW T, NEW g \in Seq(S), NEW q \in Seq(T), q # <<>>, NEW p \in S,
           Head(q) = Encrypted(p)
    PROVE  Line(Append(g, p), Tail(q)) = Line(g, q)
<1>1. /\ Tail(q) \in Seq(T) /\ Len(Tail(q)) = Len(q) - 1 /\ Len(q) \in Nat \ {0}
      /\ \A k \in 1 .. Len(q) - 1 : Tail(q)[k] = q[k + 1]
      /\ q[1] = Encrypted(p)
  BY HeadTailProperties, EmptySeq
<1>2. /\ Append(g, p) \in Seq(S) /\ Len(Append(g, p)) = Len(g) + 1 /\ Len(g) \in Nat
      /\ Append(g, p)[Len(g) + 1] = p /\ \A k \in 1 .. Len(g) : Append(g, p)[k] = g[k]
  BY AppendProperties, LenProperties
<1> DEFINE a == Append(g, p)
           t == Tail(q)
           n == Len(g) + Len(q)
<1>3. Len(a) + Len(t) = n
  BY <1>1, <1>2
<1> HIDE DEF a, t
<1>4. ASSUME NEW k \in 1 .. n
      PROVE  (IF k <= Len(a) THEN Encrypted(a[k]) ELSE t[k - Len(a)])
                 = IF k <= Len(g) THEN Encrypted(g[k]) ELSE q[k - Len(g)]
  <2>1. CASE k <= Len(g)
    BY <1>2, <2>1 DEF a
  <2>2. CASE k = Len(g) + 1
    <3>1. k - Len(g) = 1 /\ k <= Len(a) /\ ~(k <= Len(g)) /\ a[k] = p
      BY <1>2, <2>2 DEF a
    <3> QED BY <1>1, <3>1
  <2>3. CASE k > Len(g) + 1
    <3>1. /\ k - Len(a) \in 1 .. Len(q) - 1 /\ (k - Len(a)) + 1 = k - Len(g)
          /\ ~(k <= Len(a)) /\ ~(k <= Len(g))
      BY <1>1, <1>2, <2>3 DEF a
    <3> QED BY <1>1, <3>1 DEF t
  <2> QED BY <1>2, <2>1, <2>2, <2>3
<1>5. Line(a, t) = Line(g, q)
  BY <1>3, <1>4 DEF Line
<1> QED BY <1>5 DEF a, t

\* A payload more that was written changes nothing for the others.
LEMMA OrderMore ==
    ASSUME NEW S, NEW l, NEW w \in Seq(S), NEW p \in S, InOrder(l, w)
    PROVE  InOrder(l, Append(w, p))
<1>1. /\ Len(w) \in Nat /\ Len(Append(w, p)) = Len(w) + 1
      /\ \A k \in 1 .. Len(w) : Append(w, p)[k] = w[k]
  BY AppendProperties, LenProperties
<1> DEFINE v == Append(w, p)
<1> HIDE DEF v
<1>2. PICK at \in [DOMAIN l -> Nat] :
          \A j \in DOMAIN l : l[j] \notin Handshakes =>
              /\ at[j] \in Positions(w) /\ l[j] = Encrypted(w[at[j]])
              /\ \A k \in DOMAIN l : l[k] \notin Handshakes /\ j < k => at[j] < at[k]
  BY DEF InOrder
<1>3. \A k \in Positions(w) : k \in Positions(v) /\ v[k] = w[k]
  BY <1>1 DEF Positions, v
<1>4. InOrder(l, v)
  BY <1>2, <1>3 DEF InOrder
<1> QED BY <1>4 DEF v

\* It comes behind them.
LEMMA LineWrite ==
    ASSUME NEW S, NEW T, NEW g \in Seq(S), NEW q \in Seq(T), NEW w \in Seq(S), NEW p \in S,
           Encrypted(p) \in T, InOrder(Line(g, q), w)
    PROVE  InOrder(Line(g, Append(q, Encrypted(p))), Append(w, p))
<1> DEFINE v == Append(w, p)
           x == Append(q, Encrypted(p))
           l == Line(g, q)
           m == Line(g, x)
           n == Len(g) + Len(q)
<1>1. /\ Len(w) \in Nat /\ Len(v) = Len(w) + 1 /\ v[Len(w) + 1] = p
      /\ \A k \in 1 .. Len(w) : v[k] = w[k]
  BY AppendProperties, LenProperties
<1>2. /\ x \in Seq(T) /\ Len(q) \in Nat /\ Len(x) = Len(q) + 1 /\ x[Len(q) + 1] = Encrypted(p)
      /\ \A k \in 1 .. Len(q) : x[k] = q[k]
  BY AppendProperties, LenProperties
<1> HIDE DEF v, x
<1>3. /\ Len(g) \in Nat
      /\ DOMAIN l = 1 .. Len(g) + Len(q)
      /\ \A k \in 1 .. Len(g) + Len(q) : l[k] = IF k <= Len(g) THEN Encrypted(g[k]) ELSE q[k - Len(g)]
      /\ DOMAIN m = 1 .. Len(g) + Len(x)
      /\ \A k \in 1 .. Len(g) + Len(x) : m[k] = IF k <= Len(g) THEN Encrypted(g[k]) ELSE x[k - Len(g)]
  <2>1. /\ DOMAIN Line(g, x) = 1 .. Len(g) + Len(x)
        /\ \A k \in 1 .. Len(g) + Len(x) :
              Line(g, x)[k] = IF k <= Len(g) THEN Encrypted(g[k]) ELSE x[k - Len(g)]
    <3>1. Len(g) \in Nat /\ Len(x) \in Nat
      BY <1>2, LenProperties
    <3> QED BY <3>1, LineDomain
  <2>2. /\ Len(g) \in Nat
        /\ DOMAIN Line(g, q) = 1 .. Len(g) + Len(q)
        /\ \A k \in 1 .. Len(g) + Len(q) :
              Line(g, q)[k] = IF k <= Len(g) THEN Encrypted(g[k]) ELSE q[k - Len(g)]
    <3>1. Len(g) \in Nat /\ Len(q) \in Nat
      BY LenProperties
    <3> QED BY <3>1, LineDomain
  <2> QED BY <2>1, <2>2, Zenon
<1> HIDE DEF l, m
<1>4. n \in Nat /\ DOMAIN l = 1 .. n /\ DOMAIN m = 1 .. n + 1
  BY <1>2, <1>3
<1>5. ASSUME NEW k \in 1 .. n
      PROVE  m[k] = l[k]
  <2>1. CASE k <= Len(g)
    BY <1>2, <1>3, <2>1
  <2>2. CASE ~(k <= Len(g))
    <3>1. k - Len(g) \in 1 .. Len(q)
      BY <1>2, <1>3, <2>2
    <3> QED BY <1>2, <1>3, <2>2, <3>1
  <2> QED BY <2>1, <2>2
<1>6. m[n + 1] = Encrypted(p)
  <2>1. (n + 1) - Len(g) = Len(q) + 1 /\ ~(n + 1 <= Len(g)) /\ n + 1 \in 1 .. Len(g) + Len(x)
    BY <1>2, <1>3
  <2> QED BY <1>2, <1>3, <2>1
<1> HIDE DEF n
<1>7. PICK at \in [DOMAIN l -> Nat] :
          \A j \in DOMAIN l : l[j] \notin Handshakes =>
              /\ at[j] \in Positions(w) /\ l[j] = Encrypted(w[at[j]])
              /\ \A k \in DOMAIN l : l[k] \notin Handshakes /\ j < k => at[j] < at[k]
  BY DEF InOrder, l
<1> DEFINE b == [k \in 1 .. n + 1 |-> IF k = n + 1 THEN Len(w) + 1 ELSE at[k]]
<1>8. b \in [DOMAIN m -> Nat]
  BY <1>1, <1>4, <1>7
<1>9. ASSUME NEW j \in DOMAIN m, m[j] \notin Handshakes
      PROVE  /\ b[j] \in Positions(v) /\ m[j] = Encrypted(v[b[j]])
             /\ \A k \in DOMAIN m : m[k] \notin Handshakes /\ j < k => b[j] < b[k]
  <2>1. CASE j = n + 1
    BY <1>1, <1>4, <1>6, <2>1 DEF Positions
  <2>2. CASE j # n + 1
    <3>1. j \in 1 .. n /\ b[j] = at[j] /\ l[j] \notin Handshakes /\ m[j] = l[j]
      BY <1>4, <1>5, <1>9, <2>2
    <3>2. at[j] \in Positions(w) /\ l[j] = Encrypted(w[at[j]])
      BY <1>4, <1>7, <3>1
    <3>3. at[j] \in Positions(v) /\ v[at[j]] = w[at[j]] /\ at[j] < Len(w) + 1
      BY <1>1, <3>2 DEF Positions
    <3>4. ASSUME NEW k \in DOMAIN m, m[k] \notin Handshakes, j < k
          PROVE  b[j] < b[k]
      <4>1. CASE k = n + 1
        BY <1>4, <3>1, <3>3, <4>1
      <4>2. CASE k # n + 1
        <5>1. k \in 1 .. n /\ b[k] = at[k] /\ l[k] \notin Handshakes
          BY <1>4, <1>5, <3>4, <4>2
        <5> QED BY <1>4, <1>7, <3>1, <3>4, <5>1
      <4> QED BY <4>1, <4>2
    <3> QED BY <3>1, <3>2, <3>3, <3>4
  <2> QED BY <2>1, <2>2
<1> HIDE DEF b
<1>10. InOrder(m, v)
  BY <1>8, <1>9 DEF InOrder
<1> QED BY <1>10 DEF m, v, x

\* While an end is not ready, its payloads wait; then they come in their order.
LEMMA LineReady ==
    ASSUME NEW g \in Seq(Payload), g = <<>>, NEW q \in Seq(Frame), NEW w \in Seq(Payload),
           \A k \in Positions(q) : q[k] \in Handshakes
    PROVE  /\ InOrder(Line(g, q), w)
           /\ InOrder(Line(g, q \o Sealed(w)), w)
<1> DEFINE s == Sealed(w)
           x == q \o s
           l == Line(g, q)
           m == Line(g, x)
<1>1. Len(g) = 0 /\ Len(w) \in Nat /\ Len(q) \in Nat
  BY EmptySeq, LenProperties
<1>2. s \in Seq(Frame) /\ Len(s) = Len(w) /\ \A k \in 1 .. Len(w) : s[k] = Encrypted(w[k])
  BY SealedType DEF Positions
<1> HIDE DEF s
<1>3. /\ x \in Seq(Frame) /\ Len(x) = Len(q) + Len(w)
      /\ \A k \in 1 .. Len(q) + Len(w) : x[k] = IF k <= Len(q) THEN q[k] ELSE s[k - Len(q)]
  <2>1. /\ q \o s \in Seq(Frame) /\ Len(q \o s) = Len(q) + Len(s)
        /\ \A k \in 1 .. Len(q) + Len(s) : (q \o s)[k] = IF k <= Len(q) THEN q[k] ELSE s[k - Len(q)]
    BY <1>2, ConcatProperties
  <2>2. Len(s) = Len(w)
    BY <1>2
  <2> QED BY <2>1, <2>2, Zenon
<1> HIDE DEF x
<1>4. /\ DOMAIN l = 1 .. Len(q) /\ \A k \in 1 .. Len(q) : l[k] = q[k]
      /\ DOMAIN m = 1 .. Len(q) + Len(w) /\ \A k \in 1 .. Len(q) + Len(w) : m[k] = x[k]
  <2>1. /\ DOMAIN Line(g, q) = 1 .. Len(g) + Len(q)
        /\ \A k \in 1 .. Len(g) + Len(q) :
              Line(g, q)[k] = IF k <= Len(g) THEN Encrypted(g[k]) ELSE q[k - Len(g)]
    BY <1>1, LineDomain
  <2>2. /\ DOMAIN Line(g, x) = 1 .. Len(g) + Len(x)
        /\ \A k \in 1 .. Len(g) + Len(x) :
              Line(g, x)[k] = IF k <= Len(g) THEN Encrypted(g[k]) ELSE x[k - Len(g)]
    <3>1. Len(g) \in Nat /\ Len(x) \in Nat
      BY <1>1, <1>3
    <3> QED BY <3>1, LineDomain
  <2> HIDE DEF l, m
  <2>3. /\ \A k \in 1 .. Len(q) : ~(k <= 0) /\ k - 0 = k
        /\ \A k \in 1 .. Len(q) + Len(w) : ~(k <= 0) /\ k - 0 = k
        /\ 0 + Len(q) = Len(q) /\ 0 + (Len(q) + Len(w)) = Len(q) + Len(w)
    BY <1>1
  <2> QED BY <1>1, <1>3, <2>1, <2>2, <2>3 DEF l, m
<1> HIDE DEF l, m
<1>5. InOrder(l, w)
  <2>1. [k \in DOMAIN l |-> 0] \in [DOMAIN l -> Nat]
    OBVIOUS
  <2>2. \A j \in DOMAIN l : l[j] \in Handshakes
    BY <1>4 DEF Positions
  <2> QED BY <2>1, <2>2 DEF InOrder
<1>6. InOrder(m, w)
  <2> DEFINE b == [k \in DOMAIN m |-> IF k <= Len(q) THEN 0 ELSE k - Len(q)]
  <2>1. b \in [DOMAIN m -> Nat]
    BY <1>1, <1>4
  <2>2. ASSUME NEW j \in DOMAIN m, m[j] \notin Handshakes
        PROVE  ~(j <= Len(q))
    BY <1>1, <1>3, <1>4, <2>2 DEF Positions
  <2>3. ASSUME NEW j \in DOMAIN m, m[j] \notin Handshakes
        PROVE  /\ b[j] \in Positions(w) /\ m[j] = Encrypted(w[b[j]])
               /\ \A k \in DOMAIN m : m[k] \notin Handshakes /\ j < k => b[j] < b[k]
    <3>1. j - Len(q) \in 1 .. Len(w) /\ b[j] = j - Len(q) /\ ~(j <= Len(q))
      BY <1>1, <1>4, <2>2, <2>3
    <3>2. m[j] = Encrypted(w[b[j]])
      BY <1>2, <1>3, <1>4, <3>1
    <3>3. \A k \in DOMAIN m : m[k] \notin Handshakes /\ j < k => b[j] < b[k]
      BY <1>1, <1>4, <2>2, <3>1
    <3> QED BY <3>1, <3>2, <3>3 DEF Positions
  <2> HIDE DEF b
  <2> QED BY <2>1, <2>3 DEF InOrder
<1> QED BY <1>5, <1>6 DEF l, m, x, s
-----------------------------------------------------------------------------
(* One channel                                                              *)

\* Until an end is ready, all it was given waits, and nothing went either way.
Fresh(e, f) ==
    state[e] \notin {"ready", "gone"} =>
        /\ queue[e] = wrote[e] /\ got[e] = <<>> /\ got[f] = <<>>
        /\ \A k \in Positions(wire[e]) : wire[e][k] \in Handshakes

\* How far the handshake is at both ends, and where its frames are.  If the
\* reply got lost, the initiator finds no other: it never becomes ready.
Shaken(i, r) ==
    /\ state[i] \in {"new", "waiting", "ready", "gone"}
    /\ state[r] \in {"new", "checking", "ready", "gone"}
    /\ state[i] = "new" =>
          state[r] = "new" /\ wire[i] = <<>> /\ wire[r] = <<>> /\ r \notin glued
    /\ state[r] \in {"new", "checking"} =>
          wire[r] = <<>> /\ i \notin glued /\ state[i] # "ready"
    /\ state[i] = "waiting" /\ state[r] = "new" =>
          wire[i] = <<>> \/ (wire[i] = <<HandshakeInit>> /\ r \notin glued)
    /\ state[i] = "waiting" /\ state[r] \in {"checking", "ready"} =>
          wire[i] = <<>> /\ r \notin glued
    /\ state[i] = "waiting" /\ state[r] = "ready" =>
          \/ \A k \in Positions(wire[r]) : wire[r][k] # HandshakeReply
          \/ /\ i \notin glued /\ Len(wire[r]) = Len(wrote[r]) + 1
             /\ \A k \in Positions(wire[r]) : k > 1 => wire[r][k] # HandshakeReply

\* Between ends that are ready, a fault costs a frame and, while the buffer is
\* glued, is to cost one more.
Losses(e, f) ==
    state[e] = "ready" /\ state[f] = "ready" =>
        Len(wrote[e]) - Len(got[f]) - Len(wire[e]) + (IF f \in glued THEN 1 ELSE 0) <= 2 * faults

Ordered(e, f) == InOrder(Line(got[f], wire[e]), wrote[e])

Way(e, f) == Fresh(e, f) /\ Losses(e, f) /\ Ordered(e, f)

Whole(i, r) == Shaken(i, r) /\ Way(i, r) /\ Way(r, i)

Sound == \A c \in Chan : Whole(<<c, "ini">>, <<c, "res">>)

\* A step leaves end e as it is.
Same(e) ==
    /\ state'[e] = state[e] /\ wire'[e] = wire[e] /\ queue'[e] = queue[e]
    /\ wrote'[e] = wrote[e] /\ got'[e] = got[e] /\ (e \in glued' <=> e \in glued)

\* What the channel's variables are at its two ends.
LEMMA Typed ==
    ASSUME ChanTypeOK, NEW e \in End
    PROVE  /\ state[e] \in States /\ wire[e] \in Seq(Frame) /\ queue[e] \in Seq(Payload)
           /\ wrote[e] \in Seq(Payload) /\ got[e] \in Seq(Payload)
           /\ Len(wire[e]) \in Nat /\ Len(wrote[e]) \in Nat /\ Len(got[e]) \in Nat
           /\ faults \in Nat
<1>1. /\ state[e] \in States /\ wire[e] \in Seq(Frame) /\ queue[e] \in Seq(Payload)
      /\ wrote[e] \in Seq(Payload) /\ got[e] \in Seq(Payload) /\ faults \in Nat
  BY ChannelAssumption DEF ChanTypeOK
<1> QED BY <1>1, LenProperties

\* Every fault pays for two frames.
LEMMA Twice ==
    \A a, b \in Nat : 2 * a \in Nat /\ 2 * (a + 1) = 2 * a + 2 /\ (a <= b => 2 * a <= 2 * b)
OBVIOUS

LEMMA Slack ==
    \A a, b, c, x, y \in Nat, g \in {0, 1} : a - b - c + g <= x /\ x <= y => a - b - c + g <= y
OBVIOUS

\* A channel that a step leaves as it is stays sound; more faults may be due to
\* others.
LEMMA StaysWhole ==
    ASSUME ChanTypeOK, NEW i \in End, NEW r \in End, Whole(i, r), Same(i), Same(r),
           faults' \in Nat, faults <= faults'
    PROVE  Whole(i, r)'
<1>1. Shaken(i, r)' /\ Fresh(i, r)' /\ Fresh(r, i)'
  BY DEF Whole, Way, Shaken, Fresh, Same
<1>2. Ordered(i, r)' /\ Ordered(r, i)'
  BY DEF Whole, Way, Ordered, Same
<1>3. Losses(i, r)' /\ Losses(r, i)'
  <2>1. /\ Len(wire[i]) \in Nat /\ Len(wrote[i]) \in Nat /\ Len(got[i]) \in Nat
        /\ Len(wire[r]) \in Nat /\ Len(wrote[r]) \in Nat /\ Len(got[r]) \in Nat
        /\ faults \in Nat
    BY Typed
  <2>2. /\ (IF r \in glued' THEN 1 ELSE 0) = IF r \in glued THEN 1 ELSE 0
        /\ (IF i \in glued' THEN 1 ELSE 0) = IF i \in glued THEN 1 ELSE 0
    BY DEF Same
  <2>3. 2 * faults \in Nat /\ 2 * faults' \in Nat /\ 2 * faults <= 2 * faults'
    BY <2>1, Twice
  <2>4. Losses(i, r)'
    <3> SUFFICES ASSUME state'[i] = "ready", state'[r] = "ready"
                 PROVE  Len(wrote'[i]) - Len(got'[r]) - Len(wire'[i])
                            + (IF r \in glued' THEN 1 ELSE 0) <= 2 * faults'
      BY DEF Losses
    <3>1. Len(wrote[i]) - Len(got[r]) - Len(wire[i]) + (IF r \in glued THEN 1 ELSE 0) <= 2 * faults
      BY DEF Same, Whole, Way, Losses
    <3>2. wrote'[i] = wrote[i] /\ got'[r] = got[r] /\ wire'[i] = wire[i]
      BY DEF Same
    <3> DEFINE a == Len(wrote[i])
               b == Len(got[r])
               l == Len(wire[i])
               g == IF r \in glued THEN 1 ELSE 0
               x == 2 * faults
               y == 2 * faults'
    <3>3. a \in Nat /\ b \in Nat /\ l \in Nat /\ g \in {0, 1} /\ x \in Nat /\ y \in Nat /\ x <= y
      BY <2>1, <2>3
    <3>4. a - b - l + g <= x
      BY <3>1
    <3>5. /\ Len(wrote'[i]) = a /\ Len(got'[r]) = b /\ Len(wire'[i]) = l
          /\ (IF r \in glued' THEN 1 ELSE 0) = g
      BY <2>2, <3>2
    <3> HIDE DEF a, b, l, g, x
    <3>6. a - b - l + g <= y
      <4> HIDE DEF y
      <4> QED BY <3>3, <3>4, Slack
    <3> QED BY <3>5, <3>6
  <2>5. Losses(r, i)'
    <3> SUFFICES ASSUME state'[i] = "ready", state'[r] = "ready"
                 PROVE  Len(wrote'[r]) - Len(got'[i]) - Len(wire'[r])
                            + (IF i \in glued' THEN 1 ELSE 0) <= 2 * faults'
      BY DEF Losses
    <3>1. Len(wrote[r]) - Len(got[i]) - Len(wire[r]) + (IF i \in glued THEN 1 ELSE 0) <= 2 * faults
      BY DEF Same, Whole, Way, Losses
    <3>2. wrote'[r] = wrote[r] /\ got'[i] = got[i] /\ wire'[r] = wire[r]
      BY DEF Same
    <3> DEFINE a == Len(wrote[r])
               b == Len(got[i])
               l == Len(wire[r])
               g == IF i \in glued THEN 1 ELSE 0
               x == 2 * faults
               y == 2 * faults'
    <3>3. a \in Nat /\ b \in Nat /\ l \in Nat /\ g \in {0, 1} /\ x \in Nat /\ y \in Nat /\ x <= y
      BY <2>1, <2>3
    <3>4. a - b - l + g <= x
      BY <3>1
    <3>5. /\ Len(wrote'[r]) = a /\ Len(got'[i]) = b /\ Len(wire'[r]) = l
          /\ (IF i \in glued' THEN 1 ELSE 0) = g
      BY <2>2, <3>2
    <3> HIDE DEF a, b, l, g, x
    <3>6. a - b - l + g <= y
      <4> HIDE DEF y
      <4> QED BY <3>3, <3>4, Slack
    <3> QED BY <3>5, <3>6
  <2> QED BY <2>4, <2>5
<1> QED BY <1>1, <1>2, <1>3 DEF Whole, Way

\* A step of one channel.
LEMMA OneChannel ==
    ASSUME ChanTypeOK, Sound, NEW c \in Chan, faults' \in Nat, faults <= faults',
           \A e \in End : e[1] # c => Same(e),
           Whole(<<c, "ini">>, <<c, "res">>)'
    PROVE  Sound'
<1> SUFFICES ASSUME NEW d \in Chan, d # c
             PROVE  Whole(<<d, "ini">>, <<d, "res">>)'
  BY DEF Sound
<1> DEFINE i == <<d, "ini">>
           r == <<d, "res">>
<1>1. i \in End /\ r \in End /\ i[1] # c /\ r[1] # c
  BY EndType
<1>2. Whole(i, r)
  BY DEF Sound
<1>3. Same(i) /\ Same(r)
  BY <1>1
<1> HIDE DEF i, r
<1>4. Whole(i, r)'
  BY <1>1, <1>2, <1>3, StaysWhole
<1> QED BY <1>4 DEF i, r

\* The first frame is gone.
LEMMA TailOf ==
    ASSUME NEW q \in Seq(Frame), q # <<>>
    PROVE  /\ Tail(q) \in Seq(Frame) /\ Len(Tail(q)) = Len(q) - 1 /\ Len(q) \in Nat \ {0}
           /\ 1 \in Positions(q) /\ q[1] = Head(q)
           /\ \A k \in Positions(Tail(q)) : k + 1 \in Positions(q) /\ k + 1 > 1 /\ Tail(q)[k] = q[k + 1]
<1>1. /\ Tail(q) \in Seq(Frame) /\ Len(Tail(q)) = Len(q) - 1 /\ Len(q) \in Nat \ {0}
      /\ \A k \in 1 .. Len(Tail(q)) : Tail(q)[k] = q[k + 1]
  BY HeadTailProperties, EmptySeq
<1> QED BY <1>1 DEF Positions

\* Frames are payloads or of a handshake, never both.
LEMMA FrameKinds ==
    /\ \A p : Encrypted(p) \notin Handshakes
    /\ HandshakeInit \in Handshakes /\ HandshakeReply \in Handshakes
    /\ HandshakeInit # HandshakeReply
<1>1. HandshakeInit # HandshakeReply
  <2>1. HandshakeInit.type = "HANDSHAKE_INIT" /\ HandshakeReply.type = "HANDSHAKE_REPLY"
    BY DEF HandshakeInit, HandshakeReply
  <2> QED BY <2>1
<1> QED BY <1>1, Kinds DEF Handshakes

LEMMA DialSound ==
    ASSUME ChanTypeOK, ChanTypeOK', Sound, NEW c \in Chan, Dial(c)
    PROVE  Sound'
<1> DEFINE i == <<c, "ini">>
           r == <<c, "res">>
<1>1. i \in End /\ r \in End /\ i # r /\ Whole(i, r)
  BY EndType DEF Sound
<1>2. /\ state[i] = "new" /\ state' = [state EXCEPT ![i] = "waiting"]
      /\ wire' = [wire EXCEPT ![i] = <<HandshakeInit>>]
      /\ UNCHANGED <<queue, glued, wrote, got, faults>>
  BY DEF Dial
<1>3. \A e \in End : e[1] # c => Same(e)
  BY <1>2 DEF Same, ChanTypeOK
<1> HIDE DEF i, r
<1>4. /\ state'[i] = "waiting" /\ state'[r] = state[r]
      /\ wire'[i] = <<HandshakeInit>> /\ wire'[r] = wire[r]
  BY <1>1, <1>2 DEF ChanTypeOK
<1>5. Shaken(i, r)'
  BY <1>1, <1>2, <1>4 DEF Whole, Shaken
<1>6. /\ <<HandshakeInit>> \in Seq(Frame)
      /\ \A k \in Positions(<<HandshakeInit>>) : <<HandshakeInit>>[k] \in Handshakes
  BY FrameType, FrameKinds DEF Positions
<1>7. Fresh(i, r)' /\ Fresh(r, i)'
  BY <1>1, <1>2, <1>4, <1>6 DEF Whole, Way, Fresh
<1>8. Losses(i, r)' /\ Losses(r, i)'
  BY <1>4 DEF Losses
<1>9. Ordered(r, i)'
  BY <1>1, <1>2, <1>4 DEF Whole, Way, Ordered
<1>10. Ordered(i, r)'
  <2>1. got[r] = <<>> /\ got[r] \in Seq(Payload) /\ wrote[i] \in Seq(Payload)
    BY <1>1, <1>2, Typed DEF Whole, Way, Fresh
  <2>2. InOrder(Line(got[r], <<HandshakeInit>>), wrote[i])
    BY <1>6, <2>1, LineReady
  <2> QED BY <1>2, <1>4, <2>2 DEF Ordered
<1>11. Whole(i, r)'
  BY <1>5, <1>7, <1>8, <1>9, <1>10 DEF Whole, Way
<1>12. faults' \in Nat /\ faults <= faults'
  BY <1>1, <1>2, Typed
<1> QED BY <1>3, <1>11, <1>12, OneChannel DEF i, r

LEMMA InitSound ==
    ASSUME ChanTypeOK, NEW c \in Chan, ReceiveInit(c), Sound
    PROVE  Sound'
<1> DEFINE i == <<c, "ini">>
           r == <<c, "res">>
<1>1. i \in End /\ r \in End /\ i # r /\ Peer(r) = i /\ Whole(i, r)
  BY EndType DEF Sound
<1>2. /\ state[r] = "new" /\ state' = [state EXCEPT ![r] = "checking"]
      /\ r \notin glued /\ wire[i] # <<>> /\ wire' = [wire EXCEPT ![i] = Tail(wire[i])]
      /\ UNCHANGED <<queue, glued, wrote, got, faults>>
  BY <1>1 DEF ReceiveInit, Reads
<1>3. \A e \in End : e[1] # c => Same(e)
  BY <1>2 DEF Same, ChanTypeOK
<1> HIDE DEF i, r
<1>4. /\ state'[r] = "checking" /\ state'[i] = state[i]
      /\ wire'[i] = Tail(wire[i]) /\ wire'[r] = wire[r]
  BY <1>1, <1>2 DEF ChanTypeOK
<1>5. /\ wire[i] \in Seq(Frame) /\ got[r] \in Seq(Payload)
      /\ \A k \in Positions(Tail(wire[i])) : k + 1 \in Positions(wire[i])
             /\ Tail(wire[i])[k] = wire[i][k + 1]
  BY <1>1, <1>2, Typed, TailOf
<1>6. state[i] = "waiting" => wire'[i] = <<>>
  <2>1. Tail(<<HandshakeInit>>) = <<>>
    OBVIOUS
  <2> QED BY <1>1, <1>2, <1>4, <2>1 DEF Whole, Shaken
<1>7. Shaken(i, r)'
  BY <1>1, <1>2, <1>4, <1>6 DEF Whole, Shaken
<1>8. Fresh(i, r)' /\ Fresh(r, i)'
  <2>1. ASSUME \A k \in Positions(wire[i]) : wire[i][k] \in Handshakes
        PROVE  \A k \in Positions(wire'[i]) : wire'[i][k] \in Handshakes
    BY <1>4, <1>5, <2>1
  <2> QED BY <1>1, <1>2, <1>4, <2>1 DEF Whole, Way, Fresh
<1>9. Losses(i, r)' /\ Losses(r, i)'
  BY <1>4 DEF Losses
<1>10. Ordered(r, i)'
  BY <1>1, <1>2, <1>4 DEF Whole, Way, Ordered
<1>11. Ordered(i, r)'
  <2>1. InOrder(Line(got[r], Tail(wire[i])), wrote[i])
    BY <1>1, <1>2, <1>5, LineTail DEF Whole, Way, Ordered
  <2> QED BY <1>2, <1>4, <2>1 DEF Ordered
<1>12. Whole(i, r)'
  BY <1>7, <1>8, <1>9, <1>10, <1>11 DEF Whole, Way
<1>13. faults' \in Nat /\ faults <= faults'
  BY <1>1, <1>2, Typed
<1> QED BY <1>3, <1>12, <1>13, OneChannel DEF i, r

\* The frames an end writes when it is ready.
LEMMA SealedBehind ==
    ASSUME NEW q \in Seq(Frame), NEW v \in Seq(Payload)
    PROVE  /\ q \o Sealed(v) \in Seq(Frame) /\ Len(q \o Sealed(v)) = Len(q) + Len(v)
           /\ Len(q) \in Nat /\ Len(v) \in Nat
           /\ \A k \in Positions(q \o Sealed(v)) : k > Len(q) =>
                 (q \o Sealed(v))[k] \notin Handshakes
           /\ \A k \in Positions(q) : (q \o Sealed(v))[k] = q[k]
<1> DEFINE s == Sealed(v)
<1>1. /\ s \in Seq(Frame) /\ Len(s) = Len(v) /\ \A k \in 1 .. Len(v) : s[k] \notin Handshakes
      /\ Len(q) \in Nat /\ Len(v) \in Nat
  BY SealedType, FrameKinds, LenProperties DEF Positions
<1> HIDE DEF s
<1>2. /\ q \o s \in Seq(Frame) /\ Len(q \o s) = Len(q) + Len(s)
      /\ \A k \in 1 .. Len(q) + Len(s) : (q \o s)[k] = IF k <= Len(q) THEN q[k] ELSE s[k - Len(q)]
  BY <1>1, ConcatProperties
<1>3. ASSUME NEW k \in 1 .. Len(q) + Len(v), k > Len(q)
      PROVE  (q \o s)[k] \notin Handshakes
  <2>1. k - Len(q) \in 1 .. Len(v) /\ (q \o s)[k] = s[k - Len(q)]
    BY <1>1, <1>2, <1>3
  <2> QED BY <1>1, <2>1
<1>4. \A k \in 1 .. Len(q) : (q \o s)[k] = q[k]
  BY <1>1, <1>2
<1> QED BY <1>1, <1>2, <1>3, <1>4 DEF Positions, s

LEMMA CheckedSound ==
    ASSUME ChanTypeOK, NEW c \in Chan, Checked(c), Sound
    PROVE  Sound'
<1> DEFINE i == <<c, "ini">>
           r == <<c, "res">>
           q == <<HandshakeReply>>
           x == q \o Sealed(queue[r])
<1>1. i \in End /\ r \in End /\ i # r /\ Peer(r) = i /\ Whole(i, r)
  BY EndType DEF Sound
<1>2. /\ state[r] = "checking" /\ state' = [state EXCEPT ![r] = "ready"]
      /\ wire' = [wire EXCEPT ![r] = wire[r] \o q \o Sealed(queue[r]), ![i] = wire[i]]
      /\ queue' = [queue EXCEPT ![r] = <<>>]
      /\ UNCHANGED <<glued, wrote, got, faults>>
  BY <1>1 DEF Checked, MarkReady
<1>3. \A e \in End : e[1] # c => Same(e)
  BY <1>2 DEF Same, ChanTypeOK
<1> HIDE DEF i, r
<1>4. /\ q \in Seq(Frame) /\ Len(q) = 1 /\ q[1] = HandshakeReply
      /\ queue[r] \in Seq(Payload) /\ wrote[r] \in Seq(Payload) /\ got[i] \in Seq(Payload)
      /\ queue[r] = wrote[r] /\ got[i] = <<>> /\ wire[r] = <<>>
  BY <1>1, <1>2, FrameType, Typed DEF Whole, Way, Fresh, Shaken
<1>5. wire[r] \o q = q
  BY <1>4
<1> HIDE DEF q
<1>6. /\ state'[r] = "ready" /\ state'[i] = state[i]
      /\ wire'[r] = x /\ wire'[i] = wire[i] /\ queue'[i] = queue[i]
  <2>1. wire[r] \o q \o Sealed(queue[r]) = x
    BY <1>5
  <2> HIDE DEF x
  <2> QED BY <1>1, <1>2, <2>1 DEF ChanTypeOK
<1>7. /\ x \in Seq(Frame) /\ Len(x) = 1 + Len(wrote[r]) /\ Len(wrote[r]) \in Nat
      /\ \A k \in Positions(x) : k > 1 => x[k] \notin Handshakes
  <2> DEFINE v == queue[r]
  <2>1. q \in Seq(Frame) /\ v \in Seq(Payload) /\ Len(q) = 1 /\ v = wrote[r] /\ x = q \o Sealed(v)
    BY <1>4
  <2> HIDE DEF v, x
  <2>2. /\ q \o Sealed(v) \in Seq(Frame) /\ Len(q \o Sealed(v)) = Len(q) + Len(v) /\ Len(v) \in Nat
        /\ \A k \in Positions(q \o Sealed(v)) : k > Len(q) => (q \o Sealed(v))[k] \notin Handshakes
    BY <2>1, SealedBehind
  <2> QED BY <2>1, <2>2
<1>8. Shaken(i, r)'
  <2> HIDE DEF x
  <2>1. Len(x) = Len(wrote[r]) + 1
    BY <1>7
  <2>2. \A k \in Positions(x) : k > 1 => x[k] # HandshakeReply
    BY <1>7, FrameKinds
  <2> QED BY <1>1, <1>2, <1>6, <2>1, <2>2 DEF Whole, Shaken
<1>9. Fresh(i, r)' /\ Fresh(r, i)'
  BY <1>1, <1>2, <1>6 DEF Whole, Way, Fresh
<1>10. Losses(i, r)' /\ Losses(r, i)'
  BY <1>1, <1>2, <1>6 DEF Whole, Shaken, Losses
<1>11. Ordered(i, r)'
  BY <1>1, <1>2, <1>6 DEF Whole, Way, Ordered
<1>12. Ordered(r, i)'
  <2>1. \A k \in Positions(q) : q[k] \in Handshakes
    BY <1>4, FrameKinds DEF Positions
  <2>2. InOrder(Line(got[i], q \o Sealed(wrote[r])), wrote[r])
    BY <1>4, <2>1, LineReady
  <2>3. InOrder(Line(got[i], x), wrote[r])
    BY <1>4, <2>2
  <2> HIDE DEF x
  <2> QED BY <1>2, <1>6, <2>3 DEF Ordered
<1>13. Whole(i, r)'
  BY <1>8, <1>9, <1>10, <1>11, <1>12 DEF Whole, Way
<1>14. faults' \in Nat /\ faults <= faults'
  BY <1>1, <1>2, Typed
<1> QED BY <1>3, <1>13, <1>14, OneChannel DEF i, r

LEMMA ReplySound ==
    ASSUME ChanTypeOK, NEW c \in Chan, ReceiveReply(c), Sound
    PROVE  Sound'
<1> DEFINE i == <<c, "ini">>
           r == <<c, "res">>
           q == wire[i] \o <<>>
           x == q \o Sealed(queue[i])
           t == Tail(wire[r])
<1>1. i \in End /\ r \in End /\ i # r /\ Peer(i) = r /\ Whole(i, r)
  BY EndType DEF Sound
<1>2. /\ state[i] = "waiting" /\ state' = [state EXCEPT ![i] = "ready"]
      /\ i \notin glued /\ wire[r] # <<>> /\ Head(wire[r]) = HandshakeReply
      /\ wire' = [wire EXCEPT ![i] = x, ![r] = t]
      /\ queue' = [queue EXCEPT ![i] = <<>>]
      /\ UNCHANGED <<glued, wrote, got, faults>>
  BY <1>1 DEF ReceiveReply, Reads, MarkReady
<1>3. \A e \in End : e[1] # c => Same(e)
  BY <1>2 DEF Same, ChanTypeOK
<1> HIDE DEF i, r, x, t
<1>4. /\ state'[i] = "ready" /\ state'[r] = state[r] /\ wire'[i] = x /\ wire'[r] = t
  BY <1>1, <1>2 DEF ChanTypeOK
<1>5. /\ state[r] \in {"ready", "gone"}
      /\ queue[i] = wrote[i] /\ got[r] = <<>> /\ got[i] = <<>>
      /\ state[r] = "ready" => wire[i] = <<>> /\ r \notin glued
  BY <1>1, <1>2 DEF Whole, Way, Fresh, Shaken
<1>6. /\ q \in Seq(Frame) /\ q = wire[i] /\ queue[i] \in Seq(Payload) /\ wrote[i] \in Seq(Payload)
      /\ got[r] \in Seq(Payload) /\ got[i] \in Seq(Payload) /\ wire[r] \in Seq(Frame)
      /\ Len(wrote[i]) \in Nat /\ Len(wrote[r]) \in Nat /\ faults \in Nat
  BY <1>1, Typed, ConcatEmptySeq
<1>7. /\ 1 \in Positions(wire[r]) /\ wire[r][1] = HandshakeReply
      /\ Len(t) = Len(wire[r]) - 1 /\ Len(wire[r]) \in Nat
  BY <1>2, <1>6, TailOf DEF t
<1> HIDE DEF q
<1>8. Shaken(i, r)'
  BY <1>1, <1>2, <1>4, <1>5 DEF Whole, Shaken
<1>9. Fresh(i, r)' /\ Fresh(r, i)'
  BY <1>4, <1>5 DEF Fresh
<1>10. Losses(i, r)' /\ Losses(r, i)'
  <2> SUFFICES ASSUME state[r] = "ready"
               PROVE  Losses(i, r)' /\ Losses(r, i)'
    BY <1>4 DEF Losses
  <2>1. Len(<<>>) = 0 /\ 2 * faults \in Nat
    BY <1>6, EmptySeq, Twice
  <2>2. Len(x) = Len(q) + Len(wrote[i]) /\ Len(q) = 0
    <3>1. q = <<>>
      BY <1>5, <1>6
    <3>2. x = q \o Sealed(wrote[i])
      BY <1>5 DEF x
    <3>3. Len(q \o Sealed(wrote[i])) = Len(q) + Len(wrote[i])
      BY <1>6, SealedBehind
    <3> QED BY <2>1, <3>1, <3>2, <3>3
  <2>3. Len(wire[r]) = Len(wrote[r]) + 1
    BY <1>1, <1>2, <1>7 DEF Whole, Shaken
  <2>4. Len(wrote[i]) - Len(got[r]) - Len(x) + 0 <= 2 * faults
    <3>1. Len(x) = Len(wrote[i]) /\ Len(got[r]) = 0
      BY <1>5, <1>6, <2>1, <2>2
    <3> DEFINE a == Len(wrote[i])
               y == 2 * faults
    <3>2. a \in Nat /\ y \in Nat
      BY <1>6, <2>1
    <3> HIDE DEF a, y
    <3>3. a - 0 - a + 0 <= y
      BY <3>2
    <3> QED BY <3>1, <3>3 DEF a, y
  <2>5. Len(wrote[r]) - Len(got[i]) - Len(t) + 0 <= 2 * faults
    <3>1. Len(t) = Len(wrote[r]) /\ Len(got[i]) = 0
      BY <1>5, <1>6, <1>7, <2>1, <2>3
    <3> QED BY <1>6, <2>1, <3>1
  <2>6. /\ (IF r \in glued' THEN 1 ELSE 0) = 0 /\ (IF i \in glued' THEN 1 ELSE 0) = 0
        /\ UNCHANGED <<wrote, got, faults>>
    BY <1>2, <1>5
  <2> QED BY <1>4, <2>4, <2>5, <2>6 DEF Losses
<1>11. Ordered(i, r)'
  <2>1. \A k \in Positions(q) : q[k] \in Handshakes
    BY <1>1, <1>2, <1>6 DEF Whole, Way, Fresh
  <2>2. InOrder(Line(got[r], q \o Sealed(wrote[i])), wrote[i])
    BY <1>5, <1>6, <2>1, LineReady
  <2>3. InOrder(Line(got[r], x), wrote[i])
    BY <1>5, <2>2 DEF x
  <2> QED BY <1>2, <1>4, <2>3 DEF Ordered
<1>12. Ordered(r, i)'
  <2>1. InOrder(Line(got[i], t), wrote[r])
    BY <1>1, <1>2, <1>6, LineTail DEF Whole, Way, Ordered, t
  <2> QED BY <1>2, <1>4, <2>1 DEF Ordered
<1>13. Whole(i, r)'
  BY <1>8, <1>9, <1>10, <1>11, <1>12 DEF Whole, Way
<1>14. faults' \in Nat /\ faults <= faults'
  BY <1>2, <1>6
<1> QED BY <1>3, <1>13, <1>14, OneChannel DEF i, r

\* Either end of a channel.
LEMMA Ends ==
    ASSUME Sound, NEW e \in End
    PROVE  \E c \in Chan, i, r \in End :
              /\ i = <<c, "ini">> /\ r = <<c, "res">> /\ i # r /\ Whole(i, r)
              /\ (e = i /\ Peer(e) = r) \/ (e = r /\ Peer(e) = i)
              /\ \A g \in End : g[1] = c => g \in {i, r}
<1>1. PICK c \in Chan : e = <<c, "ini">> \/ e = <<c, "res">>
  BY DEF End
<1> DEFINE i == <<c, "ini">>
           r == <<c, "res">>
<1>2. i \in End /\ r \in End /\ Peer(i) = r /\ Peer(r) = i /\ i # r /\ Whole(i, r)
  BY EndType DEF Sound
<1>3. \A g \in End : g[1] = c => g \in {i, r}
  BY DEF End
<1> QED BY <1>1, <1>2, <1>3

LEMMA FrameSound ==
    ASSUME ChanTypeOK, NEW e \in End, NEW p \in Payload, ReceiveFrame(e, p), Sound
    PROVE  Sound'
<1> DEFINE f == Peer(e)
           t == Tail(wire[f])
<1>1. PICK c \in Chan, i \in End, r \in End :
          /\ i = <<c, "ini">> /\ r = <<c, "res">> /\ i # r /\ Whole(i, r)
          /\ (e = i /\ f = r) \/ (e = r /\ f = i)
          /\ \A g \in End : g[1] = c => g \in {i, r}
  BY Ends
<1>2. f \in End /\ e # f /\ Way(e, f) /\ Way(f, e)
  BY <1>1, PeerType DEF Whole
<1>3. /\ state[e] # "gone" /\ e \notin glued /\ wire[f] # <<>> /\ Head(wire[f]) = Encrypted(p)
      /\ wire' = [wire EXCEPT ![f] = t]
      /\ got' = IF state[e] = "ready" THEN [got EXCEPT ![e] = Append(got[e], p)] ELSE got
      /\ UNCHANGED <<state, queue, glued, wrote, faults>>
  BY DEF ReceiveFrame, Reads
<1> HIDE DEF f
<1>4. \A g \in End : g[1] # c => Same(g)
  <2>1. \A g \in End : g[1] # c => g # e /\ g # f
    BY <1>1
  <2> HIDE DEF t
  <2> QED BY <1>3, <2>1 DEF Same, ChanTypeOK
<1>5. /\ wire[f] \in Seq(Frame) /\ t \in Seq(Frame) /\ Len(t) = Len(wire[f]) - 1
      /\ Len(wire[f]) \in Nat
      /\ 1 \in Positions(wire[f]) /\ wire[f][1] = Encrypted(p)
      /\ \A k \in Positions(t) : k + 1 \in Positions(wire[f]) /\ k + 1 > 1 /\ t[k] = wire[f][k + 1]
  BY <1>2, <1>3, Typed, TailOf
<1> HIDE DEF t
<1>6. /\ wire'[f] = t /\ wire'[e] = wire[e] /\ got'[f] = got[f]
      /\ state[e] = "ready" => got'[e] = Append(got[e], p)
      /\ state[e] # "ready" => got'[e] = got[e]
  BY <1>2, <1>3 DEF ChanTypeOK
<1>7. state[f] \in {"ready", "gone"}
  BY <1>2, <1>5, FrameKinds DEF Way, Fresh
<1>8. Shaken(i, r)'
  <2>1. /\ state[i] # "new" /\ (state[r] \in {"new", "checking"} => f = i)
        /\ state[i] = "waiting" => f = r /\ state[r] # "new"
    BY <1>1, <1>3, <1>7 DEF Whole, Shaken
  <2>2. (state[i] = "waiting" => wire'[i] = wire[i])
        /\ (state[r] \in {"new", "checking"} => wire'[r] = wire[r])
    BY <1>1, <1>6, <2>1
  <2>3. ASSUME state[i] = "waiting", state[r] = "ready"
        PROVE  \A k \in Positions(wire'[r]) : wire'[r][k] # HandshakeReply
    <3>1. f = r /\ e = i /\ wire'[r] = t
      BY <1>1, <1>6, <2>1, <2>3
    <3>2. wire[r][1] # HandshakeReply
      BY <1>5, <3>1, FrameKinds
    <3>3. \A k \in Positions(wire[r]) : k > 1 => wire[r][k] # HandshakeReply
      <4>1. \A k \in Positions(wire[r]) : k > 1 \/ k = 1
        BY <1>5, <3>1 DEF Positions
      <4> QED BY <1>1, <2>3 DEF Whole, Shaken
    <3> QED BY <1>5, <3>1, <3>3
  <2> QED BY <1>1, <1>3, <2>1, <2>2, <2>3 DEF Whole, Shaken
<1>9. Fresh(f, e)' /\ Fresh(e, f)'
  BY <1>2, <1>3, <1>6, <1>7 DEF Way, Fresh
<1>10. Losses(e, f)'
  BY <1>2, <1>3, <1>6 DEF Way, Losses
<1>11. Losses(f, e)'
  <2> SUFFICES ASSUME state[e] = "ready", state[f] = "ready"
               PROVE  Len(wrote[f]) - Len(got'[e]) - Len(t) + (IF e \in glued THEN 1 ELSE 0)
                          <= 2 * faults
    BY <1>3, <1>6 DEF Losses
  <2>1. Len(wrote[f]) - Len(got[e]) - Len(wire[f]) + (IF e \in glued THEN 1 ELSE 0) <= 2 * faults
    BY <1>2 DEF Way, Losses
  <2>2. Len(got'[e]) = Len(got[e]) + 1 /\ Len(got[e]) \in Nat /\ Len(wrote[f]) \in Nat
    BY <1>2, <1>6, Typed, AppendProperties
  <2>3. 2 * faults \in Nat /\ (IF e \in glued THEN 1 ELSE 0) \in {0, 1}
    BY <1>2, Typed, Twice
  <2> DEFINE a == Len(wrote[f])
             b == Len(got[e])
             d == Len(wire[f])
             g == IF e \in glued THEN 1 ELSE 0
             y == 2 * faults
  <2>4. /\ a \in Nat /\ b \in Nat /\ d \in Nat /\ g \in {0, 1} /\ y \in Nat /\ a - b - d + g <= y
        /\ Len(got'[e]) = b + 1 /\ Len(t) = d - 1
    BY <1>5, <2>1, <2>2, <2>3
  <2> HIDE DEF a, b, d, g, y
  <2>5. a - (b + 1) - (d - 1) + g <= y
    BY <2>4
  <2> QED BY <2>4, <2>5 DEF a, g, y
<1>12. Ordered(e, f)'
  BY <1>2, <1>3, <1>6 DEF Way, Ordered
<1>13. Ordered(f, e)'
  <2>1. InOrder(Line(got[e], wire[f]), wrote[f]) /\ got[e] \in Seq(Payload)
    BY <1>2, Typed DEF Way, Ordered
  <2>2. CASE state[e] = "ready"
    <3>1. Line(Append(got[e], p), Tail(wire[f])) = Line(got[e], wire[f])
      BY <1>3, <1>5, <2>1, LineRead
    <3> QED BY <1>3, <1>6, <2>1, <2>2, <3>1 DEF Ordered, t
  <2>3. CASE state[e] # "ready"
    <3>1. InOrder(Line(got[e], Tail(wire[f])), wrote[f])
      BY <1>3, <1>5, <2>1, LineTail
    <3> QED BY <1>3, <1>6, <2>3, <3>1 DEF Ordered, t
  <2> QED BY <2>2, <2>3
<1>14. Way(e, f)' /\ Way(f, e)'
  BY <1>9, <1>10, <1>11, <1>12, <1>13 DEF Way
<1>15. Whole(i, r)'
  BY <1>1, <1>8, <1>14 DEF Whole
<1>16. faults' \in Nat /\ faults <= faults'
  BY <1>2, <1>3, Typed
<1> QED BY <1>1, <1>4, <1>15, <1>16, OneChannel

\* What is given to an end is written, waits, or is lost with its socket.
LEMMA WriteSound ==
    ASSUME ChanTypeOK, NEW e \in End, NEW p \in Payload, WritePayload(e, p), Sound
    PROVE  Sound'
<1> DEFINE f == Peer(e)
           x == Append(wire[e], Encrypted(p))
           v == Append(wrote[e], p)
<1>1. PICK c \in Chan, i \in End, r \in End :
          /\ i = <<c, "ini">> /\ r = <<c, "res">> /\ i # r /\ Whole(i, r)
          /\ (e = i /\ f = r) \/ (e = r /\ f = i)
          /\ \A g \in End : g[1] = c => g \in {i, r}
  BY Ends
<1>2. f \in End /\ e # f /\ Way(e, f) /\ Way(f, e)
  BY <1>1, PeerType DEF Whole
<1>3. /\ wrote' = [wrote EXCEPT ![e] = v]
      /\ queue' = IF state[e] \in {"ready", "gone"} THEN queue
                  ELSE [queue EXCEPT ![e] = Append(queue[e], p)]
      /\ wire' = IF state[e] = "ready" THEN [wire EXCEPT ![e] = x] ELSE wire
      /\ UNCHANGED <<state, glued, got, faults>>
  BY DEF WritePayload
<1> HIDE DEF f
<1>4. /\ wire[e] \in Seq(Frame) /\ wrote[e] \in Seq(Payload) /\ got[f] \in Seq(Payload)
      /\ Len(wire[e]) \in Nat /\ Len(wrote[e]) \in Nat /\ Len(got[f]) \in Nat /\ faults \in Nat
      /\ Encrypted(p) \in Frame
  BY <1>2, Typed, FrameType
<1>5. Len(x) = Len(wire[e]) + 1 /\ Len(v) = Len(wrote[e]) + 1
  BY <1>4, AppendProperties
<1>6. /\ x[Len(wire[e]) + 1] = Encrypted(p) /\ \A k \in 1 .. Len(wire[e]) : x[k] = wire[e][k]
  BY <1>4, AppendProperties
<1> HIDE DEF x, v
<1>7. ASSUME NEW g \in End, g[1] # c
      PROVE  Same(g)
  <2>1. g # e
    BY <1>1, <1>7
  <2>2. wrote'[g] = wrote[g] /\ wire'[g] = wire[g] /\ queue'[g] = queue[g]
    BY <1>3, <2>1 DEF ChanTypeOK
  <2> QED BY <1>3, <2>2 DEF Same
<1>8. /\ wrote'[e] = v /\ wrote'[f] = wrote[f] /\ wire'[f] = wire[f] /\ queue'[f] = queue[f]
      /\ state[e] = "ready" => wire'[e] = x
      /\ state[e] # "ready" => wire'[e] = wire[e]
      /\ state[e] \notin {"ready", "gone"} => queue'[e] = Append(queue[e], p)
  BY <1>2, <1>3 DEF ChanTypeOK
<1>9. Shaken(i, r)'
  <2>1. ASSUME state[i] = "waiting", state[r] = "ready"
        PROVE  \/ \A k \in Positions(wire'[r]) : wire'[r][k] # HandshakeReply
               \/ /\ i \notin glued /\ Len(wire'[r]) = Len(wrote'[r]) + 1
                  /\ \A k \in Positions(wire'[r]) : k > 1 => wire'[r][k] # HandshakeReply
    <3>1. CASE e = i
      BY <1>1, <1>2, <1>8, <2>1, <3>1 DEF Whole, Shaken
    <3>2. CASE e = r
      <4>1. wire'[r] = x /\ wrote'[r] = v
        BY <1>8, <2>1, <3>2
      <4>2. \A k \in Positions(x) : x[k] = HandshakeReply => k \in Positions(wire[r]) /\ wire[r][k] = x[k]
        <5>1. ASSUME NEW k \in Positions(x), x[k] = HandshakeReply
              PROVE  k \in Positions(wire[r]) /\ wire[r][k] = x[k]
          <6>1. k # Len(wire[e]) + 1
            BY <1>6, <5>1, FrameKinds
          <6>2. k \in 1 .. Len(wire[e])
            BY <1>4, <1>5, <6>1 DEF Positions
          <6> QED BY <1>6, <3>2, <6>2 DEF Positions
        <5> QED BY <5>1
      <4>3. Len(wire[r]) = Len(wrote[r]) + 1 => Len(x) = Len(v) + 1
        BY <1>4, <1>5, <3>2
      <4> QED BY <1>1, <2>1, <4>1, <4>2, <4>3 DEF Whole, Shaken
    <3> QED BY <1>1, <3>1, <3>2
  <2>2. /\ state[i] \in {"new", "waiting"} => wire'[i] = wire[i]
        /\ state[r] \in {"new", "checking"} => wire'[r] = wire[r]
    BY <1>1, <1>8
  <2> QED BY <1>1, <1>3, <2>1, <2>2 DEF Whole, Shaken
<1>10. Fresh(f, e)' /\ Fresh(e, f)'
  BY <1>2, <1>3, <1>8 DEF Way, Fresh, v
<1>11. Losses(f, e)'
  BY <1>2, <1>3, <1>8 DEF Way, Losses
<1>12. Losses(e, f)'
  <2> SUFFICES ASSUME state[e] = "ready", state[f] = "ready"
               PROVE  Len(v) - Len(got[f]) - Len(x) + (IF f \in glued THEN 1 ELSE 0) <= 2 * faults
    BY <1>3, <1>8 DEF Losses
  <2>1. Len(wrote[e]) - Len(got[f]) - Len(wire[e]) + (IF f \in glued THEN 1 ELSE 0) <= 2 * faults
    BY <1>2 DEF Way, Losses
  <2>2. 2 * faults \in Nat /\ (IF f \in glued THEN 1 ELSE 0) \in {0, 1}
    BY <1>4, Twice
  <2> DEFINE a == Len(wrote[e])
             b == Len(got[f])
             d == Len(wire[e])
             g == IF f \in glued THEN 1 ELSE 0
             y == 2 * faults
  <2>3. /\ a \in Nat /\ b \in Nat /\ d \in Nat /\ g \in {0, 1} /\ y \in Nat /\ a - b - d + g <= y
        /\ Len(v) = a + 1 /\ Len(x) = d + 1
    BY <1>4, <1>5, <2>1, <2>2
  <2> HIDE DEF a, b, d, g, y
  <2>4. a + 1 - b - (d + 1) + g <= y
    BY <2>3
  <2>5. Len(v) - b - Len(x) + g <= y
    BY <2>3, <2>4
  <2> QED BY <2>5 DEF b, g, y
<1>13. Ordered(f, e)'
  BY <1>2, <1>3, <1>8 DEF Way, Ordered
<1>14. Ordered(e, f)'
  <2>1. InOrder(Line(got[f], wire[e]), wrote[e])
    BY <1>2 DEF Way, Ordered
  <2>2. InOrder(Line(got[f], x), v)
    BY <1>4, <2>1, LineWrite DEF x, v
  <2>3. InOrder(Line(got[f], wire[e]), v)
    BY <1>4, <2>1, OrderMore DEF v
  <2> QED BY <1>3, <1>8, <2>2, <2>3 DEF Ordered
<1>15. Way(e, f)' /\ Way(f, e)'
  BY <1>10, <1>11, <1>12, <1>13, <1>14 DEF Way
<1>16. Whole(i, r)'
  BY <1>1, <1>9, <1>15 DEF Whole
<1>17. faults' \in Nat /\ faults <= faults'
  BY <1>3, <1>4
<1> QED BY <1>1, <1>7, <1>16, <1>17, OneChannel

\* A newline that was taken for a keepalive costs the frame before it and the
\* next.
LEMMA LostSound ==
    ASSUME ChanTypeOK, NEW e \in End, SwallowNewline(e) \/ DropGlued(e), Sound
    PROVE  Sound'
<1> DEFINE f == Peer(e)
           t == Tail(wire[f])
<1>1. PICK c \in Chan, i \in End, r \in End :
          /\ i = <<c, "ini">> /\ r = <<c, "res">> /\ i # r /\ Whole(i, r)
          /\ (e = i /\ f = r) \/ (e = r /\ f = i)
          /\ \A g \in End : g[1] = c => g \in {i, r}
  BY Ends
<1>2. f \in End /\ e # f /\ Way(e, f) /\ Way(f, e)
  BY <1>1, PeerType DEF Whole
<1>3. /\ state[e] # "gone" /\ wire[f] # <<>> /\ wire' = [wire EXCEPT ![f] = t]
      /\ UNCHANGED <<state, queue, wrote, got>>
      /\ \/ e \notin glued /\ glued' = glued \cup {e} /\ faults' = faults + 1
         \/ e \in glued /\ glued' = glued \ {e} /\ faults' = faults
  BY DEF SwallowNewline, DropGlued, Fault
<1> HIDE DEF f
<1>4. \A g \in End : g[1] # c => Same(g)
  <2>1. \A g \in End : g[1] # c => g # e /\ g # f
    BY <1>1
  <2> HIDE DEF t
  <2> QED BY <1>3, <2>1 DEF Same, ChanTypeOK
<1>5. /\ wire[f] \in Seq(Frame) /\ Len(t) = Len(wire[f]) - 1
      /\ \A k \in Positions(t) : k + 1 \in Positions(wire[f]) /\ k + 1 > 1 /\ t[k] = wire[f][k + 1]
      /\ got[e] \in Seq(Payload) /\ faults \in Nat
      /\ Len(wire[f]) \in Nat /\ Len(got[e]) \in Nat /\ Len(wrote[f]) \in Nat
      /\ Len(wire[e]) \in Nat /\ Len(got[f]) \in Nat /\ Len(wrote[e]) \in Nat
  BY <1>2, <1>3, Typed, TailOf
<1>6. wire[f] = <<HandshakeInit>> => t = <<>>
  OBVIOUS
<1>7. InOrder(Line(got[e], t), wrote[f])
  BY <1>2, <1>3, <1>5, LineTail DEF Way, Ordered
<1> HIDE DEF t
<1>8. /\ wire'[f] = t /\ wire'[e] = wire[e] /\ (f \in glued' <=> f \in glued)
  BY <1>2, <1>3 DEF ChanTypeOK
<1>9. faults' \in Nat /\ faults <= faults'
  BY <1>3, <1>5
<1>10. Shaken(i, r)'
  <2>1. /\ state[i] # "new" /\ (state[r] \in {"new", "checking"} => f = i)
        /\ state[i] = "waiting" /\ state[r] \in {"checking", "ready"} => f = r
    BY <1>1, <1>3 DEF Whole, Shaken
  <2>2. /\ state[r] \in {"new", "checking"} => wire'[r] = <<>> /\ i \notin glued' /\ state[i] # "ready"
        /\ state[i] = "waiting" /\ state[r] \in {"checking", "ready"} =>
              wire'[i] = <<>> /\ r \notin glued'
    BY <1>1, <1>8, <2>1 DEF Whole, Shaken
  <2>3. state[i] = "waiting" /\ state[r] = "new" => wire'[i] = <<>>
    BY <1>1, <1>3, <1>6, <1>8, <2>1 DEF Whole, Shaken
  <2>4. ASSUME state[i] = "waiting", state[r] = "ready"
        PROVE  \A k \in Positions(wire'[r]) : wire'[r][k] # HandshakeReply
    <3>1. f = r /\ wire'[r] = t
      BY <1>8, <2>1, <2>4
    <3>2. \A k \in Positions(wire[r]) : k > 1 => wire[r][k] # HandshakeReply
      BY <1>1, <2>4 DEF Whole, Shaken
    <3> QED BY <1>5, <3>1, <3>2
  <2> QED BY <1>1, <1>3, <2>1, <2>2, <2>3, <2>4 DEF Whole, Shaken
<1>11. Fresh(e, f)' /\ Fresh(f, e)'
  <2>1. ASSUME \A k \in Positions(wire[f]) : wire[f][k] \in Handshakes
        PROVE  \A k \in Positions(t) : t[k] \in Handshakes
    BY <1>5, <2>1
  <2> QED BY <1>2, <1>3, <1>8, <2>1 DEF Way, Fresh
<1>12. Losses(f, e)'
  <2> SUFFICES ASSUME state[e] = "ready", state[f] = "ready"
               PROVE  Len(wrote[f]) - Len(got[e]) - Len(t) + (IF e \in glued' THEN 1 ELSE 0)
                          <= 2 * faults'
    BY <1>3, <1>8 DEF Losses
  <2> DEFINE a == Len(wrote[f])
             b == Len(got[e])
             d == Len(wire[f])
             y == 2 * faults
  <2>1. a - b - d + (IF e \in glued THEN 1 ELSE 0) <= y
    BY <1>2 DEF Way, Losses
  <2>2. /\ a \in Nat /\ b \in Nat /\ d \in Nat /\ y \in Nat /\ Len(t) = d - 1
        /\ 2 * (faults + 1) = y + 2
    BY <1>5, Twice
  <2>3. \/ /\ (IF e \in glued THEN 1 ELSE 0) = 0 /\ (IF e \in glued' THEN 1 ELSE 0) = 1
           /\ 2 * faults' = y + 2
        \/ /\ (IF e \in glued THEN 1 ELSE 0) = 1 /\ (IF e \in glued' THEN 1 ELSE 0) = 0
           /\ 2 * faults' = y
    BY <1>3, <2>2
  <2> HIDE DEF a, b, d, y
  <2>4. a - b - Len(t) + (IF e \in glued' THEN 1 ELSE 0) <= 2 * faults'
    <3> DEFINE g == IF e \in glued THEN 1 ELSE 0
               h == IF e \in glued' THEN 1 ELSE 0
               z == 2 * faults'
    <3>1. (g = 0 /\ h = 1 /\ z = y + 2) \/ (g = 1 /\ h = 0 /\ z = y)
      BY <2>3
    <3>2. a - b - d + g <= y
      BY <2>1
    <3> HIDE DEF g, h, z
    <3>3. a - b - (d - 1) + h <= z
      BY <2>2, <3>1, <3>2
    <3>4. a - b - Len(t) + h <= z
      BY <2>2, <3>3
    <3> QED BY <3>4 DEF h, z
  <2> QED BY <2>4 DEF a, b
<1>13. Losses(e, f)'
  <2> SUFFICES ASSUME state[e] = "ready", state[f] = "ready"
               PROVE  Len(wrote[e]) - Len(got[f]) - Len(wire[e]) + (IF f \in glued THEN 1 ELSE 0)
                          <= 2 * faults'
    BY <1>3, <1>8 DEF Losses
  <2>1. Len(wrote[e]) - Len(got[f]) - Len(wire[e]) + (IF f \in glued THEN 1 ELSE 0) <= 2 * faults
    BY <1>2 DEF Way, Losses
  <2>2. 2 * faults \in Nat /\ 2 * faults' \in Nat /\ 2 * faults <= 2 * faults'
    BY <1>5, <1>9, Twice
  <2> QED BY <1>5, <2>1, <2>2, Slack
<1>14. Ordered(e, f)' /\ Ordered(f, e)'
  BY <1>2, <1>3, <1>7, <1>8 DEF Way, Ordered
<1>15. Way(e, f)' /\ Way(f, e)'
  BY <1>11, <1>12, <1>13, <1>14 DEF Way
<1>16. Whole(i, r)'
  BY <1>1, <1>10, <1>15 DEF Whole
<1> QED BY <1>1, <1>4, <1>9, <1>16, OneChannel

\* An end whose socket is gone: what it wrote arrives in part.
LEMMA GoneSound ==
    ASSUME ChanTypeOK, Sound, NEW e \in End, NEW f \in End, f = Peer(e),
           state[e] # "new" \/ state[f] # "new",
           state' = [state EXCEPT ![e] = "gone"],
           NEW v \in Seq(Frame), Len(v) <= Len(wire[e]), \A k \in 1 .. Len(v) : v[k] = wire[e][k],
           wire' = [wire EXCEPT ![e] = v, ![f] = <<>>],
           UNCHANGED <<queue, glued, wrote, got>>, faults' \in Nat, faults <= faults'
    PROVE  Sound'
<1>0. PICK c \in Chan, i \in End, r \in End :
          /\ i = <<c, "ini">> /\ r = <<c, "res">> /\ i # r /\ Whole(i, r)
          /\ (e = i /\ Peer(e) = r) \/ (e = r /\ Peer(e) = i)
          /\ \A g \in End : g[1] = c => g \in {i, r}
  BY Ends
<1>1. /\ i = <<c, "ini">> /\ r = <<c, "res">> /\ i # r /\ Whole(i, r)
      /\ (e = i /\ f = r) \/ (e = r /\ f = i)
      /\ \A g \in End : g[1] = c => g \in {i, r}
  BY <1>0
<1>2. e # f /\ Way(e, f) /\ Way(f, e)
  BY <1>1 DEF Whole
<1>3. \A g \in End : g[1] # c => Same(g)
  <2>1. \A g \in End : g[1] # c => g # e /\ g # f
    BY <1>1
  <2> QED BY <2>1 DEF Same, ChanTypeOK
<1>4. state'[e] = "gone" /\ state'[f] = state[f] /\ wire'[e] = v /\ wire'[f] = <<>>
  BY <1>2 DEF ChanTypeOK
<1>5. Shaken(i, r)'
  BY <1>1, <1>4 DEF Whole, Shaken
<1>6. Fresh(e, f)' /\ Fresh(f, e)'
  <2>1. Positions(<<>>) = {}
    BY EmptySeq DEF Positions
  <2> QED BY <1>2, <1>4, <2>1 DEF Way, Fresh
<1>7. Losses(e, f)' /\ Losses(f, e)'
  BY <1>4 DEF Losses
<1>8. /\ wire[e] \in Seq(Frame) /\ got[f] \in Seq(Payload)
      /\ wire[f] \in Seq(Frame) /\ got[e] \in Seq(Payload) /\ Len(wire[f]) \in Nat
  BY Typed
<1>9. Ordered(e, f)'
  <2>1. InOrder(Line(got[f], v), wrote[e])
    BY <1>2, <1>8, LineCut DEF Way, Ordered
  <2> QED BY <1>4, <2>1 DEF Ordered
<1>10. Ordered(f, e)'
  <2> DEFINE u == <<>>
  <2>1. u \in Seq(Frame) /\ Len(u) = 0
    BY EmptySeq
  <2>2. Len(u) <= Len(wire[f]) /\ \A k \in 1 .. Len(u) : u[k] = wire[f][k]
    BY <1>8, <2>1
  <2>3. wire'[f] = u
    BY <1>4
  <2> HIDE DEF u
  <2>4. InOrder(Line(got[e], wire[f]), wrote[f])
    BY <1>2 DEF Way, Ordered
  <2>5. InOrder(Line(got[e], u), wrote[f])
    BY <1>8, <2>1, <2>2, <2>4, LineCut
  <2> QED BY <2>3, <2>5 DEF Ordered
<1>11. Whole(i, r)'
  <2>1. Way(e, f)' /\ Way(f, e)'
    BY <1>6, <1>7, <1>9, <1>10 DEF Way
  <2> QED BY <1>1, <1>5, <2>1 DEF Whole
<1> QED BY <1>1, <1>3, <1>11, OneChannel

LEMMA DestroySound ==
    ASSUME ChanTypeOK, Sound, NEW e \in End, Destroy(e), state[e] # "new" \/ state[Peer(e)] # "new"
    PROVE  Sound'
<1>1. Peer(e) \in End /\ wire[e] \in Seq(Frame) /\ Len(wire[e]) \in Nat /\ faults \in Nat
  BY PeerType, Typed
<1>2. PICK n \in 0 .. Len(wire[e]) :
        wire' = [wire EXCEPT ![e] = SubSeq(wire[e], 1, n), ![Peer(e)] = <<>>]
  BY DEF Destroy
<1>3. PICK v \in Seq(Frame) : /\ v = SubSeq(wire[e], 1, n) /\ Len(v) <= Len(wire[e])
                              /\ \A k \in 1 .. Len(v) : v[k] = wire[e][k]
  <2> DEFINE v == SubSeq(wire[e], 1, n)
  <2>1. v \in Seq(Frame) /\ Len(v) = n /\ \A k \in 1 .. n : v[k] = wire[e][k]
    BY <1>1
  <2> HIDE DEF v
  <2>2. Len(v) <= Len(wire[e])
    BY <1>1, <2>1
  <2> QED BY <2>1, <2>2 DEF v
<1>4. /\ state' = [state EXCEPT ![e] = "gone"] /\ UNCHANGED <<queue, glued, wrote, got>>
      /\ faults' \in Nat /\ faults <= faults'
  BY <1>1 DEF Destroy
<1> QED BY <1>1, <1>2, <1>3, <1>4, GoneSound

LEMMA BreakSound ==
    ASSUME ChanTypeOK, Sound, NEW e \in End, Break(e)
    PROVE  Sound'
<1>1. /\ Peer(e) \in End /\ wire[e] \in Seq(Frame) /\ Len(wire[e]) \in Nat /\ faults \in Nat
      /\ <<>> \in Seq(Frame) /\ Len(<<>>) = 0
  BY PeerType, Typed, EmptySeq
<1>2. /\ wire' = [wire EXCEPT ![e] = <<>>, ![Peer(e)] = <<>>] /\ state[e] # "new"
      /\ state' = [state EXCEPT ![e] = "gone"] /\ UNCHANGED <<queue, glued, wrote, got>>
      /\ faults' \in Nat /\ faults <= faults'
  BY <1>1 DEF Break, Fault
<1>3. PICK v \in Seq(Frame) : v = <<>> /\ Len(v) <= Len(wire[e])
                              /\ \A k \in 1 .. Len(v) : v[k] = wire[e][k]
  <2> DEFINE v == <<>>
  <2>1. v \in Seq(Frame) /\ Len(v) = 0
    BY <1>1
  <2> HIDE DEF v
  <2>2. Len(v) <= Len(wire[e]) /\ \A k \in 1 .. Len(v) : v[k] = wire[e][k]
    BY <1>1, <2>1
  <2> QED BY <2>1, <2>2 DEF v
<1> QED BY <1>1, <1>2, <1>3, GoneSound

LEMMA ChanStepSound ==
    ASSUME ChanTypeOK, Sound, ChanStep
    PROVE  Sound'
<1>1. ASSUME NEW c \in Chan, ReceiveInit(c) \/ Checked(c) \/ Rejected(c)
      PROVE  Sound'
  <2>1. CASE Rejected(c)
    BY <2>1, DestroySound, EndType DEF Rejected
  <2> QED BY <1>1, <2>1, InitSound, CheckedSound
<1>2. ASSUME NEW e \in End, Timeout(e) \/ Closed(e)
      PROVE  Sound'
  <2>1. state[e] # "new" \/ state[Peer(e)] # "new"
    BY <1>2 DEF Timeout, Closed, Accepted
  <2> QED BY <1>2, <2>1, DestroySound DEF Timeout, Closed
<1>3. ASSUME NEW e \in End, SwallowNewline(e) \/ DropGlued(e) \/ Break(e)
      PROVE  Sound'
  BY <1>3, LostSound, BreakSound
<1> QED BY <1>1, <1>2, <1>3 DEF ChanStep

\* Steps that leave the channels alone.
LEMMA ElsewhereSound ==
    ASSUME ChanTypeOK, Sound, UNCHANGED <<state, wire, queue, glued, wrote, got>>,
           faults' = faults \/ Fault
    PROVE  Sound'
<1>1. faults \in Nat /\ faults' \in Nat /\ faults <= faults'
  <2>1. faults \in Nat
    BY ChannelAssumption DEF ChanTypeOK
  <2> QED BY <2>1 DEF Fault
<1>2. \A e \in End : Same(e)
  BY DEF Same
<1> SUFFICES ASSUME NEW c \in Chan
             PROVE  Whole(<<c, "ini">>, <<c, "res">>)'
  BY DEF Sound
<1> DEFINE i == <<c, "ini">>
           r == <<c, "res">>
<1>3. i \in End /\ r \in End /\ Whole(i, r)
  BY EndType DEF Sound
<1> HIDE DEF i, r
<1>4. Whole(i, r)'
  BY <1>1, <1>2, <1>3, StaysWhole
<1> QED BY <1>4 DEF i, r

LEMMA StartsSound == Init => Sound
<1> SUFFICES ASSUME Init, NEW c \in Chan
             PROVE  Whole(<<c, "ini">>, <<c, "res">>)
  BY DEF Sound
<1> DEFINE i == <<c, "ini">>
           r == <<c, "res">>
           u == <<>>
<1>1. i \in End /\ r \in End
  BY EndType
<1>2. \A e \in {i, r} : /\ state[e] = "new" /\ wire[e] = u /\ queue[e] = u /\ e \notin glued
                        /\ wrote[e] = u /\ got[e] = u
  BY <1>1 DEF Init, ChanInit
<1>3. u \in Seq(Frame) /\ u \in Seq(Payload) /\ Positions(u) = {}
  BY EmptySeq DEF Positions
<1>4. u = <<>>
  OBVIOUS
<1> HIDE DEF i, r, u
<1>5. Shaken(i, r) /\ Fresh(i, r) /\ Fresh(r, i) /\ Losses(i, r) /\ Losses(r, i)
  BY <1>2, <1>3, <1>4 DEF Shaken, Fresh, Losses
<1>6. InOrder(Line(u, u), u)
  BY <1>3, <1>4, LineReady
<1>7. Ordered(i, r) /\ Ordered(r, i)
  BY <1>2, <1>6 DEF Ordered
<1>8. Whole(i, r)
  BY <1>5, <1>7 DEF Whole, Way
<1> QED BY <1>8 DEF i, r

LEMMA StepSound == IInv /\ Sound /\ [Next]_vars => Sound'
<1> SUFFICES ASSUME IInv, Sound, [Next]_vars
             PROVE  Sound'
  OBVIOUS
<1>0. ChanTypeOK /\ IInv'
  BY StepGood DEF IInv, TypeOK
<1>00. ChanTypeOK'
  BY <1>0 DEF IInv, TypeOK
<1>1. CASE UNCHANGED vars
  BY <1>0, <1>1, ElsewhereSound DEF vars, chanVars
<1>2. CASE ChanStep
  BY <1>0, <1>2, ChanStepSound
<1>3. ASSUME NEW c \in Chan, DialPeer(c) \/ ReplyArrives(c)
      PROVE  Sound'
  BY <1>0, <1>00, <1>3, DialSound, ReplySound DEF DialPeer, ReplyArrives
<1>4. ASSUME NEW c \in Chan, NEW d \in Dialback,
             SendRequest(d, c) \/ ConfirmArrives(c, d) \/ RequestArrives(c, d)
      PROVE  Sound'
  <2> DEFINE i == <<c, "ini">>
             r == <<c, "res">>
  <2>1. i \in End /\ r \in End /\ Request(d) \in Payload /\ Confirm(d) \in Payload
    BY EndType, Kinds
  <2>2. \/ WritePayload(i, Request(d))
        \/ ReceiveFrame(i, Confirm(d))
        \/ ReceiveFrame(r, Request(d))
    BY <1>4 DEF SendRequest, ConfirmArrives, RequestArrives
  <2> HIDE DEF i, r
  <2> QED BY <1>0, <2>1, <2>2, FrameSound, WriteSound
<1>5. ASSUME NEW d \in Dialback, RequestFails(d) \/ DialbackTimer(d) \/ DialFails(d) \/ DialCloses(d)
      PROVE  Sound'
  <2>1. /\ UNCHANGED <<state, wire, queue, glued, wrote, got>>
        /\ faults' = faults \/ Fault
    BY <1>5 DEF RequestFails, DialbackTimer, DialFails, DialCloses, chanVars
  <2> QED BY <1>0, <2>1, ElsewhereSound
<1>6. ASSUME NEW d \in Dialback, Dialed(d)
      PROVE  Sound'
  <2> DEFINE e == <<serve[d].via, "res">>
  <2>1. e \in End /\ Confirm(d) \in Payload
    BY <1>6, EndType, Kinds DEF Dialed, Moves, IInv, Slots
  <2>2. WritePayload(e, Confirm(d))
    BY <1>6 DEF Dialed
  <2> HIDE DEF e
  <2> QED BY <1>0, <2>1, <2>2, WriteSound
<1>7. ASSUME NEW n \in Notes, NEW e \in End, Note(e, n) \/ NoteArrives(e, n)
      PROVE  Sound'
  <2>1. n \in Payload /\ (WritePayload(e, n) \/ ReceiveFrame(e, n))
    BY <1>7, Kinds DEF Note, NoteArrives
  <2> QED BY <1>0, <2>1, FrameSound, WriteSound
<1>8. Writers \subseteq End
  BY AutoNatAssumption
<1> QED BY <1>1, <1>2, <1>3, <1>4, <1>5, <1>6, <1>7, <1>8 DEF Next

\* A sequence that is in order is made of positions of the other.
LEMMA SoundDelivered == IInv /\ Sound => Delivered
<1> SUFFICES ASSUME IInv, Sound, NEW e \in End
             PROVE  LET in == got[Peer(e)]
                        out == wrote[e]
                    IN /\ \E at \in [DOMAIN in -> DOMAIN out] :
                             \A j \in DOMAIN in : /\ in[j] = out[at[j]]
                                                  /\ \A k \in DOMAIN in : j < k => at[j] < at[k]
                       /\ \/ state[e] # "ready" \/ state[Peer(e)] # "ready" \/ wire[e] # <<>>
                          \/ Len(out) - Len(in) <= 2 * faults
  BY DEF Delivered
<1> DEFINE f == Peer(e)
           g == got[f]
           q == wire[e]
           w == wrote[e]
           l == Line(g, q)
<1>1. ChanTypeOK /\ f \in End
  BY PeerType DEF IInv, TypeOK
<1>2. Way(e, f)
  <2>1. PICK c \in Chan, i \in End, r \in End :
            Whole(i, r) /\ ((e = i /\ f = r) \/ (e = r /\ f = i))
    BY Ends
  <2> QED BY <2>1 DEF Whole
<1> HIDE DEF f
<1>3. /\ g \in Seq(Payload) /\ w \in Seq(Payload) /\ q \in Seq(Frame)
      /\ Len(g) \in Nat /\ Len(q) \in Nat /\ Len(w) \in Nat /\ faults \in Nat
      /\ DOMAIN g = 1 .. Len(g) /\ DOMAIN w = 1 .. Len(w)
  BY <1>1, Typed, LenProperties
<1>4. InOrder(l, w)
  BY <1>2 DEF Way, Ordered
<1>5. /\ DOMAIN l = 1 .. Len(g) + Len(q)
      /\ \A k \in 1 .. Len(g) : k \in DOMAIN l /\ l[k] = Encrypted(g[k])
  <2>1. /\ DOMAIN l = 1 .. Len(g) + Len(q)
        /\ \A k \in 1 .. Len(g) + Len(q) :
              l[k] = IF k <= Len(g) THEN Encrypted(g[k]) ELSE q[k - Len(g)]
    BY <1>3, LineDomain
  <2> HIDE DEF l
  <2>2. \A k \in 1 .. Len(g) : k \in DOMAIN l /\ k <= Len(g)
    <3> DEFINE a == Len(g)
               b == Len(q)
    <3>1. a \in Nat /\ b \in Nat /\ DOMAIN l = 1 .. a + b
      BY <1>3, <2>1
    <3> HIDE DEF a, b
    <3>2. \A k \in 1 .. a : k \in DOMAIN l /\ k <= a
      BY <3>1
    <3> QED BY <3>2 DEF a
  <2> QED BY <2>1, <2>2
<1>6. Losses(e, f)
  BY <1>2 DEF Way
<1> HIDE DEF l
<1>7. PICK at \in [DOMAIN l -> Nat] :
          \A j \in DOMAIN l : l[j] \notin Handshakes =>
              /\ at[j] \in Positions(w) /\ l[j] = Encrypted(w[at[j]])
              /\ \A k \in DOMAIN l : l[k] \notin Handshakes /\ j < k => at[j] < at[k]
  BY <1>4 DEF InOrder
<1>8. \A j \in DOMAIN g : j \in DOMAIN l /\ l[j] = Encrypted(g[j]) /\ l[j] \notin Handshakes
  BY <1>3, <1>5, FrameKinds
<1>9. \A j \in DOMAIN g : /\ at[j] \in DOMAIN w /\ g[j] = w[at[j]]
                          /\ \A k \in DOMAIN g : j < k => at[j] < at[k]
  BY <1>3, <1>7, <1>8, Kinds DEF Positions
<1>10. \E b \in [DOMAIN g -> DOMAIN w] :
          \A j \in DOMAIN g : /\ g[j] = w[b[j]]
                              /\ \A k \in DOMAIN g : j < k => b[j] < b[k]
  <2> DEFINE b == [j \in DOMAIN g |-> at[j]]
  <2>1. b \in [DOMAIN g -> DOMAIN w] /\ \A j \in DOMAIN g : b[j] = at[j]
    BY <1>9
  <2> HIDE DEF b
  <2> QED BY <1>9, <2>1
<1>11. ASSUME state[e] = "ready", state[f] = "ready", q = <<>>
       PROVE  Len(w) - Len(g) <= 2 * faults
  <2>1. /\ Len(w) - Len(g) - Len(q) + (IF f \in glued THEN 1 ELSE 0) <= 2 * faults
        /\ 2 * faults \in Nat /\ Len(q) = 0
    BY <1>3, <1>6, <1>11, Twice, EmptySeq DEF Losses
  <2> DEFINE y == 2 * faults
             n == IF f \in glued THEN 1 ELSE 0
  <2>2. n \in Nat /\ y \in Nat /\ Len(w) - Len(g) - 0 + n <= y
    BY <2>1
  <2> HIDE DEF y, n
  <2>3. Len(w) - Len(g) <= y
    BY <1>3, <2>2
  <2> QED BY <2>3 DEF y
<1> QED BY <1>10, <1>11 DEF f
-----------------------------------------------------------------------------
(* The theorems                                                             *)

LEMMA Invariance == Spec => []IInv
<1>1. IInv /\ [Next]_vars => IInv'
  BY StepGood
<1> QED BY InitInvariant, <1>1, PTL DEF Spec

\* The variables, channels and frames on their way included, keep their types.
THEOREM TypeCorrect == Spec => []TypeOK
<1>1. IInv => TypeOK
  BY DEF IInv
<1> QED BY Invariance, <1>1, PTL

\* The counter of releaseSlot and the dials under way agree, and the limit of
\* a peer holds, in whatever order the events of a dial come.
THEOREM SlotsCounted == Spec => []SlotCount
<1>1. IInv => SlotCount
  BY DEF IInv, Slots, SlotCount, DialsOf
<1> QED BY Invariance, <1>1, PTL

\* Only handleDialbackConfirm for a pending nonce whose dial reached the node
\* raises its role.
THEOREM PromotionEarned == Spec => PromotedByTest
<1>1. IInv /\ [Next]_vars => [role # "RELAY" /\ role' = "RELAY" =>
                                 \E d \in pending \ pending' : d \in reached]_vars
  BY StepGood DEF Promotes
<1> QED BY Invariance, <1>1, PTL DEF Spec, PromotedByTest

\* What is written to a channel comes out in order and once, and between two
\* ends that are ready only what newlines took is missing: the queue of
\* markReady goes out behind the reply and before anything written later.
THEOREM InOrderOnce == Spec => []Delivered
<1>1. Init => Sound
  BY StartsSound
<1>2. IInv /\ Sound /\ [Next]_vars => Sound'
  BY StepSound
<1>3. IInv /\ Sound => Delivered
  BY SoundDelivered
<1> QED BY Invariance, <1>1, <1>2, <1>3, PTL DEF Spec
=============================================================================
