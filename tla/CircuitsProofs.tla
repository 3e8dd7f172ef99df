--------------------------- MODULE CircuitsProofs ----------------------------
(***************************************************************************)
(* Theorems about Circuits for every set of relays, channels and calls,    *)
(* every choice of routes and every number of faults.                      *)
(***************************************************************************)
EXTENDS Circuits, FiniteSetTheorems, SequenceTheorems, TLAPS

(* Facts about lists                                                        *)

LEMMA InEmpty == ASSUME NEW S PROVE <<>> \in Seq(S) /\ Range(<<>>) = {}
BY EmptySeq, RangeOfSeq DEF Range

LEMMA InAppend ==
    ASSUME NEW S, NEW q \in Seq(S), NEW e \in S
    PROVE  Append(q, e) \in Seq(S) /\ Range(Append(q, e)) = Range(q) \cup {e}
<1>1. <<e>> \in Seq(S) /\ Range(<<e>>) = {e}
  BY DEF Range
<1>2. Append(q, e) = q \o <<e>>
  BY AppendIsConcat
<1>3. Range(q \o <<e>>) = Range(q) \cup Range(<<e>>)
  <2> DEFINE u == <<e>>
  <2>1. u \in Seq(S)
    BY <1>1
  <2> HIDE DEF u
  <2>2. Range(q \o u) = Range(q) \cup Range(u)
    BY <2>1, RangeConcatenation
  <2> QED
    BY <2>2 DEF u
<1>4. Append(q, e) \in Seq(S)
  BY AppendProperties
<1> QED
  BY <1>1, <1>2, <1>3, <1>4

LEMMA InTail ==
    ASSUME NEW S, NEW q \in Seq(S), q # <<>>
    PROVE  /\ Head(q) \in S /\ Head(q) \in Range(q)
           /\ Tail(q) \in Seq(S) /\ Range(Tail(q)) \subseteq Range(q)
<1>1. /\ Head(q) = q[1] /\ Len(q) \in Nat \ {0}
      /\ Head(q) \in S /\ Tail(q) \in Seq(S) /\ Len(Tail(q)) = Len(q) - 1
      /\ \A i \in 1 .. Len(Tail(q)) : Tail(q)[i] = q[i + 1]
  BY HeadTailProperties, EmptySeq
<1>2. Range(q) = {q[i] : i \in 1 .. Len(q)} /\ Range(Tail(q)) = {Tail(q)[i] : i \in 1 .. Len(Tail(q))}
  BY <1>1, RangeEquality
<1>3. Head(q) \in Range(q)
  BY <1>1, <1>2
<1>4. Range(Tail(q)) \subseteq Range(q)
  BY <1>1, <1>2
<1> QED
  BY <1>1, <1>3, <1>4

\* A finite set listed in some order.
LEMMA InListed ==
    ASSUME NEW S, NEW T \in SUBSET S, IsFiniteSet(T)
    PROVE  SetToSeq(T) \in Seq(S) /\ Range(SetToSeq(T)) \subseteq T
<1>1. Cardinality(T) \in Nat /\ \E f : f \in [1 .. Cardinality(T) -> T] /\ IsInjective(f)
  BY FS_CardinalityType DEF ExistsBijection, Bijection, Injection
<1>2. SetToSeq(T) \in [1 .. Cardinality(T) -> T]
  BY <1>1 DEF SetToSeq
<1>3. SetToSeq(T) \in Seq(S)
  BY <1>1, <1>2
<1>4. Range(SetToSeq(T)) \subseteq T
  BY <1>2 DEF Range
<1> QED
  BY <1>3, <1>4
-----------------------------------------------------------------------------
(* Routes                                                                   *)

\* h is a hop of circuit c.
On(h, c) == \E i \in DOMAIN Hops(c) : Hops(c)[i] = h

LEMMA RouteTyped ==
    ASSUME NEW p \in HopLists
    PROVE  /\ p \in Seq(Relay) /\ p # <<>>
           /\ Len(p) \in Nat \ {0} /\ DOMAIN p = 1 .. Len(p)
           /\ \A i \in 1 .. Len(p) : p[i] \in Relay
<1>1. p \in Seq(Relay) /\ p # <<>>
  BY CircuitsAssumption DEF HopLists
<1> QED
  BY <1>1, LenProperties, EmptySeq, ElementOfSeq

LEMMA HopLinkTyped ==
    /\ HopLink \subseteq Relay \X Relay
    /\ Chan \cap HopLink = {} /\ NoChan \notin Link
    /\ \A p \in HopLists : \A i \in 1 .. Len(p) : i + 1 \in 1 .. Len(p) => <<p[i], p[i + 1]>> \in HopLink
<1>1. HopLink \subseteq Relay \X Relay
  BY RouteTyped DEF HopLink
<1>2. Chan \cap HopLink = {} /\ NoChan \notin Link
  BY <1>1, PoolAssumption, CircuitsAssumption DEF Link
<1>3. ASSUME NEW p \in HopLists, NEW i \in 1 .. Len(p), i + 1 \in 1 .. Len(p)
      PROVE  <<p[i], p[i + 1]>> \in HopLink
  <2>1. Len(p) \in Nat
    BY RouteTyped
  <2>2. i + 1 \in 2 .. Len(p) /\ (i + 1) - 1 = i
    BY <1>3, <2>1
  <2>3. <<p[(i + 1) - 1], p[i + 1]>> \in {<<p[j - 1], p[j]>> : j \in 2 .. Len(p)}
    BY <2>2
  <2> QED
    BY <2>2, <2>3 DEF HopLink
<1> QED
  BY <1>1, <1>2, <1>3

\* What a circuit that has hops knows of them.
LEMMA HopsTyped ==
    ASSUME TypeOK, NEW c \in Id, Hops(c) # <<>>
    PROVE  /\ Hops(c) \in HopLists
           /\ Len(Hops(c)) \in Nat \ {0} /\ DOMAIN Hops(c) = 1 .. Len(Hops(c))
           /\ \A i \in 1 .. Len(Hops(c)) : Hops(c)[i] \in Relay
           /\ \A i, j \in 1 .. Len(Hops(c)) : Hops(c)[i] = Hops(c)[j] => i = j
           /\ On(Hops(c)[1], c)
<1>1. Hops(c) \in HopLists
  BY DEF TypeOK, Hops
<1>2. /\ Len(Hops(c)) \in Nat \ {0} /\ DOMAIN Hops(c) = 1 .. Len(Hops(c))
      /\ \A i \in 1 .. Len(Hops(c)) : Hops(c)[i] \in Relay
  BY <1>1, RouteTyped
<1>3. On(Hops(c)[1], c)
  BY <1>2 DEF On
<1> QED
  BY <1>1, <1>2, <1>3, CircuitsAssumption

LEMMA NoHops == ASSUME NEW h, NEW c, On(h, c) PROVE Hops(c) # <<>>
BY DEF On

\* A hop that is not the exit extends to the one after it.
LEMMA OntoNext ==
    ASSUME TypeOK, NEW c \in Id, NEW h, On(h, c), h # Exit(c)
    PROVE  /\ Onto(h, c) \in HopLink
           /\ \E i \in DOMAIN Hops(c) : /\ i + 1 \in DOMAIN Hops(c) /\ Hops(c)[i] = h
                                        /\ Onto(h, c) = <<Hops(c)[i], Hops(c)[i + 1]>>
<1> DEFINE n == CHOOSE i \in DOMAIN Hops(c) : Hops(c)[i] = h
<1>1. n \in DOMAIN Hops(c) /\ Hops(c)[n] = h
  BY DEF On
<1> HIDE DEF n
<1>2. Hops(c) # <<>>
  BY NoHops
<1>3. /\ Hops(c) \in HopLists
      /\ Len(Hops(c)) \in Nat \ {0} /\ DOMAIN Hops(c) = 1 .. Len(Hops(c))
  BY <1>2, HopsTyped
<1>4. n # Len(Hops(c))
  BY <1>1 DEF Exit, Last
<1>5. n + 1 \in 1 .. Len(Hops(c)) /\ 1 + n = n + 1
  BY <1>1, <1>3, <1>4
<1>6. Onto(h, c) = <<Hops(c)[n], Hops(c)[n + 1]>>
  BY <1>1, <1>5 DEF Onto, n
<1> QED
  BY <1>1, <1>3, <1>5, <1>6, HopLinkTyped
-----------------------------------------------------------------------------
(* The invariant                                                            *)

\* The pool's entry for an address is a channel to it.
Pooling ==
    \A r \in Relay : pool[r] # NoChan => to[pool[r]] = r /\ phase[pool[r]] # "closed"

\* Nothing is on channel k, and no hop answers over it.
Silent(k) == there[k] = <<>> /\ back[k] = <<>> /\ \A x \in Relay \X Id : via[x] # k

Quiet == \A k \in Chan : ~Live(k) => Silent(k)

\* A packet only comes to hops of its circuit.
Packed == \A l \in Link : \A p \in Range(there[l]) : On(At(l), p.id)

\* All hops of c from h on were told its key.
ToldFrom(h, c) ==
    \A i, j \in DOMAIN Hops(c) : Hops(c)[i] = h /\ i <= j => <<Hops(c)[j], c>> \in told

AnswersTrue ==
    \A l \in Link : \A a \in Range(back[l]) :
        On(At(l), a.id) /\ (a.ready /\ a.id \notin mixed => ToldFrom(At(l), a.id))

ViaTrue ==
    \A h \in Relay, c \in Id : via[<<h, c>>] # NoChan =>
        At(via[<<h, c>>]) = h /\ <<h, c>> \in told /\ On(h, c)

Extending ==
    \A l \in HopLink : \A c \in listening[l] :
       \E i \in DOMAIN Hops(c) : i + 1 \in DOMAIN Hops(c) /\ l = <<Hops(c)[i], Hops(c)[i + 1]>>

Wires == Packed /\ AnswersTrue /\ ViaTrue /\ Extending

\* A call that has not heard of the build it waits for.
Pending == {"dial", "await", "failed"}

CallBuilt(s) ==
    /\ call[s].id # NoId => Hops(call[s].id) # <<>>
    /\ call[s].first # NoId => Hops(call[s].first) # <<>>
    /\ call[s].pc \in Pending \cup {"cell", "write"} => call[s].id # NoId
    /\ call[s].pc \in {"dial", "await", "write"} =>
          call[s].chan # NoChan /\ to[call[s].chan] = Hops(call[s].id)[1]
    /\ call[s].pc \in Pending => call[s].first # NoId
    /\ call[s].pc = "failed" => call[s].id = call[s].first
    /\ call[s].pc = "idle" => call[s].first = NoId /\ call[s].id = NoId

CallsBuilt == \A s \in Send : CallBuilt(s)

CircuitsBuilt == \A c \in circuits : Hops(c) # <<>>

\* The builds that listen on a channel are those of the calls that wait on it.
Listening ==
    \A k \in Chan : \A c \in Id :
        c \in listening[k]
            <=> \E s \in Send : call[s].pc = "await" /\ call[s].chan = k /\ call[s].id = c

\* c is no circuit, and nobody takes it for one.
NoCircuit(c) ==
    c \notin circuits /\ \A s \in Send : call[s].id = c => call[s].pc \notin {"cell", "write"}

\* A build under way is nobody else's, and one that was given up is no circuit.
Owned ==
    /\ \A s \in Send : call[s].pc \in Pending =>
          /\ NoCircuit(call[s].id)
          /\ \A t \in Send \ {s} : call[t].first # call[s].id /\ call[t].id # call[s].id
    /\ \A s \in Send : call[s].first # NoId /\ call[s].id # call[s].first =>
          NoCircuit(call[s].first)

CallsWell == CallsBuilt /\ CircuitsBuilt /\ Listening /\ Owned

\* Something of circuit c is on channel k, or will answer over it.
Touched(k, c) ==
    \/ \E p \in Range(there[k]) : p.id = c
    \/ \E a \in Range(back[k]) : a.id = c
    \/ \E h \in Relay : via[<<h, c>>] = k

\* The inductive form of RetryApart, from the moment the second build dials.
Separate ==
    \A s \in Send : call[s].pc \in {"dial", "await"} /\ call[s].id # call[s].first =>
        ~Touched(call[s].chan, call[s].first)

IInv ==
    /\ TypeOK /\ Pooling /\ Quiet /\ Wires /\ CallsWell /\ Separate
    /\ GuardUp /\ WentThrough
-----------------------------------------------------------------------------
(* What is on the wires                                                     *)

\* A circuit that has hops keeps them.
PlanExtends == \A c \in Id : Hops(c) # <<>> => plan'[c] = plan[c]

LEMMA OnKept ==
    ASSUME PlanExtends, NEW c \in Id, NEW h, On(h, c)
    PROVE  On(h, c)'
<1>1. plan'[c] = plan[c]
  BY NoHops DEF PlanExtends
<1> QED
  BY <1>1 DEF On, Hops

LEMMA ToldKept ==
    ASSUME PlanExtends, told \subseteq told', NEW c \in Id, NEW h, On(h, c), ToldFrom(h, c)
    PROVE  ToldFrom(h, c)'
<1>1. plan'[c] = plan[c]
  BY NoHops DEF PlanExtends
<1> QED
  BY <1>1 DEF ToldFrom, Hops

LEMMA WireTyped ==
    ASSUME TypeOK, NEW l \in Link
    PROVE  /\ there[l] \in Seq(Packets) /\ \A p \in Range(there[l]) : p \in Packets /\ p.id \in Id
           /\ back[l] \in Seq(Answers) /\ \A a \in Range(back[l]) : a \in Answers /\ a.id \in Id
<1>1. there[l] \in Seq(Packets) /\ back[l] \in Seq(Answers)
  BY DEF TypeOK
<1>2. Range(there[l]) \subseteq Packets /\ Range(back[l]) \subseteq Answers
  BY <1>1, RangeOfSeq
<1> QED
  BY <1>1, <1>2 DEF Packets, Answers

\* Nothing new is written, and the channels that change are silent.
Shrinks ==
    /\ \A l \in Link : Range(there'[l]) \subseteq Range(there[l]) /\ Range(back'[l]) \subseteq Range(back[l])
    /\ \A x \in Relay \X Id : via'[x] \in {via[x], NoChan}
    /\ \A l \in HopLink : listening'[l] \subseteq listening[l]
    /\ told \subseteq told' /\ mixed \subseteq mixed'
    /\ PlanExtends
    /\ \A k \in Chan : to'[k] = to[k] \/ Silent(k)'

LEMMA WiresShrink ==
    ASSUME TypeOK, Wires, Shrinks
    PROVE  Wires'
<1>1. ASSUME NEW l \in Link, l \notin Chan PROVE At(l)' = At(l)
  BY <1>1 DEF At
<1>2. ASSUME NEW k \in Chan, ~Silent(k)' PROVE At(k)' = At(k)
  BY <1>2 DEF At, Shrinks
<1>3. Packed'
  <2> SUFFICES ASSUME NEW l \in Link, NEW p \in Range(there'[l]) PROVE On(At(l), p.id)'
    BY DEF Packed
  <2>1. p \in Range(there[l]) /\ p.id \in Id
    BY WireTyped DEF Shrinks
  <2>2. PICK h : h = At(l) /\ On(h, p.id)
    BY <2>1 DEF Wires, Packed
  <2>3. there'[l] # <<>>
    BY InEmpty
  <2>4. At(l)' = h
    BY <1>1, <1>2, <2>2, <2>3 DEF Silent
  <2>5. On(h, p.id)'
    BY <2>1, <2>2, OnKept DEF Shrinks
  <2> QED
    BY <2>4, <2>5
<1>4. AnswersTrue'
  <2> SUFFICES ASSUME NEW l \in Link, NEW a \in Range(back'[l])
               PROVE  (On(At(l), a.id) /\ (a.ready /\ a.id \notin mixed => ToldFrom(At(l), a.id)))'
    BY DEF AnswersTrue
  <2>1. a \in Range(back[l]) /\ a.id \in Id
    BY WireTyped DEF Shrinks
  <2>2. PICK h : h = At(l) /\ On(h, a.id) /\ (a.ready /\ a.id \notin mixed => ToldFrom(h, a.id))
    BY <2>1 DEF Wires, AnswersTrue
  <2>3. back'[l] # <<>>
    BY InEmpty
  <2>4. At(l)' = h
    BY <1>1, <1>2, <2>2, <2>3 DEF Silent
  <2>5. On(h, a.id)' /\ (a.ready /\ a.id \notin mixed' => ToldFrom(h, a.id)')
    BY <2>1, <2>2, OnKept, ToldKept DEF Shrinks
  <2> QED
    BY <2>4, <2>5
<1>5. ViaTrue'
  <2> SUFFICES ASSUME NEW h \in Relay, NEW c \in Id, via'[<<h, c>>] # NoChan
               PROVE  At(via[<<h, c>>])' = h /\ <<h, c>> \in told' /\ On(h, c)'
    BY DEF ViaTrue
  <2>1. PICK l : l = via'[<<h, c>>] /\ l = via[<<h, c>>]
    BY DEF Shrinks
  <2>2. l \in Link /\ At(l) = h /\ <<h, c>> \in told /\ On(h, c)
    BY <2>1 DEF Wires, ViaTrue, TypeOK
  <2>3. At(l)' = h
    BY <1>1, <1>2, <2>1, <2>2 DEF Silent
  <2>4. On(h, c)'
    BY <2>2, OnKept DEF Shrinks
  <2> QED
    BY <2>1, <2>2, <2>3, <2>4 DEF Shrinks
<1>6. Extending'
  <2> SUFFICES ASSUME NEW l \in HopLink, NEW c \in listening'[l]
               PROVE  \E i \in DOMAIN Hops(c)' :
                        i + 1 \in DOMAIN Hops(c)' /\ l = <<Hops(c)'[i], Hops(c)'[i + 1]>>
    BY DEF Extending
  <2>1. c \in listening[l] /\ c \in Id
    BY DEF Shrinks, TypeOK, Link
  <2>2. PICK i \in DOMAIN Hops(c) : i + 1 \in DOMAIN Hops(c) /\ l = <<Hops(c)[i], Hops(c)[i + 1]>>
    BY <2>1 DEF Wires, Extending
  <2>3. plan'[c] = plan[c]
    BY <2>1, <2>2 DEF Shrinks, PlanExtends
  <2> QED
    BY <2>2, <2>3 DEF Hops
<1> QED
  BY <1>3, <1>4, <1>5, <1>6 DEF Wires
\* What Cut leaves of the wires.
LEMMA CutWires ==
    ASSUME TypeOK, NEW L, Cut(L)
    PROVE  /\ there' \in [Link -> Seq(Packets)]
           /\ back' \in [Link -> Seq(Answers)]
           /\ via' \in [Relay \X Id -> Link \cup {NoChan}]
           /\ \A l \in Link : /\ there'[l] = IF l \in L THEN <<>> ELSE there[l]
                              /\ back'[l] = IF l \in L THEN <<>> ELSE back[l]
                              /\ Range(there'[l]) \subseteq Range(there[l])
                              /\ Range(back'[l]) \subseteq Range(back[l])
           /\ \A x \in Relay \X Id : via'[x] = IF via[x] \in L THEN NoChan ELSE via[x]
           /\ \A k \in Chan : k \in L \/ Silent(k) => Silent(k)'
<1>1. \A l \in Link : /\ there'[l] = IF l \in L THEN <<>> ELSE there[l]
                      /\ back'[l] = IF l \in L THEN <<>> ELSE back[l]
  BY DEF Cut
<1>2. \A x \in Relay \X Id : via'[x] = IF via[x] \in L THEN NoChan ELSE via[x]
  BY DEF Cut
<1>3. /\ there' \in [Link -> Seq(Packets)]
      /\ back' \in [Link -> Seq(Answers)]
      /\ via' \in [Relay \X Id -> Link \cup {NoChan}]
  BY InEmpty DEF Cut, TypeOK
<1>4. \A l \in Link : /\ Range(there'[l]) \subseteq Range(there[l])
                      /\ Range(back'[l]) \subseteq Range(back[l])
  BY <1>1, InEmpty
<1>5. ASSUME NEW k \in Chan, k \in L \/ Silent(k) PROVE Silent(k)'
  BY <1>1, <1>2, <1>5, PoolAssumption DEF Silent, Link
<1> QED
  BY <1>1, <1>2, <1>3, <1>4, <1>5

\* Leaving the wires alone cuts nothing.
LEMMA NoCut == ASSUME TypeOK, UNCHANGED wires PROVE Cut({})
BY DEF TypeOK, wires, Cut

LEMMA CutQuiet ==
    ASSUME TypeOK, Quiet, NEW L, Cut(L), \A k \in Chan : ~Live(k)' => ~Live(k) \/ k \in L
    PROVE  Quiet'
BY CutWires DEF Quiet

LEMMA CutShrinks ==
    ASSUME TypeOK, NEW L, Cut(L), PlanExtends,
           \A l \in HopLink : listening'[l] \subseteq listening[l],
           told \subseteq told', mixed \subseteq mixed',
           \A k \in Chan : to'[k] = to[k] \/ Silent(k)
    PROVE  Shrinks
BY CutWires DEF Shrinks

\* Channels other than k keep their address, and change only by being destroyed.
Others(k) ==
    \A x \in Chan \ {k} : /\ to'[x] = to[x]
                          /\ phase'[x] = phase[x] \/ (Live(x) /\ phase'[x] = "dying")

\* A closed channel is opened to r; the pool's entries of D are destroyed.
LEMMA Opening ==
    ASSUME TypeOK, Pooling, NEW r \in Relay, NEW k \in Chan, phase[k] = "closed", NEW D,
           pool' \in Opened(r, k), to' = [to EXCEPT ![k] = r],
           phase' = [Destroyed(D) EXCEPT ![k] = "dialing"]
    PROVE  PoolTypeOK' /\ Pooling' /\ Others(k) /\ to'[k] = r /\ phase'[k] = "dialing"
<1>1. Destroyed(D) \in [Chan -> Phases]
  BY DEF Destroyed, TypeOK, PoolTypeOK, Phases
<1>2. phase' \in [Chan -> Phases] /\ phase'[k] = "dialing"
  BY <1>1 DEF Phases
<1>3. \A x \in Chan \ {k} : phase'[x] = phase[x] \/ (Live(x) /\ phase'[x] = "dying")
  BY <1>1 DEF Destroyed
<1>4. to' \in [Chan -> Relay] /\ to'[k] = r /\ \A x \in Chan \ {k} : to'[x] = to[x]
  BY DEF TypeOK, PoolTypeOK
<1>5. /\ pool' \in [Relay -> Chan \cup {NoChan}] /\ pool'[r] = k
      /\ \A q \in Relay \ {r} : pool'[q] \in {pool[q], NoChan}
  <2>1. pool \in [Relay -> Chan \cup {NoChan}]
    BY DEF TypeOK, PoolTypeOK
  <2>2. \/ pool' = [pool EXCEPT ![r] = k]
        \/ \E e \in Relay : pool' = [pool EXCEPT ![e] = NoChan, ![r] = k]
    BY DEF Opened, Pooled
  <2>3. CASE pool' = [pool EXCEPT ![r] = k]
    BY <2>1, <2>3
  <2>4. ASSUME NEW e \in Relay, pool' = [pool EXCEPT ![e] = NoChan, ![r] = k]
        PROVE  /\ pool' \in [Relay -> Chan \cup {NoChan}] /\ pool'[r] = k
               /\ \A q \in Relay \ {r} : pool'[q] \in {pool[q], NoChan}
    BY <2>1, <2>4
  <2> QED
    BY <2>2, <2>3, <2>4
<1>6. Pooling'
  <2> SUFFICES ASSUME NEW q \in Relay, pool'[q] # NoChan
               PROVE  to'[pool'[q]] = q /\ phase'[pool'[q]] # "closed"
    BY DEF Pooling
  <2>1. CASE q = r
    BY <2>1, <1>2, <1>4, <1>5
  <2>2. CASE q # r
    <3>1. pool'[q] = pool[q] /\ pool[q] \in Chan
      BY <2>2, <1>5 DEF TypeOK, PoolTypeOK
    <3>2. to[pool[q]] = q /\ phase[pool[q]] # "closed"
      BY <3>1 DEF Pooling
    <3> QED
      BY <3>1, <3>2, <1>3, <1>4
  <2> QED
    BY <2>1, <2>2
<1> QED
  BY <1>2, <1>3, <1>4, <1>5, <1>6 DEF PoolTypeOK, Others

LEMMA FreeClosed ==
    ASSUME NEW k, NewChannel(k)
    PROVE  k \in Chan /\ phase[k] = "closed" /\ listening[k] = {} /\ \A s \in Send : call[s].chan # k
<1>1. k \in Free
  BY DEF NewChannel
<1> QED
  BY <1>1 DEF Free

\* What a call may rely on after it opened channel k, or found it in the pool.
Gets(r, k) ==
    /\ PoolTypeOK' /\ Pooling' /\ Quiet' /\ Others(k)
    /\ to'[k] = r /\ Live(k)'
    /\ \/ to[k] = r /\ phase'[k] = phase[k]
       \/ phase[k] = "closed" /\ \A s \in Send : call[s].chan # k

LEMMA OpeningGets ==
    ASSUME TypeOK, Pooling, Quiet, NEW r \in Relay, NEW k \in Chan, NewChannel(k), NEW D,
           pool' \in Opened(r, k), to' = [to EXCEPT ![k] = r],
           phase' = [Destroyed(D) EXCEPT ![k] = "dialing"],
           Cut({x \in Chan : phase'[x] = "dying"})
    PROVE  Gets(r, k)
<1>1. phase[k] = "closed" /\ \A s \in Send : call[s].chan # k
  BY FreeClosed
<1>2. PoolTypeOK' /\ Pooling' /\ Others(k) /\ to'[k] = r /\ phase'[k] = "dialing"
  BY <1>1, Opening
<1>3. Live(k)'
  BY <1>2, PoolAssumption DEF Live
<1>4. ASSUME NEW x \in Chan, ~Live(x)' PROVE ~Live(x) \/ x \in {y \in Chan : phase'[y] = "dying"}
  BY <1>2, <1>3, <1>4, PoolAssumption DEF Live, Others
<1>5. Quiet'
  BY <1>4, CutQuiet
<1> QED
  BY <1>1, <1>2, <1>3, <1>5 DEF Gets

LEMMA Taken ==
    ASSUME TypeOK, Pooling, Quiet, NEW r \in Relay, NEW k \in Chan, NEW C \in SUBSET Id,
           GetChannel(C, r, k)
    PROVE  Gets(r, k) /\ circuits' \subseteq C /\ \E L : Cut(L)
<1>1. CASE k = pool[r] /\ Live(k) /\ circuits' = C /\ UNCHANGED <<poolVars, wires>>
  <2>1. Cut({})
    BY <1>1, NoCut
  <2>2. Quiet'
    BY <1>1 DEF Quiet, Silent, Live, poolVars, wires
  <2>3. PoolTypeOK' /\ Pooling' /\ Others(k) /\ Live(k)'
    BY <1>1 DEF TypeOK, PoolTypeOK, Pooling, Others, Live, poolVars
  <2>4. to'[k] = r /\ to[k] = r /\ phase'[k] = phase[k]
    BY <1>1 DEF Pooling, Live, poolVars
  <2> QED
    BY <1>1, <2>1, <2>2, <2>3, <2>4 DEF Gets
<1>2. CASE NewChannel(k) /\ Dial(r, k) /\ circuits' = Evicted(C)
           /\ Cut({x \in Chan : phase'[x] = "dying"})
  <2>1. circuits' \subseteq C
    BY <1>2 DEF Evicted, Without
  <2>2. Gets(r, k)
    BY <1>2, OpeningGets DEF Dial
  <2> QED
    BY <1>2, <2>1, <2>2
<1> QED
  BY <1>1, <1>2 DEF GetChannel

\* Taking a channel writes nothing.
LEMMA GetsShrinks ==
    ASSUME TypeOK, Quiet, NEW r \in Relay, NEW k \in Chan, Gets(r, k), NEW L, Cut(L),
           PlanExtends, UNCHANGED hopVars
    PROVE  Shrinks
<1>1. \A x \in Chan : to'[x] = to[x] \/ Silent(x)
  BY DEF Gets, Others, Quiet, Live
<1>2. /\ \A l \in HopLink : listening'[l] \subseteq listening[l]
      /\ told \subseteq told' /\ mixed \subseteq mixed'
  BY DEF hopVars, history
<1> QED
  BY <1>1, <1>2, CutShrinks
-----------------------------------------------------------------------------
(* What most steps leave as it is                                           *)

LEMMA GuardStays ==
    ASSUME TypeOK, CircuitsBuilt, GuardUp, PlanExtends, circuits' \subseteq circuits,
           \A x \in Chan : phase[x] # "closed" => phase'[x] # "closed" /\ to'[x] = to[x]
    PROVE  GuardUp'
<1> SUFFICES ASSUME NEW c \in circuits'
             PROVE  \E k \in Chan : to'[k] = Hops(c)'[1] /\ phase'[k] # "closed"
  BY DEF GuardUp
<1>1. c \in circuits /\ c \in Id /\ Hops(c) # <<>>
  BY DEF TypeOK, CircuitsBuilt
<1>2. Hops(c)' = Hops(c)
  BY <1>1 DEF PlanExtends, Hops
<1> QED
  BY <1>1, <1>2 DEF GuardUp

LEMMA ToldStays ==
    ASSUME TypeOK, CircuitsBuilt, WentThrough, PlanExtends, circuits' \subseteq circuits,
           told \subseteq told', mixed \subseteq mixed'
    PROVE  WentThrough'
<1> SUFFICES ASSUME NEW c \in circuits', c \notin mixed', NEW h \in Range(Hops(c)')
             PROVE  <<h, c>> \in told'
  BY DEF WentThrough
<1>1. c \in circuits /\ c \in Id /\ Hops(c) # <<>>
  BY DEF TypeOK, CircuitsBuilt
<1>2. Hops(c)' = Hops(c)
  BY <1>1 DEF PlanExtends, Hops
<1> QED
  BY <1>1, <1>2 DEF WentThrough

LEMMA CallsStay ==
    ASSUME CallsWell, call' = call, plan' = plan, circuits' \subseteq circuits,
           \A k \in Chan : listening'[k] = listening[k], to' = to
    PROVE  CallsWell'
<1>1. CallsBuilt' /\ CircuitsBuilt'
  BY DEF CallsWell, CallsBuilt, CallBuilt, CircuitsBuilt, Hops
<1>2. Listening'
  BY DEF CallsWell, Listening
<1>3. Owned'
  BY DEF CallsWell, Owned, NoCircuit
<1> QED
  BY <1>1, <1>2, <1>3 DEF CallsWell

LEMMA PlanStays == ASSUME plan' = plan PROVE PlanExtends
BY DEF PlanExtends

\* A call's channel and ids.
LEMMA CallTyped ==
    ASSUME TypeOK, CallsWell, NEW s \in Send
    PROVE  /\ call[s].pc \in {"idle", "dial", "await", "failed", "cell", "write", "sent", "thrown"}
           /\ call[s] = [pc |-> call[s].pc, id |-> call[s].id, first |-> call[s].first, chan |-> call[s].chan]
           /\ call[s].chan \in Chan \cup {NoChan}
           /\ call[s].id \in Id \cup {NoId} /\ call[s].first \in Id \cup {NoId}
           /\ call[s].id # NoId => call[s].id \in Id /\ Hops(call[s].id) # <<>>
           /\ call[s].first # NoId => call[s].first \in Id /\ Hops(call[s].first) # <<>>
           /\ call[s].pc \in Pending \cup {"cell", "write"} => call[s].id \in Id
           /\ call[s].pc \in Pending => call[s].first \in Id
           /\ call[s].pc \in {"dial", "await", "write"} =>
                call[s].chan \in Chan /\ to[call[s].chan] = Hops(call[s].id)[1]
<1>1. call[s] \in Calls
  BY DEF TypeOK
<1> QED
  BY <1>1 DEF Calls, CallsWell, CallsBuilt, CallBuilt

LEMMA TouchedShrinks ==
    ASSUME Shrinks, NEW k \in Chan, NEW c \in Id, Touched(k, c)'
    PROVE  Touched(k, c)
<1>1. k \in Link /\ k # NoChan
  BY PoolAssumption DEF Link
<1>2. Range(there'[k]) \subseteq Range(there[k]) /\ Range(back'[k]) \subseteq Range(back[k])
  BY <1>1 DEF Shrinks
<1>3. ASSUME NEW h \in Relay, via'[<<h, c>>] = k PROVE via[<<h, c>>] = k
  BY <1>1, <1>3 DEF Shrinks
<1> QED
  BY <1>2, <1>3 DEF Touched

LEMMA SeparateStays ==
    ASSUME TypeOK, CallsWell, Separate, call' = call,
           \A k \in Chan : \A c \in Id : Touched(k, c)' => Touched(k, c)
    PROVE  Separate'
<1> SUFFICES ASSUME NEW s \in Send, call[s].pc \in {"dial", "await"}, call[s].id # call[s].first
             PROVE  ~Touched(call[s].chan, call[s].first)'
  BY DEF Separate
<1>1. PICK k \in Chan, c \in Id : k = call[s].chan /\ c = call[s].first
  BY CallTyped DEF Pending
<1>2. ~Touched(k, c)
  BY <1>1 DEF Separate
<1>3. ~Touched(k, c)'
  BY <1>2
<1> QED
  BY <1>1, <1>3

\* Steps of channels and hops that write nothing.
LEMMA ShrinkingStep ==
    ASSUME IInv, TypeOK', Pooling', Quiet', Shrinks, call' = call, plan' = plan, to' = to,
           circuits' \subseteq circuits,
           \A k \in Chan : listening'[k] = listening[k],
           GuardUp'
    PROVE  IInv'
<1>1. Wires'
  BY WiresShrink DEF IInv
<1>2. CallsWell'
  BY CallsStay DEF IInv
<1>3. Separate'
  BY TouchedShrinks, SeparateStays DEF IInv
<1>4. WentThrough'
  BY ToldStays DEF IInv, Shrinks, CallsWell
<1> QED
  BY <1>1, <1>2, <1>3, <1>4 DEF IInv
-----------------------------------------------------------------------------
(* Channels that end, and hops that fail                                    *)

LEMMA HandshakeStep ==
    ASSUME IInv, NEW k \in Chan, HandshakeDone(k)
    PROVE  IInv'
<1>1. /\ phase[k] = "dialing" /\ phase' = [phase EXCEPT ![k] = "ready"]
      /\ UNCHANGED <<to, pool, call, circuits, plan, wires, hopVars, faults>>
  BY DEF HandshakeDone, Ready
<1>2. TypeOK'
  BY <1>1 DEF IInv, TypeOK, PoolTypeOK, Phases, wires, hopVars, history
<1>3. \A x \in Chan : /\ phase[x] # "closed" <=> phase'[x] # "closed"
                      /\ Live(x) <=> Live(x)'
  BY <1>1 DEF IInv, TypeOK, PoolTypeOK, Phases, Live
<1>4. Pooling'
  BY <1>1, <1>3 DEF IInv, Pooling, TypeOK, PoolTypeOK
<1>5. Cut({})
  BY <1>1, NoCut DEF IInv
<1>6. Quiet'
  BY <1>3, <1>5, CutQuiet DEF IInv
<1>7. Shrinks
  BY <1>1, <1>5, CutShrinks, PlanStays DEF IInv, hopVars, history
<1>8. GuardUp'
  BY <1>1, <1>3, GuardStays, PlanStays DEF IInv, CallsWell
<1> QED
  BY <1>1, <1>2, <1>4, <1>6, <1>7, <1>8, ShrinkingStep DEF hopVars

LEMMA BreakStep ==
    ASSUME IInv, NEW k \in Chan, DialBreaks(k) \/ ChannelBreaks(k)
    PROVE  IInv'
<1>1. /\ Live(k) /\ phase' = [phase EXCEPT ![k] = "dying"]
      /\ pool' \in {pool, [pool EXCEPT ![to[k]] = NoChan]}
      /\ Cut({k})
      /\ circuits' \subseteq circuits
      /\ UNCHANGED <<to, call, plan, hopVars>>
      /\ faults' \in 0 .. MaxFaults
  BY CircuitsAssumption
  DEF DialBreaks, ChannelBreaks, Breaks, Break, Fault, Without, IInv, TypeOK
<1>2. /\ phase \in [Chan -> Phases] /\ to \in [Chan -> Relay]
      /\ pool \in [Relay -> Chan \cup {NoChan}]
  BY DEF IInv, TypeOK, PoolTypeOK
<1>3. /\ phase' \in [Chan -> Phases] /\ phase'[k] = "dying"
      /\ \A x \in Chan \ {k} : phase'[x] = phase[x]
  BY <1>2, <1>1 DEF Phases
<1>4. /\ pool' \in [Relay -> Chan \cup {NoChan}]
      /\ \A r \in Relay : pool'[r] \in {pool[r], NoChan}
  <2>1. CASE pool' = pool
    BY <1>2, <2>1
  <2>2. CASE pool' = [pool EXCEPT ![to[k]] = NoChan]
    BY <1>2, <2>2
  <2> QED
    BY <1>1, <2>1, <2>2
<1>5. TypeOK'
  <2>1. TypeOK /\ PoolTypeOK'
    BY <1>2, <1>1, <1>3, <1>4 DEF IInv, PoolTypeOK
  <2>2. /\ there' \in [Link -> Seq(Packets)]
        /\ back' \in [Link -> Seq(Answers)]
        /\ via' \in [Relay \X Id -> Link \cup {NoChan}]
    BY <1>1, <2>1, CutWires
  <2> QED
    BY <1>1, <2>1, <2>2 DEF TypeOK, hopVars, history
<1>6. \A x \in Chan : /\ phase[x] # "closed" => phase'[x] # "closed"
                      /\ ~Live(x)' => ~Live(x) \/ x \in {k}
  BY <1>3 DEF Live
<1>7. Pooling'
  <2> SUFFICES ASSUME NEW r \in Relay, pool'[r] # NoChan
               PROVE  to'[pool'[r]] = r /\ phase'[pool'[r]] # "closed"
    BY DEF Pooling
  <2>1. pool'[r] = pool[r] /\ pool[r] \in Chan
    BY <1>2, <1>4
  <2>2. to[pool[r]] = r /\ phase[pool[r]] # "closed"
    BY <2>1 DEF IInv, Pooling
  <2> QED
    BY <1>1, <1>6, <2>1, <2>2
<1>8. Quiet'
  BY <1>1, <1>6, CutQuiet DEF IInv
<1>9. Shrinks
  BY <1>1, CutShrinks, PlanStays DEF IInv, hopVars, history
<1>10. GuardUp'
  BY <1>1, <1>6, GuardStays, PlanStays DEF IInv, CallsWell
<1> QED
  BY <1>1, <1>5, <1>7, <1>8, <1>9, <1>10, ShrinkingStep DEF hopVars

\* The circuits over the address of a channel go with it.
LEMMA CloseStep ==
    ASSUME IInv, NEW k \in Chan, CloseEvent(k)
    PROVE  IInv'
<1>1. /\ phase[k] = "dying" /\ phase' = [phase EXCEPT ![k] = "closed"]
      /\ pool' = [pool EXCEPT ![to[k]] = NoChan]
      /\ circuits' = Without(circuits, {to[k]})
      /\ UNCHANGED <<to, call, plan, wires, hopVars, faults>>
  BY DEF CloseEvent, Forget
<1>2. TypeOK'
  BY <1>1 DEF IInv, TypeOK, PoolTypeOK, Phases, wires, hopVars, history, Without
<1>3. /\ \A x \in Chan : Live(x) => Live(x)'
      /\ \A x \in Chan \ {k} : phase'[x] = phase[x]
  BY <1>1 DEF IInv, TypeOK, PoolTypeOK, Phases, Live
<1>4. Pooling'
  BY <1>1, <1>3 DEF IInv, Pooling, TypeOK, PoolTypeOK
<1>5. Cut({})
  BY <1>1, NoCut DEF IInv
<1>6. Quiet'
  BY <1>3, <1>5, CutQuiet DEF IInv
<1>7. Shrinks
  BY <1>1, <1>5, CutShrinks, PlanStays DEF IInv, hopVars, history
<1>8. GuardUp'
  <2> SUFFICES ASSUME NEW c \in circuits'
               PROVE  \E x \in Chan : to'[x] = Hops(c)'[1] /\ phase'[x] # "closed"
    BY DEF GuardUp
  <2>1. c \in circuits /\ Range(Hops(c)) \cap {to[k]} = {} /\ c \in Id /\ Hops(c) # <<>>
    BY <1>1 DEF Without, IInv, TypeOK, CallsWell, CircuitsBuilt
  <2>2. Hops(c)[1] # to[k]
    BY <2>1, HopsTyped DEF Range, IInv
  <2>3. PICK x \in Chan : to[x] = Hops(c)[1] /\ phase[x] # "closed"
    BY <2>1 DEF IInv, GuardUp
  <2> QED
    BY <1>1, <1>3, <2>2, <2>3 DEF Hops
<1> QED
  BY <1>1, <1>2, <1>4, <1>6, <1>7, <1>8, ShrinkingStep DEF hopVars, Without

LEMMA DropCellStep ==
    ASSUME IInv, NEW l \in Link, DropCell(l)
    PROVE  IInv'
<1>1. /\ there[l] # <<>> /\ there' = [there EXCEPT ![l] = Tail(@)]
      /\ swallowed' \subseteq swallowed \cup saved
      /\ UNCHANGED <<poolVars, call, circuits, plan, back, via, listening, saved, told, mixed, faults>>
  BY DEF DropCell, Arrives
<1>2. there[l] \in Seq(Packets)
  BY DEF IInv, TypeOK
<1>3. Tail(there[l]) \in Seq(Packets) /\ Range(Tail(there[l])) \subseteq Range(there[l])
  BY <1>1, <1>2, InTail
<1>4. TypeOK'
  BY <1>1, <1>3 DEF IInv, TypeOK, PoolTypeOK, poolVars
<1>5. /\ \A x \in Link : Range(there'[x]) \subseteq Range(there[x])
      /\ \A x \in Link \ {l} : there'[x] = there[x]
  BY <1>1, <1>3 DEF IInv, TypeOK
<1>6. Pooling' /\ GuardUp'
  BY <1>1 DEF IInv, Pooling, GuardUp, poolVars, Hops
<1>7. Quiet'
  <2> SUFFICES ASSUME NEW k \in Chan, ~Live(k) PROVE Silent(k)'
    BY <1>1 DEF Quiet, Live, poolVars
  <2>1. Silent(k) /\ k # l
    BY <1>1 DEF IInv, Quiet, Silent
  <2> QED
    BY <1>1, <1>5, <2>1 DEF Silent, Link
<1>8. Shrinks
  BY <1>1, <1>5, PlanStays DEF Shrinks, poolVars, IInv, TypeOK
<1> QED
  BY <1>1, <1>4, <1>6, <1>7, <1>8, ShrinkingStep DEF poolVars

LEMMA LinkBreakStep ==
    ASSUME IInv, NEW l \in HopLink, HopLinkBreaks(l)
    PROVE  IInv'
<1>1. /\ Cut({l}) /\ faults' \in 0 .. MaxFaults
      /\ UNCHANGED <<poolVars, call, circuits, plan, hopVars>>
  BY CircuitsAssumption DEF HopLinkBreaks, Fault, IInv, TypeOK
<1>2. TypeOK'
  BY <1>1, CutWires DEF IInv, TypeOK, PoolTypeOK, poolVars, hopVars, history
<1>3. Pooling' /\ GuardUp'
  BY <1>1 DEF IInv, Pooling, GuardUp, poolVars, Hops
<1>4. Quiet'
  BY <1>1, CutQuiet DEF IInv, Live, poolVars
<1>5. Shrinks
  BY <1>1, CutShrinks, PlanStays DEF IInv, hopVars, history, poolVars
<1> QED
  BY <1>1, <1>2, <1>3, <1>4, <1>5, ShrinkingStep DEF poolVars, hopVars

LEMMA RestartStep ==
    ASSUME IInv, NEW h \in Relay, RestartHop(h)
    PROVE  IInv'
<1> DEFINE L == {x \in HopLink : h \in {x[1], x[2]}} \cup {k \in Chan : to[k] = h}
<1>1. /\ phase' = Destroyed({k \in Chan : to[k] = h}) /\ Cut(L)
      /\ saved' \subseteq saved
      /\ listening' = [x \in Link |-> IF x \in HopLink /\ x[1] = h THEN {} ELSE listening[x]]
      /\ UNCHANGED <<to, pool, call, circuits, plan, history>>
      /\ faults' \in 0 .. MaxFaults
  BY CircuitsAssumption DEF RestartHop, Fault, IInv, TypeOK
<1>2. \A k \in Chan : /\ phase'[k] \in Phases
                      /\ phase[k] # "closed" <=> phase'[k] # "closed"
                      /\ ~Live(k)' => ~Live(k) \/ k \in L
  BY <1>1 DEF Destroyed, Live, IInv, TypeOK, PoolTypeOK, Phases
<1> HIDE DEF L
<1>3. phase' \in [Chan -> Phases]
  BY <1>1, <1>2 DEF Destroyed
<1>4. TypeOK'
  BY <1>1, <1>3, CutWires DEF IInv, TypeOK, PoolTypeOK, history
<1>5. Pooling'
  BY <1>1, <1>2 DEF IInv, Pooling, TypeOK, PoolTypeOK
<1>6. Quiet'
  BY <1>1, <1>2, CutQuiet DEF IInv
<1>7. /\ \A x \in HopLink : listening'[x] \subseteq listening[x]
      /\ \A k \in Chan : listening'[k] = listening[k]
  BY <1>1, HopLinkTyped DEF Link
<1>8. Shrinks
  BY <1>1, <1>7, CutShrinks, PlanStays DEF IInv, history
<1>9. GuardUp'
  BY <1>1, <1>2, GuardStays, PlanStays DEF IInv, CallsWell
<1> QED
  BY <1>1, <1>4, <1>5, <1>6, <1>7, <1>8, <1>9, ShrinkingStep

LEMMA ExpireStep ==
    ASSUME IInv, NEW c \in Id, Expire(c)
    PROVE  IInv'
<1>1. circuits' \subseteq circuits /\ UNCHANGED <<poolVars, call, plan, wires, hopVars, faults>>
  BY DEF Expire
<1>2. TypeOK' /\ Pooling' /\ Quiet'
  BY <1>1
  DEF IInv, TypeOK, PoolTypeOK, Pooling, Quiet, Silent, Live, poolVars, wires, hopVars, history
<1>3. GuardUp'
  BY <1>1 DEF IInv, GuardUp, Hops, poolVars
<1>4. Cut({})
  BY <1>1, NoCut DEF IInv
<1>5. Shrinks
  BY <1>1, <1>4, CutShrinks, PlanStays DEF IInv, hopVars, history, poolVars
<1> QED
  BY <1>1, <1>2, <1>3, <1>5, ShrinkingStep DEF poolVars, hopVars
-----------------------------------------------------------------------------
(* Calls                                                                    *)

Fresh(c) == c \in Id /\ Hops(c) = <<>>

\* One call moves, which takes no other's id for its own.
Moves(s) ==
    LET p == call[s]  q == call'[s] IN
    /\ \A t \in Send \ {s} : call'[t] = call[t]
    /\ q.id = p.id \/ q.id \in circuits \/ Fresh(q.id)
    /\ q.first = p.first \/ Fresh(q.first)
    /\ q.id = p.id /\ q.pc \in {"cell", "write"} => p.pc \in {"cell", "write"}
    /\ q.pc \in Pending => (q.id = p.id /\ p.pc \in Pending) \/ Fresh(q.id)
    /\ q.first # NoId /\ q.id # q.first =>
          q.first = p.first /\ (q.id = p.id \/ (p.id = p.first /\ p.pc \in Pending))

LEMMA MovesOwned ==
    ASSUME TypeOK, CallsWell, NEW s \in Send, Moves(s), circuits' \subseteq circuits
    PROVE  Owned'
<1>1. /\ \A c \in circuits : ~Fresh(c)
      /\ \A t \in Send : ~Fresh(call[t].id) /\ ~Fresh(call[t].first)
  BY CallTyped, CircuitsAssumption DEF Fresh, CallsWell, CircuitsBuilt
<1>2. ASSUME NEW t \in Send, call'[t].pc \in Pending
      PROVE  /\ NoCircuit(call[t].id)'
             /\ \A u \in Send \ {t} : call'[u].first # call'[t].id /\ call'[u].id # call'[t].id
  <2>1. CASE t # s
    <3>1. call'[t] = call[t]
      BY <2>1 DEF Moves
    <3>2. /\ call[t].id \notin circuits
          /\ \A u \in Send : call[u].id = call[t].id => call[u].pc \notin {"cell", "write"}
          /\ \A u \in Send \ {t} : call[u].first # call[t].id /\ call[u].id # call[t].id
      BY <1>2, <3>1 DEF CallsWell, Owned, NoCircuit
    <3>3. call'[s].first # call[t].id /\ call'[s].id # call[t].id
      BY <1>1, <2>1, <3>2 DEF Moves
    <3>4. \A u \in Send : call'[u].id = call[t].id => call'[u].pc \notin {"cell", "write"}
      BY <3>2, <3>3 DEF Moves
    <3>5. \A u \in Send \ {t} : call'[u].first # call[t].id /\ call'[u].id # call[t].id
      BY <3>2, <3>3 DEF Moves
    <3> QED
      BY <3>1, <3>2, <3>4, <3>5 DEF NoCircuit
  <2>2. CASE t = s
    <3>1. /\ call'[s].id \notin circuits
          /\ \A u \in Send \ {s} : call[u].first # call'[s].id /\ call[u].id # call'[s].id
      <4>1. CASE call'[s].id = call[s].id /\ call[s].pc \in Pending
        BY <4>1 DEF CallsWell, Owned, NoCircuit
      <4>2. CASE Fresh(call'[s].id)
        BY <1>1, <4>2
      <4> QED
        BY <1>2, <2>2, <4>1, <4>2 DEF Moves
    <3>2. \A u \in Send \ {s} : call'[u].first # call'[s].id /\ call'[u].id # call'[s].id
      BY <3>1 DEF Moves
    <3>3. call'[s].pc \notin {"cell", "write"}
      BY <1>2, <2>2 DEF Pending
    <3> QED
      BY <2>2, <3>1, <3>2, <3>3 DEF NoCircuit
  <2> QED
    BY <2>1, <2>2
<1>3. ASSUME NEW t \in Send, call'[t].first # NoId, call'[t].id # call'[t].first
      PROVE  NoCircuit(call[t].first)'
  <2>1. CASE t # s
    <3>1. call'[t] = call[t]
      BY <2>1 DEF Moves
    <3>2. /\ call[t].first \notin circuits
          /\ \A u \in Send : call[u].id = call[t].first => call[u].pc \notin {"cell", "write"}
      BY <1>3, <3>1 DEF CallsWell, Owned, NoCircuit
    <3>3. call'[s].id = call[t].first => call'[s].pc \notin {"cell", "write"}
      BY <1>1, <3>2 DEF Moves
    <3> QED
      BY <3>1, <3>2, <3>3 DEF NoCircuit, Moves
  <2>2. CASE t = s
    <3>1. call'[s].first = call[s].first /\ call[s].first \notin circuits
      BY <1>3, <2>2 DEF Moves, CallsWell, Owned, NoCircuit
    <3>2. \A u \in Send \ {s} : call[u].id = call[s].first => call[u].pc \notin {"cell", "write"}
      BY <1>3, <2>2 DEF Moves, CallsWell, Owned, NoCircuit
    <3> QED
      BY <1>3, <2>2, <3>1, <3>2 DEF NoCircuit, Moves
  <2> QED
    BY <2>1, <2>2
<1> QED
  BY <1>2, <1>3 DEF Owned

LEMMA MovesBuilt ==
    ASSUME TypeOK, CallsWell, NEW s \in Send, Moves(s), circuits' \subseteq circuits,
           PlanExtends, CallBuilt(s)',
           \A t \in Send \ {s} : call[t].pc \in {"dial", "await", "write"} =>
                                    to'[call[t].chan] = to[call[t].chan]
    PROVE  CallsBuilt' /\ CircuitsBuilt'
<1>1. ASSUME NEW t \in Send \ {s} PROVE CallBuilt(t)'
  <2>1. call'[t] = call[t] /\ CallBuilt(t)
    BY DEF Moves, CallsWell, CallsBuilt
  <2>2. /\ call[t].id # NoId => plan'[call[t].id] = plan[call[t].id]
        /\ call[t].first # NoId => plan'[call[t].first] = plan[call[t].first]
    BY CallTyped DEF PlanExtends
  <2> QED
    BY <2>1, <2>2 DEF CallBuilt, Hops, Pending
<1>2. CircuitsBuilt'
  BY DEF CallsWell, CircuitsBuilt, PlanExtends, Hops, TypeOK
<1> QED
  BY <1>1, <1>2 DEF CallsBuilt

\* The channel of another call stays as it is when s takes channel k.
LEMMA OthersChannels ==
    ASSUME TypeOK, CallsWell, NEW r \in Relay, NEW k \in Chan, Gets(r, k)
    PROVE  \A t \in Send : call[t].pc \in {"dial", "await", "write"} =>
              to'[call[t].chan] = to[call[t].chan]
BY CallTyped DEF Gets, Others

LEMMA SeparateMoves ==
    ASSUME TypeOK, CallsWell, Separate, Shrinks, NEW s \in Send, Moves(s),
           (call[s].pc \in {"dial", "await"} /\ call[s].id # call[s].first
               => ~Touched(call[s].chan, call[s].first))'
    PROVE  Separate'
<1> SUFFICES ASSUME NEW t \in Send \ {s},
                    call[t].pc \in {"dial", "await"}, call[t].id # call[t].first
             PROVE  ~Touched(call[t].chan, call[t].first)'
  BY DEF Separate, Moves
<1>1. PICK k \in Chan, c \in Id : k = call[t].chan /\ c = call[t].first
  BY CallTyped DEF Pending
<1>2. ~Touched(k, c)
  BY <1>1 DEF Separate
<1>3. ~Touched(k, c)'
  BY <1>2, TouchedShrinks
<1> QED
  BY <1>1, <1>3 DEF Moves

\* Where no call starts or stops waiting, the builds that listen are the same.
LEMMA ListeningStays ==
    ASSUME CallsWell, \A k \in Chan : listening'[k] = listening[k],
           NEW s \in Send, Moves(s), call[s].pc # "await", call'[s].pc # "await"
    PROVE  Listening'
<1>1. \A t \in Send : call'[t].pc = "await" \/ call[t].pc = "await" => call'[t] = call[t]
  BY DEF Moves
<1> QED
  BY <1>1 DEF CallsWell, Listening

\* A step of a call that writes nothing.
LEMMA MovingStep ==
    ASSUME IInv, TypeOK', Pooling', Quiet', Shrinks, NEW s \in Send, Moves(s),
           circuits' \subseteq circuits, CallBuilt(s)', Listening', GuardUp',
           \A t \in Send \ {s} : call[t].pc \in {"dial", "await", "write"} =>
                                    to'[call[t].chan] = to[call[t].chan],
           (call[s].pc \in {"dial", "await"} /\ call[s].id # call[s].first
               => ~Touched(call[s].chan, call[s].first))'
    PROVE  IInv'
<1>1. Wires'
  BY WiresShrink DEF IInv
<1>2. CallsWell'
  BY MovesOwned, MovesBuilt DEF IInv, Shrinks, CallsWell
<1>3. Separate'
  BY SeparateMoves DEF IInv
<1>4. WentThrough'
  BY ToldStays DEF IInv, Shrinks, CallsWell
<1> QED
  BY <1>1, <1>2, <1>3, <1>4 DEF IInv
LEMMA StillStep ==
    ASSUME IInv, UNCHANGED <<poolVars, plan, wires, told, mixed>>, circuits' \subseteq circuits,
           \A l \in HopLink : listening'[l] = listening[l]
    PROVE  Pooling' /\ Quiet' /\ Shrinks /\ GuardUp' /\ to' = to
<1>1. Pooling' /\ Quiet'
  BY DEF IInv, Pooling, Quiet, Silent, Live, poolVars, wires
<1>2. GuardUp'
  BY DEF IInv, GuardUp, Hops, poolVars
<1>3. Cut({})
  BY NoCut DEF IInv
<1>4. Shrinks
  BY <1>3, CutShrinks, PlanStays DEF IInv, poolVars
<1> QED
  BY <1>1, <1>2, <1>4 DEF poolVars

LEMMA FieldTyped ==
    ASSUME NEW r \in Calls
    PROVE  /\ \A x \in {"idle", "dial", "await", "failed", "cell", "write", "sent", "thrown"} :
                [r EXCEPT !.pc = x] \in Calls
           /\ \A c \in Id \cup {NoId} : [r EXCEPT !.id = c] \in Calls /\ [r EXCEPT !.first = c] \in Calls
           /\ \A k \in Chan \cup {NoChan} : [r EXCEPT !.chan = k] \in Calls
BY DEF Calls

LEMMA ReuseStep ==
    ASSUME IInv, NEW s \in Send, Reuse(s)
    PROVE  IInv'
<1>1. PICK c \in circuits : call' = [call EXCEPT ![s].pc = "cell", ![s].id = c]
  BY DEF Reuse, Active
<1>2. call[s].pc = "idle" /\ UNCHANGED <<poolVars, circuits, plan, wires, hopVars, faults>>
  BY DEF Reuse
<1>3. c \in Id /\ Hops(c) # <<>> /\ c # NoId
  BY CircuitsAssumption DEF IInv, TypeOK, CallsWell, CircuitsBuilt
<1>4. /\ call'[s].pc = "cell" /\ call'[s].id = c /\ call'[s].first = call[s].first
      /\ \A t \in Send \ {s} : call'[t] = call[t]
  BY <1>1 DEF IInv, TypeOK, Calls
<1>5. call[s].first = NoId /\ call[s].id = NoId
  BY <1>2 DEF IInv, CallsWell, CallsBuilt, CallBuilt
<1>6. call' \in [Send -> Calls]
  <2>1. call[s] \in Calls
    BY DEF IInv, TypeOK
  <2>2. [[call[s] EXCEPT !.pc = "cell"] EXCEPT !.id = c] \in Calls
    BY <1>3, <2>1, FieldTyped
  <2>3. call' = [call EXCEPT ![s] = [[call[s] EXCEPT !.pc = "cell"] EXCEPT !.id = c]]
    BY <1>1 DEF IInv, TypeOK
  <2> QED
    BY <2>2, <2>3 DEF IInv, TypeOK
<1>7. TypeOK'
  BY <1>2, <1>6 DEF IInv, TypeOK, PoolTypeOK, poolVars, wires, hopVars, history
<1>8. Moves(s)
  BY <1>3, <1>4, <1>5 DEF Moves, Pending
<1>9. CallBuilt(s)'
  BY <1>2, <1>3, <1>4, <1>5 DEF CallBuilt, Hops, Pending
<1>10. Pooling' /\ Quiet' /\ Shrinks /\ GuardUp' /\ to' = to
  BY <1>2, StillStep DEF hopVars, history
<1>11. Listening'
  BY <1>2, <1>4, <1>8, ListeningStays DEF IInv, hopVars
<1> QED
  BY <1>2, <1>4, <1>7, <1>8, <1>9, <1>10, <1>11, MovingStep

\* What a failed build leaves the call with.
LEMMA FailedTyped ==
    ASSUME IInv, NEW s \in Send, call[s].pc \in {"dial", "await"},
           call' = [call EXCEPT ![s] = Failed(s)], UNCHANGED <<plan, to>>
    PROVE  /\ call' \in [Send -> Calls]
           /\ call'[s].pc \in {"failed", "thrown"}
           /\ call'[s].id = call[s].id
           /\ Moves(s) /\ CallBuilt(s)'
<1>1. /\ call'[s].pc = IF call[s].id = call[s].first THEN "failed" ELSE "thrown"
      /\ call'[s].id = call[s].id /\ call'[s].first = call[s].first
      /\ \A t \in Send \ {s} : call'[t] = call[t]
  BY DEF IInv, TypeOK, Failed, Calls
<1>2. call' \in [Send -> Calls]
  <2>1. call[s] \in Calls
    BY DEF IInv, TypeOK
  <2>2. Failed(s) \in Calls
    BY <2>1, FieldTyped DEF Failed
  <2> QED
    BY <2>2 DEF IInv, TypeOK
<1>3. Moves(s)
  BY <1>1 DEF Moves, Pending
<1>4. CallBuilt(s)'
  BY <1>1 DEF IInv, CallsWell, CallsBuilt, CallBuilt, Hops, Pending
<1> QED
  BY <1>1, <1>2, <1>3, <1>4

LEMMA DialFailsStep ==
    ASSUME IInv, NEW s \in Send, DialFails(s)
    PROVE  IInv'
<1>1. /\ call[s].pc = "dial" /\ call' = [call EXCEPT ![s] = Failed(s)]
      /\ UNCHANGED <<poolVars, circuits, plan, wires, hopVars, faults>>
  BY DEF DialFails
<1>2. /\ call' \in [Send -> Calls]
      /\ call'[s].pc \in {"failed", "thrown"}
      /\ Moves(s) /\ CallBuilt(s)'
  BY <1>1, FailedTyped DEF poolVars
<1>3. TypeOK'
  BY <1>1, <1>2 DEF IInv, TypeOK, PoolTypeOK, poolVars, wires, hopVars, history
<1>4. Pooling' /\ Quiet' /\ Shrinks /\ GuardUp' /\ to' = to
  BY <1>1, StillStep DEF hopVars, history
<1>5. Listening'
  BY <1>1, <1>2, ListeningStays DEF IInv, hopVars
<1> QED
  BY <1>1, <1>2, <1>3, <1>4, <1>5, MovingStep

LEMMA GuardTimeoutStep ==
    ASSUME IInv, NEW s \in Send, GuardTimeout(s)
    PROVE  IInv'
<1>1. /\ call[s].pc = "await" /\ call' = [call EXCEPT ![s] = Failed(s)]
      /\ listening' = [listening EXCEPT ![call[s].chan] = @ \ {call[s].id}]
      /\ UNCHANGED <<poolVars, circuits, plan, wires, saved, history, faults>>
  BY DEF GuardTimeout
<1>2. /\ call' \in [Send -> Calls]
      /\ call'[s].pc \in {"failed", "thrown"}
      /\ Moves(s) /\ CallBuilt(s)'
  BY <1>1, FailedTyped DEF poolVars
<1>3. call[s].chan \in Chan /\ call[s].id \in Id
  BY <1>1, CallTyped DEF IInv, Pending
<1>4. listening' \in [Link -> SUBSET Id]
  BY <1>1, <1>3 DEF IInv, TypeOK, Link
<1>5. TypeOK'
  BY <1>1, <1>2, <1>4 DEF IInv, TypeOK, PoolTypeOK, poolVars, wires, history
<1>6. \A l \in HopLink : listening'[l] = listening[l]
  BY <1>1, <1>3, HopLinkTyped DEF IInv, TypeOK, Link
<1>7. Pooling' /\ Quiet' /\ Shrinks /\ GuardUp' /\ to' = to
  BY <1>1, <1>6, StillStep DEF history
<1>8. Listening'
  <2> SUFFICES ASSUME NEW k \in Chan, NEW c \in Id
               PROVE  c \in listening'[k] <=>
                        \E t \in Send : call'[t].pc = "await" /\ call'[t].chan = k /\ call'[t].id = c
    BY DEF Listening
  <2>1. c \in listening[k] <=>
            \E t \in Send : call[t].pc = "await" /\ call[t].chan = k /\ call[t].id = c
    BY DEF IInv, CallsWell, Listening
  <2>2. c \in listening'[k] <=> c \in listening[k] /\ ~(k = call[s].chan /\ c = call[s].id)
    BY <1>1 DEF IInv, TypeOK, Link
  <2>3. \A t \in Send \ {s} : call'[t] = call[t] /\ call[t].id # call[s].id
    BY <1>1, <1>2 DEF Moves, IInv, CallsWell, Owned, Pending
  <2> QED
    BY <1>2, <2>1, <2>2, <2>3
<1> QED
  BY <1>1, <1>2, <1>5, <1>7, <1>8, MovingStep

LEMMA CellFailsStep ==
    ASSUME IInv, NEW s \in Send, CellFails(s)
    PROVE  IInv'
<1>1. /\ call[s].pc = "write" /\ circuits' \subseteq circuits
      /\ call' = [call EXCEPT ![s].pc = "thrown", ![s].chan = NoChan]
      /\ UNCHANGED <<poolVars, plan, wires, hopVars, faults>>
  BY DEF CellFails
<1>2. /\ call'[s].pc = "thrown" /\ call'[s].id = call[s].id /\ call'[s].first = call[s].first
      /\ \A t \in Send \ {s} : call'[t] = call[t]
  BY <1>1 DEF IInv, TypeOK, Calls
<1>3. call' \in [Send -> Calls]
  <2>1. call[s] \in Calls
    BY DEF IInv, TypeOK
  <2>2. [[call[s] EXCEPT !.pc = "thrown"] EXCEPT !.chan = NoChan] \in Calls
    BY <2>1, FieldTyped
  <2>3. call' = [call EXCEPT ![s] = [[call[s] EXCEPT !.pc = "thrown"] EXCEPT !.chan = NoChan]]
    BY <1>1 DEF IInv, TypeOK
  <2> QED
    BY <2>2, <2>3 DEF IInv, TypeOK
<1>4. TypeOK'
  BY <1>1, <1>3 DEF IInv, TypeOK, PoolTypeOK, poolVars, wires, hopVars, history
<1>5. Moves(s)
  BY <1>2 DEF Moves, Pending
<1>6. CallBuilt(s)'
  BY <1>1, <1>2 DEF IInv, CallsWell, CallsBuilt, CallBuilt, Hops, Pending
<1>7. Pooling' /\ Quiet' /\ Shrinks /\ GuardUp' /\ to' = to
  BY <1>1, StillStep DEF hopVars, history
<1>8. Listening'
  BY <1>1, <1>2, <1>5, ListeningStays DEF IInv, hopVars
<1> QED
  BY <1>1, <1>2, <1>4, <1>5, <1>6, <1>7, <1>8, MovingStep
\* A build begins: a fresh id gets its hops, and its call awaits channel k.
LEMMA Built ==
    ASSUME IInv, NEW s \in Send, call[s].pc \in {"idle", "failed"},
           NEW p \in HopLists, NEW c \in Id, NEW k \in Chan,
           Building(s, p, c, k), to'[k] = p[1]
    PROVE  /\ call' \in [Send -> Calls]
           /\ plan' \in [Id -> [hops : HopLists \cup {<<>>}, to : Targets]]
           /\ PlanExtends /\ Moves(s) /\ CallBuilt(s)'
           /\ call'[s].pc = "dial" /\ call'[s].chan = k
           /\ call[s].pc = "idle" => call'[s].id = call'[s].first
           /\ call'[s].first \in Id
<1>1. /\ Hops(c) = <<>>
      /\ plan' = [plan EXCEPT ![c] = [hops |-> p, to |-> To[s]]]
      /\ call' = [call EXCEPT ![s].pc = "dial", ![s].id = c, ![s].chan = k,
                              ![s].first = IF @ = NoId THEN c ELSE @]
  BY DEF Building
<1>2. plan' \in [Id -> [hops : HopLists \cup {<<>>}, to : Targets]]
  BY <1>1 DEF IInv, TypeOK, Targets
<1>3. plan'[c].hops = p /\ p # <<>> /\ \A d \in Id \ {c} : plan'[d] = plan[d]
  BY <1>1, RouteTyped DEF IInv, TypeOK
<1>4. PlanExtends
  BY <1>1, <1>3 DEF PlanExtends
<1>5. call[s] \in Calls /\ call[s].first \in Id \cup {NoId}
  BY CallTyped DEF IInv, TypeOK
<1> DEFINE f == IF call[s].first = NoId THEN c ELSE call[s].first
<1>6. /\ call'[s].pc = "dial" /\ call'[s].id = c /\ call'[s].chan = k /\ call'[s].first = f
      /\ \A t \in Send \ {s} : call'[t] = call[t]
  BY <1>1 DEF IInv, TypeOK, Calls
<1>7. f \in Id
  BY <1>5
<1>8. call' \in [Send -> Calls]
  <2>1. [[[[call[s] EXCEPT !.pc = "dial"] EXCEPT !.id = c] EXCEPT !.chan = k] EXCEPT !.first = f] \in Calls
    BY <1>5, <1>7, FieldTyped
  <2>2. call' = [call EXCEPT ![s] =
           [[[[call[s] EXCEPT !.pc = "dial"] EXCEPT !.id = c] EXCEPT !.chan = k] EXCEPT !.first = f]]
    BY <1>1, <1>5 DEF IInv, TypeOK, Calls
  <2> QED
    BY <2>1, <2>2 DEF IInv, TypeOK
<1>9. /\ call[s].pc = "idle" => call[s].first = NoId
      /\ call[s].pc = "failed" => call[s].id = call[s].first /\ call[s].first # NoId
      /\ call[s].first # NoId => Hops(call[s].first) # <<>>
  BY DEF IInv, CallsWell, CallsBuilt, CallBuilt, Pending
<1>10. Moves(s)
  BY <1>1, <1>6, <1>9 DEF Moves, Fresh, Pending
<1>11. CallBuilt(s)'
  <2>1. f = c \/ (f # c /\ plan'[f] = plan[f] /\ plan[f].hops # <<>>)
    BY <1>1, <1>3, <1>7, <1>9 DEF Hops
  <2>2. plan'[f].hops # <<>>
    BY <1>3, <2>1
  <2> QED
    BY <1>3, <1>6, <1>7, <2>2, CircuitsAssumption, PoolAssumption DEF CallBuilt, Hops, Pending
<1> QED
  BY <1>2, <1>4, <1>6, <1>7, <1>8, <1>9, <1>10, <1>11

\* Nobody's circuits over the guard are left without a channel to it.
LEMMA GetsGuard ==
    ASSUME TypeOK, CircuitsBuilt, GuardUp, PlanExtends, circuits' \subseteq circuits,
           NEW r \in Relay, NEW k \in Chan, Gets(r, k)
    PROVE  GuardUp'
<1>1. ASSUME NEW x \in Chan, phase[x] # "closed" PROVE phase'[x] # "closed" /\ to'[x] = to[x]
  BY <1>1 DEF Gets, Others
<1> QED
  BY <1>1, GuardStays

\* A call that takes a channel and writes nothing yet.
LEMMA TakingStep ==
    ASSUME IInv, NEW s \in Send, Moves(s), NEW r \in Relay, NEW k \in Chan, Gets(r, k),
           NEW L, Cut(L), circuits' \subseteq circuits, PlanExtends, CallBuilt(s)',
           call' \in [Send -> Calls], UNCHANGED <<hopVars, faults>>,
           plan' \in [Id -> [hops : HopLists \cup {<<>>}, to : Targets]],
           call[s].pc # "await", call'[s].pc # "await",
           (call[s].pc \in {"dial", "await"} /\ call[s].id # call[s].first
               => ~Touched(call[s].chan, call[s].first))'
    PROVE  IInv'
<1>1. TypeOK'
  <2>1. /\ there' \in [Link -> Seq(Packets)]
        /\ back' \in [Link -> Seq(Answers)]
        /\ via' \in [Relay \X Id -> Link \cup {NoChan}]
    BY CutWires DEF IInv
  <2>2. PoolTypeOK'
    BY DEF Gets
  <2> QED
    BY <2>1, <2>2 DEF IInv, TypeOK, hopVars, history
<1>2. Pooling' /\ Quiet'
  BY DEF Gets
<1>3. Shrinks
  BY GetsShrinks DEF IInv
<1>4. GuardUp'
  BY GetsGuard DEF IInv, CallsWell
<1>5. Listening'
  BY ListeningStays DEF IInv, hopVars
<1>6. \A t \in Send \ {s} : call[t].pc \in {"dial", "await", "write"} =>
          to'[call[t].chan] = to[call[t].chan]
  BY OthersChannels DEF IInv
<1> QED
  BY <1>1, <1>2, <1>3, <1>4, <1>5, <1>6, MovingStep

LEMMA FirstBuildStep ==
    ASSUME IInv, NEW s \in Send, FirstBuild(s)
    PROVE  IInv'
<1>1. PICK p \in Routes[To[s]], c \in Id, k \in Chan, C \in SUBSET circuits :
        Building(s, p, c, k) /\ GetChannel(C, p[1], k)
  BY DEF FirstBuild
<1>2. call[s].pc = "idle" /\ UNCHANGED <<hopVars, faults>>
  BY DEF FirstBuild
<1>3. p \in HopLists /\ p[1] \in Relay
  BY RouteTyped DEF HopLists, Targets
<1>4. PICK L : Cut(L) /\ Gets(p[1], k) /\ circuits' \subseteq C
  BY <1>1, <1>3, Taken DEF IInv, TypeOK
<1>5. /\ call' \in [Send -> Calls]
      /\ plan' \in [Id -> [hops : HopLists \cup {<<>>}, to : Targets]]
      /\ PlanExtends /\ Moves(s) /\ CallBuilt(s)'
      /\ call'[s].pc = "dial" /\ call'[s].id = call'[s].first
  BY <1>1, <1>2, <1>3, <1>4, Built DEF Gets
<1> QED
  BY <1>2, <1>3, <1>4, <1>5, TakingStep

LEMMA RetryStep ==
    ASSUME IInv, NEW s \in Send, Retry(s)
    PROVE  IInv'
<1> DEFINE p == Hops(call[s].id)
<1>1. call[s].pc = "failed" /\ UNCHANGED <<hopVars, faults>>
  BY DEF Retry
<1>2. PICK c \in Id, k \in Chan :
        /\ Building(s, p, c, k) /\ NewChannel(k)
        /\ pool' \in Opened(p[1], k)
        /\ phase' = [Destroyed({pool[e] : e \in {x \in Pooled : pool'[x] # pool[x]}})
                        EXCEPT ![k] = "dialing"]
        /\ to' = [to EXCEPT ![k] = p[1]]
        /\ circuits' = Evicted(circuits)
        /\ Cut({x \in Chan : phase'[x] = "dying"})
  BY DEF Retry
<1>3. p \in HopLists /\ p[1] \in Relay
  <2>1. call[s].id \in Id /\ Hops(call[s].id) # <<>>
    BY <1>1, CallTyped, CircuitsAssumption DEF IInv, Pending
  <2> QED
    BY <2>1, HopsTyped DEF IInv
<1> HIDE DEF p
<1>4. Gets(p[1], k)
  BY <1>2, <1>3, OpeningGets DEF IInv
<1>5. circuits' \subseteq circuits
  BY <1>2 DEF Evicted, Without
<1>6. /\ call' \in [Send -> Calls]
      /\ plan' \in [Id -> [hops : HopLists \cup {<<>>}, to : Targets]]
      /\ PlanExtends /\ Moves(s) /\ CallBuilt(s)'
      /\ call'[s].pc = "dial" /\ call'[s].chan = k /\ call'[s].first \in Id
  BY <1>1, <1>2, <1>3, <1>4, Built DEF Gets
<1>7. phase[k] = "closed"
  BY <1>2, FreeClosed
<1>8. Silent(k)'
  BY <1>2, <1>7, CutWires DEF IInv, Quiet, Live
<1>9. ~Touched(call[s].chan, call[s].first)'
  BY <1>6, <1>8, InEmpty DEF Touched, Silent
<1> QED
  BY <1>1, <1>2, <1>3, <1>4, <1>5, <1>6, <1>9, TakingStep

LEMMA TakeChannelStep ==
    ASSUME IInv, NEW s \in Send, TakeChannel(s)
    PROVE  IInv'
<1> DEFINE g == Hops(call[s].id)[1]
<1>1. PICK k \in Chan : /\ GetChannel(circuits, g, k)
                        /\ call' = [call EXCEPT ![s].pc = "write", ![s].chan = k]
  BY DEF TakeChannel
<1>2. call[s].pc = "cell" /\ UNCHANGED <<plan, hopVars, faults>>
  BY DEF TakeChannel
<1>3. call[s].id \in Id /\ Hops(call[s].id) # <<>> /\ g \in Relay
  <2>1. call[s].id \in Id /\ Hops(call[s].id) # <<>>
    BY <1>2, CallTyped, CircuitsAssumption DEF IInv, Pending
  <2> QED
    BY <2>1, HopsTyped DEF IInv
<1>4. Gets(g, k) /\ circuits' \subseteq circuits /\ \E L : Cut(L)
  <2>1. circuits \in SUBSET Id
    BY DEF IInv, TypeOK
  <2> HIDE DEF g
  <2> QED
    BY <1>1, <1>3, <2>1, Taken DEF IInv
<1>5. /\ call'[s].pc = "write" /\ call'[s].chan = k
      /\ call'[s].id = call[s].id /\ call'[s].first = call[s].first
      /\ \A t \in Send \ {s} : call'[t] = call[t]
  BY <1>1 DEF IInv, TypeOK, Calls
<1>6. call' \in [Send -> Calls]
  <2>1. call[s] \in Calls
    BY DEF IInv, TypeOK
  <2>2. [[call[s] EXCEPT !.pc = "write"] EXCEPT !.chan = k] \in Calls
    BY <2>1, FieldTyped
  <2>3. call' = [call EXCEPT ![s] = [[call[s] EXCEPT !.pc = "write"] EXCEPT !.chan = k]]
    BY <1>1 DEF IInv, TypeOK
  <2> QED
    BY <2>2, <2>3 DEF IInv, TypeOK
<1>7. Moves(s)
  BY <1>2, <1>5 DEF Moves, Pending
<1>8. CallBuilt(s)'
  BY <1>2, <1>3, <1>4, <1>5, PoolAssumption
  DEF IInv, CallsWell, CallsBuilt, CallBuilt, Hops, Pending, Gets
<1>9. PlanExtends /\ plan' \in [Id -> [hops : HopLists \cup {<<>>}, to : Targets]]
  BY <1>2, PlanStays DEF IInv, TypeOK
<1> QED
  BY <1>2, <1>3, <1>4, <1>5, <1>6, <1>7, <1>8, <1>9, TakingStep
-----------------------------------------------------------------------------
(* Calls that write                                                         *)

\* One packet more on a channel that is live.
LEMMA Wrote ==
    ASSUME IInv, NEW k \in Chan, Live(k), NEW p \in Packets, On(to[k], p.id),
           there' = [there EXCEPT ![k] = Append(@, p)],
           UNCHANGED <<poolVars, plan, back, via, told, mixed>>,
           \A l \in HopLink : listening'[l] = listening[l]
    PROVE  /\ there' \in [Link -> Seq(Packets)]
           /\ Pooling' /\ Quiet' /\ Wires'
           /\ \A x \in Chan : \A c \in Id : Touched(x, c)' => Touched(x, c) \/ (x = k /\ c = p.id)
<1>1. k \in Link /\ there[k] \in Seq(Packets)
  BY DEF IInv, TypeOK, Link
<1>2. Append(there[k], p) \in Seq(Packets) /\ Range(Append(there[k], p)) = Range(there[k]) \cup {p}
  BY <1>1, InAppend
<1>3. there' \in [Link -> Seq(Packets)]
  BY <1>1, <1>2 DEF IInv, TypeOK
<1>4. /\ \A x \in Link \ {k} : there'[x] = there[x]
      /\ Range(there'[k]) = Range(there[k]) \cup {p}
  BY <1>1, <1>2 DEF IInv, TypeOK
<1>5. Pooling'
  BY DEF IInv, Pooling, poolVars
<1>6. Quiet'
  BY <1>4 DEF IInv, Quiet, Silent, Live, poolVars, Link
<1>7. \A h, c : On(h, c)' <=> On(h, c)
  BY DEF On, Hops
<1>8. \A l \in Link : At(l)' = At(l)
  BY DEF At, poolVars
<1>9. Packed'
  <2> SUFFICES ASSUME NEW l \in Link, NEW q \in Range(there'[l]) PROVE On(At(l), q.id)'
    BY DEF Packed
  <2>1. q \in Range(there[l]) \/ (l = k /\ q = p)
    BY <1>4
  <2>2. PICK h : h = At(l) /\ On(h, q.id)
    BY <2>1 DEF IInv, Wires, Packed, At
  <2>3. On(h, q.id)' /\ h = At(l)'
    BY <1>7, <1>8, <2>2
  <2> QED
    BY <2>3
<1>10. \A h, c : ToldFrom(h, c)' <=> ToldFrom(h, c)
  BY DEF ToldFrom, Hops
<1>11. AnswersTrue'
  BY <1>7, <1>8, <1>10 DEF IInv, Wires, AnswersTrue
<1>12. ViaTrue'
  BY <1>7, <1>8 DEF IInv, Wires, ViaTrue, TypeOK
<1>13. Extending'
  BY DEF IInv, Wires, Extending, Hops
<1>14. \A x \in Chan : \A c \in Id : Touched(x, c)' => Touched(x, c) \/ (x = k /\ c = p.id)
  BY <1>4 DEF Touched, Link
<1> QED
  BY <1>3, <1>5, <1>6, <1>9, <1>11, <1>12, <1>13, <1>14 DEF Wires

\* What writing leaves as it is.
LEMMA WritingStep ==
    ASSUME IInv, NEW s \in Send, Moves(s), CallBuilt(s)', TypeOK', Pooling', Quiet', Wires',
           Listening', Separate', UNCHANGED <<poolVars, circuits, plan, told, mixed>>
    PROVE  IInv'
<1>1. CallsWell'
  BY MovesOwned, MovesBuilt, PlanStays DEF IInv, CallsWell, poolVars
<1>2. GuardUp'
  BY DEF IInv, GuardUp, Hops, poolVars
<1>3. WentThrough'
  BY DEF IInv, WentThrough, Hops
<1> QED
  BY <1>1, <1>2, <1>3 DEF IInv

LEMMA WriteCreateStep ==
    ASSUME IInv, NEW s \in Send, WriteCreate(s)
    PROVE  IInv'
<1>1. PICK k, c, p : k = call[s].chan /\ c = call[s].id /\ p = [kind |-> "create", id |-> c]
  OBVIOUS
<1>2. /\ call[s].pc = "dial" /\ phase[k] = "ready"
      /\ there' = [there EXCEPT ![k] = Append(@, p)]
      /\ listening' = [listening EXCEPT ![k] = @ \cup {c}]
      /\ call' = [call EXCEPT ![s].pc = "await"]
      /\ UNCHANGED <<poolVars, circuits, plan, back, via, saved, history, faults>>
  BY <1>1 DEF WriteCreate
<1>3. /\ k \in Chan /\ c \in Id /\ p \in Packets /\ p.id = c
      /\ Hops(c) # <<>> /\ to[k] = Hops(c)[1]
  BY <1>1, <1>2, CallTyped, CircuitsAssumption DEF IInv, Pending, Packets
<1>4. Live(k) /\ On(to[k], c)
  BY <1>2, <1>3, HopsTyped, PoolAssumption DEF IInv, Live
<1>5. listening' \in [Link -> SUBSET Id] /\ \A l \in HopLink : listening'[l] = listening[l]
  BY <1>2, <1>3, HopLinkTyped DEF IInv, TypeOK, Link
<1>6. /\ there' \in [Link -> Seq(Packets)]
      /\ Pooling' /\ Quiet' /\ Wires'
      /\ \A x \in Chan : \A d \in Id : Touched(x, d)' => Touched(x, d) \/ (x = k /\ d = c)
  BY <1>2, <1>3, <1>4, <1>5, Wrote DEF history
<1>7. /\ call'[s].pc = "await" /\ call'[s].id = c /\ call'[s].chan = k
      /\ call'[s].first = call[s].first
      /\ \A t \in Send \ {s} : call'[t] = call[t]
  BY <1>1, <1>2 DEF IInv, TypeOK, Calls
<1>8. call' \in [Send -> Calls]
  <2>1. call[s] \in Calls
    BY DEF IInv, TypeOK
  <2>2. [call[s] EXCEPT !.pc = "await"] \in Calls
    BY <2>1, FieldTyped
  <2> QED
    BY <1>2, <2>2 DEF IInv, TypeOK
<1>9. TypeOK'
  BY <1>2, <1>5, <1>6, <1>8 DEF IInv, TypeOK, PoolTypeOK, poolVars, history
<1>10. Moves(s)
  BY <1>1, <1>2, <1>7 DEF Moves, Pending
<1>11. CallBuilt(s)'
  BY <1>1, <1>2, <1>7 DEF IInv, CallsWell, CallsBuilt, CallBuilt, Hops, Pending, poolVars
<1>12. \A t \in Send \ {s} : call[t].id # c /\ call[t].first # c
  BY <1>1, <1>2 DEF IInv, CallsWell, Owned, Pending
<1>13. Listening'
  <2> SUFFICES ASSUME NEW x \in Chan, NEW d \in Id
               PROVE  d \in listening'[x] <=>
                        \E t \in Send : call'[t].pc = "await" /\ call'[t].chan = x /\ call'[t].id = d
    BY DEF Listening
  <2>1. d \in listening[x] <=>
            \E t \in Send : call[t].pc = "await" /\ call[t].chan = x /\ call[t].id = d
    BY DEF IInv, CallsWell, Listening
  <2>2. d \in listening'[x] <=> d \in listening[x] \/ (x = k /\ d = c)
    BY <1>2, <1>3 DEF IInv, TypeOK, Link
  <2> QED
    BY <1>2, <1>7, <2>1, <2>2
<1>14. Separate'
  <2> SUFFICES ASSUME NEW t \in Send, call'[t].pc \in {"dial", "await"}, call'[t].id # call'[t].first
               PROVE  ~Touched(call[t].chan, call[t].first)'
    BY DEF Separate
  <2>1. /\ call'[t].chan = call[t].chan /\ call'[t].first = call[t].first
        /\ call[t].pc \in {"dial", "await"} /\ call[t].id # call[t].first
    BY <1>1, <1>2, <1>7
  <2>2. PICK x \in Chan, d \in Id : x = call[t].chan /\ d = call[t].first
    BY <2>1, CallTyped DEF IInv, Pending
  <2>3. ~Touched(x, d)
    BY <2>1, <2>2 DEF IInv, Separate
  <2>4. d # c
    BY <1>1, <1>12, <2>1, <2>2
  <2>5. ~Touched(x, d)'
    BY <1>6, <2>3, <2>4
  <2> QED
    BY <2>1, <2>2, <2>5
<1> QED
  BY <1>2, <1>6, <1>9, <1>10, <1>11, <1>13, <1>14, WritingStep DEF history

\* Nobody waits for the circuit a cell is sent on.
LEMMA WriteCellStep ==
    ASSUME IInv, NEW s \in Send, WriteCell(s)
    PROVE  IInv'
<1>1. PICK k, c, p : k = call[s].chan /\ c = call[s].id /\ p = [kind |-> "cell", id |-> c]
  OBVIOUS
<1>2. /\ call[s].pc = "write" /\ phase[k] = "ready"
      /\ there' = [there EXCEPT ![k] = Append(@, p)]
      /\ call' = [call EXCEPT ![s].pc = "sent", ![s].chan = NoChan]
      /\ UNCHANGED <<poolVars, circuits, plan, back, via, hopVars, faults>>
  BY <1>1 DEF WriteCell
<1>3. /\ k \in Chan /\ c \in Id /\ p \in Packets /\ p.id = c
      /\ Hops(c) # <<>> /\ to[k] = Hops(c)[1]
  BY <1>1, <1>2, CallTyped, CircuitsAssumption DEF IInv, Pending, Packets
<1>4. Live(k) /\ On(to[k], c)
  BY <1>2, <1>3, HopsTyped, PoolAssumption DEF IInv, Live
<1>5. /\ there' \in [Link -> Seq(Packets)]
      /\ Pooling' /\ Quiet' /\ Wires'
      /\ \A x \in Chan : \A d \in Id : Touched(x, d)' => Touched(x, d) \/ (x = k /\ d = c)
  BY <1>2, <1>3, <1>4, Wrote DEF hopVars, history
<1>6. /\ call'[s].pc = "sent" /\ call'[s].id = c /\ call'[s].first = call[s].first
      /\ \A t \in Send \ {s} : call'[t] = call[t]
  BY <1>1, <1>2 DEF IInv, TypeOK, Calls
<1>7. call' \in [Send -> Calls]
  <2>1. call[s] \in Calls
    BY DEF IInv, TypeOK
  <2>2. [[call[s] EXCEPT !.pc = "sent"] EXCEPT !.chan = NoChan] \in Calls
    BY <2>1, FieldTyped
  <2>3. call' = [call EXCEPT ![s] = [[call[s] EXCEPT !.pc = "sent"] EXCEPT !.chan = NoChan]]
    BY <1>2 DEF IInv, TypeOK
  <2> QED
    BY <2>2, <2>3 DEF IInv, TypeOK
<1>8. TypeOK'
  BY <1>2, <1>5, <1>7 DEF IInv, TypeOK, PoolTypeOK, poolVars, hopVars, history
<1>9. Moves(s)
  BY <1>1, <1>2, <1>6 DEF Moves, Pending
<1>10. CallBuilt(s)'
  BY <1>1, <1>2, <1>6 DEF IInv, CallsWell, CallsBuilt, CallBuilt, Hops, Pending
<1>11. Listening'
  BY <1>2, <1>6, <1>9, ListeningStays DEF IInv, hopVars
<1>12. Separate'
  <2> SUFFICES ASSUME NEW t \in Send, call'[t].pc \in {"dial", "await"}, call'[t].id # call'[t].first
               PROVE  ~Touched(call[t].chan, call[t].first)'
    BY DEF Separate
  <2>1. call'[t] = call[t]
    BY <1>6
  <2>2. PICK x \in Chan, d \in Id : x = call[t].chan /\ d = call[t].first
    BY <2>1, CallTyped DEF IInv, Pending
  <2>3. ~Touched(x, d)
    BY <2>1, <2>2 DEF IInv, Separate
  <2>4. NoCircuit(d)
    BY <2>1, <2>2, CircuitsAssumption DEF IInv, CallsWell, Owned
  <2>5. d # c
    BY <1>1, <1>2, <2>4 DEF NoCircuit
  <2>6. ~Touched(x, d)'
    BY <1>5, <2>3, <2>5
  <2> QED
    BY <2>1, <2>2, <2>6
<1> QED
  BY <1>2, <1>5, <1>8, <1>9, <1>10, <1>11, <1>12, WritingStep DEF hopVars, history
-----------------------------------------------------------------------------
(* The hops                                                                 *)

LEMMA AtTyped == ASSUME TypeOK, NEW l \in Link PROVE At(l) \in Relay
BY HopLinkTyped DEF At, Link, TypeOK, PoolTypeOK

\* Steps of hops write to a channel only what was there, or in answer to it.
LEMMA HopStep ==
    ASSUME IInv, TypeOK', Quiet', Wires', UNCHANGED <<poolVars, call, circuits, plan>>,
           told \subseteq told', mixed \subseteq mixed',
           \A k \in Chan : listening'[k] = listening[k],
           \A k \in Chan : \A c \in Id : Touched(k, c)' => Touched(k, c)
    PROVE  IInv'
<1>1. Pooling' /\ GuardUp'
  BY DEF IInv, Pooling, GuardUp, poolVars, Hops
<1>2. CallsWell'
  BY CallsStay DEF IInv, poolVars
<1>3. Separate'
  BY SeparateStays DEF IInv
<1>4. WentThrough'
  BY ToldStays, PlanStays DEF IInv, CallsWell
<1> QED
  BY <1>1, <1>2, <1>3, <1>4 DEF IInv

\* One answer more on a link.
LEMMA AnsweredTyped ==
    ASSUME TypeOK, NEW l \in Link, NEW c \in Id, NEW ready \in BOOLEAN, back' = Answered(l, c, ready)
    PROVE  /\ back' \in [Link -> Seq(Answers)]
           /\ \A x \in Link \ {l} : back'[x] = back[x]
           /\ Range(back'[l]) = Range(back[l]) \cup {[ready |-> ready, id |-> c]}
<1>0. [ready |-> ready, id |-> c] \in Answers
  BY DEF Answers
<1>1. PICK e : e = [ready |-> ready, id |-> c] /\ e \in Answers
  BY <1>0
<1>2. back' = [back EXCEPT ![l] = Append(@, e)] /\ back[l] \in Seq(Answers)
  BY <1>1 DEF Answered, TypeOK
<1>3. Append(back[l], e) \in Seq(Answers) /\ Range(Append(back[l], e)) = Range(back[l]) \cup {e}
  BY <1>1, <1>2, InAppend
<1> QED
  BY <1>1, <1>2, <1>3 DEF TypeOK

\* A packet that arrives is one of those on the link.
LEMMA ArrivedTyped ==
    ASSUME IInv, NEW l \in Link, NEW kind, Arrives(l, kind)
    PROVE  /\ Head(there[l]) \in Packets /\ Head(there[l]).id \in Id
           /\ Tail(there[l]) \in Seq(Packets) /\ Range(Tail(there[l])) \subseteq Range(there[l])
           /\ \A k \in Chan : l = k => Live(k) /\ Touched(k, Head(there[l]).id)
           /\ On(At(l), Head(there[l]).id) /\ At(l) \in Relay
<1>1. there[l] \in Seq(Packets) /\ there[l] # <<>>
  BY DEF Arrives, IInv, TypeOK
<1>2. /\ Head(there[l]) \in Packets /\ Head(there[l]) \in Range(there[l])
      /\ Tail(there[l]) \in Seq(Packets) /\ Range(Tail(there[l])) \subseteq Range(there[l])
  BY <1>1, InTail
<1>3. Head(there[l]).id \in Id
  BY <1>2 DEF Packets
<1>4. \A k \in Chan : l = k => Live(k) /\ Touched(k, Head(there[l]).id)
  BY <1>1, <1>2 DEF IInv, Quiet, Silent, Touched
<1>5. On(At(l), Head(there[l]).id)
  BY <1>2 DEF IInv, Wires, Packed
<1> QED
  BY <1>2, <1>3, <1>4, <1>5, AtTyped DEF IInv

\* The hop that saves a record of c is told its key, and answers over l.
LEMMA SavesTyped ==
    ASSUME IInv, NEW l \in Link, NEW h \in Relay, NEW c \in Id, At(l) = h, On(h, c),
           via' = [via EXCEPT ![<<h, c>>] = l], told' = told \cup {<<h, c>>},
           saved' = saved \cup {<<h, c>>}, to' = to, plan' = plan
    PROVE  /\ via' \in [Relay \X Id -> Link \cup {NoChan}]
           /\ saved' \subseteq told' /\ told' \subseteq Relay \X Id
           /\ told \subseteq told' /\ <<h, c>> \in told'
           /\ via'[<<h, c>>] = l
           /\ \A x \in Relay \X Id : x # <<h, c>> => via'[x] = via[x]
           /\ ViaTrue'
<1>1. /\ via' \in [Relay \X Id -> Link \cup {NoChan}]
      /\ saved' \subseteq told' /\ told' \subseteq Relay \X Id
      /\ told \subseteq told' /\ <<h, c>> \in told'
      /\ via'[<<h, c>>] = l
      /\ \A x \in Relay \X Id : x # <<h, c>> => via'[x] = via[x]
  BY DEF IInv, TypeOK
<1>2. ViaTrue'
  <2> SUFFICES ASSUME NEW g \in Relay, NEW d \in Id, via'[<<g, d>>] # NoChan
               PROVE  At(via[<<g, d>>])' = g /\ <<g, d>> \in told' /\ On(g, d)'
    BY DEF ViaTrue
  <2>1. PICK x : x = via'[<<g, d>>]
    OBVIOUS
  <2>2. At(x) = g /\ <<g, d>> \in told' /\ On(g, d)
    BY <1>1, <2>1 DEF IInv, Wires, ViaTrue
  <2>3. At(x)' = g /\ On(g, d)'
    BY <2>2 DEF At, On, Hops
  <2> QED
    BY <2>1, <2>2, <2>3
<1> QED
  BY <1>1, <1>2

\* A hop peels a packet and answers; only the exit reports success.
LEMMA AnswerStep ==
    ASSUME IInv, NEW l \in Link, Arrives(l, "create"), NEW ready \in BOOLEAN,
           ready => At(l) = Exit(Head(there[l]).id),
           Saves(At(l), Head(there[l]).id, l),
           there' = [there EXCEPT ![l] = Tail(@)],
           back' = Answered(l, Head(there[l]).id, ready),
           UNCHANGED <<poolVars, call, circuits, plan, listening, mixed, swallowed, faults>>
    PROVE  IInv'
<1>1. PICK h, c : h = At(l) /\ c = Head(there[l]).id
  OBVIOUS
<1>2. /\ c \in Id /\ h \in Relay /\ On(h, c)
      /\ Tail(there[l]) \in Seq(Packets) /\ Range(Tail(there[l])) \subseteq Range(there[l])
      /\ \A k \in Chan : l = k => Live(k) /\ Touched(k, c)
  BY <1>1, ArrivedTyped
<1>3. /\ back' \in [Link -> Seq(Answers)]
      /\ \A x \in Link \ {l} : back'[x] = back[x]
      /\ Range(back'[l]) = Range(back[l]) \cup {[ready |-> ready, id |-> c]}
  BY <1>1, <1>2, AnsweredTyped DEF IInv
<1>4. /\ via' \in [Relay \X Id -> Link \cup {NoChan}]
      /\ saved' \subseteq told' /\ told' \subseteq Relay \X Id
      /\ told \subseteq told' /\ <<h, c>> \in told'
      /\ via'[<<h, c>>] = l
      /\ \A x \in Relay \X Id : x # <<h, c>> => via'[x] = via[x]
      /\ ViaTrue'
  <2>1. /\ via' = [via EXCEPT ![<<h, c>>] = l] /\ told' = told \cup {<<h, c>>}
        /\ saved' = saved \cup {<<h, c>>} /\ to' = to /\ plan' = plan
    BY <1>1 DEF Saves, poolVars
  <2>2. At(l) = h /\ On(h, c) /\ h \in Relay /\ c \in Id
    BY <1>1, <1>2
  <2> QED
    BY <2>1, <2>2, SavesTyped
<1>5. /\ there' \in [Link -> Seq(Packets)]
      /\ \A x \in Link \ {l} : there'[x] = there[x]
      /\ Range(there'[l]) \subseteq Range(there[l])
  BY <1>2 DEF IInv, TypeOK
<1>6. TypeOK'
  BY <1>3, <1>4, <1>5 DEF IInv, TypeOK, PoolTypeOK, poolVars
<1>7. Quiet'
  <2> SUFFICES ASSUME NEW k \in Chan, ~Live(k) PROVE Silent(k)'
    BY DEF Quiet, Live, poolVars
  <2>1. Silent(k) /\ k # l /\ k \in Link
    BY <1>2 DEF IInv, Quiet, Link
  <2> QED
    BY <1>3, <1>4, <1>5, <2>1 DEF Silent
<1>8. Packed'
  <2> SUFFICES ASSUME NEW x \in Link, NEW p \in Range(there'[x]) PROVE On(At(x), p.id)'
    BY DEF Packed
  <2>1. p \in Range(there[x])
    BY <1>5
  <2>2. On(At(x), p.id)
    BY <2>1 DEF IInv, Wires, Packed
  <2> QED
    BY <2>2 DEF At, On, Hops, poolVars
<1>9. AnswersTrue'
  <2> SUFFICES ASSUME NEW x \in Link, NEW a \in Range(back'[x])
               PROVE  (On(At(x), a.id) /\ (a.ready /\ a.id \notin mixed => ToldFrom(At(x), a.id)))'
    BY DEF AnswersTrue
  <2>1. PICK g : g = At(x)
    OBVIOUS
  <2>2. CASE a \in Range(back[x])
    <3>1. On(g, a.id) /\ (a.ready /\ a.id \notin mixed => ToldFrom(g, a.id))
      BY <2>1, <2>2 DEF IInv, Wires, AnswersTrue
    <3>2. On(g, a.id)' /\ (a.ready /\ a.id \notin mixed' => ToldFrom(g, a.id)')
      BY <1>4, <3>1 DEF On, ToldFrom, Hops
    <3> QED
      BY <2>1, <3>2 DEF At, poolVars
  <2>3. CASE x = l /\ a = [ready |-> ready, id |-> c]
    <3>1. g = h /\ a.id = c /\ a.ready = ready
      BY <1>1, <2>1, <2>3
    <3>2. ready => \A i \in DOMAIN Hops(c) : Hops(c)[i] = h => i = Len(Hops(c))
      BY <1>1, <1>2, NoHops, HopsTyped DEF Exit, Last, IInv
    <3>3. ready => \A i, j \in DOMAIN Hops(c) : Hops(c)[i] = h /\ i <= j => Hops(c)[j] = h
      BY <1>2, <3>2, NoHops, HopsTyped DEF IInv
    <3>4. ready => ToldFrom(h, c)'
      BY <1>4, <3>3 DEF ToldFrom, Hops
    <3>5. On(h, c)'
      BY <1>2 DEF On, Hops
    <3>6. At(x)' = h
      BY <2>1, <3>1 DEF At, poolVars
    <3> QED
      BY <3>1, <3>4, <3>5, <3>6
  <2> QED
    BY <1>3, <2>2, <2>3
<1>10. Extending'
  BY DEF IInv, Wires, Extending, Hops
<1>11. \A k \in Chan : \A d \in Id : Touched(k, d)' => Touched(k, d)
  <2> SUFFICES ASSUME NEW k \in Chan, NEW d \in Id, Touched(k, d)' PROVE Touched(k, d)
    OBVIOUS
  <2>1. k \in Link
    BY DEF Link
  <2>2. CASE \E p \in Range(there'[k]) : p.id = d
    BY <1>5, <2>1, <2>2 DEF Touched
  <2>3. CASE \E a \in Range(back'[k]) : a.id = d
    <3>1. CASE \E a \in Range(back[k]) : a.id = d
      BY <3>1 DEF Touched
    <3>2. CASE k = l /\ d = c
      BY <1>2, <3>2
    <3> QED
      BY <1>3, <2>1, <2>3, <3>1, <3>2
  <2>4. CASE \E g \in Relay : via'[<<g, d>>] = k
    BY <1>2, <1>4, <2>4 DEF Touched
  <2> QED
    BY <2>2, <2>3, <2>4 DEF Touched
<1> QED
  BY <1>4, <1>6, <1>7, <1>8, <1>9, <1>10, <1>11, HopStep DEF Wires

LEMMA AnswerAsExitStep ==
    ASSUME IInv, NEW l \in Link, AnswerAsExit(l)
    PROVE  IInv'
BY AnswerStep DEF AnswerAsExit

LEMMA ExtendFailsStep ==
    ASSUME IInv, NEW l \in Link, ExtendFails(l)
    PROVE  IInv'
BY AnswerStep DEF ExtendFails

\* A hop passes the packet on: the one it extends to is the next of the route.
LEMMA ExtendStep ==
    ASSUME IInv, NEW l \in Link, Extend(l)
    PROVE  IInv'
<1>1. PICK h, c, x, p : /\ h = At(l) /\ p = Head(there[l]) /\ c = p.id
                        /\ x = Onto(h, c)
  OBVIOUS
<1>2. /\ Arrives(l, "create") /\ h # Exit(c)
      /\ via' = [via EXCEPT ![<<h, c>>] = l] /\ told' = told \cup {<<h, c>>}
      /\ saved' = saved \cup {<<h, c>>}
      /\ there' = [there EXCEPT ![l] = Tail(@), ![x] = Append(@, p)]
      /\ listening' = [listening EXCEPT ![x] = @ \cup {c}]
      /\ UNCHANGED <<poolVars, call, circuits, plan, back, mixed, swallowed, faults>>
  BY <1>1 DEF Extend, Saves
<1>3. /\ c \in Id /\ h \in Relay /\ On(h, c) /\ p \in Packets
      /\ Tail(there[l]) \in Seq(Packets) /\ Range(Tail(there[l])) \subseteq Range(there[l])
      /\ \A k \in Chan : l = k => Live(k) /\ Touched(k, c)
  BY <1>1, <1>2, ArrivedTyped
<1>4. /\ via' \in [Relay \X Id -> Link \cup {NoChan}]
      /\ saved' \subseteq told' /\ told' \subseteq Relay \X Id
      /\ told \subseteq told' /\ <<h, c>> \in told'
      /\ via'[<<h, c>>] = l
      /\ \A y \in Relay \X Id : y # <<h, c>> => via'[y] = via[y]
      /\ ViaTrue'
  <2>1. At(l) = h /\ to' = to /\ plan' = plan
    BY <1>1, <1>2 DEF poolVars
  <2> QED
    BY <1>2, <1>3, <2>1, SavesTyped
<1>5. PICK i \in DOMAIN Hops(c) :
        i + 1 \in DOMAIN Hops(c) /\ Hops(c)[i] = h /\ x = <<Hops(c)[i], Hops(c)[i + 1]>>
  BY <1>1, <1>2, <1>3, OntoNext DEF IInv
<1>6. x \in HopLink /\ x \in Link /\ x \notin Chan
  BY <1>1, <1>2, <1>3, OntoNext, HopLinkTyped DEF IInv, Link
<1>7. x # l
  <2> SUFFICES ASSUME x = l PROVE FALSE
    OBVIOUS
  <2>1. h = Hops(c)[i + 1]
    <3>1. At(x) = x[2]
      BY <1>6 DEF At
    <3>2. x[2] = Hops(c)[i + 1]
      BY <1>5
    <3> QED
      BY <1>1, <3>1, <3>2
  <2>2. DOMAIN Hops(c) = 1 .. Len(Hops(c))
        /\ \A m, n \in 1 .. Len(Hops(c)) : Hops(c)[m] = Hops(c)[n] => m = n
    BY <1>3, NoHops, HopsTyped DEF IInv
  <2>3. i = i + 1 /\ i \in Int
    BY <1>5, <2>1, <2>2
  <2> QED
    BY <2>3
<1>8. /\ there' \in [Link -> Seq(Packets)]
      /\ \A y \in Link \ {l, x} : there'[y] = there[y]
      /\ Range(there'[l]) \subseteq Range(there[l])
      /\ Range(there'[x]) = Range(there[x]) \cup {p}
  <2>1. Append(there[x], p) \in Seq(Packets) /\ Range(Append(there[x], p)) = Range(there[x]) \cup {p}
    BY <1>3, <1>6, InAppend DEF IInv, TypeOK
  <2>2. there' = [[there EXCEPT ![l] = Tail(there[l])] EXCEPT ![x] = Append(there[x], p)]
    BY <1>2, <1>6, <1>7 DEF IInv, TypeOK
  <2> QED
    BY <1>3, <1>6, <1>7, <2>1, <2>2 DEF IInv, TypeOK
<1>9. /\ listening' \in [Link -> SUBSET Id]
      /\ \A y \in Link \ {x} : listening'[y] = listening[y]
      /\ listening'[x] = listening[x] \cup {c}
  BY <1>2, <1>3, <1>6 DEF IInv, TypeOK
<1>10. TypeOK'
  BY <1>2, <1>4, <1>8, <1>9 DEF IInv, TypeOK, PoolTypeOK, poolVars
<1>11. Quiet'
  <2> SUFFICES ASSUME NEW k \in Chan, ~Live(k) PROVE Silent(k)'
    BY <1>2 DEF Quiet, Live, poolVars
  <2>1. Silent(k) /\ k # l /\ k # x /\ k \in Link
    BY <1>3, <1>6 DEF IInv, Quiet, Link
  <2> QED
    BY <1>2, <1>4, <1>8, <2>1 DEF Silent
<1>12. \A y \in Link : At(y)' = At(y)
  BY <1>2 DEF At, poolVars
<1>13. Packed'
  <2> SUFFICES ASSUME NEW y \in Link, NEW q \in Range(there'[y]) PROVE On(At(y), q.id)'
    BY DEF Packed
  <2>0. q \in Range(there[y]) \/ (y = x /\ q = p)
    <3>1. CASE y = x
      BY <1>8, <3>1
    <3>2. CASE y = l
      BY <1>8, <3>2
    <3>3. CASE y \notin {l, x}
      <4>1. there'[y] = there[y]
        BY <1>8, <3>3
      <4> QED
        BY <4>1
    <3> QED
      BY <3>1, <3>2, <3>3
  <2>1. PICK g : g = At(y) /\ g = At(y)'
    BY <1>12
  <2>2. CASE q \in Range(there[y])
    <3>1. On(g, q.id)
      BY <2>1, <2>2 DEF IInv, Wires, Packed
    <3>2. On(g, q.id)'
      BY <1>2, <3>1 DEF On, Hops
    <3> QED
      BY <2>1, <3>2
  <2>3. CASE y = x /\ q = p
    <3>1. g = Hops(c)[i + 1] /\ q.id = c
      <4>1. At(x) = x[2] /\ x[2] = Hops(c)[i + 1]
        BY <1>5, <1>6 DEF At
      <4> QED
        BY <1>1, <2>1, <2>3, <4>1
    <3>2. On(g, q.id)'
      BY <1>2, <1>5, <3>1 DEF On, Hops
    <3> QED
      BY <2>1, <3>2
  <2> QED
    BY <2>0, <2>2, <2>3
<1>14. AnswersTrue'
  <2> SUFFICES ASSUME NEW y \in Link, NEW a \in Range(back[y])
               PROVE  (On(At(y), a.id) /\ (a.ready /\ a.id \notin mixed => ToldFrom(At(y), a.id)))'
    BY <1>2 DEF AnswersTrue
  <2>1. PICK g : g = At(y) /\ g = At(y)'
    BY <1>12
  <2>2. On(g, a.id) /\ (a.ready /\ a.id \notin mixed => ToldFrom(g, a.id))
    BY <2>1 DEF IInv, Wires, AnswersTrue
  <2>3. On(g, a.id)' /\ (a.ready /\ a.id \notin mixed' => ToldFrom(g, a.id)')
    BY <1>2, <1>4, <2>2 DEF On, ToldFrom, Hops
  <2> QED
    BY <2>1, <2>3
<1>15. Extending'
  <2> SUFFICES ASSUME NEW y \in HopLink, NEW d \in listening'[y]
               PROVE  \E j \in DOMAIN Hops(d) : j + 1 \in DOMAIN Hops(d)
                                                /\ y = <<Hops(d)[j], Hops(d)[j + 1]>>
    BY <1>2 DEF Extending, Hops
  <2>1. CASE d \in listening[y]
    BY <2>1 DEF IInv, Wires, Extending
  <2>2. CASE y = x /\ d = c
    BY <1>5, <2>2
  <2> QED
    BY <1>9, <2>1, <2>2 DEF Link
<1>16. \A k \in Chan : \A d \in Id : Touched(k, d)' => Touched(k, d)
  <2> SUFFICES ASSUME NEW k \in Chan, NEW d \in Id, Touched(k, d)' PROVE Touched(k, d)
    OBVIOUS
  <2>1. k \in Link /\ k # x
    BY <1>6 DEF Link
  <2>2. CASE \E q \in Range(there'[k]) : q.id = d
    BY <1>8, <2>1, <2>2 DEF Touched
  <2>3. CASE \E a \in Range(back'[k]) : a.id = d
    BY <1>2, <2>3 DEF Touched
  <2>4. CASE \E g \in Relay : via'[<<g, d>>] = k
    BY <1>3, <1>4, <2>4 DEF Touched
  <2> QED
    BY <2>2, <2>3, <2>4 DEF Touched
<1>17. \A k \in Chan : listening'[k] = listening[k]
  BY <1>6, <1>9 DEF Link
<1> QED
  BY <1>2, <1>4, <1>10, <1>11, <1>13, <1>14, <1>15, <1>16, <1>17, HopStep DEF Wires

\* What a hop passes back is about circuits it extended, over the way they came.
LEMMA PassingStep ==
    ASSUME IInv, NEW l \in HopLink, back' \in [Link -> Seq(Answers)],
           NEW W \in SUBSET Id,
           \A x \in Link : \A a \in Range(back'[x]) :
              a \in Range(back[x]) \/
              /\ a.id \in listening[l] /\ via[<<l[1], a.id>>] = x
              /\ a.ready => \E b \in Range(back[l]) :
                              b.ready /\ (a.id # b.id => a.id \in W),
           \A k \in Chan : Silent(k) => back'[k] = <<>>,
           mixed' = mixed \cup W,
           listening' \in [Link -> SUBSET Id],
           \A x \in Link : listening'[x] \subseteq listening[x],
           \A k \in Chan : listening'[k] = listening[k],
           UNCHANGED <<poolVars, call, circuits, plan, there, via, saved, told, swallowed, faults>>
    PROVE  IInv'
<1>1. TypeOK'
  BY DEF IInv, TypeOK, PoolTypeOK, poolVars
<1>2. Quiet'
  BY DEF IInv, Quiet, Silent, Live, poolVars
<1>3. \A x \in Link : At(x)' = At(x)
  BY DEF At, poolVars
<1>4. Packed'
  <2> SUFFICES ASSUME NEW y \in Link, NEW q \in Range(there[y]) PROVE On(At(y), q.id)'
    BY DEF Packed
  <2>1. On(At(y), q.id)
    BY DEF IInv, Wires, Packed
  <2> QED
    BY <1>3, <2>1 DEF On, Hops
<1>5. l \in Link /\ l \notin Chan /\ l[1] \in Relay /\ At(l) = l[2]
  BY HopLinkTyped DEF Link, At
<1>6. ViaTrue'
  BY <1>3 DEF IInv, Wires, ViaTrue, On, Hops, TypeOK
<1>7. Extending'
  <2> SUFFICES ASSUME NEW y \in HopLink, NEW d \in listening'[y]
               PROVE  \E i \in DOMAIN Hops(d) : i + 1 \in DOMAIN Hops(d)
                                                /\ y = <<Hops(d)[i], Hops(d)[i + 1]>>
    BY DEF Extending, Hops
  <2>1. d \in listening[y]
    BY DEF Link
  <2> QED
    BY <2>1 DEF IInv, Wires, Extending
<1>8. AnswersTrue'
  <2> SUFFICES ASSUME NEW x \in Link, NEW a \in Range(back'[x])
               PROVE  (On(At(x), a.id) /\ (a.ready /\ a.id \notin mixed => ToldFrom(At(x), a.id)))'
    BY DEF AnswersTrue
  <2>1. PICK g, c : g = At(x) /\ g = At(x)' /\ c = a.id
    BY <1>3
  <2> SUFFICES On(g, c) /\ (a.ready /\ c \notin mixed' => ToldFrom(g, c))
    BY <2>1 DEF On, ToldFrom, Hops
  <2>2. CASE a \in Range(back[x])
    <3>1. On(At(x), a.id) /\ (a.ready /\ a.id \notin mixed => ToldFrom(At(x), a.id))
      BY <2>2 DEF IInv, Wires, AnswersTrue
    <3>2. c \notin mixed' => c \notin mixed
      OBVIOUS
    <3> QED
      BY <2>1, <3>1, <3>2
  <2>3. CASE /\ c \in listening[l] /\ via[<<l[1], c>>] = x
             /\ a.ready => \E b \in Range(back[l]) : b.ready /\ (c # b.id => c \in W)
    <3>1. c \in Id /\ x # NoChan
      BY <1>5, <2>3, HopLinkTyped DEF IInv, TypeOK
    <3>2. g = l[1] /\ <<g, c>> \in told /\ On(g, c)
      <4>1. PICK h \in Relay : h = l[1]
        BY <1>5
      <4>2. via[<<h, c>>] = x
        BY <2>3, <4>1
      <4>3. At(via[<<h, c>>]) = h /\ <<h, c>> \in told /\ On(h, c)
        BY <3>1, <4>2 DEF IInv, Wires, ViaTrue
      <4>4. g = h
        BY <2>1, <4>2, <4>3
      <4> QED
        BY <4>1, <4>3, <4>4
    <3>3. ASSUME a.ready, c \notin mixed' PROVE ToldFrom(g, c)
      <4>1. PICK b \in Range(back[l]) : b.ready /\ b.id = c /\ c \notin mixed
        <5>1. PICK b \in Range(back[l]) : b.ready /\ (c # b.id => c \in W)
          BY <2>3, <3>3
        <5>2. c \notin W /\ c \notin mixed
          BY <3>3
        <5> QED
          BY <5>1, <5>2
      <4>2. ToldFrom(l[2], c)
        BY <1>5, <4>1 DEF IInv, Wires, AnswersTrue
      <4>3. PICK n \in DOMAIN Hops(c) : n + 1 \in DOMAIN Hops(c) /\ l = <<Hops(c)[n], Hops(c)[n + 1]>>
        BY <2>3 DEF IInv, Wires, Extending
      <4>4. /\ l[1] = Hops(c)[n] /\ l[2] = Hops(c)[n + 1]
            /\ DOMAIN Hops(c) = 1 .. Len(Hops(c)) /\ Len(Hops(c)) \in Nat
            /\ \A m \in 1 .. Len(Hops(c)) : Hops(c)[m] = Hops(c)[n] => m = n
        BY <3>1, <3>2, <4>3, NoHops, HopsTyped DEF IInv
      <4> SUFFICES ASSUME NEW m \in DOMAIN Hops(c), NEW j \in DOMAIN Hops(c), Hops(c)[m] = g, m <= j
                   PROVE  <<Hops(c)[j], c>> \in told
        BY DEF ToldFrom
      <4>5. m = n
        BY <3>2, <4>4
      <4>6. CASE j = n
        BY <3>2, <4>4, <4>6
      <4>7. CASE n + 1 <= j
        BY <4>2, <4>3, <4>4, <4>7 DEF ToldFrom
      <4> QED
        BY <4>4, <4>5, <4>6, <4>7
    <3> QED
      BY <3>2, <3>3
  <2> QED
    BY <2>1, <2>2, <2>3
<1>9. \A k \in Chan : \A d \in Id : Touched(k, d)' => Touched(k, d)
  <2> SUFFICES ASSUME NEW k \in Chan, NEW d \in Id, Touched(k, d)' PROVE Touched(k, d)
    OBVIOUS
  <2>1. CASE \E a \in Range(back'[k]) : a.id = d
    <3>1. PICK a \in Range(back'[k]) : a.id = d
      BY <2>1
    <3>2. a \in Range(back[k]) \/ via[<<l[1], d>>] = k
      BY <3>1 DEF Link
    <3> QED
      BY <1>5, <3>1, <3>2 DEF Touched
  <2>2. CASE (\E p \in Range(there'[k]) : p.id = d) \/ \E h \in Relay : via'[<<h, d>>] = k
    BY <2>2 DEF Touched
  <2> QED
    BY <2>1, <2>2 DEF Touched
<1> QED
  BY <1>1, <1>2, <1>4, <1>6, <1>7, <1>8, <1>9, HopStep DEF Wires

LEMMA HopTimeoutStep ==
    ASSUME IInv, NEW l \in HopLink, NEW c \in Id, HopTimeout(l, c)
    PROVE  IInv'
<1>0. PICK W \in SUBSET Id : W = {}
  OBVIOUS
<1>1. PICK x : x = via[<<l[1], c>>]
  OBVIOUS
<1>2. /\ c \in listening[l]
      /\ listening' = [listening EXCEPT ![l] = @ \ {c}]
      /\ back' = IF x = NoChan THEN back ELSE Answered(x, c, FALSE)
      /\ UNCHANGED <<poolVars, call, circuits, plan, there, via, saved, history, faults>>
  BY <1>1 DEF HopTimeout
<1>3. l \in Link /\ l \notin Chan /\ l[1] \in Relay
  BY HopLinkTyped DEF Link
<1>4. x \in Link \cup {NoChan}
  BY <1>1, <1>3 DEF IInv, TypeOK
<1>5. /\ listening' \in [Link -> SUBSET Id]
      /\ \A y \in Link : listening'[y] \subseteq listening[y]
      /\ \A k \in Chan : listening'[k] = listening[k]
  BY <1>2, <1>3 DEF IInv, TypeOK, Link
<1>6. /\ back' \in [Link -> Seq(Answers)]
      /\ \A y \in Link : \A a \in Range(back'[y]) :
            a \in Range(back[y]) \/ (a = [ready |-> FALSE, id |-> c] /\ x = y)
      /\ \A k \in Chan : Silent(k) => back'[k] = <<>>
  <2>1. CASE x = NoChan
    BY <1>2, <2>1 DEF IInv, TypeOK, Silent
  <2>2. CASE x \in Link
    <3>1. /\ back' \in [Link -> Seq(Answers)]
          /\ \A y \in Link \ {x} : back'[y] = back[y]
          /\ Range(back'[x]) = Range(back[x]) \cup {[ready |-> FALSE, id |-> c]}
      BY <1>2, <2>2, AnsweredTyped, HopLinkTyped DEF IInv
    <3>2. \A k \in Chan : Silent(k) => k # x
      BY <1>1, <1>3 DEF Silent
    <3> QED
      BY <3>1, <3>2 DEF Silent, Link
  <2> QED
    BY <1>4, <2>1, <2>2
<1>7. \A y \in Link : \A a \in Range(back'[y]) :
        a \in Range(back[y]) \/
        /\ a.id \in listening[l] /\ via[<<l[1], a.id>>] = y
        /\ a.ready => \E b \in Range(back[l]) : b.ready /\ (a.id # b.id => a.id \in W)
  <2> SUFFICES ASSUME NEW y \in Link, NEW a \in Range(back'[y]), a \notin Range(back[y])
               PROVE  a.id \in listening[l] /\ via[<<l[1], a.id>>] = y /\ a.ready = FALSE
    OBVIOUS
  <2>1. a = [ready |-> FALSE, id |-> c] /\ x = y
    BY <1>6
  <2> QED
    BY <1>1, <1>2, <2>1
<1>8. mixed' = mixed \cup W
  BY <1>0, <1>2 DEF history
<1>9. UNCHANGED <<poolVars, call, circuits, plan, there, via, saved, told, swallowed, faults>>
  BY <1>2 DEF history
<1>10. back' \in [Link -> Seq(Answers)] /\ \A k \in Chan : Silent(k) => back'[k] = <<>>
  BY <1>6
<1> QED
  BY <1>5, <1>7, <1>8, <1>9, <1>10, PassingStep

LEMMA NothingListed == SetToSeq({}) = <<>>
<1>1. SetToSeq({}) \in Seq({})
  BY InListed, FS_EmptySet
<1> QED
  BY <1>1, LenProperties, EmptySeq, ElementOfSeq

LEMMA FinitelyMany ==
    ASSUME NEW T, IsFiniteSet(T), NEW v
    PROVE  IsFiniteSet({[ready |-> v, id |-> c] : c \in T})
<1> DEFINE R == {[ready |-> v, id |-> c] : c \in T}
           f == [c \in T |-> [ready |-> v, id |-> c]]
<1>1. f \in [T -> R] /\ \A r \in R : \E c \in T : f[c] = r
  OBVIOUS
<1>2. f \in Surjection(T, R)
  BY <1>1 DEF Surjection
<1> HIDE DEF f, R
<1>3. IsFiniteSet(R)
  BY <1>2, FS_Surjection
<1> QED
  BY <1>3 DEF R

\* Each extension that listened passes the answer on, where it can.
LEMMA PassedOn ==
    ASSUME IInv, NEW l \in HopLink, HopAnswer(l)
    PROVE  /\ Head(back[l]) \in Range(back[l]) /\ listening[l] \subseteq Id
           /\ back' \in [Link -> Seq(Answers)]
           /\ \A x \in Link : \A b \in Range(back'[x]) :
                 b \in Range(back[x]) \/
                 /\ b.id \in listening[l] /\ via[<<l[1], b.id>>] = x
                 /\ b.ready = Head(back[l]).ready
           /\ \A k \in Chan : Silent(k) => back'[k] = <<>>
<1>1. PICK a, W : a = Head(back[l]) /\ W = listening[l]
  OBVIOUS
<1> DEFINE Way(x) == {w \in W : via[<<l[1], w>>] = x}
           Passed(x) == {[ready |-> a.ready, id |-> c] : c \in Way(x)}
<1>2. /\ back[l] # <<>>
      /\ back' = [x \in Link |-> IF x = l THEN Tail(back[x]) ELSE back[x] \o SetToSeq(Passed(x))]
  BY <1>1 DEF HopAnswer
<1>3. l \in Link /\ l \notin Chan
  BY HopLinkTyped DEF Link
<1>4. /\ a \in Answers /\ a \in Range(back[l]) /\ a.ready \in BOOLEAN
      /\ Tail(back[l]) \in Seq(Answers) /\ Range(Tail(back[l])) \subseteq Range(back[l])
  <2>1. back[l] \in Seq(Answers)
    BY <1>3 DEF IInv, TypeOK
  <2>2. /\ a \in Answers /\ a \in Range(back[l])
        /\ Tail(back[l]) \in Seq(Answers) /\ Range(Tail(back[l])) \subseteq Range(back[l])
    BY <1>1, <1>2, <2>1, InTail
  <2> QED
    BY <2>2 DEF Answers
<1>5. W \subseteq Id
  BY <1>1, <1>3 DEF IInv, TypeOK
<1>6. ASSUME NEW x \in Link
      PROVE  SetToSeq(Passed(x)) \in Seq(Answers) /\ Range(SetToSeq(Passed(x))) \subseteq Passed(x)
  <2>1. IsFiniteSet(Way(x))
    BY <1>5, FS_Subset, CircuitsAssumption
  <2>2. IsFiniteSet(Passed(x))
    <3> HIDE DEF Way
    <3> QED
      BY <2>1, FinitelyMany
  <2>3. Passed(x) \in SUBSET Answers
    <3>1. \A c \in Way(x) : c \in Id
      BY <1>5
    <3>2. \A c \in Id : [ready |-> a.ready, id |-> c] \in Answers
      BY <1>4 DEF Answers
    <3> HIDE DEF Way
    <3> QED
      BY <3>1, <3>2
  <2> HIDE DEF Passed
  <2> QED
    BY <2>2, <2>3, InListed
<1>7. ASSUME NEW x \in Link
      PROVE  back'[x] \in Seq(Answers) /\ Range(back'[x]) \subseteq Range(back[x]) \cup Passed(x)
  <2> HIDE DEF Passed
  <2>1. CASE x = l
    BY <1>2, <1>3, <1>4, <2>1
  <2>2. CASE x # l
    <3>1. back'[x] = back[x] \o SetToSeq(Passed(x)) /\ back[x] \in Seq(Answers)
      BY <1>2, <2>2 DEF IInv, TypeOK
    <3> QED
      BY <1>6, <3>1, ConcatProperties, RangeConcatenation
  <2> QED
    BY <2>1, <2>2
<1>8. back' \in [Link -> Seq(Answers)]
  BY <1>2, <1>7
<1>9. \A x \in Link : \A b \in Passed(x) :
        b.id \in listening[l] /\ via[<<l[1], b.id>>] = x /\ b.ready = Head(back[l]).ready
  <2> SUFFICES ASSUME NEW x \in Link, NEW b \in Passed(x)
               PROVE  b.id \in W /\ via[<<l[1], b.id>>] = x /\ b.ready = a.ready
    BY <1>1
  <2>1. PICK c \in Way(x) : b = [ready |-> a.ready, id |-> c]
    OBVIOUS
  <2> QED
    BY <2>1
<1>10. \A k \in Chan : Silent(k) => back'[k] = <<>>
  <2> SUFFICES ASSUME NEW k \in Chan, Silent(k) PROVE back'[k] = <<>>
    OBVIOUS
  <2>1. k \in Link /\ k # l /\ back[k] = <<>> /\ l[1] \in Relay
    BY <1>3, HopLinkTyped DEF Silent, Link
  <2>2. Way(k) = {}
    BY <1>5, <2>1 DEF Silent
  <2>3. Passed(k) = {}
    BY <2>2
  <2>4. back'[k] = <<>> \o <<>>
    BY <1>2, <2>1, <2>3, NothingListed
  <2> QED
    BY <2>4
<1> QED
  BY <1>1, <1>4, <1>5, <1>7, <1>8, <1>9, <1>10

LEMMA HopAnswerStep ==
    ASSUME IInv, NEW l \in HopLink, HopAnswer(l)
    PROVE  IInv'
<1>1. PICK a, W : a = Head(back[l]) /\ W = listening[l]
  OBVIOUS
<1>2. /\ listening' = [listening EXCEPT ![l] = {}]
      /\ mixed' = IF a.ready THEN mixed \cup (W \ {a.id}) ELSE mixed
      /\ UNCHANGED <<poolVars, call, circuits, plan, there, via, saved, told, swallowed, faults>>
  BY <1>1 DEF HopAnswer
<1>3. l \in Link /\ l \notin Chan
  BY HopLinkTyped DEF Link
<1>4. /\ a \in Range(back[l]) /\ W \subseteq Id
      /\ back' \in [Link -> Seq(Answers)] /\ \A k \in Chan : Silent(k) => back'[k] = <<>>
  BY <1>1, PassedOn
<1>5. PICK V \in SUBSET Id : V = IF a.ready THEN W \ {a.id} ELSE {}
  BY <1>4
<1>6. mixed' = mixed \cup V
  BY <1>2, <1>5
<1>7. \A x \in Link : \A b \in Range(back'[x]) :
         b \in Range(back[x]) \/
         /\ b.id \in listening[l] /\ via[<<l[1], b.id>>] = x
         /\ b.ready => \E e \in Range(back[l]) : e.ready /\ (b.id # e.id => b.id \in V)
  <2> SUFFICES ASSUME NEW x \in Link, NEW b \in Range(back'[x]), b \notin Range(back[x])
               PROVE  /\ b.id \in listening[l] /\ via[<<l[1], b.id>>] = x
                      /\ b.ready => a.ready /\ (b.id # a.id => b.id \in V)
    BY <1>4
  <2>1. b.id \in listening[l] /\ via[<<l[1], b.id>>] = x /\ b.ready = a.ready
    BY <1>1, PassedOn
  <2> QED
    BY <1>1, <1>5, <2>1
<1>8. /\ listening' \in [Link -> SUBSET Id]
      /\ \A x \in Link : listening'[x] \subseteq listening[x]
      /\ \A k \in Chan : listening'[k] = listening[k]
  BY <1>2, <1>3 DEF IInv, TypeOK, Link
<1> QED
  BY <1>2, <1>4, <1>6, <1>7, <1>8, PassingStep
-----------------------------------------------------------------------------
(* The guard's answer                                                       *)

\* It settles the builds that wait for it, and no others.
LEMMA SettledCalls ==
    ASSUME IInv, NEW k \in Chan, NEW W, W = listening[k], NEW ready \in BOOLEAN,
           call' = [s \in Send |-> IF call[s].pc # "await" \/ call[s].id \notin W THEN call[s]
                                   ELSE IF ready THEN [call[s] EXCEPT !.pc = "cell"]
                                   ELSE Failed(s)],
           listening' = [listening EXCEPT ![k] = {}],
           circuits' = IF ready THEN circuits \cup W ELSE circuits,
           plan' = plan, to' = to
    PROVE  /\ call' \in [Send -> Calls]
           /\ \A c \in W : c \in Id /\ Hops(c) # <<>> /\ Hops(c)[1] = to[k]
           /\ \A s \in Send : call'[s].pc \in {"dial", "await"} => call'[s] = call[s]
           /\ CallsWell'
<1> DEFINE Settled(s) == call[s].pc = "await" /\ call[s].id \in W
<1>1. \A s \in Send : /\ call'[s].id = call[s].id /\ call'[s].first = call[s].first
                      /\ call'[s].chan = call[s].chan
                      /\ ~Settled(s) => call'[s] = call[s]
                      /\ Settled(s) => /\ call'[s].pc \in {"cell", "failed", "thrown"}
                                       /\ call'[s].pc = "failed" => call[s].id = call[s].first
                                       /\ ready => call'[s].pc = "cell"
  BY DEF IInv, TypeOK, Calls, Failed
<1>2. call' \in [Send -> Calls]
  <2> SUFFICES ASSUME NEW s \in Send PROVE call'[s] \in Calls
    OBVIOUS
  <2>1. call[s] \in Calls
    BY DEF IInv, TypeOK
  <2>2. [call[s] EXCEPT !.pc = "cell"] \in Calls
    BY <2>1, FieldTyped
  <2>3. Failed(s) \in Calls
    BY <2>1, FieldTyped DEF Failed
  <2> QED
    BY <2>1, <2>2, <2>3
<1>3. \A c \in W : c \in Id /\ \E s \in Send : call[s].pc = "await" /\ call[s].chan = k /\ call[s].id = c
  BY DEF IInv, TypeOK, Link, CallsWell, Listening
<1>4. ASSUME NEW s \in Send, Settled(s) PROVE call[s].chan = k
  <2>1. PICK t \in Send : call[t].pc = "await" /\ call[t].chan = k /\ call[t].id = call[s].id
    BY <1>3, <1>4
  <2>2. t = s
    BY <1>4, <2>1 DEF IInv, CallsWell, Owned, Pending
  <2> QED
    BY <2>1, <2>2
<1>5. ASSUME NEW c \in W PROVE c \in Id /\ Hops(c) # <<>> /\ Hops(c)[1] = to[k]
  <2>1. PICK s \in Send : call[s].pc = "await" /\ call[s].chan = k /\ call[s].id = c
    BY <1>3
  <2>2. /\ call[s].id # NoId => call[s].id \in Id /\ Hops(call[s].id) # <<>>
        /\ to[call[s].chan] = Hops(call[s].id)[1]
    BY <2>1, CallTyped DEF IInv
  <2> QED
    BY <1>3, <2>1, <2>2, CircuitsAssumption
<1> HIDE DEF Settled
<1>6. CallsBuilt'
  <2> SUFFICES ASSUME NEW s \in Send PROVE CallBuilt(s)'
    BY DEF CallsBuilt
  <2>1. CallBuilt(s)
    BY DEF IInv, CallsWell, CallsBuilt
  <2>2. CASE Settled(s)
    <3>1. /\ call[s].pc = "await" /\ call[s].id # NoId
          /\ call[s].first # NoId
      BY <2>1, <2>2 DEF CallBuilt, Pending, Settled
    <3>2. /\ call'[s].pc \in {"cell", "failed", "thrown"}
          /\ call'[s].pc = "failed" => call[s].id = call[s].first
      BY <1>1, <2>2
    <3>3. Hops(call[s].id) # <<>> /\ Hops(call[s].first) # <<>>
      BY <2>1, <3>1 DEF CallBuilt
    <3> QED
      BY <1>1, <3>1, <3>2, <3>3 DEF CallBuilt, Hops, Pending
  <2>3. CASE ~Settled(s)
    BY <1>1, <2>1, <2>3 DEF CallBuilt, Hops
  <2> QED
    BY <2>2, <2>3
<1>7. CircuitsBuilt'
  <2>1. \A c \in circuits : Hops(c) # <<>>
    BY DEF IInv, CallsWell, CircuitsBuilt
  <2>2. \A c \in circuits' : Hops(c) # <<>>
    BY <1>5, <2>1
  <2> QED
    BY <2>2 DEF CircuitsBuilt, Hops
<1>8. \A s \in Send : call'[s].pc \in {"dial", "await"} => ~Settled(s) /\ call'[s] = call[s]
  BY <1>1
<1>9. Listening'
  <2> SUFFICES ASSUME NEW x \in Chan, NEW c \in Id
               PROVE  c \in listening'[x] <=>
                        \E s \in Send : call'[s].pc = "await" /\ call'[s].chan = x /\ call'[s].id = c
    BY DEF Listening
  <2>1. c \in listening[x] <=>
            \E s \in Send : call[s].pc = "await" /\ call[s].chan = x /\ call[s].id = c
    BY DEF IInv, CallsWell, Listening
  <2>2. CASE x = k
    <3>1. listening'[x] = {}
      BY <2>2 DEF IInv, TypeOK, Link
    <3>2. ~\E s \in Send : call'[s].pc = "await" /\ call'[s].chan = x /\ call'[s].id = c
      BY <1>8, <2>1, <2>2 DEF Settled
    <3> QED
      BY <3>1, <3>2
  <2>3. CASE x # k
    <3>1. listening'[x] = listening[x]
      BY <2>3 DEF IInv, TypeOK, Link
    <3>2. \A s \in Send : call[s].pc = "await" /\ call[s].chan = x => call'[s] = call[s]
      BY <1>1, <1>4, <2>3
    <3> QED
      BY <1>8, <2>1, <3>1, <3>2
  <2> QED
    BY <2>2, <2>3
<1>10. ASSUME NEW s \in Send, call'[s].pc \in Pending
       PROVE  /\ NoCircuit(call[s].id)'
              /\ \A t \in Send \ {s} : call'[t].first # call'[s].id /\ call'[t].id # call'[s].id
  <2>1. call[s].pc \in Pending
    BY <1>1, <1>10 DEF Pending, Settled
  <2>2. /\ NoCircuit(call[s].id)
        /\ \A t \in Send \ {s} : call[t].first # call[s].id /\ call[t].id # call[s].id
    BY <2>1 DEF IInv, CallsWell, Owned
  <2>3. call[s].id \notin circuits'
    <3>1. CASE call[s].id \in W /\ ready
      <4>1. PICK t \in Send : call[t].pc = "await" /\ call[t].id = call[s].id
        BY <1>3, <3>1
      <4>2. t = s
        BY <2>2, <4>1
      <4>3. call'[s].pc = "cell"
        BY <1>1, <3>1, <4>1, <4>2 DEF Settled
      <4> QED
        BY <1>10, <4>3 DEF Pending
    <3> QED
      BY <2>2, <3>1 DEF NoCircuit
  <2>4. \A t \in Send : call'[t].id = call[s].id => t = s
    BY <1>1, <2>2
  <2>5. call'[s].pc \notin {"cell", "write"}
    BY <1>10 DEF Pending
  <2>6. NoCircuit(call[s].id)'
    <3>1. PICK c : c = call[s].id /\ c = call'[s].id
      BY <1>1
    <3>2. NoCircuit(c)'
      BY <2>3, <2>4, <2>5, <3>1 DEF NoCircuit
    <3> QED
      BY <3>1, <3>2
  <2>7. ASSUME NEW t \in Send \ {s}
        PROVE  call'[t].first # call'[s].id /\ call'[t].id # call'[s].id
    <3>1. call'[t].first = call[t].first /\ call'[t].id = call[t].id /\ call'[s].id = call[s].id
      BY <1>1
    <3> QED
      BY <2>2, <3>1
  <2> QED
    BY <2>6, <2>7
<1>11. ASSUME NEW s \in Send, call'[s].first # NoId, call'[s].id # call'[s].first
       PROVE  NoCircuit(call[s].first)'
  <2>1. PICK c : c = call[s].first /\ c = call'[s].first /\ c # call[s].id /\ c # NoId
    BY <1>1, <1>11
  <2>2. NoCircuit(c)
    BY <2>1 DEF IInv, CallsWell, Owned
  <2>3. c \notin W
    <3> SUFFICES ASSUME c \in W PROVE FALSE
      OBVIOUS
    <3>1. PICK t \in Send : call[t].pc = "await" /\ call[t].id = c
      BY <1>3
    <3>2. t # s
      BY <2>1, <3>1
    <3> QED
      BY <2>1, <3>1, <3>2 DEF IInv, CallsWell, Owned, Pending
  <2>4. \A t \in Send : call'[t].id = c => call'[t] = call[t]
    BY <1>1, <2>3 DEF Settled
  <2>5. NoCircuit(c)'
    BY <1>1, <2>2, <2>3, <2>4 DEF NoCircuit
  <2> QED
    BY <2>1, <2>5
<1>12. Owned'
  BY <1>10, <1>11 DEF Owned
<1> QED
  BY <1>2, <1>5, <1>6, <1>7, <1>8, <1>9, <1>12 DEF CallsWell

LEMMA GuardAnswerStep ==
    ASSUME IInv, NEW k \in Chan, GuardAnswer(k)
    PROVE  IInv'
<1>1. PICK a, W : a = Head(back[k]) /\ W = listening[k]
  OBVIOUS
<1>2. k \in Link /\ back[k] \in Seq(Answers) /\ W \subseteq Id
  BY <1>1 DEF Link, IInv, TypeOK
<1>3. /\ back[k] # <<>> /\ back' = [back EXCEPT ![k] = Tail(@)]
      /\ listening' = [listening EXCEPT ![k] = {}]
      /\ call' = [s \in Send |-> IF call[s].pc # "await" \/ call[s].id \notin W THEN call[s]
                                 ELSE IF a.ready THEN [call[s] EXCEPT !.pc = "cell"]
                                 ELSE Failed(s)]
      /\ circuits' = IF a.ready THEN circuits \cup W ELSE circuits
      /\ mixed' = IF a.ready THEN mixed \cup (W \ {a.id}) ELSE mixed
      /\ UNCHANGED <<poolVars, plan, there, via, saved, told, swallowed, faults>>
  BY <1>1 DEF GuardAnswer
<1>4. /\ a \in Range(back[k]) /\ a \in Answers
      /\ Tail(back[k]) \in Seq(Answers) /\ Range(Tail(back[k])) \subseteq Range(back[k])
  BY <1>1, <1>2, <1>3, InTail
<1>5. Live(k)
  BY <1>3 DEF IInv, Quiet, Silent
<1>6. a.ready \in BOOLEAN /\ to' = to /\ plan' = plan
  BY <1>3, <1>4 DEF Answers, poolVars
<1>7. /\ call' \in [Send -> Calls]
      /\ \A c \in W : c \in Id /\ Hops(c) # <<>> /\ Hops(c)[1] = to[k]
      /\ \A s \in Send : call'[s].pc \in {"dial", "await"} => call'[s] = call[s]
      /\ CallsWell'
  BY <1>1, <1>3, <1>6, SettledCalls
<1>8. /\ back' \in [Link -> Seq(Answers)]
      /\ \A x \in Link \ {k} : back'[x] = back[x]
      /\ Range(back'[k]) \subseteq Range(back[k])
  BY <1>2, <1>3, <1>4 DEF IInv, TypeOK
<1>9. TypeOK'
  BY <1>2, <1>3, <1>7, <1>8 DEF IInv, TypeOK, PoolTypeOK, poolVars
<1>10. Pooling'
  BY <1>3 DEF IInv, Pooling, poolVars
<1>11. Quiet'
  <2> SUFFICES ASSUME NEW x \in Chan, ~Live(x) PROVE Silent(x)'
    BY <1>3 DEF Quiet, Live, poolVars
  <2>1. x # k /\ x \in Link /\ Silent(x)
    BY <1>5 DEF Link, IInv, Quiet
  <2> QED
    BY <1>3, <1>8, <2>1 DEF Silent
<1>12. \A l \in HopLink : listening'[l] = listening[l]
  BY <1>2, <1>3, HopLinkTyped DEF IInv, TypeOK, Link
<1>13. Shrinks
  <2>1. \A l \in Link : Range(there'[l]) \subseteq Range(there[l]) /\ Range(back'[l]) \subseteq Range(back[l])
    BY <1>3, <1>8
  <2>2. \A x \in Relay \X Id : via'[x] \in {via[x], NoChan}
    BY <1>3
  <2>3. mixed \subseteq mixed'
    BY <1>3
  <2> QED
    BY <1>3, <1>6, <1>12, <2>1, <2>2, <2>3, PlanStays DEF Shrinks
<1>14. Wires'
  BY <1>13, WiresShrink DEF IInv
<1>15. Separate'
  <2> SUFFICES ASSUME NEW s \in Send, call'[s].pc \in {"dial", "await"}, call'[s].id # call'[s].first
               PROVE  ~Touched(call[s].chan, call[s].first)'
    BY DEF Separate
  <2>1. call'[s] = call[s]
    BY <1>7
  <2>2. PICK x \in Chan, d \in Id : x = call[s].chan /\ d = call[s].first
    BY <2>1, CallTyped DEF IInv, Pending
  <2>3. ~Touched(x, d)
    BY <2>1, <2>2 DEF IInv, Separate
  <2>4. ~Touched(x, d)'
    BY <1>13, <2>3, TouchedShrinks
  <2> QED
    BY <2>1, <2>2, <2>4
<1>16. GuardUp'
  <2> SUFFICES ASSUME NEW c \in circuits' PROVE \E x \in Chan : to[x] = Hops(c)[1] /\ phase[x] # "closed"
    BY <1>3 DEF GuardUp, Hops, poolVars
  <2>1. CASE c \in circuits
    BY <2>1 DEF IInv, GuardUp
  <2>2. CASE c \in W
    BY <1>5, <1>7, <2>2, PoolAssumption DEF Live
  <2> QED
    BY <1>3, <2>1, <2>2
<1>17. WentThrough'
  <2> SUFFICES ASSUME NEW c \in circuits', c \notin mixed', NEW h \in Range(Hops(c)) PROVE <<h, c>> \in told
    BY <1>3 DEF WentThrough, Hops
  <2>1. CASE c \in circuits
    BY <1>3, <2>1 DEF IInv, WentThrough
  <2>2. CASE c \in W /\ a.ready
    <3>1. c = a.id /\ c \notin mixed
      BY <1>3, <2>2
    <3>2. ToldFrom(Hops(c)[1], c)
      BY <1>2, <1>4, <1>7, <2>2, <3>1 DEF IInv, Wires, AnswersTrue, At
    <3>3. DOMAIN Hops(c) = 1 .. Len(Hops(c)) /\ Len(Hops(c)) \in Nat \ {0}
      BY <1>7, <2>2, HopsTyped DEF IInv
    <3>4. PICK j \in DOMAIN Hops(c) : h = Hops(c)[j]
      BY DEF Range
    <3> QED
      BY <3>2, <3>3, <3>4 DEF ToldFrom
  <2> QED
    BY <1>3, <2>1, <2>2
<1> QED
  BY <1>7, <1>9, <1>10, <1>11, <1>14, <1>15, <1>16, <1>17 DEF IInv
-----------------------------------------------------------------------------
(* Every step                                                               *)

LEMMA InitHolds == Init => IInv
<1> SUFFICES ASSUME Init PROVE IInv
  OBVIOUS
<1> USE DEF Init, PoolInit
<1>1. AnyRelay \in Relay
  BY PoolAssumption DEF AnyRelay
<1>2. (CHOOSE t \in Targets : TRUE) \in Targets
  BY CircuitsAssumption DEF Targets
<1>3. PoolTypeOK
  BY <1>1 DEF PoolTypeOK, Phases
<1>4. call \in [Send -> Calls]
  BY DEF Calls
<1>5. plan \in [Id -> [hops : HopLists \cup {<<>>}, to : Targets]]
  BY <1>2
<1>6. TypeOK
  BY <1>3, <1>4, <1>5, InEmpty, CircuitsAssumption DEF TypeOK
<1>7. Pooling /\ GuardUp /\ WentThrough
  BY DEF Pooling, GuardUp, WentThrough
<1>8. Quiet
  BY PoolAssumption DEF Quiet, Silent, Link
<1>9. Wires
  BY InEmpty DEF Wires, Packed, AnswersTrue, ViaTrue, Extending, Link
<1>10. CallsWell
  <2>1. \A s \in Send : call[s].pc = "idle" /\ call[s].id = NoId /\ call[s].first = NoId
    OBVIOUS
  <2>2. CallsBuilt
    BY <2>1 DEF CallsBuilt, CallBuilt, Pending
  <2>3. CircuitsBuilt
    BY DEF CircuitsBuilt
  <2>4. Listening
    BY <2>1 DEF Listening, Link
  <2>5. Owned
    BY <2>1 DEF Owned, Pending
  <2> QED
    BY <2>2, <2>3, <2>4, <2>5 DEF CallsWell
<1>11. Separate
  BY DEF Separate
<1> QED
  BY <1>6, <1>7, <1>8, <1>9, <1>10, <1>11 DEF IInv

LEMMA StepHolds == IInv /\ [Next]_vars => IInv'
<1> SUFFICES ASSUME IInv, [Next]_vars PROVE IInv'
  OBVIOUS
<1>1. ASSUME NEW s \in Send, CallStep(s) PROVE IInv'
  BY <1>1, ReuseStep, FirstBuildStep, WriteCreateStep, DialFailsStep, GuardTimeoutStep, RetryStep,
     TakeChannelStep, WriteCellStep, CellFailsStep
  DEF CallStep
<1>2. ASSUME NEW k \in Chan, \/ HandshakeDone(k) \/ DialBreaks(k) \/ ChannelBreaks(k)
                             \/ CloseEvent(k) \/ GuardAnswer(k)
      PROVE  IInv'
  BY <1>2, HandshakeStep, BreakStep, CloseStep, GuardAnswerStep
<1>3. ASSUME NEW l \in Link, LinkStep(l) PROVE IInv'
  BY <1>3, AnswerAsExitStep, ExtendStep, ExtendFailsStep, DropCellStep DEF LinkStep
<1>4. ASSUME NEW l \in HopLink, HopAnswer(l) \/ HopLinkBreaks(l) \/ \E c \in Id : HopTimeout(l, c)
      PROVE  IInv'
  BY <1>4, HopAnswerStep, LinkBreakStep, HopTimeoutStep
<1>5. ASSUME NEW h \in Relay, RestartHop(h) PROVE IInv'
  BY <1>5, RestartStep
<1>6. ASSUME NEW c \in Id, Expire(c) PROVE IInv'
  BY <1>6, ExpireStep
<1>7. CASE UNCHANGED vars
  <2>1. UNCHANGED <<poolVars, plan, wires, told, mixed>> /\ call' = call /\ circuits' = circuits
        /\ listening' = listening /\ TypeOK'
    BY <1>7 DEF vars, hopVars, history, poolVars, wires, IInv, TypeOK, PoolTypeOK
  <2>2. Pooling' /\ Quiet' /\ Shrinks /\ GuardUp' /\ to' = to
    BY <2>1, StillStep
  <2> QED
    BY <2>1, <2>2, ShrinkingStep
<1> QED
  BY <1>1, <1>2, <1>3, <1>4, <1>5, <1>6, <1>7 DEF Next

LEMMA Invariance == Spec => []IInv
BY InitHolds, StepHolds, PTL DEF Spec

LEMMA SeparateApart == ASSUME IInv PROVE RetryApart
<1> SUFFICES ASSUME NEW s \in Send, call[s].pc = "await", call[s].id # call[s].first
             PROVE  /\ \A i \in DOMAIN there[call[s].chan] : there[call[s].chan][i].id # call[s].first
                    /\ \A i \in DOMAIN back[call[s].chan] : back[call[s].chan][i].id # call[s].first
  BY DEF RetryApart
<1>1. ~Touched(call[s].chan, call[s].first)
  BY DEF IInv, Separate
<1> QED
  BY <1>1 DEF Touched, Range
-----------------------------------------------------------------------------
(* Whose answers a circuit may take for its own                             *)

\* The stretch of a way that link l serves.
Stretch(l) == IF l \in Chan THEN to[l] ELSE l

\* A packet or an answer is only ever on the links of its circuit's way.
Routed ==
    /\ \A l \in Link : \A p \in Range(there[l]) : Stretch(l) \in Legs(p.id)
    /\ \A l \in Link : \A a \in Range(back[l]) : Stretch(l) \in Legs(a.id)
    /\ \A h \in Relay, c \in Id : via[<<h, c>>] # NoChan => Stretch(via[<<h, c>>]) \in Legs(c)

LEMMA LegsKept ==
    ASSUME PlanExtends, NEW c \in Id, NEW x, x \in Legs(c)
    PROVE  x \in Legs(c)'
<1>1. Hops(c) # <<>>
  BY DEF Legs
<1>2. plan'[c] = plan[c]
  BY <1>1 DEF PlanExtends
<1> QED
  BY <1>2 DEF Legs, Hops

LEMMA FirstLeg ==
    ASSUME TypeOK, NEW c \in Id, Hops(c) # <<>>
    PROVE  Hops(c)[1] \in Legs(c)
<1>1. 1 \in DOMAIN Hops(c)
  BY HopsTyped
<1> QED
  BY <1>1 DEF Legs

LEMMA NextLeg ==
    ASSUME TypeOK, NEW c \in Id, NEW i \in DOMAIN Hops(c), i + 1 \in DOMAIN Hops(c)
    PROVE  <<Hops(c)[i], Hops(c)[i + 1]>> \in Legs(c)
<1>1. Hops(c) # <<>>
  OBVIOUS
<1>2. Len(Hops(c)) \in Nat /\ DOMAIN Hops(c) = 1 .. Len(Hops(c))
  BY <1>1, HopsTyped
<1>3. i + 1 # 1 /\ (i + 1) - 1 = i
  BY <1>2
<1> DEFINE Leg(j) == IF j = 1 THEN Hops(c)[1] ELSE <<Hops(c)[j - 1], Hops(c)[j]>>
<1>4. Leg(i + 1) = <<Hops(c)[i], Hops(c)[i + 1]>>
  BY <1>3
<1>5. Leg(i + 1) \in Legs(c)
  BY DEF Legs
<1> QED
  BY <1>4, <1>5

\* Steps that write nothing.
LEMMA RoutedLess ==
    ASSUME TypeOK, Routed, PlanExtends,
           \A l \in Link : /\ Range(there'[l]) \subseteq Range(there[l])
                          /\ Range(back'[l]) \subseteq Range(back[l]),
           \A x \in Relay \X Id : via'[x] \in {via[x], NoChan},
           \A k \in Chan : to'[k] = to[k] \/ Silent(k)'
    PROVE  Routed'
<1>1. ASSUME NEW l \in Link, NEW c \in Id, l \in Chan => ~Silent(l)', Stretch(l) \in Legs(c)
      PROVE  (Stretch(l) \in Legs(c))'
  <2>1. PICK x : x = Stretch(l) /\ x \in Legs(c)
    BY <1>1
  <2>2. x \in Legs(c)'
    BY <2>1, LegsKept
  <2>3. Stretch(l)' = x
    BY <1>1, <2>1 DEF Stretch
  <2> QED
    BY <2>2, <2>3
<1>2. ASSUME NEW l \in Link, NEW p \in Range(there'[l])
      PROVE  (Stretch(l) \in Legs(p.id))'
  <2>1. p \in Range(there[l]) /\ p.id \in Id
    BY WireTyped
  <2>2. there'[l] # <<>>
    BY <1>2, InEmpty
  <2>3. Stretch(l) \in Legs(p.id)
    BY <2>1 DEF Routed
  <2> QED
    BY <1>1, <2>1, <2>2, <2>3 DEF Silent
<1>3. ASSUME NEW l \in Link, NEW a \in Range(back'[l])
      PROVE  (Stretch(l) \in Legs(a.id))'
  <2>1. a \in Range(back[l]) /\ a.id \in Id
    BY WireTyped
  <2>2. back'[l] # <<>>
    BY <1>3, InEmpty
  <2>3. Stretch(l) \in Legs(a.id)
    BY <2>1 DEF Routed
  <2> QED
    BY <1>1, <2>1, <2>2, <2>3 DEF Silent
<1>4. ASSUME NEW h \in Relay, NEW c \in Id, via'[<<h, c>>] # NoChan
      PROVE  (Stretch(via[<<h, c>>]) \in Legs(c))'
  <2>1. PICK l : l = via'[<<h, c>>]
    OBVIOUS
  <2>2. l = via[<<h, c>>] /\ l # NoChan
    BY <1>4, <2>1
  <2>3. l \in Link /\ Stretch(l) \in Legs(c)
    BY <2>2 DEF Routed, TypeOK
  <2>4. ~Silent(l)'
    BY <2>1 DEF Silent
  <2>5. (Stretch(l) \in Legs(c))'
    BY <1>1, <2>3, <2>4
  <2> QED
    BY <2>1, <2>5 DEF Stretch
<1> QED
  BY <1>2, <1>3, <1>4 DEF Routed

\* Steps that write only on the way of the circuit they write of.
LEMMA RoutedMore ==
    ASSUME Routed, UNCHANGED <<poolVars, plan>>,
           \A l \in Link : \A p \in Range(there'[l]) :
              p \in Range(there[l]) \/ Stretch(l) \in Legs(p.id),
           \A l \in Link : \A a \in Range(back'[l]) :
              a \in Range(back[l]) \/ Stretch(l) \in Legs(a.id),
           \A h \in Relay, c \in Id :
              via'[<<h, c>>] \in {via[<<h, c>>], NoChan} \/ Stretch(via'[<<h, c>>]) \in Legs(c)
    PROVE  Routed'
<1>1. \A l : Stretch(l)' = Stretch(l)
  BY DEF Stretch, poolVars
<1>2. \A c : Legs(c)' = Legs(c)
  BY DEF Legs, Hops
<1>3. \A l \in Link : \A p \in Range(there'[l]) : Stretch(l) \in Legs(p.id)
  BY DEF Routed
<1>4. \A l \in Link : \A a \in Range(back'[l]) : Stretch(l) \in Legs(a.id)
  BY DEF Routed
<1>5. \A h \in Relay, c \in Id : via'[<<h, c>>] # NoChan => Stretch(via'[<<h, c>>]) \in Legs(c)
  BY DEF Routed
<1> QED
  BY <1>1, <1>2, <1>3, <1>4, <1>5 DEF Routed, Stretch

LEMMA RoutedCut ==
    ASSUME IInv, Routed, NEW L, Cut(L), PlanExtends,
           \A k \in Chan : to'[k] = to[k] \/ phase[k] = "closed"
    PROVE  Routed'
<1>1. ASSUME NEW k \in Chan, to'[k] # to[k] PROVE Silent(k)'
  <2>1. Silent(k)
    BY <1>1 DEF IInv, Quiet, Live
  <2> QED
    BY <2>1, CutWires DEF IInv
<1>2. /\ \A l \in Link : /\ Range(there'[l]) \subseteq Range(there[l])
                         /\ Range(back'[l]) \subseteq Range(back[l])
      /\ \A x \in Relay \X Id : via'[x] \in {via[x], NoChan}
  BY CutWires DEF IInv
<1> QED
  BY <1>1, <1>2, RoutedLess DEF IInv

LEMMA RoutedStill ==
    ASSUME IInv, Routed, UNCHANGED <<poolVars, plan, wires>>
    PROVE  Routed'
<1>1. Cut({}) /\ to' = to
  BY NoCut DEF IInv, poolVars
<1> QED
  BY <1>1, RoutedCut, PlanStays

LEMMA RoutedTaken ==
    ASSUME IInv, Routed, PlanExtends, NEW C, NEW r \in Relay, NEW k \in Chan, GetChannel(C, r, k)
    PROVE  Routed'
<1>1. CASE UNCHANGED <<poolVars, wires>>
  <2>1. Cut({}) /\ to' = to
    BY <1>1, NoCut DEF IInv, poolVars
  <2> QED
    BY <2>1, RoutedCut
<1>2. CASE NewChannel(k) /\ Dial(r, k) /\ Cut({x \in Chan : phase'[x] = "dying"})
  <2>1. phase[k] = "closed" /\ to' = [to EXCEPT ![k] = r]
    BY <1>2, FreeClosed DEF Dial
  <2>2. \A x \in Chan : to'[x] = to[x] \/ phase[x] = "closed"
    BY <2>1 DEF IInv, TypeOK, PoolTypeOK
  <2> QED
    BY <1>2, <2>2, RoutedCut
<1> QED
  BY <1>1, <1>2 DEF GetChannel

LEMMA BuildingExtends ==
    ASSUME IInv, NEW s, NEW q, NEW c \in Id, NEW k, Building(s, q, c, k)
    PROVE  PlanExtends
BY DEF Building, PlanExtends, IInv, TypeOK

LEMMA CallRouted ==
    ASSUME IInv, Routed, NEW s \in Send, CallStep(s)
    PROVE  Routed'
<1>1. CASE Reuse(s) \/ DialFails(s) \/ GuardTimeout(s) \/ CellFails(s)
  <2>1. UNCHANGED <<poolVars, plan, wires>>
    BY <1>1 DEF Reuse, DialFails, GuardTimeout, CellFails
  <2> QED
    BY <2>1, RoutedStill
<1>2. CASE FirstBuild(s)
  <2>1. PICK q \in Routes[To[s]], c \in Id, k \in Chan, C \in SUBSET circuits :
          Building(s, q, c, k) /\ GetChannel(C, q[1], k)
    BY <1>2 DEF FirstBuild
  <2>2. q[1] \in Relay
    BY RouteTyped DEF HopLists, Targets
  <2> QED
    BY <2>1, <2>2, BuildingExtends, RoutedTaken
<1>3. CASE Retry(s)
  <2>1. PICK c \in Id, k \in Chan :
          /\ Building(s, Hops(call[s].id), c, k) /\ NewChannel(k)
          /\ to' = [to EXCEPT ![k] = Hops(call[s].id)[1]]
          /\ Cut({x \in Chan : phase'[x] = "dying"})
    BY <1>3 DEF Retry
  <2>2. \A x \in Chan : to'[x] = to[x] \/ phase[x] = "closed"
    BY <2>1, FreeClosed DEF IInv, TypeOK, PoolTypeOK
  <2> QED
    BY <2>1, <2>2, BuildingExtends, RoutedCut
<1>4. CASE TakeChannel(s)
  <2>1. PICK k \in Chan : GetChannel(circuits, Hops(call[s].id)[1], k)
    BY <1>4 DEF TakeChannel
  <2>2. call[s].pc = "cell" /\ plan' = plan
    BY <1>4 DEF TakeChannel
  <2>3. call[s].id \in Id /\ Hops(call[s].id) # <<>>
    BY <2>2, CallTyped, CircuitsAssumption DEF IInv, Pending
  <2>4. Hops(call[s].id)[1] \in Relay
    BY <2>3, HopsTyped DEF IInv
  <2> QED
    BY <2>1, <2>2, <2>4, PlanStays, RoutedTaken
<1>5. CASE WriteCreate(s) \/ WriteCell(s)
  <2>1. PICK k, c, e : /\ k = call[s].chan /\ c = call[s].id /\ e.id = c /\ e \in Packets
                       /\ there' = [there EXCEPT ![k] = Append(@, e)]
                       /\ call[s].pc \in {"dial", "write"}
                       /\ UNCHANGED <<poolVars, plan, back, via>>
    <3>1. call[s].pc \in {"dial", "write"} /\ UNCHANGED <<poolVars, plan, back, via>>
      BY <1>5 DEF WriteCreate, WriteCell
    <3>2. PICK e : /\ e = [kind |-> "create", id |-> call[s].id] \/ e = [kind |-> "cell", id |-> call[s].id]
                   /\ there' = [there EXCEPT ![call[s].chan] = Append(@, e)]
      BY <1>5 DEF WriteCreate, WriteCell
    <3>3. call[s].id \in Id
      BY <3>1, CallTyped DEF IInv, Pending
    <3>4. e.id = call[s].id /\ e \in Packets
      BY <3>2, <3>3 DEF Packets
    <3> QED
      BY <3>1, <3>2, <3>4
  <2>2. k \in Chan /\ k \in Link /\ c \in Id /\ Hops(c) # <<>> /\ to[k] = Hops(c)[1]
    <3>1. TypeOK /\ CallsWell
      BY DEF IInv
    <3>2. c \in Id /\ k \in Chan /\ to[k] = Hops(c)[1]
      BY <2>1, <3>1, CallTyped DEF Pending
    <3>3. c # NoId
      BY <3>2, CircuitsAssumption
    <3> QED
      BY <2>1, <3>1, <3>2, <3>3, CallTyped DEF Link
  <2>3. Stretch(k) \in Legs(c)
    BY <2>2, FirstLeg DEF Stretch, IInv
  <2>4. there[k] \in Seq(Packets)
    BY <2>2 DEF IInv, TypeOK
  <2>5. Range(Append(there[k], e)) = Range(there[k]) \cup {e}
    BY <2>1, <2>4, InAppend
  <2>6. ASSUME NEW l \in Link, NEW x \in Range(there'[l])
        PROVE  x \in Range(there[l]) \/ Stretch(l) \in Legs(x.id)
    BY <2>1, <2>2, <2>3, <2>5, <2>6 DEF IInv, TypeOK
  <2> QED
    BY <2>1, <2>6, RoutedMore
<1> QED
  BY <1>1, <1>2, <1>3, <1>4, <1>5 DEF CallStep

LEMMA ChannelRouted ==
    ASSUME IInv, Routed, NEW k \in Chan,
           \/ HandshakeDone(k) \/ DialBreaks(k) \/ ChannelBreaks(k)
           \/ CloseEvent(k) \/ GuardAnswer(k)
    PROVE  Routed'
<1>1. CASE HandshakeDone(k) \/ CloseEvent(k)
  <2>1. UNCHANGED <<to, plan, wires>>
    BY <1>1 DEF HandshakeDone, CloseEvent, Ready, Forget
  <2>2. Cut({})
    BY <2>1, NoCut DEF IInv
  <2> QED
    BY <2>1, <2>2, RoutedCut, PlanStays
<1>2. CASE DialBreaks(k) \/ ChannelBreaks(k)
  <2>1. Cut({k}) /\ UNCHANGED <<to, plan>>
    BY <1>2 DEF DialBreaks, ChannelBreaks, Breaks, Break
  <2> QED
    BY <2>1, RoutedCut, PlanStays
<1>3. CASE GuardAnswer(k)
  <2>1. /\ back[k] # <<>> /\ back' = [back EXCEPT ![k] = Tail(@)]
        /\ UNCHANGED <<poolVars, plan, there, via>>
    BY <1>3 DEF GuardAnswer
  <2>2. k \in Link /\ back[k] \in Seq(Answers)
    BY DEF Link, IInv, TypeOK
  <2>3. Range(Tail(back[k])) \subseteq Range(back[k])
    BY <2>1, <2>2, InTail
  <2>4. \A l \in Link : Range(back'[l]) \subseteq Range(back[l])
    BY <2>1, <2>3 DEF IInv, TypeOK
  <2> QED
    BY <2>1, <2>4, RoutedLess, PlanStays DEF poolVars, IInv
<1> QED
  BY <1>1, <1>2, <1>3

\* A hop answers over the link the packet came on, and extends to the next.
LEMMA LinkRouted ==
    ASSUME IInv, Routed, NEW l \in Link, LinkStep(l)
    PROVE  Routed'
<1>1. PICK h, c, x : h = At(l) /\ c = Head(there[l]).id /\ x = Onto(h, c)
  OBVIOUS
<1>2. /\ there[l] # <<>> /\ UNCHANGED <<poolVars, plan>>
      /\ there[l] \in Seq(Packets)
  BY DEF LinkStep, AnswerAsExit, Extend, ExtendFails, DropCell, Arrives, IInv, TypeOK
<1>3. /\ Head(there[l]) \in Range(there[l]) /\ Head(there[l]) \in Packets
      /\ Range(Tail(there[l])) \subseteq Range(there[l])
  BY <1>2, InTail
<1>4. c \in Id /\ h \in Relay /\ On(h, c)
  BY <1>1, <1>3, AtTyped DEF Packets, IInv, Wires, Packed
<1>5. Stretch(l) \in Legs(c)
  BY <1>1, <1>3 DEF Routed
<1>6. CASE DropCell(l)
  <2>1. there' = [there EXCEPT ![l] = Tail(@)] /\ UNCHANGED <<back, via>>
    BY <1>6 DEF DropCell
  <2>2. \A y \in Link : Range(there'[y]) \subseteq Range(there[y])
    BY <2>1, <1>3 DEF IInv, TypeOK
  <2> QED
    BY <1>2, <2>1, <2>2, RoutedLess, PlanStays DEF poolVars, IInv
<1>7. CASE AnswerAsExit(l) \/ ExtendFails(l)
  <2>1. PICK ready \in BOOLEAN : back' = Answered(l, c, ready)
    BY <1>1, <1>7 DEF AnswerAsExit, ExtendFails
  <2>2. there' = [there EXCEPT ![l] = Tail(@)] /\ via' = [via EXCEPT ![<<h, c>>] = l]
    BY <1>1, <1>7 DEF AnswerAsExit, ExtendFails, Saves
  <2>3. \A y \in Link : Range(there'[y]) \subseteq Range(there[y])
    BY <2>2, <1>3 DEF IInv, TypeOK
  <2>4. /\ \A y \in Link \ {l} : back'[y] = back[y]
        /\ Range(back'[l]) = Range(back[l]) \cup {[ready |-> ready, id |-> c]}
    BY <2>1, <1>4, AnsweredTyped DEF IInv
  <2>5. \A y \in Link : \A a \in Range(back'[y]) : a \in Range(back[y]) \/ Stretch(y) \in Legs(a.id)
    BY <2>4, <1>5
  <2>6. \A g \in Relay, d \in Id :
          via'[<<g, d>>] \in {via[<<g, d>>], NoChan} \/ Stretch(via'[<<g, d>>]) \in Legs(d)
    BY <2>2, <1>5 DEF IInv, TypeOK
  <2> QED
    BY <1>2, <2>3, <2>5, <2>6, RoutedMore
<1>8. CASE Extend(l)
  <2>1. PICK e : e = Head(there[l])
    OBVIOUS
  <2>2. /\ there' = [there EXCEPT ![l] = Tail(@), ![x] = Append(@, e)]
        /\ via' = [via EXCEPT ![<<h, c>>] = l] /\ back' = back /\ h # Exit(c)
    BY <1>1, <1>8, <2>1 DEF Extend, Saves
  <2>3. x \in HopLink /\ x \in Legs(c)
    BY <1>1, <1>4, <2>2, OntoNext, NextLeg DEF IInv
  <2>4. x \in Link /\ Stretch(x) \in Legs(c)
    BY <2>3, HopLinkTyped DEF Stretch, Link
  <2>5. PICK q : q = IF x = l THEN Tail(there[l]) ELSE there[x]
    OBVIOUS
  <2>6. q \in Seq(Packets) /\ Range(q) \subseteq Range(there[x])
    BY <1>2, <1>3, <2>4, <2>5, InTail DEF IInv, TypeOK
  <2>7. Range(Append(q, e)) = Range(q) \cup {e}
    BY <1>3, <2>1, <2>6, InAppend
  <2>8. there'[x] = Append(q, e) /\ \A y \in Link \ {x} : there'[y] = IF y = l THEN Tail(there[l]) ELSE there[y]
    BY <2>2, <2>4, <2>5 DEF IInv, TypeOK
  <2>9. \A y \in Link : \A f \in Range(there'[y]) : f \in Range(there[y]) \/ Stretch(y) \in Legs(f.id)
    BY <1>1, <1>3, <2>1, <2>4, <2>6, <2>7, <2>8
  <2>10. \A g \in Relay, d \in Id :
          via'[<<g, d>>] \in {via[<<g, d>>], NoChan} \/ Stretch(via'[<<g, d>>]) \in Legs(d)
    BY <2>2, <1>5 DEF IInv, TypeOK
  <2> QED
    BY <1>2, <2>2, <2>9, <2>10, RoutedMore
<1> QED
  BY <1>6, <1>7, <1>8 DEF LinkStep

\* A hop passes an answer on over the link it got the circuit's packet on.
LEMMA HopRouted ==
    ASSUME IInv, Routed, NEW l \in HopLink,
           HopAnswer(l) \/ HopLinkBreaks(l) \/ \E c \in Id : HopTimeout(l, c)
    PROVE  Routed'
<1>1. l[1] \in Relay /\ NoChan \notin Link
  BY HopLinkTyped
<1>2. CASE HopLinkBreaks(l)
  <2>1. Cut({l}) /\ UNCHANGED <<poolVars, plan>>
    BY <1>2 DEF HopLinkBreaks
  <2> QED
    BY <2>1, RoutedCut, PlanStays DEF poolVars
<1>3. CASE HopAnswer(l)
  <2>1. UNCHANGED <<poolVars, plan, there, via>>
    BY <1>3 DEF HopAnswer
  <2>2. ASSUME NEW x \in Link, NEW b \in Range(back'[x]), b \notin Range(back[x])
        PROVE  Stretch(x) \in Legs(b.id)
    <3>1. b.id \in Id /\ via[<<l[1], b.id>>] = x
      BY <1>3, <2>2, PassedOn
    <3> QED
      BY <1>1, <3>1 DEF Routed
  <2> QED
    BY <2>1, <2>2, RoutedMore
<1>4. ASSUME NEW c \in Id, HopTimeout(l, c) PROVE Routed'
  <2>1. PICK x : x = via[<<l[1], c>>]
    OBVIOUS
  <2>2. back' = (IF x = NoChan THEN back ELSE Answered(x, c, FALSE))
        /\ UNCHANGED <<poolVars, plan, there, via>>
    BY <1>4, <2>1 DEF HopTimeout
  <2>3. CASE x = NoChan
    BY <2>2, <2>3, RoutedStill DEF wires
  <2>4. CASE x # NoChan
    <3>1. x \in Link /\ Stretch(x) \in Legs(c)
      BY <1>1, <2>1, <2>4 DEF Routed, IInv, TypeOK
    <3>2. /\ \A y \in Link \ {x} : back'[y] = back[y]
          /\ Range(back'[x]) = Range(back[x]) \cup {[ready |-> FALSE, id |-> c]}
      BY <2>2, <2>4, <3>1, AnsweredTyped DEF IInv
    <3>3. \A y \in Link : \A a \in Range(back'[y]) : a \in Range(back[y]) \/ Stretch(y) \in Legs(a.id)
      BY <3>1, <3>2
    <3> QED
      BY <2>2, <3>3, RoutedMore
  <2> QED
    BY <2>3, <2>4
<1> QED
  BY <1>2, <1>3, <1>4

LEMMA RoutedStep == IInv /\ Routed /\ [Next]_vars => Routed'
<1> SUFFICES ASSUME IInv, Routed, [Next]_vars PROVE Routed'
  OBVIOUS
<1>1. ASSUME NEW h \in Relay, RestartHop(h) PROVE Routed'
  <2>1. PICK L : Cut(L) /\ UNCHANGED <<to, plan>>
    BY <1>1 DEF RestartHop
  <2> QED
    BY <2>1, RoutedCut, PlanStays
<1>2. ASSUME NEW c \in Id, Expire(c) PROVE Routed'
  <2>1. UNCHANGED <<poolVars, plan, wires>>
    BY <1>2 DEF Expire
  <2> QED
    BY <2>1, RoutedStill
<1>3. CASE UNCHANGED vars
  BY <1>3, RoutedStill DEF vars
<1> QED
  BY <1>1, <1>2, <1>3, CallRouted, ChannelRouted, LinkRouted, HopRouted DEF Next

\* A mistake, once made, was made about a circuit that keeps its way.
LEMMA MistakenKept ==
    ASSUME TypeOK, Mistaken, PlanExtends, mixed' \subseteq Id,
           \A c \in mixed' \ mixed : \E d \in Id \ {c} : Legs(c) \cap Legs(d) # {}
    PROVE  Mistaken'
<1> SUFFICES ASSUME NEW c \in mixed' PROVE \E d \in Id \ {c} : (Legs(c) \cap Legs(d) # {})'
  BY DEF Mistaken
<1>1. PICK d \in Id \ {c} : Legs(c) \cap Legs(d) # {}
  BY DEF Mistaken
<1>2. PICK x : x \in Legs(c) /\ x \in Legs(d)
  BY <1>1
<1>3. x \in Legs(c)' /\ x \in Legs(d)'
  BY <1>2, LegsKept
<1> QED
  BY <1>3

\* A build takes an answer for its own that came over its own guard.
LEMMA GuardMistaken ==
    ASSUME IInv, Routed, Mistaken, NEW k \in Chan, GuardAnswer(k)
    PROVE  Mistaken'
<1>1. PICK a, W : a = Head(back[k]) /\ W = listening[k]
  OBVIOUS
<1>2. back[k] # <<>> /\ mixed' = (IF a.ready THEN mixed \cup (W \ {a.id}) ELSE mixed) /\ plan' = plan
  BY <1>1 DEF GuardAnswer
<1>3. k \in Link /\ back[k] \in Seq(Answers) /\ W \subseteq Id
  BY <1>1 DEF Link, IInv, TypeOK
<1>4. a \in Answers /\ a \in Range(back[k])
  BY <1>1, <1>2, <1>3, InTail
<1>5. a.id \in Id /\ to[k] \in Legs(a.id)
  BY <1>3, <1>4 DEF Answers, Routed, Stretch
<1>6. ASSUME NEW c \in W PROVE to[k] \in Legs(c)
  <2>1. PICK s \in Send : call[s].pc = "await" /\ call[s].chan = k /\ call[s].id = c
    BY <1>1, <1>3 DEF IInv, CallsWell, Listening
  <2>2. c \in Id /\ Hops(c) # <<>> /\ to[k] = Hops(c)[1]
    BY <1>3, <2>1, CallTyped, CircuitsAssumption DEF IInv, Pending
  <2> QED
    BY <2>2, FirstLeg DEF IInv
<1>7. ASSUME NEW c \in mixed' \ mixed PROVE \E d \in Id \ {c} : Legs(c) \cap Legs(d) # {}
  BY <1>2, <1>5, <1>6
<1>8. mixed' \subseteq Id
  BY <1>2, <1>3 DEF IInv, TypeOK
<1> QED
  BY <1>2, <1>7, <1>8, MistakenKept, PlanStays DEF IInv

\* An extension takes an answer for its own that came over its own link.
LEMMA HopMistaken ==
    ASSUME IInv, Routed, Mistaken, NEW l \in HopLink, HopAnswer(l)
    PROVE  Mistaken'
<1>1. PICK a, W : a = Head(back[l]) /\ W = listening[l]
  OBVIOUS
<1>2. mixed' = (IF a.ready THEN mixed \cup (W \ {a.id}) ELSE mixed) /\ plan' = plan
  BY <1>1 DEF HopAnswer
<1>3. a \in Range(back[l]) /\ W \subseteq Id /\ l \in Link /\ l \notin Chan
  BY <1>1, PassedOn, HopLinkTyped DEF Link
<1>4. a.id \in Id /\ l \in Legs(a.id)
  BY <1>3, WireTyped DEF Routed, Stretch, IInv
<1>5. ASSUME NEW c \in W PROVE l \in Legs(c)
  BY <1>1, <1>3, NextLeg DEF IInv, Wires, Extending
<1>6. ASSUME NEW c \in mixed' \ mixed PROVE \E d \in Id \ {c} : Legs(c) \cap Legs(d) # {}
  BY <1>2, <1>4, <1>5
<1>7. mixed' \subseteq Id
  BY <1>2, <1>3 DEF IInv, TypeOK
<1> QED
  BY <1>2, <1>6, <1>7, MistakenKept, PlanStays DEF IInv

\* Nobody else takes an answer.
LEMMA MistakenStill ==
    ASSUME IInv, Mistaken, PlanExtends, mixed' = mixed
    PROVE  Mistaken'
BY MistakenKept DEF IInv, TypeOK

LEMMA MistakenStep == IInv /\ Routed /\ Mistaken /\ [Next]_vars => Mistaken'
<1> SUFFICES ASSUME IInv, Routed, Mistaken, [Next]_vars PROVE Mistaken'
  OBVIOUS
<1>1. ASSUME NEW s \in Send, CallStep(s) PROVE Mistaken'
  <2>1. CASE FirstBuild(s)
    <3>1. /\ mixed' = mixed
          /\ \E c \in Id, k \in Chan : \E q : Building(s, q, c, k)
      BY <2>1 DEF FirstBuild, hopVars, history
    <3> QED
      BY <3>1, BuildingExtends, MistakenStill
  <2>2. CASE Retry(s)
    <3>1. /\ mixed' = mixed
          /\ \E c \in Id, k \in Chan : Building(s, Hops(call[s].id), c, k)
      BY <2>2 DEF Retry, hopVars, history
    <3> QED
      BY <3>1, BuildingExtends, MistakenStill
  <2>3. CASE Reuse(s) \/ DialFails(s) \/ GuardTimeout(s) \/ CellFails(s)
    <3>1. mixed' = mixed /\ plan' = plan
      BY <2>3 DEF Reuse, DialFails, GuardTimeout, CellFails, hopVars, history
    <3> QED
      BY <3>1, PlanStays, MistakenStill
  <2>4. CASE WriteCreate(s) \/ TakeChannel(s) \/ WriteCell(s)
    <3>1. mixed' = mixed /\ plan' = plan
      BY <2>4 DEF WriteCreate, TakeChannel, WriteCell, hopVars, history
    <3> QED
      BY <3>1, PlanStays, MistakenStill
  <2> QED
    BY <1>1, <2>1, <2>2, <2>3, <2>4 DEF CallStep
<1>2. ASSUME NEW k \in Chan, HandshakeDone(k) \/ DialBreaks(k) \/ ChannelBreaks(k) \/ CloseEvent(k)
      PROVE  Mistaken'
  <2>1. mixed' = mixed /\ plan' = plan
    BY <1>2 DEF HandshakeDone, DialBreaks, ChannelBreaks, Breaks, CloseEvent, hopVars, history
  <2> QED
    BY <2>1, PlanStays, MistakenStill
<1>3. ASSUME NEW l \in Link, LinkStep(l) PROVE Mistaken'
  <2>1. mixed' = mixed /\ plan' = plan
    BY <1>3 DEF LinkStep, AnswerAsExit, Extend, ExtendFails, DropCell
  <2> QED
    BY <2>1, PlanStays, MistakenStill
<1>4. ASSUME NEW l \in HopLink, HopLinkBreaks(l) \/ \E c \in Id : HopTimeout(l, c) PROVE Mistaken'
  <2>1. mixed' = mixed /\ plan' = plan
    BY <1>4 DEF HopLinkBreaks, HopTimeout, hopVars, history
  <2> QED
    BY <2>1, PlanStays, MistakenStill
<1>5. ASSUME (\E h \in Relay : RestartHop(h)) \/ (\E c \in Id : Expire(c)) \/ UNCHANGED vars
      PROVE  Mistaken'
  <2>1. mixed' = mixed /\ plan' = plan
    BY <1>5 DEF RestartHop, Expire, vars, hopVars, history
  <2> QED
    BY <2>1, PlanStays, MistakenStill
<1> QED
  BY <1>1, <1>2, <1>3, <1>4, <1>5, GuardMistaken, HopMistaken DEF Next

LEMMA RoutedInit == Init => Routed /\ Mistaken
BY InEmpty DEF Init, Routed, Mistaken, Link
-----------------------------------------------------------------------------
(* Theorems                                                                 *)

\* Every variable of the initiator, the hops and the links keeps its type:
\* no packet, answer or way back ever names what is no circuit or no link.
THEOREM TypeCorrect == Spec => []TypeOK
<1>1. IInv => TypeOK
  BY DEF IInv
<1> QED
  BY <1>1, Invariance, PTL

\* sendViaOnion's second attempt never meets what its first left behind: the
\* channel it waits on is not the one the failed packet or its answer is on.
THEOREM RetryStaysApart == Spec => []RetryApart
<1>1. IInv => RetryApart
  BY SeparateApart
<1> QED
  BY <1>1, Invariance, PTL

\* Every circuit the initiator may still reuse leads over a guard whose
\* connection is not gone: close events drop the circuits over their address.
THEOREM GuardsStayUp == Spec => []GuardUp
<1>1. IInv => GuardUp
  BY DEF IInv
<1> QED
  BY <1>1, Invariance, PTL

\* A circuit the initiator keeps was told to each of its hops, however builds
\* fail, answers come late and hops restart, but for answers taken by mistake;
\* and a circuit can only be taken in by one that shares its guard or a link
\* between two hops: alone on its way, it is never mistaken.
THEOREM KeptWentThrough == Spec => []ToldAll
<1>1. IInv => WentThrough
  BY DEF IInv
<1>2. Spec => [](Routed /\ Mistaken)
  BY Invariance, RoutedInit, RoutedStep, MistakenStep, PTL DEF Spec
<1>3. WentThrough /\ Routed /\ Mistaken => ToldAll
  BY DEF ToldAll
<1> QED
  BY <1>1, <1>2, <1>3, Invariance, PTL
=============================================================================
