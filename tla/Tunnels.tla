------------------------------ MODULE Tunnels -------------------------------
(***************************************************************************)
(* What an edge and its relays promise of its tunnels, seen from outside:  *)
(* the edge counts on a relay only after that relay accepted it, and on no *)
(* more relays than it may; either end may lose a tunnel without the other *)
(* end's knowing.  Rendezvous.tla implements this specification.           *)
(***************************************************************************)
EXTENDS Naturals, FiniteSets

CONSTANTS
    Relay,
    MaxRelays

VARIABLES
    held,       \* relays that keep a tunnel for the edge
    offered,    \* relays whose acceptance is on its way to the edge
    bound       \* relays the edge counts on

tvars == <<held, offered, bound>>

Init == held = {} /\ offered = {} /\ bound = {}

\* A relay accepts; its answer may be lost at once.
Accept(r) ==
    /\ held' = held \cup {r}
    /\ offered' \in {offered, offered \cup {r}}
    /\ bound' = bound

\* A relay loses the tunnel.
Lose(r) ==
    /\ held' = held \ {r}
    /\ UNCHANGED <<offered, bound>>

\* The answer of a relay arrives; it may have accepted more than once.
Bind(r) ==
    /\ r \in offered \ bound
    /\ Cardinality(bound) < MaxRelays
    /\ bound' = bound \cup {r}
    /\ offered' \in {offered, offered \ {r}}
    /\ held' = held

\* The edge gives relays up, and answers are lost.
Drop ==
    /\ bound' \subseteq bound /\ offered' \subseteq offered
    /\ held' = held

Next == (\E r \in Relay : Accept(r) \/ Lose(r) \/ Bind(r)) \/ Drop

Spec == Init /\ [][Next]_tvars
=============================================================================
