------------------------------ MODULE Network ------------------------------
(***************************************************************************)
(* The core network NetSlice routes over: switches, the capacitated links  *)
(* between them and the paths a flow can take.  Hosts and access links are *)
(* left out, as they are in the code: an access link is never the binding  *)
(* constraint, so a request is identified with the pair of switches its    *)
(* hosts hang off.                                                         *)
(*                                                                         *)
(* A link is the set of its two ends (topology.py names it by the sorted   *)
(* pair, so there is at most one link between two switches).  Switches are *)
(* numbers because the searches break their last tie on the switch name.   *)
(***************************************************************************)
EXTENDS Integers, Sequences, FiniteSets

CONSTANTS
    Switches,   \* switch numbers: 1 stands for "s1"
    Links,      \* core links, each the set of its two ends
    Capacity    \* [Links -> Mbps]

ASSUME NetworkAssumption ==
    /\ Switches \subseteq Nat
    /\ IsFiniteSet(Switches)
    /\ Links \subseteq { e \in SUBSET Switches : Cardinality(e) = 2 }
    /\ Capacity \in [Links -> Nat \ {0}]

Adjacent(a, b) == {a, b} \in Links

\* Simple paths: an ordered sequence of switches, ingress first.
Paths ==
    UNION { { p \in [1..n -> Switches] :
                /\ \A i, j \in 1..n : p[i] = p[j] => i = j
                /\ \A i \in 1..n - 1 : Adjacent(p[i], p[i + 1]) } :
            n \in 1..Cardinality(Switches) }

\* What an unplaced flow has for a path.
NoPath == <<>>

\* The i-th link of a path, and the links a reservation on it is charged to.
LinkAt(p, i) == {p[i], p[i + 1]}
LinksOf(p) == { LinkAt(p, i) : i \in 1..Len(p) - 1 }

SwitchesOf(p) == { p[i] : i \in 1..Len(p) }
=============================================================================
