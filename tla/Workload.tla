------------------------------ MODULE Workload ------------------------------
(***************************************************************************)
(* The flow requests of a run and the bandwidth they add up to.  A flow    *)
(* identifier stands for one request, so what the request asks for is a    *)
(* constant of it (the fields of FlowEntry that nothing writes after       *)
(* new_flow).  Bandwidths are whole Mbps, which makes the sums exact.      *)
(***************************************************************************)
EXTENDS Network

CONSTANTS
    Flows,        \* the requests that may be made, one flow each
    Bandwidth,    \* [Flows -> Mbps], bandwidth_mbps
    Priority,     \* [Flows -> priority], higher is more important
    Source,       \* [Flows -> the switch of the source host]
    Destination   \* [Flows -> the switch of the destination host]

ASSUME WorkloadAssumption ==
    /\ IsFiniteSet(Flows)
    /\ Bandwidth \in [Flows -> Nat \ {0}]
    /\ Priority \in [Flows -> Nat]
    /\ Source \in [Flows -> Switches]
    /\ Destination \in [Flows -> Switches]

\* The paths a request can be given: from its source to its destination.
PathsFor(f) == { p \in Paths : p[1] = Source[f] /\ p[Len(p)] = Destination[f] }

\* The bandwidth of a set of flows together, counted Mbps by Mbps: a sum over
\* a set that can be reasoned about as a cardinality.
Units(S) == UNION { {f} \X (1..Bandwidth[f]) : f \in S }
Load(S) == Cardinality(Units(S))
=============================================================================
