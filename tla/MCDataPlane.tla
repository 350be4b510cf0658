---------------------------- MODULE MCDataPlane ----------------------------
(***************************************************************************)
(* A triangle for the data plane: the direct way or the way round.         *)
(***************************************************************************)
EXTENDS DataPlane

TriangleLinks == { {1, 2}, {2, 3}, {1, 3} }
TriangleCapacity == [l \in TriangleLinks |-> 1]

\* Two flows that have a direct way each, and the other's as the way round.
TwoBandwidth == <<1, 1>>
TwoPriority == <<1, 2>>
TwoSource == <<1, 1>>
TwoDestination == <<2, 3>>
=============================================================================
