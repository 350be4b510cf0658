---------------------------- MODULE MCController ----------------------------
(***************************************************************************)
(* Small networks and workloads for the controller.                        *)
(***************************************************************************)
EXTENDS Controller

\* A square with one diagonal: two or three ways between any two switches.
SquareSwitches == 1..4
SquareLinks == { {1, 2}, {2, 3}, {3, 4}, {1, 4}, {1, 3} }
SquareCapacity == [l \in SquareLinks |-> IF l = {1, 3} THEN 1 ELSE 2]

RingLinks == { {1, 2}, {2, 3}, {3, 4}, {1, 4} }

\* Three flows of rising importance that cannot all have their way.
Three == 1..3
ThreeBandwidth == <<1, 1, 2>>
ThreePriority == <<1, 2, 3>>
ThreeSource == <<1, 1, 1>>
ThreeDestination == <<3, 2, 3>>

\* A fourth flow that needs both links 1-2-3 to itself: one of its victims is
\* on both, the others on one each.
Four == 1..4
FourBandwidth == <<1, 1, 1, 2>>
FourPriority == <<1, 1, 2, 3>>
FourSource == <<1, 1, 2, 1>>
FourDestination == <<3, 2, 4, 3>>
SideCapacity == [l \in RingLinks |-> IF 4 \in l THEN 1 ELSE 2]

\* Two flows that cross {1, 2} and compete for the way round it; the third
\* makes the first take the long way at admission and then leaves.
RingCapacity == [l \in RingLinks |-> IF l = {1, 4} THEN 2 ELSE 3]
PairBandwidth == <<1, 2, 2>>
PairPriority == <<1, 2, 1>>
PairSource == <<4, 1, 4>>
PairDestination == <<2, 2, 3>>
=============================================================================
