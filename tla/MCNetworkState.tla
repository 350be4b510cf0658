--------------------------- MODULE MCNetworkState ---------------------------
(***************************************************************************)
(* A triangle and three flows of different widths: two paths for each flow *)
(* (one of them sharing a link with another flow), links that are filled   *)
(* exactly, short by one, and overbooked by a forced reservation.          *)
(***************************************************************************)
EXTENDS NetworkState

MCSwitches == 1..3
MCLinks == { {1, 2}, {2, 3}, {1, 3} }
MCCapacity == [l \in MCLinks |-> IF 1 \in l THEN 3 ELSE 2]
MCFlows == 1..3
MCBandwidth == <<1, 2, 2>>
MCPriority == <<1, 1, 2>>
MCSource == <<1, 1, 1>>
MCDestination == <<3, 3, 2>>
=============================================================================
