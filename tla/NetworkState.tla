---------------------------- MODULE NetworkState ----------------------------
(***************************************************************************)
(* The controller's book of bandwidth (state.py): the flow table, the      *)
(* residual capacity of every core link, the link -> flows index, the down *)
(* links and the hold-down windows.  One action per method; the module is  *)
(* also a specification of its own, in which the methods are called in any *)
(* order, with paths between the hosts of the flow.                        *)
(*                                                                         *)
(* A flow's links are those of its path, so FlowEntry.links is not kept    *)
(* apart.  A flow that is not in the flow table has the state "ABSENT".    *)
(* The wall clock behind hold_down_until is the set of flows still inside  *)
(* their window, which ends at any moment.                                 *)
(***************************************************************************)
EXTENDS Workload

VARIABLES
    flows,       \* [Flows -> [state, path]]
    residual,    \* [Links -> Int]
    linkFlows,   \* [Links -> SUBSET Flows], link_flows
    downLinks,   \* down_links
    holdDown,    \* flows whose hold_down_until lies ahead
    forced       \* history: the flows whose reservation was not checked

stateVars == <<flows, residual, linkFlows, downLinks, holdDown, forced>>

FlowStates == {"ABSENT", "ACTIVE", "EXPIRED", "PREEMPTED", "FAILED", "REMOVED"}

FlowRecord == [state : FlowStates, path : Paths \cup {NoPath}]

InTable(f) == flows[f].state # "ABSENT"
Active(f) == flows[f].state = "ACTIVE"
FlowLinks(f) == LinksOf(flows[f].path)

StateInit ==
    /\ flows = [f \in Flows |-> [state |-> "ABSENT", path |-> NoPath]]
    /\ residual = Capacity
    /\ linkFlows = [l \in Links |-> {}]
    /\ downLinks = {}
    /\ holdDown = {}
    /\ forced = {}

-----------------------------------------------------------------------------
\* Mutations: a down link keeps its residual; a link offers all it ever had.
AvailableWhileDown(l) == residual[l]
AvailableNominal(l) == IF l \in downLinks THEN 0 ELSE Capacity[l]

Available(l) == IF l \in downLinks THEN 0 ELSE residual[l]

\* Mutation: only the first link of the path is looked at.
FitsFirstLink(f, p) ==
    LinksOf(p) # {} => Available(LinkAt(p, 1)) >= Bandwidth[f]

Fits(f, p) == \A l \in LinksOf(p) : Available(l) >= Bandwidth[f]

\* Mutation: the flow is charged but not indexed.
ReserveUnindexed(f, p, force) ==
    /\ ~(Active(f) /\ FlowLinks(f) # {})
    /\ force \/ Fits(f, p)
    /\ residual' = [l \in Links |-> IF l \in LinksOf(p)
                                    THEN residual[l] - Bandwidth[f]
                                    ELSE residual[l]]
    /\ flows' = [flows EXCEPT ![f] = [state |-> "ACTIVE", path |-> p]]
    /\ forced' = IF force THEN forced \cup {f} ELSE forced \ {f}
    /\ UNCHANGED <<linkFlows, downLinks>>

\* reserve() on a path with room.  Where Fits fails without force the code
\* raises InsufficientCapacity and changes nothing: there is no such step.
Reserve(f, p, force) ==
    /\ ~(Active(f) /\ FlowLinks(f) # {})
    /\ force \/ Fits(f, p)
    /\ residual' = [l \in Links |-> IF l \in LinksOf(p)
                                    THEN residual[l] - Bandwidth[f]
                                    ELSE residual[l]]
    /\ linkFlows' = [l \in Links |-> IF l \in LinksOf(p)
                                     THEN linkFlows[l] \cup {f}
                                     ELSE linkFlows[l]]
    /\ flows' = [flows EXCEPT ![f] = [state |-> "ACTIVE", path |-> p]]
    /\ forced' = IF force THEN forced \cup {f} ELSE forced \ {f}
    /\ UNCHANGED downLinks

\* Mutation: a release resets the link.
ReturnedInFull(f, l) == Capacity[l]

\* What release() leaves of a link: min(residual + bandwidth, capacity).
Returned(f, l) ==
    IF residual[l] + Bandwidth[f] > Capacity[l] THEN Capacity[l]
    ELSE residual[l] + Bandwidth[f]

Release(f, newState) ==
    /\ InTable(f)
    /\ LET freed == IF Active(f) THEN FlowLinks(f) ELSE {}
       IN  /\ residual' = [l \in Links |-> IF l \in freed THEN Returned(f, l)
                                           ELSE residual[l]]
           /\ linkFlows' = [l \in Links |-> IF l \in freed THEN linkFlows[l] \ {f}
                                            ELSE linkFlows[l]]
    /\ flows' = [flows EXCEPT ![f] = [state |-> newState, path |-> NoPath]]
    /\ forced' = forced \ {f}
    /\ UNCHANGED downLinks

\* Mutation: an ACTIVE flow can be forgotten, and its row goes with it.
ForgetRow(f) ==
    /\ InTable(f)
    /\ flows' = [g \in Flows \ {f} |-> flows[g]]
    /\ UNCHANGED <<residual, linkFlows, downLinks, forced>>

Forget(f) ==
    /\ InTable(f)
    /\ ~Active(f)
    /\ flows' = [flows EXCEPT ![f] = [state |-> "ABSENT", path |-> NoPath]]
    /\ UNCHANGED <<residual, linkFlows, downLinks, forced>>

SetLinkDown(l) ==
    /\ downLinks' = downLinks \cup {l}
    /\ UNCHANGED <<flows, residual, linkFlows, forced>>

SetLinkUp(l) ==
    /\ downLinks' = downLinks \ {l}
    /\ UNCHANGED <<flows, residual, linkFlows, forced>>

MarkHoldDown(f) == holdDown' = holdDown \cup {f}

\* The clock passes the end of a hold-down window.
HoldDownEnds(f) ==
    /\ f \in holdDown
    /\ holdDown' = holdDown \ {f}
    /\ UNCHANGED <<flows, residual, linkFlows, downLinks, forced>>

StateNext ==
    \/ \E f \in Flows : \E p \in PathsFor(f), force \in BOOLEAN :
          Reserve(f, p, force) /\ UNCHANGED holdDown
    \/ \E f \in Flows, s \in FlowStates \ {"ABSENT", "ACTIVE"} :
          Release(f, s) /\ UNCHANGED holdDown
    \/ \E f \in Flows : Forget(f) /\ UNCHANGED holdDown
    \/ \E l \in Links : SetLinkDown(l) /\ UNCHANGED holdDown
    \/ \E l \in Links : SetLinkUp(l) /\ UNCHANGED holdDown
    \/ \E f \in Flows :
          /\ InTable(f)
          /\ MarkHoldDown(f)
          /\ UNCHANGED <<flows, residual, linkFlows, downLinks, forced>>
    \/ \E f \in Flows : HoldDownEnds(f)

StateSpec == StateInit /\ [][StateNext]_stateVars

-----------------------------------------------------------------------------
StateTypeOK ==
    /\ flows \in [Flows -> FlowRecord]
    /\ residual \in [Links -> Int]
    /\ linkFlows \in [Links -> SUBSET Flows]
    /\ downLinks \subseteq Links
    /\ holdDown \subseteq Flows
    /\ forced \subseteq Flows

\* The index and the flow table agree: a link's entry holds exactly the
\* ACTIVE flows whose path crosses it, and a flow that is not ACTIVE has no
\* path.
IndexAgrees ==
    /\ \A l \in Links :
          linkFlows[l] = { f \in Flows : Active(f) /\ l \in FlowLinks(f) }
    /\ \A f \in Flows : ~Active(f) => flows[f].path = NoPath

\* The residual of a link is its capacity less what its flows reserved: the
\* incremental arithmetic of reserve and release, clamp included, never
\* drifts from the sum.
BooksBalance ==
    \A l \in Links : residual[l] = Capacity[l] - Load(linkFlows[l])

\* Only a reservation made with force can overbook a link: the flows that
\* were checked fit into every link together, whatever else is on it.
CheckedFlowsFit ==
    \A l \in Links : Load(linkFlows[l] \ forced) <= Capacity[l]

Ledger == INSTANCE Reservations WITH
    booked     <- [f \in Flows |-> { l \in Links : f \in linkFlows[l] }],
    overbooked <- forced,
    down       <- downLinks

\* The ledger implements the abstract bookings: every reserve that was not
\* forced was affordable by what the bookings really leave.
LedgerSpec == Ledger!RSpec
=============================================================================
