----------------------------- MODULE Admission -----------------------------
(***************************************************************************)
(* Admission control (admission.py and the victim selection of state.py):  *)
(* where a request would go in the present state and which flows would     *)
(* have to be released for it.  Nothing here changes the state.            *)
(*                                                                         *)
(* A decision is [path, victims, forced]; a refusal is the absence of one, *)
(* so evaluate() is a set of decisions, empty when the request is refused. *)
(* It has more than one element where Python leaves the order open: the    *)
(* candidates of a link come out of a set of strings, so candidates equal  *)
(* in the sort key may be taken in any order.                              *)
(***************************************************************************)
EXTENDS NetworkState, Routing

Decision == [path : Paths, victims : SUBSET Flows, forced : BOOLEAN]

Decide(p, victims, force) == [path |-> p, victims |-> victims, forced |-> force]

-----------------------------------------------------------------------------
\* Mutation: the hold-down window is not looked at.
CandidatesHeldDown(l, priority) ==
    { f \in linkFlows[l] : InTable(f) /\ Priority[f] < priority }

\* The flows a request of this priority may evict from a link: of the flow
\* entries flows_on looks up, the less important ones outside hold-down.
Candidates(l, priority) ==
    { f \in linkFlows[l] :
        InTable(f) /\ Priority[f] < priority /\ f \notin holdDown }

PreemptableCapacity(l, priority) ==
    IF l \in downLinks THEN 0
    ELSE residual[l] + Load(Candidates(l, priority))

\* The sort key of the candidates.
Before(tieBreak, f, g) ==
    \/ Priority[f] < Priority[g]
    \/ /\ Priority[f] = Priority[g]
       /\ IF tieBreak = "best_fit" THEN Bandwidth[f] < Bandwidth[g]
                                   ELSE Bandwidth[f] > Bandwidth[g]

\* The loop that takes sorted candidates until the deficit is covered: it
\* stops at some last candidate, without which it was not covered.
GreedyPicks(candidates, deficit, tieBreak) ==
    { C \in SUBSET candidates :
        /\ Load(C) >= deficit
        /\ \A c \in C, d \in candidates \ C : ~Before(tieBreak, d, c)
        /\ \E last \in C : /\ \A c \in C : ~Before(tieBreak, last, c)
                           /\ Load(C \ {last}) < deficit }

\* best_fit prefers one flow that covers the deficit alone.
SinglePicks(candidates, deficit) ==
    LET sufficient == { f \in candidates : Bandwidth[f] >= deficit }
    IN  { {f} : f \in { g \in sufficient :
                          \A h \in sufficient : ~Before("best_fit", h, g) } }

\* The sets victims() may return for a link; none stands for None.
Victims(l, bandwidth, priority, tieBreak, exclude) ==
    LET deficit    == bandwidth - Available(l)
        candidates == Candidates(l, priority) \ exclude
        single     == IF tieBreak = "best_fit"
                      THEN SinglePicks(candidates, deficit) ELSE {}
    IN  IF deficit <= 0 THEN { {} }
        ELSE IF single # {} THEN single
        ELSE GreedyPicks(candidates, deficit, tieBreak)

\* The flows chosen on the first links of the path, and what they free on a
\* later one.
ChosenBefore(picks, i) == UNION { picks[j] : j \in 1..i - 1 }
\* Mutation: a victim is credited on links it does not cross.
AlreadyFreedAnywhere(chosen, l) == Load(chosen)

AlreadyFreed(chosen, l) == Load({ v \in chosen : l \in FlowLinks(v) })

\* Link by link along the path, each with the credit of the earlier picks.
VictimSets(f, p, tieBreak) ==
    LET hops       == 1..Len(p) - 1
        candidates == UNION { Candidates(l, Priority[f]) : l \in LinksOf(p) }
        choices    ==
            { picks \in [hops -> SUBSET candidates] :
                \A i \in hops :
                    LET chosen == ChosenBefore(picks, i)
                        l      == LinkAt(p, i)
                    IN  picks[i] \in Victims(l, Bandwidth[f] - AlreadyFreed(chosen, l),
                                             Priority[f], tieBreak, chosen) }
    IN  { ChosenBefore(picks, Len(p)) : picks \in choices }

-----------------------------------------------------------------------------
\* The three widths a search is run on.
NominalWidth == [l \in Links |-> IF l \in downLinks THEN 0 ELSE Capacity[l]]
AvailableWidth == [l \in Links |-> Available(l)]
PreemptableWidth(priority) ==
    [l \in Links |-> PreemptableCapacity(l, priority)]

Route(f, policy, width, minimum) ==
    FindPath(policy, Source[f], Destination[f], width, minimum)

NominalPaths(f, policy) == Route(f, policy, NominalWidth, 0)
FreePaths(f, policy) == Route(f, policy, AvailableWidth, Bandwidth[f])
PreemptivePaths(f, policy) ==
    Route(f, policy, PreemptableWidth(Priority[f]), Bandwidth[f])

\* evaluate() for flow f: same switch, admission control off, on free
\* capacity, and at last by preemption.
Evaluate(f, policy, tieBreak, allowPreemption, admissionControl) ==
    IF Source[f] = Destination[f]
    THEN { Decide(<<Source[f]>>, {}, FALSE) }
    ELSE IF ~admissionControl
    THEN { Decide(p, {}, TRUE) : p \in NominalPaths(f, policy) }
    ELSE IF FreePaths(f, policy) # {} \/ ~allowPreemption
    THEN { Decide(p, {}, FALSE) : p \in FreePaths(f, policy) }
    ELSE UNION { { Decide(p, V, FALSE) : V \in VictimSets(f, p, tieBreak) } :
                 p \in PreemptivePaths(f, policy) }
=============================================================================
