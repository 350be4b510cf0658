-------------------------- MODULE Admission_proofs --------------------------
(***************************************************************************)
(* What a decision of evaluate() is: a path of the flow, victims that may  *)
(* be taken off it, and room once they are gone.  Of the search only that  *)
(* is used which its results say of each link by themselves: they are      *)
(* paths, and no link of them was pruned.                                  *)
(***************************************************************************)
EXTENDS Admission, NetworkState_proofs, Routing_proofs

\* Whatever path is found leads from the source to the destination.
LEMMA RoutesArePaths ==
    ASSUME NEW f \in Flows, NEW policy, NEW width, NEW minimum,
           NEW p \in Route(f, policy, width, minimum)
    PROVE  p \in PathsFor(f)
<1>1. Source[f] \in Switches
    BY WorkloadAssumption
<1>2. CASE Source[f] = Destination[f]
    <2>1. p = <<Source[f]>>
        BY <1>2 DEF Route, FindPath
    <2>2. p \in Paths
        BY <1>1, <2>1, SingletonPath
    <2>3. p[1] = Source[f] /\ p[Len(p)] = Destination[f]
        BY <1>2, <2>1
    <2> QED
        BY <2>2, <2>3 DEF PathsFor
<1>3. CASE Source[f] # Destination[f]
    <2>1. PICK t : p \in Reconstruct(t.prev, Source[f], Destination[f])
        BY <1>3 DEF Route, FindPath
    <2> QED
        BY <2>1 DEF Reconstruct, PathsFor
<1> QED
    BY <1>2, <1>3

\* A flow that may be evicted from a link is ACTIVE on it.
LEMMA CandidateIsActive ==
    ASSUME StateTypeOK, TableIndexed, NEW l \in Links, NEW priority \in Nat,
           NEW v \in Candidates(l, priority)
    PROVE  /\ v \in Flows
           /\ Active(v)
           /\ l \in FlowLinks(v)
           /\ v \notin holdDown
           /\ Priority[v] < priority
BY DEF StateTypeOK, TableIndexed, Candidates

\* All victims of a decision are candidates on some link of its path.
LEMMA VictimsAreCandidates ==
    ASSUME NEW f \in Flows, NEW p, NEW tieBreak,
           NEW V \in VictimSets(f, p, tieBreak), NEW v \in V
    PROVE  \E l \in LinksOf(p) : v \in Candidates(l, Priority[f])
<1> DEFINE hops == 1..Len(p) - 1
           candidates == UNION { Candidates(l, Priority[f]) : l \in LinksOf(p) }
<1>1. PICK picks \in [hops -> SUBSET candidates] : V = ChosenBefore(picks, Len(p))
    BY DEF VictimSets
<1>2. PICK j \in hops : v \in picks[j]
    BY <1>1 DEF ChosenBefore
<1>3. picks[j] \subseteq candidates
    BY <1>1
<1> QED
    BY <1>2, <1>3

\* An eviction that a decision for f may ask for.
Evictable(v, f, p) ==
    /\ v \in Flows
    /\ Active(v)
    /\ v \notin holdDown
    /\ Priority[v] < Priority[f]
    /\ LinksOf(p) \cap FlowLinks(v) # {}

\* What a decision is.
LEMMA DecisionFacts ==
    ASSUME StateTypeOK, TableIndexed, NEW f \in Flows, NEW policy, NEW tieBreak,
           NEW allowPreemption \in BOOLEAN, NEW admissionControl \in BOOLEAN,
           NEW d \in Evaluate(f, policy, tieBreak, allowPreemption, admissionControl)
    PROVE  /\ d.path \in PathsFor(f)
           /\ d.victims \subseteq Flows
           /\ \A v \in d.victims : Evictable(v, f, d.path)
           /\ d.forced \in BOOLEAN
           /\ admissionControl => ~d.forced
           /\ ~allowPreemption => d.victims = {}
<1>1. CASE Source[f] = Destination[f]
    <2>1. d = Decide(<<Source[f]>>, {}, FALSE)
        BY <1>1 DEF Evaluate
    <2>2. Source[f] \in Switches /\ <<Source[f]>> \in PathsFor(f)
        BY <1>1, WorkloadAssumption, SingletonPath DEF PathsFor
    <2> QED
        BY <2>1, <2>2 DEF Decide
<1>2. CASE Source[f] # Destination[f] /\ ~admissionControl
    <2>1. PICK p \in NominalPaths(f, policy) : d = Decide(p, {}, TRUE)
        BY <1>2 DEF Evaluate
    <2>2. p \in PathsFor(f)
        BY <2>1, RoutesArePaths DEF NominalPaths
    <2> QED
        BY <1>2, <2>1, <2>2 DEF Decide
<1>3. CASE /\ Source[f] # Destination[f] /\ admissionControl
           /\ FreePaths(f, policy) # {} \/ ~allowPreemption
    <2>1. PICK p \in FreePaths(f, policy) : d = Decide(p, {}, FALSE)
        BY <1>3 DEF Evaluate
    <2>2. p \in PathsFor(f)
        BY <2>1, RoutesArePaths DEF FreePaths
    <2> QED
        BY <2>1, <2>2 DEF Decide
<1>4. CASE /\ Source[f] # Destination[f] /\ admissionControl
           /\ ~(FreePaths(f, policy) # {} \/ ~allowPreemption)
    <2>1. d \in UNION { { Decide(p, V, FALSE) : V \in VictimSets(f, p, tieBreak) } :
                        p \in PreemptivePaths(f, policy) }
        BY <1>4 DEF Evaluate
    <2>2. PICK p \in PreemptivePaths(f, policy) :
             \E V \in VictimSets(f, p, tieBreak) : d = Decide(p, V, FALSE)
        BY <2>1
    <2>3. PICK V \in VictimSets(f, p, tieBreak) : d = Decide(p, V, FALSE)
        BY <2>2
    <2>4. p \in PathsFor(f) /\ LinksOf(p) \subseteq Links
        BY <2>2, RoutesArePaths, LinksOfPath DEF PreemptivePaths, PathsFor
    <2>5. ASSUME NEW v \in V PROVE Evictable(v, f, p)
        <3>1. PICK l \in LinksOf(p) : v \in Candidates(l, Priority[f])
            BY <2>3, VictimsAreCandidates
        <3>2. Priority[f] \in Nat
            BY WorkloadAssumption
        <3> QED
            BY <2>4, <3>1, <3>2, CandidateIsActive DEF Evictable
    <2>6. d.path = p /\ d.victims = V /\ d.forced = FALSE
        BY <2>3 DEF Decide
    <2> QED
        BY <1>4, <2>4, <2>5, <2>6 DEF Evictable
<1> QED
    BY <1>1, <1>2, <1>3, <1>4

-----------------------------------------------------------------------------
\* What victims() takes from a link covers the deficit and takes nobody of
\* those already chosen.
LEMMA VictimsCover ==
    ASSUME StateTypeOK, NEW l \in Links, NEW bandwidth \in Int, NEW priority,
           NEW tieBreak, NEW exclude,
           NEW C \in Victims(l, bandwidth, priority, tieBreak, exclude)
    PROVE  /\ C \subseteq Candidates(l, priority)
           /\ C \in SUBSET Flows
           /\ C \cap exclude = {}
           /\ Load(C) >= bandwidth - Available(l)
<1> DEFINE deficit == bandwidth - Available(l)
           candidates == Candidates(l, priority) \ exclude
<1>1. deficit \in Int /\ Available(l) \in Int
    BY DEF StateTypeOK, Available
<1>2. candidates \in SUBSET Flows
    BY DEF StateTypeOK, Candidates
<1>3. CASE deficit <= 0
    <2>1. C = {}
        BY <1>3 DEF Victims
    <2> QED
        BY <1>1, <1>3, <2>1, LoadEmpty
<1>4. CASE ~(deficit <= 0)
    <2>1. C \in SinglePicks(candidates, deficit) \/ C \in GreedyPicks(candidates, deficit, tieBreak)
        BY <1>4 DEF Victims
    <2>2. CASE C \in SinglePicks(candidates, deficit)
        <3>1. PICK f \in candidates : C = {f} /\ Bandwidth[f] >= deficit
            BY <2>2 DEF SinglePicks
        <3>2. Load(C) = Bandwidth[f]
            BY <1>2, <3>1, LoadSingle
        <3> QED
            BY <1>2, <3>1, <3>2
    <2>3. CASE C \in GreedyPicks(candidates, deficit, tieBreak)
        BY <1>2, <2>3 DEF GreedyPicks
    <2> QED
        BY <2>1, <2>2, <2>3
<1> QED
    BY <1>3, <1>4

\* The victims of a path free what the flow needs on each of its links: what
\* earlier picks free there was credited, and the pick for the link covers
\* the rest.
LEMMA VictimSetsCover ==
    ASSUME StateTypeOK, TableIndexed, NEW f \in Flows, NEW p \in Paths, NEW tieBreak,
           NEW V \in VictimSets(f, p, tieBreak), NEW l \in LinksOf(p)
    PROVE  Available(l) + Load({ v \in V : l \in FlowLinks(v) }) >= Bandwidth[f]
<1> DEFINE hops == 1..Len(p) - 1
           candidates == UNION { Candidates(k, Priority[f]) : k \in LinksOf(p) }
<1>1. PICK picks \in [hops -> SUBSET candidates] :
         /\ \A i \in hops :
               picks[i] \in Victims(LinkAt(p, i),
                                   Bandwidth[f] - AlreadyFreed(ChosenBefore(picks, i), LinkAt(p, i)),
                                   Priority[f], tieBreak, ChosenBefore(picks, i))
         /\ V = ChosenBefore(picks, Len(p))
    BY DEF VictimSets
<1>2. PICK i \in hops : l = LinkAt(p, i)
    BY DEF LinksOf
<1>3. PICK chosen, C, freed : /\ chosen = ChosenBefore(picks, i)
                              /\ C = picks[i]
                              /\ freed = { v \in chosen : l \in FlowLinks(v) }
    OBVIOUS
<1>4. LinksOf(p) \subseteq Links /\ l \in Links
    BY LinksOfPath
<1>5. candidates \in SUBSET Flows
    BY <1>4 DEF StateTypeOK, Candidates
<1>6. Len(p) \in Int
    BY <1>2
<1>7. chosen \subseteq V /\ C \subseteq V /\ V \subseteq candidates
    BY <1>1, <1>2, <1>3, <1>6 DEF ChosenBefore
<1>8. chosen \in SUBSET Flows /\ V \in SUBSET Flows /\ freed \in SUBSET Flows
    BY <1>3, <1>5, <1>7
<1>9. Load(freed) \in Nat /\ Bandwidth[f] \in Int /\ Available(l) \in Int
    BY <1>4, <1>8, LoadType, WorkloadAssumption DEF StateTypeOK, Available
<1>10. PICK b \in Int : b = Bandwidth[f] - Load(freed)
    BY <1>9
<1>11. C \in Victims(l, b, Priority[f], tieBreak, chosen)
    BY <1>1, <1>2, <1>3, <1>10 DEF AlreadyFreed
<1>12. C \subseteq Candidates(l, Priority[f])
    BY <1>4, <1>11, VictimsCover
<1>13. C \in SUBSET Flows
    BY <1>4, <1>11, VictimsCover
<1>14. C \cap chosen = {}
    BY <1>4, <1>11, VictimsCover
<1>15. Load(C) >= b - Available(l)
    BY <1>4, <1>11, VictimsCover
<1>16. \A v \in C : l \in FlowLinks(v)
    BY <1>4, <1>12, CandidateIsActive, WorkloadAssumption
<1>17. PICK there : there = { v \in V : l \in FlowLinks(v) }
    OBVIOUS
<1>18. freed \cup C \in SUBSET there /\ there \in SUBSET Flows
    BY <1>3, <1>7, <1>8, <1>16, <1>17
<1>19. Load(freed \cup C) <= Load(there)
    BY <1>18, LoadMonotonic
<1>20. Load(freed \cup C) = Load(freed) + Load(C)
    BY <1>3, <1>8, <1>13, <1>14, LoadUnion
<1>21. Load(C) \in Nat /\ Load(there) \in Nat
    BY <1>13, <1>18, LoadType
<1> QED
    BY <1>9, <1>10, <1>15, <1>17, <1>19, <1>20, <1>21

\* No decision leads over a link that is down, and one that is not forced
\* fits once its victims are gone (admission.py evaluate).
LEMMA DecisionFits ==
    ASSUME StateTypeOK, TableIndexed, NEW f \in Flows, NEW policy, NEW tieBreak,
           NEW allowPreemption \in BOOLEAN, NEW admissionControl \in BOOLEAN,
           NEW d \in Evaluate(f, policy, tieBreak, allowPreemption, admissionControl),
           NEW l \in LinksOf(d.path)
    PROVE  /\ l \notin downLinks
           /\ ~d.forced =>
                residual[l] + Load({ v \in d.victims : l \in FlowLinks(v) }) >= Bandwidth[f]
<1>1. PICK p : p = d.path
    OBVIOUS
<1>2. p \in Paths
    BY <1>1, DecisionFacts DEF PathsFor
<1>3. l \in LinksOf(p) /\ l \in Links
    BY <1>1, <1>2, LinksOfPath
<1>4. residual[l] \in Int /\ Bandwidth[f] \in Nat \ {0}
    BY <1>3, WorkloadAssumption DEF StateTypeOK
<1>5. CASE Source[f] = Destination[f]
    <2>1. p = <<Source[f]>>
        BY <1>1, <1>5 DEF Evaluate, Decide
    <2>2. LinksOf(p) = {}
        BY <2>1 DEF LinksOf
    <2> QED
        BY <1>3, <2>2
<1>6. CASE Source[f] # Destination[f] /\ ~admissionControl
    <2>1. p \in NominalPaths(f, policy) /\ d.forced
        BY <1>1, <1>6 DEF Evaluate, Decide
    <2>2. Usable(NominalWidth[l], 0)
        BY <1>3, <2>1, FoundPathIsUsable DEF NominalPaths, Route
    <2>3. l \notin downLinks
        BY <1>3, <2>2 DEF Usable, NominalWidth
    <2> QED
        BY <2>1, <2>3
<1>7. CASE /\ Source[f] # Destination[f] /\ admissionControl
           /\ FreePaths(f, policy) # {} \/ ~allowPreemption
    <2>1. p \in FreePaths(f, policy) /\ d.victims = {}
        BY <1>1, <1>7 DEF Evaluate, Decide
    <2>2. Usable(AvailableWidth[l], Bandwidth[f])
        BY <1>3, <2>1, FoundPathIsUsable DEF FreePaths, Route
    <2>3. l \notin downLinks /\ residual[l] >= Bandwidth[f]
        BY <1>3, <2>2 DEF Usable, AvailableWidth, Available
    <2>4. Load({ v \in d.victims : l \in FlowLinks(v) }) = 0
        <3>1. { v \in d.victims : l \in FlowLinks(v) } = {}
            BY <2>1
        <3> QED
            BY <3>1, LoadEmpty
    <2> QED
        BY <1>4, <2>3, <2>4
<1>8. CASE /\ Source[f] # Destination[f] /\ admissionControl
           /\ ~(FreePaths(f, policy) # {} \/ ~allowPreemption)
    <2>1. d \in UNION { { Decide(q, V, FALSE) : V \in VictimSets(f, q, tieBreak) } :
                        q \in PreemptivePaths(f, policy) }
        BY <1>8 DEF Evaluate
    <2>2. PICK q \in PreemptivePaths(f, policy) :
             \E V \in VictimSets(f, q, tieBreak) : d = Decide(q, V, FALSE)
        BY <2>1
    <2>3. PICK V \in VictimSets(f, q, tieBreak) : d = Decide(q, V, FALSE)
        BY <2>2
    <2>4. q = p /\ d.victims = V
        BY <1>1, <2>3 DEF Decide
    <2>5. Usable(PreemptableWidth(Priority[f])[l], Bandwidth[f])
        BY <1>3, <2>2, <2>4, FoundPathIsUsable DEF PreemptivePaths, Route
    <2>6. l \notin downLinks
        BY <1>3, <2>5 DEF Usable, PreemptableWidth, PreemptableCapacity
    <2>7. Available(l) + Load({ v \in V : l \in FlowLinks(v) }) >= Bandwidth[f]
        BY <1>2, <1>3, <2>3, <2>4, VictimSetsCover
    <2> QED
        BY <2>4, <2>6, <2>7 DEF Available
<1> QED
    BY <1>5, <1>6, <1>7, <1>8
=============================================================================
