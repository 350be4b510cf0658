------------------------- MODULE NetworkState_proofs -------------------------
(***************************************************************************)
(* The bandwidth of a set of flows, and the ledger invariant of            *)
(* NetworkState, operation by operation.  Load is a sum: a flow adds its   *)
(* bandwidth to the load of a link it joins and takes it back when it      *)
(* leaves.  The lemmas about the operations are stated for any state in    *)
(* which the books are in order, so that the proofs about the controller   *)
(* use them too.                                                           *)
(***************************************************************************)
EXTENDS NetworkState, Routing_proofs

\* The Mbps of a set of flows can be counted: the set of its units is finite.
LEMMA UnitsFinite ==
    ASSUME NEW S \in SUBSET Flows
    PROVE  IsFiniteSet(Units(S))
<1> DEFINE U == [f \in S |-> {f} \X (1..Bandwidth[f])]
           T == { {f} \X (1..Bandwidth[f]) : f \in S }
<1>1. IsFiniteSet(S)
    BY FS_Subset, WorkloadAssumption
<1>2. U \in Surjection(S, T)
    BY DEF Surjection
<1>3. IsFiniteSet(T)
    BY <1>1, <1>2, FS_Surjection, Zenon
<1>4. ASSUME NEW f \in S PROVE IsFiniteSet({f} \X (1..Bandwidth[f]))
    <2>1. Bandwidth[f] \in Int /\ 1 \in Int
        BY WorkloadAssumption
    <2>2. IsFiniteSet(1..Bandwidth[f])
        BY <2>1, FS_Interval
    <2> QED
        BY <2>2, FS_Singleton, FS_Product
<1>5. \A x \in T : IsFiniteSet(x)
    BY <1>4
<1> QED
    BY <1>3, <1>5, FS_UNION DEF Units

\* A load is a number of Mbps.
LEMMA LoadType ==
    ASSUME NEW S \in SUBSET Flows
    PROVE  Load(S) \in Nat
BY UnitsFinite, FS_CardinalityType DEF Load

\* Nobody, no load.
LEMMA LoadEmpty == Load({}) = 0
<1>1. Units({}) = {}
    BY DEF Units
<1> QED
    BY <1>1, FS_EmptySet DEF Load

\* The load of one flow is its bandwidth.
LEMMA LoadSingle ==
    ASSUME NEW f \in Flows
    PROVE  Load({f}) = Bandwidth[f]
<1>1. Bandwidth[f] \in Nat \ {0}
    BY WorkloadAssumption
<1>2. IsFiniteSet(1..Bandwidth[f]) /\ Cardinality(1..Bandwidth[f]) = Bandwidth[f]
    BY <1>1, FS_Interval
<1>3. IsFiniteSet({f}) /\ Cardinality({f}) = 1
    BY FS_Singleton
<1>4. Units({f}) = {f} \X (1..Bandwidth[f])
    BY DEF Units
<1>5. Cardinality({f} \X (1..Bandwidth[f])) = 1 * Bandwidth[f]
    BY <1>2, <1>3, FS_Product
<1>6. Load({f}) = Cardinality({f} \X (1..Bandwidth[f]))
    BY <1>4, Zenon DEF Load
<1> QED
    BY <1>1, <1>5, <1>6

\* Disjoint sets of flows add up.
LEMMA LoadUnion ==
    ASSUME NEW S \in SUBSET Flows, NEW T \in SUBSET Flows, S \cap T = {}
    PROVE  Load(S \cup T) = Load(S) + Load(T)
<1>1. Units(S \cup T) = Units(S) \cup Units(T)
    BY DEF Units
<1>2. Units(S) \cap Units(T) = {}
    <2> SUFFICES ASSUME NEW u, u \in Units(S), u \in Units(T) PROVE FALSE
        OBVIOUS
    <2>1. PICK f \in S : u \in {f} \X (1..Bandwidth[f])
        BY DEF Units
    <2>2. PICK g \in T : u \in {g} \X (1..Bandwidth[g])
        BY DEF Units
    <2> QED
        BY <2>1, <2>2
<1>3. /\ IsFiniteSet(Units(S)) /\ IsFiniteSet(Units(T))
      /\ Cardinality(Units(S)) \in Nat /\ Cardinality(Units(T)) \in Nat
    BY UnitsFinite, FS_CardinalityType
<1>4. Cardinality(Units(S) \cup Units(T))
        = Load(S) + Load(T) - Cardinality(Units(S) \cap Units(T))
    BY <1>3, FS_Union DEF Load
<1>5. Cardinality(Units(S) \cap Units(T)) = 0
    BY <1>2, FS_EmptySet, Zenon
<1>6. Load(S \cup T) = Cardinality(Units(S) \cup Units(T))
    BY <1>1, Zenon DEF Load
<1> QED
    BY <1>4, <1>5, <1>6, LoadType

\* A flow that joins a set adds its bandwidth.
LEMMA LoadAdd ==
    ASSUME NEW S \in SUBSET Flows, NEW f \in Flows, f \notin S
    PROVE  Load(S \cup {f}) = Load(S) + Bandwidth[f]
BY LoadUnion, LoadSingle, S \cap {f} = {}

\* A flow that leaves takes it away.
LEMMA LoadRemove ==
    ASSUME NEW S \in SUBSET Flows, NEW f \in S
    PROVE  Load(S \ {f}) = Load(S) - Bandwidth[f]
<1>1. (S \ {f}) \cup {f} = S /\ f \notin S \ {f}
    OBVIOUS
<1>2. Load(S \ {f}) \in Nat /\ Load(S) \in Nat /\ Bandwidth[f] \in Nat
    BY LoadType, WorkloadAssumption
<1> QED
    BY <1>1, <1>2, LoadAdd

\* More flows, more load.
LEMMA LoadMonotonic ==
    ASSUME NEW T \in SUBSET Flows, NEW S \in SUBSET T
    PROVE  Load(S) <= Load(T)
<1>1. Load(S \cup (T \ S)) = Load(S) + Load(T \ S)
    BY LoadUnion, S \cap (T \ S) = {}
<1>2. S \cup (T \ S) = T
    OBVIOUS
<1> QED
    BY <1>1, <1>2, LoadType

-----------------------------------------------------------------------------

\* The index agrees with the table for the flows the table knows.
TableIndexed ==
    \A f \in Flows : InTable(f) =>
        /\ \A l \in Links : f \in linkFlows[l] <=> Active(f) /\ l \in FlowLinks(f)
        /\ ~Active(f) => flows[f].path = NoPath

\* A flow outside the table has no path, and no link lists it.
Unlisted(f) == \A l \in Links : f \notin linkFlows[l]

NoOrphans == \A f \in Flows : ~InTable(f) => Unlisted(f)

AbsentHasNoPath == \A f \in Flows : ~InTable(f) => flows[f].path = NoPath

\* The part of the invariant that survives even a lost flow entry.
LedgerInv == /\ StateTypeOK
             /\ TableIndexed
             /\ AbsentHasNoPath
             /\ BooksBalance
             /\ CheckedFlowsFit

-----------------------------------------------------------------------------
\* Typing: reserve and release keep the fields of the state in their types.
LEMMA ReserveType ==
    ASSUME StateTypeOK, NEW f \in Flows, NEW p \in Paths, NEW force \in BOOLEAN,
           Reserve(f, p, force), holdDown' \subseteq Flows
    PROVE  StateTypeOK'
<1>1. [state |-> "ACTIVE", path |-> p] \in FlowRecord
    BY DEF FlowRecord, FlowStates
<1>2. flows' \in [Flows -> FlowRecord]
    BY <1>1 DEF StateTypeOK, Reserve
<1>3. \A l \in Links : residual[l] - Bandwidth[f] \in Int
    BY WorkloadAssumption DEF StateTypeOK
<1>4. residual' \in [Links -> Int]
    BY <1>3 DEF StateTypeOK, Reserve
<1>5. linkFlows' \in [Links -> SUBSET Flows]
    BY DEF StateTypeOK, Reserve
<1>6. downLinks' \subseteq Links /\ forced' \subseteq Flows
    BY DEF StateTypeOK, Reserve
<1> QED
    BY <1>2, <1>4, <1>5, <1>6 DEF StateTypeOK

LEMMA ReleaseType ==
    ASSUME StateTypeOK, NEW f \in Flows, NEW s \in FlowStates,
           Release(f, s), holdDown' \subseteq Flows
    PROVE  StateTypeOK'
<1>1. [state |-> s, path |-> NoPath] \in FlowRecord
    BY DEF FlowRecord
<1>2. flows' \in [Flows -> FlowRecord]
    BY <1>1 DEF StateTypeOK, Release
<1>3. \A l \in Links : Returned(f, l) \in Int
    BY WorkloadAssumption, NetworkAssumption DEF StateTypeOK, Returned
<1>4. residual' \in [Links -> Int]
    BY <1>3 DEF StateTypeOK, Release
<1>5. linkFlows' \in [Links -> SUBSET Flows]
    BY DEF StateTypeOK, Release
<1>6. downLinks' \subseteq Links /\ forced' \subseteq Flows
    BY DEF StateTypeOK, Release
<1> QED
    BY <1>2, <1>4, <1>5, <1>6 DEF StateTypeOK

-----------------------------------------------------------------------------
\* A reservation of a flow that no link lists keeps the books balanced.
LEMMA ReserveBalances ==
    ASSUME StateTypeOK, BooksBalance, NEW f \in Flows, NEW p \in Paths,
           NEW force \in BOOLEAN, Unlisted(f), Reserve(f, p, force)
    PROVE  BooksBalance'
<1> SUFFICES ASSUME NEW l \in Links
             PROVE  residual'[l] = Capacity[l] - Load(linkFlows'[l])
    BY DEF BooksBalance
<1>1. linkFlows[l] \in SUBSET Flows /\ f \notin linkFlows[l]
    BY DEF StateTypeOK, Unlisted
<1>2. residual[l] = Capacity[l] - Load(linkFlows[l])
    BY DEF BooksBalance
<1>3. Load(linkFlows[l]) \in Nat /\ Capacity[l] \in Nat /\ Bandwidth[f] \in Nat
    BY <1>1, LoadType, WorkloadAssumption, NetworkAssumption
<1>4. CASE l \in LinksOf(p)
    <2>1. residual'[l] = residual[l] - Bandwidth[f]
        BY <1>4 DEF Reserve
    <2>2. linkFlows'[l] = linkFlows[l] \cup {f}
        BY <1>4 DEF Reserve
    <2>3. Load(linkFlows'[l]) = Load(linkFlows[l]) + Bandwidth[f]
        BY <1>1, <2>2, LoadAdd
    <2> QED
        BY <1>2, <1>3, <2>1, <2>3
<1>5. CASE l \notin LinksOf(p)
    <2>1. residual'[l] = residual[l] /\ linkFlows'[l] = linkFlows[l]
        BY <1>5 DEF Reserve
    <2> QED
        BY <1>2, <2>1
<1> QED
    BY <1>4, <1>5

\* It does not make the checked flows exceed a link.
LEMMA ReserveFits ==
    ASSUME StateTypeOK, BooksBalance, CheckedFlowsFit, NEW f \in Flows,
           NEW p \in Paths, NEW force \in BOOLEAN, Unlisted(f), Reserve(f, p, force)
    PROVE  CheckedFlowsFit'
<1> SUFFICES ASSUME NEW l \in Links
             PROVE  Load(linkFlows'[l] \ forced') <= Capacity[l]
    BY DEF CheckedFlowsFit
<1>1. linkFlows[l] \in SUBSET Flows /\ f \notin linkFlows[l]
    BY DEF StateTypeOK, Unlisted
<1>2. Load(linkFlows[l] \ forced) <= Capacity[l]
    BY DEF CheckedFlowsFit
<1>3. CASE linkFlows'[l] \ forced' = linkFlows[l] \ forced
    BY <1>2, <1>3
<1>4. CASE linkFlows'[l] \ forced' # linkFlows[l] \ forced
    <2>1. l \in LinksOf(p) /\ ~force
        BY <1>1, <1>4 DEF Reserve
    <2>2. linkFlows'[l] = linkFlows[l] \cup {f}
        BY <2>1 DEF Reserve
    <2>3. Available(l) >= Bandwidth[f]
        BY <2>1 DEF Reserve, Fits
    <2>4. Bandwidth[f] \in Nat \ {0} /\ Capacity[l] \in Nat
        BY WorkloadAssumption, NetworkAssumption
    <2>5. residual[l] >= Bandwidth[f]
        BY <2>3, <2>4 DEF Available
    <2>6. residual[l] = Capacity[l] - Load(linkFlows[l])
        BY DEF BooksBalance
    <2>7. Load(linkFlows[l]) \in Nat
        BY <1>1, LoadType
    <2>8. Load(linkFlows'[l]) = Load(linkFlows[l]) + Bandwidth[f]
        BY <1>1, <2>2, LoadAdd
    <2>9. linkFlows'[l] \in SUBSET Flows
        BY <1>1, <2>2
    <2>10. linkFlows'[l] \ forced' \in SUBSET linkFlows'[l]
        OBVIOUS
    <2>11. Load(linkFlows'[l] \ forced') <= Load(linkFlows'[l])
        BY <2>9, <2>10, LoadMonotonic
    <2>12. Load(linkFlows'[l] \ forced') \in Nat
        BY <2>9, LoadType
    <2> QED
        BY <2>4, <2>5, <2>6, <2>7, <2>8, <2>11, <2>12
<1> QED
    BY <1>3, <1>4

\* The flow it placed is indexed where its path goes, the others as before.
LEMMA ReserveIndexes ==
    ASSUME StateTypeOK, TableIndexed, AbsentHasNoPath, NEW f \in Flows,
           NEW p \in Paths, NEW force \in BOOLEAN, Unlisted(f), Reserve(f, p, force)
    PROVE  TableIndexed' /\ AbsentHasNoPath'
<1>1. flows' = [flows EXCEPT ![f] = [state |-> "ACTIVE", path |-> p]]
    BY DEF Reserve
<1>2. flows'[f] = [state |-> "ACTIVE", path |-> p]
    BY <1>1 DEF StateTypeOK
<1>3. \A g \in Flows \ {f} : flows'[g] = flows[g]
    BY <1>1 DEF StateTypeOK
<1>4. \A l \in Links : linkFlows'[l] = IF l \in LinksOf(p)
                                       THEN linkFlows[l] \cup {f} ELSE linkFlows[l]
    BY DEF Reserve
<1>5. ASSUME NEW l \in Links
      PROVE  f \in linkFlows'[l] <=> l \in LinksOf(p)
    BY <1>4 DEF Unlisted
<1>6. ASSUME NEW g \in Flows \ {f}, NEW l \in Links
      PROVE  g \in linkFlows'[l] <=> g \in linkFlows[l]
    BY <1>4
<1>7. TableIndexed'
    BY <1>2, <1>3, <1>5, <1>6 DEF TableIndexed, InTable, Active, FlowLinks
<1>8. AbsentHasNoPath'
    BY <1>2, <1>3 DEF AbsentHasNoPath, InTable
<1> QED
    BY <1>7, <1>8

LEMMA ReserveLedger ==
    ASSUME LedgerInv, NEW f \in Flows, NEW p \in Paths, NEW force \in BOOLEAN,
           Unlisted(f), Reserve(f, p, force), holdDown' \subseteq Flows
    PROVE  LedgerInv'
BY ReserveType, ReserveBalances, ReserveFits, ReserveIndexes DEF LedgerInv

-----------------------------------------------------------------------------
\* A release gives back exactly what was charged: the clamp never bites,
\* because the flow is among those the residual was computed without.
LEMMA ReleaseBalances ==
    ASSUME StateTypeOK, TableIndexed, BooksBalance, NEW f \in Flows,
           NEW s \in FlowStates, Release(f, s)
    PROVE  BooksBalance'
<1> SUFFICES ASSUME NEW l \in Links
             PROVE  residual'[l] = Capacity[l] - Load(linkFlows'[l])
    BY DEF BooksBalance
<1> DEFINE freed == IF Active(f) THEN FlowLinks(f) ELSE {}
<1>1. /\ residual'[l] = IF l \in freed THEN Returned(f, l) ELSE residual[l]
      /\ linkFlows'[l] = IF l \in freed THEN linkFlows[l] \ {f} ELSE linkFlows[l]
    BY DEF Release
<1>2. residual[l] = Capacity[l] - Load(linkFlows[l])
    BY DEF BooksBalance
<1>3. CASE l \in freed
    <2>1. linkFlows[l] \in SUBSET Flows /\ f \in linkFlows[l]
        BY <1>3 DEF StateTypeOK, TableIndexed, Release
    <2>2. Load(linkFlows[l] \ {f}) = Load(linkFlows[l]) - Bandwidth[f]
        BY <2>1, LoadRemove
    <2>3. linkFlows[l] \ {f} \in SUBSET Flows
        BY <2>1
    <2>4. /\ Load(linkFlows[l] \ {f}) \in Nat /\ Load(linkFlows[l]) \in Nat
          /\ Capacity[l] \in Nat /\ Bandwidth[f] \in Nat
        BY <2>1, <2>3, LoadType, WorkloadAssumption, NetworkAssumption
    <2>5. Returned(f, l) = residual[l] + Bandwidth[f]
        BY <1>2, <2>2, <2>4 DEF Returned
    <2>6. residual'[l] = residual[l] + Bandwidth[f]
        BY <1>1, <1>3, <2>5
    <2>7. Load(linkFlows'[l]) = Load(linkFlows[l]) - Bandwidth[f]
        BY <1>1, <1>3, <2>2
    <2> QED
        BY <1>2, <2>4, <2>6, <2>7
<1>4. CASE l \notin freed
    BY <1>1, <1>2, <1>4
<1> QED
    BY <1>3, <1>4

\* A release never adds a checked flow to a link: a flow loses its mark only
\* together with its place.
LEMMA ReleaseFits ==
    ASSUME StateTypeOK, TableIndexed, CheckedFlowsFit, NEW f \in Flows,
           NEW s \in FlowStates, Release(f, s)
    PROVE  CheckedFlowsFit'
<1> SUFFICES ASSUME NEW l \in Links
             PROVE  Load(linkFlows'[l] \ forced') <= Capacity[l]
    BY DEF CheckedFlowsFit
<1> DEFINE freed == IF Active(f) THEN FlowLinks(f) ELSE {}
           before == linkFlows[l] \ forced
           after == linkFlows'[l] \ forced'
<1>1. linkFlows'[l] = IF l \in freed THEN linkFlows[l] \ {f} ELSE linkFlows[l]
    BY DEF Release
<1>2. f \notin linkFlows'[l]
    BY <1>1 DEF StateTypeOK, TableIndexed, Release
<1>3. forced' = forced \ {f}
    BY DEF Release
<1>4. before \in SUBSET Flows /\ after \in SUBSET before
    BY <1>1, <1>2, <1>3 DEF StateTypeOK
<1>5. Load(after) <= Load(before) /\ Load(before) \in Nat /\ Load(after) \in Nat
    BY <1>4, LoadMonotonic, LoadType
<1>6. Load(before) <= Capacity[l]
    BY DEF CheckedFlowsFit
<1>7. Capacity[l] \in Nat
    BY NetworkAssumption
<1> QED
    BY <1>5, <1>6, <1>7

\* A released flow is on no link and has no path.
LEMMA ReleaseIndexes ==
    ASSUME StateTypeOK, TableIndexed, AbsentHasNoPath, NEW f \in Flows,
           NEW s \in FlowStates \ {"ABSENT", "ACTIVE"}, Release(f, s)
    PROVE  TableIndexed' /\ AbsentHasNoPath'
<1>1. flows'[f] = [state |-> s, path |-> NoPath]
    BY DEF StateTypeOK, Release
<1>2. \A g \in Flows \ {f} : flows'[g] = flows[g]
    BY DEF StateTypeOK, Release
<1>3. ASSUME NEW l \in Links
      PROVE  f \notin linkFlows'[l]
    BY DEF StateTypeOK, TableIndexed, Release
<1>4. ASSUME NEW g \in Flows \ {f}, NEW l \in Links
      PROVE  g \in linkFlows'[l] <=> g \in linkFlows[l]
    BY DEF Release
<1>5. TableIndexed'
    BY <1>1, <1>2, <1>3, <1>4 DEF TableIndexed, InTable, Active, FlowLinks
<1>6. AbsentHasNoPath'
    BY <1>1, <1>2 DEF AbsentHasNoPath, InTable
<1> QED
    BY <1>5, <1>6

LEMMA ReleaseLedger ==
    ASSUME LedgerInv, NEW f \in Flows, NEW s \in FlowStates \ {"ABSENT", "ACTIVE"},
           Release(f, s), holdDown' \subseteq Flows
    PROVE  LedgerInv'
BY ReleaseType, ReleaseBalances, ReleaseFits, ReleaseIndexes DEF LedgerInv

\* Steps that leave flows, residuals and index alone leave the books in order.
LEMMA QuietLedger ==
    ASSUME LedgerInv, UNCHANGED <<flows, residual, linkFlows, forced>>,
           downLinks' \subseteq Links, holdDown' \subseteq Flows
    PROVE  LedgerInv'
<1>1. StateTypeOK'
    BY DEF LedgerInv, StateTypeOK
<1>2. TableIndexed' /\ AbsentHasNoPath'
    BY DEF LedgerInv, TableIndexed, AbsentHasNoPath, InTable, Active, FlowLinks
<1>3. BooksBalance' /\ CheckedFlowsFit'
    BY DEF LedgerInv, BooksBalance, CheckedFlowsFit
<1> QED
    BY <1>1, <1>2, <1>3 DEF LedgerInv

\* So does a step that turns flows without a place into other such flows.
LEMMA RelabelLedger ==
    ASSUME LedgerInv, UNCHANGED <<residual, linkFlows, downLinks, forced, holdDown>>,
           flows' \in [Flows -> FlowRecord],
           \A f \in Flows : \/ flows'[f] = flows[f]
                            \/ /\ ~Active(f)'
                               /\ flows'[f].path = NoPath
                               /\ InTable(f)' => InTable(f) /\ ~Active(f)
    PROVE  LedgerInv'
<1>1. StateTypeOK'
    BY DEF LedgerInv, StateTypeOK
<1>2. TableIndexed'
    BY DEF LedgerInv, TableIndexed, InTable, Active, FlowLinks
<1>3. AbsentHasNoPath'
    BY DEF LedgerInv, AbsentHasNoPath, InTable
<1>4. BooksBalance' /\ CheckedFlowsFit'
    BY DEF LedgerInv, BooksBalance, CheckedFlowsFit
<1> QED
    BY <1>1, <1>2, <1>3, <1>4 DEF LedgerInv

-----------------------------------------------------------------------------
\* The books are in order before the first call.
LEMMA InitLedger == StateInit => LedgerInv /\ NoOrphans
<1> SUFFICES ASSUME StateInit PROVE LedgerInv /\ NoOrphans
    OBVIOUS
<1>1. flows \in [Flows -> FlowRecord]
    BY DEF StateInit, FlowRecord, FlowStates
<1>2. residual \in [Links -> Int]
    BY NetworkAssumption DEF StateInit
<1>3. StateTypeOK
    BY <1>1, <1>2 DEF StateInit, StateTypeOK
<1>4. TableIndexed /\ AbsentHasNoPath /\ NoOrphans
    BY DEF StateInit, TableIndexed, AbsentHasNoPath, NoOrphans, InTable, Unlisted
<1>5. ASSUME NEW l \in Links
      PROVE  linkFlows[l] = {} /\ linkFlows[l] \ forced = {}
    BY DEF StateInit
<1>6. \A l \in Links : Capacity[l] \in Nat
    BY NetworkAssumption
<1>7. BooksBalance
    BY <1>5, <1>6, LoadEmpty DEF BooksBalance, StateInit
<1>8. CheckedFlowsFit
    BY <1>5, <1>6, LoadEmpty DEF CheckedFlowsFit
<1> QED
    BY <1>3, <1>4, <1>7, <1>8 DEF LedgerInv

\* Without orphans no link lists a flow that has no place.
LEMMA UnplacedIsUnlisted ==
    ASSUME TableIndexed, NoOrphans, NEW f \in Flows,
           ~(Active(f) /\ FlowLinks(f) # {})
    PROVE  Unlisted(f)
BY DEF TableIndexed, NoOrphans, Unlisted

\* Every method called in any order, with the paths of the flow: the books
\* stay in order and nobody is lost.
LEMMA StateNextLedger ==
    ASSUME LedgerInv, NoOrphans, StateNext
    PROVE  LedgerInv' /\ NoOrphans'
<1>1. CASE \E f \in Flows : \E p \in PathsFor(f), force \in BOOLEAN :
              Reserve(f, p, force) /\ UNCHANGED holdDown
    <2>0. PICK f \in Flows : \E p \in PathsFor(f), force \in BOOLEAN :
              Reserve(f, p, force) /\ UNCHANGED holdDown
        BY <1>1
    <2>1. PICK p \in PathsFor(f), force \in BOOLEAN :
              Reserve(f, p, force) /\ UNCHANGED holdDown
        BY <2>0
    <2>2. p \in Paths
        BY DEF PathsFor
    <2>3. Unlisted(f)
        BY <2>1, UnplacedIsUnlisted DEF LedgerInv, Reserve
    <2>4. LedgerInv'
        BY <2>1, <2>2, <2>3, ReserveLedger DEF LedgerInv, StateTypeOK
    <2>5. NoOrphans'
        BY <2>1, <2>2 DEF NoOrphans, Unlisted, InTable, Reserve, LedgerInv, StateTypeOK
    <2> QED
        BY <2>4, <2>5
<1>2. CASE \E f \in Flows, s \in FlowStates \ {"ABSENT", "ACTIVE"} :
              Release(f, s) /\ UNCHANGED holdDown
    <2>1. PICK f \in Flows, s \in FlowStates \ {"ABSENT", "ACTIVE"} :
              Release(f, s) /\ UNCHANGED holdDown
        BY <1>2
    <2>2. LedgerInv'
        BY <2>1, ReleaseLedger DEF LedgerInv, StateTypeOK
    <2>3. NoOrphans'
        BY <2>1 DEF NoOrphans, Unlisted, InTable, Release, LedgerInv, StateTypeOK
    <2> QED
        BY <2>2, <2>3
<1>3. CASE \E f \in Flows : Forget(f) /\ UNCHANGED holdDown
    <2>1. PICK f \in Flows : Forget(f) /\ UNCHANGED holdDown
        BY <1>3
    <2>2. /\ flows'[f] = [state |-> "ABSENT", path |-> NoPath]
          /\ \A g \in Flows \ {f} : flows'[g] = flows[g]
        BY <2>1 DEF Forget, LedgerInv, StateTypeOK
    <2>3. [state |-> "ABSENT", path |-> NoPath] \in FlowRecord
        BY DEF FlowRecord, FlowStates
    <2>4. flows' \in [Flows -> FlowRecord]
        BY <2>1, <2>3 DEF Forget, LedgerInv, StateTypeOK
    <2>5. LedgerInv'
        BY <2>1, <2>2, <2>4, RelabelLedger DEF Forget, Active, InTable
    <2>6. Unlisted(f)
        BY <2>1, UnplacedIsUnlisted DEF Forget, LedgerInv
    <2>7. NoOrphans'
        BY <2>1, <2>2, <2>6 DEF NoOrphans, Unlisted, InTable, Forget
    <2> QED
        BY <2>5, <2>7
<1>4. CASE \/ \E l \in Links : SetLinkDown(l) /\ UNCHANGED holdDown
           \/ \E l \in Links : SetLinkUp(l) /\ UNCHANGED holdDown
           \/ \E f \in Flows :
                 /\ InTable(f)
                 /\ MarkHoldDown(f)
                 /\ UNCHANGED <<flows, residual, linkFlows, downLinks, forced>>
           \/ \E f \in Flows : HoldDownEnds(f)
    <2>1. /\ UNCHANGED <<flows, residual, linkFlows, forced>>
          /\ downLinks' \subseteq Links /\ holdDown' \subseteq Flows
        BY <1>4 DEF SetLinkDown, SetLinkUp, MarkHoldDown, HoldDownEnds,
                    LedgerInv, StateTypeOK
    <2>2. LedgerInv'
        BY <2>1, QuietLedger
    <2>3. NoOrphans'
        BY <2>1 DEF NoOrphans, Unlisted, InTable
    <2> QED
        BY <2>2, <2>3
<1> QED
    BY <1>1, <1>2, <1>3, <1>4 DEF StateNext

\* Nothing changes, nothing breaks.
LEMMA StutterLedger ==
    ASSUME LedgerInv, NoOrphans, UNCHANGED stateVars
    PROVE  LedgerInv' /\ NoOrphans'
<1>1. /\ UNCHANGED <<flows, residual, linkFlows, forced>>
      /\ downLinks' = downLinks /\ holdDown' = holdDown
    BY DEF stateVars
<1>2. LedgerInv'
    BY <1>1, QuietLedger DEF LedgerInv, StateTypeOK
<1>3. NoOrphans'
    BY <1>1 DEF NoOrphans, Unlisted, InTable
<1> QED
    BY <1>2, <1>3

\* Spelled out flow by flow, the two forms of the index agree.
LEMMA IndexFromLedger ==
    ASSUME LedgerInv, NoOrphans
    PROVE  IndexAgrees
BY DEF LedgerInv, NoOrphans, Unlisted, AbsentHasNoPath, TableIndexed, IndexAgrees,
       StateTypeOK, InTable, Active

\* The inductive invariant of the ledger on its own (state.py).
THEOREM StateInvariant == StateSpec => [](LedgerInv /\ NoOrphans)
<1>1. StateInit => LedgerInv /\ NoOrphans
    BY InitLedger
<1>2. LedgerInv /\ NoOrphans /\ [StateNext]_stateVars => (LedgerInv /\ NoOrphans)'
    BY StateNextLedger, StutterLedger
<1> QED
    BY <1>1, <1>2, PTL DEF StateSpec

\* Whatever calls are made of NetworkState, in whatever order, its residuals
\* are what the flows it lists leave free, and it lists exactly the ACTIVE
\* flows where their paths go (state.py, "must never drift apart").
THEOREM StateCorrect ==
    StateSpec => [](StateTypeOK /\ IndexAgrees /\ BooksBalance /\ CheckedFlowsFit)
<1>1. LedgerInv /\ NoOrphans
        => StateTypeOK /\ IndexAgrees /\ BooksBalance /\ CheckedFlowsFit
    BY IndexFromLedger DEF LedgerInv
<1> QED
    BY <1>1, StateInvariant, PTL

-----------------------------------------------------------------------------
\* The refinement of Reservations: booked reads the index the other way round.
Booked == [f \in Flows |-> { l \in Links : f \in linkFlows[l] }]

\* Bookings and ledger mean the same by a load and by the links of a path.
LEMMA LedgerOperators ==
    /\ \A S : Ledger!Load(S) = Load(S)
    /\ \A f : Ledger!Routes(f) = { LinksOf(p) : p \in PathsFor(f) }
<1>0. \A S : Ledger!Cardinality(S) = Cardinality(S)
    BY Zenon DEF Ledger!Cardinality, Cardinality
<1>1. \A S : Ledger!Load(S) = Load(S)
    BY <1>0, Zenon DEF Ledger!Load, Ledger!Units, Load, Units
<1>2. Ledger!Paths = Paths
    BY <1>0, Zenon DEF Ledger!Paths, Paths, Ledger!Adjacent, Adjacent
<1>3. \A p : Ledger!LinksOf(p) = LinksOf(p)
    BY Zenon DEF Ledger!LinksOf, LinksOf, Ledger!LinkAt, LinkAt
<1>4. \A f : Ledger!PathsFor(f) = PathsFor(f)
    BY <1>2, Zenon DEF Ledger!PathsFor, PathsFor
<1>5. ASSUME NEW f
      PROVE  Ledger!Routes(f) = { LinksOf(p) : p \in PathsFor(f) }
    BY <1>3, <1>4 DEF Ledger!Routes
<1> QED
    BY <1>1, <1>5

\* What the bookings leave of a link is what the ledger calls available.
LEMMA FreeIsAvailable ==
    ASSUME StateTypeOK, BooksBalance, NEW l \in Links
    PROVE  Ledger!Free(l) = Available(l)
<1>1. Ledger!BookedOn(l) = linkFlows[l]
    BY DEF Ledger!BookedOn, StateTypeOK
<1>2. residual[l] = Capacity[l] - Load(linkFlows[l])
    BY DEF BooksBalance
<1>3. Ledger!Load(Ledger!BookedOn(l)) = Load(linkFlows[l])
    BY <1>1, LedgerOperators, Zenon
<1> QED
    BY <1>2, <1>3 DEF Ledger!Free, Available

\* A reservation books the links of its path, all of them and only there.
LEMMA ReserveBooks ==
    ASSUME StateTypeOK, BooksBalance, NEW f \in Flows, NEW p \in PathsFor(f),
           NEW force \in BOOLEAN, Unlisted(f), Reserve(f, p, force)
    PROVE  Ledger!Book(f, LinksOf(p)) \/ Ledger!Overbook(f, LinksOf(p))
<1>1. p \in Paths /\ LinksOf(p) \subseteq Links
    BY LinksOfPath DEF PathsFor
<1>2. Booked[f] = {}
    BY DEF Booked, Unlisted
<1>3. \A l \in Links : linkFlows'[l] = IF l \in LinksOf(p)
                                       THEN linkFlows[l] \cup {f} ELSE linkFlows[l]
    BY DEF Reserve
<1>4. { l \in Links : f \in linkFlows'[l] } = LinksOf(p)
    BY <1>1, <1>3 DEF Unlisted
<1>5. ASSUME NEW g \in Flows \ {f}
      PROVE  { l \in Links : g \in linkFlows'[l] } = { l \in Links : g \in linkFlows[l] }
    BY <1>3
<1>6. [g \in Flows |-> { l \in Links : g \in linkFlows'[l] }]
        = [Booked EXCEPT ![f] = LinksOf(p)]
    BY <1>4, <1>5 DEF Booked
<1>7. CASE force
    <2>1. forced' = forced \cup {f} /\ downLinks' = downLinks
        BY <1>7 DEF Reserve
    <2> QED
        BY <1>2, <1>6, <2>1 DEF Ledger!Overbook, Booked
<1>8. CASE ~force
    <2>1. forced' = forced \ {f} /\ downLinks' = downLinks
        BY <1>8 DEF Reserve
    <2>2. \A l \in LinksOf(p) : Ledger!Free(l) >= Bandwidth[f]
        BY <1>1, <1>8, FreeIsAvailable DEF Reserve, Fits
    <2> QED
        BY <1>2, <1>6, <2>1, <2>2 DEF Ledger!Book, Booked
<1> QED
    BY <1>7, <1>8

\* A release cancels the whole booking.
LEMMA ReleaseCancels ==
    ASSUME StateTypeOK, TableIndexed, NEW f \in Flows, NEW s \in FlowStates,
           Release(f, s)
    PROVE  Ledger!Cancel(f)
<1>1. \A l \in Links : f \notin linkFlows'[l]
    BY DEF StateTypeOK, TableIndexed, Release
<1>2. \A g \in Flows \ {f}, l \in Links : g \in linkFlows'[l] <=> g \in linkFlows[l]
    BY DEF Release
<1>3. [g \in Flows |-> { l \in Links : g \in linkFlows'[l] }]
        = [Booked EXCEPT ![f] = {}]
    BY <1>1, <1>2 DEF Booked
<1>4. forced' = forced \ {f} /\ downLinks' = downLinks
    BY DEF Release
<1> QED
    BY <1>3, <1>4 DEF Ledger!Cancel, Booked

\* Every step of the ledger is a step of the bookings or none.
LEMMA StateStepRefines ==
    ASSUME LedgerInv, NoOrphans, [StateNext]_stateVars
    PROVE  [Ledger!RNext]_(Ledger!rvars)
<1>1. CASE \E f \in Flows : \E p \in PathsFor(f), force \in BOOLEAN :
              Reserve(f, p, force) /\ UNCHANGED holdDown
    <2>1. PICK f \in Flows : \E p \in PathsFor(f), force \in BOOLEAN :
              Reserve(f, p, force) /\ UNCHANGED holdDown
        BY <1>1
    <2>2. PICK p \in PathsFor(f), force \in BOOLEAN : Reserve(f, p, force)
        BY <2>1
    <2>3. Unlisted(f)
        BY <2>2, UnplacedIsUnlisted DEF LedgerInv, Reserve
    <2>4. Ledger!Book(f, LinksOf(p)) \/ Ledger!Overbook(f, LinksOf(p))
        BY <2>2, <2>3, ReserveBooks DEF LedgerInv
    <2>5. LinksOf(p) \in Ledger!Routes(f)
        BY LedgerOperators
    <2> QED
        BY <2>4, <2>5 DEF Ledger!RNext
<1>2. CASE \E f \in Flows, s \in FlowStates \ {"ABSENT", "ACTIVE"} :
              Release(f, s) /\ UNCHANGED holdDown
    BY <1>2, ReleaseCancels DEF LedgerInv, Ledger!RNext
<1>3. CASE \E l \in Links : SetLinkDown(l) /\ UNCHANGED holdDown
    BY <1>3 DEF SetLinkDown, Ledger!RNext, Ledger!Break
<1>4. CASE \E l \in Links : SetLinkUp(l) /\ UNCHANGED holdDown
    BY <1>4 DEF SetLinkUp, Ledger!RNext, Ledger!Repair
<1>5. CASE UNCHANGED <<linkFlows, forced, downLinks>>
    BY <1>5 DEF Ledger!rvars
<1> QED
    BY <1>1, <1>2, <1>3, <1>4, <1>5
       DEF StateNext, stateVars, Forget, MarkHoldDown, HoldDownEnds

\* The incremental ledger implements the bookings: no call of NetworkState
\* books a flow where the sum of what is booked leaves no room, unless it was
\* told not to look (state.py reserve, release).
THEOREM StateRefines == StateSpec => LedgerSpec
<1>1. StateInit => Ledger!RInit
    BY DEF StateInit, Ledger!RInit
<1>2. LedgerInv /\ NoOrphans /\ [StateNext]_stateVars
        => [Ledger!RNext]_(Ledger!rvars)
    BY StateStepRefines
<1> QED
    BY <1>1, <1>2, StateInvariant, PTL DEF StateSpec, LedgerSpec, Ledger!RSpec
=============================================================================
