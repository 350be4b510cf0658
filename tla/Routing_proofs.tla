---------------------------- MODULE Routing_proofs ----------------------------
(***************************************************************************)
(* Facts about paths, and what the search never does: it follows no link   *)
(* that is too narrow for the request or down.  Search is a recursive      *)
(* function of its round, so the proof first shows that there is such a    *)
(* function and then goes through the rounds, both by a least round that   *)
(* would be different.                                                     *)
(***************************************************************************)
EXTENDS Routing, FiniteSetTheorems, WellFoundedInduction, TLAPS

\* A set of numbers has a least one.
LEMMA LeastNumber ==
    ASSUME NEW T \in SUBSET Nat, T # {}
    PROVE  \E n \in T : \A m \in T : n <= m
<1>1. IsWellFoundedOn(OpToRel(<, Nat), Nat)
    BY NatLessThanWellFounded
<1>2. PICK n \in T : \A m \in T : ~(<<m, n>> \in OpToRel(<, Nat))
    BY <1>1, WFMin
<1>3. ASSUME NEW m \in T PROVE n <= m
    <2>1. ~(m < n)
        <3>1. <<m, n>> \in Nat \X Nat /\ <<m, n>>[1] = m /\ <<m, n>>[2] = n
            OBVIOUS
        <3> QED
            BY <1>2, <3>1, Zenon DEF OpToRel
    <2> QED
        BY <2>1
<1> QED
    BY <1>3

\* What a path is, index by index.
LEMMA PathFacts ==
    ASSUME NEW p \in Paths
    PROVE  /\ Len(p) \in Nat /\ Len(p) >= 1 /\ Len(p) <= Cardinality(Switches)
           /\ p \in [1..Len(p) -> Switches]
           /\ \A i, j \in 1..Len(p) : p[i] = p[j] => i = j
           /\ \A i \in 1..Len(p) - 1 : Adjacent(p[i], p[i + 1])
<1>1. PICK n \in 1..Cardinality(Switches) :
        p \in { q \in [1..n -> Switches] :
                  /\ \A i, j \in 1..n : q[i] = q[j] => i = j
                  /\ \A i \in 1..n - 1 : Adjacent(q[i], q[i + 1]) }
    BY DEF Paths
<1>2. Cardinality(Switches) \in Nat
    BY NetworkAssumption, FS_CardinalityType
<1>3. n \in Nat /\ Len(p) = n
    BY <1>1, <1>2
<1> QED
    BY <1>1, <1>2, <1>3

\* Switches in a row, linked and none of them twice, are a path.
LEMMA PathOf ==
    ASSUME NEW n \in Nat \ {0}, NEW p \in [1..n -> Switches],
           \A i, j \in 1..n : p[i] = p[j] => i = j,
           \A i \in 1..n - 1 : Adjacent(p[i], p[i + 1])
    PROVE  p \in Paths /\ Len(p) = n
<1>1. Cardinality(Switches) \in Nat
    BY NetworkAssumption, FS_CardinalityType
<1>2. IsFiniteSet(1..n) /\ Cardinality(1..n) = n
    BY FS_Interval
<1>3. p \in Injection(1..n, Switches)
    BY DEF Injection, IsInjective
<1>4. Cardinality(1..n) <= Cardinality(Switches)
    BY <1>3, FS_Injection, NetworkAssumption
<1>5. n \in 1..Cardinality(Switches)
    BY <1>1, <1>2, <1>4
<1>6. Len(p) = n
    OBVIOUS
<1> QED
    BY <1>5, <1>6 DEF Paths

\* The links of a path are links of the network.
LEMMA LinksOfPath ==
    ASSUME NEW p \in Paths
    PROVE  LinksOf(p) \subseteq Links
BY PathFacts DEF LinksOf, LinkAt, Adjacent

\* An unplaced flow is on no link.
LEMMA NoPathNoLinks == LinksOf(NoPath) = {}
BY DEF LinksOf, LinkAt, NoPath

\* A switch alone is a path.
LEMMA SingletonPath ==
    ASSUME NEW s \in Switches
    PROVE  <<s>> \in Paths
<1>1. Cardinality(Switches) \in Nat /\ Cardinality(Switches) # 0
    BY NetworkAssumption, FS_CardinalityType, FS_EmptySet
<1>2. 1 \in 1..Cardinality(Switches)
    BY <1>1
<1>3. <<s>> \in [1..1 -> Switches]
    OBVIOUS
<1> QED
    BY <1>2, <1>3 DEF Paths

-----------------------------------------------------------------------------
\* r lists the tables of a search round by round, up to round n.
Rounds(r, n, policy, src, dst, width, minimum) ==
    r = [k \in 0..n |-> IF k = 0 THEN { StartTable(src) }
                        ELSE Advance(r[k - 1], policy, dst, width, minimum)]

\* What a list of rounds says, round by round.
LEMMA NextRound ==
    ASSUME NEW r, NEW n \in Nat, NEW policy, NEW src, NEW dst, NEW width,
           NEW minimum, Rounds(r, n, policy, src, dst, width, minimum)
    PROVE  /\ r[0] = { StartTable(src) }
           /\ \A k \in 0..n - 1 :
                r[k + 1] = Advance(r[k], policy, dst, width, minimum)
<1>1. \A k \in 0..n : r[k] = IF k = 0 THEN { StartTable(src) }
                            ELSE Advance(r[k - 1], policy, dst, width, minimum)
    BY Zenon DEF Rounds
<1>2. ASSUME NEW k \in 0..n - 1
      PROVE  r[k + 1] = Advance(r[k], policy, dst, width, minimum)
    <2>1. k + 1 \in 0..n /\ k + 1 # 0 /\ (k + 1) - 1 = k
        OBVIOUS
    <2> QED
        BY <1>1, <2>1
<1> QED
    BY <1>1, <1>2

\* The rounds of a search can be listed, however many there are.
LEMMA RoundsExist ==
    ASSUME NEW policy, NEW src, NEW dst, NEW width, NEW minimum, NEW n \in Nat
    PROVE  \E r : Rounds(r, n, policy, src, dst, width, minimum)
<1> DEFINE U(S) == Advance(S, policy, dst, width, minimum)
           S0 == { StartTable(src) }
           Is(r, k) == r = [i \in 0..k |-> IF i = 0 THEN S0 ELSE U(r[i - 1])]
           T == { k \in Nat : ~ \E r : Is(r, k) }
<1> HIDE DEF U, S0
<1>1. T = {}
    <2> SUFFICES ASSUME T # {} PROVE FALSE
        OBVIOUS
    <2>1. PICK k \in T : \A m \in T : k <= m
        BY LeastNumber
    <2>4. k \in Nat
        OBVIOUS
    <2>2. CASE k = 0
        <3>1. Is([i \in 0..0 |-> S0], k)
            BY <2>2
        <3> QED
            BY <2>1, <3>1
    <2>3. CASE k # 0
        <3>1. k - 1 \in Nat /\ k - 1 \notin T
            <4> HIDE DEF T
            <4> QED
                BY <2>1, <2>3, <2>4
        <3>2. PICK r : Is(r, k - 1)
            BY <3>1
        <3> DEFINE q == [i \in 0..k |-> IF i = k THEN U(r[k - 1]) ELSE r[i]]
        <3>3. ASSUME NEW i \in 0..k
              PROVE  q[i] = IF i = 0 THEN S0 ELSE U(q[i - 1])
            <4>1. \A j \in 0..k - 1 : r[j] = IF j = 0 THEN S0 ELSE U(r[j - 1])
                BY <3>2
            <4>2. CASE i = k
                <5>1. q[i] = U(r[k - 1])
                    BY <4>2
                <5>2. q[i - 1] = r[k - 1]
                    BY <2>1, <3>1, <4>2
                <5> QED
                    BY <2>3, <4>2, <5>1, <5>2
            <4>3. CASE i # k
                <5>1. q[i] = r[i]
                    BY <4>3
                <5>2. i # 0 => q[i - 1] = r[i - 1]
                    BY <2>1, <4>3
                <5>3. i \in 0..k - 1
                    BY <2>1, <4>3
                <5> QED
                    BY <4>1, <5>1, <5>2, <5>3
            <4> QED
                BY <4>2, <4>3
        <3>4. q = [i \in 0..k |-> q[i]]
            OBVIOUS
        <3> HIDE DEF q
        <3>5. Is(q, k)
            BY <3>3, <3>4
        <3> QED
            BY <2>1, <3>5
    <2> QED
        BY <2>2, <2>3
<1>2. \E r : Is(r, n)
    BY <1>1
<1> QED
    BY <1>2, Zenon DEF Rounds, U, S0

\* The search is the last of its rounds.
LEMMA SearchRounds ==
    ASSUME NEW policy, NEW src, NEW dst, NEW width, NEW minimum,
           Cardinality(Switches) \in Nat
    PROVE  \E r : /\ Rounds(r, Cardinality(Switches), policy, src, dst, width, minimum)
                  /\ Search(policy, src, dst, width, minimum) = r[Cardinality(Switches)]
<1>1. PICK N : N = Cardinality(Switches)
    OBVIOUS
<1>2. PICK r : r = CHOOSE x : Rounds(x, N, policy, src, dst, width, minimum)
    OBVIOUS
<1>3. \E x : Rounds(x, N, policy, src, dst, width, minimum)
    BY <1>1, RoundsExist
<1>4. Rounds(r, N, policy, src, dst, width, minimum)
    BY <1>2, <1>3, Zenon
<1>5. Search(policy, src, dst, width, minimum) = r[N]
    BY <1>1, <1>2, Zenon DEF Search, Rounds
<1> QED
    BY <1>1, <1>4, <1>5

\* Every predecessor a table holds is across a link the search may use.
Pruned(t, width, minimum) ==
    \A m \in Switches : t.prev[m] # m =>
        Adjacent(t.prev[m], m) /\ Usable(width[{t.prev[m], m}], minimum)

\* Scanning a switch changes predecessors across usable links only.
LEMMA ScanPrunes ==
    ASSUME NEW t, NEW n, NEW policy, NEW dst, NEW width, NEW minimum,
           Pruned(t, width, minimum)
    PROVE  Pruned(Scan(t, n, policy, dst, width, minimum), width, minimum)
<1> SUFFICES ASSUME NEW m \in Switches,
                    Scan(t, n, policy, dst, width, minimum).prev[m] # m
             PROVE  LET from == Scan(t, n, policy, dst, width, minimum).prev[m]
                    IN  Adjacent(from, m) /\ Usable(width[{from, m}], minimum)
    BY DEF Pruned
<1>1. PICK from : from = Scan(t, n, policy, dst, width, minimum).prev[m]
    OBVIOUS
<1>2. \/ from = n /\ Adjacent(n, m) /\ Usable(width[{n, m}], minimum)
      \/ from = t.prev[m]
    BY <1>1 DEF Scan
<1> QED
    BY <1>1, <1>2 DEF Pruned

\* So no table of a search holds another one.
LEMMA SearchIsPruned ==
    ASSUME NEW policy, NEW src, NEW dst, NEW width, NEW minimum,
           NEW t \in Search(policy, src, dst, width, minimum)
    PROVE  Pruned(t, width, minimum)
<1>1. Cardinality(Switches) \in Nat
    BY FS_CardinalityType, NetworkAssumption
<1>2. PICK N : N = Cardinality(Switches)
    OBVIOUS
<1>3. PICK r : /\ Rounds(r, N, policy, src, dst, width, minimum)
               /\ Search(policy, src, dst, width, minimum) = r[N]
    BY <1>1, <1>2, SearchRounds
<1> DEFINE Bad == { k \in 0..N : \E x \in r[k] : ~Pruned(x, width, minimum) }
<1>4. Bad = {}
    <2> SUFFICES ASSUME Bad # {} PROVE FALSE
        OBVIOUS
    <2>1. PICK k \in Bad : \A m \in Bad : k <= m
        <3>1. Bad \in SUBSET Nat
            BY <1>1, <1>2
        <3> HIDE DEF Bad
        <3> QED
            BY <3>1, LeastNumber
    <2>2. k \in 0..N /\ N \in Nat
        BY <1>1, <1>2
    <2>3. PICK x \in r[k] : ~Pruned(x, width, minimum)
        OBVIOUS
    <2>4. CASE k = 0
        <3>1. x = StartTable(src)
            BY <1>3, <2>2, <2>3, <2>4 DEF Rounds
        <3> QED
            BY <2>3, <3>1 DEF StartTable, Pruned
    <2>5. CASE k # 0
        <3>1. k - 1 \in 0..N /\ k - 1 \notin Bad
            <4> HIDE DEF Bad
            <4> QED
                BY <2>1, <2>2, <2>5
        <3>2. \A y \in r[k - 1] : Pruned(y, width, minimum)
            BY <3>1
        <3>3. x \in Advance(r[k - 1], policy, dst, width, minimum)
            BY <1>3, <2>2, <2>3, <2>5 DEF Rounds
        <3>4. PICK y \in r[k - 1] :
                 x \in IF SearchOver(y, dst) THEN {y}
                       ELSE { Scan(y, n, policy, dst, width, minimum) :
                              n \in Popped(y, policy) }
            BY <3>3, Zenon DEF Advance
        <3>5. x = y \/ \E n : x = Scan(y, n, policy, dst, width, minimum)
            BY <3>4
        <3> QED
            BY <2>3, <3>2, <3>5, ScanPrunes
    <2> QED
        BY <2>4, <2>5
<1> QED
    BY <1>1, <1>2, <1>3, <1>4

\* A path that is found crosses no link that is too narrow or down
\* (routing.py, the pruning of widest_path and shortest_path).
THEOREM FoundPathIsUsable ==
    ASSUME NEW policy, NEW src, NEW dst, NEW width, NEW minimum,
           NEW p \in FindPath(policy, src, dst, width, minimum),
           NEW l \in LinksOf(p)
    PROVE  Usable(width[l], minimum)
<1>1. CASE src = dst
    <2>1. p = <<src>>
        BY <1>1 DEF FindPath
    <2>2. LinksOf(p) = {}
        BY <2>1 DEF LinksOf
    <2> QED
        BY <2>2
<1>2. CASE src # dst
    <2>1. PICK t : /\ t \in Search(policy, src, dst, width, minimum)
                   /\ p \in Reconstruct(t.prev, src, dst)
        BY <1>2 DEF FindPath
    <2>2. Pruned(t, width, minimum)
        BY <2>1, SearchIsPruned
    <2>3. p \in Paths /\ \A i \in 2..Len(p) : t.prev[p[i]] = p[i - 1]
        BY <2>1 DEF Reconstruct
    <2>4. PICK n \in Nat : /\ p \in [1..n -> Switches]
                           /\ \A i, j \in 1..n : p[i] = p[j] => i = j
        <3>1. Cardinality(Switches) \in Nat
            BY FS_CardinalityType, NetworkAssumption
        <3>2. 1..Cardinality(Switches) \subseteq Nat
            BY <3>1
        <3> QED
            BY <2>3, <3>2 DEF Paths
    <2>5. Len(p) = n
        BY <2>4
    <2>6. PICK i \in 1..n - 1 : l = LinkAt(p, i)
        BY <2>5 DEF LinksOf
    <2>7. i + 1 \in 2..n /\ i \in 1..n /\ i + 1 \in 1..n /\ (i + 1) - 1 = i
        BY <2>4, <2>6
    <2>8. t.prev[p[i + 1]] = p[i] /\ p[i] # p[i + 1] /\ p[i + 1] \in Switches
        BY <2>3, <2>4, <2>5, <2>7
    <2> QED
        BY <2>2, <2>6, <2>8 DEF Pruned, LinkAt
<1> QED
    BY <1>1, <1>2
===============================================================================
