--------------------------- MODULE Dijkstra_proofs ---------------------------
(***************************************************************************)
(* The searches of routing.py return what they promise, on every core and  *)
(* for every query.  The proof is Dijkstra's: switches are settled from    *)
(* the best label to the worst, and no usable link out of a settled switch *)
(* offers its other end more than that end's label already says.           *)
(***************************************************************************)
EXTENDS Dijkstra, Routing_proofs

\* A label of the table.
Labels == [width : Nat, hops : Nat]

\* What n, popped, has to offer to m.
Offer(t, n, m, width) ==
    [ width |-> IF width[{n, m}] < t.label[n].width
                THEN width[{n, m}] ELSE t.label[n].width,
      hops  |-> t.label[n].hops + 1 ]

\* n may reach m: a link the search does not prune.
Open(n, m, width, minimum) ==
    Adjacent(n, m) /\ Usable(width[{n, m}], minimum)

\* The switches whose label scanning n improves.
Improved(t, n, q) ==
    { m \in Switches \ (t.settled \cup {n}) :
        /\ n # q.ends[2]
        /\ Open(n, m, q.width, q.minimum)
        /\ Better(q.policy, Offer(t, n, m, q.width), t.label[m]) }

Scanned(t, n, q) == Scan(t, n, q.policy, q.ends[2], q.width, q.minimum)

-----------------------------------------------------------------------------
\* The inductive invariant, part by part, of table t for query q.

IsTable(t) ==
    t \in [ label   : [Switches -> Labels],
            prev    : [Switches -> Switches],
            settled : SUBSET Switches ]

\* src keeps the label it starts with.
SourceKept(t, q) ==
    /\ t.label[q.ends[1]] = [width |-> Infinity, hops |-> 0]
    /\ t.prev[q.ends[1]] = q.ends[1]

\* A switch that no offer reached is as it was, and is not settled.
UnreachedKept(t) ==
    \A m \in Switches : ~Reached(t.label[m]) =>
        t.label[m] = Unreached /\ t.prev[m] = m /\ m \notin t.settled

\* Any other label is the offer of the predecessor, which is settled.
LabelIsOffer(t, q) ==
    \A m \in Switches \ {q.ends[1]} : Reached(t.label[m]) =>
        /\ t.prev[m] \in t.settled
        /\ Open(t.prev[m], m, q.width, q.minimum)
        /\ t.label[m] = Offer(t, t.prev[m], m, q.width)

\* Nothing still to be popped, dst included, is better than a settled switch.
SettledInOrder(t, q) ==
    \A n \in t.settled, m \in Switches :
        Reached(t.label[m]) /\ (m \notin t.settled \/ m = q.ends[2])
            => ~Better(q.policy, t.label[m], t.label[n])

\* A settled switch has nothing more to offer.
OffersTaken(t, q) ==
    \A n \in t.settled \ {q.ends[2]}, m \in Switches :
        Open(n, m, q.width, q.minimum)
            => ~Better(q.policy, Offer(t, n, m, q.width), t.label[m])

SearchInv(t, q) ==
    /\ IsTable(t)
    /\ SourceKept(t, q)
    /\ UnreachedKept(t)
    /\ LabelIsOffer(t, q)
    /\ SettledInOrder(t, q)
    /\ OffersTaken(t, q)

-----------------------------------------------------------------------------
\* "Not better" is a total order on labels.
LEMMA BetterOrder ==
    ASSUME NEW policy, NEW x \in Labels, NEW y \in Labels, NEW z \in Labels
    PROVE  /\ ~Better(policy, x, x)
           /\ Better(policy, x, y) => ~Better(policy, y, x)
           /\ ~Better(policy, x, y) /\ ~Better(policy, y, z)
                  => ~Better(policy, x, z)
<1>1. CASE policy = "shortest"
    BY <1>1 DEF Better, Labels
<1>2. CASE policy # "shortest"
    BY <1>2 DEF Better, Labels
<1> QED
    BY <1>1, <1>2

\* What a query is.
LEMMA QueryType ==
    ASSUME NEW q \in Query
    PROVE  /\ q.ends[1] \in Switches /\ q.ends[2] \in Switches
           /\ \A l \in Links : q.width[l] \in Int /\ q.width[l] < Infinity
           /\ q.minimum \in Int
           /\ q.policy \in {"widest", "shortest"}
<1>1. q.ends \in Switches \X Switches
    BY QueryAssumption DEF Query
<1>2. q.width \in [Links -> QueryWidths]
    BY DEF Query
<1>3. ASSUME NEW l \in Links PROVE q.width[l] \in Int /\ q.width[l] < Infinity
    <2>1. q.width[l] \in QueryWidths
        BY <1>2
    <2> QED
        BY <2>1, QueryAssumption
<1>4. q.minimum \in Int /\ q.policy \in {"widest", "shortest"}
    BY QueryAssumption DEF Query
<1> QED
    BY <1>1, <1>3, <1>4

\* A link joins two switches.
LEMMA AdjacentDiffer ==
    ASSUME NEW a, NEW b, Adjacent(a, b)
    PROVE  a # b /\ a \in Switches /\ b \in Switches /\ {a, b} \in Links
<1>1. {a, b} \in Links /\ {a, b} \in SUBSET Switches /\ Cardinality({a, b}) = 2
    BY NetworkAssumption DEF Adjacent
<1>2. a # b
    <2> SUFFICES ASSUME a = b PROVE FALSE
        OBVIOUS
    <2>1. {a, b} = {a}
        OBVIOUS
    <2>2. Cardinality({a}) = 1
        BY FS_Singleton
    <2> QED
        BY <1>1, <2>1, <2>2
<1> QED
    BY <1>1, <1>2

\* An offer over an open link is a label, it reaches, and it is below the
\* label it extends.
LEMMA OfferType ==
    ASSUME NEW q \in Query, NEW t, IsTable(t), NEW n \in Switches, NEW m \in Switches,
           Open(n, m, q.width, q.minimum), Reached(t.label[n])
    PROVE  /\ Offer(t, n, m, q.width) \in Labels
           /\ Reached(Offer(t, n, m, q.width))
           /\ Offer(t, n, m, q.width).width < Infinity
           /\ Offer(t, n, m, q.width).hops > 0
           /\ ~Better(q.policy, Offer(t, n, m, q.width), t.label[n])
<1>1. PICK w \in Int : w = q.width[{n, m}] /\ w < Infinity /\ w > 0
    BY QueryType, AdjacentDiffer DEF Open, Usable
<1>2. PICK x \in Labels : x = t.label[n]
    BY DEF IsTable
<1>3. x.width \in Nat /\ x.hops \in Nat /\ x.width > 0
    BY <1>2 DEF Labels, Reached
<1>4. PICK y : y = Offer(t, n, m, q.width)
    OBVIOUS
<1>5. /\ y = [width |-> IF w < x.width THEN w ELSE x.width, hops |-> x.hops + 1]
    BY <1>1, <1>2, <1>4 DEF Offer
<1>6. /\ y \in Labels /\ y.width > 0 /\ y.width < Infinity /\ y.hops > 0
      /\ y.width <= x.width /\ y.hops = x.hops + 1
    BY <1>1, <1>3, <1>5 DEF Labels, Infinity
<1>7. ~Better(q.policy, y, x)
    BY <1>3, <1>6 DEF Better, Labels
<1> QED
    BY <1>2, <1>4, <1>6, <1>7 DEF Reached

\* What scanning n does to a table, switch by switch.
LEMMA ScanFacts ==
    ASSUME NEW t, NEW n, NEW q
    PROVE  /\ Scanned(t, n, q).settled = t.settled \cup {n}
           /\ \A m \in Switches :
                /\ Scanned(t, n, q).label[m] =
                     IF m \in Improved(t, n, q) THEN Offer(t, n, m, q.width)
                                               ELSE t.label[m]
                /\ Scanned(t, n, q).prev[m] =
                     IF m \in Improved(t, n, q) THEN n ELSE t.prev[m]
BY DEF Scanned, Scan, Improved, Offer, Open

\* A table from its parts.
LEMMA TableOf ==
    ASSUME NEW L \in [Switches -> Labels], NEW P \in [Switches -> Switches],
           NEW S \in SUBSET Switches
    PROVE  IsTable([label |-> L, prev |-> P, settled |-> S])
BY DEF IsTable

\* A popped switch waits to be settled, and nothing that waits is better.
LEMMA PoppedFacts ==
    ASSUME NEW t, NEW policy, IsTable(t), NEW n \in Popped(t, policy)
    PROVE  /\ n \in Switches /\ n \notin t.settled /\ Reached(t.label[n])
           /\ \A m \in Frontier(t) : ~Better(policy, t.label[m], t.label[n])
           /\ Popped(t, policy) = {n}
<1>1. n \in Frontier(t) /\ \A m \in Frontier(t) \ {n} :
         \/ Better(policy, t.label[n], t.label[m])
         \/ t.label[n] = t.label[m] /\ n < m
    BY DEF Popped
<1>2. \A m \in Frontier(t) : m \in Switches /\ t.label[m] \in Labels /\ m \in Nat
    BY NetworkAssumption DEF Frontier, IsTable
<1>3. ASSUME NEW m \in Frontier(t) PROVE ~Better(policy, t.label[m], t.label[n])
    BY <1>1, <1>2, BetterOrder
<1>4. ASSUME NEW m \in Popped(t, policy) PROVE m = n
    <2>1. m \in Frontier(t) /\ \A x \in Frontier(t) \ {m} :
             \/ Better(policy, t.label[m], t.label[x])
             \/ t.label[m] = t.label[x] /\ m < x
        BY DEF Popped
    <2>2. m # n => n < m /\ m < n
        BY <1>1, <1>3, <2>1, <1>2, BetterOrder
    <2> QED
        BY <1>1, <1>2, <2>1, <2>2
<1>5. n \in Switches /\ n \notin t.settled /\ Reached(t.label[n])
    BY <1>1 DEF Frontier
<1> QED
    BY <1>3, <1>4, <1>5

\* The table a search starts with.
LEMMA StartInv ==
    ASSUME NEW q \in Query
    PROVE  SearchInv(StartTable(q.ends[1]), q)
<1>1. PICK s \in Switches : s = q.ends[1]
    BY QueryType
<1>2. PICK t : t = StartTable(s)
    OBVIOUS
<1>3. /\ t.settled = {}
      /\ \A m \in Switches : t.prev[m] = m
      /\ \A m \in Switches :
            t.label[m] = IF m = s THEN [width |-> Infinity, hops |-> 0] ELSE Unreached
    BY <1>2 DEF StartTable
<1>4. IsTable(t)
    BY <1>1, <1>2 DEF StartTable, IsTable, Labels, Unreached, Infinity
<1>5. /\ SourceKept(t, q) /\ UnreachedKept(t) /\ LabelIsOffer(t, q)
      /\ SettledInOrder(t, q) /\ OffersTaken(t, q)
    BY <1>1, <1>3 DEF SourceKept, UnreachedKept, LabelIsOffer, SettledInOrder,
                      OffersTaken, Reached, Unreached, Infinity
<1> QED
    BY <1>1, <1>2, <1>4, <1>5 DEF SearchInv

\* One iteration of the loop keeps every part of the invariant.
LEMMA ScanKeepsInv ==
    ASSUME NEW q \in Query, NEW t, SearchInv(t, q), q.ends[1] # q.ends[2],
           ~SearchOver(t, q.ends[2]), NEW n \in Popped(t, q.policy)
    PROVE  SearchInv(Scanned(t, n, q), q)
<1> DEFINE u == Scanned(t, n, q)
           I == Improved(t, n, q)
           offer(m) == Offer(t, n, m, q.width)
           s == q.ends[1]
           d == q.ends[2]
<1>1. /\ IsTable(t) /\ SourceKept(t, q) /\ UnreachedKept(t)
      /\ LabelIsOffer(t, q) /\ SettledInOrder(t, q) /\ OffersTaken(t, q)
    BY DEF SearchInv
<1>2. /\ n \in Switches /\ n \notin t.settled /\ Reached(t.label[n])
      /\ \A m \in Frontier(t) : ~Better(q.policy, t.label[m], t.label[n])
    BY <1>1, PoppedFacts
<1>3. /\ u.settled = t.settled \cup {n}
      /\ \A m \in Switches :
            /\ u.label[m] = IF m \in I THEN offer(m) ELSE t.label[m]
            /\ u.prev[m] = IF m \in I THEN n ELSE t.prev[m]
    BY ScanFacts
<1>4. /\ d \notin t.settled
      /\ t.settled \subseteq Switches
      /\ \A m \in Switches : t.label[m] \in Labels /\ t.prev[m] \in Switches
    BY <1>1 DEF SearchOver, IsTable
<1>5. \A m \in I : /\ m \in Switches /\ m \notin t.settled /\ m # n /\ n # d
                   /\ Open(n, m, q.width, q.minimum)
                   /\ Better(q.policy, offer(m), t.label[m])
    BY DEF Improved
<1>6. \A m \in I : /\ offer(m) \in Labels /\ Reached(offer(m))
                   /\ offer(m).width < Infinity /\ offer(m).hops > 0
                   /\ ~Better(q.policy, offer(m), t.label[n])
    BY <1>1, <1>2, <1>5, OfferType
<1>7. s \in Switches /\ d \in Switches
    BY QueryType
<1> HIDE DEF I, offer, s, d
<1>8. IsTable(u)
    <2>1. u = [ label   |-> [m \in Switches |-> u.label[m]],
                prev    |-> [m \in Switches |-> u.prev[m]],
                settled |-> u.settled ]
        BY DEF Scanned, Scan
    <2> HIDE DEF u
    <2>2. \A m \in Switches : u.label[m] \in Labels
        BY <1>3, <1>4, <1>6
    <2>3. \A m \in Switches : u.prev[m] \in Switches
        BY <1>2, <1>3, <1>4
    <2>4. u.settled \in SUBSET Switches
        BY <1>2, <1>3, <1>4
    <2>5. [m \in Switches |-> u.label[m]] \in [Switches -> Labels]
        BY <2>2
    <2>6. [m \in Switches |-> u.prev[m]] \in [Switches -> Switches]
        BY <2>3
    <2> QED
        BY <2>1, <2>4, <2>5, <2>6, TableOf
<1> HIDE DEF u
<1>9. SourceKept(u, q)
    <2>1. t.label[s] = [width |-> Infinity, hops |-> 0] /\ t.prev[s] = s
        BY <1>1 DEF SourceKept, s
    <2>2. s \notin I
        <3> SUFFICES ASSUME s \in I PROVE FALSE
            OBVIOUS
        <3>1. /\ offer(s) \in Labels /\ offer(s).width < Infinity /\ offer(s).hops > 0
              /\ Better(q.policy, offer(s), [width |-> Infinity, hops |-> 0])
            BY <1>5, <1>6, <2>1
        <3> QED
            BY <3>1 DEF Better, Labels, Infinity
    <2> QED
        BY <1>3, <1>7, <2>1, <2>2 DEF SourceKept, s
<1>10. UnreachedKept(u)
    <2> SUFFICES ASSUME NEW m \in Switches, ~Reached(u.label[m])
                 PROVE  u.label[m] = Unreached /\ u.prev[m] = m /\ m \notin u.settled
        BY DEF UnreachedKept
    <2>1. m \notin I
        BY <1>3, <1>6
    <2>2. u.label[m] = t.label[m] /\ u.prev[m] = t.prev[m]
        BY <1>3, <2>1
    <2> QED
        BY <1>1, <1>2, <1>3, <2>2 DEF UnreachedKept
<1>11. ASSUME NEW m \in u.settled PROVE u.label[m] = t.label[m]
    BY <1>2, <1>3, <1>4, <1>5
<1>12. LabelIsOffer(u, q)
    <2> SUFFICES ASSUME NEW m \in Switches \ {s}, Reached(u.label[m])
                 PROVE  /\ u.prev[m] \in u.settled
                        /\ Open(u.prev[m], m, q.width, q.minimum)
                        /\ u.label[m] = Offer(u, u.prev[m], m, q.width)
        BY DEF LabelIsOffer, s
    <2>1. CASE m \in I
        <3>1. u.prev[m] = n /\ u.label[m] = offer(m) /\ n \in u.settled
            BY <1>3, <2>1
        <3>2. u.label[n] = t.label[n]
            BY <1>11, <3>1
        <3>3. offer(m) = Offer(u, n, m, q.width)
            BY <3>2 DEF offer, Offer
        <3> QED
            BY <1>5, <2>1, <3>1, <3>3
    <2>2. CASE m \notin I
        <3>1. u.prev[m] = t.prev[m] /\ u.label[m] = t.label[m]
            BY <1>3, <2>2
        <3>2. /\ t.prev[m] \in t.settled
              /\ Open(t.prev[m], m, q.width, q.minimum)
              /\ t.label[m] = Offer(t, t.prev[m], m, q.width)
            BY <1>1, <3>1 DEF LabelIsOffer, s
        <3>3. u.label[t.prev[m]] = t.label[t.prev[m]]
            BY <1>3, <1>11, <3>2
        <3>4. Offer(u, t.prev[m], m, q.width) = Offer(t, t.prev[m], m, q.width)
            BY <3>3 DEF Offer
        <3> QED
            BY <1>3, <3>1, <3>2, <3>4
    <2> QED
        BY <2>1, <2>2
<1>13. SettledInOrder(u, q)
    <2> SUFFICES ASSUME NEW x \in u.settled, NEW m \in Switches, Reached(u.label[m]),
                        m \notin u.settled \/ m = d
                 PROVE  ~Better(q.policy, u.label[m], u.label[x])
        BY DEF SettledInOrder, d
    <2>1. u.label[x] = t.label[x] /\ t.label[x] \in Labels
        BY <1>2, <1>3, <1>4, <1>11
    <2>2. ~Better(q.policy, t.label[n], t.label[x])
        BY <1>1, <1>2, <1>3, <1>4, BetterOrder DEF SettledInOrder
    <2>3. ~Better(q.policy, u.label[m], t.label[n])
        <3>1. CASE m \in I
            BY <1>3, <1>6, <3>1
        <3>2. CASE m \notin I
            <4>1. u.label[m] = t.label[m]
                BY <1>3, <3>2
            <4>2. m \notin t.settled
                BY <1>3, <1>4
            <4>3. m \in Frontier(t)
                BY <4>1, <4>2 DEF Frontier
            <4> QED
                BY <1>2, <4>1, <4>3
        <3> QED
            BY <3>1, <3>2
    <2>4. u.label[m] \in Labels /\ t.label[n] \in Labels
        BY <1>2, <1>3, <1>4, <1>6
    <2> QED
        BY <2>1, <2>2, <2>3, <2>4, BetterOrder
<1>14. OffersTaken(u, q)
    <2> SUFFICES ASSUME NEW x \in u.settled, x # d, NEW m \in Switches,
                        Open(x, m, q.width, q.minimum)
                 PROVE  ~Better(q.policy, Offer(u, x, m, q.width), u.label[m])
        BY DEF OffersTaken, d
    <2>1. u.label[x] = t.label[x] /\ x \in Switches /\ t.label[x] \in Labels
        BY <1>2, <1>3, <1>4, <1>11
    <2>2. Offer(u, x, m, q.width) = Offer(t, x, m, q.width)
        BY <2>1 DEF Offer
    <2>3. Reached(t.label[x])
        BY <1>1, <1>2, <1>3, <1>4 DEF UnreachedKept
    <2>4. /\ Offer(t, x, m, q.width) \in Labels
          /\ ~Better(q.policy, Offer(t, x, m, q.width), t.label[x])
        BY <1>1, <2>1, <2>3, OfferType
    <2>5. t.label[m] \in Labels /\ u.label[m] \in Labels
        BY <1>3, <1>4, <1>6
    <2>6. CASE x = n
        <3>1. CASE m \in I
            BY <1>3, <2>2, <2>4, <2>6, <3>1, BetterOrder DEF offer
        <3>2. CASE m \notin I /\ m \in t.settled \cup {n}
            <4>1. ~Better(q.policy, t.label[n], t.label[m])
                BY <1>1, <1>2, <1>4, <3>2, BetterOrder DEF SettledInOrder
            <4>2. u.label[m] = t.label[m]
                BY <1>3, <3>2
            <4> QED
                BY <2>1, <2>2, <2>4, <2>5, <2>6, <4>1, <4>2, BetterOrder
        <3>3. CASE m \notin I /\ m \notin t.settled \cup {n}
            <4>1. ~Better(q.policy, offer(m), t.label[m])
                BY <2>6, <3>3 DEF I, Improved, d, offer
            <4> QED
                BY <1>3, <2>2, <2>6, <3>3, <4>1 DEF offer
        <3> QED
            BY <3>1, <3>2, <3>3
    <2>7. CASE x # n
        <3>1. ~Better(q.policy, Offer(t, x, m, q.width), t.label[m])
            BY <1>1, <1>3, <2>7 DEF OffersTaken, d
        <3>2. CASE m \in I
            <4>1. Better(q.policy, u.label[m], t.label[m])
                BY <1>3, <1>5, <3>2
            <4>2. ~Better(q.policy, t.label[m], u.label[m])
                BY <2>5, <4>1, BetterOrder
            <4> QED
                BY <2>2, <2>4, <2>5, <3>1, <4>2, BetterOrder
        <3>3. CASE m \notin I
            BY <1>3, <2>2, <3>1, <3>3
        <3> QED
            BY <3>2, <3>3
    <2> QED
        BY <2>6, <2>7
<1> QED
    BY <1>8, <1>9, <1>10, <1>12, <1>13, <1>14 DEF SearchInv, u

-----------------------------------------------------------------------------
\* The table of a search is the one its rounds arrive at, one switch a round.
IsRound(t, q) ==
    \A r : Rounds(r, Cardinality(Switches), q.policy, q.ends[1], q.ends[2],
                  q.width, q.minimum)
             => r[Cardinality(t.settled)] = {t}

IInv ==
    /\ query \in Query
    /\ src # dst
    /\ SearchInv(table, query)
    /\ IsRound(table, query)

\* Settled switches can be counted.
LEMMA SettledCount ==
    ASSUME NEW t, IsTable(t)
    PROVE  /\ IsFiniteSet(t.settled)
           /\ Cardinality(t.settled) \in Nat /\ Cardinality(Switches) \in Nat
           /\ Cardinality(t.settled) <= Cardinality(Switches)
           /\ t.settled # Switches => Cardinality(t.settled) < Cardinality(Switches)
<1>1. t.settled \in SUBSET Switches
    BY DEF IsTable
<1> QED
    BY <1>1, FS_Subset, FS_CardinalityType, NetworkAssumption

\* Scanning the popped switch is the next round.
LEMMA ScanIsRound ==
    ASSUME NEW q \in Query, NEW t, IsTable(t), IsRound(t, q),
           ~SearchOver(t, q.ends[2]), NEW n \in Popped(t, q.policy)
    PROVE  IsRound(Scanned(t, n, q), q)
<1> DEFINE u == Scanned(t, n, q)
           N == Cardinality(Switches)
           k == Cardinality(t.settled)
<1> SUFFICES ASSUME NEW r, Rounds(r, N, q.policy, q.ends[1], q.ends[2],
                                  q.width, q.minimum)
             PROVE  r[Cardinality(u.settled)] = {u}
    BY DEF IsRound
<1>1. n \in Switches /\ n \notin t.settled /\ Popped(t, q.policy) = {n}
    BY PoppedFacts
<1>2. u.settled = t.settled \cup {n}
    BY ScanFacts
<1>3. Cardinality(u.settled) = k + 1 /\ k \in Nat /\ k + 1 <= N /\ N \in Nat
    <2>1. t.settled # Switches
        BY <1>1
    <2>2. Cardinality(t.settled \cup {n}) = Cardinality(t.settled) + 1
        BY <1>1, SettledCount, FS_AddElement
    <2> QED
        BY <1>2, <2>1, <2>2, SettledCount
<1>4. r[k] = {t}
    BY DEF IsRound
<1> HIDE DEF u, N, k
<1>5. r[k + 1] = Advance(r[k], q.policy, q.ends[2], q.width, q.minimum)
    BY <1>3, NextRound, k \in 0..N - 1 DEF N
<1>6. Advance({t}, q.policy, q.ends[2], q.width, q.minimum) = {u}
    BY <1>1 DEF Advance, Scanned, u
<1> QED
    BY <1>3, <1>4, <1>5, <1>6

\* The search keeps its invariant from the first pop to the last.
THEOREM SearchInvariant == Spec => []IInv
<1>1. Init => IInv
    <2> SUFFICES ASSUME Init PROVE IInv
        OBVIOUS
    <2>1. query \in Query /\ src # dst /\ table = StartTable(query.ends[1])
        BY DEF Init, src, dst
    <2>2. SearchInv(table, query)
        BY <2>1, StartInv
    <2>3. IsRound(table, query)
        <3> SUFFICES ASSUME NEW r, Rounds(r, Cardinality(Switches), query.policy,
                                  query.ends[1], query.ends[2], query.width,
                                  query.minimum)
                     PROVE  r[Cardinality(table.settled)] = {table}
            BY DEF IsRound
        <3>1. table.settled = {}
            BY <2>1 DEF StartTable
        <3>2. Cardinality(table.settled) = 0 /\ Cardinality(Switches) \in Nat
            BY <3>1, FS_EmptySet, FS_CardinalityType, NetworkAssumption
        <3>3. r[0] = { StartTable(query.ends[1]) }
            BY <3>2 DEF Rounds
        <3> QED
            BY <2>1, <3>2, <3>3
    <2> QED
        BY <2>1, <2>2, <2>3 DEF IInv
<1>2. IInv /\ [Next]_vars => IInv'
    <2> SUFFICES ASSUME IInv, [Next]_vars PROVE IInv'
        OBVIOUS
    <2>1. CASE Pop
        <3>1. PICK n \in Popped(table, query.policy) :
                 table' = Scanned(table, n, query)
            BY <2>1 DEF Pop, Scanned, dst
        <3>2. query' = query /\ ~SearchOver(table, query.ends[2])
            BY <2>1 DEF Pop, dst
        <3>3. /\ query \in Query /\ query.ends[1] # query.ends[2]
              /\ SearchInv(table, query) /\ IsRound(table, query)
            BY DEF IInv, src, dst
        <3>4. IsTable(table)
            BY <3>3 DEF SearchInv
        <3>5. SearchInv(table', query')
            BY <3>1, <3>2, <3>3, ScanKeepsInv
        <3>6. IsRound(table', query')
            BY <3>1, <3>2, <3>3, <3>4, ScanIsRound
        <3> QED
            BY <3>2, <3>3, <3>5, <3>6 DEF IInv, src, dst
    <2>2. CASE UNCHANGED vars
        <3>1. query' = query /\ table' = table
            BY <2>2 DEF vars
        <3> QED
            BY <3>1 DEF IInv, src, dst
    <2> QED
        BY <2>1, <2>2 DEF Next
<1> QED
    BY <1>1, <1>2, PTL DEF Spec

\* The tables stay tables (best, prev and settled of widest_path).
THEOREM TableTypes == Spec => []TypeOK
<1>1. IInv => TypeOK
    BY DEF IInv, SearchInv, IsTable, Labels, TypeOK
<1> QED
    BY <1>1, SearchInvariant, PTL

-----------------------------------------------------------------------------
\* The invariant in the words of one state.
LEMMA InvFacts ==
    ASSUME IInv
    PROVE  /\ query \in Query /\ src \in Switches /\ dst \in Switches /\ src # dst
           /\ IsTable(table)
           /\ \A m \in Switches : table.label[m].width \in Nat /\ table.label[m].hops \in Nat
           /\ table.label[src] = [width |-> Infinity, hops |-> 0]
           /\ table.prev[src] = src
           /\ \A m \in Switches : ~Reached(table.label[m]) =>
                 table.label[m] = Unreached /\ table.prev[m] = m /\ m \notin table.settled
           /\ \A m \in Switches \ {src} : Reached(table.label[m]) =>
                 /\ table.prev[m] \in table.settled /\ table.prev[m] \in Switches
                 /\ Open(table.prev[m], m, query.width, query.minimum)
                 /\ table.label[m] = Offer(table, table.prev[m], m, query.width)
BY QueryType DEF IInv, SearchInv, SourceKept, UnreachedKept, LabelIsOffer,
                 IsTable, Labels, src, dst

\* The predecessors lead back over usable links, one hop at a time, and the
\* label is the narrowest of them.
ChainTo(p, i) ==
    /\ Reached(table.label[p[i]])
    /\ table.label[p[i]].hops = i - 1
    /\ i = 1 => table.label[p[i]].width = Infinity
    /\ \A j \in 1..i - 1 :
          /\ Usable(query.width[LinkAt(p, j)], query.minimum)
          /\ table.label[p[i]].width <= query.width[LinkAt(p, j)]
    /\ i > 1 => \E j \in 1..i - 1 : table.label[p[i]].width = query.width[LinkAt(p, j)]

LEMMA ChainLabels ==
    ASSUME IInv, NEW n, NEW p \in Reconstruct(table.prev, src, n)
    PROVE  \A i \in 1..Len(p) : ChainTo(p, i)
<1>1. /\ p \in Paths /\ p[1] = src
      /\ \A i \in 2..Len(p) : table.prev[p[i]] = p[i - 1]
    BY DEF Reconstruct
<1>2. /\ Len(p) \in Nat /\ p \in [1..Len(p) -> Switches]
      /\ \A i, j \in 1..Len(p) : p[i] = p[j] => i = j
    BY <1>1, PathFacts
<1> DEFINE Bad == { i \in 1..Len(p) : ~ChainTo(p, i) }
<1> SUFFICES ASSUME Bad # {} PROVE FALSE
    OBVIOUS
<1>3. PICK k \in Bad : \A i \in Bad : k <= i
    <2>1. Bad \in SUBSET Nat
        BY <1>2
    <2> HIDE DEF Bad
    <2> QED
        BY <2>1, LeastNumber
<1>4. k \in 1..Len(p) /\ ~ChainTo(p, k)
    OBVIOUS
<1>5. CASE k = 1
    <2>1. table.label[p[1]] = [width |-> Infinity, hops |-> 0]
        BY <1>1, InvFacts
    <2> QED
        BY <1>4, <1>5, <2>1 DEF ChainTo, Reached, Infinity
<1>6. CASE k > 1
    <2>1. k - 1 \in 1..Len(p) /\ k \in 2..Len(p) /\ k \in Nat
        BY <1>2, <1>4, <1>6
    <2>2. ChainTo(p, k - 1)
        <3>1. k - 1 \notin Bad
            <4> HIDE DEF Bad
            <4> QED
                BY <1>3, <2>1
        <3> QED
            BY <2>1, <3>1
    <2>3. PICK a \in Switches, b \in Switches : a = p[k - 1] /\ b = p[k]
        BY <1>2, <2>1
    <2>4. table.prev[b] = a /\ a # b /\ b # src
        BY <1>1, <1>2, <2>1, <2>3
    <2>5. /\ Reached(table.label[b])
          /\ Open(a, b, query.width, query.minimum)
          /\ table.label[b] = Offer(table, a, b, query.width)
        BY <2>4, InvFacts
    <2>6. LinkAt(p, k - 1) = {a, b}
        BY <2>1, <2>3 DEF LinkAt
    <2>7. PICK w \in Int : w = query.width[{a, b}] /\ w < Infinity
        BY <2>5, QueryType, AdjacentDiffer, InvFacts DEF Open
    <2>8. PICK x \in Nat, y \in Nat : x = table.label[a].width /\ y = table.label[b].width
        BY InvFacts
    <2>9. /\ y = IF w < x THEN w ELSE x
          /\ table.label[b].hops = table.label[a].hops + 1
        BY <2>5, <2>7, <2>8 DEF Offer
    <2>10. table.label[p[k]].hops = k - 1
        BY <2>1, <2>2, <2>3, <2>9 DEF ChainTo
    <2>11. ASSUME NEW j \in 1..k - 1
           PROVE  /\ Usable(query.width[LinkAt(p, j)], query.minimum)
                  /\ y <= query.width[LinkAt(p, j)]
        <3>1. CASE j = k - 1
            <4>1. LinkAt(p, j) = {a, b} /\ y <= w
                BY <2>6, <2>7, <2>8, <2>9, <3>1
            <4> QED
                BY <2>5, <2>7, <4>1 DEF Open
        <3>2. CASE j # k - 1
            <4>1. j \in 1..(k - 1) - 1
                BY <2>1, <3>2
            <4>2. /\ Usable(query.width[LinkAt(p, j)], query.minimum)
                  /\ x <= query.width[LinkAt(p, j)]
                BY <2>2, <2>3, <2>8, <4>1 DEF ChainTo
            <4>3. y <= x
                BY <2>7, <2>8, <2>9
            <4>4. query.width[LinkAt(p, j)] \in Int
                <5>1. j \in 1..Len(p) - 1
                    BY <1>2, <2>1, <4>1
                <5>2. Adjacent(p[j], p[j + 1])
                    BY <1>1, <5>1, PathFacts
                <5> QED
                    BY <5>2, QueryType, InvFacts DEF LinkAt, Adjacent
            <4> QED
                BY <2>8, <4>2, <4>3, <4>4
        <3> QED
            BY <3>1, <3>2
    <2>12. \E j \in 1..k - 1 : y = query.width[LinkAt(p, j)]
        <3>1. CASE w < x
            <4>1. y = query.width[LinkAt(p, k - 1)]
                BY <2>6, <2>7, <2>9, <3>1
            <4>2. k - 1 \in 1..k - 1
                BY <1>6, <2>1
            <4> QED
                BY <4>1, <4>2
        <3>2. CASE ~(w < x)
            <4>1. y = x /\ x < Infinity
                BY <2>7, <2>8, <2>9, <3>2 DEF Infinity
            <4>2. k - 1 > 1
                BY <2>1, <2>2, <2>3, <2>8, <4>1 DEF ChainTo, Infinity
            <4> QED
                BY <2>1, <2>2, <2>3, <2>8, <4>1, <4>2 DEF ChainTo
        <3> QED
            BY <3>1, <3>2
    <2> QED
        BY <1>4, <1>6, <2>3, <2>5, <2>8, <2>10, <2>11, <2>12 DEF ChainTo
<1> QED
    BY <1>4, <1>5, <1>6

\* There is at most one way back.
LEMMA ChainUnique ==
    ASSUME IInv, NEW n, NEW p \in Reconstruct(table.prev, src, n),
           NEW r \in Reconstruct(table.prev, src, n)
    PROVE  p = r
<1>1. /\ p \in Paths /\ r \in Paths /\ p[Len(p)] = n /\ r[Len(r)] = n
      /\ \A i \in 2..Len(p) : table.prev[p[i]] = p[i - 1]
      /\ \A i \in 2..Len(r) : table.prev[r[i]] = r[i - 1]
    BY DEF Reconstruct
<1>2. /\ Len(p) \in Nat /\ Len(p) >= 1 /\ p \in [1..Len(p) -> Switches]
      /\ Len(r) \in Nat /\ Len(r) >= 1 /\ r \in [1..Len(r) -> Switches]
    BY <1>1, PathFacts
<1>3. PICK K \in Nat : K = Len(p) /\ K = Len(r)
    <2>1. Len(p) \in 1..Len(p) /\ Len(r) \in 1..Len(r)
        BY <1>2
    <2>2. ChainTo(p, Len(p)) /\ ChainTo(r, Len(r))
        BY <2>1, ChainLabels
    <2>3. table.label[n].hops = Len(p) - 1 /\ table.label[n].hops = Len(r) - 1
        BY <1>1, <2>2 DEF ChainTo
    <2>4. Len(p) - 1 = Len(r) - 1
        BY <2>3
    <2>5. Len(p) \in Nat /\ Len(r) \in Nat
        BY <1>2
    <2>6. Len(p) = Len(r)
        BY <2>4, <2>5
    <2> QED
        BY <2>5, <2>6
<1> DEFINE Bad == { i \in 0..K - 1 : p[K - i] # r[K - i] }
<1>4. Bad = {}
    <2> SUFFICES ASSUME Bad # {} PROVE FALSE
        OBVIOUS
    <2>1. PICK k \in Bad : \A i \in Bad : k <= i
        <3>1. Bad \in SUBSET Nat
            OBVIOUS
        <3> HIDE DEF Bad
        <3> QED
            BY <3>1, LeastNumber
    <2>2. k \in 0..K - 1 /\ p[K - k] # r[K - k]
        OBVIOUS
    <2>3. k # 0
        BY <1>1, <1>3, <2>2
    <2>4. k - 1 \in 0..K - 1 /\ k - 1 \notin Bad
        <3> HIDE DEF Bad
        <3> QED
            BY <2>1, <2>2, <2>3
    <2>5. PICK i \in 2..K : i = K - (k - 1) /\ i - 1 = K - k
        BY <2>2, <2>3
    <2>6. p[i] = r[i]
        BY <2>4, <2>5
    <2>7. p[i - 1] = r[i - 1]
        BY <1>1, <1>3, <2>5, <2>6
    <2> QED
        BY <2>2, <2>5, <2>7
<1>5. ASSUME NEW i \in 1..K PROVE p[i] = r[i]
    <2>1. K - i \in 0..K - 1 /\ K - (K - i) = i
        OBVIOUS
    <2> QED
        BY <1>4, <2>1
<1> QED
    BY <1>2, <1>3, <1>5

\* And there is one from every switch that was reached.
LEMMA ChainExists ==
    ASSUME IInv, NEW n \in Switches, Reached(table.label[n])
    PROVE  Reconstruct(table.prev, src, n) # {}
<1> DEFINE Lost(m) == /\ Reached(table.label[m])
                      /\ Reconstruct(table.prev, src, m) = {}
           Bad == { h \in Nat : \E m \in Switches : Lost(m) /\ table.label[m].hops = h }
<1>1. Bad = {}
    <2> SUFFICES ASSUME Bad # {} PROVE FALSE
        OBVIOUS
    <2>1. PICK h \in Bad : \A i \in Bad : h <= i
        <3>1. Bad \in SUBSET Nat
            OBVIOUS
        <3> HIDE DEF Bad
        <3> QED
            BY <3>1, LeastNumber
    <2>2. PICK m \in Switches : Lost(m) /\ table.label[m].hops = h
        OBVIOUS
    <2>3. CASE m = src
        <3>1. <<src>> \in Paths
            BY <2>2, <2>3, SingletonPath
        <3>2. <<src>>[1] = src /\ <<src>>[Len(<<src>>)] = src /\ 2..Len(<<src>>) = {}
            OBVIOUS
        <3>3. <<src>> \in Reconstruct(table.prev, src, src)
            BY <3>1, <3>2 DEF Reconstruct
        <3> QED
            BY <2>2, <2>3, <3>3
    <2>4. CASE m # src
        <3>1. PICK x \in Switches : x = table.prev[m]
            BY <2>2, <2>4, InvFacts
        <3>2. /\ x \in table.settled
              /\ Open(x, m, query.width, query.minimum)
              /\ table.label[m] = Offer(table, x, m, query.width)
            BY <2>2, <2>4, <3>1, InvFacts
        <3>3. Reached(table.label[x])
            BY <3>2, InvFacts
        <3>4. table.label[m].hops = table.label[x].hops + 1 /\ table.label[x].hops \in Nat
            BY <3>2, InvFacts DEF Offer
        <3>5. table.label[x].hops \notin Bad
            <4> HIDE DEF Bad, Lost
            <4>1. h = table.label[x].hops + 1
                BY <2>2, <3>4
            <4> QED
                BY <2>1, <3>4, <4>1
        <3>6. PICK p \in Reconstruct(table.prev, src, x) : TRUE
            BY <3>3, <3>4, <3>5
        <3>7. /\ p \in Paths /\ p[1] = src /\ p[Len(p)] = x
              /\ \A i \in 2..Len(p) : table.prev[p[i]] = p[i - 1]
            BY DEF Reconstruct
        <3>8. /\ Len(p) \in Nat /\ Len(p) >= 1
              /\ p \in [1..Len(p) -> Switches]
              /\ \A i, j \in 1..Len(p) : p[i] = p[j] => i = j
              /\ \A i \in 1..Len(p) - 1 : Adjacent(p[i], p[i + 1])
            BY <3>7, PathFacts
        <3>9. PICK K \in Nat \ {0} : K = Len(p)
            <4>1. Len(p) \in Nat /\ Len(p) >= 1
                BY <3>8
            <4>2. Len(p) \in Nat \ {0}
                BY <4>1
            <4> QED
                BY <4>2
        <3>10. ASSUME NEW i \in 1..K PROVE p[i] # m
            <4>1. ChainTo(p, i) /\ ChainTo(p, K) /\ K \in 1..K
                BY <3>9, ChainLabels
            <4>2. table.label[p[i]].hops = i - 1 /\ table.label[x].hops = K - 1
                BY <3>7, <3>9, <4>1 DEF ChainTo
            <4>3. table.label[m].hops = K
                BY <3>4, <4>2
            <4> QED
                BY <4>2, <4>3
        <3> DEFINE r == [i \in 1..K + 1 |-> IF i = K + 1 THEN m ELSE p[i]]
        <3>11. /\ r[K + 1] = m
               /\ \A i \in 1..K : r[i] = p[i]
            OBVIOUS
        <3>12. r \in [1..K + 1 -> Switches]
            BY <3>8, <3>9
        <3> HIDE DEF r
        <3>13. \A i, j \in 1..K + 1 : r[i] = r[j] => i = j
            <4> SUFFICES ASSUME NEW i \in 1..K + 1, NEW j \in 1..K + 1, r[i] = r[j]
                         PROVE  i = j
                OBVIOUS
            <4>1. i = K + 1 \/ i \in 1..K
                OBVIOUS
            <4>2. j = K + 1 \/ j \in 1..K
                OBVIOUS
            <4> QED
                BY <3>8, <3>9, <3>10, <3>11, <4>1, <4>2
        <3>14. ASSUME NEW i \in 1..K PROVE Adjacent(r[i], r[i + 1])
            <4>1. CASE i = K
                <5>1. r[i] = x /\ r[i + 1] = m
                    BY <3>7, <3>9, <3>11, <4>1
                <5> QED
                    BY <3>2, <5>1 DEF Open
            <4>2. CASE i # K
                <5>1. i \in 1..Len(p) - 1 /\ i + 1 \in 1..K
                    BY <3>9, <4>2
                <5> QED
                    BY <3>8, <3>11, <5>1
            <4> QED
                BY <4>1, <4>2
        <3>15. r \in Paths /\ Len(r) = K + 1
            <4>1. \A i \in 1..(K + 1) - 1 : Adjacent(r[i], r[i + 1])
                BY <3>14
            <4>2. K + 1 \in Nat \ {0}
                OBVIOUS
            <4> QED
                BY <3>12, <3>13, <4>1, <4>2, PathOf
        <3>16. ASSUME NEW i \in 2..K + 1 PROVE table.prev[r[i]] = r[i - 1]
            <4>1. CASE i = K + 1
                <5>1. r[i - 1] = x
                    BY <3>7, <3>9, <3>11, <4>1
                <5> QED
                    BY <3>1, <3>11, <4>1, <5>1
            <4>2. CASE i # K + 1
                <5>1. i \in 2..K /\ i \in 1..K /\ i - 1 \in 1..K
                    BY <4>2
                <5> QED
                    BY <3>7, <3>9, <3>11, <5>1
            <4> QED
                BY <4>1, <4>2
        <3>17. r[1] = src
            BY <3>7, <3>9, <3>11
        <3>18. r \in Reconstruct(table.prev, src, m)
            BY <3>11, <3>15, <3>16, <3>17 DEF Reconstruct
        <3> QED
            BY <2>2, <3>18
    <2> QED
        BY <2>3, <2>4
<1> QED
    BY <1>1, InvFacts

-----------------------------------------------------------------------------
\* The bottleneck of a path is the width of its narrowest link.
LEMMA BottleneckIs ==
    ASSUME NEW p, NEW l \in LinksOf(p),
           \A e \in LinksOf(p) : /\ query.width[e] \in Int
                                 /\ query.width[e] < Infinity
                                 /\ query.width[l] <= query.width[e]
    PROVE  Bottleneck(p) = query.width[l]
<1> DEFINE B == { query.width[e] : e \in LinksOf(p) } \cup {Infinity}
           Is(b) == \A e \in LinksOf(p) : /\ b <= query.width[e]
                                          /\ b = Infinity => LinksOf(p) = {}
<1>1. query.width[l] \in B /\ query.width[l] \in Int /\ query.width[l] < Infinity
    OBVIOUS
<1>2. query.width[l] # Infinity
    BY <1>1 DEF Infinity
<1>3. Is(query.width[l])
    BY <1>2
<1>4. Bottleneck(p) = CHOOSE b \in B : Is(b)
    BY DEF Bottleneck
<1>5. PICK b : b = Bottleneck(p)
    OBVIOUS
<1>6. b \in B /\ Is(b)
    <2> HIDE DEF B, Is
    <2> QED
        BY <1>1, <1>3, <1>4, <1>5
<1>7. PICK e \in LinksOf(p) : b = query.width[e]
    BY <1>6
<1>8. b <= query.width[l]
    BY <1>6
<1> QED
    BY <1>5, <1>7, <1>8

\* Every path of a query to another switch has a bottleneck.
LEMMA BottleneckFacts ==
    ASSUME IInv, NEW n, n # src, NEW p \in PathsTo(n)
    PROVE  /\ Bottleneck(p) \in Nat /\ 0 < Bottleneck(p)
           /\ \A e \in LinksOf(p) : /\ query.width[e] \in Int
                                     /\ Usable(query.width[e], query.minimum)
                                     /\ Bottleneck(p) <= query.width[e]
<1>1. /\ p \in Paths /\ p[1] = src /\ p[Len(p)] = n
      /\ \A e \in LinksOf(p) : Usable(query.width[e], query.minimum)
    BY DEF PathsTo
<1>2. Len(p) \in Nat /\ Len(p) > 1
    BY <1>1, PathFacts
<1>3. \A e \in LinksOf(p) : /\ query.width[e] \in Int /\ query.width[e] < Infinity
                            /\ query.width[e] > 0
    BY <1>1, LinksOfPath, QueryType, InvFacts DEF Usable
<1> DEFINE W == { query.width[e] : e \in LinksOf(p) }
<1>4. W \in SUBSET Nat
    BY <1>3
<1>5. LinkAt(p, 1) \in LinksOf(p)
    <2>1. 1 \in 1..Len(p) - 1
        BY <1>2
    <2> QED
        BY <2>1 DEF LinksOf
<1>6. W # {}
    BY <1>5
<1>7. PICK b \in W : \A w \in W : b <= w
    <2> HIDE DEF W
    <2> QED
        BY <1>4, <1>6, LeastNumber
<1>8. PICK l \in LinksOf(p) : b = query.width[l]
    OBVIOUS
<1>9. Bottleneck(p) = query.width[l]
    <2>1. \A e \in LinksOf(p) : query.width[l] <= query.width[e]
        BY <1>7, <1>8
    <2> QED
        BY <1>3, <2>1, BottleneckIs
<1> QED
    BY <1>1, <1>3, <1>7, <1>8, <1>9

\* What a label may be called as good as a path of h hops and bottleneck b.
AtLeast(policy, label, b, h) ==
    IF policy = "shortest"
    THEN label.hops < h \/ (label.hops = h /\ label.width >= b)
    ELSE label.width >= b

\* Along any path, as far as its switches are settled, each label is at least
\* as good as the path: a settled switch has made its offer.
LEMMA LabelsKeepUp ==
    ASSUME IInv, NEW n, n # src, NEW p \in PathsTo(n), NEW k \in 1..Len(p),
           \A i \in 1..k - 1 : p[i] \in table.settled \ {dst}
    PROVE  /\ AtLeast(query.policy, table.label[p[k]], Bottleneck(p), k - 1)
           /\ Reached(table.label[p[k]])
<1>1. /\ p \in Paths /\ p[1] = src
    BY DEF PathsTo
<1>2. /\ Len(p) \in Nat /\ Len(p) <= Cardinality(Switches)
      /\ p \in [1..Len(p) -> Switches]
      /\ \A i \in 1..Len(p) - 1 : Adjacent(p[i], p[i + 1])
    BY <1>1, PathFacts
<1>3. PICK b \in Nat : b = Bottleneck(p) /\ b > 0
    BY BottleneckFacts
<1>4. Cardinality(Switches) < Infinity /\ Cardinality(Switches) \in Nat
    BY WidthsBelowInfinity, NetworkAssumption, FS_CardinalityType
<1> DEFINE Good(i) == AtLeast(query.policy, table.label[p[i]], b, i - 1)
           Bad == { i \in 1..k : ~Good(i) }
<1>5. Bad = {}
    <2> SUFFICES ASSUME Bad # {} PROVE FALSE
        OBVIOUS
    <2>1. PICK j \in Bad : \A i \in Bad : j <= i
        <3>1. Bad \in SUBSET Nat
            BY <1>2
        <3> HIDE DEF Bad
        <3> QED
            BY <3>1, LeastNumber
    <2>2. j \in 1..k /\ ~Good(j) /\ j \in Nat /\ k \in Nat
        BY <1>2
    <2>3. CASE j = 1
        <3>1. table.label[p[j]] = [width |-> Infinity, hops |-> 0]
            BY <1>1, <2>3, InvFacts
        <3>2. b <= Infinity
            <4>1. Len(p) > 1
                BY <1>1, PathFacts DEF PathsTo
            <4>2. LinkAt(p, 1) \in LinksOf(p)
                <5>1. 1 \in 1..Len(p) - 1
                    BY <1>2, <4>1
                <5> QED
                    BY <5>1 DEF LinksOf
            <4>3. LinkAt(p, 1) \in Links
                BY <1>1, <4>2, LinksOfPath
            <4>4. b <= query.width[LinkAt(p, 1)]
                BY <1>3, <4>2, BottleneckFacts
            <4>5. query.width[LinkAt(p, 1)] \in Int /\ query.width[LinkAt(p, 1)] < Infinity
                BY <4>3, InvFacts, QueryType
            <4> QED
                BY <4>4, <4>5 DEF Infinity
        <3> QED
            BY <2>2, <2>3, <3>1, <3>2 DEF AtLeast, Infinity
    <2>4. CASE j # 1
        <3>1. j - 1 \in 1..k /\ j - 1 \in 1..Len(p) - 1 /\ j \in 1..Len(p) /\ j - 1 \in 1..k - 1
            BY <1>2, <2>2, <2>4
        <3>2. Good(j - 1)
            <4>1. j - 1 \notin Bad
                <5> HIDE DEF Bad
                <5> QED
                    BY <2>1, <2>2, <3>1
            <4> QED
                BY <3>1, <4>1
        <3>3. PICK x \in Switches, y \in Switches : x = p[j - 1] /\ y = p[j]
            BY <1>2, <3>1
        <3>4. x \in table.settled \ {dst}
            BY <3>1, <3>3
        <3>5. LinkAt(p, j - 1) = {x, y} /\ LinkAt(p, j - 1) \in LinksOf(p) /\ Adjacent(x, y)
            BY <1>2, <2>2, <3>1, <3>3 DEF LinkAt, LinksOf
        <3>6. Open(x, y, query.width, query.minimum) /\ b <= query.width[{x, y}]
            BY <1>3, <3>5, BottleneckFacts DEF Open
        <3>7. PICK o \in Labels : o = Offer(table, x, y, query.width)
            <4>1. Reached(table.label[x])
                BY <3>4, InvFacts
            <4> QED
                BY <3>6, <4>1, InvFacts, OfferType
        <3>8. PICK v \in Labels : v = table.label[y]
            BY InvFacts DEF IsTable
        <3>9. PICK u \in Labels : u = table.label[x]
            BY InvFacts DEF IsTable
        <3>10. ~Better(query.policy, o, v)
            BY <3>4, <3>6, <3>7, <3>8 DEF IInv, SearchInv, OffersTaken, dst
        <3>11. PICK w \in Int : w = query.width[{x, y}]
            BY <3>5, InvFacts, QueryType DEF Adjacent
        <3>12. /\ o.width = IF w < u.width THEN w ELSE u.width
               /\ o.hops = u.hops + 1
            BY <3>7, <3>9, <3>11 DEF Offer
        <3>13. AtLeast(query.policy, u, b, (j - 1) - 1)
            BY <3>2, <3>3, <3>9
        <3>14. AtLeast(query.policy, v, b, j - 1)
            <4>1. b <= w
                BY <3>6, <3>11
            <4>2. CASE query.policy = "shortest"
                BY <2>2, <3>10, <3>12, <3>13, <4>1, <4>2 DEF AtLeast, Better, Labels
            <4>3. CASE query.policy # "shortest"
                BY <2>2, <3>10, <3>12, <3>13, <4>1, <4>3 DEF AtLeast, Better, Labels
            <4> QED
                BY <4>2, <4>3
        <3> QED
            BY <2>2, <3>3, <3>8, <3>14
    <2> QED
        BY <2>3, <2>4
<1>6. Good(k)
    <2>1. k \in 1..k
        BY <1>2
    <2> QED
        BY <1>5, <2>1
<1>7. Reached(table.label[p[k]])
    <2> SUFFICES ASSUME table.label[p[k]] = Unreached PROVE FALSE
        BY <1>2, InvFacts
    <2>1. k - 1 < Infinity /\ k \in Nat
        BY <1>2, <1>4 DEF Infinity
    <2> QED
        BY <1>3, <1>6, <2>1 DEF AtLeast, Unreached, Infinity
<1> QED
    BY <1>3, <1>6, <1>7

\* No path beats the label of a settled switch; and once the search is over,
\* every switch a path leads to has been settled if it is dst.
LEMMA SettledIsBest ==
    ASSUME IInv, NEW n \in Switches \ {src}, NEW p \in PathsTo(n),
           n \in table.settled \/ (n = dst /\ Frontier(table) = {})
    PROVE  /\ n \in table.settled
           /\ AtLeast(query.policy, table.label[n], Bottleneck(p), Hops(p))
<1>1. p \in Paths /\ p[Len(p)] = n
    BY DEF PathsTo
<1>2. /\ Len(p) \in Nat /\ Len(p) >= 1 /\ p \in [1..Len(p) -> Switches]
    BY <1>1, PathFacts
<1>3. PICK K \in Nat \ {0} : K = Len(p)
    <2>1. Len(p) \in Nat \ {0}
        BY <1>2
    <2> QED
        BY <2>1
<1>4. PICK b \in Nat : b = Bottleneck(p)
    BY BottleneckFacts
<1> DEFINE Bad == { i \in 1..K : p[i] \notin table.settled \ {dst} }
<1>5. CASE Bad = {} \/ \A i \in Bad : i = K
    <2>1. \A i \in 1..K - 1 : p[i] \in table.settled \ {dst}
        BY <1>5
    <2>2. /\ AtLeast(query.policy, table.label[n], b, K - 1)
          /\ Reached(table.label[n])
        BY <1>1, <1>3, <1>4, <2>1, LabelsKeepUp, K \in 1..K
    <2>3. n \in table.settled
        BY <2>2 DEF Frontier
    <2> QED
        BY <1>3, <1>4, <2>2, <2>3 DEF Hops
<1>6. CASE ~(Bad = {} \/ \A i \in Bad : i = K)
    <2>1. PICK k \in Bad : \A i \in Bad : k <= i
        <3>1. Bad \in SUBSET Nat
            OBVIOUS
        <3> HIDE DEF Bad
        <3> QED
            BY <1>6, <3>1, LeastNumber
    <2>2. k \in 1..K /\ k # K /\ p[k] \in Switches /\ p[k] \notin table.settled \ {dst}
        <3>1. k \in 1..K /\ p[k] \notin table.settled \ {dst}
            OBVIOUS
        <3>2. PICK i \in Bad : i # K
            BY <1>6
        <3>3. i \in 1..K /\ k <= i
            BY <2>1, <3>2
        <3> HIDE DEF Bad
        <3> QED
            <4>1. k # K
                BY <3>1, <3>2, <3>3
            <4>2. p[k] \in Switches
                BY <1>2, <1>3, <3>1
            <4> QED
                BY <3>1, <4>1, <4>2
    <2>3. \A i \in 1..k - 1 : p[i] \in table.settled \ {dst}
        BY <1>3, <2>1, <2>2
    <2>4. PICK v \in Labels : v = table.label[p[k]]
        BY <2>2, InvFacts DEF IsTable
    <2>5. AtLeast(query.policy, v, b, k - 1) /\ Reached(v)
        BY <1>3, <1>4, <2>2, <2>3, <2>4, LabelsKeepUp
    <2>6. n \in table.settled
        <3> SUFFICES ASSUME n \notin table.settled PROVE FALSE
            OBVIOUS
        <3>1. n = dst /\ Frontier(table) = {}
            OBVIOUS
        <3>2. p[k] \in table.settled
            BY <2>2, <2>4, <2>5, <3>1 DEF Frontier
        <3> QED
            BY <2>2, <3>1, <3>2
    <2>7. PICK u \in Labels : u = table.label[n]
        BY InvFacts DEF IsTable
    <2>8. ~Better(query.policy, v, u)
        BY <2>2, <2>4, <2>5, <2>6, <2>7 DEF IInv, SearchInv, SettledInOrder, dst
    <2>9. AtLeast(query.policy, u, b, K - 1)
        BY <2>2, <2>5, <2>8 DEF AtLeast, Better, Labels
    <2> QED
        BY <1>3, <1>4, <2>6, <2>7, <2>9 DEF Hops
<1> QED
    BY <1>5, <1>6

-----------------------------------------------------------------------------
\* What _reconstruct returns from a table is the path the label promised.
LEMMA InvLabelsArePaths == IInv => LabelsArePaths
<1> SUFFICES ASSUME IInv, NEW n \in Switches \ {src}, Reached(table.label[n])
             PROVE  \E p \in Reconstruct(table.prev, src, n) :
                        /\ Reconstruct(table.prev, src, n) = {p}
                        /\ p \in PathsTo(n)
                        /\ table.label[n] = [width |-> Bottleneck(p), hops |-> Hops(p)]
    BY DEF LabelsArePaths
<1>1. PICK p \in Reconstruct(table.prev, src, n) : TRUE
    BY ChainExists
<1>2. Reconstruct(table.prev, src, n) = {p}
    BY <1>1, ChainUnique
<1>3. p \in Paths /\ p[1] = src /\ p[Len(p)] = n
    BY DEF Reconstruct
<1>4. Len(p) \in Nat /\ Len(p) > 1
    BY <1>3, PathFacts
<1>5. ChainTo(p, Len(p))
    <2>1. Len(p) \in 1..Len(p)
        BY <1>4
    <2> QED
        BY <2>1, ChainLabels
<1>6. p \in PathsTo(n)
    <2>1. \A e \in LinksOf(p) : Usable(query.width[e], query.minimum)
        BY <1>5 DEF ChainTo, LinksOf
    <2> QED
        BY <1>3, <2>1 DEF PathsTo
<1>7. table.label[n].width = Bottleneck(p)
    <2>1. PICK j \in 1..Len(p) - 1 : table.label[n].width = query.width[LinkAt(p, j)]
        BY <1>3, <1>4, <1>5 DEF ChainTo
    <2>2. PICK l \in LinksOf(p) : l = LinkAt(p, j)
        BY DEF LinksOf
    <2>3. \A e \in LinksOf(p) : query.width[l] <= query.width[e]
        BY <1>3, <1>5, <2>1, <2>2 DEF ChainTo, LinksOf
    <2>4. \A e \in LinksOf(p) : query.width[e] \in Int /\ query.width[e] < Infinity
        BY <1>3, LinksOfPath, QueryType, InvFacts
    <2> QED
        BY <2>1, <2>2, <2>3, <2>4, BottleneckIs
<1>8. table.label[n].hops = Hops(p)
    BY <1>3, <1>5 DEF ChainTo, Hops
<1>9. table.label[n] = [width |-> Bottleneck(p), hops |-> Hops(p)]
    <2>1. table.label[n] \in Labels
        BY InvFacts DEF IsTable
    <2> QED
        BY <1>7, <1>8, <2>1 DEF Labels
<1> QED
    BY <1>1, <1>2, <1>6, <1>9

\* On every core, following the predecessors back from a reached switch gives
\* one simple path, with the width and the hops of its label (_reconstruct).
THEOREM LabelsAlwaysPaths == Spec => []LabelsArePaths
BY InvLabelsArePaths, SearchInvariant, PTL

\* A reached or settled switch has a path with the value of its label.
LEMMA SettledHasPath ==
    ASSUME IInv, NEW n \in table.settled, n # src
    PROVE  /\ n \in Switches
           /\ \E p \in PathsTo(n) :
                 /\ Reconstruct(table.prev, src, n) = {p}
                 /\ table.label[n] = [width |-> Bottleneck(p), hops |-> Hops(p)]
                 /\ Bottleneck(p) \in Nat /\ Hops(p) \in Nat
<1>1. n \in Switches
    BY InvFacts DEF IsTable
<1>2. Reached(table.label[n])
    BY <1>1, InvFacts
<1>3. PICK p \in Reconstruct(table.prev, src, n) :
         /\ Reconstruct(table.prev, src, n) = {p}
         /\ p \in PathsTo(n)
         /\ table.label[n] = [width |-> Bottleneck(p), hops |-> Hops(p)]
    BY <1>1, <1>2, InvLabelsArePaths DEF LabelsArePaths
<1>4. Bottleneck(p) \in Nat
    BY <1>3, BottleneckFacts
<1>5. Hops(p) \in Nat
    BY <1>3, PathFacts DEF PathsTo, Hops
<1> QED
    BY <1>1, <1>3, <1>4, <1>5

\* Every path a query may take has a bottleneck and a number of hops.
LEMMA PathValues ==
    ASSUME IInv, NEW n, n # src, NEW p \in PathsTo(n)
    PROVE  Bottleneck(p) \in Nat /\ Hops(p) \in Nat
BY BottleneckFacts, PathFacts DEF PathsTo, Hops

LEMMA InvSettledIsWidest == IInv => SettledIsWidest
<1> SUFFICES ASSUME IInv, query.policy = "widest", NEW n \in table.settled \ {src}
             PROVE  \E p \in Widest(n) : table.label[n].width = Bottleneck(p)
    BY DEF SettledIsWidest
<1>1. n \in Switches
    BY SettledHasPath
<1>2. PICK p \in PathsTo(n) :
         table.label[n] = [width |-> Bottleneck(p), hops |-> Hops(p)]
    BY SettledHasPath
<1>3. ASSUME NEW q \in PathsTo(n) PROVE Bottleneck(p) >= Bottleneck(q)
    <2>1. AtLeast(query.policy, table.label[n], Bottleneck(q), Hops(q))
        BY <1>1, SettledIsBest
    <2> QED
        BY <1>2, <2>1 DEF AtLeast
<1> QED
    BY <1>2, <1>3 DEF Widest

LEMMA InvSettledIsShortest == IInv => SettledIsShortest
<1> SUFFICES ASSUME IInv, query.policy = "shortest", NEW n \in table.settled \ {src}
             PROVE  \E p \in ShortestThenWidest(n) :
                        table.label[n] = [width |-> Bottleneck(p), hops |-> Hops(p)]
    BY DEF SettledIsShortest
<1>1. n \in Switches
    BY SettledHasPath
<1>2. PICK p \in PathsTo(n) :
         table.label[n] = [width |-> Bottleneck(p), hops |-> Hops(p)]
    BY SettledHasPath
<1>3. ASSUME NEW q \in PathsTo(n)
      PROVE  \/ Hops(p) < Hops(q)
             \/ Hops(p) = Hops(q) /\ Bottleneck(p) >= Bottleneck(q)
    <2>1. AtLeast(query.policy, table.label[n], Bottleneck(q), Hops(q))
        BY <1>1, SettledIsBest
    <2> QED
        BY <1>2, <2>1 DEF AtLeast
<1>4. \A q \in PathsTo(n) : Hops(q) \in Nat /\ Bottleneck(q) \in Nat
    BY PathValues
<1>5. \A q \in PathsTo(n) : Hops(p) <= Hops(q)
    BY <1>3, <1>4
<1>6. \A q \in PathsTo(n) :
         (\A r \in PathsTo(n) : Hops(q) <= Hops(r)) => Bottleneck(p) >= Bottleneck(q)
    BY <1>2, <1>3, <1>4
<1>7. p \in ShortestThenWidest(n)
    BY <1>5, <1>6 DEF ShortestThenWidest
<1> QED
    BY <1>2, <1>7

\* widest_path: on every core, a popped switch has the largest bottleneck of
\* any path to it.
THEOREM WidestSettled == Spec => []SettledIsWidest
BY InvSettledIsWidest, SearchInvariant, PTL

\* shortest_path: on every core, a popped switch has the fewest hops of any
\* admissible path and, among those, the largest bottleneck.
THEOREM ShortestSettled == Spec => []SettledIsShortest
BY InvSettledIsShortest, SearchInvariant, PTL

-----------------------------------------------------------------------------
\* When the loop has ended, the rounds that are left change nothing: the
\* search of the query is the table.
LEMMA SearchIsTable ==
    ASSUME IInv, Done
    PROVE  Search(query.policy, src, dst, query.width, query.minimum) = {table}
<1> DEFINE A(T) == Advance(T, query.policy, dst, query.width, query.minimum)
<1>1. PICK k \in Nat, N \in Nat : /\ k = Cardinality(table.settled)
                                 /\ N = Cardinality(Switches)
                                 /\ k <= N
    BY SettledCount, InvFacts
<1>2. PICK r : /\ Rounds(r, N, query.policy, src, dst, query.width, query.minimum)
               /\ Search(query.policy, src, dst, query.width, query.minimum) = r[N]
    BY <1>1, SearchRounds
<1>3. r[k] = {table}
    BY <1>1, <1>2 DEF IInv, IsRound, src, dst
<1>4. \A i \in 0..N - 1 : r[i + 1] = A(r[i])
    BY <1>2, NextRound
<1>5. A({table}) = {table}
    BY DEF Advance, Done
<1> DEFINE Bad == { i \in k..N : r[i] # {table} }
<1> HIDE DEF A
<1>6. Bad = {}
    <2> SUFFICES ASSUME Bad # {} PROVE FALSE
        OBVIOUS
    <2>1. PICK j \in Bad : \A i \in Bad : j <= i
        <3>1. Bad \in SUBSET Nat
            BY <1>1
        <3> HIDE DEF Bad
        <3> QED
            BY <3>1, LeastNumber
    <2>2. j \in k..N /\ r[j] # {table} /\ j # k
        BY <1>3
    <2>3. j - 1 \in k..N /\ j - 1 \in 0..N - 1 /\ (j - 1) + 1 = j
        BY <1>1, <2>2
    <2>4. j - 1 \notin Bad
        <3> HIDE DEF Bad
        <3> QED
            BY <2>1, <2>3
    <2>5. r[j - 1] = {table}
        BY <2>3, <2>4
    <2> QED
        BY <1>4, <1>5, <2>2, <2>3, <2>5
<1>7. N \in k..N
    BY <1>1
<1> QED
    BY <1>2, <1>6, <1>7

\* What the search found when it has ended.
LEMMA InvResultIsBest == IInv => ResultIsBest
<1> SUFFICES ASSUME IInv, Done
             PROVE  /\ Found = {} <=> PathsTo(dst) = {}
                    /\ Found \subseteq IF query.policy = "widest"
                                       THEN Widest(dst) ELSE ShortestThenWidest(dst)
    BY DEF ResultIsBest
<1>1. /\ src # dst /\ dst \in Switches /\ query.policy \in {"widest", "shortest"}
    BY InvFacts, QueryType
<1>2. Found = UNION { Reconstruct(t.prev, src, dst) :
                      t \in { x \in {table} : dst \in x.settled } }
    BY <1>1, SearchIsTable DEF Found, FindPath
<1>3. CASE dst \in table.settled
    <2>1. PICK p \in PathsTo(dst) :
             /\ Reconstruct(table.prev, src, dst) = {p}
             /\ table.label[dst] = [width |-> Bottleneck(p), hops |-> Hops(p)]
        BY <1>1, <1>3, SettledHasPath
    <2>2. Found = {p}
        BY <1>2, <1>3, <2>1
    <2>3. CASE query.policy = "widest"
        <3>1. \A q \in PathsTo(dst) : Bottleneck(p) >= Bottleneck(q)
            <4> SUFFICES ASSUME NEW q \in PathsTo(dst)
                         PROVE  Bottleneck(p) >= Bottleneck(q)
                OBVIOUS
            <4>1. AtLeast(query.policy, table.label[dst], Bottleneck(q), Hops(q))
                BY <1>1, <1>3, SettledIsBest
            <4> QED
                BY <2>1, <2>3, <4>1 DEF AtLeast
        <3> QED
            BY <2>2, <2>3, <3>1 DEF Widest
    <2>4. CASE query.policy = "shortest"
        <3>1. PICK q \in ShortestThenWidest(dst) :
                 table.label[dst] = [width |-> Bottleneck(q), hops |-> Hops(q)]
            BY <1>1, <1>3, <2>4, InvSettledIsShortest DEF SettledIsShortest
        <3>2. Bottleneck(p) = Bottleneck(q) /\ Hops(p) = Hops(q)
            BY <2>1, <3>1
        <3>3. p \in ShortestThenWidest(dst)
            BY <2>1, <3>1, <3>2 DEF ShortestThenWidest
        <3> QED
            BY <2>2, <2>4, <3>3
    <2> QED
        BY <1>1, <2>1, <2>2, <2>3, <2>4
<1>4. CASE dst \notin table.settled
    <2>1. Found = {}
        BY <1>2, <1>4
    <2>2. Frontier(table) = {}
        BY <1>4 DEF Done, SearchOver
    <2>3. PathsTo(dst) = {}
        BY <1>1, <1>4, <2>2, SettledIsBest
    <2> QED
        BY <2>1, <2>3
<1> QED
    BY <1>3, <1>4

\* The contract find_path gives admission, on every core and for every query:
\* a path exactly when an admissible one exists, and the one the policy
\* promises.
THEOREM SearchIsCorrect == Spec => []ResultIsBest
BY InvResultIsBest, SearchInvariant, PTL
===============================================================================
