------------------------------ MODULE Routing ------------------------------
(***************************************************************************)
(* Path selection (routing.py): a Dijkstra search over the core graph, with *)
(* the label ordered (bottleneck, hops) for the "widest" policy and        *)
(* (hops, bottleneck) for "shortest".                                      *)
(*                                                                         *)
(* A search is a table: the best label found for each switch, the          *)
(* predecessor it was found through, and the settled switches.  The heap   *)
(* of the code holds, besides stale entries that are skipped when popped,  *)
(* one entry per labelled unsettled switch, so it is not kept apart.       *)
(* Bandwidths are integers, so the code's EPS comparisons are exact.       *)
(***************************************************************************)
EXTENDS Network

\* float("inf"); larger than every width and every hop count.
Infinity == 1000000

ASSUME WidthsBelowInfinity ==
    /\ \A l \in Links : Capacity[l] < Infinity
    /\ Cardinality(Switches) < Infinity

\* The label of a switch not reached yet is worse than every real one.
Unreached == [width |-> 0, hops |-> Infinity]

Reached(label) == label.width > 0

\* Mutations: "widest" and "shortest" compared by the other's order.
BetterByHops(policy, x, y) ==
    x.hops < y.hops \/ (x.hops = y.hops /\ x.width > y.width)

BetterByWidth(policy, x, y) ==
    x.width > y.width \/ (x.width = y.width /\ x.hops < y.hops)

Better(policy, x, y) ==
    IF policy = "shortest"
    THEN x.hops < y.hops \/ (x.hops = y.hops /\ x.width > y.width)
    ELSE x.width > y.width \/ (x.width = y.width /\ x.hops < y.hops)

\* Mutation: the hops of the source are counted from minus one.
StartTableOffByOne(src) ==
    [ label   |-> [ n \in Switches |->
                      IF n = src THEN [width |-> Infinity, hops |-> -1]
                                 ELSE Unreached ],
      prev    |-> [ n \in Switches |-> n ],
      settled |-> {} ]

\* best, prev and settled before the first pop.
StartTable(src) ==
    [ label   |-> [ n \in Switches |->
                      IF n = src THEN [width |-> Infinity, hops |-> 0]
                                 ELSE Unreached ],
      prev    |-> [ n \in Switches |-> n ],
      settled |-> {} ]

Frontier(t) == { n \in Switches \ t.settled : Reached(t.label[n]) }

\* heappop: the best label, then the smallest switch name.
Popped(t, policy) ==
    { n \in Frontier(t) :
        \A m \in Frontier(t) \ {n} :
            \/ Better(policy, t.label[n], t.label[m])
            \/ t.label[n] = t.label[m] /\ n < m }

\* A link too narrow for the request, or down, is pruned.
Usable(w, minimum) == w > 0 /\ w >= minimum

\* Mutation: a switch keeps the predecessor it was first reached through.
ScanKeepsPrev(t, n, policy, dst, width, minimum) ==
    LET offer(m) ==
            [ width |-> IF width[{n, m}] < t.label[n].width
                        THEN width[{n, m}] ELSE t.label[n].width,
              hops  |-> t.label[n].hops + 1 ]
        improved ==
            { m \in Switches \ (t.settled \cup {n}) :
                /\ n # dst
                /\ Adjacent(n, m)
                /\ Usable(width[{n, m}], minimum)
                /\ Better(policy, offer(m), t.label[m]) }
    IN  [ label   |-> [ m \in Switches |->
                          IF m \in improved THEN offer(m) ELSE t.label[m] ],
          prev    |-> [ m \in Switches |->
                          IF m \in improved /\ t.prev[m] = m THEN n ELSE t.prev[m] ],
          settled |-> t.settled \cup {n} ]

\* One iteration of the while loop for the popped switch n.
Scan(t, n, policy, dst, width, minimum) ==
    LET offer(m) ==
            [ width |-> IF width[{n, m}] < t.label[n].width
                        THEN width[{n, m}] ELSE t.label[n].width,
              hops  |-> t.label[n].hops + 1 ]
        improved ==
            { m \in Switches \ (t.settled \cup {n}) :
                /\ n # dst
                /\ Adjacent(n, m)
                /\ Usable(width[{n, m}], minimum)
                /\ Better(policy, offer(m), t.label[m]) }
    IN  [ label   |-> [ m \in Switches |->
                          IF m \in improved THEN offer(m) ELSE t.label[m] ],
          prev    |-> [ m \in Switches |->
                          IF m \in improved THEN n ELSE t.prev[m] ],
          settled |-> t.settled \cup {n} ]

\* Mutation: the loop ends as soon as dst has any label.
SearchOverEarly(t, dst) == Reached(t.label[dst]) \/ Frontier(t) = {}

\* The loop ends when dst is popped or the heap is empty.
SearchOver(t, dst) == dst \in t.settled \/ Frontier(t) = {}

\* One iteration for a search that is not over.  A search is deterministic;
\* its table is given as a singleton.
Advance(tables, policy, dst, width, minimum) ==
    UNION { IF SearchOver(t, dst) THEN {t}
            ELSE { Scan(t, n, policy, dst, width, minimum) : n \in Popped(t, policy) } :
            t \in tables }

\* The whole loop.
Search(policy, src, dst, width, minimum) ==
    LET round[k \in 0..Cardinality(Switches)] ==
            IF k = 0 THEN { StartTable(src) }
            ELSE Advance(round[k - 1], policy, dst, width, minimum)
    IN  round[Cardinality(Switches)]

\* The path that follows prev back from dst.
Reconstruct(prev, src, dst) ==
    { p \in Paths : /\ p[1] = src
                    /\ p[Len(p)] = dst
                    /\ \A i \in 2..Len(p) : prev[p[i]] = p[i - 1] }

\* The chosen path as a set: empty stands for None.
FindPath(policy, src, dst, width, minimum) ==
    IF src = dst THEN { <<src>> }
    ELSE UNION { Reconstruct(t.prev, src, dst) :
                 t \in { x \in Search(policy, src, dst, width, minimum) :
                          dst \in x.settled } }
=============================================================================
