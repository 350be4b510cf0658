------------------------------ MODULE Dijkstra ------------------------------
(***************************************************************************)
(* widest_path and shortest_path as a state machine, one step per popped   *)
(* switch, for checking the search against a definition over all paths.    *)
(* The query, fixed when the function is called, ranges over the           *)
(* policies, end points, link widths and minima of the model.              *)
(***************************************************************************)
EXTENDS Routing

CONSTANTS
    QueryPolicies,  \* subset of {"widest", "shortest"}
    QueryEnds,      \* set of <<src, dst>>
    QueryWidths,    \* the usable widths a link may have
    QueryMinima     \* the minimum bandwidths asked for

\* Admission asks for switches of the core, with widths taken from capacities
\* and requests rounded to whole Mbps.
ASSUME QueryAssumption ==
    /\ QueryPolicies \subseteq {"widest", "shortest"}
    /\ QueryEnds \subseteq Switches \X Switches
    /\ QueryWidths \subseteq Int
    /\ \A w \in QueryWidths : w < Infinity
    /\ QueryMinima \subseteq Int

VARIABLES query, table

vars == <<query, table>>

Query == [ policy  : QueryPolicies,
           ends    : QueryEnds,
           width   : [Links -> QueryWidths],
           minimum : QueryMinima ]

src == query.ends[1]
dst == query.ends[2]

Init == /\ query \in Query
        /\ src # dst
        /\ table = StartTable(src)

Pop == /\ ~SearchOver(table, dst)
       /\ \E n \in Popped(table, query.policy) :
             table' = Scan(table, n, query.policy, dst, query.width, query.minimum)
       /\ UNCHANGED query

Next == Pop

Spec == Init /\ [][Next]_vars

-----------------------------------------------------------------------------
\* The reference: every simple path, none of it Dijkstra's.
PathsTo(n) ==
    { p \in Paths : /\ p[1] = src
                    /\ p[Len(p)] = n
                    /\ \A e \in LinksOf(p) :
                          Usable(query.width[e], query.minimum) }

Bottleneck(p) ==
    CHOOSE b \in { query.width[e] : e \in LinksOf(p) } \cup {Infinity} :
        \A e \in LinksOf(p) : /\ b <= query.width[e]
                              /\ b = Infinity => LinksOf(p) = {}

Hops(p) == Len(p) - 1

Widest(n) ==
    { p \in PathsTo(n) : \A q \in PathsTo(n) : Bottleneck(p) >= Bottleneck(q) }

ShortestThenWidest(n) ==
    LET fewest == { p \in PathsTo(n) : \A q \in PathsTo(n) : Hops(p) <= Hops(q) }
    IN  { p \in fewest : \A q \in fewest : Bottleneck(p) >= Bottleneck(q) }

Done == SearchOver(table, dst)
Found == FindPath(query.policy, src, dst, query.width, query.minimum)

\* The tables stay tables: every label is a width and a hop count, every
\* predecessor a switch.
TypeOK ==
    /\ query \in Query
    /\ table \in [ label   : [Switches -> [width : Nat, hops : Nat]],
                   prev    : [Switches -> Switches],
                   settled : SUBSET Switches ]

\* Following the predecessors from any reached switch gives one simple path
\* back to src, whose bottleneck and length are exactly its label: what
\* _reconstruct returns is the path the label promised.
LabelsArePaths ==
    \A n \in Switches \ {src} : Reached(table.label[n]) =>
        \E p \in Reconstruct(table.prev, src, n) :
            /\ Reconstruct(table.prev, src, n) = {p}
            /\ p \in PathsTo(n)
            /\ table.label[n] = [width |-> Bottleneck(p), hops |-> Hops(p)]

\* widest_path: a popped switch has the largest bottleneck of any path to it.
SettledIsWidest ==
    query.policy = "widest" =>
        \A n \in table.settled \ {src} :
            \E p \in Widest(n) : table.label[n].width = Bottleneck(p)

\* shortest_path: a popped switch has the fewest hops of any admissible path
\* and, among those, the largest bottleneck.
SettledIsShortest ==
    query.policy = "shortest" =>
        \A n \in table.settled \ {src} :
            \E p \in ShortestThenWidest(n) :
                table.label[n] = [width |-> Bottleneck(p), hops |-> Hops(p)]

\* The search returns a path exactly when an admissible one exists, and the
\* one the policy promises: the contract find_path gives admission.
ResultIsBest ==
    Done => /\ Found = {} <=> PathsTo(dst) = {}
            /\ Found \subseteq IF query.policy = "widest"
                               THEN Widest(dst) ELSE ShortestThenWidest(dst)

\* What widest_path's documentation says of its ties ("wider wins, then fewer
\* hops breaks the tie"): among the widest paths it returns one with the
\* fewest hops.
TieBrokenOnHops ==
    Done /\ query.policy = "widest" =>
        \A p \in Found : \A q \in Widest(dst) : Hops(p) <= Hops(q)
=============================================================================
