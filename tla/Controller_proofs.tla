------------------------- MODULE Controller_proofs -------------------------
(***************************************************************************)
(* The invariant of the controller.  What holds of the network state in    *)
(* the middle of a handler depends on what the handler has still to do, so *)
(* the invariant says what an agenda can look like: releases of victims    *)
(* first, then the one placement they are for, then the retries of the     *)
(* victims, then the flows still to be evacuated, each call with what it   *)
(* expects of its flow.                                                    *)
(***************************************************************************)
EXTENDS Controller, Admission_proofs, SequenceTheorems

Places(c) == c.call \in {"admit", "move"}

Rank(c) == IF c.call = "preempt" THEN 1
           ELSE IF Places(c) THEN 2
           ELSE IF c.call = "reroute" THEN 3
           ELSE 4

\* The calls of an agenda come by rank, none of them twice.
Sorted(q) == \A i, j \in 1..Len(q) :
                i < j => Rank(q[i]) <= Rank(q[j]) /\ q[i] # q[j]

CallsIn(q) == { q[i] : i \in 1..Len(q) }
Pending(c) == c \in CallsIn(agenda)

\* Two calls of one agenda: one placement at most, no flow twice with the same
\* call, and only a reroute ahead of nothing but evacuations may preempt.
Compatible(c, d) ==
    /\ c.call = d.call => c.flow # d.flow
    /\ ~(Places(c) /\ Places(d))
    /\ Places(c) /\ d.call = "reroute" => c.flow # d.flow
    /\ d.call = "reroute" /\ d.flag => c.call = "evacuate"

\* A call that is to give f another path.  It carries the one f comes from.
Waits(c, f) == c.call \in {"reroute", "move"} /\ c.flow = f
Waiting(f) == \E c \in Call : Pending(c) /\ Waits(c, f)

\* A flow that waits goes on waiting, with the path it came from.  One that
\* begins to wait comes from the path it has.
OldPathsKept ==
    /\ \A f \in Flows : Waiting(f) => Waiting(f)'
    /\ \A c \in Call : Pending(c)' /\ Waits(c, c.flow) =>
          \/ \E d \in Call : Pending(d) /\ Waits(d, c.flow) /\ d.old = c.old
          \/ ~Waiting(c.flow) /\ c.old = flows[c.flow].path

Displaced(f) == flows[f].state \in {"PREEMPTED", "FAILED"}
Live(f) == Active(f) \/ Displaced(f)

\* A victim still to be released is ACTIVE, is evicted for the placement that
\* follows, and is going to be retried.
PreemptsReady ==
    \A c \in Call : Pending(c) /\ c.call = "preempt" =>
        /\ \E d \in Call : /\ Pending(d)
                           /\ Places(d)
                           /\ Evictable(c.flow, d.flow, d.path)
        /\ \E d \in Call : Pending(d) /\ d.call = "reroute" /\ d.flow = c.flow

\* A flow still to be placed has no place and gets one of its paths.
PlacementsReady ==
    \A c \in Call : Pending(c) =>
        /\ Places(c) => c.path \in PathsFor(c.flow)
        /\ c.call = "admit" =>
              Minted(c.flow) /\ ~InTable(c.flow) /\ Unlisted(c.flow)
        /\ c.call = "move" => Displaced(c.flow) /\ ~c.flag

\* A flow still to be rerouted has lost its place, or is about to.
ReroutesReady ==
    \A c \in Call : Pending(c) /\ c.call = "reroute" =>
        \/ Displaced(c.flow)
        \/ \E d \in Call : Pending(d) /\ d.call = "preempt" /\ d.flow = c.flow

EvacuationsReady ==
    \A c \in Call : Pending(c) /\ c.call = "evacuate" => Live(c.flow)

Coherent == \A c, d \in Call : Pending(c) /\ Pending(d) /\ c # d => Compatible(c, d)

AgendaInv == /\ Sorted(agenda)
             /\ Coherent
             /\ PreemptsReady
             /\ PlacementsReady
             /\ ReroutesReady
             /\ EvacuationsReady

\* The flows of a link that are about to be preempted, and the room a flow
\* about to be placed will find: its links are up, and what they have free
\* and those who leave make up for what it needs.
Leaving(l) == { v \in Flows : /\ l \in FlowLinks(v)
                             /\ \E c \in Call : /\ Pending(c)
                                               /\ c.call = "preempt"
                                               /\ c.flow = v }

RoomReady ==
    \A m \in Call : Pending(m) /\ Places(m) =>
        \A l \in LinksOf(m.path) :
            /\ l \notin downLinks
            /\ ~m.flag => residual[l] + Load(Leaving(l)) >= Bandwidth[m.flow]

\* A flow nobody asked for yet is nowhere.
UnmintedIsNowhere == \A f \in Flows : ~Minted(f) => ~InTable(f) /\ Unlisted(f)

\* What clear_flows and the event thread have in hand.
ClearRecord == [stage : {"ready", "on", "done"}, todo : SUBSET Flows]
SideTypeOK ==
    /\ clearing \in [Clears -> ClearRecord]
    /\ expiring \subseteq [switch : ExpiringAt, flow : TimedFlows]

ControlTypeOK ==
    /\ terms \in [Flows -> [number : Nat, policy : {"widest", "shortest"},
                             tieBreak : {"fewest", "best_fit"}]]
    /\ byCookie \subseteq Flows
    /\ datapaths \subseteq Switches
    /\ holder \in {"none", "control", "app"}
    /\ agenda \in Seq(Call)
    /\ holder = "none" <=> agenda = <<>>
    /\ SideTypeOK

\* Holds whether or not requests are made while flows are cleared.
ControlInv == /\ LedgerInv
              /\ ControlTypeOK
              /\ UnmintedIsNowhere
              /\ CookieMapAgrees
              /\ AgendaInv

\* A flow that waits for a new place is on the agenda.
RetriesPending ==
    \A f \in Flows : flows[f].state = "PREEMPTED" =>
        \E c \in Call : /\ Pending(c)
                        /\ c.call \in {"reroute", "move"}
                        /\ c.flow = f

\* While flows are cleared, those not yet removed are on the list, and nobody
\* new is about to be admitted.
OnTheList(f, c) ==
    InTable(f) => f \in clearing[c].todo \/ flows[f].state = "REMOVED"

ClearIsComplete ==
    /\ \A i \in Clears : clearing[i].stage = "on" =>
          \A f \in Flows : OnTheList(f, i)
    /\ Clearing => \A c \in Call : Pending(c) => c.call # "admit"

\* Holds when no request is made while flows are cleared.
CalmInv == NoOrphans /\ RetriesPending /\ ClearIsComplete

-----------------------------------------------------------------------------
\* The calls a handler can put on its agenda are calls.
LEMMA CallTypes ==
    ASSUME NEW f \in Flows
    PROVE  /\ Preempt(f) \in Call
           /\ Evacuate(f) \in Call
           /\ \A p \in Paths, force \in BOOLEAN : Admit(f, p, force) \in Call
           /\ \A old \in Paths \cup {NoPath}, b \in BOOLEAN : Reroute(f, old, b) \in Call
           /\ \A p \in Paths, old \in Paths \cup {NoPath} : Move(f, p, old) \in Call
BY DEF Preempt, Evacuate, Admit, Reroute, Move, CallOf, Call, Calls

LEMMA CallFields ==
    ASSUME NEW c \in Call
    PROVE  /\ c.call \in {"preempt", "admit", "evacuate", "reroute", "move"}
           /\ c.flow \in Flows
           /\ c.path \in Paths \cup {NoPath}
           /\ c.old \in Paths \cup {NoPath}
           /\ c.flag \in BOOLEAN
           /\ Rank(c) \in 1..4
BY DEF Call, Calls, Rank

\* What is left of a sorted agenda after its first call.
LEMMA TailFacts ==
    ASSUME NEW q \in Seq(Call), q # <<>>, Sorted(q)
    PROVE  /\ Head(q) \in Call
           /\ Tail(q) \in Seq(Call)
           /\ Sorted(Tail(q))
           /\ Head(q) \in CallsIn(q)
           /\ CallsIn(Tail(q)) = CallsIn(q) \ {Head(q)}
           /\ CallsIn(q) \subseteq Call
           /\ \A c \in CallsIn(q) : Rank(Head(q)) <= Rank(c)
<1>1. Len(q) \in Nat \ {0}
    BY EmptySeq
<1>2. 1 \in 1..Len(q) /\ Head(q) = q[1]
    BY <1>1
<1>3. q[1] \in Call /\ CallsIn(q) \subseteq Call
    BY <1>2, ElementOfSeq DEF CallsIn
<1>4. /\ Tail(q) \in Seq(Call)
      /\ Len(Tail(q)) = Len(q) - 1
      /\ \A i \in 1..Len(Tail(q)) : Tail(q)[i] = q[i + 1]
    BY HeadTailProperties
<1>5. \A i \in 1..Len(q) - 1 : i + 1 \in 1..Len(q) /\ 1 < i + 1 /\ Tail(q)[i] = q[i + 1]
    BY <1>1, <1>4
<1>6. ASSUME NEW i \in 1..Len(q), i # 1
      PROVE  i - 1 \in 1..Len(q) - 1 /\ Tail(q)[i - 1] = q[i]
    BY <1>1, <1>4, <1>6
<1>7. Sorted(Tail(q))
    <2> SUFFICES ASSUME NEW i \in 1..Len(q) - 1, NEW j \in 1..Len(q) - 1, i < j
                 PROVE  Rank(Tail(q)[i]) <= Rank(Tail(q)[j]) /\ Tail(q)[i] # Tail(q)[j]
        BY <1>4 DEF Sorted
    <2>1. i + 1 \in 1..Len(q) /\ j + 1 \in 1..Len(q) /\ i + 1 < j + 1
        BY <1>5
    <2> QED
        BY <1>5, <2>1 DEF Sorted
<1>8. CallsIn(Tail(q)) \subseteq CallsIn(q) \ {Head(q)}
    <2> SUFFICES ASSUME NEW i \in 1..Len(q) - 1
                 PROVE  Tail(q)[i] \in CallsIn(q) /\ Tail(q)[i] # Head(q)
        BY <1>4 DEF CallsIn
    <2> QED
        BY <1>2, <1>5 DEF CallsIn, Sorted
<1>9. CallsIn(q) \ {Head(q)} \subseteq CallsIn(Tail(q))
    <2> SUFFICES ASSUME NEW i \in 1..Len(q), q[i] # q[1]
                 PROVE  q[i] \in CallsIn(Tail(q))
        BY <1>2 DEF CallsIn
    <2> QED
        BY <1>4, <1>6 DEF CallsIn
<1>10. ASSUME NEW i \in 1..Len(q) PROVE Rank(q[1]) <= Rank(q[i])
    <2>1. CASE i = 1
        BY <1>3, <2>1, CallFields
    <2>2. CASE i # 1
        BY <1>1, <1>2, <2>2 DEF Sorted
    <2> QED
        BY <2>1, <2>2
<1> QED
    BY <1>2, <1>3, <1>4, <1>7, <1>8, <1>9, <1>10 DEF CallsIn

\* Two sorted lists of calls, the second after the first in rank.
LEMMA ConcatFacts ==
    ASSUME NEW q \in Seq(Call), NEW r \in Seq(Call), Sorted(q), Sorted(r),
           \A c \in CallsIn(q), d \in CallsIn(r) : Rank(c) <= Rank(d) /\ c # d
    PROVE  /\ q \o r \in Seq(Call)
           /\ Sorted(q \o r)
           /\ CallsIn(q \o r) = CallsIn(q) \cup CallsIn(r)
<1> DEFINE s == q \o r
           m == Len(q)
           n == Len(r)
<1>1. /\ s \in Seq(Call)
      /\ Len(s) = m + n
      /\ \A i \in 1..m + n : s[i] = IF i <= m THEN q[i] ELSE r[i - m]
    BY ConcatProperties
<1>2. m \in Nat /\ n \in Nat
    OBVIOUS
<1> HIDE DEF s, m, n
<1>3. \A i \in 1..m : i \in 1..m + n /\ s[i] = q[i]
    BY <1>1, <1>2
<1>4. \A i \in 1..n : i + m \in 1..m + n /\ s[i + m] = r[i]
    BY <1>1, <1>2
<1>5. \A i \in 1..m + n : \/ i \in 1..m /\ s[i] = q[i]
                          \/ i > m /\ i - m \in 1..n /\ s[i] = r[i - m]
    BY <1>1, <1>2
<1>6. CallsIn(s) = CallsIn(q) \cup CallsIn(r)
    <2>1. CallsIn(s) \subseteq CallsIn(q) \cup CallsIn(r)
        BY <1>1, <1>5 DEF CallsIn, m, n
    <2>2. CallsIn(q) \subseteq CallsIn(s)
        BY <1>1, <1>3 DEF CallsIn, m
    <2>3. CallsIn(r) \subseteq CallsIn(s)
        BY <1>1, <1>4 DEF CallsIn, n
    <2> QED
        BY <2>1, <2>2, <2>3
<1>7. Sorted(s)
    <2> SUFFICES ASSUME NEW i \in 1..m + n, NEW j \in 1..m + n, i < j
                 PROVE  Rank(s[i]) <= Rank(s[j]) /\ s[i] # s[j]
        BY <1>1 DEF Sorted
    <2>1. CASE i \in 1..m /\ j \in 1..m
        BY <1>3, <2>1 DEF Sorted, m
    <2>2. CASE i > m
        <3>1. /\ i - m \in 1..n /\ j - m \in 1..n /\ i - m < j - m
              /\ s[i] = r[i - m] /\ s[j] = r[j - m]
            BY <1>2, <1>5, <2>2
        <3> QED
            BY <3>1 DEF Sorted, n
    <2>3. CASE i \in 1..m /\ j > m
        <3>1. s[i] \in CallsIn(q) /\ s[j] \in CallsIn(r)
            BY <1>2, <1>5, <2>3 DEF CallsIn, m, n
        <3> QED
            BY <3>1
    <2> QED
        BY <1>2, <1>5, <2>1, <2>2, <2>3
<1> QED
    BY <1>1, <1>6, <1>7 DEF s

\* A loop that makes the same call for one flow after the other.
LEMMA LoopFacts ==
    ASSUME NEW n \in Nat, NEW q \in [1..n -> Call], NEW k,
           \A i \in 1..n : Rank(q[i]) = k,
           \A i, j \in 1..n : i < j => q[i].flow # q[j].flow
    PROVE  /\ q \in Seq(Call)
           /\ Sorted(q)
           /\ \A c : c \in CallsIn(q) <=> \E i \in 1..n : c = q[i]
           /\ \A c \in CallsIn(q) : Rank(c) = k
<1>1. q \in Seq(Call) /\ Len(q) = n
    BY SeqDef
<1>2. \A c : c \in CallsIn(q) <=> \E i \in 1..n : c = q[i]
    BY <1>1 DEF CallsIn
<1>3. Sorted(q)
    <2> SUFFICES ASSUME NEW i \in 1..n, NEW j \in 1..n, i < j
                 PROVE  Rank(q[i]) <= Rank(q[j]) /\ q[i] # q[j]
        BY <1>1 DEF Sorted
    <2>1. Rank(q[i]) = Rank(q[j]) /\ q[i] \in Call
        OBVIOUS
    <2> QED
        BY <2>1, CallFields
<1> QED
    BY <1>1, <1>2, <1>3

-----------------------------------------------------------------------------
\* The first call of an agenda, and what is pending without it.
LEMMA HeadFacts ==
    ASSUME ControlInv, agenda # <<>>, NEW h, h = Head(agenda)
    PROVE  /\ h \in Call
           /\ Pending(h)
           /\ \A c \in Call : Pending(c) => Rank(h) <= Rank(c)
           /\ Tail(agenda) \in Seq(Call)
           /\ Sorted(Tail(agenda))
           /\ CallsIn(Tail(agenda)) \subseteq Call
           /\ \A c \in Call : c \in CallsIn(Tail(agenda)) <=> Pending(c) /\ c # h
BY TailFacts DEF ControlInv, ControlTypeOK, AgendaInv, Pending

\* A step to the rest of the agenda.
LEMMA ProceedToTail ==
    ASSUME ControlInv, agenda # <<>>, NEW h, h = Head(agenda), Proceed(Tail(agenda))
    PROVE  /\ agenda' \in Seq(Call)
           /\ Sorted(agenda)'
           /\ \A c \in Call : Pending(c)' <=> Pending(c) /\ c # h
           /\ holder' \in {"none", "control", "app"}
           /\ (holder = "none" <=> agenda = <<>>)'
<1>1. agenda' = Tail(agenda)
    BY DEF Proceed
<1>2. /\ Tail(agenda) \in Seq(Call)
      /\ Sorted(Tail(agenda))
      /\ \A c \in Call : c \in CallsIn(Tail(agenda)) <=> Pending(c) /\ c # h
    BY HeadFacts
<1>3. Sorted(agenda)'
    BY <1>1, <1>2 DEF Sorted
<1>4. \A c \in Call : Pending(c)' <=> Pending(c) /\ c # h
    BY <1>1, <1>2 DEF Pending, CallsIn
<1>5. /\ holder' \in {"none", "control", "app"}
      /\ (holder = "none" <=> agenda = <<>>)'
    BY <1>1 DEF Proceed, ControlInv, ControlTypeOK
<1> QED
    BY <1>1, <1>2, <1>3, <1>4, <1>5

\* What a release changes in the table and in the index.
LEMMA ReleaseFacts ==
    ASSUME StateTypeOK, NEW f \in Flows, NEW s, Release(f, s)
    PROVE  /\ InTable(f)
           /\ flows'[f] = [state |-> s, path |-> NoPath]
           /\ \A g \in Flows \ {f} : flows'[g] = flows[g]
           /\ \A l \in Links : linkFlows'[l] \subseteq linkFlows[l]
BY DEF Release, StateTypeOK

\* What a reservation changes there.
LEMMA ReserveFacts ==
    ASSUME StateTypeOK, NEW f \in Flows, NEW p, NEW force, Reserve(f, p, force)
    PROVE  /\ flows'[f] = [state |-> "ACTIVE", path |-> p]
           /\ \A g \in Flows \ {f} : flows'[g] = flows[g]
           /\ \A l \in Links : linkFlows'[l] \subseteq linkFlows[l] \cup {f}
BY DEF Reserve, StateTypeOK

\* Coherence survives where calls only leave.
LEMMA CoherentLess ==
    ASSUME Coherent, \A c \in Call : Pending(c)' => Pending(c)
    PROVE  Coherent'
BY DEF Coherent

-----------------------------------------------------------------------------
\* Releasing a victim: the others stay where they are, and the victim now
\* waits for its retry.
LEMMA PreemptAgenda ==
    ASSUME ControlInv, NEW h \in Call, Pending(h), h.call = "preempt",
           Release(h.flow, "PREEMPTED"), UNCHANGED <<holdDown, terms>>,
           Sorted(agenda)', \A c \in Call : Pending(c)' <=> Pending(c) /\ c # h
    PROVE  AgendaInv'
<1> DEFINE v == h.flow
<1>1. /\ v \in Flows
      /\ flows'[v] = [state |-> "PREEMPTED", path |-> NoPath]
      /\ \A g \in Flows \ {v} : flows'[g] = flows[g]
      /\ \A l \in Links : linkFlows'[l] \subseteq linkFlows[l]
    BY CallFields, ReleaseFacts DEF ControlInv, LedgerInv
<1>2. Active(v)
    BY DEF ControlInv, AgendaInv, PreemptsReady, Evictable
<1>3. \A c \in Call : c.flow \in Flows
    BY CallFields
<1>4. PreemptsReady'
    <2> SUFFICES ASSUME NEW c \in Call, Pending(c)', c.call = "preempt"
                 PROVE  /\ \E d \in Call : /\ Pending(d)'
                                           /\ Places(d)
                                           /\ Evictable(c.flow, d.flow, d.path)'
                        /\ \E d \in Call : /\ Pending(d)'
                                           /\ d.call = "reroute"
                                           /\ d.flow = c.flow
        BY DEF PreemptsReady
    <2>1. PICK d \in Call : /\ Pending(d)
                            /\ Places(d)
                            /\ Evictable(c.flow, d.flow, d.path)
        BY DEF ControlInv, AgendaInv, PreemptsReady
    <2>2. PICK e \in Call : Pending(e) /\ e.call = "reroute" /\ e.flow = c.flow
        BY DEF ControlInv, AgendaInv, PreemptsReady
    <2>3. c.flow # v
        BY DEF ControlInv, AgendaInv, Coherent, Compatible
    <2>4. flows'[c.flow] = flows[c.flow]
        BY <1>1, <1>3, <2>3
    <2>5. Evictable(c.flow, d.flow, d.path)'
        BY <2>1, <2>4 DEF Evictable, Active, FlowLinks
    <2> QED
        BY <2>1, <2>2, <2>5 DEF Places
<1>5. PlacementsReady'
    <2> SUFFICES ASSUME NEW c \in Call, Pending(c)
                 PROVE  /\ Places(c) => c.path \in PathsFor(c.flow)
                        /\ c.call = "admit" => /\ Minted(c.flow)'
                                               /\ ~InTable(c.flow)'
                                               /\ Unlisted(c.flow)'
                        /\ c.call = "move" => Displaced(c.flow)' /\ ~c.flag
        BY DEF PlacementsReady
    <2>1. /\ Places(c) => c.path \in PathsFor(c.flow)
          /\ c.call = "admit" =>
                Minted(c.flow) /\ ~InTable(c.flow) /\ Unlisted(c.flow)
          /\ c.call = "move" => Displaced(c.flow) /\ ~c.flag
        BY DEF ControlInv, AgendaInv, PlacementsReady
    <2>2. c.call \in {"admit", "move"} => flows'[c.flow] = flows[c.flow]
        BY <1>1, <1>2, <1>3, <2>1 DEF InTable, Active, Displaced
    <2> QED
        BY <1>1, <2>1, <2>2 DEF Minted, InTable, Unlisted, Displaced
<1>6. ReroutesReady'
    <2> SUFFICES ASSUME NEW c \in Call, Pending(c), c.call = "reroute"
                 PROVE  \/ Displaced(c.flow)'
                        \/ \E d \in Call : /\ Pending(d) /\ d # h
                                           /\ d.call = "preempt"
                                           /\ d.flow = c.flow
        BY DEF ReroutesReady
    <2>1. CASE c.flow = v
        BY <1>1, <2>1 DEF Displaced
    <2>2. CASE c.flow # v
        <3>1. flows'[c.flow] = flows[c.flow]
            BY <1>1, <1>3, <2>2
        <3> QED
            BY <2>2, <3>1 DEF ControlInv, AgendaInv, ReroutesReady, Displaced
    <2> QED
        BY <2>1, <2>2
<1>7. EvacuationsReady'
    BY <1>1, <1>3 DEF ControlInv, AgendaInv, EvacuationsReady, Live, Active, Displaced
<1> QED
    BY <1>4, <1>5, <1>6, <1>7, CoherentLess DEF AgendaInv, ControlInv

\* A flow that is not removed before a step is on the list after it as before.
LEMMA ClearStaysComplete ==
    ASSUME CalmInv, NEW f \in Flows, InTable(f), flows[f].state # "REMOVED",
           \A g \in Flows \ {f} : flows'[g] = flows[g],
           clearing' = clearing,
           \A c \in Call : Pending(c)' => Pending(c)
    PROVE  ClearIsComplete'
<1>1. ASSUME NEW i \in Clears, clearing[i].stage = "on", NEW g \in Flows
      PROVE  OnTheList(g, i)'
    <2>1. OnTheList(g, i) /\ OnTheList(f, i)
        BY <1>1 DEF CalmInv, ClearIsComplete
    <2> QED
        BY <2>1 DEF OnTheList, InTable
<1>2. Clearing' <=> Clearing
    BY DEF Clearing
<1> QED
    BY <1>1, <1>2 DEF CalmInv, ClearIsComplete

\* So is every flow after a step that changes none.
LEMMA ClearUntouched ==
    ASSUME CalmInv, flows' = flows, clearing' = clearing,
           Clearing => \A c \in Call : Pending(c)' => c.call # "admit"
    PROVE  ClearIsComplete'
<1>1. \A i \in Clears, g \in Flows : OnTheList(g, i)' <=> OnTheList(g, i)
    BY DEF OnTheList, InTable
<1>2. Clearing' <=> Clearing
    BY DEF Clearing
<1> QED
    BY <1>1, <1>2 DEF CalmInv, ClearIsComplete

\* The other parts of the invariant at the release of a victim.
LEMMA PreemptStepInv ==
    ASSUME ControlInv, PreemptStep
    PROVE  ControlInv' /\ (CalmInv => CalmInv')
<1> DEFINE h == Head(agenda)
           v == h.flow
<1>1. agenda # <<>> /\ h.call = "preempt" /\ Release(v, "PREEMPTED")
      /\ Proceed(Tail(agenda))
      /\ UNCHANGED <<holdDown, terms, byCookie, datapaths, clearing, expiring>>
    BY DEF PreemptStep, Calling
<1>2. h \in Call /\ Pending(h) /\ v \in Flows
    BY <1>1, HeadFacts, CallFields
<1>3. /\ agenda' \in Seq(Call)
      /\ Sorted(agenda)'
      /\ \A c \in Call : Pending(c)' <=> Pending(c) /\ c # h
      /\ holder' \in {"none", "control", "app"}
      /\ (holder = "none" <=> agenda = <<>>)'
    BY <1>1, ProceedToTail
<1>4. /\ InTable(v)
      /\ flows'[v] = [state |-> "PREEMPTED", path |-> NoPath]
      /\ \A g \in Flows \ {v} : flows'[g] = flows[g]
      /\ \A l \in Links : linkFlows'[l] \subseteq linkFlows[l]
    BY <1>1, <1>2, ReleaseFacts DEF ControlInv, LedgerInv
<1>5. /\ Active(v)
      /\ \E d \in Call : Pending(d) /\ d.call = "reroute" /\ d.flow = v
    BY <1>1, <1>2 DEF ControlInv, AgendaInv, PreemptsReady, Evictable
<1> HIDE DEF h, v
<1>6. LedgerInv'
    BY <1>1, <1>2, ReleaseLedger DEF ControlInv, LedgerInv, StateTypeOK, FlowStates
<1>7. ControlTypeOK'
    BY <1>1, <1>3 DEF ControlInv, ControlTypeOK, SideTypeOK
<1>8. UnmintedIsNowhere'
    BY <1>1, <1>4 DEF ControlInv, UnmintedIsNowhere, Minted, InTable, Unlisted
<1>9. CookieMapAgrees'
    BY <1>1, <1>2, <1>4, <1>5 DEF ControlInv, CookieMapAgrees, Active
<1>10. AgendaInv'
    BY <1>1, <1>2, <1>3, PreemptAgenda DEF v
<1>11. ASSUME CalmInv PROVE CalmInv'
    <2>1. NoOrphans'
        BY <1>2, <1>4, <1>11 DEF CalmInv, NoOrphans, InTable, Unlisted
    <2>2. RetriesPending'
        <3> SUFFICES ASSUME NEW f \in Flows, flows'[f].state = "PREEMPTED"
                     PROVE  \E c \in Call : /\ Pending(c)'
                                            /\ c.call \in {"reroute", "move"}
                                            /\ c.flow = f
            BY DEF RetriesPending
        <3>1. \E c \in Call : Pending(c) /\ c.call \in {"reroute", "move"} /\ c.flow = f
            BY <1>4, <1>5, <1>11 DEF CalmInv, RetriesPending
        <3> QED
            BY <1>1, <1>3, <3>1
    <2>3. ClearIsComplete'
        <3>1. /\ clearing' = clearing /\ InTable(v) /\ flows[v].state # "REMOVED"
              /\ \A g \in Flows \ {v} : flows'[g] = flows[g]
            BY <1>1, <1>4, <1>5 DEF Active
        <3> QED
            BY <1>2, <1>3, <1>11, <3>1, ClearStaysComplete
    <2> QED
        BY <2>1, <2>2, <2>3 DEF CalmInv
<1> QED
    BY <1>6, <1>7, <1>8, <1>9, <1>10, <1>11 DEF ControlInv

-----------------------------------------------------------------------------
\* Once a handler has come to its placement, no release is pending; past it,
\* no placement either.
LEMMA NothingBefore ==
    ASSUME ControlInv, NEW h \in Call, Pending(h),
           \A c \in Call : Pending(c) => Rank(h) <= Rank(c),
           NEW c \in Call, Pending(c), c # h
    PROVE  /\ Rank(h) >= 2 => c.call # "preempt"
           /\ Places(h) => c.call \in {"reroute", "evacuate"}
           /\ h.call = "reroute" => c.call \in {"reroute", "evacuate"}
           /\ h.call = "evacuate" => c.call = "evacuate"
<1>1. Compatible(h, c) /\ Rank(h) <= Rank(c)
    BY DEF ControlInv, AgendaInv, Coherent
<1>2. /\ c.call \in {"preempt", "admit", "evacuate", "reroute", "move"}
      /\ h.call \in {"preempt", "admit", "evacuate", "reroute", "move"}
    BY CallFields
<1> QED
    BY <1>1, <1>2 DEF Rank, Places, Compatible

\* Placing a flow: whoever is still to be rerouted or evacuated is another
\* flow, or one that has a place now.
LEMMA PlaceAgenda ==
    ASSUME ControlInv, NEW h \in Call, Pending(h), Places(h), NEW force \in BOOLEAN,
           \A c \in Call : Pending(c) => Rank(h) <= Rank(c),
           Reserve(h.flow, h.path, force), UNCHANGED terms,
           Sorted(agenda)', \A c \in Call : Pending(c)' <=> Pending(c) /\ c # h
    PROVE  AgendaInv'
<1>1. /\ h.flow \in Flows
      /\ flows'[h.flow] = [state |-> "ACTIVE", path |-> h.path]
      /\ \A g \in Flows \ {h.flow} : flows'[g] = flows[g]
    BY CallFields, ReserveFacts DEF ControlInv, LedgerInv
<1>2. \A c \in Call : Pending(c)' => c.call \in {"reroute", "evacuate"} /\ c.flow \in Flows
    BY NothingBefore, CallFields
<1>3. PreemptsReady' /\ PlacementsReady'
    BY <1>2 DEF PreemptsReady, PlacementsReady, Places
<1>4. ReroutesReady'
    <2> SUFFICES ASSUME NEW c \in Call, Pending(c), c # h, c.call = "reroute"
                 PROVE  Displaced(c.flow)'
        BY DEF ReroutesReady
    <2>1. c.flow # h.flow
        BY DEF ControlInv, AgendaInv, Coherent, Compatible
    <2>2. Displaced(c.flow)
        <3>1. PICK d \in Call : \/ Displaced(c.flow)
                                \/ Pending(d) /\ d.call = "preempt"
            BY DEF ControlInv, AgendaInv, ReroutesReady
        <3> QED
            BY <1>2, <3>1 DEF Places
    <2> QED
        BY <1>1, <1>2, <2>1, <2>2 DEF Displaced
<1>5. EvacuationsReady'
    BY <1>1, <1>2 DEF ControlInv, AgendaInv, EvacuationsReady, Live, Active, Displaced
<1> QED
    BY <1>3, <1>4, <1>5, CoherentLess DEF AgendaInv, ControlInv

\* The other parts of the invariant where a flow is placed.  A flow that gets
\* a place has none, so no link lists it.
LEMMA PlaceInv ==
    ASSUME ControlInv, agenda # <<>>, NEW h, h = Head(agenda), Places(h),
           NEW force \in BOOLEAN, Reserve(h.flow, h.path, force),
           Proceed(Tail(agenda)), UNCHANGED <<terms, datapaths, clearing, expiring>>,
           holdDown' \subseteq holdDown \cup {h.flow},
           byCookie' = byCookie \cup {h.flow}
    PROVE  ControlInv' /\ (CalmInv => CalmInv')
<1> DEFINE f == h.flow
<1>1. /\ h \in Call /\ Pending(h) /\ f \in Flows
      /\ \A c \in Call : Pending(c) => Rank(h) <= Rank(c)
    BY HeadFacts, CallFields
<1>2. /\ agenda' \in Seq(Call)
      /\ Sorted(agenda)'
      /\ \A c \in Call : Pending(c)' <=> Pending(c) /\ c # h
      /\ holder' \in {"none", "control", "app"}
      /\ (holder = "none" <=> agenda = <<>>)'
    BY ProceedToTail
<1>3. /\ flows'[f] = [state |-> "ACTIVE", path |-> h.path]
      /\ \A g \in Flows \ {f} : flows'[g] = flows[g]
      /\ \A l \in Links : linkFlows'[l] \subseteq linkFlows[l] \cup {f}
    BY <1>1, ReserveFacts DEF ControlInv, LedgerInv
<1>4. /\ h.path \in PathsFor(f)
      /\ h.call = "admit" => Minted(f) /\ Unlisted(f)
      /\ h.call = "move" => Displaced(f)
    BY <1>1 DEF ControlInv, AgendaInv, PlacementsReady
<1>5. h.call \in {"admit", "move"} /\ h.path \in Paths
    BY <1>4 DEF Places, PathsFor
<1>6. Unlisted(f) /\ Minted(f)
    BY <1>1, <1>4, <1>5 DEF ControlInv, LedgerInv, TableIndexed, UnmintedIsNowhere,
                    Displaced, InTable, Active, Unlisted
<1> HIDE DEF f
<1>7. LedgerInv'
    BY <1>1, <1>5, <1>6, ReserveLedger DEF ControlInv, LedgerInv, StateTypeOK, f
<1>8. ControlTypeOK'
    BY <1>1, <1>2 DEF ControlInv, ControlTypeOK, SideTypeOK, f
<1>9. UnmintedIsNowhere'
    BY <1>3, <1>6 DEF ControlInv, UnmintedIsNowhere, Minted, InTable, Unlisted
<1>10. CookieMapAgrees'
    BY <1>1, <1>3 DEF ControlInv, CookieMapAgrees, f
<1>11. AgendaInv'
    BY <1>1, <1>2, PlaceAgenda
<1>12. ASSUME CalmInv PROVE CalmInv'
    <2>1. NoOrphans'
        BY <1>1, <1>3, <1>12 DEF CalmInv, NoOrphans, InTable, Unlisted
    <2>2. RetriesPending'
        <3> SUFFICES ASSUME NEW g \in Flows, flows'[g].state = "PREEMPTED"
                     PROVE  \E c \in Call : /\ Pending(c)'
                                            /\ c.call \in {"reroute", "move"}
                                            /\ c.flow = g
            BY DEF RetriesPending
        <3>1. g # f /\ flows[g].state = "PREEMPTED"
            BY <1>3
        <3>2. PICK c \in Call : /\ Pending(c)
                                /\ c.call \in {"reroute", "move"}
                                /\ c.flow = g
            BY <3>1, <1>12 DEF CalmInv, RetriesPending
        <3> QED
            BY <1>2, <3>1, <3>2 DEF f
    <2>3. ClearIsComplete'
        <3>1. CASE ~Clearing
            BY <3>1 DEF ClearIsComplete, Clearing
        <3>2. CASE Clearing
            <4>1. h.call = "move"
                BY <1>1, <1>5, <1>12, <3>2 DEF CalmInv, ClearIsComplete
            <4>2. InTable(f) /\ flows[f].state # "REMOVED"
                BY <1>4, <4>1 DEF Displaced, InTable
            <4> QED
                BY <1>1, <1>2, <1>3, <1>12, <4>2, ClearStaysComplete DEF f
        <3> QED
            BY <3>1, <3>2
    <2> QED
        BY <2>1, <2>2, <2>3 DEF CalmInv
<1> QED
    BY <1>7, <1>8, <1>9, <1>10, <1>11, <1>12 DEF ControlInv

LEMMA AdmitStepInv ==
    ASSUME ControlInv, AdmitStep
    PROVE  ControlInv' /\ (CalmInv => CalmInv')
<1>1. agenda # <<>> /\ Head(agenda).call = "admit" /\ Head(agenda).flag \in BOOLEAN
    BY HeadFacts, CallFields DEF AdmitStep, Calling
<1>2. holdDown' = holdDown
    BY DEF AdmitStep
<1> QED
    BY <1>1, <1>2, PlaceInv DEF AdmitStep, Places

LEMMA MoveStepInv ==
    ASSUME ControlInv, MoveStep
    PROVE  ControlInv' /\ (CalmInv => CalmInv')
<1> DEFINE h == Head(agenda)
<1>1. agenda # <<>> /\ h.call = "move" /\ h \in Call /\ Pending(h) /\ h.flow \in Flows
    BY HeadFacts, CallFields DEF MoveStep, Calling
<1>2. Displaced(h.flow)
    BY <1>1 DEF ControlInv, AgendaInv, PlacementsReady
<1>3. h.flow \in byCookie
    BY <1>1, <1>2 DEF ControlInv, CookieMapAgrees, Displaced
<1>4. /\ holdDown' \subseteq holdDown \cup {h.flow}
      /\ byCookie' = byCookie \cup {h.flow}
    BY <1>3 DEF MoveStep, MarkHoldDown
<1> QED
    BY <1>1, <1>4, PlaceInv DEF MoveStep, Places

-----------------------------------------------------------------------------
\* One call is a sorted list.
LEMMA SingleCall ==
    ASSUME NEW c \in Call
    PROVE  <<c>> \in Seq(Call) /\ Sorted(<<c>>) /\ CallsIn(<<c>>) = {c}
BY DEF Sorted, CallsIn

LEMMA NoCalls == <<>> \in Seq(Call) /\ Sorted(<<>>) /\ CallsIn(<<>>) = {}
BY DEF Sorted, CallsIn

\* A step to another agenda.
LEMMA ProceedToCalls ==
    ASSUME ControlInv, agenda # <<>>, NEW q \in Seq(Call), Sorted(q), Proceed(q)
    PROVE  /\ agenda' \in Seq(Call)
           /\ Sorted(agenda)'
           /\ \A c \in Call : Pending(c)' <=> c \in CallsIn(q)
           /\ holder' \in {"none", "control", "app"}
           /\ (holder = "none" <=> agenda = <<>>)'
<1>1. agenda' = q
    BY DEF Proceed
<1>2. Sorted(agenda)' /\ \A c \in Call : Pending(c)' <=> c \in CallsIn(q)
    BY <1>1 DEF Sorted, Pending, CallsIn
<1>3. /\ holder' \in {"none", "control", "app"}
      /\ (holder = "none" <=> agenda = <<>>)'
    BY <1>1 DEF Proceed, ControlInv, ControlTypeOK
<1> QED
    BY <1>1, <1>2, <1>3

\* A flow leaves a failed link: its own retry comes next and may preempt.
LEMMA EvacuateStepInv ==
    ASSUME ControlInv, EvacuateStep
    PROVE  /\ ControlInv' /\ (CalmInv => CalmInv')
           /\ \A c \in Call : /\ Pending(c) /\ c # Head(agenda) => Pending(c)'
                              /\ Pending(c)' => ~Places(c)
           /\ OldPathsKept
<1> DEFINE h == Head(agenda)
           f == h.flow
           r == Reroute(f, flows[f].path, TRUE)
           q == <<r>> \o Tail(agenda)
<1>1. /\ agenda # <<>> /\ h.call = "evacuate" /\ Release(f, "PREEMPTED")
      /\ Proceed(q)
      /\ UNCHANGED <<holdDown, terms, byCookie, datapaths, clearing, expiring>>
    BY DEF EvacuateStep, Calling
<1>2. /\ h \in Call /\ Pending(h) /\ f \in Flows
      /\ \A c \in Call : Pending(c) => Rank(h) <= Rank(c)
      /\ Tail(agenda) \in Seq(Call) /\ Sorted(Tail(agenda))
      /\ CallsIn(Tail(agenda)) \subseteq Call
      /\ \A c \in Call : c \in CallsIn(Tail(agenda)) <=> Pending(c) /\ c # h
    BY <1>1, HeadFacts, CallFields
<1>3. r \in Call /\ r.call = "reroute" /\ r.flow = f /\ r.flag = TRUE
    <2>1. flows[f].path \in Paths \cup {NoPath}
        BY <1>2 DEF ControlInv, LedgerInv, StateTypeOK, FlowRecord
    <2> QED
        BY <1>2, <2>1, CallTypes DEF Reroute, CallOf
<1>4. \A c \in CallsIn(Tail(agenda)) : c \in Call /\ c.call = "evacuate"
    BY <1>1, <1>2, NothingBefore
<1> HIDE DEF r
<1>5. /\ q \in Seq(Call) /\ Sorted(q)
      /\ CallsIn(q) = {r} \cup CallsIn(Tail(agenda))
    <2>1. <<r>> \in Seq(Call) /\ Sorted(<<r>>) /\ CallsIn(<<r>>) = {r}
        BY <1>3, SingleCall
    <2>2. \A c \in CallsIn(<<r>>), d \in CallsIn(Tail(agenda)) :
             Rank(c) <= Rank(d) /\ c # d
        BY <1>3, <1>4, <2>1 DEF Rank, Places
    <2> QED
        BY <1>2, <2>1, <2>2, ConcatFacts
<1> HIDE DEF q
<1>6. /\ agenda' \in Seq(Call)
      /\ Sorted(agenda)'
      /\ \A c \in Call : Pending(c)' <=> c \in CallsIn(q)
      /\ holder' \in {"none", "control", "app"}
      /\ (holder = "none" <=> agenda = <<>>)'
    BY <1>1, <1>5, ProceedToCalls
<1>7. \A c \in Call : Pending(c)' => \/ c = r
                                     \/ c.call = "evacuate" /\ Pending(c) /\ c # h
    BY <1>2, <1>4, <1>5, <1>6
<1>8. /\ InTable(f)
      /\ flows'[f] = [state |-> "PREEMPTED", path |-> NoPath]
      /\ \A g \in Flows \ {f} : flows'[g] = flows[g]
      /\ \A l \in Links : linkFlows'[l] \subseteq linkFlows[l]
    BY <1>1, <1>2, ReleaseFacts DEF ControlInv, LedgerInv
<1>9. Live(f)
    BY <1>1, <1>2 DEF ControlInv, AgendaInv, EvacuationsReady
<1> HIDE DEF h, f
<1>10. LedgerInv'
    BY <1>1, <1>2, ReleaseLedger DEF ControlInv, LedgerInv, StateTypeOK, FlowStates
<1>11. ControlTypeOK'
    BY <1>1, <1>6 DEF ControlInv, ControlTypeOK, SideTypeOK
<1>12. UnmintedIsNowhere'
    BY <1>1, <1>8 DEF ControlInv, UnmintedIsNowhere, Minted, InTable, Unlisted
<1>13. CookieMapAgrees'
    BY <1>1, <1>2, <1>8, <1>9 DEF ControlInv, CookieMapAgrees, Live, Active, Displaced
<1>14. Coherent'
    <2> SUFFICES ASSUME NEW c \in Call, NEW d \in Call, Pending(c)', Pending(d)', c # d
                 PROVE  Compatible(c, d)
        BY DEF Coherent
    <2>1. CASE c = r \/ d = r
        BY <1>3, <1>7, <2>1 DEF Compatible, Places
    <2>2. CASE c # r /\ d # r
        BY <1>7, <2>2 DEF ControlInv, AgendaInv, Coherent
    <2> QED
        BY <2>1, <2>2
<1>15. PreemptsReady' /\ PlacementsReady'
    BY <1>3, <1>7 DEF PreemptsReady, PlacementsReady, Places
<1>16. ReroutesReady'
    BY <1>3, <1>7, <1>8 DEF ReroutesReady, Displaced
<1>17. EvacuationsReady'
    <2> SUFFICES ASSUME NEW c \in Call, Pending(c)', c.call = "evacuate"
                 PROVE  Live(c.flow)'
        BY DEF EvacuationsReady
    <2>1. Live(c.flow) /\ c.flow \in Flows
        BY <1>3, <1>7, CallFields DEF ControlInv, AgendaInv, EvacuationsReady
    <2> QED
        BY <1>8, <2>1 DEF Live, Active, Displaced
<1>18. AgendaInv'
    BY <1>6, <1>14, <1>15, <1>16, <1>17 DEF AgendaInv
<1>19. ASSUME CalmInv PROVE CalmInv'
    <2>1. NoOrphans'
        BY <1>2, <1>8, <1>19 DEF CalmInv, NoOrphans, InTable, Unlisted
    <2>2. RetriesPending'
        <3> SUFFICES ASSUME NEW g \in Flows, flows'[g].state = "PREEMPTED"
                     PROVE  \E c \in Call : /\ Pending(c)'
                                            /\ c.call \in {"reroute", "move"}
                                            /\ c.flow = g
            BY DEF RetriesPending
        <3>1. CASE g = f
            BY <1>3, <1>5, <1>6, <3>1
        <3>2. CASE g # f
            <4>1. PICK c \in Call : Pending(c) /\ c.call \in {"reroute", "move"}
                BY <1>8, <1>19, <3>2 DEF CalmInv, RetriesPending
            <4> QED
                BY <1>1, <1>2, <1>4, <4>1
        <3> QED
            BY <3>1, <3>2
    <2>3. ClearIsComplete'
        <3>1. flows[f].state # "REMOVED"
            BY <1>9 DEF Live, Active, Displaced
        <3>2. /\ f \in Flows /\ InTable(f) /\ clearing' = clearing
              /\ \A g \in Flows \ {f} : flows'[g] = flows[g]
            BY <1>1, <1>2, <1>8
        <3>3. CASE ~Clearing
            BY <3>2, <3>3 DEF ClearIsComplete, Clearing
        <3>4. CASE Clearing
            <4>1. \A c \in Call : Pending(c)' => c.call # "admit"
                BY <1>3, <1>7
            <4>2. \A i \in Clears, g \in Flows :
                     OnTheList(g, i) /\ OnTheList(f, i) => OnTheList(g, i)'
                BY <3>1, <3>2 DEF OnTheList, InTable
            <4> QED
                BY <1>19, <3>2, <4>1, <4>2 DEF CalmInv, ClearIsComplete, Clearing
        <3> QED
            BY <3>3, <3>4
    <2> QED
        BY <2>1, <2>2, <2>3 DEF CalmInv
<1>20. \A c \in Call : /\ Pending(c) /\ c # h => Pending(c)'
                       /\ Pending(c)' => ~Places(c)
    BY <1>2, <1>3, <1>5, <1>6, <1>7 DEF Places
<1>21. OldPathsKept
    <2>1. \A c \in Call : Pending(c) => c.call = "evacuate"
        BY <1>1, <1>2, <1>4
    <2>2. \A g \in Flows : ~Waiting(g)
        BY <2>1 DEF Waiting, Waits
    <2>3. r.old = flows[f].path
        BY DEF r, Reroute, CallOf
    <2>4. \A c \in Call : Pending(c)' /\ Waits(c, c.flow) => c = r
        BY <1>7 DEF Waits
    <2> QED
        BY <1>2, <1>3, <2>2, <2>3, <2>4 DEF OldPathsKept
<1> QED
    <2>1. ControlInv'
        BY <1>10, <1>11, <1>12, <1>13, <1>18 DEF ControlInv
    <2> QED
        BY <1>19, <1>20, <1>21, <2>1 DEF h

-----------------------------------------------------------------------------
\* The retry of a victim, which may not preempt.
Again(v, old) == Reroute(v, old, FALSE)

\* The loops of the handlers go through each flow once.
LEMMA OrderFacts ==
    ASSUME NEW S \in SUBSET Flows,
           NEW order, \/ order \in ById(S)
                      \/ order \in MostImportantFirst(S)
                      \/ order \in MostImportantOldestFirst(S)
    PROVE  /\ Cardinality(S) \in Nat
           /\ order \in [1..Cardinality(S) -> S]
           /\ \A i, j \in 1..Cardinality(S) : i < j => order[i] # order[j]
<1>1. Cardinality(S) \in Nat
    BY FS_Subset, FS_CardinalityType, WorkloadAssumption
<1> QED
    BY <1>1 DEF ById, MostImportantFirst, MostImportantOldestFirst, Orderings

\* As many different flows as S has are all of S.
LEMMA EnumerationCovers ==
    ASSUME NEW S \in SUBSET Flows,
           NEW order \in [1..Cardinality(S) -> S],
           \A i, j \in 1..Cardinality(S) : i < j => order[i] # order[j]
    PROVE  \A v \in S : \E i \in 1..Cardinality(S) : v = order[i]
<1> DEFINE n == Cardinality(S)
<1>1. /\ n \in Nat /\ order \in [1..n -> S]
      /\ \A i, j \in 1..n : i < j => order[i] # order[j]
    BY FS_Subset, FS_CardinalityType, WorkloadAssumption
<1>2. IsFiniteSet(S) /\ IsFiniteSet(1..n) /\ Cardinality(1..n) = Cardinality(S)
    <2>1. IsFiniteSet(S)
        BY FS_Subset, WorkloadAssumption
    <2>2. IsFiniteSet(1..n) /\ Cardinality(1..n) = n
        <3> HIDE DEF n
        <3> QED
            BY <1>1, FS_Interval
    <2> QED
        BY <2>1, <2>2
<1>3. order \in Injection(1..n, S)
    <2>1. \A i, j \in 1..n : order[i] = order[j] => i = j
        BY <1>1
    <2> QED
        BY <1>1, <2>1 DEF Injection, IsInjective
<1>4. order \in Surjection(1..n, S)
    BY <1>2, <1>3, FS_Injection
<1> QED
    BY <1>4 DEF Surjection

\* Every flow has its place in such an order.
LEMMA OrderCovers ==
    ASSUME NEW S \in SUBSET Flows,
           NEW order \in ById(S) \cup MostImportantFirst(S)
                            \cup MostImportantOldestFirst(S)
    PROVE  \A v \in S : \E i \in 1..Cardinality(S) : v = order[i]
BY OrderFacts, EnumerationCovers

\* What carries out a decision: the victims, the placement, the retries.
Evictions(order) == [i \in DOMAIN order |-> Preempt(order[i])]
Retries(order, old) == [i \in DOMAIN order |-> Again(order[i], old[order[i]])]
Plan(order, m, old) == Evictions(order) \o <<m>> \o Retries(order, old)

\* The calls of that, before the calls of R.
Planned(c, m, T, old, R) ==
    \/ c = m
    \/ \E v \in T : c = Preempt(v) \/ c = Again(v, old[v])
    \/ c \in R

\* The calls in q are those.
Carries(q, m, T, old) == \A c : c \in CallsIn(q) <=> Planned(c, m, T, old, {})

LEMMA PlanCalls ==
    ASSUME NEW V \in SUBSET Flows, NEW order \in ById(V),
           NEW m \in Call, Places(m),
           NEW old \in [Flows -> Paths \cup {NoPath}]
    PROVE  /\ Plan(order, m, old) \in Seq(Call)
           /\ Sorted(Plan(order, m, old))
           /\ Carries(Plan(order, m, old), m, V, old)
<1> DEFINE n == Cardinality(V)
           a == Evictions(order)
           b == Retries(order, old)
<1>1. /\ n \in Nat /\ order \in [1..n -> V]
      /\ \A i, j \in 1..n : i < j => order[i] # order[j]
    BY OrderFacts
<1>2. \A v \in V : \E i \in 1..n : v = order[i]
    BY OrderCovers
<1> HIDE DEF n
<1>3. ASSUME NEW v \in V
      PROVE  /\ Preempt(v) \in Call
             /\ Preempt(v).flow = v /\ Rank(Preempt(v)) = 1
             /\ Again(v, old[v]) \in Call
             /\ Again(v, old[v]).flow = v /\ Rank(Again(v, old[v])) = 3
    <2>1. Preempt(v) \in Call /\ Again(v, old[v]) \in Call
        BY CallTypes DEF Again
    <2> QED
        BY <2>1 DEF Preempt, Again, Reroute, CallOf, Rank, Places
<1>4. /\ a \in [1..n -> Call] /\ b \in [1..n -> Call]
      /\ \A i \in 1..n : a[i] = Preempt(order[i]) /\ b[i] = Again(order[i], old[order[i]])
    BY <1>1, <1>3 DEF Evictions, Retries
<1> HIDE DEF a, b
<1>5. /\ a \in Seq(Call) /\ Sorted(a)
      /\ \A c : c \in CallsIn(a) <=> \E i \in 1..n : c = a[i]
      /\ \A c \in CallsIn(a) : Rank(c) = 1
    <2>1. \A i \in 1..n : Rank(a[i]) = 1
        BY <1>1, <1>3, <1>4
    <2>2. \A i, j \in 1..n : i < j => a[i].flow # a[j].flow
        BY <1>1, <1>3, <1>4
    <2>3. a \in Seq(Call) /\ Sorted(a)
        BY <1>1, <1>4, <2>1, <2>2, LoopFacts
    <2>4. \A c : c \in CallsIn(a) <=> \E i \in 1..n : c = a[i]
        BY <1>1, <1>4, <2>1, <2>2, LoopFacts
    <2>5. \A c \in CallsIn(a) : Rank(c) = 1
        BY <1>1, <1>4, <2>1, <2>2, LoopFacts
    <2> QED
        BY <2>3, <2>4, <2>5
<1>6. /\ b \in Seq(Call) /\ Sorted(b)
      /\ \A c : c \in CallsIn(b) <=> \E i \in 1..n : c = b[i]
      /\ \A c \in CallsIn(b) : Rank(c) = 3
    <2>1. \A i \in 1..n : Rank(b[i]) = 3
        BY <1>1, <1>3, <1>4
    <2>2. \A i, j \in 1..n : i < j => b[i].flow # b[j].flow
        BY <1>1, <1>3, <1>4
    <2>3. b \in Seq(Call) /\ Sorted(b)
        BY <1>1, <1>4, <2>1, <2>2, LoopFacts
    <2>4. \A c : c \in CallsIn(b) <=> \E i \in 1..n : c = b[i]
        BY <1>1, <1>4, <2>1, <2>2, LoopFacts
    <2>5. \A c \in CallsIn(b) : Rank(c) = 3
        BY <1>1, <1>4, <2>1, <2>2, LoopFacts
    <2> QED
        BY <2>3, <2>4, <2>5
<1>7. /\ Rank(m) = 2
      /\ <<m>> \in Seq(Call) /\ Sorted(<<m>>) /\ CallsIn(<<m>>) = {m}
    BY SingleCall DEF Rank, Places
<1>8. /\ a \o <<m>> \in Seq(Call) /\ Sorted(a \o <<m>>)
      /\ CallsIn(a \o <<m>>) = CallsIn(a) \cup {m}
    <2>1. \A c \in CallsIn(a), d \in CallsIn(<<m>>) : Rank(c) <= Rank(d) /\ c # d
        BY <1>5, <1>7
    <2> QED
        BY <1>5, <1>7, <2>1, ConcatFacts
<1>9. /\ a \o <<m>> \o b \in Seq(Call) /\ Sorted(a \o <<m>> \o b)
      /\ CallsIn(a \o <<m>> \o b) = CallsIn(a) \cup {m} \cup CallsIn(b)
    <2>1. \A c \in CallsIn(a) \cup {m}, d \in CallsIn(b) : Rank(c) <= Rank(d) /\ c # d
        BY <1>5, <1>6, <1>7
    <2>2. a \o <<m>> \o b \in Seq(Call)
        BY <1>6, <1>8, <2>1, ConcatFacts
    <2>3. Sorted(a \o <<m>> \o b)
        BY <1>6, <1>8, <2>1, ConcatFacts
    <2>4. CallsIn(a \o <<m>> \o b) = CallsIn(a \o <<m>>) \cup CallsIn(b)
        BY <1>6, <1>8, <2>1, ConcatFacts
    <2> QED
        BY <1>8, <2>2, <2>3, <2>4
<1>10. /\ \A c : c \in CallsIn(a) <=> \E v \in V : c = Preempt(v)
       /\ \A c : c \in CallsIn(b) <=> \E v \in V : c = Again(v, old[v])
    <2>1. \A c : c \in CallsIn(a) <=> \E i \in 1..n : c = Preempt(order[i])
        BY <1>4, <1>5
    <2>2. \A c : c \in CallsIn(b) <=> \E i \in 1..n : c = Again(order[i], old[order[i]])
        BY <1>4, <1>6
    <2> QED
        BY <1>1, <1>2, <2>1, <2>2
<1>11. \A c : c \in CallsIn(a) \cup {m} \cup CallsIn(b) <=> Planned(c, m, V, old, {})
    BY <1>10 DEF Planned
<1>12. Plan(order, m, old) = a \o <<m>> \o b
    BY DEF Plan, a, b
<1> QED
    BY <1>9, <1>11, <1>12 DEF Carries

\* The placement m with the victims T can come before the calls of R.
PlanFits(m, T, R) ==
    /\ m \in Call /\ Places(m)
    /\ m.path \in PathsFor(m.flow) /\ ~Active(m.flow)
    /\ m.call = "admit" => ~InTable(m.flow) /\ Unlisted(m.flow)
    /\ m.call = "move" => Displaced(m.flow) /\ ~m.flag
    /\ T \subseteq Flows
    /\ \A v \in T : Evictable(v, m.flow, m.path)
    /\ R \subseteq Call
    /\ \A c \in R : c.call \in {"reroute", "evacuate"}
    /\ \A c \in R : c.call = "reroute" =>
          ~c.flag /\ c.flow # m.flow /\ T = {} /\ Displaced(c.flow)
    /\ \A c \in R : c.call = "evacuate" => Live(c.flow)
    /\ \A c, d \in R : c # d => Compatible(c, d)

\* The agenda of a decision is in order: its victims can be evicted for it
\* and are retried, and it does not collide with what was left to do.
LEMMA PlanAgenda ==
    ASSUME NEW m, NEW T, NEW R, PlanFits(m, T, R),
           NEW old \in [Flows -> Paths \cup {NoPath}],
           m.call = "admit" => Minted(m.flow)',
           UNCHANGED <<flows, linkFlows, holdDown>>, Sorted(agenda)',
           \A c \in Call : Pending(c)' <=> Planned(c, m, T, old, R)
    PROVE  AgendaInv'
<1> DEFINE f == m.flow
           p == m.path
<1> /\ m \in Call /\ Places(m) /\ f \in Flows /\ p \in PathsFor(f) /\ ~Active(f)
    /\ m.call = "admit" => ~InTable(f) /\ Unlisted(f)
    /\ m.call = "move" => Displaced(f) /\ ~m.flag
    /\ \A v \in T : v \in Flows /\ Evictable(v, f, p)
    /\ R \subseteq Call
    /\ \A c \in R : c.call \in {"reroute", "evacuate"}
    /\ \A c \in R : c.call = "reroute" =>
          ~c.flag /\ c.flow # f /\ T = {} /\ Displaced(c.flow)
    /\ \A c \in R : c.call = "evacuate" => Live(c.flow)
    /\ \A c, d \in R : c # d => Compatible(c, d)
    BY CallFields DEF PlanFits
<1> \A c \in Call : Pending(c)' <=>
           \/ c = m
           \/ \E v \in T : c = Preempt(v) \/ c = Again(v, old[v])
           \/ c \in R
    BY DEF Planned
<1>1. ASSUME NEW v \in T
      PROVE  /\ Preempt(v) \in Call
             /\ Preempt(v).call = "preempt" /\ Preempt(v).flow = v
             /\ Again(v, old[v]) \in Call
             /\ Again(v, old[v]).call = "reroute"
             /\ Again(v, old[v]).flow = v
             /\ ~Again(v, old[v]).flag
             /\ v # f
             /\ Pending(Preempt(v))'
             /\ Pending(Again(v, old[v]))'
    <2>1. v # f
        BY DEF Evictable
    <2>2. Preempt(v) \in Call /\ Again(v, old[v]) \in Call
        BY CallTypes DEF Again
    <2>3. Pending(Preempt(v))' /\ Pending(Again(v, old[v]))'
        BY <2>2
    <2> QED
        BY <2>1, <2>2, <2>3 DEF Preempt, Again, Reroute, CallOf
<1>7. ASSUME NEW c \in Call, Pending(c)', c # m, c \notin R
      PROVE  /\ c.flow \in T /\ c.flow # f
             /\ \/ c.call = "preempt" /\ c = Preempt(c.flow)
                \/ /\ c.call = "reroute" /\ ~c.flag
                   /\ c = Again(c.flow, old[c.flow])
    <2>1. PICK v \in T : c = Preempt(v) \/ c = Again(v, old[v])
        BY <1>7
    <2>2. c.flow = v
        BY <1>1, <2>1
    <2> QED
        BY <1>1, <2>1, <2>2
<1>2. Coherent'
    <2> SUFFICES ASSUME NEW c \in Call, NEW d \in Call, Pending(c)', Pending(d)', c # d
                 PROVE  Compatible(c, d)
        BY DEF Coherent
    <2>1. CASE c \in R /\ d \in R
        BY <2>1
    <2>2. CASE c \in R /\ d \notin R
        BY <1>7, <2>2 DEF Compatible, Places
    <2>3. CASE c \notin R /\ d \in R
        BY <1>7, <2>3 DEF Compatible, Places
    <2>4. CASE c \notin R /\ d \notin R
        <3>1. CASE c = m \/ d = m
            BY <1>7, <2>4, <3>1 DEF Compatible, Places
        <3>2. CASE c # m /\ d # m
            BY <1>7, <2>4, <3>2 DEF Compatible, Places
        <3> QED
            BY <3>1, <3>2
    <2> QED
        BY <2>1, <2>2, <2>3, <2>4
<1>3. PreemptsReady'
    <2> SUFFICES ASSUME NEW c \in Call, Pending(c)', c.call = "preempt"
                 PROVE  /\ \E d \in Call : /\ Pending(d)'
                                           /\ Places(d)
                                           /\ Evictable(c.flow, d.flow, d.path)'
                        /\ \E d \in Call : /\ Pending(d)'
                                           /\ d.call = "reroute"
                                           /\ d.flow = c.flow
        BY DEF PreemptsReady
    <2>1. c # m /\ c \notin R
        BY DEF Places
    <2>2. c.flow \in T
        BY <1>7, <2>1
    <2>3. Evictable(c.flow, m.flow, m.path)'
        BY <2>2 DEF Evictable, Active, FlowLinks
    <2> QED
        BY <1>1, <2>2, <2>3
<1>4. PlacementsReady'
    <2> SUFFICES ASSUME NEW c \in Call, Pending(c)'
                 PROVE  /\ Places(c) => c.path \in PathsFor(c.flow)
                        /\ c.call = "admit" => /\ Minted(c.flow)'
                                               /\ ~InTable(c.flow)'
                                               /\ Unlisted(c.flow)'
                        /\ c.call = "move" => Displaced(c.flow)' /\ ~c.flag
        BY DEF PlacementsReady
    <2>1. CASE c = m
        BY <2>1 DEF InTable, Unlisted, Displaced
    <2>2. CASE c # m
        <3>1. c.call \notin {"admit", "move"}
            BY <1>7, <2>2
        <3> QED
            BY <3>1 DEF Places
    <2> QED
        BY <2>1, <2>2
<1>5. ReroutesReady'
    <2> SUFFICES ASSUME NEW c \in Call, Pending(c)', c.call = "reroute"
                 PROVE  \/ Displaced(c.flow)'
                        \/ \E d \in Call : /\ Pending(d)'
                                           /\ d.call = "preempt"
                                           /\ d.flow = c.flow
        BY DEF ReroutesReady
    <2>1. CASE c \in R
        BY <2>1 DEF Displaced
    <2>2. CASE c \notin R
        <3>1. c # m
            BY DEF Places
        <3>2. c.flow \in T
            BY <1>7, <2>2, <3>1
        <3> QED
            BY <1>1, <3>2
    <2> QED
        BY <2>1, <2>2
<1>6. EvacuationsReady'
    <2> SUFFICES ASSUME NEW c \in Call, Pending(c)', c.call = "evacuate"
                 PROVE  Live(c.flow)'
        BY DEF EvacuationsReady
    <2>1. c \in R
        BY <1>7 DEF Places
    <2> QED
        BY <2>1 DEF Live, Active, Displaced
<1> QED
    BY <1>2, <1>3, <1>4, <1>5, <1>6 DEF AgendaInv

\* Such an agenda makes the room the placement needs.
LEMMA PlanRoom ==
    ASSUME NEW m \in Call, Places(m), NEW V \in SUBSET Flows, NEW R,
           NEW old \in [Flows -> Paths \cup {NoPath}],
           UNCHANGED <<flows, residual, downLinks>>,
           \A c \in R : c.call \in {"reroute", "evacuate"},
           \A c \in Call : Pending(c)' <=> Planned(c, m, V, old, R),
           \A l \in LinksOf(m.path) :
              /\ l \notin downLinks
              /\ ~m.flag => residual[l] + Load({ v \in V : l \in FlowLinks(v) })
                               >= Bandwidth[m.flow]
    PROVE  RoomReady'
<1>1. \A v : /\ Preempt(v).call = "preempt" /\ Preempt(v).flow = v
             /\ Again(v, old[v]).call = "reroute"
    BY DEF Preempt, Again, Reroute, CallOf
<1>2. ASSUME NEW c \in Call, Pending(c)', Places(c)
      PROVE  c = m
    <2>1. Planned(c, m, V, old, R)
        BY <1>2
    <2> QED
        BY <1>1, <1>2, <2>1 DEF Planned, Places
<1>3. ASSUME NEW v \in Flows
      PROVE  (\E c \in Call : Pending(c)' /\ c.call = "preempt" /\ c.flow = v) <=> v \in V
    <2>1. ASSUME v \in V
          PROVE  \E c \in Call : Pending(c)' /\ c.call = "preempt" /\ c.flow = v
        <3>1. Preempt(v) \in Call /\ Planned(Preempt(v), m, V, old, R)
            BY <2>1, CallTypes DEF Planned
        <3> QED
            BY <1>1, <3>1
    <2>2. ASSUME NEW c \in Call, Pending(c)', c.call = "preempt", c.flow = v
          PROVE  v \in V
        <3>1. Planned(c, m, V, old, R)
            BY <2>2
        <3> QED
            BY <1>1, <2>2, <3>1 DEF Planned, Places
    <2> QED
        BY <2>1, <2>2
<1>4. ASSUME NEW l PROVE Leaving(l)' = { v \in V : l \in FlowLinks(v) }
    BY <1>3 DEF Leaving, FlowLinks
<1> SUFFICES ASSUME NEW c \in Call, Pending(c)', Places(c), NEW l \in LinksOf(c.path)
             PROVE  /\ l \notin downLinks
                    /\ ~c.flag => residual[l] + Load(Leaving(l)') >= Bandwidth[c.flow]
    BY DEF RoomReady, Load, Units
<1> QED
    BY <1>2, <1>4

\* What the handler does next when a rerouted flow has a new path.
LEMMA RerouteFoundInv ==
    ASSUME ControlInv, RerouteFound
    PROVE  /\ ControlInv' /\ (CalmInv => CalmInv') /\ RoomReady'
           /\ \A c \in Call : Pending(c) /\ c # Head(agenda) => Pending(c)'
           /\ OldPathsKept
<1>1. /\ agenda # <<>> /\ Head(agenda).call = "reroute"
      /\ UNCHANGED <<stateVars, terms, byCookie, datapaths, clearing, expiring>>
    BY DEF RerouteFound, Calling
<1>2. PICK h, f, R : h = Head(agenda) /\ f = h.flow /\ R = CallsIn(Tail(agenda))
    OBVIOUS
<1>3. /\ h \in Call /\ Pending(h) /\ f \in Flows /\ h.flag \in BOOLEAN
      /\ h.call = "reroute" /\ h.old \in Paths \cup {NoPath}
      /\ \A c \in Call : Pending(c) => Rank(h) <= Rank(c)
      /\ Tail(agenda) \in Seq(Call) /\ Sorted(Tail(agenda))
      /\ R \subseteq Call
      /\ \A c \in Call : c \in R <=> Pending(c) /\ c # h
    BY <1>1, <1>2, HeadFacts, CallFields
<1>4. \A c \in R : /\ c \in Call /\ Pending(c) /\ c # h
                   /\ c.call \in {"reroute", "evacuate"}
    BY <1>3, NothingBefore
<1>5. \A c \in R : c.call = "reroute" => ~c.flag /\ c.flow # f /\ ~h.flag
    <2> SUFFICES ASSUME NEW c \in R, c.call = "reroute"
                 PROVE  ~c.flag /\ c.flow # f /\ ~h.flag
        OBVIOUS
    <2>1. Compatible(h, c) /\ Compatible(c, h)
        BY <1>3, <1>4 DEF ControlInv, AgendaInv, Coherent
    <2> QED
        BY <1>2, <1>3, <2>1 DEF Compatible
<1>6. ASSUME NEW c \in Call, Pending(c), c.call = "reroute"
      PROVE  Displaced(c.flow)
    <2>1. \A e \in Call : Pending(e) => e.call # "preempt"
        BY <1>3, <1>4
    <2> QED
        BY <1>6, <2>1 DEF ControlInv, AgendaInv, ReroutesReady
<1>7. Displaced(f) /\ ~Active(f)
    BY <1>2, <1>3, <1>6 DEF Displaced, Active
<1>8. PICK d \in RerouteDecisions(h) : \E order \in ById(d.victims) :
          LET Retry(v) == Reroute(v, flows[v].path, FALSE)
          IN  Proceed(ForEach(order, Preempt) \o << Move(f, d.path, h.old) >>
                      \o ForEach(order, Retry) \o Tail(agenda))
    BY <1>2 DEF RerouteFound
<1>9. /\ d.path \in PathsFor(f)
      /\ d.victims \in SUBSET Flows
      /\ \A v \in d.victims : Evictable(v, f, d.path)
      /\ ~h.flag => d.victims = {}
      /\ \A l \in LinksOf(d.path) :
            /\ l \notin downLinks
            /\ residual[l] + Load({ v \in d.victims : l \in FlowLinks(v) }) >= Bandwidth[f]
    <2>1. PICK policy, tieBreak, allowed, controlled :
             /\ policy = terms[f].policy /\ tieBreak = terms[f].tieBreak
             /\ allowed = h.flag /\ controlled = TRUE
        OBVIOUS
    <2>2. allowed \in BOOLEAN /\ controlled \in BOOLEAN
        BY <1>3, <2>1
    <2>3. d \in Evaluate(f, policy, tieBreak, allowed, controlled)
        <3>1. d \in Evaluate(f, terms[f].policy, terms[f].tieBreak, h.flag, TRUE)
            BY <1>2, <1>8, Zenon DEF RerouteDecisions
        <3> QED
            BY <2>1, <3>1, Zenon
    <2>4. StateTypeOK /\ TableIndexed
        BY DEF ControlInv, LedgerInv
    <2>5. d.path \in PathsFor(f)
        BY <1>3, <2>2, <2>3, <2>4, DecisionFacts
    <2>6. d.victims \in SUBSET Flows
        BY <1>3, <2>2, <2>3, <2>4, DecisionFacts
    <2>7. \A v \in d.victims : Evictable(v, f, d.path)
        BY <1>3, <2>2, <2>3, <2>4, DecisionFacts
    <2>8. ~allowed => d.victims = {}
        BY <1>3, <2>2, <2>3, <2>4, DecisionFacts
    <2>9. ~d.forced
        BY <1>3, <2>1, <2>2, <2>3, <2>4, DecisionFacts
    <2>10. ASSUME NEW l \in LinksOf(d.path) PROVE l \notin downLinks
        BY <1>3, <2>2, <2>3, <2>4, DecisionFits
    <2>11. ASSUME NEW l \in LinksOf(d.path)
           PROVE  residual[l] + Load({ v \in d.victims : l \in FlowLinks(v) }) >= Bandwidth[f]
        BY <1>3, <2>2, <2>3, <2>4, <2>9, DecisionFits
    <2> QED
        BY <2>1, <2>5, <2>6, <2>7, <2>8, <2>10, <2>11
<1>10. PICK order \in ById(d.victims) :
          LET Retry(v) == Reroute(v, flows[v].path, FALSE)
          IN  Proceed(ForEach(order, Preempt) \o << Move(f, d.path, h.old) >>
                      \o ForEach(order, Retry) \o Tail(agenda))
    BY <1>8
<1>11. PICK m, old : m = Move(f, d.path, h.old) /\ old = [g \in Flows |-> flows[g].path]
    OBVIOUS
<1>12. old \in [Flows -> Paths \cup {NoPath}]
    BY <1>11 DEF ControlInv, LedgerInv, StateTypeOK, FlowRecord
<1>13. /\ m \in Call /\ Places(m)
       /\ m.call = "move" /\ m.flow = f /\ m.path = d.path /\ ~m.flag
    BY <1>3, <1>9, <1>11, CallTypes DEF Move, CallOf, PathsFor, Places
<1>14. Proceed(Plan(order, m, old) \o Tail(agenda))
    <2>1. \A i \in DOMAIN order : order[i] \in Flows
        BY <1>9, <1>10, OrderFacts
    <2> QED
        BY <1>10, <1>11, <2>1 DEF ForEach, Again, Plan, Evictions, Retries
<1>15. Plan(order, m, old) \in Seq(Call) /\ Sorted(Plan(order, m, old))
    <2>1. Plan(order, m, old) \in Seq(Call)
        BY <1>9, <1>10, <1>12, <1>13, PlanCalls
    <2>2. Sorted(Plan(order, m, old))
        BY <1>9, <1>10, <1>12, <1>13, PlanCalls
    <2> QED
        BY <2>1, <2>2
<1>16. PICK T : T = d.victims /\ Carries(Plan(order, m, old), m, T, old)
    BY <1>9, <1>10, <1>12, <1>13, PlanCalls
<1>17. PICK q : q = Plan(order, m, old) \o Tail(agenda)
    OBVIOUS
<1>18. /\ q \in Seq(Call) /\ Sorted(q)
       /\ \A c : c \in CallsIn(q) <=> Planned(c, m, T, old, R)
    <2>1. ASSUME NEW v \in T
          PROVE  Rank(Preempt(v)) = 1 /\ Rank(Again(v, old[v])) = 3
                 /\ Preempt(v) \notin R /\ Again(v, old[v]) \notin R
        <3>1. h.flag
            BY <1>3, <1>9, <1>16
        <3>2. \A c \in R : c.call = "evacuate"
            BY <1>4, <1>5, <3>1
        <3> QED
            BY <3>2 DEF Preempt, Again, Reroute, CallOf, Rank, Places
    <2>2. Rank(m) = 2 /\ m \notin R
        BY <1>4, <1>13 DEF Rank, Places
    <2>3. \A c \in R : Rank(c) \in {3, 4}
        BY <1>4 DEF Rank, Places
    <2>4. \A c \in CallsIn(Plan(order, m, old)) : Rank(c) \in 1..3 /\ c \notin R
        BY <1>16, <2>1, <2>2 DEF Carries, Planned
    <2>5. \A c \in CallsIn(Plan(order, m, old)), e \in CallsIn(Tail(agenda)) :
             Rank(c) <= Rank(e) /\ c # e
        BY <1>2, <2>3, <2>4
    <2>6. q \in Seq(Call) /\ Sorted(q)
        BY <1>3, <1>15, <1>17, <2>5, ConcatFacts
    <2>7. CallsIn(q) = CallsIn(Plan(order, m, old)) \cup R
        BY <1>2, <1>3, <1>15, <1>17, <2>5, ConcatFacts
    <2> QED
        BY <1>16, <2>6, <2>7 DEF Carries, Planned
<1>19. /\ agenda' \in Seq(Call)
       /\ Sorted(agenda)'
       /\ \A c \in Call : Pending(c)' <=> c \in CallsIn(q)
       /\ holder' \in {"none", "control", "app"}
       /\ (holder = "none" <=> agenda = <<>>)'
    BY <1>1, <1>14, <1>17, <1>18, ProceedToCalls
<1>20. \A c \in Call : Pending(c)' <=> Planned(c, m, T, old, R)
    BY <1>18, <1>19
<1>21. UNCHANGED <<flows, residual, linkFlows, downLinks, holdDown, forced>>
    BY <1>1 DEF stateVars
<1>22. LedgerInv'
    BY <1>21, QuietLedger DEF ControlInv, LedgerInv, StateTypeOK
<1>23. ControlTypeOK'
    BY <1>1, <1>19 DEF ControlInv, ControlTypeOK, SideTypeOK
<1>24. UnmintedIsNowhere' /\ CookieMapAgrees'
    BY <1>1, <1>21 DEF ControlInv, UnmintedIsNowhere, CookieMapAgrees, Minted, InTable,
                       Unlisted
<1>25. PlanFits(m, T, R)
    <2>1. \A c \in R : c.call = "reroute" =>
              ~c.flag /\ c.flow # f /\ T = {} /\ Displaced(c.flow)
        BY <1>4, <1>5, <1>6, <1>9, <1>16
    <2>2. \A c \in R : c.call = "evacuate" => Live(c.flow)
        BY <1>4 DEF ControlInv, AgendaInv, EvacuationsReady
    <2>3. \A c, e \in R : c # e => Compatible(c, e)
        BY <1>4 DEF ControlInv, AgendaInv, Coherent
    <2> QED
        BY <1>3, <1>4, <1>7, <1>9, <1>13, <1>16, <2>1, <2>2, <2>3 DEF PlanFits
<1>26. AgendaInv'
    BY <1>12, <1>13, <1>19, <1>20, <1>21, <1>25, PlanAgenda
<1>27. \A c \in Call : /\ Pending(c) /\ c # h => Pending(c)'
                       /\ Pending(c)' => c.call # "admit"
    <2>1. \A c \in Call : Pending(c) /\ c # h => Pending(c)'
        BY <1>3, <1>20 DEF Planned
    <2>2. \A c \in Call : Pending(c)' => c.call # "admit"
        BY <1>4, <1>13, <1>20 DEF Planned, Preempt, Again, Reroute, CallOf
    <2> QED
        BY <2>1, <2>2
<1>28. ASSUME CalmInv PROVE CalmInv'
    <2>1. NoOrphans'
        BY <1>21, <1>28 DEF CalmInv, NoOrphans, InTable, Unlisted
    <2>2. RetriesPending'
        <3> SUFFICES ASSUME NEW g \in Flows, flows[g].state = "PREEMPTED"
                     PROVE  \E c \in Call : /\ Pending(c)'
                                            /\ c.call \in {"reroute", "move"}
                                            /\ c.flow = g
            BY <1>21 DEF RetriesPending
        <3>1. PICK c \in Call : /\ Pending(c)
                                /\ c.call \in {"reroute", "move"}
                                /\ c.flow = g
            BY <1>28 DEF CalmInv, RetriesPending
        <3>2. CASE c = h
            BY <1>2, <1>13, <1>20, <3>1, <3>2 DEF Planned
        <3>3. CASE c # h
            BY <1>3, <1>20, <3>1, <3>3 DEF Planned
        <3> QED
            BY <3>2, <3>3
    <2>3. ClearIsComplete'
        <3>1. \A c \in Call : Pending(c)' => c.call # "admit"
            BY <1>27
        <3> QED
            BY <1>1, <1>21, <1>28, <3>1, ClearUntouched
    <2> QED
        BY <2>1, <2>2, <2>3 DEF CalmInv
<1>29. RoomReady'
    <2>1. /\ T \in SUBSET Flows
          /\ \A l \in LinksOf(m.path) :
                /\ l \notin downLinks
                /\ residual[l] + Load({ v \in T : l \in FlowLinks(v) }) >= Bandwidth[m.flow]
        BY <1>9, <1>13, <1>16
    <2>2. \A c \in R : c.call \in {"reroute", "evacuate"}
        BY <1>4
    <2> QED
        BY <1>12, <1>13, <1>20, <1>21, <2>1, <2>2, PlanRoom
<1>30. OldPathsKept
    <2>1. m.old = h.old /\ Waits(m, f) /\ Waits(h, f) /\ Pending(m)'
        BY <1>2, <1>3, <1>11, <1>13, <1>20 DEF Move, CallOf, Waits, Planned
    <2>2. ASSUME NEW w \in Call, Pending(w), Waits(w, w.flow)
          PROVE  \E c \in Call : Pending(c)' /\ Waits(c, w.flow)
        <3>1. CASE w = h
            BY <1>2, <1>13, <2>1, <3>1
        <3>2. CASE w # h
            BY <1>27, <2>2, <3>2
        <3> QED
            BY <3>1, <3>2
    <2>3. ASSUME NEW v \in T, NEW c \in Call, c = Again(v, old[v])
          PROVE  c.flow = v /\ ~Waiting(v) /\ c.old = flows[v].path
        <3>1. Active(v) /\ v \in Flows
            BY <1>9, <1>16 DEF Evictable
        <3>2. \A w \in Call : Pending(w) => ~Waits(w, v)
            <4> SUFFICES ASSUME NEW w \in Call, Pending(w), Waits(w, v) PROVE FALSE
                OBVIOUS
            <4>1. w.call = "reroute"
                BY <1>3, <1>4 DEF Waits
            <4>2. Displaced(w.flow)
                BY <1>6, <4>1
            <4> QED
                BY <3>1, <4>2 DEF Waits, Displaced, Active
        <3> QED
            BY <1>11, <2>3, <3>1, <3>2 DEF Waiting, Again, Reroute, CallOf
    <2>4. ASSUME NEW c \in Call, Pending(c)', Waits(c, c.flow)
          PROVE  \/ \E w \in Call : Pending(w) /\ Waits(w, c.flow) /\ w.old = c.old
                 \/ ~Waiting(c.flow) /\ c.old = flows[c.flow].path
        <3>1. Planned(c, m, T, old, R)
            BY <1>20, <2>4
        <3>2. CASE c = m
            BY <1>3, <1>13, <2>1, <3>2
        <3>3. CASE c \in R
            BY <1>4, <2>4, <3>3
        <3>4. ASSUME NEW v \in T PROVE c # Preempt(v)
            BY <2>4 DEF Waits, Preempt, CallOf
        <3> QED
            BY <2>3, <3>1, <3>2, <3>3, <3>4 DEF Planned
    <2> QED
        BY <2>2, <2>4 DEF OldPathsKept, Waiting, Waits
<1> QED
    <2>1. ControlInv'
        BY <1>22, <1>23, <1>24, <1>26 DEF ControlInv
    <2> QED
        BY <1>2, <1>27, <1>28, <1>29, <1>30, <2>1

-----------------------------------------------------------------------------
\* When the handler has come to a retry, whoever is to be rerouted has lost
\* the old place.
LEMMA RetriesAreDisplaced ==
    ASSUME ControlInv, NEW h \in Call, Pending(h), h.call = "reroute",
           \A c \in Call : Pending(c) => Rank(h) <= Rank(c),
           NEW c \in Call, Pending(c), c.call = "reroute"
    PROVE  Displaced(c.flow) /\ ~Active(c.flow)
<1>1. \A e \in Call : Pending(e) => e.call # "preempt"
    <2> SUFFICES ASSUME NEW e \in Call, Pending(e) PROVE e.call # "preempt"
        OBVIOUS
    <2>1. CASE e = h
        BY <2>1
    <2>2. CASE e # h
        BY <2>2, NothingBefore
    <2> QED
        BY <2>1, <2>2
<1> QED
    BY <1>1 DEF ControlInv, AgendaInv, ReroutesReady, Displaced, Active

\* No path: the flow stays off the links, and changes its label.
LEMMA RerouteFailedInv ==
    ASSUME ControlInv, RerouteFailed
    PROVE  ControlInv' /\ (CalmInv => CalmInv')
<1>1. PICK h, f : h = Head(agenda) /\ f = h.flow
    OBVIOUS
<1>2. /\ agenda # <<>> /\ h.call = "reroute" /\ Proceed(Tail(agenda))
      /\ flows' = [flows EXCEPT ![f].state = "FAILED"]
      /\ UNCHANGED <<residual, linkFlows, downLinks, holdDown, forced,
                     terms, byCookie, datapaths, clearing, expiring>>
    BY <1>1 DEF RerouteFailed, Calling
<1>3. /\ h \in Call /\ Pending(h) /\ f \in Flows
      /\ \A c \in Call : Pending(c) => Rank(h) <= Rank(c)
    BY <1>1, <1>2, HeadFacts, CallFields
<1>4. /\ agenda' \in Seq(Call)
      /\ Sorted(agenda)'
      /\ \A c \in Call : Pending(c)' <=> Pending(c) /\ c # h
      /\ holder' \in {"none", "control", "app"}
      /\ (holder = "none" <=> agenda = <<>>)'
    BY <1>1, <1>2, ProceedToTail
<1>5. Displaced(f) /\ ~Active(f)
    BY <1>1, <1>2, <1>3, RetriesAreDisplaced
<1>6. InTable(f) /\ flows[f].path = NoPath /\ flows \in [Flows -> FlowRecord]
    BY <1>3, <1>5 DEF ControlInv, LedgerInv, StateTypeOK, TableIndexed, Displaced, InTable
<1>7. /\ flows'[f] = [state |-> "FAILED", path |-> NoPath]
      /\ \A g \in Flows \ {f} : flows'[g] = flows[g]
      /\ flows' \in [Flows -> FlowRecord]
    BY <1>2, <1>3, <1>6 DEF FlowRecord, FlowStates
<1>8. LedgerInv'
    <2>1. \A g \in Flows : \/ flows'[g] = flows[g]
                           \/ /\ ~Active(g)'
                              /\ flows'[g].path = NoPath
                              /\ InTable(g)' => InTable(g) /\ ~Active(g)
        BY <1>5, <1>6, <1>7 DEF Active, InTable
    <2> QED
        BY <1>2, <1>7, <2>1, RelabelLedger DEF ControlInv
<1>9. ControlTypeOK'
    BY <1>2, <1>4 DEF ControlInv, ControlTypeOK, SideTypeOK
<1>10. UnmintedIsNowhere'
    BY <1>2, <1>6, <1>7 DEF ControlInv, UnmintedIsNowhere, Minted, InTable, Unlisted
<1>11. CookieMapAgrees'
    BY <1>2, <1>3, <1>5, <1>7 DEF ControlInv, CookieMapAgrees, Displaced
<1>12. \A c \in Call : Pending(c)' => c.call \in {"reroute", "evacuate"} /\ c.flow \in Flows
    BY <1>2, <1>3, <1>4, NothingBefore, CallFields
<1>13. AgendaInv'
    <2>1. Coherent'
        BY <1>4, CoherentLess DEF ControlInv, AgendaInv
    <2>2. PreemptsReady' /\ PlacementsReady'
        BY <1>12 DEF PreemptsReady, PlacementsReady, Places
    <2>3. ReroutesReady'
        <3> SUFFICES ASSUME NEW c \in Call, Pending(c)', c.call = "reroute"
                     PROVE  Displaced(c.flow)'
            BY DEF ReroutesReady
        <3>1. Displaced(c.flow) /\ c.flow \in Flows
            BY <1>2, <1>3, <1>4, <1>12, RetriesAreDisplaced
        <3> QED
            BY <1>7, <3>1 DEF Displaced
    <2>4. EvacuationsReady'
        <3> SUFFICES ASSUME NEW c \in Call, Pending(c)', c.call = "evacuate"
                     PROVE  Live(c.flow)'
            BY DEF EvacuationsReady
        <3>1. Live(c.flow) /\ c.flow \in Flows
            BY <1>4, <1>12 DEF ControlInv, AgendaInv, EvacuationsReady
        <3> QED
            BY <1>7, <3>1 DEF Live, Active, Displaced
    <2> QED
        BY <1>4, <2>1, <2>2, <2>3, <2>4 DEF AgendaInv
<1>14. ASSUME CalmInv PROVE CalmInv'
    <2>1. NoOrphans'
        BY <1>2, <1>6, <1>7, <1>14 DEF CalmInv, NoOrphans, InTable, Unlisted
    <2>2. RetriesPending'
        <3> SUFFICES ASSUME NEW g \in Flows, flows'[g].state = "PREEMPTED"
                     PROVE  \E c \in Call : /\ Pending(c)'
                                            /\ c.call \in {"reroute", "move"}
                                            /\ c.flow = g
            BY DEF RetriesPending
        <3>1. g # f /\ flows[g].state = "PREEMPTED"
            BY <1>7
        <3>2. PICK c \in Call : /\ Pending(c)
                                /\ c.call \in {"reroute", "move"}
                                /\ c.flow = g
            BY <3>1, <1>14 DEF CalmInv, RetriesPending
        <3> QED
            BY <1>1, <1>4, <3>1, <3>2
    <2>3. ClearIsComplete'
        <3>1. flows[f].state # "REMOVED"
            BY <1>5 DEF Displaced
        <3> QED
            BY <1>2, <1>3, <1>4, <1>6, <1>7, <1>14, <3>1, ClearStaysComplete
    <2> QED
        BY <2>1, <2>2, <2>3 DEF CalmInv
<1> QED
    BY <1>8, <1>9, <1>10, <1>11, <1>13, <1>14 DEF ControlInv

\* Without orphans evaluate() raises nothing.
LEMMA NothingRaises ==
    ASSUME StateTypeOK, NoOrphans, NEW f, NEW policy, NEW a, NEW b
    PROVE  ~EvaluateRaises(f, policy, a, b)
<1>1. \A l \in Links : ~Orphaned(l)
    BY DEF StateTypeOK, NoOrphans, Unlisted, Orphaned
<1>2. ScannedLinks(f, policy) \subseteq Links
    BY DEF ScannedLinks
<1> QED
    BY <1>1, <1>2 DEF EvaluateRaises

\* The KeyError loses what was left to do, which only matters to the promise
\* that every flow released is placed again or FAILED.
LEMMA RerouteAbortsInv ==
    ASSUME ControlInv, RerouteAborts
    PROVE  ControlInv' /\ ~CalmInv
<1>1. /\ agenda' = <<>> /\ holder' = "none"
      /\ UNCHANGED <<flows, residual, linkFlows, downLinks, holdDown, forced,
                     terms, byCookie, datapaths, clearing, expiring>>
    BY DEF RerouteAborts, Proceed, stateVars
<1>2. agenda' \in Seq(Call) /\ Sorted(agenda)' /\ \A c \in Call : ~Pending(c)'
    BY <1>1 DEF Sorted, Pending, CallsIn
<1>3. LedgerInv'
    BY <1>1, QuietLedger DEF ControlInv, LedgerInv, StateTypeOK
<1>4. ControlTypeOK'
    BY <1>1, <1>2 DEF ControlInv, ControlTypeOK, SideTypeOK
<1>5. UnmintedIsNowhere' /\ CookieMapAgrees'
    BY <1>1 DEF ControlInv, UnmintedIsNowhere, CookieMapAgrees, Minted, InTable, Unlisted
<1>6. AgendaInv'
    BY <1>2 DEF AgendaInv, Coherent, PreemptsReady, PlacementsReady, ReroutesReady,
                EvacuationsReady
<1>7. ASSUME CalmInv PROVE FALSE
    <2>1. PICK c : c = Head(agenda)
        OBVIOUS
    <2>2. RerouteRaises(c)
        BY <2>1 DEF RerouteAborts
    <2>3. PICK b : b = TRUE
        OBVIOUS
    <2>4. EvaluateRaises(c.flow, terms[c.flow].policy, c.flag, b)
        BY <2>2, <2>3, Zenon DEF RerouteRaises
    <2> QED
        BY <1>7, <2>4, NothingRaises DEF CalmInv, ControlInv, LedgerInv
<1> QED
    BY <1>3, <1>4, <1>5, <1>6, <1>7 DEF ControlInv

-----------------------------------------------------------------------------
\* Steps that leave flows, index and agenda alone.
LEMMA QuietInv ==
    ASSUME ControlInv,
           UNCHANGED <<flows, residual, linkFlows, forced,
                       terms, byCookie, holder, agenda>>,
           downLinks' \subseteq Links, holdDown' \subseteq holdDown,
           datapaths' \subseteq Switches,
           SideTypeOK'
    PROVE  /\ ControlInv'
           /\ NoOrphans => NoOrphans'
           /\ RetriesPending => RetriesPending'
           /\ \A c \in Call : Pending(c)' <=> Pending(c)
<1>1. LedgerInv'
    BY QuietLedger DEF ControlInv, LedgerInv, StateTypeOK
<1>2. ControlTypeOK'
    BY DEF ControlInv, ControlTypeOK, SideTypeOK
<1>3. UnmintedIsNowhere' /\ CookieMapAgrees'
    BY DEF ControlInv, UnmintedIsNowhere, CookieMapAgrees, Minted, InTable, Unlisted
<1>4. \A c \in Call : Pending(c)' <=> Pending(c)
    BY DEF Pending, CallsIn
<1>5. Sorted(agenda)' /\ Coherent'
    BY <1>4 DEF ControlInv, AgendaInv, Sorted, Coherent
<1>6. PreemptsReady'
    <2> SUFFICES ASSUME NEW c \in Call, Pending(c), c.call = "preempt"
                 PROVE  /\ \E d \in Call : /\ Pending(d)
                                           /\ Places(d)
                                           /\ Evictable(c.flow, d.flow, d.path)'
                        /\ \E d \in Call : /\ Pending(d)
                                           /\ d.call = "reroute"
                                           /\ d.flow = c.flow
        BY <1>4 DEF PreemptsReady
    <2>1. \E d \in Call : Pending(d) /\ d.call = "reroute" /\ d.flow = c.flow
        BY DEF ControlInv, AgendaInv, PreemptsReady
    <2>2. PICK d \in Call : /\ Pending(d)
                            /\ Places(d)
                            /\ Evictable(c.flow, d.flow, d.path)
        BY DEF ControlInv, AgendaInv, PreemptsReady
    <2>3. Evictable(c.flow, d.flow, d.path)'
        BY <2>2 DEF Evictable, Active, FlowLinks
    <2> QED
        BY <2>1, <2>2, <2>3
<1>7. PlacementsReady'
    BY <1>4 DEF ControlInv, AgendaInv, PlacementsReady, Minted, InTable, Unlisted, Displaced
<1>8. ReroutesReady' /\ EvacuationsReady'
    BY <1>4 DEF ControlInv, AgendaInv, ReroutesReady, EvacuationsReady, Live, Active,
                Displaced
<1>9. NoOrphans => NoOrphans'
    BY DEF NoOrphans, InTable, Unlisted
<1>10. RetriesPending => RetriesPending'
    BY <1>4 DEF RetriesPending
<1> QED
    BY <1>1, <1>2, <1>3, <1>4, <1>5, <1>6, <1>7, <1>8, <1>9, <1>10 DEF ControlInv, AgendaInv

\* While the lock is free nothing is pending.
LEMMA NothingPending ==
    ASSUME ControlInv, holder = "none"
    PROVE  agenda = <<>> /\ \A c : ~Pending(c)
BY DEF ControlInv, ControlTypeOK, Pending, CallsIn

LEMMA NothingToDo ==
    ASSUME agenda' = <<>>
    PROVE  AgendaInv' /\ \A c : ~Pending(c)'
<1>1. Sorted(agenda)' /\ \A c : ~Pending(c)'
    BY DEF Sorted, Pending, CallsIn
<1> QED
    BY <1>1 DEF AgendaInv, Coherent, PreemptsReady, PlacementsReady, ReroutesReady,
                EvacuationsReady

\* remove_flow, whoever calls it.
LEMMA TearDownInv ==
    ASSUME ControlInv, holder = "none", NEW f \in Flows,
           NEW s \in {"REMOVED", "EXPIRED"}, TearDown(f, s),
           SideTypeOK'
    PROVE  /\ ControlInv'
           /\ NoOrphans => NoOrphans'
           /\ RetriesPending => RetriesPending'
           /\ \A c : ~Pending(c)'
<1>1. /\ Release(f, s)
      /\ byCookie' = byCookie \ {f}
      /\ UNCHANGED <<holdDown, terms, datapaths, holder, agenda>>
    BY DEF TearDown
<1>2. /\ InTable(f)
      /\ flows'[f] = [state |-> s, path |-> NoPath]
      /\ \A g \in Flows \ {f} : flows'[g] = flows[g]
      /\ \A l \in Links : linkFlows'[l] \subseteq linkFlows[l]
    BY <1>1, ReleaseFacts DEF ControlInv, LedgerInv
<1>3. LedgerInv'
    BY <1>1, ReleaseLedger DEF ControlInv, LedgerInv, StateTypeOK, FlowStates
<1>4. ControlTypeOK'
    BY <1>1 DEF ControlInv, ControlTypeOK, SideTypeOK
<1>5. UnmintedIsNowhere'
    BY <1>1, <1>2 DEF ControlInv, UnmintedIsNowhere, Minted, InTable, Unlisted
<1>6. CookieMapAgrees'
    BY <1>1, <1>2 DEF ControlInv, CookieMapAgrees
<1>7. AgendaInv' /\ \A c : ~Pending(c)'
    BY <1>1, NothingPending, NothingToDo
<1>8. NoOrphans => NoOrphans'
    BY <1>2 DEF NoOrphans, InTable, Unlisted
<1>9. RetriesPending => RetriesPending'
    BY <1>2, NothingPending DEF RetriesPending
<1> QED
    BY <1>3, <1>4, <1>5, <1>6, <1>7, <1>8, <1>9 DEF ControlInv

\* A removal by request, an expiry, and a removal by clear_flows.
Removes(f) == RemoveFlow(f) \/ \E c \in Clears : ClearRemove(c, f)

LEMMA RemovalsInv ==
    ASSUME ControlInv, NEW f \in Flows,
           Removes(f) \/ \E x \in expiring : x.flow = f /\ ExpireFlow(x)
    PROVE  ControlInv' /\ (CalmInv => CalmInv')
<1>0. clearing \in [Clears -> ClearRecord]
    BY DEF ControlInv, ControlTypeOK, SideTypeOK
<1>1. PICK s \in {"REMOVED", "EXPIRED"} :
         /\ holder = "none" /\ TearDown(f, s)
         /\ s = "EXPIRED" => Active(f)
         /\ expiring' \subseteq expiring
         /\ \/ clearing' = clearing
            \/ s = "REMOVED" /\ \E c \in Clears :
                  clearing' = [clearing EXCEPT ![c].todo = @ \ {f}]
    BY DEF Removes, RemoveFlow, ExpireFlow, ClearRemove, ClearComesTo
<1>2. \A i \in Clears : /\ clearing'[i].stage = clearing[i].stage
                        /\ clearing[i].todo \subseteq clearing'[i].todo \cup {f}
                        /\ s = "EXPIRED" => clearing'[i].todo = clearing[i].todo
    BY <1>0, <1>1 DEF ClearRecord
<1>3. SideTypeOK'
    <2>1. clearing' \in [Clears -> ClearRecord]
        BY <1>0, <1>1 DEF ClearRecord
    <2> QED
        BY <1>1, <2>1 DEF ControlInv, ControlTypeOK, SideTypeOK
<1>4. /\ ControlInv'
      /\ NoOrphans => NoOrphans'
      /\ RetriesPending => RetriesPending'
      /\ \A c : ~Pending(c)'
    BY <1>1, <1>3, TearDownInv
<1>5. /\ flows'[f].state = s
      /\ InTable(f)
      /\ \A g \in Flows \ {f} : flows'[g] = flows[g]
    <2>1. Release(f, s) /\ StateTypeOK
        BY <1>1 DEF TearDown, ControlInv, LedgerInv
    <2>2. InTable(f)
        BY <2>1, ReleaseFacts
    <2>3. flows'[f] = [state |-> s, path |-> NoPath]
        BY <2>1, ReleaseFacts
    <2>4. \A g \in Flows \ {f} : flows'[g] = flows[g]
        BY <2>1, ReleaseFacts
    <2> QED
        BY <2>2, <2>3, <2>4
<1>6. ASSUME ClearIsComplete PROVE ClearIsComplete'
    <2> SUFFICES ASSUME NEW i \in Clears, clearing'[i].stage = "on", NEW g \in Flows
                 PROVE  OnTheList(g, i)'
        BY <1>4 DEF ClearIsComplete
    <2>1. OnTheList(g, i)
        BY <1>2, <1>6 DEF ClearIsComplete
    <2>2. CASE g # f
        BY <1>2, <1>5, <2>1, <2>2 DEF OnTheList, InTable
    <2>3. CASE g = f /\ s = "REMOVED"
        BY <1>5, <2>3 DEF OnTheList
    <2>4. CASE g = f /\ s = "EXPIRED"
        BY <1>1, <1>2, <1>5, <2>1, <2>4 DEF OnTheList, Active
    <2> QED
        BY <2>2, <2>3, <2>4
<1> QED
    BY <1>4, <1>6 DEF CalmInv

\* Looking a cookie up, ignoring an expiry and passing over an unknown flow
\* change nothing that others see.
Overlooks ==
    \/ \E s \in ExpiringAt, f \in TimedFlows : LookUpCookie(s, f)
    \/ \E x \in expiring : IgnoreExpiry(x)
    \/ \E c \in Clears, f \in Flows : ClearMisses(c, f)

LEMMA OverlooksInv ==
    ASSUME ControlInv, Overlooks
    PROVE  ControlInv' /\ (CalmInv => CalmInv')
<1>0. SideTypeOK
    BY DEF ControlInv, ControlTypeOK
<1>1. UNCHANGED <<stateVars, terms, byCookie, datapaths, holder, agenda>>
    BY DEF Overlooks, LookUpCookie, IgnoreExpiry, ClearMisses
<1>2. expiring' \subseteq [switch : ExpiringAt, flow : TimedFlows]
    BY <1>0 DEF Overlooks, LookUpCookie, IgnoreExpiry, ClearMisses, ClearComesTo, SideTypeOK
<1>3. \/ clearing' = clearing
      \/ \E c \in Clears, f \in Flows :
            ~InTable(f) /\ clearing' = [clearing EXCEPT ![c].todo = @ \ {f}]
    BY DEF Overlooks, LookUpCookie, IgnoreExpiry, ClearMisses, ClearComesTo
<1>4. /\ clearing' \in [Clears -> ClearRecord]
      /\ \A i \in Clears : clearing'[i].stage = clearing[i].stage
      /\ \A i \in Clears, g \in Flows :
            InTable(g) /\ g \in clearing[i].todo => g \in clearing'[i].todo
    BY <1>0, <1>3 DEF SideTypeOK, ClearRecord
<1>5. SideTypeOK'
    BY <1>2, <1>4 DEF SideTypeOK
<1>6. UNCHANGED <<flows, residual, linkFlows, downLinks, holdDown, forced, datapaths>>
    BY <1>1 DEF stateVars
<1>7. /\ ControlInv'
      /\ NoOrphans => NoOrphans'
      /\ RetriesPending => RetriesPending'
      /\ \A c \in Call : Pending(c)' <=> Pending(c)
    BY <1>1, <1>5, <1>6, QuietInv DEF ControlInv, LedgerInv, StateTypeOK, ControlTypeOK
<1>8. ASSUME ClearIsComplete PROVE ClearIsComplete'
    <2>1. ASSUME NEW i \in Clears, clearing'[i].stage = "on", NEW g \in Flows
          PROVE  OnTheList(g, i)'
        BY <1>4, <1>6, <1>8, <2>1 DEF ClearIsComplete, OnTheList, InTable
    <2>2. Clearing' <=> Clearing
        BY <1>4 DEF Clearing
    <2> QED
        BY <1>7, <1>8, <2>1, <2>2 DEF ClearIsComplete
<1> QED
    BY <1>7, <1>8 DEF CalmInv

-----------------------------------------------------------------------------
\* clear_flows reads the table.
LEMMA ClearStartInv ==
    ASSUME ControlInv, NEW c \in Clears, ClearStart(c)
    PROVE  ControlInv' /\ (CalmInv /\ ~ConcurrentClear => CalmInv')
<1>0. SideTypeOK
    BY DEF ControlInv, ControlTypeOK
<1>1. /\ UNCHANGED <<flows, residual, linkFlows, downLinks, holdDown, forced,
                     terms, byCookie, datapaths, holder, agenda, expiring>>
      /\ clearing' = [clearing EXCEPT ![c] = [stage |-> "on",
                                             todo  |-> { f \in Flows : InTable(f) }]]
      /\ holder # "none" => ConcurrentClear
    BY DEF ClearStart, stateVars
<1>2. SideTypeOK'
    BY <1>0, <1>1 DEF SideTypeOK, ClearRecord
<1>3. /\ ControlInv'
      /\ NoOrphans => NoOrphans'
      /\ RetriesPending => RetriesPending'
      /\ \A d \in Call : Pending(d)' <=> Pending(d)
    BY <1>1, <1>2, QuietInv DEF ControlInv, LedgerInv, StateTypeOK, ControlTypeOK
<1>4. ASSUME ~ConcurrentClear, ClearIsComplete PROVE ClearIsComplete'
    <2>1. \A d \in Call : ~Pending(d)'
        BY <1>1, <1>3, <1>4, NothingPending
    <2>2. ASSUME NEW i \in Clears, clearing'[i].stage = "on", NEW f \in Flows
          PROVE  OnTheList(f, i)'
        <3>1. CASE i = c
            BY <1>0, <1>1, <3>1 DEF OnTheList, InTable, SideTypeOK
        <3>2. CASE i # c
            <4>1. clearing'[i] = clearing[i]
                BY <1>0, <1>1, <3>2 DEF SideTypeOK
            <4> QED
                BY <1>1, <1>4, <2>2, <4>1 DEF ClearIsComplete, OnTheList, InTable
        <3> QED
            BY <3>1, <3>2
    <2> QED
        BY <2>1, <2>2 DEF ClearIsComplete
<1> QED
    BY <1>3, <1>4 DEF CalmInv

\* clear_flows empties the table.  The books survive even then; that no link
\* keeps a flow nobody knows takes the list of removals to be complete.
LEMMA ClearFinishInv ==
    ASSUME ControlInv, NEW c \in Clears, ClearFinish(c)
    PROVE  ControlInv' /\ (CalmInv => CalmInv')
<1>0. SideTypeOK
    BY DEF ControlInv, ControlTypeOK
<1>1. /\ flows' = [f \in Flows |-> [state |-> "ABSENT", path |-> NoPath]]
      /\ byCookie' = {}
      /\ clearing[c].stage = "on" /\ clearing[c].todo = {} /\ holder = "none"
      /\ clearing' = [clearing EXCEPT ![c].stage = "done"]
      /\ UNCHANGED <<residual, linkFlows, downLinks, holdDown, forced,
                     terms, datapaths, holder, agenda, expiring>>
    BY DEF ClearFinish
<1>2. \A f \in Flows : /\ flows'[f] = [state |-> "ABSENT", path |-> NoPath]
                       /\ ~Active(f)' /\ ~InTable(f)'
    BY <1>1 DEF Active, InTable
<1>3. flows' \in [Flows -> FlowRecord]
    BY <1>1 DEF FlowRecord, FlowStates
<1>4. LedgerInv'
    BY <1>1, <1>2, <1>3, RelabelLedger DEF ControlInv
<1>5. SideTypeOK'
    BY <1>0, <1>1 DEF SideTypeOK, ClearRecord
<1>6. ControlTypeOK'
    BY <1>1, <1>5 DEF ControlInv, ControlTypeOK, SideTypeOK
<1>7. UnmintedIsNowhere' /\ CookieMapAgrees'
    BY <1>1, <1>2 DEF ControlInv, UnmintedIsNowhere, CookieMapAgrees, Minted, Unlisted
<1>8. AgendaInv' /\ \A d : ~Pending(d)'
    BY <1>1, NothingPending, NothingToDo
<1>9. ASSUME CalmInv PROVE CalmInv'
    <2>1. \A f \in Flows : InTable(f) => flows[f].state = "REMOVED"
        BY <1>1, <1>9 DEF CalmInv, ClearIsComplete, OnTheList
    <2>2. \A f \in Flows : Unlisted(f)
        BY <1>9, <2>1 DEF CalmInv, NoOrphans, ControlInv, LedgerInv, TableIndexed,
                          Unlisted, Active
    <2>3. NoOrphans'
        BY <1>1, <2>2 DEF NoOrphans, Unlisted
    <2>4. ClearIsComplete'
        BY <1>2, <1>8 DEF ClearIsComplete, OnTheList
    <2>5. RetriesPending'
        BY <1>2 DEF RetriesPending
    <2> QED
        BY <2>3, <2>4, <2>5 DEF CalmInv
<1> QED
    BY <1>4, <1>6, <1>7, <1>8, <1>9 DEF ControlInv

-----------------------------------------------------------------------------
\* A handler that takes the lock with calls to make.
LEMMA TakeCalls ==
    ASSUME ControlInv, NEW thread \in {"control", "app"},
           NEW q \in Seq(Call), Sorted(q), TakeLock(thread, q)
    PROVE  /\ agenda' \in Seq(Call)
           /\ Sorted(agenda)'
           /\ \A c \in Call : Pending(c)' <=> c \in CallsIn(q)
           /\ holder' \in {"none", "control", "app"}
           /\ (holder = "none" <=> agenda = <<>>)'
<1>1. agenda' = q
    BY DEF TakeLock
<1>2. Sorted(agenda)' /\ \A c \in Call : Pending(c)' <=> c \in CallsIn(q)
    BY <1>1 DEF Sorted, Pending, CallsIn
<1>3. /\ holder' \in {"none", "control", "app"}
      /\ (holder = "none" <=> agenda = <<>>)'
    BY <1>1 DEF TakeLock
<1> QED
    BY <1>1, <1>2, <1>3

\* The numbers new_flow gives out.
LEMMA NumbersAreNew == NextNumber \in Nat \ {0}
<1>1. Cardinality({ f \in Flows : Minted(f) }) \in Nat
    BY FS_Subset, FS_CardinalityType, WorkloadAssumption
<1> QED
    BY <1>1, ControllerAssumption DEF NextNumber

\* An accepted request: the agenda is the decision.
LEMMA RequestFlowInv ==
    ASSUME ControlInv, NEW f \in Flows, NEW policy \in RequestPolicies,
           NEW tieBreak \in RequestTieBreaks, NEW allowed \in MayPreempt,
           NEW controlled \in MayControl,
           RequestFlow(f, policy, tieBreak, allowed, controlled)
    PROVE  /\ ControlInv' /\ (CalmInv /\ ~ConcurrentClear => CalmInv') /\ RoomReady'
           /\ OldPathsKept
<1>1. /\ ~Minted(f)
      /\ Clearing => ConcurrentClear
      /\ terms' = [terms EXCEPT ![f] = [number |-> NextNumber, policy |-> policy,
                                        tieBreak |-> tieBreak]]
      /\ UNCHANGED <<stateVars, byCookie, datapaths, clearing, expiring>>
    BY DEF RequestFlow
<1>2. /\ allowed \in BOOLEAN /\ controlled \in BOOLEAN
      /\ policy \in {"widest", "shortest"} /\ tieBreak \in {"fewest", "best_fit"}
    BY ControllerAssumption
<1>3. PICK d \in Evaluate(f, policy, tieBreak, allowed, controlled) :
         \E order \in ById(d.victims) :
            LET Retry(v) == Reroute(v, flows[v].path, FALSE)
            IN  TakeLock("control", ForEach(order, Preempt)
                                    \o << Admit(f, d.path, d.forced) >>
                                    \o ForEach(order, Retry))
    BY DEF RequestFlow
<1>4. /\ d.path \in PathsFor(f)
      /\ d.victims \in SUBSET Flows
      /\ \A v \in d.victims : Evictable(v, f, d.path)
      /\ d.forced \in BOOLEAN
      /\ \A l \in LinksOf(d.path) :
            /\ l \notin downLinks
            /\ ~d.forced => residual[l] + Load({ v \in d.victims : l \in FlowLinks(v) })
                               >= Bandwidth[f]
    <2>1. StateTypeOK /\ TableIndexed
        BY DEF ControlInv, LedgerInv
    <2>2. d.path \in PathsFor(f)
        BY <1>2, <2>1, DecisionFacts
    <2>3. d.victims \in SUBSET Flows
        BY <1>2, <2>1, DecisionFacts
    <2>4. \A v \in d.victims : Evictable(v, f, d.path)
        BY <1>2, <2>1, DecisionFacts
    <2>5. d.forced \in BOOLEAN
        BY <1>2, <2>1, DecisionFacts
    <2>6. ASSUME NEW l \in LinksOf(d.path) PROVE l \notin downLinks
        BY <1>2, <2>1, DecisionFits
    <2>7. ASSUME NEW l \in LinksOf(d.path), ~d.forced
          PROVE  residual[l] + Load({ v \in d.victims : l \in FlowLinks(v) }) >= Bandwidth[f]
        BY <1>2, <2>1, <2>7, DecisionFits
    <2> QED
        BY <2>2, <2>3, <2>4, <2>5, <2>6, <2>7
<1>5. PICK order \in ById(d.victims) :
         LET Retry(v) == Reroute(v, flows[v].path, FALSE)
         IN  TakeLock("control", ForEach(order, Preempt)
                                 \o << Admit(f, d.path, d.forced) >>
                                 \o ForEach(order, Retry))
    BY <1>3
<1>6. PICK m, old : /\ m = Admit(f, d.path, d.forced)
                    /\ old = [g \in Flows |-> flows[g].path]
    OBVIOUS
<1>7. old \in [Flows -> Paths \cup {NoPath}]
    BY <1>6 DEF ControlInv, LedgerInv, StateTypeOK, FlowRecord
<1>8. /\ m \in Call /\ Places(m)
      /\ m.call = "admit" /\ m.flow = f /\ m.path = d.path /\ m.flag = d.forced
    BY <1>4, <1>6, CallTypes DEF Admit, CallOf, PathsFor, Places
<1>9. PICK q : q = Plan(order, m, old)
    OBVIOUS
<1>10. TakeLock("control", q)
    <2>1. \A i \in DOMAIN order : order[i] \in Flows
        BY <1>4, <1>5, OrderFacts
    <2> QED
        BY <1>5, <1>6, <1>9, <2>1 DEF ForEach, Again, Plan, Evictions, Retries
<1>11. q \in Seq(Call) /\ Sorted(q)
    <2>1. q \in Seq(Call)
        BY <1>4, <1>5, <1>7, <1>8, <1>9, PlanCalls
    <2>2. Sorted(q)
        BY <1>4, <1>5, <1>7, <1>8, <1>9, PlanCalls
    <2> QED
        BY <2>1, <2>2
<1>12. PICK T : T = d.victims /\ Carries(q, m, T, old)
    BY <1>4, <1>5, <1>7, <1>8, <1>9, PlanCalls
<1>13. /\ agenda' \in Seq(Call)
       /\ Sorted(agenda)'
       /\ \A c \in Call : Pending(c)' <=> c \in CallsIn(q)
       /\ holder' \in {"none", "control", "app"}
       /\ (holder = "none" <=> agenda = <<>>)'
    BY <1>10, <1>11, TakeCalls
<1>14. PICK R : R = {}
    OBVIOUS
<1>15. \A c \in Call : Pending(c)' <=> Planned(c, m, T, old, R)
    BY <1>12, <1>13, <1>14 DEF Carries, Planned
<1>16. UNCHANGED <<flows, residual, linkFlows, downLinks, holdDown, forced>>
    BY <1>1 DEF stateVars
<1>17. /\ terms'[f].number = NextNumber
       /\ \A g \in Flows \ {f} : terms'[g] = terms[g]
       /\ terms' \in [Flows -> [number : Nat, policy : {"widest", "shortest"},
                                tieBreak : {"fewest", "best_fit"}]]
    BY <1>1, <1>2, NumbersAreNew DEF ControlInv, ControlTypeOK
<1>18. \A g \in Flows : Minted(g)' <=> Minted(g) \/ g = f
    BY <1>17, NumbersAreNew DEF Minted
<1>19. LedgerInv'
    BY <1>16, QuietLedger DEF ControlInv, LedgerInv, StateTypeOK
<1>20. ControlTypeOK'
    BY <1>1, <1>13, <1>17 DEF ControlInv, ControlTypeOK, SideTypeOK
<1>21. UnmintedIsNowhere' /\ CookieMapAgrees'
    BY <1>1, <1>16, <1>18 DEF ControlInv, UnmintedIsNowhere, CookieMapAgrees, InTable,
                              Unlisted
<1>22. ~InTable(f) /\ Unlisted(f) /\ ~Active(f)
    BY <1>1 DEF ControlInv, UnmintedIsNowhere, InTable, Active
<1>23. PlanFits(m, T, R)
    BY <1>4, <1>8, <1>12, <1>14, <1>22 DEF PlanFits
<1>24. AgendaInv'
    BY <1>7, <1>8, <1>13, <1>15, <1>16, <1>18, <1>23, PlanAgenda
<1>25. ASSUME CalmInv, ~ConcurrentClear PROVE CalmInv'
    <2>1. NoOrphans'
        BY <1>16, <1>25 DEF CalmInv, NoOrphans, InTable, Unlisted
    <2>2. RetriesPending'
        <3>1. \A c : ~Pending(c)
            BY <1>10, NothingPending DEF TakeLock
        <3> QED
            BY <1>16, <1>25, <3>1 DEF CalmInv, RetriesPending
    <2>3. ClearIsComplete'
        BY <1>1, <1>16, <1>25, ClearUntouched
    <2> QED
        BY <2>1, <2>2, <2>3 DEF CalmInv
<1>26. RoomReady'
    <2>1. /\ T \in SUBSET Flows
          /\ \A l \in LinksOf(m.path) :
                /\ l \notin downLinks
                /\ ~m.flag => residual[l] + Load({ v \in T : l \in FlowLinks(v) })
                                 >= Bandwidth[m.flow]
        BY <1>4, <1>8, <1>12
    <2> QED
        BY <1>7, <1>8, <1>14, <1>15, <1>16, <2>1, PlanRoom
<1>27. OldPathsKept
    <2>1. \A c : ~Pending(c)
        BY <1>10, NothingPending DEF TakeLock
    <2>2. \A g \in Flows : ~Waiting(g)
        BY <2>1 DEF Waiting
    <2>3. ASSUME NEW c \in Call, Pending(c)', Waits(c, c.flow)
          PROVE  ~Waiting(c.flow) /\ c.old = flows[c.flow].path
        <3>1. PICK v \in T : c = Preempt(v) \/ c = Again(v, old[v])
            BY <1>8, <1>14, <1>15, <2>3 DEF Planned, Waits
        <3>2. c # Preempt(v)
            BY <2>3 DEF Waits, Preempt, CallOf
        <3>3. v \in Flows
            BY <1>4, <1>12
        <3> QED
            BY <1>6, <2>1, <3>1, <3>2, <3>3 DEF Waiting, Again, Reroute, CallOf
    <2> QED
        BY <2>2, <2>3 DEF OldPathsKept
<1> QED
    BY <1>19, <1>20, <1>21, <1>24, <1>25, <1>26, <1>27 DEF ControlInv

-----------------------------------------------------------------------------
\* A loop over the flows of a failed link, and one over the FAILED flows.
Evacuations(order) == [i \in DOMAIN order |-> Evacuate(order[i])]

LEMMA EvacuationCalls ==
    ASSUME NEW S \in SUBSET Flows, NEW order \in MostImportantFirst(S)
    PROVE  /\ Evacuations(order) \in Seq(Call)
           /\ Sorted(Evacuations(order))
           /\ \A c \in CallsIn(Evacuations(order)) : \E v \in S : c = Evacuate(v)
           /\ \A v \in S : Evacuate(v) \in CallsIn(Evacuations(order))
<1> DEFINE n == Cardinality(S)
           q == Evacuations(order)
<1>1. /\ n \in Nat /\ order \in [1..n -> S]
      /\ \A i, j \in 1..n : i < j => order[i] # order[j]
    BY OrderFacts
<1>2. \A v \in S : \E i \in 1..n : v = order[i]
    BY OrderCovers
<1> HIDE DEF n
<1>3. ASSUME NEW v \in S
      PROVE  Evacuate(v) \in Call /\ Evacuate(v).flow = v /\ Rank(Evacuate(v)) = 4
    <2>1. Evacuate(v) \in Call
        BY CallTypes
    <2> QED
        BY <2>1 DEF Evacuate, CallOf, Rank, Places
<1>4. q \in [1..n -> Call] /\ \A i \in 1..n : q[i] = Evacuate(order[i])
    BY <1>1, <1>3 DEF Evacuations
<1> HIDE DEF q
<1>5. \A i \in 1..n : Rank(q[i]) = 4
    BY <1>1, <1>3, <1>4
<1>6. \A i, j \in 1..n : i < j => q[i].flow # q[j].flow
    BY <1>1, <1>3, <1>4
<1>7. q \in Seq(Call) /\ Sorted(q)
    BY <1>1, <1>4, <1>5, <1>6, LoopFacts
<1>8. \A c : c \in CallsIn(q) <=> \E i \in 1..n : c = q[i]
    BY <1>1, <1>4, <1>5, <1>6, LoopFacts
<1> QED
    BY <1>1, <1>2, <1>4, <1>7, <1>8 DEF q

LEMMA RetryCalls ==
    ASSUME NEW S \in SUBSET Flows, NEW order \in MostImportantOldestFirst(S),
           NEW old \in [Flows -> Paths \cup {NoPath}]
    PROVE  /\ Retries(order, old) \in Seq(Call)
           /\ Sorted(Retries(order, old))
           /\ \A c \in CallsIn(Retries(order, old)) : \E v \in S : c = Again(v, old[v])
<1> DEFINE n == Cardinality(S)
           q == Retries(order, old)
<1>1. /\ n \in Nat /\ order \in [1..n -> S]
      /\ \A i, j \in 1..n : i < j => order[i] # order[j]
    BY OrderFacts
<1> HIDE DEF n
<1>2. ASSUME NEW v \in S
      PROVE  /\ Again(v, old[v]) \in Call /\ Again(v, old[v]).flow = v
             /\ Rank(Again(v, old[v])) = 3
    <2>1. Again(v, old[v]) \in Call
        BY CallTypes DEF Again
    <2> QED
        BY <2>1 DEF Again, Reroute, CallOf, Rank, Places
<1>3. q \in [1..n -> Call] /\ \A i \in 1..n : q[i] = Again(order[i], old[order[i]])
    BY <1>1, <1>2 DEF Retries
<1> HIDE DEF q
<1>4. \A i \in 1..n : Rank(q[i]) = 3
    BY <1>1, <1>2, <1>3
<1>5. \A i, j \in 1..n : i < j => q[i].flow # q[j].flow
    BY <1>1, <1>2, <1>3
<1>6. q \in Seq(Call) /\ Sorted(q)
    BY <1>1, <1>3, <1>4, <1>5, LoopFacts
<1>7. \A c : c \in CallsIn(q) <=> \E i \in 1..n : c = q[i]
    BY <1>1, <1>3, <1>4, <1>5, LoopFacts
<1> QED
    BY <1>1, <1>3, <1>6, <1>7 DEF q

\* A port handler takes the lock with a list of evacuations of flows that are
\* placed, or with one of retries of flows that are not.
LEMMA PortHandlerInv ==
    ASSUME ControlInv, NEW q \in Seq(Call), Sorted(q), TakeLock("app", q),
           UNCHANGED <<flows, residual, linkFlows, forced, holdDown,
                       terms, byCookie, datapaths, clearing, expiring>>,
           downLinks' \subseteq Links,
           \A c \in CallsIn(q) :
              \/ c.call = "evacuate" /\ Live(c.flow)
              \/ c.call = "reroute" /\ ~c.flag /\ Displaced(c.flow),
           \A c, d \in CallsIn(q) : c # d => c.flow # d.flow
    PROVE  /\ ControlInv' /\ (CalmInv => CalmInv')
           /\ \A c \in Call : Pending(c)' <=> c \in CallsIn(q)
<1>1. /\ agenda' \in Seq(Call)
      /\ Sorted(agenda)'
      /\ \A c \in Call : Pending(c)' <=> c \in CallsIn(q)
      /\ holder' \in {"none", "control", "app"}
      /\ (holder = "none" <=> agenda = <<>>)'
    BY TakeCalls
<1>2. LedgerInv'
    BY QuietLedger DEF ControlInv, LedgerInv, StateTypeOK
<1>3. ControlTypeOK'
    BY <1>1 DEF ControlInv, ControlTypeOK, SideTypeOK
<1>4. UnmintedIsNowhere' /\ CookieMapAgrees'
    BY DEF ControlInv, UnmintedIsNowhere, CookieMapAgrees, Minted, InTable, Unlisted
<1>5. \A c \in Call : Pending(c)' => c.call \in {"evacuate", "reroute"}
    BY <1>1
<1>6. Coherent'
    BY <1>1, <1>5 DEF Coherent, Compatible, Places
<1>7. PreemptsReady' /\ PlacementsReady'
    BY <1>5 DEF PreemptsReady, PlacementsReady, Places
<1>8. ReroutesReady' /\ EvacuationsReady'
    BY <1>1 DEF ReroutesReady, EvacuationsReady, Live, Active, Displaced
<1>9. ASSUME CalmInv PROVE CalmInv'
    <2>1. NoOrphans'
        BY <1>9 DEF CalmInv, NoOrphans, InTable, Unlisted
    <2>2. RetriesPending'
        <3>1. \A c : ~Pending(c)
            BY NothingPending DEF TakeLock
        <3> QED
            BY <1>9, <3>1 DEF CalmInv, RetriesPending
    <2>3. ClearIsComplete'
        BY <1>5, <1>9, ClearUntouched
    <2> QED
        BY <2>1, <2>2, <2>3 DEF CalmInv
<1> QED
    BY <1>1, <1>2, <1>3, <1>4, <1>6, <1>7, <1>8, <1>9 DEF ControlInv, AgendaInv

LEMMA LinkDownInv ==
    ASSUME ControlInv, NEW l \in Links, LinkDown(l)
    PROVE  /\ ControlInv' /\ (CalmInv => CalmInv')
           /\ \A v \in linkFlows[l] : Pending(Evacuate(v))'
           /\ \A c \in Call : Pending(c)' => ~Places(c)
           /\ OldPathsKept
<1>1. /\ ~Orphaned(l)
      /\ downLinks' = downLinks \cup {l}
      /\ UNCHANGED <<flows, residual, linkFlows, forced, holdDown,
                     terms, byCookie, datapaths, clearing, expiring>>
    BY DEF LinkDown, SetLinkDown
<1>2. PICK order \in MostImportantFirst(linkFlows[l]) :
         TakeLock("app", ForEach(order, Evacuate))
    BY DEF LinkDown
<1>3. PICK q : q = Evacuations(order)
    OBVIOUS
<1>4. TakeLock("app", q)
    BY <1>2, <1>3 DEF ForEach, Evacuations
<1>5. linkFlows[l] \in SUBSET Flows /\ downLinks' \subseteq Links
    BY <1>1 DEF ControlInv, LedgerInv, StateTypeOK
<1>6. q \in Seq(Call)
    BY <1>2, <1>3, <1>5, EvacuationCalls
<1>7. Sorted(q)
    BY <1>2, <1>3, <1>5, EvacuationCalls
<1>8. \A c \in CallsIn(q) : \E v \in linkFlows[l] : c = Evacuate(v)
    BY <1>2, <1>3, <1>5, EvacuationCalls
<1>9. ASSUME NEW v \in linkFlows[l]
      PROVE  /\ Evacuate(v).call = "evacuate" /\ Evacuate(v).flow = v
             /\ Live(v)
    BY <1>1, <1>5 DEF Evacuate, CallOf, Orphaned, ControlInv, LedgerInv, TableIndexed, Live
<1>10. \A c \in CallsIn(q) : c.call = "evacuate" /\ Live(c.flow)
    BY <1>8, <1>9
<1>11. \A c, d \in CallsIn(q) : c # d => c.flow # d.flow
    BY <1>8, <1>9
<1>12. ControlInv'
    BY <1>1, <1>4, <1>5, <1>6, <1>7, <1>10, <1>11, PortHandlerInv
<1>13. CalmInv => CalmInv'
    BY <1>1, <1>4, <1>5, <1>6, <1>7, <1>10, <1>11, PortHandlerInv
<1>14. \A c \in Call : Pending(c)' <=> c \in CallsIn(q)
    BY <1>1, <1>4, <1>5, <1>6, <1>7, <1>10, <1>11, PortHandlerInv
<1>15. \A v \in linkFlows[l] : Evacuate(v) \in CallsIn(q)
    BY <1>2, <1>3, <1>5, EvacuationCalls
<1>16. \A v \in linkFlows[l] : Pending(Evacuate(v))'
    BY <1>5, <1>14, <1>15, CallTypes
<1>17. OldPathsKept
    <2>1. \A c : ~Pending(c)
        BY <1>4, NothingPending DEF TakeLock
    <2> QED
        BY <1>10, <1>14, <2>1 DEF OldPathsKept, Waiting, Waits
<1> QED
    BY <1>10, <1>12, <1>13, <1>14, <1>16, <1>17 DEF Places

LEMMA LinkDownAbortsInv ==
    ASSUME ControlInv, NEW l \in Links, LinkDownAborts(l)
    PROVE  ControlInv' /\ (CalmInv => CalmInv')
<1>1. PICK q : q = <<>>
    OBVIOUS
<1>2. /\ downLinks' = downLinks \cup {l}
      /\ TakeLock("app", q)
      /\ UNCHANGED <<flows, residual, linkFlows, forced, holdDown,
                     terms, byCookie, datapaths, clearing, expiring>>
    BY <1>1 DEF LinkDownAborts, SetLinkDown
<1>3. downLinks' \subseteq Links
    BY <1>2 DEF ControlInv, LedgerInv, StateTypeOK
<1>4. q \in Seq(Call) /\ Sorted(q) /\ CallsIn(q) = {}
    BY <1>1, NoCalls
<1> QED
    BY <1>2, <1>3, <1>4, PortHandlerInv

LEMMA LinkUpInv ==
    ASSUME ControlInv, NEW l \in Links, LinkUp(l)
    PROVE  /\ ControlInv' /\ (CalmInv => CalmInv')
           /\ \A c \in Call : Pending(c)' => ~Places(c)
           /\ OldPathsKept
<1>1. PICK S : S = { f \in Flows : flows[f].state = "FAILED" }
    OBVIOUS
<1>2. /\ downLinks' = downLinks \ {l}
      /\ UNCHANGED <<flows, residual, linkFlows, forced, holdDown,
                     terms, byCookie, datapaths, clearing, expiring>>
    BY DEF LinkUp, SetLinkUp
<1>3. PICK order \in MostImportantOldestFirst(S) :
         LET Retry(f) == Reroute(f, NoPath, FALSE)
         IN  TakeLock("app", ForEach(order, Retry))
    BY <1>1 DEF LinkUp
<1>4. PICK old : old = [f \in Flows |-> NoPath]
    OBVIOUS
<1>5. old \in [Flows -> Paths \cup {NoPath}] /\ S \in SUBSET Flows
    BY <1>1, <1>4
<1>6. PICK q : q = Retries(order, old)
    OBVIOUS
<1>7. TakeLock("app", q)
    <2>1. \A i \in DOMAIN order : order[i] \in Flows
        BY <1>3, <1>5, OrderFacts
    <2> QED
        BY <1>3, <1>4, <1>6, <2>1 DEF ForEach, Again, Retries
<1>8. downLinks' \subseteq Links
    BY <1>2 DEF ControlInv, LedgerInv, StateTypeOK
<1>9. q \in Seq(Call)
    BY <1>3, <1>5, <1>6, RetryCalls
<1>10. Sorted(q)
    BY <1>3, <1>5, <1>6, RetryCalls
<1>11. \A c \in CallsIn(q) : \E v \in S : c = Again(v, old[v])
    BY <1>3, <1>5, <1>6, RetryCalls
<1>12. ASSUME NEW v \in S
       PROVE  /\ Again(v, old[v]).call = "reroute" /\ Again(v, old[v]).flow = v
              /\ ~Again(v, old[v]).flag
              /\ Displaced(v)
    BY <1>1 DEF Again, Reroute, CallOf, Displaced
<1>13. \A c \in CallsIn(q) : c.call = "reroute" /\ ~c.flag /\ Displaced(c.flow)
    BY <1>11, <1>12
<1>14. \A c, d \in CallsIn(q) : c # d => c.flow # d.flow
    BY <1>11, <1>12
<1>15. ControlInv' /\ (CalmInv => CalmInv')
    BY <1>2, <1>7, <1>8, <1>9, <1>10, <1>13, <1>14, PortHandlerInv
<1>16. \A c \in Call : Pending(c)' <=> c \in CallsIn(q)
    BY <1>2, <1>7, <1>8, <1>9, <1>10, <1>13, <1>14, PortHandlerInv
<1>17. OldPathsKept
    <2>1. \A c : ~Pending(c)
        BY <1>7, NothingPending DEF TakeLock
    <2>2. ASSUME NEW v \in S PROVE Again(v, old[v]).old = flows[v].path
        <3>1. flows[v].path = NoPath
            BY <1>1 DEF ControlInv, LedgerInv, TableIndexed, InTable, Active
        <3> QED
            BY <1>1, <1>4, <3>1 DEF Again, Reroute, CallOf
    <2>3. \A c \in CallsIn(q) : c.old = flows[c.flow].path
        BY <1>11, <1>12, <2>2
    <2> QED
        BY <1>16, <2>1, <2>3 DEF OldPathsKept, Waiting
<1> QED
    BY <1>13, <1>15, <1>16, <1>17 DEF Places

-----------------------------------------------------------------------------
\* Switches and the clock.
LEMMA QuietStepInv ==
    ASSUME ControlInv,
           \/ \E s \in Switches : SwitchUp(s) \/ SwitchDown(s)
           \/ ClockTick
           \/ UNCHANGED vars
    PROVE  ControlInv' /\ (CalmInv => CalmInv')
<1>1. /\ UNCHANGED <<flows, residual, linkFlows, downLinks, forced,
                     terms, byCookie, holder, agenda, clearing, expiring>>
      /\ holdDown' \subseteq holdDown /\ datapaths' \subseteq Switches
    <2>1. datapaths \subseteq Switches
        BY DEF ControlInv, ControlTypeOK
    <2> QED
        BY <2>1 DEF SwitchUp, SwitchDown, ClockTick, HoldDownEnds, vars, stateVars,
                    controlVars
<1>2. /\ downLinks' \subseteq Links
      /\ SideTypeOK'
    BY <1>1 DEF ControlInv, LedgerInv, StateTypeOK, ControlTypeOK, SideTypeOK
<1>3. /\ ControlInv'
      /\ NoOrphans => NoOrphans'
      /\ RetriesPending => RetriesPending'
      /\ \A c \in Call : Pending(c)' <=> Pending(c)
    BY <1>1, <1>2, QuietInv
<1>4. ClearIsComplete => ClearIsComplete'
    BY <1>1, <1>3 DEF ClearIsComplete, OnTheList, Clearing, InTable
<1> QED
    BY <1>3, <1>4 DEF CalmInv

LEMMA InitInv == Init => ControlInv /\ CalmInv
<1> SUFFICES ASSUME Init PROVE ControlInv /\ CalmInv
    OBVIOUS
<1>1. LedgerInv /\ NoOrphans
    BY InitLedger DEF Init
<1>2. agenda = <<>> /\ holder = "none" /\ agenda \in Seq(Call)
    BY DEF Init
<1>3. ControlTypeOK
    BY <1>2 DEF Init, ControlTypeOK, SideTypeOK, ClearRecord
<1>4. \A f \in Flows : flows[f].state = "ABSENT"
    BY DEF Init, StateInit
<1>5. UnmintedIsNowhere /\ CookieMapAgrees
    BY <1>1, <1>4 DEF Init, UnmintedIsNowhere, CookieMapAgrees, NoOrphans, InTable
<1>6. Sorted(agenda) /\ \A c : ~Pending(c)
    BY <1>2 DEF Sorted, Pending, CallsIn
<1>7. AgendaInv
    BY <1>6 DEF AgendaInv, Coherent, PreemptsReady, PlacementsReady, ReroutesReady,
                EvacuationsReady
<1>8. RetriesPending /\ ClearIsComplete
    BY <1>4 DEF Init, RetriesPending, ClearIsComplete, Clearing
<1> QED
    BY <1>1, <1>3, <1>5, <1>7, <1>8 DEF ControlInv, CalmInv

\* What is looked up is a flow.
LEMMA ExpiringFlows == ControlInv => \A x \in expiring : x.flow \in Flows
BY ControllerAssumption DEF ControlInv, ControlTypeOK, SideTypeOK

\* The steps nobody holding the lock takes, by what they do.
LEMMA EnvironmentKinds ==
    ASSUME Environment
    PROVE  \/ \E f \in Flows : Removes(f)
           \/ \E x \in expiring : ExpireFlow(x)
           \/ Overlooks
           \/ \E c \in Clears : ClearStart(c)
           \/ \E c \in Clears : ClearFinish(c)
           \/ \E l \in Links : LinkDown(l) \/ LinkDownAborts(l) \/ LinkUp(l)
           \/ \E s \in Switches : SwitchUp(s) \/ SwitchDown(s)
           \/ ClockTick
BY DEF Environment, Removes, Overlooks

\* Every step keeps the invariant, and where no request is made while flows
\* are cleared, its second part too.
LEMMA NextInv ==
    ASSUME ControlInv, [Next]_vars
    PROVE  ControlInv' /\ (CalmInv /\ ~ConcurrentClear => CalmInv')
<1>1. CASE PreemptStep
    BY <1>1, PreemptStepInv
<1>2. CASE AdmitStep
    BY <1>2, AdmitStepInv
<1>3. CASE MoveStep
    BY <1>3, MoveStepInv
<1>4. CASE EvacuateStep
    BY <1>4, EvacuateStepInv
<1>5. CASE RerouteFound
    BY <1>5, RerouteFoundInv
<1>6. CASE RerouteFailed
    BY <1>6, RerouteFailedInv
<1>7. CASE RerouteAborts
    BY <1>7, RerouteAbortsInv
<1>8. CASE Requests
    <2>1. PICK f \in Flows, policy \in RequestPolicies, tieBreak \in RequestTieBreaks,
               allowed \in MayPreempt, controlled \in MayControl :
             RequestFlow(f, policy, tieBreak, allowed, controlled)
        BY <1>8 DEF Requests
    <2> QED
        BY <2>1, RequestFlowInv
<1>9. CASE \/ \E f \in Flows : Removes(f)
           \/ \E x \in expiring : ExpireFlow(x)
    BY <1>9, ExpiringFlows, RemovalsInv
<1>14. CASE Overlooks
    BY <1>14, OverlooksInv
<1>10. CASE \E c \in Clears : ClearStart(c)
    BY <1>10, ClearStartInv
<1>11. CASE \E c \in Clears : ClearFinish(c)
    BY <1>11, ClearFinishInv
<1>12. CASE \E l \in Links : LinkDown(l) \/ LinkDownAborts(l) \/ LinkUp(l)
    BY <1>12, LinkDownInv, LinkDownAbortsInv, LinkUpInv
<1>13. CASE \/ \E s \in Switches : SwitchUp(s) \/ SwitchDown(s)
            \/ ClockTick
            \/ UNCHANGED vars
    BY <1>13, QuietStepInv
<1> QED
    BY <1>1, <1>2, <1>3, <1>4, <1>5, <1>6, <1>7, <1>8, <1>9, <1>10, <1>11, <1>12, <1>13,
       <1>14, EnvironmentKinds DEF Next, HandlerStep

-----------------------------------------------------------------------------
\* The invariant, whatever is requested, removed, cleared and lost, and when.
THEOREM ControllerInvariant == Spec => []ControlInv
<1>1. Init => ControlInv
    BY InitInv
<1>2. ControlInv /\ [Next]_vars => ControlInv'
    BY NextInv
<1> QED
    BY <1>1, <1>2, PTL DEF Spec

\* The same with the part that takes no request to be made while clear_flows
\* is at work.
THEOREM CalmInvariant == ~ConcurrentClear => (Spec => [](ControlInv /\ CalmInv))
<1> SUFFICES ASSUME ~ConcurrentClear PROVE Spec => [](ControlInv /\ CalmInv)
    OBVIOUS
<1>1. Init => ControlInv /\ CalmInv
    BY InitInv
<1>2. ControlInv /\ CalmInv /\ [Next]_vars => (ControlInv /\ CalmInv)'
    BY NextInv
<1> QED
    BY <1>1, <1>2, PTL DEF Spec

\* Whatever the controller does, clear_flows under way or not, the residual
\* of a link is its capacity less what its flows reserved, and only forced
\* reservations overbook it (state.py reserve, release).
THEOREM ControllerBooks == Spec => [](TypeOK /\ BooksBalance /\ CheckedFlowsFit)
<1>1. ControlInv => TypeOK /\ BooksBalance /\ CheckedFlowsFit
    BY DEF ControlInv, LedgerInv, ControlTypeOK, SideTypeOK, ClearRecord, TypeOK
<1> QED
    BY <1>1, ControllerInvariant, PTL

\* _by_cookie knows exactly the flows that can still expire or be retried
\* (controller.py flow_removed_handler).
THEOREM ControllerCookies == Spec => []CookieMapAgrees
<1>1. ControlInv => CookieMapAgrees
    BY DEF ControlInv
<1> QED
    BY <1>1, ControllerInvariant, PTL

\* Unless requests are made while flows are cleared, the index lists exactly
\* the ACTIVE flows where their paths go (state.py), and no flow is left
\* PREEMPTED when a handler is through (controller.py request_flow,
\* _replace_path, _handle_link_down).
THEOREM ControllerIndex ==
    ~ConcurrentClear => (Spec => [](IndexAgrees /\ NobodyLeftPreempted))
<1> SUFFICES ASSUME ~ConcurrentClear
             PROVE  Spec => [](IndexAgrees /\ NobodyLeftPreempted)
    OBVIOUS
<1>1. ControlInv /\ CalmInv => IndexAgrees
    BY IndexFromLedger DEF ControlInv, CalmInv
<1>2. ControlInv /\ CalmInv => NobodyLeftPreempted
    BY NothingPending DEF CalmInv, RetriesPending, NobodyLeftPreempted, AtRest
<1>3. Spec => [](ControlInv /\ CalmInv)
    BY CalmInvariant
<1> QED
    BY <1>1, <1>2, <1>3, PTL

-----------------------------------------------------------------------------
\* A flow about to be placed has a path of its own and is on no link.
LEMMA PlacementIsFree ==
    ASSUME ControlInv, NEW h \in Call, Pending(h), Places(h)
    PROVE  /\ h.flow \in Flows
           /\ h.path \in PathsFor(h.flow)
           /\ Unlisted(h.flow)
           /\ ~InTable(h.flow) \/ Displaced(h.flow)
<1>1. h.flow \in Flows /\ h.call \in {"admit", "move"}
    BY CallFields DEF Places
<1>2. /\ h.path \in PathsFor(h.flow)
      /\ h.call = "admit" => ~InTable(h.flow) /\ Unlisted(h.flow)
      /\ h.call = "move" => Displaced(h.flow)
    BY DEF ControlInv, AgendaInv, PlacementsReady
<1>3. Displaced(h.flow) => Unlisted(h.flow)
    BY <1>1 DEF ControlInv, LedgerInv, TableIndexed, Displaced, InTable, Active, Unlisted
<1> QED
    BY <1>1, <1>2, <1>3

\* What a step of the controller does to the ledger: it places a flow that is
\* nowhere, releases a flow, breaks or mends a link, or does nothing to it.
StepPlaces == \E c \in Call, force \in BOOLEAN :
    /\ Pending(c)
    /\ Places(c)
    /\ Reserve(c.flow, c.path, force)

StepReleases == \E f \in Flows :
    \/ /\ Release(f, "PREEMPTED")
       /\ Live(f)
    \/ Release(f, "REMOVED")
    \/ Release(f, "EXPIRED") /\ Active(f)

StepTurnsLink == \E l \in Links : SetLinkDown(l) \/ SetLinkUp(l)

StepLeavesIndex ==
    /\ UNCHANGED <<linkFlows, forced, downLinks>>
    /\ \A f \in Flows : \/ flows'[f] = flows[f]
                        \/ Displaced(f) /\ flows'[f].state = "FAILED"
                        \/ flows'[f].state = "ABSENT"

LEMMA HandlerStepKinds ==
    ASSUME ControlInv, HandlerStep
    PROVE  StepPlaces \/ StepReleases \/ StepLeavesIndex
<1> SUFFICES ASSUME agenda # <<>> PROVE StepPlaces \/ StepReleases \/ StepLeavesIndex
    BY DEF HandlerStep, PreemptStep, AdmitStep, MoveStep, EvacuateStep, RerouteFound,
           RerouteFailed, RerouteAborts, Calling
<1>1. PICK h : h = Head(agenda)
    OBVIOUS
<1>2. /\ h \in Call /\ Pending(h) /\ h.flow \in Flows /\ h.flag \in BOOLEAN
      /\ \A c \in Call : Pending(c) => Rank(h) <= Rank(c)
    BY <1>1, HeadFacts, CallFields
<1>3. CASE PreemptStep
    <2>1. h.call = "preempt" /\ Release(h.flow, "PREEMPTED")
        BY <1>1, <1>3 DEF PreemptStep, Calling
    <2>2. Live(h.flow)
        BY <1>2, <2>1 DEF ControlInv, AgendaInv, PreemptsReady, Evictable, Live
    <2> QED
        BY <1>2, <2>1, <2>2 DEF StepReleases
<1>4. CASE EvacuateStep
    <2>1. h.call = "evacuate" /\ Release(h.flow, "PREEMPTED")
        BY <1>1, <1>4 DEF EvacuateStep, Calling
    <2>2. Live(h.flow)
        BY <1>2, <2>1 DEF ControlInv, AgendaInv, EvacuationsReady
    <2> QED
        BY <1>2, <2>1, <2>2 DEF StepReleases
<1>5. CASE AdmitStep
    <2>1. h.call = "admit" /\ Reserve(h.flow, h.path, h.flag)
        BY <1>1, <1>5 DEF AdmitStep, Calling
    <2> QED
        BY <1>2, <2>1 DEF StepPlaces, Places
<1>6. CASE MoveStep
    <2>1. PICK b \in BOOLEAN : h.call = "move" /\ Reserve(h.flow, h.path, b)
        BY <1>1, <1>6 DEF MoveStep, Calling
    <2> QED
        BY <1>2, <2>1 DEF StepPlaces, Places
<1>7. CASE RerouteFailed
    <2>1. /\ h.call = "reroute"
          /\ flows' = [flows EXCEPT ![h.flow].state = "FAILED"]
          /\ UNCHANGED <<linkFlows, forced, downLinks>>
        BY <1>1, <1>7 DEF RerouteFailed, Calling
    <2>2. Displaced(h.flow)
        BY <1>2, <2>1, RetriesAreDisplaced
    <2>3. flows \in [Flows -> FlowRecord]
        BY DEF ControlInv, LedgerInv, StateTypeOK
    <2>4. /\ flows'[h.flow].state = "FAILED"
          /\ \A f \in Flows \ {h.flow} : flows'[f] = flows[f]
        BY <1>2, <2>1, <2>3 DEF FlowRecord
    <2> QED
        BY <2>1, <2>2, <2>4 DEF StepLeavesIndex
<1>8. CASE RerouteFound \/ RerouteAborts
    BY <1>8 DEF RerouteFound, RerouteAborts, stateVars, StepLeavesIndex
<1> QED
    BY <1>3, <1>4, <1>5, <1>6, <1>7, <1>8 DEF HandlerStep

LEMMA StepKinds ==
    ASSUME ControlInv, [Next]_vars
    PROVE  StepPlaces \/ StepReleases \/ StepTurnsLink \/ StepLeavesIndex
<1>1. CASE HandlerStep
    BY <1>1, HandlerStepKinds
<1>2. CASE Requests
    BY <1>2 DEF Requests, RequestFlow, stateVars, StepLeavesIndex
<1>3. CASE \/ \E f \in Flows : Removes(f)
           \/ \E x \in expiring : ExpireFlow(x)
    BY <1>3, ExpiringFlows
       DEF Removes, RemoveFlow, ExpireFlow, ClearRemove, TearDown, StepReleases
<1>4. CASE Overlooks \/ \E c \in Clears : ClearStart(c)
    BY <1>4, Zenon DEF Overlooks, LookUpCookie, IgnoreExpiry, ClearMisses, ClearStart,
         stateVars, StepLeavesIndex
<1>5. CASE \E c \in Clears : ClearFinish(c)
    BY <1>5 DEF ClearFinish, StepLeavesIndex
<1>6. CASE \E l \in Links : LinkDown(l) \/ LinkDownAborts(l) \/ LinkUp(l)
    BY <1>6 DEF LinkDown, LinkDownAborts, LinkUp, StepTurnsLink
<1>7. CASE \E s \in Switches : SwitchUp(s) \/ SwitchDown(s)
    BY <1>7 DEF SwitchUp, SwitchDown, stateVars, StepLeavesIndex
<1>8. CASE ClockTick \/ UNCHANGED vars
    BY <1>8 DEF ClockTick, HoldDownEnds, vars, stateVars, StepLeavesIndex
<1> QED
    BY <1>1, <1>2, <1>3, <1>4, <1>5, <1>6, <1>7, <1>8, EnvironmentKinds DEF Next

\* The controller implements the abstract bookings, clear_flows under way or
\* not: no handler books a flow where the sum of what is booked leaves no
\* room, unless admission control is off (controller.py request_flow,
\* _replace_path; state.py reserve, release).
THEOREM ControllerRefines == Spec => LedgerSpec
<1>1. Init => Ledger!RInit
    BY DEF Init, StateInit, Ledger!RInit
<1>2. ASSUME ControlInv, [Next]_vars
      PROVE  [Ledger!RNext]_(Ledger!rvars)
    <2>1. CASE StepPlaces
        <3>1. PICK c \in Call, force \in BOOLEAN :
                 Pending(c) /\ Places(c) /\ Reserve(c.flow, c.path, force)
            BY <2>1 DEF StepPlaces
        <3>2. c.flow \in Flows /\ c.path \in PathsFor(c.flow) /\ Unlisted(c.flow)
            BY <1>2, <3>1, PlacementIsFree
        <3>3. \/ Ledger!Book(c.flow, LinksOf(c.path))
              \/ Ledger!Overbook(c.flow, LinksOf(c.path))
            BY <1>2, <3>1, <3>2, ReserveBooks DEF ControlInv, LedgerInv
        <3>4. LinksOf(c.path) \in Ledger!Routes(c.flow)
            BY <3>2, LedgerOperators
        <3> QED
            BY <3>2, <3>3, <3>4 DEF Ledger!RNext
    <2>2. CASE StepReleases
        <3>1. PICK f \in Flows, s \in FlowStates : Release(f, s)
            BY <2>2 DEF StepReleases, FlowStates
        <3> QED
            BY <1>2, <3>1, ReleaseCancels DEF ControlInv, LedgerInv, Ledger!RNext
    <2>3. CASE StepTurnsLink
        BY <2>3 DEF StepTurnsLink, SetLinkDown, SetLinkUp, Ledger!RNext, Ledger!Break,
                    Ledger!Repair
    <2>4. CASE StepLeavesIndex
        BY <2>4 DEF StepLeavesIndex, Ledger!rvars
    <2> QED
        BY <1>2, <2>1, <2>2, <2>3, <2>4, StepKinds
<1>3. ControlInv /\ [Next]_vars => [Ledger!RNext]_(Ledger!rvars)
    BY <1>2
<1> QED
    BY <1>1, <1>3, ControllerInvariant, PTL DEF Spec, LedgerSpec, Ledger!RSpec

\* A flow that was removed or expired stays so: neither a retry nor a reroute
\* that is pending brings it back (controller.py _handle_link_up,
\* _replace_path).
THEOREM EndedFlowsStayEnded == Spec => TerminalIsFinal
<1>1. ASSUME ControlInv, [Next]_vars, NEW f \in Flows,
             flows[f].state \in {"EXPIRED", "REMOVED"}
      PROVE  flows'[f].state \in {flows[f].state, "REMOVED", "ABSENT"}
    <2>1. StateTypeOK
        BY <1>1 DEF ControlInv, LedgerInv
    <2>2. InTable(f) /\ ~Active(f) /\ ~Displaced(f) /\ ~Live(f)
        BY <1>1 DEF InTable, Active, Displaced, Live
    <2>3. CASE StepPlaces
        <3>1. PICK c \in Call, force \in BOOLEAN :
                 Pending(c) /\ Places(c) /\ Reserve(c.flow, c.path, force)
            BY <2>3 DEF StepPlaces
        <3>2. c.flow \in Flows /\ (~InTable(c.flow) \/ Displaced(c.flow))
            BY <1>1, <3>1, PlacementIsFree
        <3>3. \A g \in Flows \ {c.flow} : flows'[g] = flows[g]
            BY <2>1, <3>1, <3>2, ReserveFacts
        <3> QED
            BY <2>2, <3>2, <3>3
    <2>4. CASE StepReleases
        <3>1. PICK g \in Flows, s \in FlowStates :
                 Release(g, s) /\ (s = "REMOVED" \/ Live(g))
            BY <2>4 DEF StepReleases, Live, FlowStates
        <3>2. flows'[g] = [state |-> s, path |-> NoPath]
            BY <2>1, <3>1, ReleaseFacts
        <3>3. \A e \in Flows \ {g} : flows'[e] = flows[e]
            BY <2>1, <3>1, ReleaseFacts
        <3> QED
            BY <2>2, <3>1, <3>2, <3>3
    <2>5. CASE StepTurnsLink
        BY <2>5 DEF StepTurnsLink, SetLinkDown, SetLinkUp
    <2>6. CASE StepLeavesIndex
        BY <2>2, <2>6 DEF StepLeavesIndex
    <2> QED
        BY <1>1, <2>3, <2>4, <2>5, <2>6, StepKinds
<1>2. ControlInv /\ [Next]_vars
        => [\A f \in Flows :
               flows[f].state \in {"EXPIRED", "REMOVED"} =>
                   flows'[f].state \in {flows[f].state, "REMOVED", "ABSENT"}]_vars
    BY <1>1
<1> QED
    BY <1>2, ControllerInvariant, PTL DEF Spec, TerminalIsFinal

\* Nobody is preempted but an ACTIVE flow outside its hold-down window, for a
\* more important one that the same handler places on a link the victim gives
\* up (state.py victims, admission.py evaluate).
THEOREM PreemptionsAreJustified == Spec => PreemptionIsJustified
<1> DEFINE Justified == LET v == Head(agenda).flow
                        IN  /\ Active(v)
                            /\ v \notin holdDown
                            /\ \E i \in 2..Len(agenda) :
                                  /\ agenda[i].call \in {"admit", "move"}
                                  /\ Priority[agenda[i].flow] > Priority[v]
                                  /\ LinksOf(agenda[i].path) \cap FlowLinks(v) # {}
<1>1. ASSUME ControlInv, Calling("preempt") PROVE Justified
    <2>1. PICK h : h = Head(agenda)
        OBVIOUS
    <2>2. agenda # <<>> /\ h.call = "preempt"
        BY <1>1, <2>1 DEF Calling
    <2>3. h \in Call /\ Pending(h) /\ h.flow \in Flows
        BY <1>1, <2>1, <2>2, HeadFacts, CallFields
    <2>4. PICK d \in Call : Pending(d) /\ Places(d) /\ Evictable(h.flow, d.flow, d.path)
        BY <1>1, <2>2, <2>3 DEF ControlInv, AgendaInv, PreemptsReady
    <2>5. PICK i \in 1..Len(agenda) : d = agenda[i]
        BY <2>4 DEF Pending, CallsIn
    <2>6. agenda \in Seq(Call) /\ Len(agenda) \in Nat /\ agenda[1] = h
        BY <1>1, <2>1, <2>2 DEF ControlInv, ControlTypeOK
    <2>7. i \in 2..Len(agenda)
        BY <2>2, <2>4, <2>5, <2>6 DEF Places
    <2>8. d.flow \in Flows /\ Priority[d.flow] > Priority[h.flow]
        BY <2>3, <2>4, CallFields, WorkloadAssumption DEF Evictable
    <2> QED
        BY <2>1, <2>4, <2>5, <2>7, <2>8 DEF Evictable, Places
<1>2. ControlInv /\ [Next]_vars => [Calling("preempt") => Justified]_vars
    BY <1>1
<1> QED
    BY <1>2, ControllerInvariant, PTL DEF Spec, PreemptionIsJustified

-----------------------------------------------------------------------------
\* Room is made by decisions, and the releases and placements of a decision
\* keep what there is of it.

\* An agenda with nobody to be placed needs no room.
LEMMA NobodyToPlace ==
    ASSUME \A c \in Call : Pending(c)' => ~Places(c)
    PROVE  RoomReady'
BY DEF RoomReady

\* Room does not go where rows, residuals, links and agenda stay.
LEMMA RoomIsKept ==
    ASSUME RoomReady, UNCHANGED <<flows, residual, downLinks, agenda>>
    PROVE  RoomReady'
<1>1. \A c : Pending(c)' <=> Pending(c)
    BY DEF Pending, CallsIn
<1>2. \A l : Leaving(l)' = Leaving(l)
    BY <1>1 DEF Leaving, FlowLinks
<1> QED
    BY <1>1, <1>2 DEF RoomReady, Load, Units

\* The release of a victim turns the room it leaves into free bandwidth.
LEMMA PreemptKeepsRoom ==
    ASSUME ControlInv, RoomReady, PreemptStep
    PROVE  RoomReady'
<1>1. /\ agenda # <<>> /\ Head(agenda).call = "preempt"
      /\ Release(Head(agenda).flow, "PREEMPTED")
      /\ Proceed(Tail(agenda))
    BY DEF PreemptStep, Calling
<1>2. PICK h, u : h = Head(agenda) /\ u = h.flow
    OBVIOUS
<1>3. h \in Call /\ Pending(h) /\ u \in Flows /\ h.call = "preempt"
    BY <1>1, <1>2, HeadFacts, CallFields
<1>4. \A c \in Call : Pending(c)' <=> Pending(c) /\ c # h
    BY <1>1, <1>2, ProceedToTail
<1>5. /\ StateTypeOK /\ TableIndexed /\ BooksBalance
      /\ Release(u, "PREEMPTED") /\ downLinks' = downLinks
    BY <1>1, <1>2 DEF ControlInv, LedgerInv, Release
<1>6. Active(u)
    BY <1>2, <1>3 DEF ControlInv, AgendaInv, PreemptsReady, Evictable
<1>7. \A g \in Flows \ {u} : flows'[g] = flows[g]
    BY <1>3, <1>5, ReleaseFacts
<1>8. BooksBalance'
    BY <1>3, <1>5, ReleaseBalances DEF FlowStates
<1> SUFFICES ASSUME NEW m \in Call, Pending(m)', Places(m), NEW l \in LinksOf(m.path)
             PROVE  /\ l \notin downLinks
                    /\ ~m.flag => residual'[l] + Load(Leaving(l)') >= Bandwidth[m.flow]
    BY <1>5 DEF RoomReady, Load, Units
<1>9. /\ l \notin downLinks
      /\ ~m.flag => residual[l] + Load(Leaving(l)) >= Bandwidth[m.flow]
    BY <1>4 DEF RoomReady
<1>10. l \in Links /\ m.flow \in Flows
    BY <1>4, PlacementIsFree, LinksOfPath DEF PathsFor
<1>11. PICK K : K = Leaving(l)
    OBVIOUS
<1>12. K \in SUBSET Flows /\ (u \in K <=> l \in FlowLinks(u))
    BY <1>2, <1>3, <1>11 DEF Leaving
<1>13. Leaving(l)' = K \ {u}
    <2>1. ASSUME NEW v \in Flows, v # u
          PROVE  v \in Leaving(l)' <=> v \in K
        <3>1. FlowLinks(v)' = FlowLinks(v)
            BY <1>7, <2>1 DEF FlowLinks
        <3>2. \A c \in Call : c.flow = v => (Pending(c)' <=> Pending(c))
            BY <1>2, <1>4, <2>1
        <3> QED
            BY <1>11, <3>1, <3>2 DEF Leaving
    <2>2. u \notin Leaving(l)'
        <3>1. ASSUME NEW c \in Call, Pending(c), c # h, c.call = "preempt"
              PROVE  c.flow # u
            <4>1. Compatible(c, h)
                BY <1>3, <3>1 DEF ControlInv, AgendaInv, Coherent
            <4> QED
                BY <1>2, <1>3, <3>1, <4>1 DEF Compatible
        <3> QED
            BY <1>4, <3>1 DEF Leaving
    <2>3. Leaving(l)' \subseteq Flows
        BY DEF Leaving
    <2> QED
        BY <1>12, <2>1, <2>2, <2>3
<1>14. PICK on : on = linkFlows[l]
    OBVIOUS
<1>15. on \in SUBSET Flows /\ (u \in on <=> l \in FlowLinks(u))
    BY <1>3, <1>5, <1>6, <1>10, <1>14 DEF StateTypeOK, TableIndexed, Active, InTable
<1>16. linkFlows'[l] = on \ {u}
    BY <1>3, <1>5, <1>6, <1>10, <1>14, <1>15 DEF Release
<1>17. /\ residual[l] = Capacity[l] - Load(on)
       /\ residual'[l] = Capacity[l] - Load(on \ {u})
    BY <1>5, <1>8, <1>10, <1>14, <1>16 DEF BooksBalance, Load, Units
<1>18. /\ Load(on) \in Nat /\ Load(K) \in Nat /\ Capacity[l] \in Int
       /\ Bandwidth[u] \in Nat /\ Bandwidth[m.flow] \in Nat
    BY <1>3, <1>10, <1>12, <1>15, LoadType, WorkloadAssumption, NetworkAssumption
<1>19. CASE l \in FlowLinks(u)
    <2>1. Load(on \ {u}) = Load(on) - Bandwidth[u]
        BY <1>15, <1>19, LoadRemove
    <2>2. Load(K \ {u}) = Load(K) - Bandwidth[u]
        BY <1>12, <1>19, LoadRemove
    <2> QED
        BY <1>9, <1>11, <1>13, <1>17, <1>18, <2>1, <2>2
<1>20. CASE l \notin FlowLinks(u)
    <2>1. on \ {u} = on /\ K \ {u} = K
        BY <1>12, <1>15, <1>20
    <2> QED
        BY <1>9, <1>11, <1>13, <1>17, <2>1
<1> QED
    BY <1>19, <1>20

LEMMA HandlersKeepRoom ==
    ASSUME ControlInv, RoomReady, HandlerStep
    PROVE  RoomReady'
<1> SUFFICES ASSUME agenda # <<>> PROVE RoomReady'
    BY DEF HandlerStep, PreemptStep, AdmitStep, MoveStep, EvacuateStep, RerouteFound,
           RerouteFailed, RerouteAborts, Calling
<1>1. PICK h : h = Head(agenda)
    OBVIOUS
<1>2. /\ h \in Call /\ Pending(h)
      /\ \A c \in Call : Pending(c) => Rank(h) <= Rank(c)
    BY <1>1, HeadFacts
<1>3. CASE AdmitStep \/ MoveStep
    <2>1. Places(h) /\ Proceed(Tail(agenda))
        BY <1>1, <1>3 DEF AdmitStep, MoveStep, Calling, Places
    <2>2. \A c \in Call : Pending(c)' <=> Pending(c) /\ c # h
        BY <1>1, <2>1, ProceedToTail
    <2>3. \A c \in Call : Pending(c) /\ c # h => ~Places(c)
        BY <1>2, <2>1 DEF ControlInv, AgendaInv, Coherent, Compatible
    <2> QED
        BY <2>2, <2>3, NobodyToPlace
<1>4. CASE RerouteFailed
    <2>1. h.call = "reroute" /\ Proceed(Tail(agenda))
        BY <1>1, <1>4 DEF RerouteFailed, Calling
    <2>2. \A c \in Call : Pending(c)' <=> Pending(c) /\ c # h
        BY <1>1, <2>1, ProceedToTail
    <2>3. \A c \in Call : Pending(c) => ~Places(c)
        BY <1>2, <2>1 DEF Rank, Places
    <2> QED
        BY <2>2, <2>3, NobodyToPlace
<1>5. CASE RerouteAborts
    <2>1. agenda' = <<>>
        BY <1>5 DEF RerouteAborts, Proceed
    <2> QED
        BY <2>1, NothingToDo, NobodyToPlace
<1>6. CASE PreemptStep
    BY <1>6, PreemptKeepsRoom
<1>7. CASE EvacuateStep
    BY <1>7, EvacuateStepInv, NobodyToPlace
<1>8. CASE RerouteFound
    BY <1>8, RerouteFoundInv
<1> QED
    BY <1>3, <1>4, <1>5, <1>6, <1>7, <1>8 DEF HandlerStep

LEMMA StepsKeepRoom ==
    ASSUME ControlInv, RoomReady, [Next]_vars
    PROVE  RoomReady'
<1>1. CASE HandlerStep
    BY <1>1, HandlersKeepRoom
<1>2. CASE Requests
    <2>1. PICK f \in Flows, policy \in RequestPolicies, tieBreak \in RequestTieBreaks,
               allowed \in MayPreempt, controlled \in MayControl :
             RequestFlow(f, policy, tieBreak, allowed, controlled)
        BY <1>2 DEF Requests
    <2> QED
        BY <2>1, RequestFlowInv
<1>3. CASE \/ \E f \in Flows : Removes(f)
           \/ \E x \in expiring : ExpireFlow(x)
           \/ \E c \in Clears : ClearFinish(c)
    <2>1. holder = "none" /\ agenda' = agenda
        BY <1>3 DEF Removes, RemoveFlow, ExpireFlow, ClearRemove, ClearComesTo, TearDown,
                    ClearFinish
    <2>2. \A c : ~Pending(c)'
        BY <2>1, NothingPending, NothingToDo
    <2> QED
        BY <2>2, NobodyToPlace
<1>4. CASE \E l \in Links : LinkDown(l)
    BY <1>4, LinkDownInv, NobodyToPlace
<1>5. CASE \E l \in Links : LinkDownAborts(l)
    BY <1>5, NothingToDo, NobodyToPlace DEF LinkDownAborts, TakeLock
<1>6. CASE \E l \in Links : LinkUp(l)
    BY <1>6, LinkUpInv, NobodyToPlace
<1>7. CASE \/ Overlooks \/ (\E c \in Clears : ClearStart(c)) \/ ClockTick
           \/ UNCHANGED vars
           \/ \E s \in Switches : SwitchUp(s) \/ SwitchDown(s)
    <2>1. UNCHANGED <<flows, residual, downLinks, agenda>>
        BY <1>7 DEF Overlooks, LookUpCookie, IgnoreExpiry, ClearMisses, ClearStart,
                    ClockTick, HoldDownEnds, SwitchUp, SwitchDown, vars,
                    stateVars, controlVars
    <2> QED
        BY <2>1, RoomIsKept
<1> QED
    BY <1>1, <1>2, <1>3, <1>4, <1>5, <1>6, <1>7, EnvironmentKinds DEF Next

\* Whatever runs beside them, the handlers keep the room of a decision.
THEOREM RoomInvariant == Spec => [](ControlInv /\ RoomReady)
<1>1. Init => RoomReady
    BY DEF Init, RoomReady, Pending, CallsIn
<1>2. ControlInv /\ RoomReady /\ [Next]_vars => RoomReady'
    BY StepsKeepRoom
<1> QED
    BY <1>1, <1>2, ControllerInvariant, PTL DEF Spec

\* The first call of an agenda, a placement, has nobody left to wait for.
LEMMA FirstCallHasRoom ==
    ASSUME ControlInv, RoomReady, agenda # <<>>, NEW h, h = Head(agenda), Places(h)
    PROVE  /\ h.flag \/ Fits(h.flow, h.path)
           /\ ~Active(h.flow)
           /\ \A l \in LinksOf(h.path) : l \notin downLinks
<1>1. /\ h \in Call /\ Pending(h)
      /\ \A c \in Call : Pending(c) => Rank(h) <= Rank(c)
    BY HeadFacts
<1>2. \A c \in Call : Pending(c) => c.call # "preempt"
    BY <1>1 DEF Rank, Places
<1>3. \A l : Leaving(l) = {}
    BY <1>2 DEF Leaving
<1>4. LinksOf(h.path) \subseteq Links /\ StateTypeOK
    BY <1>1, PlacementIsFree, LinksOfPath DEF PathsFor, ControlInv, LedgerInv
<1>5. ASSUME NEW l \in LinksOf(h.path)
      PROVE  l \notin downLinks /\ (~h.flag => residual[l] >= Bandwidth[h.flow])
    <2>1. l \notin downLinks /\ (~h.flag => residual[l] + 0 >= Bandwidth[h.flow])
        BY <1>1, <1>3, LoadEmpty DEF RoomReady
    <2> QED
        BY <1>4, <2>1 DEF StateTypeOK
<1>6. ~Active(h.flow)
    BY <1>1, PlacementIsFree DEF Active, InTable, Displaced
<1> QED
    BY <1>5, <1>6 DEF Fits, Available

\* When a handler comes to the reserve() of what evaluate() decided, the
\* links of the path have room, the victims' bandwidth included: reserve()
\* never raises with the victims already gone, not even while clear_flows
\* runs (admission.py evaluate, state.py reserve).
THEOREM ReservesNeverRaise == Spec => []ReserveNeverRaises
<1>1. ControlInv /\ RoomReady => ReserveNeverRaises
    <2> SUFFICES ASSUME ControlInv, RoomReady, agenda # <<>>,
                        Head(agenda).call \in {"admit", "move"}
                 PROVE  /\ Head(agenda).flag \/ Fits(Head(agenda).flow, Head(agenda).path)
                        /\ ~Active(Head(agenda).flow)
        BY DEF ReserveNeverRaises
    <2>1. PICK h : h = Head(agenda) /\ Places(h)
        BY DEF Places
    <2> QED
        BY <2>1, FirstCallHasRoom
<1> QED
    BY <1>1, RoomInvariant, PTL

-----------------------------------------------------------------------------
\* A flow on a link that is down waits for its evacuation.
Evacuating == \A l \in downLinks : \A f \in linkFlows[l] : Pending(Evacuate(f))

\* The handlers keep the flows of a down link on their agenda, and place
\* nobody there.
LEMMA HandlersEvacuate ==
    ASSUME ControlInv, CalmInv, RoomReady, Evacuating, HandlerStep
    PROVE  Evacuating'
<1> SUFFICES ASSUME agenda # <<>> PROVE Evacuating'
    BY DEF HandlerStep, PreemptStep, AdmitStep, MoveStep, EvacuateStep, RerouteFound,
           RerouteFailed, RerouteAborts, Calling
<1>1. PICK h : h = Head(agenda)
    OBVIOUS
<1>2. h \in Call /\ Pending(h) /\ h.flow \in Flows /\ h.flag \in BOOLEAN
    BY <1>1, HeadFacts, CallFields
<1>3. /\ StateTypeOK
      /\ TableIndexed
      /\ downLinks \subseteq Links
      /\ \A l \in downLinks : \A f \in linkFlows[l] : f \in Flows /\ Evacuate(f) \in Call
    <2>1. StateTypeOK /\ TableIndexed
        BY DEF ControlInv, LedgerInv
    <2> QED
        BY <2>1, CallTypes DEF StateTypeOK
<1>4. ASSUME \A c \in Call : Pending(c) /\ c # h => Pending(c)',
             downLinks' = downLinks,
             \A l \in downLinks : \A f \in linkFlows'[l] :
                f \in linkFlows[l] /\ Evacuate(f) # h
      PROVE  Evacuating'
    BY <1>3, <1>4 DEF Evacuating
<1>5. h.call # "evacuate" => \A f : Evacuate(f) # h
    BY DEF Evacuate, CallOf
<1>6. CASE PreemptStep
    <2>1. /\ h.call = "preempt" /\ Release(h.flow, "PREEMPTED")
          /\ Proceed(Tail(agenda))
        BY <1>1, <1>6 DEF PreemptStep, Calling
    <2>2. downLinks' = downLinks /\ \A l \in Links : linkFlows'[l] \subseteq linkFlows[l]
        BY <1>2, <1>3, <2>1, ReleaseFacts DEF Release
    <2>3. \A c \in Call : Pending(c)' <=> Pending(c) /\ c # h
        BY <1>1, <2>1, ProceedToTail
    <2> QED
        BY <1>3, <1>4, <1>5, <2>1, <2>2, <2>3
<1>7. CASE AdmitStep \/ MoveStep
    <2>1. PICK b \in BOOLEAN : /\ h.call \in {"admit", "move"}
                               /\ Reserve(h.flow, h.path, b)
                               /\ Proceed(Tail(agenda))
        BY <1>1, <1>2, <1>7 DEF AdmitStep, MoveStep, Calling
    <2>2. \A l \in LinksOf(h.path) : l \notin downLinks
        BY <1>1, <2>1, FirstCallHasRoom DEF Places
    <2>3. \A l \in downLinks : linkFlows'[l] = linkFlows[l]
        BY <1>3, <2>1, <2>2 DEF Reserve
    <2>4. \A c \in Call : Pending(c)' <=> Pending(c) /\ c # h
        BY <1>1, <2>1, ProceedToTail
    <2>5. downLinks' = downLinks
        BY <2>1 DEF Reserve
    <2> QED
        BY <1>3, <1>4, <1>5, <2>1, <2>3, <2>4, <2>5
<1>8. CASE EvacuateStep
    <2>1. Release(h.flow, "PREEMPTED")
        BY <1>1, <1>8 DEF EvacuateStep
    <2>2. downLinks' = downLinks /\ \A l \in Links : linkFlows'[l] \subseteq linkFlows[l]
        BY <1>2, <1>3, <2>1, ReleaseFacts DEF Release
    <2>3. \A l \in Links : h.flow \notin linkFlows'[l]
        BY <1>2, <1>3, <2>1 DEF StateTypeOK, TableIndexed, Release
    <2>4. \A f : f # h.flow => Evacuate(f) # h
        BY DEF Evacuate, CallOf
    <2>5. \A c \in Call : Pending(c) /\ c # h => Pending(c)'
        BY <1>1, <1>8, EvacuateStepInv
    <2> QED
        BY <1>3, <1>4, <2>2, <2>3, <2>4, <2>5
<1>9. CASE RerouteFound
    <2>1. h.call = "reroute" /\ linkFlows' = linkFlows /\ downLinks' = downLinks
        BY <1>1, <1>9 DEF RerouteFound, Calling, stateVars
    <2>2. \A c \in Call : Pending(c) /\ c # h => Pending(c)'
        BY <1>1, <1>9, RerouteFoundInv
    <2> QED
        BY <1>3, <1>4, <1>5, <2>1, <2>2
<1>10. CASE RerouteFailed
    <2>1. h.call = "reroute" /\ linkFlows' = linkFlows /\ downLinks' = downLinks
          /\ Proceed(Tail(agenda))
        BY <1>1, <1>10 DEF RerouteFailed, Calling
    <2>2. \A c \in Call : Pending(c)' <=> Pending(c) /\ c # h
        BY <1>1, <2>1, ProceedToTail
    <2> QED
        BY <1>3, <1>4, <1>5, <2>1, <2>2
<1>11. CASE RerouteAborts
    BY <1>11, RerouteAbortsInv
<1> QED
    BY <1>6, <1>7, <1>8, <1>9, <1>10, <1>11 DEF HandlerStep

\* So does every other step: what takes the lock finds no flow on a down link.
LEMMA StepsEvacuate ==
    ASSUME ControlInv, CalmInv, RoomReady, Evacuating, [Next]_vars
    PROVE  Evacuating'
<1>1. CASE HandlerStep
    BY <1>1, HandlersEvacuate
<1>2. ASSUME holder = "none"
      PROVE  \A l \in downLinks : linkFlows[l] = {}
    BY <1>2, NothingPending DEF Evacuating
<1>3. /\ StateTypeOK
      /\ \A l \in Links : \A f \in linkFlows[l] : f \in Flows /\ Evacuate(f) \in Call
      /\ downLinks \subseteq Links
    <2>1. StateTypeOK
        BY DEF ControlInv, LedgerInv
    <2> QED
        BY <2>1, CallTypes DEF StateTypeOK
<1>4. CASE Requests
    <2>1. holder = "none" /\ linkFlows' = linkFlows /\ downLinks' = downLinks
        BY <1>4 DEF Requests, RequestFlow, TakeLock, stateVars
    <2> QED
        BY <1>2, <2>1 DEF Evacuating
<1>5. CASE \/ \E f \in Flows : Removes(f)
           \/ \E x \in expiring : ExpireFlow(x)
    <2>1. PICK f \in Flows, s \in FlowStates : holder = "none" /\ Release(f, s)
        BY <1>5, ExpiringFlows
           DEF Removes, RemoveFlow, ExpireFlow, ClearRemove, ClearComesTo, TearDown,
               FlowStates
    <2>2. downLinks' = downLinks /\ \A l \in Links : linkFlows'[l] \subseteq linkFlows[l]
        BY <1>3, <2>1, ReleaseFacts DEF Release
    <2> QED
        BY <1>2, <1>3, <2>1, <2>2 DEF Evacuating
<1>6. CASE UNCHANGED <<linkFlows, downLinks, agenda>>
    <2>1. \A c : Pending(c)' <=> Pending(c)
        BY <1>6 DEF Pending, CallsIn
    <2> QED
        BY <1>6, <2>1 DEF Evacuating
<1>7. CASE \E l \in Links : LinkDown(l)
    <2>1. PICK l \in Links : LinkDown(l)
        BY <1>7
    <2>2. \A v \in linkFlows[l] : Pending(Evacuate(v))'
        BY <2>1, LinkDownInv
    <2>3. /\ holder = "none" /\ linkFlows' = linkFlows
          /\ downLinks' = downLinks \cup {l}
        BY <2>1 DEF LinkDown, SetLinkDown, TakeLock
    <2> QED
        BY <1>2, <2>2, <2>3 DEF Evacuating
<1>8. CASE \E l \in Links : LinkDownAborts(l)
    BY <1>3, <1>8 DEF LinkDownAborts, Orphaned, CalmInv, NoOrphans, Unlisted
<1>9. CASE \E l \in Links : LinkUp(l)
    <2>1. holder = "none" /\ linkFlows' = linkFlows /\ downLinks' \subseteq downLinks
        BY <1>9 DEF LinkUp, SetLinkUp, TakeLock
    <2> QED
        BY <1>2, <2>1 DEF Evacuating
<1>10. CASE \/ Overlooks \/ (\E c \in Clears : ClearStart(c) \/ ClearFinish(c))
            \/ ClockTick \/ UNCHANGED vars
            \/ \E s \in Switches : SwitchUp(s) \/ SwitchDown(s)
    <2>1. UNCHANGED <<linkFlows, downLinks, agenda>>
        BY <1>10 DEF Overlooks, LookUpCookie, IgnoreExpiry, ClearMisses, ClearStart, ClearFinish, ClockTick, HoldDownEnds, SwitchUp,
                     SwitchDown, vars, stateVars, controlVars
    <2> QED
        BY <1>6, <2>1
<1> QED
    BY <1>1, <1>4, <1>5, <1>7, <1>8, <1>9, <1>10, EnvironmentKinds DEF Next

\* Where no request is made while flows are cleared, no flow is on a down
\* link once the handler of the failure is through, and none is put there
\* later, by force neither (controller.py _handle_link_down, admission.py
\* evaluate).
THEOREM DownLinksAreEmpty == ~ConcurrentClear => (Spec => []NoFlowOnDownLink)
<1> SUFFICES ASSUME ~ConcurrentClear PROVE Spec => []NoFlowOnDownLink
    OBVIOUS
<1>1. Init => Evacuating
    BY DEF Init, StateInit, Evacuating
<1>2. ControlInv /\ CalmInv /\ RoomReady /\ Evacuating /\ [Next]_vars => Evacuating'
    BY StepsEvacuate
<1>3. ControlInv /\ Evacuating => NoFlowOnDownLink
    BY NothingPending DEF NoFlowOnDownLink, AtRest, Evacuating
<1>4. Spec => [](ControlInv /\ CalmInv)
    BY CalmInvariant
<1>5. Spec => [](ControlInv /\ RoomReady)
    BY RoomInvariant
<1> QED
    BY <1>1, <1>2, <1>3, <1>4, <1>5, PTL DEF Spec
=============================================================================
