-------------------------- MODULE DataPlane_proofs --------------------------
(***************************************************************************)
(* Seen from the controller, the data plane adds nothing: whatever the     *)
(* switches and connections do, the handlers take the steps of Controller, *)
(* so what is proved there holds in the composition.                       *)
(*                                                                         *)
(* What the switches hold follows from what they were told. The inductive  *)
(* invariant DataInv says, of every connected switch and every flow, that  *)
(* the last message under way about the flow's entries carries those of    *)
(* the path it is known by; that with none under way the entries are right *)
(* already; that the meter is there before the rules that name it; and     *)
(* that nothing needed is missing or about to be deleted. A flow that      *)
(* waits for a new place is known by its old path, a switch is exempt      *)
(* while it is wiped and filled at registration, and an entry that timed   *)
(* out may be gone.                                                        *)
(***************************************************************************)
EXTENDS DataPlane, Controller_proofs, TLAPS

\* What handlers and requests do to the network does not change what they do.
LEMMA HandlersAreController ==
    ASSUME ProgramStep \/ Request \/ LinkEvent
    PROVE  Next
<1>1. CASE ProgramStep
  BY <1>1 DEF ProgramStep, AdmitAndInstall, MoveAndInstall, FailAndDelete,
       SilentStep, Next, HandlerStep
<1>2. CASE Request
  BY <1>2 DEF Request, ClearCall, Next, Environment
<1>3. CASE LinkEvent
  BY <1>3 DEF LinkEvent, Next, Environment
<1>. QED BY <1>1, <1>2, <1>3

\* A notice is one of a flow that can time out, from where it can.
NoticesOK == notices \subseteq [switch : ExpiringAt, flow : TimedFlows]

LEMMA EventsAreController ==
    ASSUME NoticesOK, EventStep
    PROVE  Next \/ UNCHANGED vars
<1>1. ASSUME NEW n \in notices, TakeNotice(n) PROVE Next
  <2>1. n.switch \in ExpiringAt /\ n.flow \in TimedFlows
    BY DEF NoticesOK
  <2>. QED BY <1>1, <2>1 DEF TakeNotice, Next, Environment
<1>2. ASSUME NEW n \in notices, DropNotice(n) PROVE UNCHANGED vars
  BY <1>2, Zenon DEF DropNotice
<1>3. ASSUME NEW x \in expiring, HandleExpiry(x) PROVE Next
  BY <1>3 DEF HandleExpiry, Next, Environment
<1>4. CASE WipeFlows
  <2>. UNCHANGED vars BY <1>4, Zenon DEF WipeFlows
  <2>. QED OBVIOUS
<1>5. CASE WipeMeters
  <2>. UNCHANGED vars BY <1>5, Zenon DEF WipeMeters
  <2>. QED OBVIOUS
<1>6. CASE Refill
  <2>. UNCHANGED vars BY <1>6, Zenon DEF Refill
  <2>. QED OBVIOUS
<1>. QED BY <1>1, <1>2, <1>3, <1>4, <1>5, <1>6 DEF EventStep

LEMMA DataStepIsController ==
    ASSUME NoticesOK, [DataNext]_allVars PROVE [Next]_vars
<1>1. CASE ProgramStep \/ Request \/ LinkEvent
  BY <1>1, HandlersAreController
<1>2. CASE EventStep
  BY <1>2, EventsAreController
<1>3. CASE SwitchStep \/ TimeOuts
  BY <1>3 DEF SwitchStep, Apply, TimeOuts, TimeOut
<1>4. ASSUME NEW f \in Flows, Withdraw(f) PROVE Next
  BY <1>4 DEF Withdraw, Next, Environment
<1>5. ASSUME NEW s \in Switches, Register(s) \/ Disconnect(s) PROVE Next
  BY <1>5 DEF Register, Disconnect, Next, Environment
<1>6. CASE UNCHANGED allVars
  BY <1>6 DEF allVars
<1>. QED BY <1>1, <1>2, <1>3, <1>4, <1>5, <1>6 DEF DataNext

\* Only a time-out adds a notice.
LEMMA NoticesStayOK ==
    ASSUME NoticesOK, [DataNext]_allVars PROVE NoticesOK'
<1>1. CASE TimeOuts
  BY <1>1 DEF TimeOuts, TimeOut, NoticesOK
<1>2. CASE ProgramStep
  BY <1>2 DEF ProgramStep, AdmitAndInstall, MoveAndInstall, FailAndDelete, SilentStep,
              Sending, Quietly, netVars, NoticesOK
<1>3. CASE Request \/ LinkEvent
  BY <1>3 DEF Request, LinkEvent, Quietly, netVars, NoticesOK
<1>4. CASE EventStep
  <2>1. notices' \subseteq notices
    BY <1>4 DEF EventStep, TakeNotice, DropNotice, HandleExpiry, WipeFlows, WipeMeters,
                Refill, Sending, Quietly, netVars
  <2>. QED BY <2>1 DEF NoticesOK
<1>5. CASE SwitchStep
  BY <1>5 DEF SwitchStep, Apply, NoticesOK
<1>6. ASSUME NEW f \in Flows, Withdraw(f) PROVE NoticesOK'
  BY <1>6 DEF Withdraw, Sending, NoticesOK
<1>7. ASSUME NEW s \in Switches, Register(s) \/ Disconnect(s) PROVE NoticesOK'
  BY <1>7 DEF Register, Disconnect, NoticesOK
<1>8. CASE UNCHANGED allVars
  BY <1>8 DEF allVars, netVars, NoticesOK
<1>. QED BY <1>1, <1>2, <1>3, <1>4, <1>5, <1>6, <1>7, <1>8 DEF DataNext

LEMMA NoticesAreOK == DataSpec => []NoticesOK
<1>1. DataInit => NoticesOK
  BY DEF DataInit, NoticesOK
<1>2. NoticesOK /\ [DataNext]_allVars => NoticesOK'
  BY NoticesStayOK
<1>. QED BY <1>1, <1>2, PTL DEF DataSpec

\* Whatever the switches do and the connections lose, the program takes the
\* steps of Controller: what a handler decides it decides from its own
\* records (controller.py flow_removed_handler, switch_features_handler,
\* _install_flow, _delete_flow).
THEOREM DataRefinesController == DataSpec => Spec
<1>1. DataInit => Init
  BY DEF DataInit
<1>2. NoticesOK /\ [DataNext]_allVars => [Next]_vars
  BY DataStepIsController
<1>. QED BY <1>1, <1>2, NoticesAreOK, PTL DEF DataSpec, Spec

\* So the books are right, the index and the cookies agree with the flows, no
\* reservation raises and no flow is left on a down link or PREEMPTED, however
\* late and however incompletely the switches hear of it (controller.py,
\* state.py reserve, release).
THEOREM DataKeepsController ==
    DataSpec => [](/\ BooksBalance /\ IndexAgrees /\ CookieMapAgrees
                   /\ ReserveNeverRaises /\ NoFlowOnDownLink /\ NobodyLeftPreempted)
<1>1. ~ConcurrentClear
  BY DataPlaneAssumption
<1>2. Spec => [](IndexAgrees /\ NobodyLeftPreempted)
  BY <1>1, ControllerIndex
<1>3. Spec => []NoFlowOnDownLink
  BY <1>1, DownLinksAreEmpty
<1>. QED
  BY <1>2, <1>3, DataRefinesController, ControllerBooks, ControllerCookies,
     ReservesNeverRaise, PTL

-----------------------------------------------------------------------------

\* A flow that waits for its new path is still programmed along the old one,
\* which the call that will place it carries.
Awaiting(q, f) == { c \in CallsIn(q) : Waits(c, f) }

\* The path f is known by, with the calls q pending and path in the table.
KnownIn(q, path, f) ==
    IF Awaiting(q, f) = {} THEN path ELSE (CHOOSE c \in Awaiting(q, f) : TRUE).old

\* The path the switches have been told of, or are about to be.
KnownPath(f) == KnownIn(agenda, flows[f].path, f)

\* A known path is one of the flow's, and an ACTIVE flow has the path it is
\* known by, and has one.
RoutesKnown ==
    \A f \in Flows : /\ KnownPath(f) \in PathsFor(f) \cup {NoPath}
                     /\ Active(f) => /\ KnownPath(f) = flows[f].path
                                     /\ flows[f].path \in PathsFor(f)

-----------------------------------------------------------------------------

\* A message that decides which entries f has, and one that says whether it
\* has a meter.
Settles(m, f) == m.op \in {"rules", "delete"} /\ f \in m.flows
Touches(m, f) == m.op \in {"meter", "dropMeter"} /\ f \in m.flows

\* Something under way in q decides which entries f has.
Decided(q, f) == \E i \in 1..Len(q) : Settles(q[i], f)

\* The i-th message of q has the last word on f.
LastWord(q, f, i) ==
    /\ i \in 1..Len(q)
    /\ Settles(q[i], f)
    /\ \A j \in 1..Len(q) : Settles(q[j], f) => j <= i

\* The entries of f, and those the path p of f gives switch s.
EntriesIn(E, f) == { e \in E : e.flow = f }
RightEntries(f, p, s) == IF s \in SwitchesOf(p) THEN EntriesOf(f, p, s) ELSE {}

\* The last rules under way for f are those of the path p.
RulesAreRight(q, f, p, s) ==
    \A i \in 1..Len(q) : LastWord(q, f, i) /\ q[i].op = "rules" =>
        s \in SwitchesOf(p) /\ q[i].rules = EntriesOf(f, p, s)

\* With nothing under way, f has no entries but those of p.
EntriesAreRight(q, E, f, p, s) ==
    ~Decided(q, f) => EntriesIn(E, f) \subseteq RightEntries(f, p, s)

\* The last rules under way for f find its meter in place.
MeterComesFirst(q, M, f) ==
    \A i \in 1..Len(q) : LastWord(q, f, i) /\ q[i].op = "rules" =>
        \E j \in 0..i - 1 :
            /\ IF j = 0 THEN f \in M ELSE q[j].op = "meter" /\ f \in q[j].flows
            /\ \A k \in j + 1..i - 1 : ~(q[k].op = "dropMeter" /\ f \in q[k].flows)

\* Everything f needs is there or under way, and nothing that is under way
\* takes it away.
NothingMissing(q, E, M, f, p, s) ==
    s \in SwitchesOf(p) =>
        /\ \A i \in 1..Len(q) : LastWord(q, f, i) => q[i].op = "rules"
        /\ ~Decided(q, f) => EntriesIn(E, f) = EntriesOf(f, p, s)
        /\ s = Source[f] =>
              /\ ~Decided(q, f) => f \in M
              /\ \A j \in 1..Len(q) : Touches(q[j], f) =>
                    \E i \in j + 1..Len(q) : Settles(q[i], f)

\* A message about rules is about one flow.
RulesOfOne(m) == m.op = "rules" =>
    \E f \in Flows : m.flows = {f} /\ \A e \in m.rules : e.flow = f

-----------------------------------------------------------------------------

\* Where the registration of s stands.
At(s, stages) == registering.switch = s /\ registering.stage \in stages

\* The expiries the controller has not handled, or is about to.
Announced == notices \cup expiring

\* An entry of f may be gone from s, and what that ends is or will be ended.
Expired(f, s) ==
    f \in TimedFlows /\ (s # Source[f] \/ [switch |-> s, flow |-> f] \in Announced)

\* What holds of switch s and flow f, whose path is known to be p.
SwitchInv(s, f) ==
    /\ RulesAreRight(toSwitch[s], f, KnownPath(f), s)
    /\ \/ EntriesAreRight(toSwitch[s], entries[s], f, KnownPath(f), s)
       \/ At(s, {"wipeFlows"})
       \/ At(s, {"fill"}) /\ s = Source[f] /\ KnownPath(f) # NoPath
    /\ \/ MeterComesFirst(toSwitch[s], meters[s], f)
       \/ s # Source[f]
       \/ At(s, {"fill"})
    /\ \/ NothingMissing(toSwitch[s], entries[s], meters[s], f, KnownPath(f), s)
       \/ At(s, {"wipeFlows", "wipeMeters", "fill"})
       \/ Expired(f, s)

\* Only a connected switch has messages under way, and only a connected one is
\* being registered.
ChannelsOK ==
    /\ \A s \in Switches : \A i \in 1..Len(toSwitch[s]) : RulesOfOne(toSwitch[s][i])
    /\ \A s \in Switches \ datapaths : toSwitch[s] = <<>>
    /\ registering # Idle => registering.switch \in datapaths

\* The inductive invariant of the composition.
DataInv ==
    /\ DataTypeOK
    /\ ChannelsOK
    /\ RoutesKnown
    /\ \A s \in datapaths, f \in Flows : SwitchInv(s, f)

-----------------------------------------------------------------------------
\* A flow that waits is known by the path its call carries, any other by the
\* path it has.
LEMMA KnownByCall ==
    ASSUME NEW q, NEW path, NEW f, NEW c \in CallsIn(q), Waits(c, f),
           \A d \in CallsIn(q) : Waits(d, f) => d = c
    PROVE  KnownIn(q, path, f) = c.old
<1>1. Awaiting(q, f) = {c}
    BY DEF Awaiting
<1> QED
    BY <1>1 DEF KnownIn

LEMMA KnownByTable ==
    ASSUME NEW q, NEW path, NEW f, \A d \in CallsIn(q) : ~Waits(d, f)
    PROVE  KnownIn(q, path, f) = path
BY DEF KnownIn, Awaiting

\* What the agenda and the table say of f is what they said.
LEMMA KnownAsBefore ==
    ASSUME NEW q, NEW r, NEW path, NEW f,
           \A c : Waits(c, f) => (c \in CallsIn(q) <=> c \in CallsIn(r))
    PROVE  KnownIn(q, path, f) = KnownIn(r, path, f)
<1>1. Awaiting(q, f) = Awaiting(r, f)
    BY DEF Awaiting
<1> QED
    BY <1>1 DEF KnownIn

\* Nobody waits twice.
LEMMA WaitsOnce ==
    ASSUME ControlInv, NEW c \in Call, NEW d \in Call, Pending(c), Pending(d),
           NEW f, Waits(c, f), Waits(d, f)
    PROVE  c = d
BY DEF ControlInv, AgendaInv, Coherent, Compatible, Places, Waits

\* Who waits is in the table, with a cookie, and does not hold the path of
\* anything but a victim.
LEMMA CallsAreCalls ==
    ASSUME ControlInv
    PROVE  \A c : Pending(c) => c \in Call /\ c.flow \in Flows
<1>1. agenda \in Seq(Call)
    BY DEF ControlInv, ControlTypeOK
<1>2. \A c : Pending(c) => c \in Call
    BY <1>1, ElementOfSeq DEF Pending, CallsIn
<1> QED
    BY <1>2, CallFields

\* Without a place a flow has no path.
LEMMA IdleHasNoPath ==
    ASSUME ControlInv, NEW f \in Flows, ~Active(f)
    PROVE  flows[f].path = NoPath
BY DEF ControlInv, LedgerInv, TableIndexed, AbsentHasNoPath, InTable, Active

-----------------------------------------------------------------------------
\* The steps that change no known path.
RoutesStay == \A f \in Flows : KnownPath(f)' = KnownPath(f)

\* And those that change the one of f, to p.
RouteTurns(f, p) ==
    /\ KnownPath(f)' = p
    /\ \A g \in Flows \ {f} : KnownPath(g)' = KnownPath(g)

\* The agenda's head leaves, the table keeps the paths of the other flows.
LEMMA HeadLeaves ==
    ASSUME ControlInv, agenda # <<>>, NEW h, h = Head(agenda),
           agenda' = Tail(agenda), NEW g, ~Waits(h, g), flows'[g].path = flows[g].path
    PROVE  KnownPath(g)' = KnownPath(g)
<1>1. CallsIn(Tail(agenda)) = CallsIn(agenda) \ {h}
    BY TailFacts DEF ControlInv, ControlTypeOK, AgendaInv
<1>2. KnownIn(Tail(agenda), flows[g].path, g) = KnownIn(agenda, flows[g].path, g)
    BY <1>1, KnownAsBefore
<1> QED
    BY <1>2 DEF KnownPath

\* The one that waited is served.
LEMMA WaitEnds ==
    ASSUME ControlInv, agenda # <<>>, NEW h, h = Head(agenda),
           agenda' = Tail(agenda), NEW f, Waits(h, f)
    PROVE  KnownPath(f) = h.old /\ KnownPath(f)' = flows'[f].path
<1>1. /\ CallsIn(Tail(agenda)) = CallsIn(agenda) \ {h}
      /\ h \in CallsIn(agenda)
    BY TailFacts DEF ControlInv, ControlTypeOK, AgendaInv
<1>2. \A d \in CallsIn(agenda) : Waits(d, f) => d = h
    BY <1>1, CallsAreCalls, WaitsOnce DEF Pending
<1>3. KnownIn(agenda, flows[f].path, f) = h.old
    BY <1>1, <1>2, KnownByCall
<1>4. KnownIn(Tail(agenda), flows'[f].path, f) = flows'[f].path
    BY <1>1, <1>2, KnownByTable
<1> QED
    BY <1>3, <1>4 DEF KnownPath

\* _install_flow of a new flow turns it from no path to its path.
LEMMA AdmitTurns ==
    ASSUME ControlInv, AdmitStep, NEW c, c = Head(agenda)
    PROVE  /\ c \in Call /\ c.flow \in Flows /\ c.path \in PathsFor(c.flow)
           /\ KnownPath(c.flow) = NoPath
           /\ RouteTurns(c.flow, c.path)
           /\ flows'[c.flow].path = c.path
           /\ \A g \in Flows \ {c.flow} : flows'[g] = flows[g]
<1>1. /\ agenda # <<>> /\ c.call = "admit" /\ agenda' = Tail(agenda)
      /\ Reserve(c.flow, c.path, c.flag)
    BY DEF AdmitStep, Calling, Proceed
<1>2. /\ c \in Call /\ Pending(c) /\ c.flow \in Flows
    BY <1>1, HeadFacts, CallFields
<1>3. /\ flows'[c.flow] = [state |-> "ACTIVE", path |-> c.path]
      /\ \A g \in Flows \ {c.flow} : flows'[g] = flows[g]
    BY <1>1, <1>2, ReserveFacts DEF ControlInv, LedgerInv
<1>4. c.path \in PathsFor(c.flow) /\ ~Active(c.flow)
    BY <1>1, <1>2 DEF ControlInv, AgendaInv, PlacementsReady, Places, Active, InTable
<1>5. \A d \in CallsIn(agenda) : ~Waits(d, c.flow)
    <2> SUFFICES ASSUME NEW d \in Call, Pending(d), Waits(d, c.flow) PROVE FALSE
        BY CallsAreCalls DEF Pending
    <2>1. d # c
        BY <1>1 DEF Waits
    <2> QED
        BY <1>1, <1>2, <2>1 DEF ControlInv, AgendaInv, Coherent, Compatible, Places, Waits
<1>6. KnownPath(c.flow) = NoPath
    BY <1>2, <1>4, <1>5, KnownByTable, IdleHasNoPath DEF KnownPath
<1>7. CallsIn(Tail(agenda)) \subseteq CallsIn(agenda)
    BY <1>1, TailFacts DEF ControlInv, ControlTypeOK, AgendaInv
<1>8. KnownPath(c.flow)' = c.path
    <2>1. KnownIn(Tail(agenda), c.path, c.flow) = c.path
        BY <1>5, <1>7, KnownByTable
    <2> QED
        BY <1>1, <1>3, <2>1 DEF KnownPath
<1>9. \A g \in Flows \ {c.flow} : KnownPath(g)' = KnownPath(g)
    BY <1>1, <1>3, HeadLeaves DEF Waits
<1> QED
    BY <1>2, <1>3, <1>4, <1>6, <1>8, <1>9 DEF RouteTurns

\* _replace_path turns a flow from the path it had to the one it is given.
LEMMA MoveTurns ==
    ASSUME ControlInv, MoveStep, NEW c, c = Head(agenda)
    PROVE  /\ c \in Call /\ c.flow \in Flows /\ c.path \in PathsFor(c.flow)
           /\ KnownPath(c.flow) = c.old
           /\ RouteTurns(c.flow, c.path)
           /\ flows'[c.flow].path = c.path
           /\ \A g \in Flows \ {c.flow} : flows'[g] = flows[g]
<1>1. /\ agenda # <<>> /\ c.call = "move" /\ agenda' = Tail(agenda)
      /\ Reserve(c.flow, c.path, FALSE)
    BY DEF MoveStep, Calling, Proceed
<1>2. c \in Call /\ Pending(c) /\ c.flow \in Flows
    BY <1>1, HeadFacts, CallFields
<1>3. /\ flows'[c.flow] = [state |-> "ACTIVE", path |-> c.path]
      /\ \A g \in Flows \ {c.flow} : flows'[g] = flows[g]
    BY <1>1, <1>2, ReserveFacts DEF ControlInv, LedgerInv
<1>4. c.path \in PathsFor(c.flow)
    BY <1>1, <1>2 DEF ControlInv, AgendaInv, PlacementsReady, Places
<1>5. Waits(c, c.flow)
    BY <1>1 DEF Waits
<1>6. KnownPath(c.flow) = c.old /\ KnownPath(c.flow)' = flows'[c.flow].path
    BY <1>1, <1>5, WaitEnds
<1>7. \A g \in Flows \ {c.flow} : KnownPath(g)' = KnownPath(g)
    BY <1>1, <1>3, HeadLeaves DEF Waits
<1> QED
    BY <1>2, <1>3, <1>4, <1>6, <1>7 DEF RouteTurns

\* A flow that finds no other place turns to no path.
LEMMA FailureTurns ==
    ASSUME ControlInv, RerouteFailed, NEW c, c = Head(agenda)
    PROVE  /\ c \in Call /\ c.flow \in Flows
           /\ KnownPath(c.flow) = c.old
           /\ flows[c.flow].path = NoPath /\ flows'[c.flow].path = NoPath
           /\ ~Active(c.flow)'
           /\ RouteTurns(c.flow, NoPath)
           /\ \A g \in Flows \ {c.flow} : flows'[g] = flows[g]
<1>1. /\ agenda # <<>> /\ c.call = "reroute" /\ agenda' = Tail(agenda)
      /\ flows' = [flows EXCEPT ![c.flow].state = "FAILED"]
    BY DEF RerouteFailed, Calling, Proceed
<1>2. /\ c \in Call /\ Pending(c) /\ c.flow \in Flows
      /\ \A d \in Call : Pending(d) => Rank(c) <= Rank(d)
    BY <1>1, HeadFacts, CallFields
<1>3. ~Active(c.flow)
    BY <1>1, <1>2, RetriesAreDisplaced
<1>4. flows[c.flow].path = NoPath /\ flows \in [Flows -> FlowRecord]
    BY <1>2, <1>3, IdleHasNoPath DEF ControlInv, LedgerInv, StateTypeOK
<1>5. /\ flows'[c.flow].path = NoPath /\ flows'[c.flow].state = "FAILED"
      /\ \A g \in Flows \ {c.flow} : flows'[g] = flows[g]
    BY <1>1, <1>2, <1>4 DEF FlowRecord
<1>6. Waits(c, c.flow)
    BY <1>1 DEF Waits
<1>7. KnownPath(c.flow) = c.old /\ KnownPath(c.flow)' = flows'[c.flow].path
    BY <1>1, <1>6, WaitEnds
<1>8. \A g \in Flows \ {c.flow} : KnownPath(g)' = KnownPath(g)
    BY <1>1, <1>5, HeadLeaves DEF Waits
<1> QED
    BY <1>2, <1>4, <1>5, <1>7, <1>8 DEF RouteTurns, Active

\* A removal: nothing is pending, so the table says what is known.
LEMMA KnownAtRest ==
    ASSUME ControlInv, holder = "none", NEW f
    PROVE  KnownPath(f) = flows[f].path
BY NothingPending, KnownByTable DEF KnownPath, Pending

\* So does one that is withdrawn or that expires.
LEMMA RemovalTurns ==
    ASSUME ControlInv, NEW f \in Flows,
           Removes(f) \/ \E x \in expiring : x.flow = f /\ ExpireFlow(x)
    PROVE  /\ KnownPath(f) = flows[f].path
           /\ flows'[f].path = NoPath /\ ~Active(f)'
           /\ RouteTurns(f, NoPath)
           /\ \A g \in Flows \ {f} : flows'[g] = flows[g]
           /\ datapaths' = datapaths
<1>1. PICK s \in {"REMOVED", "EXPIRED"} :
         /\ holder = "none" /\ Release(f, s) /\ agenda' = agenda
         /\ datapaths' = datapaths
    BY DEF Removes, RemoveFlow, ExpireFlow, ClearRemove, ClearComesTo, TearDown
<1>2. /\ flows'[f] = [state |-> s, path |-> NoPath]
      /\ \A g \in Flows \ {f} : flows'[g] = flows[g]
    BY <1>1, ReleaseFacts DEF ControlInv, LedgerInv
<1>3. \A c : ~Pending(c)
    BY <1>1, NothingPending
<1>4. \A g : KnownIn(agenda, flows[g].path, g) = flows[g].path
    BY <1>3, KnownByTable DEF Pending
<1>5. \A g : KnownIn(agenda, flows'[g].path, g) = flows'[g].path
    BY <1>3, KnownByTable DEF Pending
<1> QED
    BY <1>1, <1>2, <1>4, <1>5 DEF RouteTurns, KnownPath, Active

\* What is known of f, seen from the agenda and the table.
LEMMA KnownIs ==
    ASSUME ControlInv, NEW f
    PROVE  /\ \A c \in Call : Pending(c) /\ Waits(c, f) => KnownPath(f) = c.old
           /\ ~Waiting(f) => KnownPath(f) = flows[f].path
<1>1. ASSUME NEW c \in Call, Pending(c), Waits(c, f) PROVE KnownPath(f) = c.old
    <2>1. \A d \in CallsIn(agenda) : Waits(d, f) => d = c
        BY <1>1, CallsAreCalls, WaitsOnce DEF Pending
    <2> QED
        BY <1>1, <2>1, KnownByCall DEF Pending, KnownPath
<1>2. ASSUME ~Waiting(f) PROVE KnownPath(f) = flows[f].path
    <2>1. \A d \in CallsIn(agenda) : ~Waits(d, f)
        BY <1>2, CallsAreCalls DEF Waiting, Pending
    <2> QED
        BY <2>1, KnownByTable DEF KnownPath
<1> QED
    BY <1>1, <1>2

\* The same one step later.
LEMMA KnownIsNext ==
    ASSUME ControlInv', NEW f
    PROVE  /\ \A c \in Call : Pending(c)' /\ Waits(c, f) => KnownPath(f)' = c.old
           /\ ~Waiting(f)' => KnownPath(f)' = flows'[f].path
<1>1. \A c \in CallsIn(agenda') : c \in Call
    BY ElementOfSeq DEF ControlInv, ControlTypeOK, CallsIn
<1>2. ASSUME NEW c \in Call, Pending(c)', Waits(c, f) PROVE KnownPath(f)' = c.old
    <2>1. \A d \in CallsIn(agenda') : Waits(d, f) => d = c
        BY <1>1, <1>2 DEF ControlInv, AgendaInv, Coherent, Compatible, Places, Waits, Pending
    <2> QED
        BY <1>2, <2>1, KnownByCall DEF Pending, KnownPath
<1>3. ASSUME ~Waiting(f)' PROVE KnownPath(f)' = flows'[f].path
    <2>1. \A d \in CallsIn(agenda') : ~Waits(d, f)
        BY <1>1, <1>3 DEF Waiting, Pending
    <2> QED
        BY <2>1, KnownByTable DEF KnownPath
<1> QED
    BY <1>2, <1>3

\* No known path changes where calls carry the old ones on.
LEMMA CallsKeepRoutes ==
    ASSUME ControlInv, ControlInv', OldPathsKept,
           \A f \in Flows : ~Waiting(f)' => flows'[f].path = flows[f].path
    PROVE  RoutesStay
<1> SUFFICES ASSUME NEW f \in Flows PROVE KnownPath(f)' = KnownPath(f)
    BY DEF RoutesStay
<1>1. CASE Waiting(f)'
    <2>1. PICK c \in Call : Pending(c)' /\ Waits(c, f)
        BY <1>1 DEF Waiting
    <2>2. KnownPath(f)' = c.old
        BY <2>1, KnownIsNext
    <2>3. Waits(c, c.flow) /\ c.flow = f
        BY <2>1 DEF Waits
    <2>4. CASE \E d \in Call : Pending(d) /\ Waits(d, f) /\ d.old = c.old
        BY <2>2, <2>4, KnownIs
    <2>5. CASE ~Waiting(f) /\ c.old = flows[f].path
        BY <2>2, <2>5, KnownIs
    <2> QED
        BY <2>1, <2>3, <2>4, <2>5 DEF OldPathsKept
<1>2. CASE ~Waiting(f)'
    <2>1. ~Waiting(f)
        BY <1>2 DEF OldPathsKept
    <2> QED
        BY <1>2, <2>1, KnownIs, KnownIsNext
<1> QED
    BY <1>1, <1>2

\* Nobody gets a place, and who keeps one keeps its path.
NobodyPlaced == \A f \in Flows : Active(f)' => flows'[f] = flows[f]

\* A victim or an evacuated flow goes on the agenda with the path it loses.
LEMMA ReleasesStay ==
    ASSUME ControlInv, CalmInv, PreemptStep \/ EvacuateStep
    PROVE  RoutesStay /\ NobodyPlaced
<1>0. PICK h, v : h = Head(agenda) /\ v = h.flow
    OBVIOUS
<1>1. /\ agenda # <<>> /\ h.call \in {"preempt", "evacuate"}
      /\ Release(v, "PREEMPTED")
    BY <1>0 DEF PreemptStep, EvacuateStep, Calling
<1>2. h \in Call /\ Pending(h) /\ v \in Flows
    BY <1>0, <1>1, HeadFacts, CallFields
<1>3. /\ flows'[v] = [state |-> "PREEMPTED", path |-> NoPath]
      /\ \A g \in Flows \ {v} : flows'[g] = flows[g]
    BY <1>1, <1>2, ReleaseFacts DEF ControlInv, LedgerInv
<1>4. ControlInv' /\ CalmInv'
    BY PreemptStepInv, EvacuateStepInv
<1>5. Waiting(v)'
    BY <1>2, <1>3, <1>4 DEF CalmInv, RetriesPending, Waiting, Waits
<1>6. OldPathsKept
    <2>1. CASE PreemptStep
        <3>1. agenda' = Tail(agenda) /\ h.call = "preempt"
            BY <1>0, <2>1 DEF PreemptStep, Proceed, Calling
        <3>2. CallsIn(Tail(agenda)) = CallsIn(agenda) \ {h}
            BY <1>0, <1>1, TailFacts DEF ControlInv, ControlTypeOK, AgendaInv
        <3>3. \A c \in Call : Waits(c, c.flow) => (Pending(c)' <=> Pending(c))
            BY <3>1, <3>2 DEF Pending, Waits
        <3> QED
            BY <3>3 DEF OldPathsKept, Waiting, Waits
    <2>2. CASE EvacuateStep
        BY <2>2, EvacuateStepInv
    <2> QED
        BY <2>1, <2>2
<1>7. RoutesStay
    BY <1>3, <1>4, <1>5, <1>6, CallsKeepRoutes
<1> QED
    BY <1>3, <1>7 DEF NobodyPlaced, Active

\* Decisions, requests and link events change no known path: they only put
\* calls on the agenda, which carry the path the flow had.
LEMMA DecisionsStay ==
    ASSUME ControlInv, CalmInv,
           RerouteFound \/ Requests \/ \E l \in Links : LinkUp(l) \/ LinkDown(l)
    PROVE  RoutesStay /\ NobodyPlaced
<1>1. OldPathsKept /\ ControlInv' /\ flows' = flows
    <2>1. CASE RerouteFound
        BY <2>1, RerouteFoundInv DEF RerouteFound, stateVars
    <2>2. CASE Requests
        <3>1. PICK f \in Flows, policy \in RequestPolicies, tieBreak \in RequestTieBreaks,
                   allowed \in MayPreempt, controlled \in MayControl :
                 RequestFlow(f, policy, tieBreak, allowed, controlled)
            BY <2>2 DEF Requests
        <3> QED
            BY <3>1, RequestFlowInv DEF RequestFlow, stateVars
    <2>3. ASSUME NEW l \in Links, LinkUp(l)
          PROVE  OldPathsKept /\ ControlInv' /\ flows' = flows
        BY <2>3, LinkUpInv DEF LinkUp, SetLinkUp
    <2>4. ASSUME NEW l \in Links, LinkDown(l)
          PROVE  OldPathsKept /\ ControlInv' /\ flows' = flows
        BY <2>4, LinkDownInv DEF LinkDown, SetLinkDown
    <2> QED
        BY <2>1, <2>2, <2>3, <2>4
<1>2. RoutesStay
    BY <1>1, CallsKeepRoutes
<1> QED
    BY <1>1, <1>2 DEF NobodyPlaced

\* Nor does the end of clear_flows.
LEMMA ClearFinishStays ==
    ASSUME ControlInv, CalmInv, NEW c \in Clears, ClearFinish(c)
    PROVE  RoutesStay /\ NobodyPlaced
<1>1. /\ holder = "none" /\ agenda' = agenda
      /\ clearing[c].stage = "on" /\ clearing[c].todo = {}
      /\ flows' = [f \in Flows |-> [state |-> "ABSENT", path |-> NoPath]]
    BY DEF ClearFinish
<1>2. \A f \in Flows : ~Active(f)
    BY <1>1 DEF CalmInv, ClearIsComplete, OnTheList, Active, InTable
<1>3. \A f \in Flows : flows[f].path = NoPath /\ flows'[f].path = NoPath
    BY <1>1, <1>2, IdleHasNoPath
<1>4. RoutesStay
    BY <1>1, <1>3 DEF RoutesStay, KnownPath
<1> QED
    BY <1>1, <1>4 DEF NobodyPlaced, Active

\* Nor does a step that leaves agenda and table alone.
LEMMA OthersStay ==
    ASSUME UNCHANGED <<agenda, flows>>
    PROVE  RoutesStay /\ NobodyPlaced
BY DEF RoutesStay, NobodyPlaced, KnownPath

\* RoutesKnown is kept where known paths stay, and where one turns to a path
\* of the flow.
LEMMA KnownStaysKnown ==
    ASSUME RoutesKnown, RoutesStay, NobodyPlaced
    PROVE  RoutesKnown'
BY DEF RoutesKnown, RoutesStay, NobodyPlaced, Active

LEMMA KnownTurnsKnown ==
    ASSUME RoutesKnown, NEW f \in Flows, NEW p \in PathsFor(f) \cup {NoPath},
           RouteTurns(f, p), \A g \in Flows \ {f} : flows'[g] = flows[g],
           Active(f)' => flows'[f].path = p /\ p \in PathsFor(f)
    PROVE  RoutesKnown'
BY DEF RoutesKnown, RouteTurns, Active

-----------------------------------------------------------------------------
\* What is in a queue stays where it is when a message joins it.
LEMMA Appended ==
    ASSUME NEW q \in Seq(Message), NEW m \in Message, NEW r, r = Append(q, m)
    PROVE  /\ Len(q) \in Nat /\ r \in Seq(Message)
           /\ Len(r) = Len(q) + 1
           /\ r[Len(r)] = m
           /\ \A i \in 1..Len(q) : i \in 1..Len(r) /\ r[i] = q[i]
           /\ \A i \in 1..Len(r) : i = Len(r) \/ i \in 1..Len(q)
BY AppendProperties

\* What is sent last has the last word on the flows it settles, and none on
\* the others.
LEMMA AppendedSettles ==
    ASSUME NEW q \in Seq(Message), NEW m \in Message, NEW r, r = Append(q, m),
           NEW f, Settles(m, f)
    PROVE  /\ Decided(r, f)
           /\ \A i : LastWord(r, f, i) <=> i = Len(r)
<1>1. /\ Len(q) \in Nat /\ Len(r) = Len(q) + 1 /\ r[Len(r)] = m
      /\ \A i \in 1..Len(r) : i = Len(r) \/ i \in 1..Len(q)
    BY Appended
<1>2. Len(r) \in 1..Len(r) /\ \A i \in 1..Len(r) : i <= Len(r)
    BY <1>1
<1>3. \A i \in 1..Len(r) : Len(r) <= i => i = Len(r)
    BY <1>1
<1> QED
    BY <1>1, <1>2, <1>3 DEF Decided, LastWord

\* A message that is not about f leaves its last word.
LEMMA AppendedLeaves ==
    ASSUME NEW q \in Seq(Message), NEW m \in Message, NEW r, r = Append(q, m),
           NEW f, ~Settles(m, f)
    PROVE  /\ Decided(r, f) <=> Decided(q, f)
           /\ \A i : LastWord(r, f, i) <=> LastWord(q, f, i)
<1>1. /\ Len(q) \in Nat /\ Len(r) = Len(q) + 1 /\ r[Len(r)] = m
      /\ \A i \in 1..Len(q) : i \in 1..Len(r) /\ r[i] = q[i]
      /\ \A i \in 1..Len(r) : i = Len(r) \/ i \in 1..Len(q)
    BY Appended
<1>2. \A i : i \in 1..Len(r) /\ Settles(r[i], f) <=> i \in 1..Len(q) /\ Settles(q[i], f)
    BY <1>1
<1> QED
    BY <1>2 DEF Decided, LastWord

\* What is sent about other flows changes nothing for f.
LEMMA AppendedElsewhere ==
    ASSUME NEW q \in Seq(Message), NEW m \in Message, NEW r, r = Append(q, m),
           NEW f, f \notin m.flows, NEW p, NEW s, NEW E, NEW M
    PROVE  /\ RulesAreRight(q, f, p, s) => RulesAreRight(r, f, p, s)
           /\ EntriesAreRight(q, E, f, p, s) => EntriesAreRight(r, E, f, p, s)
           /\ MeterComesFirst(q, M, f) => MeterComesFirst(r, M, f)
           /\ NothingMissing(q, E, M, f, p, s) => NothingMissing(r, E, M, f, p, s)
<1>1. /\ Len(q) \in Nat /\ Len(r) = Len(q) + 1 /\ r[Len(r)] = m
      /\ \A i \in 1..Len(q) : i \in 1..Len(r) /\ r[i] = q[i]
      /\ \A i \in 1..Len(r) : i = Len(r) \/ i \in 1..Len(q)
    BY Appended
<1>2. /\ Decided(r, f) <=> Decided(q, f)
      /\ \A i : LastWord(r, f, i) <=> LastWord(q, f, i)
    BY AppendedLeaves DEF Settles
<1>3. \A i : LastWord(q, f, i) => i \in 1..Len(q)
    BY DEF LastWord
<1>4. RulesAreRight(q, f, p, s) => RulesAreRight(r, f, p, s)
    BY <1>1, <1>2, <1>3 DEF RulesAreRight
<1>5. EntriesAreRight(q, E, f, p, s) => EntriesAreRight(r, E, f, p, s)
    BY <1>2 DEF EntriesAreRight
<1>6. ASSUME MeterComesFirst(q, M, f) PROVE MeterComesFirst(r, M, f)
    <2> SUFFICES ASSUME NEW i \in 1..Len(q), LastWord(q, f, i), q[i].op = "rules"
                 PROVE  \E j \in 0..i - 1 :
                           /\ IF j = 0 THEN f \in M ELSE r[j].op = "meter" /\ f \in r[j].flows
                           /\ \A k \in j + 1..i - 1 :
                                 ~(r[k].op = "dropMeter" /\ f \in r[k].flows)
        BY <1>1, <1>2, <1>3 DEF MeterComesFirst
    <2>1. PICK j \in 0..i - 1 :
             /\ IF j = 0 THEN f \in M ELSE q[j].op = "meter" /\ f \in q[j].flows
             /\ \A k \in j + 1..i - 1 : ~(q[k].op = "dropMeter" /\ f \in q[k].flows)
        BY <1>6 DEF MeterComesFirst
    <2>2. /\ j # 0 => r[j] = q[j]
          /\ \A k \in j + 1..i - 1 : r[k] = q[k]
        BY <1>1
    <2>3. IF j = 0 THEN f \in M ELSE r[j].op = "meter" /\ f \in r[j].flows
        BY <2>1, <2>2
    <2>4. \A k \in j + 1..i - 1 : ~(r[k].op = "dropMeter" /\ f \in r[k].flows)
        BY <2>1, <2>2
    <2> QED
        BY <2>3, <2>4
<1>7. ASSUME NothingMissing(q, E, M, f, p, s) PROVE NothingMissing(r, E, M, f, p, s)
    <2> SUFFICES ASSUME s \in SwitchesOf(p)
                 PROVE  /\ \A i \in 1..Len(r) : LastWord(r, f, i) => r[i].op = "rules"
                        /\ ~Decided(r, f) => EntriesIn(E, f) = EntriesOf(f, p, s)
                        /\ s = Source[f] =>
                              /\ ~Decided(r, f) => f \in M
                              /\ \A j \in 1..Len(r) : Touches(r[j], f) =>
                                    \E i \in j + 1..Len(r) : Settles(r[i], f)
        BY DEF NothingMissing
    <2>1. \A i \in 1..Len(r) : LastWord(r, f, i) => r[i].op = "rules"
        BY <1>1, <1>2, <1>3, <1>7 DEF NothingMissing
    <2>2. ASSUME s = Source[f], NEW j \in 1..Len(r), Touches(r[j], f)
          PROVE  \E i \in j + 1..Len(r) : Settles(r[i], f)
        <3>1. j \in 1..Len(q) /\ Touches(q[j], f)
            BY <1>1, <2>2 DEF Touches
        <3>2. PICK i \in j + 1..Len(q) : Settles(q[i], f)
            BY <1>7, <2>2, <3>1 DEF NothingMissing
        <3>3. i \in 1..Len(q) /\ i \in j + 1..Len(r)
            BY <1>1, <3>1, <3>2
        <3> QED
            BY <1>1, <3>2, <3>3
    <2> QED
        BY <1>2, <1>7, <2>1, <2>2 DEF NothingMissing
<1> QED
    BY <1>4, <1>5, <1>6, <1>7

\* Rules of p sent last are right, and nothing is missing after them.
LEMMA RulesSent ==
    ASSUME NEW q \in Seq(Message), NEW f, NEW p, NEW s, s \in SwitchesOf(p),
           Rules(f, p, s) \in Message, NEW r, r = Append(q, Rules(f, p, s)),
           NEW E, NEW M
    PROVE  /\ RulesAreRight(r, f, p, s)
           /\ EntriesAreRight(r, E, f, p, s)
           /\ NothingMissing(r, E, M, f, p, s)
<1> DEFINE m == Rules(f, p, s)
<1>1. /\ m.op = "rules" /\ m.rules = EntriesOf(f, p, s)
      /\ Settles(m, f) /\ ~Touches(m, f)
    BY DEF Rules, Settles, Touches
<1>2. /\ Len(q) \in Nat /\ Len(r) = Len(q) + 1 /\ r[Len(r)] = m
      /\ \A i \in 1..Len(r) : i = Len(r) \/ i \in 1..Len(q)
    BY Appended
<1> HIDE DEF m
<1>3. /\ Decided(r, f)
      /\ \A i : LastWord(r, f, i) <=> i = Len(r)
    BY <1>1, AppendedSettles DEF m
<1>4. ASSUME NEW j \in 1..Len(r), Touches(r[j], f)
      PROVE  \E i \in j + 1..Len(r) : Settles(r[i], f)
    <2>1. j # Len(r)
        BY <1>1, <1>2, <1>4
    <2>2. Len(r) \in j + 1..Len(r)
        BY <1>2, <2>1
    <2> QED
        BY <1>1, <1>2, <2>2
<1> QED
    BY <1>1, <1>2, <1>3, <1>4 DEF RulesAreRight, EntriesAreRight, NothingMissing

\* Rules sent right behind the meter they need.
LEMMA MeterSent ==
    ASSUME NEW q \in Seq(Message), NEW f, NEW p, NEW s,
           Rules(f, p, s) \in Message, Order("meter", {f}) \in Message,
           NEW r, r = Append(Append(q, Order("meter", {f})), Rules(f, p, s)), NEW M
    PROVE  MeterComesFirst(r, M, f)
<1>1. PICK a, m, t : /\ a = Order("meter", {f}) /\ m = Rules(f, p, s)
                     /\ t = Append(q, a)
    OBVIOUS
<1>2. Settles(m, f) /\ a.op = "meter" /\ f \in a.flows
    BY <1>1 DEF Rules, Order, Settles
<1>3. /\ Len(q) \in Nat /\ t \in Seq(Message) /\ Len(t) = Len(q) + 1 /\ t[Len(t)] = a
    BY <1>1, Appended
<1>4. /\ Len(r) = Len(t) + 1 /\ r[Len(r)] = m
      /\ \A i \in 1..Len(t) : r[i] = t[i]
    BY <1>1, <1>3, Appended
<1>5. \A i : LastWord(r, f, i) <=> i = Len(r)
    <2>1. r = Append(t, m) /\ m \in Message
        BY <1>1
    <2> QED
        BY <1>2, <1>3, <2>1, AppendedSettles
<1>6. PICK n \in Nat : n = Len(t) /\ n # 0
    BY <1>3
<1>7. /\ n \in 0..Len(r) - 1 /\ n \in 1..Len(t)
      /\ \A k \in n + 1..Len(r) - 1 : FALSE
    BY <1>4, <1>6
<1>8. r[n] = a
    BY <1>3, <1>4, <1>6, <1>7
<1> QED
    BY <1>2, <1>5, <1>6, <1>7, <1>8 DEF MeterComesFirst

\* A deletion sent last leaves nothing that could be wrong.
LEMMA DeletionSent ==
    ASSUME NEW q \in Seq(Message), NEW m \in Message, m.op = "delete",
           NEW r, r = Append(q, m), NEW f, f \in m.flows, NEW p, NEW s, NEW E, NEW M
    PROVE  /\ RulesAreRight(r, f, p, s)
           /\ EntriesAreRight(r, E, f, p, s)
           /\ MeterComesFirst(r, M, f)
<1>1. r[Len(r)] = m
    BY Appended
<1>2. /\ Decided(r, f)
      /\ \A i : LastWord(r, f, i) <=> i = Len(r)
    BY AppendedSettles DEF Settles
<1> QED
    BY <1>1, <1>2 DEF RulesAreRight, EntriesAreRight, MeterComesFirst

-----------------------------------------------------------------------------
\* A wipe that comes between the two messages of another thread.
InsertBeforeLast(q, m) == Front(q) \o <<m, Last(q)>>

InsertedAt(q, m, r) ==
    /\ r[Len(q)] = m /\ r[Len(r)] = q[Len(q)]
    /\ \A i \in 1..Len(q) : i = Len(q) \/ r[i] = q[i]

LEMMA Inserted ==
    ASSUME NEW q \in Seq(Message), q # <<>>, NEW m \in Message,
           NEW r, r = InsertBeforeLast(q, m)
    PROVE  /\ Len(q) \in Nat \ {0} /\ r \in Seq(Message)
           /\ Len(r) = Len(q) + 1
           /\ InsertedAt(q, m, r)
<1>1. PICK n \in Nat \ {0} : n = Len(q)
    BY EmptySeq
<1>2. /\ Front(q) \in Seq(Message) /\ Len(Front(q)) = n - 1
      /\ \A i \in 1..n - 1 : Front(q)[i] = q[i]
    BY <1>1 DEF Front
<1>3. q[n] \in Message /\ Last(q) = q[n]
    BY <1>1, ElementOfSeq DEF Last
<1>4. PICK t : t = <<m, Last(q)>>
    OBVIOUS
<1>5. t \in Seq(Message) /\ Len(t) = 2 /\ t[1] = m /\ t[2] = q[n]
    BY <1>3, <1>4
<1>6. PICK h : h = Front(q)
    OBVIOUS
<1>7. r = h \o t /\ h \in Seq(Message) /\ Len(h) = n - 1
    BY <1>2, <1>4, <1>6 DEF InsertBeforeLast
<1>8. /\ r \in Seq(Message) /\ Len(r) = Len(h) + Len(t)
      /\ \A i \in 1..Len(h) + Len(t) :
            r[i] = IF i <= Len(h) THEN h[i] ELSE t[i - Len(h)]
    <2>1. h \o t \in Seq(Message)
        BY <1>5, <1>7, ConcatProperties
    <2>2. Len(h \o t) = Len(h) + Len(t)
        BY <1>5, <1>7, ConcatProperties
    <2>3. \A i \in 1..Len(h) + Len(t) :
             (h \o t)[i] = IF i <= Len(h) THEN h[i] ELSE t[i - Len(h)]
        BY <1>5, <1>7, ConcatProperties
    <2> QED
        BY <1>7, <2>1, <2>2, <2>3
<1>9. PICK k \in Nat : k = Len(h) /\ n = k + 1
    BY <1>7
<1>10. /\ Len(r) = k + 2
       /\ \A i \in 1..k + 2 : r[i] = IF i <= k THEN h[i] ELSE t[i - k]
    BY <1>5, <1>8, <1>9
<1>11. r[k + 1] = m /\ r[k + 2] = q[n]
    <2>1. /\ k + 1 \in 1..k + 2 /\ k + 2 \in 1..k + 2
          /\ (k + 1) - k = 1 /\ (k + 2) - k = 2 /\ ~(k + 1 <= k) /\ ~(k + 2 <= k)
        OBVIOUS
    <2> QED
        BY <1>5, <1>10, <2>1
<1>12. \A i \in 1..k : i \in 1..k + 2 /\ r[i] = q[i]
    BY <1>2, <1>6, <1>9, <1>10
<1>13. \A i \in 1..k + 1 : i = k + 1 \/ i \in 1..k
    OBVIOUS
<1>14. /\ Len(q) = k + 1 /\ Len(r) = k + 2
       /\ Len(q) - 1 = k /\ Len(q) + 1 = k + 2
    BY <1>1, <1>9, <1>10
<1> QED
    BY <1>8, <1>9, <1>11, <1>12, <1>13, <1>14 DEF InsertedAt

LEMMA DeletionInserted ==
    ASSUME NEW q \in Seq(Message), q # <<>>, NEW m \in Message, m.op = "delete",
           NEW r, r = InsertBeforeLast(q, m), NEW f, f \in m.flows,
           NEW p, NEW s, NEW M
    PROVE  /\ Decided(r, f)
           /\ RulesAreRight(q, f, p, s) => RulesAreRight(r, f, p, s)
           /\ MeterComesFirst(q, M, f) => MeterComesFirst(r, M, f)
<1>1. PICK n \in Nat \ {0} : n = Len(q)
    BY Inserted
<1>2. /\ Len(r) = n + 1 /\ r[n] = m /\ r[n + 1] = q[n]
      /\ \A i \in 1..n - 1 : r[i] = q[i]
      /\ n \in 1..Len(r) /\ n + 1 \in 1..Len(r)
      /\ \A i \in 1..Len(r) : i = n + 1 \/ i = n \/ i \in 1..n - 1
    <2>1. Len(r) = Len(q) + 1 /\ r[Len(q)] = m /\ r[Len(r)] = q[Len(q)]
        BY Inserted DEF InsertedAt
    <2>2. \A i \in 1..Len(q) : i = Len(q) \/ r[i] = q[i]
        <3>1. InsertedAt(q, m, r)
            BY Inserted
        <3> QED
            BY <3>1 DEF InsertedAt
    <2>3. Len(r) = n + 1
        BY <1>1, <2>1
    <2>4. n \in 1..n + 1 /\ n + 1 \in 1..n + 1
        OBVIOUS
    <2>5. \A i \in 1..n + 1 : i = n + 1 \/ i = n \/ i \in 1..n - 1
        OBVIOUS
    <2> QED
        BY <1>1, <2>1, <2>2, <2>3, <2>4, <2>5
<1>3. Settles(m, f)
    BY DEF Settles
<1>4. CASE Settles(q[n], f)
    <2>1. \A i : LastWord(r, f, i) <=> i = n + 1
        <3>1. \A i \in 1..Len(r) : i <= n + 1 /\ (n + 1 <= i => i = n + 1)
            BY <1>2
        <3> QED
            BY <1>2, <1>4, <3>1 DEF LastWord
    <2>2. LastWord(q, f, n) /\ n \in 1..Len(q)
        BY <1>1, <1>4 DEF LastWord
    <2>3. RulesAreRight(q, f, p, s) => RulesAreRight(r, f, p, s)
        BY <1>2, <2>1, <2>2 DEF RulesAreRight
    <2>4. ASSUME MeterComesFirst(q, M, f) PROVE MeterComesFirst(r, M, f)
        <3> SUFFICES ASSUME q[n].op = "rules"
                     PROVE  \E j \in 0..n :
                               /\ IF j = 0 THEN f \in M
                                  ELSE r[j].op = "meter" /\ f \in r[j].flows
                               /\ \A k \in j + 1..n :
                                     ~(r[k].op = "dropMeter" /\ f \in r[k].flows)
            <4>1. (n + 1) - 1 = n
                OBVIOUS
            <4> QED
                BY <1>2, <2>1, <4>1 DEF MeterComesFirst
        <3>1. PICK j \in 0..n - 1 :
                 /\ IF j = 0 THEN f \in M ELSE q[j].op = "meter" /\ f \in q[j].flows
                 /\ \A k \in j + 1..n - 1 : ~(q[k].op = "dropMeter" /\ f \in q[k].flows)
            BY <2>2, <2>4 DEF MeterComesFirst
        <3>2. j # 0 => r[j] = q[j]
            BY <1>2
        <3>3. \A k \in j + 1..n : k = n \/ (k \in j + 1..n - 1 /\ r[k] = q[k])
            BY <1>2
        <3>4. \A k \in j + 1..n : ~(r[k].op = "dropMeter" /\ f \in r[k].flows)
            BY <1>2, <3>1, <3>3
        <3>5. j \in 0..n
            OBVIOUS
        <3> QED
            BY <3>1, <3>2, <3>4, <3>5
    <2> QED
        BY <1>2, <1>3, <2>3, <2>4 DEF Decided
<1>5. CASE ~Settles(q[n], f)
    <2>1. \A i : LastWord(r, f, i) <=> i = n
        <3>1. \A i \in 1..Len(r) : i = n + 1 \/ (i <= n /\ (n <= i => i = n))
            BY <1>2
        <3> QED
            BY <1>2, <1>3, <1>5, <3>1 DEF LastWord
    <2>2. Decided(r, f)
        BY <1>2, <1>3 DEF Decided
    <2>3. \A i : LastWord(r, f, i) => r[i].op # "rules"
        BY <1>2, <2>1
    <2> QED
        BY <2>2, <2>3 DEF RulesAreRight, MeterComesFirst
<1> QED
    BY <1>4, <1>5

\* A message that settles nothing, sent last or last but one.
LEMMA MetersWiped ==
    ASSUME NEW q \in Seq(Message), NEW m \in Message, m.op = "dropMeter",
           NEW r, \/ r = Append(q, m)
                  \/ q # <<>> /\ r = InsertBeforeLast(q, m),
           NEW f, NEW p, NEW s, NEW E
    PROVE  /\ RulesAreRight(q, f, p, s) => RulesAreRight(r, f, p, s)
           /\ EntriesAreRight(q, E, f, p, s) => EntriesAreRight(r, E, f, p, s)
<1>1. ~Settles(m, f)
    BY DEF Settles
<1>2. CASE r = Append(q, m)
    <2>1. /\ Decided(r, f) <=> Decided(q, f)
          /\ \A i : LastWord(r, f, i) <=> LastWord(q, f, i)
        BY <1>1, <1>2, AppendedLeaves
    <2>2. \A i \in 1..Len(q) : r[i] = q[i]
        BY <1>2, Appended
    <2>3. \A i : LastWord(q, f, i) => i \in 1..Len(q)
        BY DEF LastWord
    <2> QED
        BY <2>1, <2>2, <2>3 DEF RulesAreRight, EntriesAreRight
<1>3. CASE q # <<>> /\ r = InsertBeforeLast(q, m)
    <2>1. PICK n \in Nat \ {0} : n = Len(q)
        BY <1>3, Inserted
    <2>2. /\ Len(r) = n + 1 /\ r[n] = m /\ r[n + 1] = q[n]
          /\ \A i \in 1..n - 1 : i \in 1..Len(q) /\ i \in 1..Len(r) /\ r[i] = q[i]
          /\ n \in 1..Len(q) /\ n + 1 \in 1..Len(r)
          /\ \A i \in 1..Len(r) : i = n + 1 \/ i = n \/ i \in 1..n - 1
          /\ \A i \in 1..Len(q) : i = n \/ i \in 1..n - 1
        <3>1. Len(r) = Len(q) + 1 /\ r[Len(q)] = m /\ r[Len(r)] = q[Len(q)]
            BY <1>3, Inserted DEF InsertedAt
        <3>2. \A i \in 1..Len(q) : i = Len(q) \/ r[i] = q[i]
            <4>1. InsertedAt(q, m, r)
                BY <1>3, Inserted
            <4> QED
                BY <4>1 DEF InsertedAt
        <3>3. Len(r) = n + 1
            BY <2>1, <3>1
        <3>4. /\ n \in 1..n /\ n + 1 \in 1..n + 1
              /\ \A i \in 1..n : i = n \/ i \in 1..n - 1
              /\ \A i \in 1..n + 1 : i = n + 1 \/ i = n \/ i \in 1..n - 1
            OBVIOUS
        <3> QED
            BY <2>1, <3>1, <3>2, <3>3, <3>4
    <2>3. Decided(r, f) <=> Decided(q, f)
        BY <1>1, <2>2 DEF Decided
    <2>4. CASE Settles(q[n], f)
        <3>1. \A i : LastWord(r, f, i) <=> i = n + 1
            BY <2>2, <2>4 DEF LastWord
        <3>2. LastWord(q, f, n)
            BY <2>1, <2>2, <2>4 DEF LastWord
        <3> QED
            BY <2>2, <2>3, <3>1, <3>2 DEF RulesAreRight, EntriesAreRight
    <2>5. CASE ~Settles(q[n], f)
        <3>1. ASSUME NEW i, LastWord(r, f, i) PROVE LastWord(q, f, i) /\ r[i] = q[i]
            <4>1. i \in 1..n - 1
                BY <1>1, <2>2, <2>5, <3>1 DEF LastWord
            <4> QED
                BY <2>2, <2>5, <3>1, <4>1 DEF LastWord
        <3>2. \A i : LastWord(q, f, i) => i \in 1..Len(q)
            BY DEF LastWord
        <3> QED
            BY <2>3, <3>1, <3>2 DEF RulesAreRight, EntriesAreRight
    <2> QED
        BY <2>4, <2>5
<1> QED
    BY <1>2, <1>3

-----------------------------------------------------------------------------
\* The messages are messages, and what a path's rules say is about one flow.
LEMMA OrdersAreMessages ==
    ASSUME NEW op \in {"meter", "delete", "dropMeter"}, NEW S \in SUBSET Flows
    PROVE  /\ Order(op, S) \in Message
           /\ Order(op, S).op = op /\ Order(op, S).flows = S
           /\ RulesOfOne(Order(op, S))
BY DEF Order, Message, RulesOfOne

\* A path of f begins at its source, which is one of its switches.
LEMMA PathEnds ==
    ASSUME NEW f \in Flows, NEW p \in PathsFor(f)
    PROVE  /\ p \in Paths /\ p # NoPath
           /\ p[1] = Source[f] /\ Source[f] \in SwitchesOf(p)
           /\ SwitchesOf(p) \subseteq Switches
<1>1. p \in Paths /\ p[1] = Source[f]
    BY DEF PathsFor
<1>2. Len(p) \in Nat /\ Len(p) >= 1 /\ p \in [1..Len(p) -> Switches]
    BY <1>1, PathFacts
<1>3. 1 \in 1..Len(p)
    BY <1>2
<1>4. p # NoPath
    <2>1. Len(NoPath) = 0
        BY DEF NoPath
    <2> QED
        BY <1>2, <2>1
<1> QED
    BY <1>1, <1>2, <1>3, <1>4 DEF SwitchesOf

\* The absent path has no switches.
LEMMA NoPathNoSwitches == SwitchesOf(NoPath) = {}
BY DEF SwitchesOf, NoPath

LEMMA RulesAreMessages ==
    ASSUME NEW f \in Flows, NEW p \in Paths, NEW s \in SwitchesOf(p)
    PROVE  /\ Rules(f, p, s) \in Message
           /\ Rules(f, p, s).op = "rules" /\ Rules(f, p, s).flows = {f}
           /\ Rules(f, p, s).rules = EntriesOf(f, p, s)
           /\ EntriesOf(f, p, s) \subseteq Entry
           /\ \A e \in EntriesOf(f, p, s) : e.flow = f
           /\ RulesOfOne(Rules(f, p, s))
<1>1. Len(p) \in Nat /\ p \in [1..Len(p) -> Switches] /\ DOMAIN p = 1..Len(p)
    BY PathFacts
<1>2. PICK i : i = CHOOSE j \in DOMAIN p : p[j] = s
    OBVIOUS
<1>3. i \in 1..Len(p) /\ p[i] = s
    BY <1>1, <1>2 DEF SwitchesOf
<1>4. s \in Switches
    BY <1>1, <1>3, Zenon
<1>5. NextHop(p, s) \in Switches
    <2>1. i # Len(p) => i + 1 \in 1..Len(p)
        <3>1. Len(p) \in Nat /\ i \in 1..Len(p)
            BY <1>1, <1>3
        <3> QED
            BY <3>1
    <2> QED
        BY <1>1, <1>2, <1>4, <2>1 DEF NextHop
<1>6. PreviousHop(p, s) \in Switches
    <2>1. i # 1 => i - 1 \in 1..Len(p)
        <3>1. Len(p) \in Nat /\ i \in 1..Len(p)
            BY <1>1, <1>3
        <3> QED
            BY <3>1
    <2> QED
        BY <1>1, <1>2, <1>4, <2>1 DEF PreviousHop
<1>7. EntriesOf(f, p, s) \subseteq Entry
    BY <1>5, <1>6 DEF EntriesOf, Entry, Directions
<1>8. \A e \in EntriesOf(f, p, s) : e.flow = f
    BY DEF EntriesOf
<1> QED
    BY <1>7, <1>8 DEF Rules, Message, RulesOfOne

\* What is attached to a queue message by message.
LEMMA Attached ==
    ASSUME NEW q \in Seq(Message), NEW a \in Message, NEW b \in Message
    PROVE  /\ q \o <<>> = q
           /\ <<a>> \o <<b>> = <<a, b>>
           /\ <<>> \o <<a>> = <<a>> /\ <<a>> \o <<>> = <<a>>
           /\ <<a, b>> \o <<>> = <<a, b>>
           /\ q \o <<a>> = Append(q, a)
           /\ q \o <<a, b>> = Append(Append(q, a), b)
<1>1. q \o <<>> = q /\ q \o <<a>> = Append(q, a)
    BY ConcatEmptySeq, AppendIsConcat
<1>2. <<a>> \o <<b>> = <<a, b>>
    <2>1. Append(<<a>>, b) = <<a>> \o <<b>>
        BY AppendIsConcat
    <2>2. Append(<<a>>, b) = <<a, b>>
        <3>1. <<a>> \in Seq(Message) /\ Len(<<a>>) = 1 /\ <<a>>[1] = a
            OBVIOUS
        <3>2. /\ Append(<<a>>, b) \in Seq(Message) /\ Len(Append(<<a>>, b)) = 2
              /\ Append(<<a>>, b)[1] = a /\ Append(<<a>>, b)[2] = b
            BY <3>1, AppendProperties
        <3>3. /\ <<a, b>> \in Seq(Message) /\ Len(<<a, b>>) = 2
              /\ <<a, b>>[1] = a /\ <<a, b>>[2] = b
            OBVIOUS
        <3>4. \A i \in 1..2 : i = 1 \/ i = 2
            OBVIOUS
        <3> QED
            BY <3>2, <3>3, <3>4, SeqEqual
    <2> QED
        BY <2>1, <2>2
<1>3. <<>> \o <<a>> = <<a>> /\ <<a>> \o <<>> = <<a>> /\ <<a, b>> \o <<>> = <<a, b>>
    BY ConcatEmptySeq
<1>4. q \o <<a, b>> = Append(Append(q, a), b)
    <2>1. <<a>> \in Seq(Message) /\ <<b>> \in Seq(Message)
        OBVIOUS
    <2>2. q \o (<<a>> \o <<b>>) = (q \o <<a>>) \o <<b>>
        BY <2>1, ConcatAssociative
    <2>3. Append(q, a) \o <<b>> = Append(Append(q, a), b)
        BY AppendIsConcat, AppendProperties
    <2> QED
        BY <1>1, <1>2, <2>2, <2>3
<1> QED
    BY <1>1, <1>2, <1>3, <1>4

-----------------------------------------------------------------------------
\* What holds of f at s goes on to hold as its path turns from p into o and
\* the queue from q into r.
TurnsRight(q, r, E, M, f, p, o, s) ==
    /\ RulesAreRight(q, f, p, s) => RulesAreRight(r, f, o, s)
    /\ EntriesAreRight(q, E, f, p, s) => EntriesAreRight(r, E, f, o, s)
    /\ s = Source[f] /\ MeterComesFirst(q, M, f) => MeterComesFirst(r, M, f)
    /\ NothingMissing(q, E, M, f, p, s) => NothingMissing(r, E, M, f, o, s)
    /\ s = Source[f] /\ p # NoPath /\ o = NoPath => EntriesAreRight(r, E, f, o, s)

\* The messages for s when the path of f turns from p into o.
Turn(f, p, o, s) ==
    IF s \in SwitchesOf(o)
    THEN IF s = Source[f] THEN << Order("meter", {f}), Rules(f, o, s) >>
         ELSE << Rules(f, o, s) >>
    ELSE IF s \in SwitchesOf(p) THEN << Order("delete", {f}) >> ELSE <<>>

LEMMA TurnIsOf ==
    ASSUME NEW f \in Flows, NEW p, NEW o \in PathsFor(f) \cup {NoPath}, NEW s
    PROVE  \/ /\ s \in SwitchesOf(o) /\ s = Source[f] /\ o \in PathsFor(f)
              /\ Turn(f, p, o, s) = << Order("meter", {f}), Rules(f, o, s) >>
           \/ /\ s \in SwitchesOf(o) /\ s # Source[f] /\ o \in PathsFor(f)
              /\ Turn(f, p, o, s) = << Rules(f, o, s) >>
           \/ /\ s \notin SwitchesOf(o) /\ s \in SwitchesOf(p)
              /\ Turn(f, p, o, s) = << Order("delete", {f}) >>
           \/ /\ s \notin SwitchesOf(o) /\ s \notin SwitchesOf(p)
              /\ Turn(f, p, o, s) = <<>>
BY NoPathNoSwitches DEF Turn

\* Nothing is wrong at s about f, whose path is p, and nothing is missing.
Programmed(q, E, M, f, p, s) ==
    /\ RulesAreRight(q, f, p, s)
    /\ EntriesAreRight(q, E, f, p, s)
    /\ s = Source[f] => MeterComesFirst(q, M, f)
    /\ NothingMissing(q, E, M, f, p, s)

LEMMA TurnInstalls ==
    ASSUME NEW f \in Flows, NEW p, NEW o \in PathsFor(f), NEW s \in SwitchesOf(o),
           NEW q \in Seq(Message), NEW E, NEW M
    PROVE  Programmed(q \o Turn(f, p, o, s), E, M, f, o, s)
<1>1. PICK a : a = Order("meter", {f})
    OBVIOUS
<1>2. a \in Message
    BY <1>1, OrdersAreMessages
<1>3. PICK r : r = q \o Turn(f, p, o, s)
    OBVIOUS
<1>4. Rules(f, o, s) \in Message
    BY PathEnds, RulesAreMessages
<1>5. CASE s = Source[f]
    <2>1. Turn(f, p, o, s) = << a, Rules(f, o, s) >>
        BY <1>1, <1>5 DEF Turn
    <2>2. r = Append(Append(q, a), Rules(f, o, s))
        BY <1>2, <1>3, <1>4, <2>1, Attached
    <2>3. Append(q, a) \in Seq(Message)
        BY <1>2
    <2>4. /\ RulesAreRight(r, f, o, s)
          /\ EntriesAreRight(r, E, f, o, s)
          /\ NothingMissing(r, E, M, f, o, s)
        BY <1>4, <2>2, <2>3, RulesSent
    <2>5. MeterComesFirst(r, M, f)
        BY <1>1, <1>2, <1>4, <2>2, MeterSent
    <2> QED
        BY <1>3, <2>4, <2>5 DEF Programmed
<1>6. CASE s # Source[f]
    <2>1. Turn(f, p, o, s) = << Rules(f, o, s) >>
        BY <1>6 DEF Turn
    <2>2. r = Append(q, Rules(f, o, s))
        BY <1>3, <1>4, <2>1, Attached
    <2>3. /\ RulesAreRight(r, f, o, s)
          /\ EntriesAreRight(r, E, f, o, s)
          /\ NothingMissing(r, E, M, f, o, s)
        BY <1>4, <2>2, RulesSent
    <2> QED
        BY <1>3, <1>6, <2>3 DEF Programmed
<1> QED
    BY <1>5, <1>6

\* Whoever is told about f is told the right thing.
LEMMA TurnKeepsOwn ==
    ASSUME NEW f \in Flows, NEW p \in PathsFor(f) \cup {NoPath},
           NEW o \in PathsFor(f) \cup {NoPath}, NEW s \in Switches,
           NEW q \in Seq(Message), NEW E, NEW M
    PROVE  TurnsRight(q, q \o Turn(f, p, o, s), E, M, f, p, o, s)
<1>1. PICK d : d = Order("delete", {f})
    OBVIOUS
<1>2. /\ d \in Message /\ d.op = "delete" /\ d.flows = {f}
    BY <1>1, OrdersAreMessages
<1>3. PICK r : r = q \o Turn(f, p, o, s)
    OBVIOUS
<1>4. ASSUME s \in SwitchesOf(o), o \in PathsFor(f)
      PROVE  TurnsRight(q, r, E, M, f, p, o, s)
    <2>1. Programmed(r, E, M, f, o, s)
        BY <1>3, <1>4, TurnInstalls
    <2> QED
        BY <1>4, <2>1, PathEnds DEF TurnsRight, Programmed
<1>5. ASSUME s \notin SwitchesOf(o), Turn(f, p, o, s) = << d >>
      PROVE  TurnsRight(q, r, E, M, f, p, o, s)
    <2>1. r = Append(q, d)
        BY <1>2, <1>3, <1>5, Attached
    <2>2. f \in d.flows
        BY <1>2
    <2>3. /\ RulesAreRight(r, f, o, s)
          /\ EntriesAreRight(r, E, f, o, s)
          /\ MeterComesFirst(r, M, f)
        BY <1>2, <2>1, <2>2, DeletionSent
    <2> QED
        BY <1>5, <2>3 DEF TurnsRight, NothingMissing
<1>6. ASSUME s \notin SwitchesOf(o), s \notin SwitchesOf(p), Turn(f, p, o, s) = <<>>
      PROVE  TurnsRight(q, r, E, M, f, p, o, s)
    <2>1. r = q
        BY <1>2, <1>3, <1>6, Attached
    <2>2. RulesAreRight(q, f, p, s) => RulesAreRight(q, f, o, s)
        BY <1>6 DEF RulesAreRight
    <2>3. EntriesAreRight(q, E, f, p, s) => EntriesAreRight(q, E, f, o, s)
        BY <1>6 DEF EntriesAreRight, RightEntries
    <2>4. NothingMissing(q, E, M, f, o, s)
        BY <1>6 DEF NothingMissing
    <2>5. s = Source[f] => p = NoPath
        BY <1>6, PathEnds
    <2> QED
        BY <2>1, <2>2, <2>3, <2>4, <2>5 DEF TurnsRight
<1> QED
    BY <1>1, <1>3, <1>4, <1>5, <1>6, TurnIsOf

\* Whoever is told about f is told nothing about the others.
LEMMA TurnKeepsOthers ==
    ASSUME NEW f \in Flows, NEW p, NEW o \in PathsFor(f) \cup {NoPath},
           NEW s \in Switches, NEW q \in Seq(Message), NEW E, NEW M,
           NEW g \in Flows \ {f}, NEW k
    PROVE  TurnsRight(q, q \o Turn(f, p, o, s), E, M, g, k, k, s)
<1>1. PICK a, d : a = Order("meter", {f}) /\ d = Order("delete", {f})
    OBVIOUS
<1>2. /\ a \in Message /\ g \notin a.flows
      /\ d \in Message /\ g \notin d.flows
    BY <1>1, OrdersAreMessages
<1>3. PICK r : r = q \o Turn(f, p, o, s)
    OBVIOUS
<1>4. ASSUME s \in SwitchesOf(o), o \in PathsFor(f)
      PROVE  Rules(f, o, s) \in Message /\ g \notin Rules(f, o, s).flows
    BY <1>4, PathEnds, RulesAreMessages
<1>5. ASSUME NEW t \in Seq(Message), NEW m \in Message, g \notin m.flows
      PROVE  TurnsRight(t, Append(t, m), E, M, g, k, k, s)
    BY <1>5, AppendedElsewhere DEF TurnsRight
<1>6. ASSUME s \in SwitchesOf(o), o \in PathsFor(f),
             Turn(f, p, o, s) = << a, Rules(f, o, s) >>
      PROVE  TurnsRight(q, r, E, M, g, k, k, s)
    <2>1. r = Append(Append(q, a), Rules(f, o, s)) /\ Append(q, a) \in Seq(Message)
        BY <1>2, <1>3, <1>4, <1>6, Attached
    <2>2. TurnsRight(q, Append(q, a), E, M, g, k, k, s)
        BY <1>2, <1>5
    <2>3. TurnsRight(Append(q, a), r, E, M, g, k, k, s)
        BY <1>4, <1>5, <1>6, <2>1
    <2> QED
        BY <2>2, <2>3 DEF TurnsRight
<1>7. ASSUME s \in SwitchesOf(o), o \in PathsFor(f), Turn(f, p, o, s) = << Rules(f, o, s) >>
      PROVE  TurnsRight(q, r, E, M, g, k, k, s)
    <2>1. r = Append(q, Rules(f, o, s))
        BY <1>3, <1>4, <1>7, Attached
    <2> QED
        BY <1>4, <1>5, <1>7, <2>1
<1>8. ASSUME Turn(f, p, o, s) = << d >> PROVE TurnsRight(q, r, E, M, g, k, k, s)
    <2>1. r = Append(q, d)
        BY <1>2, <1>3, <1>8, Attached
    <2> QED
        BY <1>2, <1>5, <2>1
<1>9. ASSUME Turn(f, p, o, s) = <<>> PROVE TurnsRight(q, r, E, M, g, k, k, s)
    <2>1. r = q
        BY <1>2, <1>3, <1>9, Attached
    <2> QED
        BY <2>1 DEF TurnsRight
<1> QED
    BY <1>1, <1>3, <1>6, <1>7, <1>8, <1>9, TurnIsOf

\* The queue stays a queue of messages.
LEMMA TurnIsMessages ==
    ASSUME NEW f \in Flows, NEW p, NEW o \in PathsFor(f) \cup {NoPath},
           NEW s \in Switches, NEW q \in Seq(Message),
           \A i \in 1..Len(q) : RulesOfOne(q[i]),
           NEW r, r = q \o Turn(f, p, o, s)
    PROVE  r \in Seq(Message) /\ \A i \in 1..Len(r) : RulesOfOne(r[i])
<1>1. PICK a, d : a = Order("meter", {f}) /\ d = Order("delete", {f})
    OBVIOUS
<1>2. /\ a \in Message /\ RulesOfOne(a)
      /\ d \in Message /\ RulesOfOne(d)
    BY <1>1, OrdersAreMessages
<1>4. ASSUME s \in SwitchesOf(o), o \in PathsFor(f)
      PROVE  Rules(f, o, s) \in Message /\ RulesOfOne(Rules(f, o, s))
    BY <1>4, PathEnds, RulesAreMessages
<1> DEFINE Fine(t) == t \in Seq(Message) /\ \A i \in 1..Len(t) : RulesOfOne(t[i])
<1>5. ASSUME NEW t, Fine(t), NEW m \in Message, RulesOfOne(m)
      PROVE  Fine(Append(t, m))
    BY <1>5, Appended
<1>6. Fine(q)
    OBVIOUS
<1> HIDE DEF Fine
<1>7. ASSUME s \in SwitchesOf(o), o \in PathsFor(f),
             Turn(f, p, o, s) = << a, Rules(f, o, s) >>
      PROVE  Fine(r)
    <2>1. r = Append(Append(q, a), Rules(f, o, s))
        BY <1>2, <1>4, <1>7, Attached
    <2> QED
        BY <1>2, <1>4, <1>5, <1>6, <1>7, <2>1
<1>8. ASSUME s \in SwitchesOf(o), o \in PathsFor(f), Turn(f, p, o, s) = << Rules(f, o, s) >>
      PROVE  Fine(r)
    <2>1. r = Append(q, Rules(f, o, s))
        BY <1>4, <1>8, Attached
    <2> QED
        BY <1>4, <1>5, <1>6, <1>8, <2>1
<1>9. ASSUME Turn(f, p, o, s) = << d >> PROVE Fine(r)
    <2>1. r = Append(q, d)
        BY <1>2, <1>9, Attached
    <2> QED
        BY <1>2, <1>5, <1>6, <2>1
<1>10. ASSUME Turn(f, p, o, s) = <<>> PROVE Fine(r)
    BY <1>2, <1>6, <1>10, Attached
<1>11. Fine(r)
    BY <1>1, <1>7, <1>8, <1>9, <1>10, TurnIsOf
<1> QED
    BY <1>11 DEF Fine

-----------------------------------------------------------------------------
\* A switch at which everything about f turns right.
LEMMA TurnKeepsSwitch ==
    ASSUME NEW s, NEW f, SwitchInv(s, f),
           TurnsRight(toSwitch[s], toSwitch'[s], entries[s], meters[s], f,
                      KnownPath(f), KnownPath(f)', s),
           entries'[s] = entries[s], meters'[s] = meters[s], registering' = registering,
           Expired(f, s) => Expired(f, s)' \/ KnownPath(f)' = NoPath
    PROVE  SwitchInv(s, f)'
<1>1. PICK q, r, E, M, p, o :
         /\ q = toSwitch[s] /\ r = toSwitch'[s] /\ E = entries[s] /\ M = meters[s]
         /\ p = KnownPath(f) /\ o = KnownPath(f)'
    OBVIOUS
<1>2. TurnsRight(q, r, E, M, f, p, o, s)
    BY <1>1
<1>3. \A stages : At(s, stages)' <=> At(s, stages)
    BY DEF At
<1>4. /\ RulesAreRight(q, f, p, s)
      /\ \/ EntriesAreRight(q, E, f, p, s)
         \/ At(s, {"wipeFlows"})
         \/ At(s, {"fill"}) /\ s = Source[f] /\ p # NoPath
      /\ \/ MeterComesFirst(q, M, f)
         \/ s # Source[f]
         \/ At(s, {"fill"})
      /\ \/ NothingMissing(q, E, M, f, p, s)
         \/ At(s, {"wipeFlows", "wipeMeters", "fill"})
         \/ Expired(f, s)
    BY <1>1 DEF SwitchInv
<1>5. NothingMissing(r, E, M, f, NoPath, s)
    BY NoPathNoSwitches DEF NothingMissing
<1>6. /\ RulesAreRight(r, f, o, s)
      /\ \/ EntriesAreRight(r, E, f, o, s)
         \/ At(s, {"wipeFlows"})'
         \/ At(s, {"fill"})' /\ s = Source[f] /\ o # NoPath
      /\ \/ MeterComesFirst(r, M, f)
         \/ s # Source[f]
         \/ At(s, {"fill"})'
    BY <1>2, <1>3, <1>4 DEF TurnsRight
<1>7. \/ NothingMissing(r, E, M, f, o, s)
      \/ At(s, {"wipeFlows", "wipeMeters", "fill"})'
      \/ Expired(f, s)'
    BY <1>1, <1>2, <1>3, <1>4, <1>5 DEF TurnsRight
<1> QED
    BY <1>1, <1>6, <1>7 DEF SwitchInv

\* The path of one flow turns and the switches are told so.
LEMMA TurnKeepsInv ==
    ASSUME ControlInv, DataInv, NEW f \in Flows, NEW o \in PathsFor(f) \cup {NoPath}, RouteTurns(f, o),
           \A g \in Flows \ {f} : flows'[g] = flows[g],
           Active(f)' => flows'[f].path = o /\ o \in PathsFor(f),
           NEW batch, \A s \in Switches : batch[s] = Turn(f, KnownPath(f), o, s),
           Send(batch), notices' \subseteq notices,
           \A n \in Announced \ Announced' : n.flow = f /\ o = NoPath,
           UNCHANGED <<entries, meters, registering, faults, datapaths>>
    PROVE  DataInv'
<1>1. /\ KnownPath(f) \in PathsFor(f) \cup {NoPath}
      /\ toSwitch \in [Switches -> Seq(Message)]
      /\ \A s \in Switches : \A i \in 1..Len(toSwitch[s]) : RulesOfOne(toSwitch[s][i])
    BY DEF DataInv, RoutesKnown, DataTypeOK, ChannelsOK
<1>2. toSwitch' = [s \in Switches |->
                      IF s \in datapaths THEN toSwitch[s] \o Turn(f, KnownPath(f), o, s)
                      ELSE toSwitch[s]]
    BY DEF Send
<1>3. ASSUME NEW s \in Switches
      PROVE  /\ toSwitch'[s] \in Seq(Message)
             /\ \A i \in 1..Len(toSwitch'[s]) : RulesOfOne(toSwitch'[s][i])
             /\ s \notin datapaths => toSwitch'[s] = toSwitch[s]
    <2>1. CASE s \in datapaths
        <3>1. toSwitch'[s] = toSwitch[s] \o Turn(f, KnownPath(f), o, s)
            BY <1>2, <2>1
        <3>2. /\ toSwitch[s] \in Seq(Message)
              /\ \A i \in 1..Len(toSwitch[s]) : RulesOfOne(toSwitch[s][i])
            BY <1>1
        <3>3. /\ toSwitch'[s] \in Seq(Message)
              /\ \A i \in 1..Len(toSwitch'[s]) : RulesOfOne(toSwitch'[s][i])
            BY <3>1, <3>2, TurnIsMessages
        <3> QED
            BY <2>1, <3>3
    <2>2. CASE s \notin datapaths
        BY <1>1, <1>2, <2>2
    <2> QED
        BY <2>1, <2>2
<1>4. DataTypeOK'
    <2>1. toSwitch' \in [Switches -> Seq(Message)]
        BY <1>2, <1>3
    <2> QED
        BY <2>1 DEF DataInv, DataTypeOK
<1>5. ChannelsOK'
    BY <1>3 DEF DataInv, ChannelsOK
<1>6. RoutesKnown'
    BY KnownTurnsKnown DEF DataInv
<1>7. ASSUME NEW s \in datapaths, NEW g \in Flows
      PROVE  SwitchInv(s, g)'
    <2>1. SwitchInv(s, g)
        BY <1>7 DEF DataInv
    <2>2. s \in Switches /\ toSwitch[s] \in Seq(Message)
        BY <1>1 DEF ControlInv, ControlTypeOK
    <2>3. toSwitch'[s] = toSwitch[s] \o Turn(f, KnownPath(f), o, s)
        BY <1>2, <2>2
    <2>4. CASE g = f
        <3>1. KnownPath(g)' = o
            BY <2>4 DEF RouteTurns
        <3>2. TurnsRight(toSwitch[s], toSwitch'[s], entries[s], meters[s], g,
                         KnownPath(g), KnownPath(g)', s)
            BY <1>1, <2>2, <2>3, <2>4, <3>1, TurnKeepsOwn
        <3>3. Expired(g, s) => Expired(g, s)' \/ KnownPath(g)' = NoPath
            BY <3>1 DEF Expired
        <3> QED
            BY <2>1, <3>2, <3>3, TurnKeepsSwitch
    <2>5. CASE g # f
        <3>1. KnownPath(g)' = KnownPath(g)
            BY <2>5 DEF RouteTurns
        <3>2. TurnsRight(toSwitch[s], toSwitch'[s], entries[s], meters[s], g,
                         KnownPath(g), KnownPath(g)', s)
            BY <2>2, <2>3, <2>5, <3>1, TurnKeepsOthers
        <3>3. Expired(g, s) => Expired(g, s)'
            BY <2>5 DEF Expired
        <3> QED
            BY <2>1, <3>2, <3>3, TurnKeepsSwitch
    <2> QED
        BY <2>4, <2>5
<1> QED
    BY <1>4, <1>5, <1>6, <1>7 DEF DataInv

\* No path turns and nothing is sent.
LEMMA StayKeepsInv ==
    ASSUME ControlInv, DataInv, RoutesStay, NobodyPlaced,
           UNCHANGED <<entries, meters, toSwitch, registering, datapaths>>,
           faults' \in 0..FaultsAllowed, notices' \subseteq notices,
           \A n \in Announced \ Announced', f \in Flows :
              n.flow = f => n.switch # Source[f] \/ KnownPath(f) = NoPath
    PROVE  DataInv'
<1>1. DataTypeOK' /\ ChannelsOK'
    BY DEF DataInv, DataTypeOK, ChannelsOK
<1>2. RoutesKnown'
    BY KnownStaysKnown DEF DataInv
<1>3. ASSUME NEW s \in datapaths, NEW f \in Flows
      PROVE  SwitchInv(s, f)'
    <2>1. SwitchInv(s, f) /\ KnownPath(f)' = KnownPath(f)
        BY DEF DataInv, RoutesStay
    <2>2. TurnsRight(toSwitch[s], toSwitch[s], entries[s], meters[s], f,
                     KnownPath(f), KnownPath(f), s)
        BY DEF TurnsRight
    <2>3. Expired(f, s) => Expired(f, s)' \/ KnownPath(f)' = NoPath
        BY <2>1 DEF Expired
    <2> QED
        BY <2>1, <2>2, <2>3, TurnKeepsSwitch
<1> QED
    BY <1>1, <1>2, <1>3 DEF DataInv

-----------------------------------------------------------------------------
\* The steps that program a path.
LEMMA PathSwitchesFirst ==
    ASSUME NEW f \in Flows, NEW o \in PathsFor(f), NEW s \in Switches
    PROVE  InstallFlow(f, o, Switches)[s] = Turn(f, NoPath, o, s)
<1>1. o[1] = Source[f]
    BY PathEnds
<1>2. PICK a, m : a = Order("meter", {f}) /\ m = Rules(f, o, s)
    OBVIOUS
<1>3. a \in Message
    BY <1>2, OrdersAreMessages
<1>4. CASE s \in SwitchesOf(o)
    <2>1. m \in Message
        BY <1>2, <1>4, PathEnds, RulesAreMessages
    <2>2. <<a>> \o <<m>> = <<a, m>>
        BY <1>3, <2>1, Attached, EmptySeq
    <2>3. <<>> \o <<m>> = <<m>>
        BY <1>3, <2>1, Attached, EmptySeq
    <2> QED
        BY <1>1, <1>2, <1>4, <2>2, <2>3 DEF InstallFlow, Turn
<1>5. CASE s \notin SwitchesOf(o)
    BY <1>5, NoPathNoSwitches DEF InstallFlow, Turn
<1> QED
    BY <1>4, <1>5

\* The steps that take f off its path for good.
LEMMA DeletedEverywhere ==
    ASSUME NEW f \in Flows, NEW p, NEW drop, NEW s \in Switches
    PROVE  DeleteFlow(f, NoPath, SwitchesOf(p), drop)[s] = Turn(f, p, NoPath, s)
<1>1. PICK d : d = Order("delete", {f})
    OBVIOUS
<1>2. d \in Message
    BY <1>1, OrdersAreMessages
<1>3. <<d>> \o <<>> = <<d>>
    BY <1>2, Attached
<1> QED
    BY <1>1, <1>3, NoPathNoSwitches DEF DeleteFlow, Turn

\* request_flow programs the new path, meter first at the source.
LEMMA AdmitKeepsInv ==
    ASSUME ControlInv, DataInv, AdmitAndInstall PROVE DataInv'
<1>1. PICK c : c = Head(agenda)
    OBVIOUS
<1>2. /\ AdmitStep
      /\ Send(InstallFlow(c.flow, c.path, Switches))
      /\ UNCHANGED <<entries, meters, notices, registering, faults>>
    BY <1>1 DEF AdmitAndInstall, Sending
<1>3. /\ c.flow \in Flows /\ c.path \in PathsFor(c.flow)
      /\ KnownPath(c.flow) = NoPath
      /\ RouteTurns(c.flow, c.path)
      /\ flows'[c.flow].path = c.path
      /\ \A g \in Flows \ {c.flow} : flows'[g] = flows[g]
    BY <1>1, <1>2, AdmitTurns
<1>4. datapaths' = datapaths /\ Announced' = Announced
    BY <1>2 DEF AdmitStep, Announced
<1>5. \A s \in Switches : InstallFlow(c.flow, c.path, Switches)[s]
                            = Turn(c.flow, KnownPath(c.flow), c.path, s)
    BY <1>3, PathSwitchesFirst
<1> QED
    BY <1>2, <1>3, <1>4, <1>5, TurnKeepsInv

\* _replace_path programs the new path and deletes what only the old one has.
LEMMA MoveKeepsInv ==
    ASSUME ControlInv, DataInv, MoveAndInstall PROVE DataInv'
<1>1. PICK c : c = Head(agenda)
    OBVIOUS
<1>2. PICK add, stale, batch :
         /\ add = InstallFlow(c.flow, c.path, Switches)
         /\ stale = DeleteFlow(c.flow, c.path, SwitchesOf(c.old) \ SwitchesOf(c.path), FALSE)
         /\ batch = [s \in Switches |-> add[s] \o stale[s]]
    OBVIOUS
<1>3. /\ MoveStep
      /\ Send(batch)
      /\ UNCHANGED <<entries, meters, notices, registering, faults>>
    BY <1>1, <1>2 DEF MoveAndInstall, Sending
<1>4. /\ c.flow \in Flows /\ c.path \in PathsFor(c.flow)
      /\ KnownPath(c.flow) = c.old
      /\ RouteTurns(c.flow, c.path)
      /\ flows'[c.flow].path = c.path
      /\ \A g \in Flows \ {c.flow} : flows'[g] = flows[g]
    BY <1>1, <1>3, MoveTurns
<1>5. datapaths' = datapaths /\ Announced' = Announced
    BY <1>3 DEF MoveStep, Announced
<1>6. ASSUME NEW s \in Switches
      PROVE  batch[s] = Turn(c.flow, KnownPath(c.flow), c.path, s)
    <2>1. PICK a, d, m : /\ a = Order("meter", {c.flow}) /\ d = Order("delete", {c.flow})
                         /\ m = Rules(c.flow, c.path, s)
        OBVIOUS
    <2>2. a \in Message /\ d \in Message
        BY <1>4, <2>1, OrdersAreMessages
    <2>3. batch[s] = add[s] \o stale[s] /\ add[s] = Turn(c.flow, NoPath, c.path, s)
        BY <1>2, <1>4, PathSwitchesFirst
    <2>4. CASE s \in SwitchesOf(c.path)
        <3>1. m \in Message
            BY <1>4, <2>1, <2>4, PathEnds, RulesAreMessages
        <3>2. stale[s] = <<>>
            BY <1>2, <2>4 DEF DeleteFlow
        <3>3. <<m>> \o <<>> = <<m>> /\ <<a, m>> \o <<>> = <<a, m>>
            BY <2>2, <3>1, Attached
        <3> QED
            BY <2>1, <2>3, <2>4, <3>2, <3>3 DEF Turn
    <2>5. CASE s \notin SwitchesOf(c.path) /\ s \in SwitchesOf(c.old)
        <3>1. <<d>> \o <<>> = <<d>> /\ <<>> \o <<d>> = <<d>>
            BY <2>2, Attached
        <3>2. stale[s] = <<d>>
            BY <1>2, <2>1, <2>5, <3>1 DEF DeleteFlow
        <3>3. add[s] = <<>>
            BY <2>3, <2>5, NoPathNoSwitches DEF Turn
        <3> QED
            BY <1>4, <2>1, <2>3, <2>5, <3>1, <3>2, <3>3 DEF Turn
    <2>6. CASE s \notin SwitchesOf(c.path) /\ s \notin SwitchesOf(c.old)
        <3>1. stale[s] = <<>> /\ add[s] = <<>>
            BY <1>2, <2>3, <2>6, NoPathNoSwitches DEF DeleteFlow, Turn
        <3>2. <<>> \o <<>> = <<>>
            BY ConcatEmptySeq, <2>2, EmptySeq
        <3> QED
            BY <1>4, <2>3, <2>6, <3>1, <3>2 DEF Turn
    <2> QED
        BY <2>4, <2>5, <2>6
<1> QED
    BY <1>3, <1>4, <1>5, <1>6, TurnKeepsInv

\* A flow that finds no other place is deleted along its old path.
LEMMA FailKeepsInv ==
    ASSUME ControlInv, DataInv, FailAndDelete PROVE DataInv'
<1>1. PICK c : c = Head(agenda)
    OBVIOUS
<1>2. /\ RerouteFailed
      /\ Send(DeleteFlow(c.flow, flows[c.flow].path, SwitchesOf(c.old), TRUE))
      /\ UNCHANGED <<entries, meters, notices, registering, faults>>
    BY <1>1 DEF FailAndDelete, Sending
<1>3. /\ c.flow \in Flows
      /\ KnownPath(c.flow) = c.old
      /\ flows[c.flow].path = NoPath /\ ~Active(c.flow)'
      /\ RouteTurns(c.flow, NoPath)
      /\ \A g \in Flows \ {c.flow} : flows'[g] = flows[g]
    BY <1>1, <1>2, FailureTurns
<1>4. datapaths' = datapaths /\ Announced' = Announced
    BY <1>2 DEF RerouteFailed, Announced
<1>5. \A s \in Switches :
         DeleteFlow(c.flow, flows[c.flow].path, SwitchesOf(c.old), TRUE)[s]
            = Turn(c.flow, KnownPath(c.flow), NoPath, s)
    <2>1. ASSUME NEW s \in Switches
          PROVE  DeleteFlow(c.flow, NoPath, SwitchesOf(c.old), TRUE)[s]
                    = Turn(c.flow, c.old, NoPath, s)
        BY <1>3, DeletedEverywhere
    <2> QED
        BY <1>3, <2>1
<1>6. NoPath \in PathsFor(c.flow) \cup {NoPath}
    OBVIOUS
<1> QED
    BY <1>2, <1>3, <1>4, <1>5, <1>6, TurnKeepsInv

\* A flow is torn down: withdrawn or at the notice of its ingress switch.
LEMMA RemovalKeepsInv ==
    ASSUME ControlInv, DataInv, NEW f \in Flows,
           Removes(f) \/ \E x \in expiring : x.flow = f /\ ExpireFlow(x),
           Send(DeleteReleased(f)), notices' \subseteq notices,
           \A n \in Announced \ Announced' : n.flow = f,
           UNCHANGED <<entries, meters, registering, faults>>
    PROVE  DataInv'
<1>1. /\ KnownPath(f) = flows[f].path
      /\ flows'[f].path = NoPath /\ ~Active(f)'
      /\ RouteTurns(f, NoPath)
      /\ \A g \in Flows \ {f} : flows'[g] = flows[g]
      /\ datapaths' = datapaths
    BY RemovalTurns
<1>2. \A s \in Switches : DeleteReleased(f)[s] = Turn(f, KnownPath(f), NoPath, s)
    <2>1. PICK p : p = KnownPath(f)
        OBVIOUS
    <2>2. DeleteReleased(f) = DeleteFlow(f, NoPath, SwitchesOf(p), TRUE)
        BY <1>1, <2>1 DEF DeleteReleased
    <2>3. \A s \in Switches :
             DeleteFlow(f, NoPath, SwitchesOf(p), TRUE)[s] = Turn(f, p, NoPath, s)
        BY DeletedEverywhere
    <2> QED
        BY <2>1, <2>2, <2>3
<1>3. NoPath \in PathsFor(f) \cup {NoPath}
    OBVIOUS
<1> QED
    BY <1>1, <1>2, <1>3, TurnKeepsInv

\* remove_flow deletes the flow along its path.
LEMMA WithdrawKeepsInv ==
    ASSUME ControlInv, DataInv, NEW f \in Flows, Withdraw(f) PROVE DataInv'
<1>1. /\ Removes(f)
      /\ Send(DeleteReleased(f))
      /\ UNCHANGED <<entries, meters, notices, registering, faults>>
    BY DEF Withdraw, Sending, Removes
<1>2. Announced' = Announced
    BY <1>1 DEF Removes, RemoveFlow, ClearRemove, ClearComesTo, Announced
<1> QED
    BY <1>1, <1>2, RemovalKeepsInv

\* flow_removed_handler deletes what is left of the flow that expired.
LEMMA ExpiryKeepsInv ==
    ASSUME ControlInv, DataInv, NEW x \in expiring, ExpireFlow(x),
           Sending(DeleteReleased(x.flow))
    PROVE  DataInv'
<1>1. /\ Send(DeleteReleased(x.flow))
      /\ UNCHANGED <<entries, meters, notices, registering, faults>>
    BY DEF Sending
<1>2. \A n \in Announced \ Announced' : n.flow = x.flow
    BY <1>1 DEF ExpireFlow, Announced
<1>3. x.flow \in Flows
    BY ExpiringFlows
<1>4. PICK f \in Flows : f = x.flow
    BY <1>3
<1>5. Removes(f) \/ \E y \in expiring : y.flow = f /\ ExpireFlow(y)
    BY <1>4
<1>6. /\ Send(DeleteReleased(f)) /\ notices' \subseteq notices
      /\ \A n \in Announced \ Announced' : n.flow = f
    BY <1>1, <1>2, <1>4
<1> QED
    BY <1>1, <1>5, <1>6, RemovalKeepsInv

-----------------------------------------------------------------------------
\* The steps the switches are not told of.
LEMMA SilentKeepsInv ==
    ASSUME ControlInv, CalmInv, DataInv, SilentStep PROVE DataInv'
<1>1. RoutesStay /\ NobodyPlaced
    BY ReleasesStay, DecisionsStay DEF SilentStep
<1>2. UNCHANGED <<entries, meters, toSwitch, notices, registering, faults>>
    BY DEF SilentStep, Quietly, netVars
<1>3. datapaths' = datapaths /\ Announced' = Announced
    BY <1>2 DEF SilentStep, PreemptStep, EvacuateStep, RerouteFound, Announced
<1>4. faults' \in 0..FaultsAllowed
    BY <1>2 DEF DataInv, DataTypeOK
<1> QED
    BY <1>1, <1>2, <1>3, <1>4, StayKeepsInv

\* Requests and link events only put calls on the agenda.
LEMMA RequestKeepsInv ==
    ASSUME ControlInv, CalmInv, DataInv, Request PROVE DataInv'
<1>1. RoutesStay /\ NobodyPlaced
    <2>1. CASE Requests
        BY <2>1, DecisionsStay
    <2>2. CASE \E c \in Clears : ClearFinish(c)
        BY <2>2, ClearFinishStays
    <2>3. ASSUME NEW c \in Clears, ClearStart(c) \/ \E f \in Flows : ClearMisses(c, f)
          PROVE  RoutesStay /\ NobodyPlaced
        <3>1. UNCHANGED <<agenda, flows>>
            BY <2>3 DEF ClearStart, ClearMisses, stateVars
        <3> QED
            BY <3>1, OthersStay
    <2>4. CASE ClockTick
        <3>1. UNCHANGED <<agenda, flows>>
            BY <2>4 DEF ClockTick, HoldDownEnds, controlVars
        <3> QED
            BY <3>1, OthersStay
    <2> QED
        BY <2>1, <2>2, <2>3, <2>4 DEF Request, ClearCall
<1>2. UNCHANGED <<entries, meters, toSwitch, notices, registering, faults>>
    BY DEF Request, Quietly, netVars
<1>3. datapaths' = datapaths /\ expiring' = expiring
    BY DEF Request, Requests, RequestFlow, ClearCall, ClearStart, ClearFinish, ClearMisses,
           ClearComesTo, ClockTick, controlVars
<1>4. faults' \in 0..FaultsAllowed
    BY <1>2 DEF DataInv, DataTypeOK
<1>5. Announced' = Announced
    BY <1>2, <1>3 DEF Announced
<1> QED
    BY <1>1, <1>2, <1>3, <1>4, <1>5, StayKeepsInv

LEMMA LinkEventKeepsInv ==
    ASSUME ControlInv, CalmInv, DataInv, LinkEvent PROVE DataInv'
<1>1. PICK l \in Links : LinkUp(l) \/ LinkDown(l)
    BY DEF LinkEvent
<1>2. RoutesStay /\ NobodyPlaced
    BY <1>1, DecisionsStay
<1>3. UNCHANGED <<entries, meters, toSwitch, notices, registering>>
    BY DEF LinkEvent
<1>4. datapaths' = datapaths /\ Announced' = Announced
    BY <1>1, <1>3 DEF LinkUp, LinkDown, Announced
<1>5. faults' \in 0..FaultsAllowed
    BY DataPlaneAssumption DEF LinkEvent, DataInv, DataTypeOK
<1> QED
    BY <1>2, <1>3, <1>4, <1>5, StayKeepsInv

\* A flow without a cookie waits for nothing.
LEMMA NoCookieNoPath ==
    ASSUME ControlInv, NEW f \in Flows, f \notin byCookie
    PROVE  KnownPath(f) = NoPath
<1>1. ~Active(f) /\ ~Displaced(f)
    BY DEF ControlInv, CookieMapAgrees, Active, Displaced
<1>2. ~Waiting(f)
    <2> SUFFICES ASSUME NEW c \in Call, Pending(c), Waits(c, f) PROVE FALSE
        BY DEF Waiting
    <2>1. Live(f)
        BY DEF ControlInv, AgendaInv, PlacementsReady, ReroutesReady, PreemptsReady,
               Evictable, Waits, Live, Places
    <2> QED
        BY <1>1, <2>1 DEF Live
<1> QED
    BY <1>1, <1>2, KnownIs, IdleHasNoPath

\* A notice that is taken up is as good as before, ...
LEMMA TakeNoticeKeepsInv ==
    ASSUME ControlInv, DataInv, NEW n \in notices, TakeNotice(n) PROVE DataInv'
<1>1. /\ expiring = {} /\ expiring' = {[switch |-> n.switch, flow |-> n.flow]}
      /\ notices' = notices \ {n}
      /\ UNCHANGED <<entries, meters, toSwitch, registering, faults>>
      /\ UNCHANGED <<agenda, flows, datapaths>>
    BY DEF TakeNotice, EventThreadFree, EventThreadIdle, LookUpCookie, stateVars
<1>2. n \in [switch : ExpiringAt, flow : TimedFlows]
    BY DEF DataInv, DataTypeOK
<1>3. n = [switch |-> n.switch, flow |-> n.flow]
    BY <1>2
<1>4. Announced' = Announced
    BY <1>1, <1>3 DEF Announced
<1>5. RoutesStay /\ NobodyPlaced
    BY <1>1, OthersStay
<1>6. faults' \in 0..FaultsAllowed /\ notices' \subseteq notices
    BY <1>1 DEF DataInv, DataTypeOK
<1> QED
    BY <1>1, <1>4, <1>5, <1>6, StayKeepsInv

\* ... and one that is dropped was of a flow that has ended or not from its
\* source.
LEMMA DropNoticeKeepsInv ==
    ASSUME ControlInv, DataInv, NEW n \in notices, DropNotice(n) PROVE DataInv'
<1>1. /\ n.flow \notin byCookie
      /\ notices' = notices \ {n}
      /\ UNCHANGED <<entries, meters, toSwitch, registering, faults>>
      /\ UNCHANGED vars
    BY Zenon DEF DropNotice
<1>2. UNCHANGED <<agenda, flows, datapaths, expiring>>
    BY <1>1 DEF vars, stateVars, controlVars
<1>3. RoutesStay /\ NobodyPlaced
    BY <1>2, OthersStay
<1>4. n.flow \in Flows
    BY ControllerAssumption DEF DataInv, DataTypeOK
<1>5. KnownPath(n.flow) = NoPath
    BY <1>1, <1>4, NoCookieNoPath
<1>6. faults' \in 0..FaultsAllowed
    BY <1>1 DEF DataInv, DataTypeOK
<1>7. \A k \in Announced \ Announced', f \in Flows :
         k.flow = f => k.switch # Source[f] \/ KnownPath(f) = NoPath
    BY <1>1, <1>2, <1>5 DEF Announced
<1>8. UNCHANGED <<entries, meters, toSwitch, registering, datapaths>>
      /\ notices' \subseteq notices
    BY <1>1, <1>2
<1> QED
    BY <1>3, <1>6, <1>7, <1>8, StayKeepsInv

LEMMA IgnoreExpiryKeepsInv ==
    ASSUME ControlInv, DataInv, NEW x \in expiring, IgnoreExpiry(x), Quietly
    PROVE  DataInv'
<1>1. /\ holder = "none" /\ (~Active(x.flow) \/ x.switch # Source[x.flow])
      /\ expiring' = expiring \ {x}
      /\ UNCHANGED <<entries, meters, toSwitch, notices, registering, faults>>
      /\ UNCHANGED <<agenda, flows, datapaths>>
    BY DEF IgnoreExpiry, Quietly, netVars, stateVars
<1>2. RoutesStay /\ NobodyPlaced
    BY <1>1, OthersStay
<1>3. x.flow \in Flows
    BY ExpiringFlows
<1>4. x.switch # Source[x.flow] \/ KnownPath(x.flow) = NoPath
    BY <1>1, <1>3, KnownAtRest, IdleHasNoPath
<1>5. faults' \in 0..FaultsAllowed /\ notices' \subseteq notices
    BY <1>1 DEF DataInv, DataTypeOK
<1>6. \A k \in Announced \ Announced', f \in Flows :
         k.flow = f => k.switch # Source[f] \/ KnownPath(f) = NoPath
    BY <1>1, <1>4 DEF Announced
<1> QED
    BY <1>1, <1>2, <1>5, <1>6, StayKeepsInv

-----------------------------------------------------------------------------
\* Nothing happens at t, and it is not the one that is being registered.
LEMMA OtherSwitch ==
    ASSUME NEW t, NEW f, SwitchInv(t, f),
           toSwitch'[t] = toSwitch[t], entries'[t] = entries[t], meters'[t] = meters[t],
           KnownPath(f)' = KnownPath(f), Expired(f, t) => Expired(f, t)',
           registering = Idle \/ registering.switch # t
    PROVE  SwitchInv(t, f)'
<1>1. ~At(t, {"wipeFlows"}) /\ ~At(t, {"fill"}) /\ ~At(t, {"wipeFlows", "wipeMeters", "fill"})
    BY DEF At, Idle
<1>2. /\ RulesAreRight(toSwitch[t], f, KnownPath(f), t)
      /\ EntriesAreRight(toSwitch[t], entries[t], f, KnownPath(f), t)
      /\ MeterComesFirst(toSwitch[t], meters[t], f) \/ t # Source[f]
      /\ NothingMissing(toSwitch[t], entries[t], meters[t], f, KnownPath(f), t)
         \/ Expired(f, t)
    BY <1>1 DEF SwitchInv
<1> QED
    BY <1>2 DEF SwitchInv

\* A switch connects with an empty queue and is going to be wiped.
LEMMA RegisterKeepsInv ==
    ASSUME ControlInv, DataInv, NEW s \in Switches, Register(s) PROVE DataInv'
<1>1. /\ registering = Idle
      /\ s \notin datapaths /\ datapaths' = datapaths \cup {s}
      /\ registering' = [switch |-> s, stage |-> "wipeFlows"]
      /\ UNCHANGED <<entries, meters, toSwitch, notices, faults>>
      /\ UNCHANGED <<agenda, flows, expiring>>
    BY DEF Register, EventThreadFree, SwitchUp, stateVars
<1>2. RoutesStay /\ NobodyPlaced
    BY <1>1, OthersStay
<1>3. DataTypeOK'
    BY <1>1 DEF DataInv, DataTypeOK
<1>4. ChannelsOK'
    BY <1>1 DEF DataInv, ChannelsOK
<1>5. RoutesKnown'
    BY <1>2, KnownStaysKnown DEF DataInv
<1>6. ASSUME NEW t \in datapaths', NEW f \in Flows PROVE SwitchInv(t, f)'
    <2>1. CASE t = s
        <3>1. toSwitch'[s] = <<>>
            BY <1>1 DEF DataInv, ChannelsOK
        <3>2. \A i : ~LastWord(<<>>, f, i)
            BY DEF LastWord
        <3>3. At(s, {"wipeFlows"})' /\ At(s, {"wipeFlows", "wipeMeters", "fill"})'
            BY <1>1 DEF At
        <3>4. RulesAreRight(<<>>, f, KnownPath(f)', s) /\ MeterComesFirst(<<>>, meters'[s], f)
            BY <3>2 DEF RulesAreRight, MeterComesFirst
        <3> QED
            BY <2>1, <3>1, <3>3, <3>4 DEF SwitchInv
    <2>2. CASE t # s
        <3>1. t \in datapaths /\ SwitchInv(t, f) /\ KnownPath(f)' = KnownPath(f)
            BY <1>1, <1>2, <2>2 DEF DataInv, RoutesStay
        <3> QED
            BY <1>1, <2>2, <3>1, OtherSwitch DEF Expired, Announced
    <2> QED
        BY <2>1, <2>2
<1> QED
    BY <1>3, <1>4, <1>5, <1>6 DEF DataInv

\* What was under way to a switch that disconnects is lost, and nothing is
\* claimed of the switch until it registers again.
LEMMA DisconnectKeepsInv ==
    ASSUME ControlInv, DataInv, NEW s \in Switches, Disconnect(s) PROVE DataInv'
<1>1. /\ registering = Idle /\ registering' = Idle
      /\ datapaths' = datapaths \ {s}
      /\ toSwitch' = [toSwitch EXCEPT ![s] = <<>>]
      /\ notices' = { n \in notices : n.switch # s }
      /\ \/ entries' = entries
         \/ entries' = [entries EXCEPT ![s] = {}]
      /\ \/ meters' = meters
         \/ meters' = [meters EXCEPT ![s] = {}]
      /\ faults < FaultsAllowed /\ faults' = faults + 1
      /\ UNCHANGED <<agenda, flows, expiring>>
    BY DEF Disconnect, EventThreadFree, SwitchDown, stateVars
<1>2. RoutesStay /\ NobodyPlaced
    BY <1>1, OthersStay
<1>3. DataTypeOK'
    <2>1. entries' \in [Switches -> SUBSET Entry]
        BY <1>1 DEF DataInv, DataTypeOK
    <2>2. meters' \in [Switches -> SUBSET Flows]
        BY <1>1 DEF DataInv, DataTypeOK
    <2>3. toSwitch' \in [Switches -> Seq(Message)]
        <3>1. <<>> \in Seq(Message)
            OBVIOUS
        <3> QED
            BY <1>1, <3>1 DEF DataInv, DataTypeOK
    <2>4. notices' \subseteq [switch : ExpiringAt, flow : TimedFlows]
        BY <1>1 DEF DataInv, DataTypeOK
    <2>5. faults' \in 0..FaultsAllowed
        BY <1>1, DataPlaneAssumption DEF DataInv, DataTypeOK
    <2> QED
        BY <1>1, <2>1, <2>2, <2>3, <2>4, <2>5 DEF DataTypeOK
<1>4. \A t \in Switches : toSwitch'[t] = IF t = s THEN <<>> ELSE toSwitch[t]
    BY <1>1 DEF DataInv, DataTypeOK
<1>5. ChannelsOK'
    <2>1. \A t \in Switches : \A i \in 1..Len(toSwitch'[t]) : RulesOfOne(toSwitch'[t][i])
        BY <1>4 DEF DataInv, ChannelsOK
    <2>2. \A t \in Switches \ datapaths' : toSwitch'[t] = <<>>
        BY <1>1, <1>4 DEF DataInv, ChannelsOK
    <2> QED
        BY <1>1, <2>1, <2>2 DEF ChannelsOK
<1>6. RoutesKnown'
    BY <1>2, KnownStaysKnown DEF DataInv
<1>7. ASSUME NEW t \in datapaths', NEW f \in Flows PROVE SwitchInv(t, f)'
    <2>1. t \in datapaths /\ t # s /\ t \in Switches
        BY <1>1 DEF ControlInv, ControlTypeOK
    <2>2. /\ toSwitch'[t] = toSwitch[t]
          /\ entries'[t] = entries[t] /\ meters'[t] = meters[t]
        BY <1>1, <1>4, <2>1 DEF DataInv, DataTypeOK
    <2>3. SwitchInv(t, f) /\ KnownPath(f)' = KnownPath(f)
        BY <1>2, <2>1 DEF DataInv, RoutesStay
    <2>4. Expired(f, t) => Expired(f, t)'
        BY <1>1, <2>1 DEF Expired, Announced
    <2> QED
        BY <1>1, <2>2, <2>3, <2>4, OtherSwitch
<1> QED
    BY <1>3, <1>5, <1>6, <1>7 DEF DataInv

-----------------------------------------------------------------------------
\* Where a message of the event thread ends up.
LEMMA SentAmong ==
    ASSUME DataTypeOK, ChannelsOK, NEW s \in Switches, NEW m \in Message, RulesOfOne(m),
           SendAmong(s, m)
    PROVE  /\ toSwitch' \in [Switches -> Seq(Message)]
           /\ \A t \in Switches \ {s} : toSwitch'[t] = toSwitch[t]
           /\ \/ toSwitch'[s] = Append(toSwitch[s], m)
              \/ toSwitch[s] # <<>> /\ toSwitch'[s] = InsertBeforeLast(toSwitch[s], m)
           /\ \A i \in 1..Len(toSwitch'[s]) : RulesOfOne(toSwitch'[s][i])
<1>1. PICK q, r : /\ q = toSwitch[s]
                  /\ r = Append(q, m) \/ (q # <<>> /\ r = InsertBeforeLast(q, m))
                  /\ toSwitch' = [toSwitch EXCEPT ![s] = r]
    BY DEF SendAmong, InsertBeforeLast
<1>2. /\ q \in Seq(Message) /\ toSwitch \in [Switches -> Seq(Message)]
      /\ \A i \in 1..Len(q) : RulesOfOne(q[i])
    BY <1>1 DEF DataTypeOK, ChannelsOK
<1>3. r \in Seq(Message) /\ \A i \in 1..Len(r) : RulesOfOne(r[i])
    <2>1. CASE r = Append(q, m)
        BY <1>2, <2>1, Appended
    <2>2. CASE q # <<>> /\ r = InsertBeforeLast(q, m)
        <3>1. /\ Len(q) \in Nat \ {0} /\ r \in Seq(Message) /\ Len(r) = Len(q) + 1
              /\ InsertedAt(q, m, r)
            BY <1>2, <2>2, Inserted
        <3>2. PICK n \in Nat \ {0} : n = Len(q)
            BY <3>1
        <3>3. /\ r[n] = m /\ r[n + 1] = q[n]
              /\ \A i \in 1..n : i = n \/ r[i] = q[i]
            BY <3>1, <3>2 DEF InsertedAt
        <3>4. n \in 1..n /\ \A i \in 1..n + 1 : i = n + 1 \/ i \in 1..n
            OBVIOUS
        <3>5. \A i \in 1..n + 1 : RulesOfOne(r[i])
            BY <1>2, <3>2, <3>3, <3>4
        <3> QED
            BY <3>1, <3>2, <3>5
    <2> QED
        BY <1>1, <2>1, <2>2
<1>4. toSwitch'[s] = r
    BY <1>1, <1>2
<1>5. toSwitch' \in [Switches -> Seq(Message)]
    BY <1>1, <1>2, <1>3
<1>6. \A t \in Switches \ {s} : toSwitch'[t] = toSwitch[t]
    BY <1>1, <1>2
<1> QED
    BY <1>1, <1>3, <1>4, <1>5, <1>6

\* What a step of a registration does not touch.
LEMMA RegistrationKeeps ==
    ASSUME ControlInv, DataInv, NEW s, registering # Idle, s = registering.switch,
           toSwitch' \in [Switches -> Seq(Message)],
           \A t \in Switches \ {s} : toSwitch'[t] = toSwitch[t],
           \A i \in 1..Len(toSwitch'[s]) : RulesOfOne(toSwitch'[s][i]),
           UNCHANGED <<vars, entries, meters, notices, faults>>,
           \/ registering' = Idle
           \/ \E stage \in {"wipeMeters", "fill"} :
                 registering' = [registering EXCEPT !.stage = stage],
           \A f \in Flows : SwitchInv(s, f)'
    PROVE  DataInv'
<1>1. UNCHANGED <<agenda, flows, datapaths, expiring>>
    BY DEF vars, stateVars, controlVars
<1>2. RoutesStay /\ NobodyPlaced
    BY <1>1, OthersStay
<1>3. /\ registering \in [switch : Switches, stage : {"wipeFlows", "wipeMeters", "fill"}]
      /\ s \in Switches /\ s \in datapaths
    BY DEF DataInv, DataTypeOK, ChannelsOK
<1>4. /\ registering' = Idle
         \/ registering' \in [switch : Switches, stage : {"wipeFlows", "wipeMeters", "fill"}]
      /\ registering' # Idle => registering'.switch = s
    BY <1>3
<1>5. DataTypeOK'
    BY <1>4 DEF DataInv, DataTypeOK
<1>6. ChannelsOK'
    BY <1>1, <1>3, <1>4 DEF DataInv, ChannelsOK
<1>7. RoutesKnown'
    BY <1>2, KnownStaysKnown DEF DataInv
<1>8. ASSUME NEW t \in datapaths, NEW f \in Flows PROVE SwitchInv(t, f)'
    <2>1. CASE t = s
        BY <2>1
    <2>2. CASE t # s
        <3>1. t \in Switches
            BY DEF ControlInv, ControlTypeOK
        <3>2. SwitchInv(t, f) /\ KnownPath(f)' = KnownPath(f)
            BY <1>2 DEF DataInv, RoutesStay
        <3>3. Expired(f, t) => Expired(f, t)'
            BY <1>1 DEF Expired, Announced
        <3>4. toSwitch'[t] = toSwitch[t]
            BY <2>2, <3>1
        <3> QED
            BY <2>2, <3>2, <3>3, <3>4, OtherSwitch
    <2> QED
        BY <2>1, <2>2
<1> QED
    BY <1>1, <1>5, <1>6, <1>7, <1>8 DEF DataInv

\* The first message of a registration deletes every entry.
LEMMA WipeFlowsKeepsInv ==
    ASSUME ControlInv, DataInv, WipeFlows PROVE DataInv'
<1>1. PICK s, m : s = registering.switch /\ m = Order("delete", Flows)
    OBVIOUS
<1>2. /\ registering.stage = "wipeFlows" /\ registering # Idle
      /\ SendAmong(s, m)
      /\ registering' = [registering EXCEPT !.stage = "wipeMeters"]
      /\ UNCHANGED <<vars, entries, meters, notices, faults>>
    BY <1>1 DEF WipeFlows, Idle
<1>3. /\ registering \in [switch : Switches, stage : {"wipeFlows", "wipeMeters", "fill"}]
      /\ s \in Switches /\ s \in datapaths
    BY <1>1, <1>2 DEF DataInv, DataTypeOK, ChannelsOK
<1>4. m \in Message /\ m.op = "delete" /\ m.flows = Flows /\ RulesOfOne(m)
    BY <1>1, OrdersAreMessages
<1>5. /\ toSwitch' \in [Switches -> Seq(Message)]
      /\ \A t \in Switches \ {s} : toSwitch'[t] = toSwitch[t]
      /\ \/ toSwitch'[s] = Append(toSwitch[s], m)
         \/ toSwitch[s] # <<>> /\ toSwitch'[s] = InsertBeforeLast(toSwitch[s], m)
      /\ \A i \in 1..Len(toSwitch'[s]) : RulesOfOne(toSwitch'[s][i])
    BY <1>2, <1>3, <1>4, SentAmong DEF DataInv
<1>6. UNCHANGED <<agenda, flows>>
    BY <1>2 DEF vars, stateVars, controlVars
<1>7. ASSUME NEW f \in Flows PROVE SwitchInv(s, f)'
    <2>1. PICK q, r, E, M, p :
             /\ q = toSwitch[s] /\ r = toSwitch'[s] /\ E = entries[s] /\ M = meters[s]
             /\ p = KnownPath(f)
        OBVIOUS
    <2>2. p = KnownPath(f)' /\ E = entries'[s] /\ M = meters'[s]
        BY <1>2, <1>6, <2>1, OthersStay DEF RoutesStay
    <2>3. q \in Seq(Message)
        BY <1>3, <2>1 DEF DataInv, DataTypeOK
    <2>4. ~At(s, {"fill"}) /\ At(s, {"wipeFlows", "wipeMeters", "fill"})'
        BY <1>1, <1>2, <1>3 DEF At
    <2>5. /\ RulesAreRight(q, f, p, s)
          /\ MeterComesFirst(q, M, f) \/ s # Source[f]
        BY <1>3, <2>1, <2>4 DEF DataInv, SwitchInv
    <2>6. f \in m.flows
        BY <1>4
    <2>7. /\ RulesAreRight(r, f, p, s)
          /\ EntriesAreRight(r, E, f, p, s)
          /\ MeterComesFirst(r, M, f) \/ s # Source[f]
        <3>1. CASE r = Append(q, m)
            BY <1>4, <2>3, <2>6, <3>1, DeletionSent
        <3>2. CASE q # <<>> /\ r = InsertBeforeLast(q, m)
            <4>1. /\ Decided(r, f)
                  /\ RulesAreRight(q, f, p, s) => RulesAreRight(r, f, p, s)
                  /\ MeterComesFirst(q, M, f) => MeterComesFirst(r, M, f)
                BY <1>4, <2>3, <2>6, <3>2, DeletionInserted
            <4> QED
                BY <2>5, <4>1 DEF EntriesAreRight
        <3> QED
            BY <1>5, <2>1, <3>1, <3>2
    <2> QED
        BY <2>1, <2>2, <2>4, <2>7 DEF SwitchInv
<1> QED
    BY <1>1, <1>2, <1>5, <1>7, RegistrationKeeps

\* The second deletes every meter.
LEMMA WipeMetersKeepsInv ==
    ASSUME ControlInv, DataInv, WipeMeters PROVE DataInv'
<1>1. PICK s, m : s = registering.switch /\ m = Order("dropMeter", Flows)
    OBVIOUS
<1>2. /\ registering.stage = "wipeMeters" /\ registering # Idle
      /\ SendAmong(s, m)
      /\ registering' = [registering EXCEPT !.stage = "fill"]
      /\ UNCHANGED <<vars, entries, meters, notices, faults>>
    BY <1>1 DEF WipeMeters, Idle
<1>3. /\ registering \in [switch : Switches, stage : {"wipeFlows", "wipeMeters", "fill"}]
      /\ s \in Switches /\ s \in datapaths
    BY <1>1, <1>2 DEF DataInv, DataTypeOK, ChannelsOK
<1>4. m \in Message /\ m.op = "dropMeter" /\ m.flows = Flows /\ RulesOfOne(m)
    BY <1>1, OrdersAreMessages
<1>5. /\ toSwitch' \in [Switches -> Seq(Message)]
      /\ \A t \in Switches \ {s} : toSwitch'[t] = toSwitch[t]
      /\ \/ toSwitch'[s] = Append(toSwitch[s], m)
         \/ toSwitch[s] # <<>> /\ toSwitch'[s] = InsertBeforeLast(toSwitch[s], m)
      /\ \A i \in 1..Len(toSwitch'[s]) : RulesOfOne(toSwitch'[s][i])
    BY <1>2, <1>3, <1>4, SentAmong DEF DataInv
<1>6. UNCHANGED <<agenda, flows>>
    BY <1>2 DEF vars, stateVars, controlVars
<1>7. ASSUME NEW f \in Flows PROVE SwitchInv(s, f)'
    <2>1. PICK q, r, E, M, p :
             /\ q = toSwitch[s] /\ r = toSwitch'[s] /\ E = entries[s] /\ M = meters[s]
             /\ p = KnownPath(f)
        OBVIOUS
    <2>2. p = KnownPath(f)' /\ E = entries'[s] /\ M = meters'[s]
        BY <1>2, <1>6, <2>1, OthersStay DEF RoutesStay
    <2>3. q \in Seq(Message)
        BY <1>3, <2>1 DEF DataInv, DataTypeOK
    <2>4. /\ ~At(s, {"fill"}) /\ ~At(s, {"wipeFlows"})
          /\ At(s, {"fill"})' /\ At(s, {"wipeFlows", "wipeMeters", "fill"})'
        BY <1>1, <1>2, <1>3 DEF At
    <2>5. /\ RulesAreRight(q, f, p, s)
          /\ EntriesAreRight(q, E, f, p, s)
        BY <1>3, <2>1, <2>4 DEF DataInv, SwitchInv
    <2>6. /\ RulesAreRight(r, f, p, s)
          /\ EntriesAreRight(r, E, f, p, s)
        BY <1>4, <1>5, <2>1, <2>3, <2>5, MetersWiped
    <2> QED
        BY <2>1, <2>2, <2>4, <2>6 DEF SwitchInv
<1> QED
    BY <1>1, <1>2, <1>5, <1>7, RegistrationKeeps

-----------------------------------------------------------------------------
\* Batches strung together, and what is strung together after k of them.
Strung(flat, n, batches) ==
    flat = [i \in 1..n |-> IF i = 1 THEN batches[i] ELSE flat[i - 1] \o batches[i]]

LEMMA StringsExist ==
    ASSUME NEW batches, NEW n \in Nat
    PROVE  \E flat : Strung(flat, n, batches)
<1> DEFINE T == { k \in Nat : ~ \E flat : Strung(flat, k, batches) }
<1>1. T = {}
    <2> SUFFICES ASSUME T # {} PROVE FALSE
        OBVIOUS
    <2>1. PICK k \in T : \A m \in T : k <= m
        BY LeastNumber
    <2>2. k \in Nat /\ ~ \E flat : Strung(flat, k, batches)
        OBVIOUS
    <2>3. CASE k = 0
        <3>1. \A g : [i \in 1..0 |-> IF i = 1 THEN batches[i] ELSE g[i - 1] \o batches[i]]
                     = [i \in 1..0 |-> i]
            OBVIOUS
        <3>2. Strung([i \in 1..0 |-> i], 0, batches)
            BY <3>1, Zenon DEF Strung
        <3> QED
            BY <2>2, <2>3, <3>2
    <2>4. CASE k # 0
        <3>1. k - 1 \in Nat /\ k - 1 \notin T
            <4> HIDE DEF T
            <4> QED
                BY <2>1, <2>2, <2>4
        <3>2. PICK r : Strung(r, k - 1, batches)
            BY <3>1
        <3>3. \A j \in 1..k - 1 :
                 r[j] = IF j = 1 THEN batches[j] ELSE r[j - 1] \o batches[j]
            BY <3>2, Zenon DEF Strung
        <3> DEFINE q == [i \in 1..k |-> IF i = k
                                        THEN IF k = 1 THEN batches[k]
                                             ELSE r[k - 1] \o batches[k]
                                        ELSE r[i]]
        <3>4. ASSUME NEW i \in 1..k
              PROVE  q[i] = IF i = 1 THEN batches[i] ELSE q[i - 1] \o batches[i]
            <4>1. CASE i = k
                <5>1. k # 1 => k - 1 \in 1..k /\ k - 1 # k
                    BY <2>2, <2>4
                <5>2. k # 1 => q[k - 1] = r[k - 1]
                    BY <5>1
                <5>3. q[k] = IF k = 1 THEN batches[k] ELSE r[k - 1] \o batches[k]
                    BY <4>1
                <5> HIDE DEF q
                <5> QED
                    BY <4>1, <5>2, <5>3
            <4>2. CASE i # k
                <5>1. i \in 1..k - 1
                    BY <2>2, <4>2
                <5>2. i # 1 => i - 1 \in 1..k /\ i - 1 # k
                    BY <2>2, <5>1
                <5>3. i # 1 => q[i - 1] = r[i - 1]
                    BY <5>2
                <5>4. q[i] = r[i]
                    BY <4>2
                <5> HIDE DEF q
                <5> QED
                    BY <3>3, <5>1, <5>3, <5>4
            <4> QED
                BY <4>1, <4>2
        <3>5. q = [i \in 1..k |-> q[i]]
            OBVIOUS
        <3> HIDE DEF q
        <3>6. Strung(q, k, batches)
            BY <3>4, <3>5 DEF Strung
        <3> QED
            BY <2>2, <3>6
    <2> QED
        BY <2>3, <2>4
<1> QED
    BY <1>1

StringOf(flat, n, batches) ==
    /\ flat[1] = batches[1]
    /\ \A i \in 2..n : flat[i] = flat[i - 1] \o batches[i]

LEMMA FlattenFacts ==
    ASSUME NEW n \in Nat \ {0}, NEW batches, Len(batches) = n
    PROVE  \E flat : FlattenSeq(batches) = flat[n] /\ StringOf(flat, n, batches)
<1>1. PICK flat : flat = CHOOSE x : Strung(x, n, batches)
    OBVIOUS
<1>2. Strung(flat, n, batches)
    BY <1>1, StringsExist, Zenon
<1>3. FlattenSeq(batches) = flat[n]
    BY <1>1, Zenon DEF FlattenSeq, Strung
<1>4. \A i \in 1..n : flat[i] = IF i = 1 THEN batches[i] ELSE flat[i - 1] \o batches[i]
    BY <1>2, Zenon DEF Strung
<1>5. 1 \in 1..n /\ \A i \in 2..n : i \in 1..n /\ i # 1
    OBVIOUS
<1> QED
    BY <1>3, <1>4, <1>5 DEF StringOf

LEMMA Reattached ==
    ASSUME NEW q \in Seq(Message), NEW a \in Seq(Message), NEW b \in Seq(Message)
    PROVE  q \o (a \o b) = (q \o a) \o b
BY ConcatAssociative

-----------------------------------------------------------------------------
\* The flows of S in an order, what they are refilled with at s, and a queue
\* in which rules are about one flow.
InOrder(order, n, S) ==
    n \in Nat /\ order \in [1..n -> S] /\ S \subseteq { order[i] : i \in 1..n }

RefillOf(order, n, path, s) == [i \in 1..n |-> Turn(order[i], NoPath, path[order[i]], s)]

Sound(q) == q \in Seq(Message) /\ \A i \in 1..Len(q) : RulesOfOne(q[i])

Through(S, path, s) ==
    /\ S \subseteq Flows
    /\ \A f \in S : path[f] \in PathsFor(f) /\ s \in SwitchesOf(path[f])

ProgrammedFor(q, E, M, S, path, s) == \A f \in S : Programmed(q, E, M, f, path[f], s)

\* A switch is refilled flow by flow.
LEMMA RefillsProgram ==
    ASSUME NEW s \in Switches, NEW S, NEW path, NEW E, NEW M, NEW n, NEW order,
           InOrder(order, n, S), Through(S, path, s), NEW q, Sound(q),
           ProgrammedFor(q, E, M, Flows \ S, path, s),
           NEW r, r = q \o FlattenSeq(RefillOf(order, n, path, s))
    PROVE  Sound(r) /\ ProgrammedFor(r, E, M, Flows, path, s)
<1> USE DEF InOrder, Through, Sound, ProgrammedFor
<1>0. PICK batches : batches = RefillOf(order, n, path, s)
    OBVIOUS
<1> DEFINE Done(k) == { order[i] : i \in 1..k }
           Fine(t, k) == /\ t \in Seq(Message) /\ \A i \in 1..Len(t) : RulesOfOne(t[i])
                         /\ \A f \in (Flows \ S) \cup Done(k) :
                               Programmed(t, E, M, f, path[f], s)
<1>1. \A i \in 1..n : batches[i] = Turn(order[i], NoPath, path[order[i]], s)
    BY <1>0 DEF RefillOf
<1>2. ASSUME NEW k \in 0..n, k # n, NEW t, Fine(t, k)
      PROVE  Fine(t \o batches[k + 1], k + 1)
    <2>1. k + 1 \in 1..n
        BY <1>2
    <2>2. PICK f \in S : f = order[k + 1]
        BY <2>1
    <2>3. PICK u : u = t \o Turn(f, NoPath, path[f], s)
        OBVIOUS
    <2>4. u = t \o batches[k + 1]
        BY <1>1, <2>1, <2>2, <2>3
    <2>5. f \in Flows /\ path[f] \in PathsFor(f) /\ s \in SwitchesOf(path[f])
        BY <2>2
    <2>6. u \in Seq(Message) /\ \A i \in 1..Len(u) : RulesOfOne(u[i])
        BY <1>2, <2>3, <2>5, TurnIsMessages
    <2>7. Programmed(u, E, M, f, path[f], s)
        BY <1>2, <2>3, <2>5, TurnInstalls
    <2>8. ASSUME NEW g \in Flows \ {f}, Programmed(t, E, M, g, path[g], s)
          PROVE  Programmed(u, E, M, g, path[g], s)
        <3>1. TurnsRight(t, u, E, M, g, path[g], path[g], s)
            BY <1>2, <2>3, <2>5, TurnKeepsOthers
        <3> QED
            BY <2>8, <3>1 DEF Programmed, TurnsRight
    <2>9. \A i \in 1..k + 1 : i = k + 1 \/ i \in 1..k
        BY <1>2
    <2>10. \A g \in Done(k + 1) : g = f \/ g \in Done(k)
        BY <2>2, <2>9
    <2>11. \A g \in Done(k + 1) : g \in Flows
        <3>1. \A i \in 1..k + 1 : i \in 1..n
            BY <1>2, <2>1
        <3> QED
            BY <3>1
    <2> HIDE DEF Done
    <2>12. \A g \in (Flows \ S) \cup Done(k + 1) : Programmed(u, E, M, g, path[g], s)
        BY <1>2, <2>7, <2>8, <2>10, <2>11
    <2> QED
        BY <2>4, <2>6, <2>12
<1>3. Fine(q, 0)
    <2>1. Done(0) = {}
        OBVIOUS
    <2> HIDE DEF Done
    <2> QED
        BY <2>1
<1>4. ASSUME NEW f \in Flows PROVE f \in (Flows \ S) \cup Done(n)
    OBVIOUS
<1>5. ASSUME NEW i \in 1..n PROVE batches[i] \in Seq(Message)
    <2>1. PICK f \in S : f = order[i]
        BY <1>5
    <2>2. PICK a, m : a = Order("meter", {f}) /\ m = Rules(f, path[f], s)
        OBVIOUS
    <2>3. f \in Flows /\ path[f] \in PathsFor(f) /\ s \in SwitchesOf(path[f])
        BY <2>1
    <2>4. a \in Message /\ m \in Message
        BY <2>2, <2>3, OrdersAreMessages, PathEnds, RulesAreMessages
    <2>5. batches[i] = <<a, m>> \/ batches[i] = <<m>>
        BY <1>1, <2>1, <2>2, <2>3 DEF Turn
    <2>6. <<a, m>> \in Seq(Message) /\ <<m>> \in Seq(Message)
        BY <2>4
    <2> QED
        BY <2>5, <2>6, Zenon
<1>6. Len(batches) = n
    BY <1>0 DEF RefillOf
<1> HIDE DEF Fine, Done
<1>7. CASE n = 0
    <2>1. batches = <<>>
        BY <1>0, <1>7 DEF RefillOf
    <2>2. FlattenSeq(batches) = batches
        BY <1>6, <1>7, Zenon DEF FlattenSeq
    <2>3. q \o <<>> = q
        BY ConcatEmptySeq
    <2>4. r = q
        BY <1>0, <2>1, <2>2, <2>3
    <2> QED
        BY <1>3, <1>4, <1>7, <2>4 DEF Fine
<1>8. CASE n # 0
    <2>0. n \in Nat \ {0}
        BY <1>8
    <2>1. PICK flat : FlattenSeq(batches) = flat[n] /\ StringOf(flat, n, batches)
        BY <1>6, <2>0, FlattenFacts
    <2> DEFINE Ok(k) == flat[k] \in Seq(Message) /\ Fine(q \o flat[k], k)
               T == { k \in Nat : k \in 1..n /\ ~Ok(k) }
    <2>2. T = {}
        <3> SUFFICES ASSUME T # {} PROVE FALSE
            OBVIOUS
        <3>1. PICK k \in T : \A m \in T : k <= m
            BY LeastNumber
        <3>2. k \in 1..n /\ ~Ok(k)
            OBVIOUS
        <3>3. CASE k = 1
            <4>1. 0 \in 0..n /\ 0 # n /\ 0 + 1 = 1 /\ 1 \in 1..n
                BY <1>8
            <4>2. Fine(q \o batches[0 + 1], 0 + 1)
                BY <1>2, <1>3, <4>1
            <4>3. flat[1] \in Seq(Message) /\ Fine(q \o flat[1], 1)
                BY <1>5, <2>1, <4>1, <4>2 DEF StringOf
            <4> QED
                BY <3>2, <3>3, <4>3
        <3>4. CASE k # 1
            <4>1. k - 1 \in Nat /\ k - 1 \in 1..n /\ k \in 2..n /\ k - 1 \notin T
                <5>1. k - 1 \in Nat /\ k - 1 \in 1..n /\ k \in 2..n /\ ~(k <= k - 1)
                    BY <3>2, <3>4
                <5> HIDE DEF T
                <5> QED
                    BY <3>1, <5>1
            <4>2. Ok(k - 1)
                BY <4>1
            <4>3. flat[k] = flat[k - 1] \o batches[k]
                BY <2>1, <4>1 DEF StringOf
            <4>4. flat[k - 1] \in Seq(Message) /\ batches[k] \in Seq(Message)
                BY <1>5, <3>2, <4>2
            <4>5. q \o flat[k] = (q \o flat[k - 1]) \o batches[k]
                <5>1. PICK b, c : b = flat[k - 1] /\ c = batches[k]
                    OBVIOUS
                <5>2. b \in Seq(Message) /\ c \in Seq(Message)
                    BY <4>4, <5>1
                <5>3. q \o (b \o c) = (q \o b) \o c
                    BY <5>2, Reattached
                <5> QED
                    BY <4>3, <5>1, <5>3
            <4>6. flat[k] \in Seq(Message)
                BY <4>3, <4>4, ConcatProperties
            <4>7. k - 1 \in 0..n /\ k - 1 # n /\ (k - 1) + 1 = k
                BY <3>2
            <4>8. Fine((q \o flat[k - 1]) \o batches[(k - 1) + 1], (k - 1) + 1)
                BY <1>2, <4>2, <4>7
            <4> QED
                BY <3>2, <4>5, <4>6, <4>7, <4>8
        <3> QED
            BY <3>3, <3>4
    <2>3. Ok(n)
        <3>1. n \in Nat /\ n \in 1..n
            BY <1>8
        <3> HIDE DEF Ok
        <3> QED
            BY <2>2, <3>1
    <2> QED
        BY <1>0, <1>4, <2>1, <2>3 DEF Fine
<1> QED
    BY <1>7, <1>8

\* What a refill of f is made of is what its path turns into.
LEMMA RefillIsTurn ==
    ASSUME NEW f \in Flows, NEW o \in PathsFor(f), NEW s \in SwitchesOf(o)
    PROVE  InstallFlow(f, o, {s})[s] = Turn(f, NoPath, o, s)
<1>1. o[1] = Source[f] /\ s \in Switches
    BY PathEnds
<1>2. PICK a, m : a = Order("meter", {f}) /\ m = Rules(f, o, s)
    OBVIOUS
<1>3. a \in Message /\ m \in Message
    BY <1>2, OrdersAreMessages, PathEnds, RulesAreMessages
<1>4. <<a>> \o <<m>> = <<a, m>>
    BY <1>3, Attached, EmptySeq
<1>5. <<>> \o <<m>> = <<m>>
    BY <1>3, Attached, EmptySeq
<1> QED
    BY <1>1, <1>2, <1>4, <1>5 DEF InstallFlow, Turn

\* switch_features_handler programs, in the order of the table, the ACTIVE
\* flows whose path crosses the switch.
LEMMA RefillKeepsInv ==
    ASSUME ControlInv, DataInv, Refill PROVE DataInv'
<1>1. PICK s, S : /\ s = registering.switch
                  /\ S = { f \in Flows : Active(f) /\ s \in SwitchesOf(flows[f].path) }
    OBVIOUS
<1>2. /\ registering.stage = "fill" /\ holder = "none" /\ registering' = Idle
      /\ UNCHANGED <<vars, entries, meters, notices, faults>>
      /\ \E batch \in Refills(s) : toSwitch' = [toSwitch EXCEPT ![s] = @ \o batch]
    BY <1>1 DEF Refill
<1>3. /\ registering # Idle
      /\ registering \in [switch : Switches, stage : {"wipeFlows", "wipeMeters", "fill"}]
      /\ s \in Switches /\ s \in datapaths
    BY <1>1, <1>2 DEF DataInv, DataTypeOK, ChannelsOK, Idle
<1>4. UNCHANGED <<agenda, flows>>
    BY <1>2 DEF vars, stateVars, controlVars
<1>5. PICK path : path = [f \in Flows |-> flows[f].path]
    OBVIOUS
<1>6. \A f \in Flows : path[f] = KnownPath(f) /\ path[f] = KnownPath(f)'
    BY <1>2, <1>4, <1>5, KnownAtRest, OthersStay DEF RoutesStay
<1>7. S \in SUBSET Flows
    BY <1>1
<1>8. \A f \in S : path[f] \in PathsFor(f) /\ s \in SwitchesOf(path[f])
    <2>1. \A f \in Flows : path[f] \in PathsFor(f) \cup {NoPath}
        BY <1>6 DEF DataInv, RoutesKnown
    <2> QED
        BY <1>1, <1>5, <2>1, NoPathNoSwitches
<1>9. PICK order \in Oldest(S) :
         toSwitch' = [toSwitch EXCEPT ![s] = @ \o FlattenSeq([i \in DOMAIN order |->
                         InstallFlow(order[i], flows[order[i]].path, {s})[s]])]
    <2>1. PICK batch \in Refills(s) : toSwitch' = [toSwitch EXCEPT ![s] = @ \o batch]
        BY <1>2
    <2>2. Refills(s) = { FlattenSeq([i \in DOMAIN order |->
                            InstallFlow(order[i], flows[order[i]].path, {s})[s]]) :
                         order \in Oldest(S) }
        BY <1>1, Zenon DEF Refills, ForEach
    <2>3. PICK order \in Oldest(S) :
             batch = FlattenSeq([i \in DOMAIN order |->
                        InstallFlow(order[i], flows[order[i]].path, {s})[s]])
        BY <2>1, <2>2, Zenon
    <2> QED
        BY <2>1, <2>3, Zenon
<1>10. PICK n \in Nat : n = Cardinality(S)
    BY <1>7, FS_Subset, FS_CardinalityType, WorkloadAssumption
<1>11. /\ order \in [1..n -> S] /\ DOMAIN order = 1..n
       /\ \A i, j \in 1..n : i < j => order[i] # order[j]
    BY <1>9, <1>10 DEF Oldest, Orderings
<1>12. S \subseteq { order[i] : i \in 1..n }
    BY <1>7, <1>10, <1>11, EnumerationCovers
<1>13. PICK batches : batches = [i \in 1..n |-> Turn(order[i], NoPath, path[order[i]], s)]
    OBVIOUS
<1>14. [i \in DOMAIN order |-> InstallFlow(order[i], flows[order[i]].path, {s})[s]] = batches
    <2>1. ASSUME NEW i \in 1..n
          PROVE  InstallFlow(order[i], flows[order[i]].path, {s})[s] = batches[i]
        <3>1. PICK f \in S : f = order[i]
            BY <1>11, <2>1
        <3>2. InstallFlow(f, path[f], {s})[s] = Turn(f, NoPath, path[f], s)
            BY <1>7, <1>8, RefillIsTurn
        <3>3. batches[i] = Turn(f, NoPath, path[f], s) /\ path[f] = flows[f].path
            BY <1>5, <1>7, <1>13, <2>1, <3>1
        <3> QED
            BY <3>1, <3>2, <3>3
    <2> QED
        BY <1>11, <1>13, <2>1
<1>15. PICK q, r, E, M : /\ q = toSwitch[s] /\ r = q \o FlattenSeq(batches)
                         /\ E = entries[s] /\ M = meters[s]
    OBVIOUS
<1>16. toSwitch' = [toSwitch EXCEPT ![s] = r]
    BY <1>9, <1>14, <1>15
<1>17. /\ toSwitch \in [Switches -> Seq(Message)] /\ q \in Seq(Message)
       /\ \A i \in 1..Len(q) : RulesOfOne(q[i])
    BY <1>3, <1>15 DEF DataInv, DataTypeOK, ChannelsOK
<1>18. ASSUME NEW f \in Flows \ S
       PROVE  Programmed(q, E, M, f, path[f], s)
    <2>1. s \notin SwitchesOf(path[f])
        <3>1. CASE Active(f)
            BY <1>1, <1>5, <3>1
        <3>2. CASE ~Active(f)
            BY <1>5, <3>2, IdleHasNoPath, NoPathNoSwitches
        <3> QED
            BY <3>1, <3>2
    <2>2. s = Source[f] => path[f] = NoPath
        BY <1>6, <2>1, PathEnds DEF DataInv, RoutesKnown
    <2>3. ~At(s, {"wipeFlows"})
        BY <1>2 DEF At
    <2>4. /\ RulesAreRight(q, f, path[f], s)
          /\ EntriesAreRight(q, E, f, path[f], s)
        BY <1>3, <1>6, <1>15, <2>2, <2>3 DEF DataInv, SwitchInv
    <2>5. MeterComesFirst(q, M, f)
        BY <2>1, <2>4 DEF RulesAreRight, MeterComesFirst
    <2>6. NothingMissing(q, E, M, f, path[f], s)
        BY <2>1 DEF NothingMissing
    <2> QED
        BY <2>4, <2>5, <2>6 DEF Programmed
<1>19. Sound(r) /\ ProgrammedFor(r, E, M, Flows, path, s)
    <2>1. s \in Switches
        BY <1>3
    <2>2. InOrder(order, n, S) /\ Through(S, path, s)
        BY <1>7, <1>8, <1>11, <1>12 DEF InOrder, Through
    <2>3. Sound(q)
        BY <1>17 DEF Sound
    <2>4. ProgrammedFor(q, E, M, Flows \ S, path, s)
        BY <1>18 DEF ProgrammedFor
    <2>5. r = q \o FlattenSeq(RefillOf(order, n, path, s))
        BY <1>13, <1>15 DEF RefillOf
    <2> QED
        BY <2>1, <2>2, <2>3, <2>4, <2>5, RefillsProgram
<1>20. /\ toSwitch'[s] = r /\ toSwitch' \in [Switches -> Seq(Message)]
       /\ \A t \in Switches \ {s} : toSwitch'[t] = toSwitch[t]
    BY <1>3, <1>16, <1>17, <1>19 DEF Sound
<1>21. \A f \in Flows : SwitchInv(s, f)'
    <2> SUFFICES ASSUME NEW f \in Flows PROVE SwitchInv(s, f)'
        OBVIOUS
    <2>1. Programmed(r, entries'[s], meters'[s], f, KnownPath(f)', s)
        BY <1>2, <1>6, <1>15, <1>19 DEF ProgrammedFor
    <2> QED
        BY <1>20, <2>1 DEF Programmed, SwitchInv
<1> QED
    BY <1>1, <1>2, <1>3, <1>19, <1>20, <1>21, RegistrationKeeps DEF Sound

-----------------------------------------------------------------------------
\* What a message does to the entries and the meter of f: E and M before, D
\* and L after.
Effect(m, f, s, E, M, D, L) ==
    /\ ~Settles(m, f) => EntriesIn(D, f) \subseteq EntriesIn(E, f)
    /\ ~Settles(m, f) /\ (s # Source[f] \/ ~Touches(m, f)) => EntriesIn(D, f) = EntriesIn(E, f)
    /\ m.op = "delete" /\ f \in m.flows => EntriesIn(D, f) = {}
    /\ m.op = "rules" /\ f \in m.flows /\ (s # Source[f] \/ f \in M) =>
          EntriesIn(D, f) = m.rules
    /\ f \in M /\ ~(m.op = "dropMeter" /\ f \in m.flows) => f \in L
    /\ m.op = "meter" /\ f \in m.flows => f \in L

\* Every message a switch takes has one of the effects.
LEMMA MessageHasEffect ==
    ASSUME NEW s, NEW f \in Flows, NEW m \in Message, RulesOfOne(m)
    PROVE  Effect(m, f, s, entries[s], meters[s], ApplyEntries(s, m), ApplyMeters(s, m))
<1>1. PICK E, M, D, L, others :
         /\ E = entries[s] /\ M = meters[s]
         /\ D = ApplyEntries(s, m) /\ L = ApplyMeters(s, m)
         /\ others = { e \in E : e.flow \notin m.flows }
    OBVIOUS
<1>2. m.op \in {"meter", "rules", "delete", "dropMeter"}
    BY DEF Message
<1>3. f \in m.flows => EntriesIn(others, f) = {}
    BY <1>1 DEF EntriesIn
<1>4. f \notin m.flows => EntriesIn(others, f) = EntriesIn(E, f)
    BY <1>1 DEF EntriesIn
<1>5. CASE m.op = "rules"
    <2>1. PICK g \in Flows : m.flows = {g} /\ \A e \in m.rules : e.flow = g
        BY <1>5 DEF RulesOfOne
    <2>2. D = IF Accepted(s, m) THEN others \cup m.rules ELSE E
        BY <1>1, <1>5 DEF ApplyEntries
    <2>3. f # g => EntriesIn(D, f) = EntriesIn(E, f)
        <3>1. f # g => EntriesIn(others \cup m.rules, f) = EntriesIn(others, f)
            BY <2>1 DEF EntriesIn
        <3> QED
            BY <1>4, <2>1, <2>2, <3>1
    <2>4. f = g /\ (s # Source[f] \/ f \in M) => EntriesIn(D, f) = m.rules
        <3>1. f = g /\ (s # Source[f] \/ f \in M) => Accepted(s, m)
            BY <1>1, <2>1 DEF Accepted
        <3>2. f = g => EntriesIn(others \cup m.rules, f) = m.rules
            BY <1>3, <2>1 DEF EntriesIn
        <3> QED
            BY <2>2, <3>1, <3>2
    <2>5. L = M
        BY <1>1, <1>5 DEF ApplyMeters
    <2> QED
        BY <1>1, <1>5, <2>1, <2>3, <2>4, <2>5 DEF Effect, Settles
<1>6. CASE m.op = "delete"
    <2>1. D = others /\ L = M
        BY <1>1, <1>6 DEF ApplyEntries, ApplyMeters
    <2> QED
        BY <1>1, <1>3, <1>4, <1>6, <2>1 DEF Effect, Settles
<1>7. CASE m.op \in {"meter", "dropMeter"}
    <2>1. D = others \cup (E \ Metered(s))
        BY <1>1, <1>7 DEF ApplyEntries
    <2>2. EntriesIn(D, f) \subseteq EntriesIn(E, f)
        BY <1>1, <2>1 DEF EntriesIn
    <2>3. s # Source[f] => EntriesIn(D, f) = EntriesIn(E, f)
        BY <1>1, <2>1 DEF EntriesIn, Metered
    <2>4. f \notin m.flows => EntriesIn(D, f) = EntriesIn(E, f)
        BY <1>1, <2>1 DEF EntriesIn
    <2>5. L = IF m.op = "meter" THEN M \cup m.flows ELSE M \ m.flows
        BY <1>1, <1>7 DEF ApplyMeters
    <2> QED
        BY <1>1, <1>7, <2>2, <2>3, <2>4, <2>5 DEF Effect, Settles, Touches
<1> QED
    BY <1>2, <1>5, <1>6, <1>7

-----------------------------------------------------------------------------
\* A message leaves the queue.
LEMMA TailIs ==
    ASSUME NEW q \in Seq(Message), q # <<>>, NEW r, r = Tail(q)
    PROVE  /\ Len(q) \in Nat \ {0} /\ r \in Seq(Message) /\ Len(r) = Len(q) - 1
           /\ Head(q) = q[1] /\ q[1] \in Message
           /\ \A i \in 1..Len(r) : i + 1 \in 1..Len(q) /\ r[i] = q[i + 1]
<1>1. Len(q) \in Nat \ {0}
    BY EmptySeq
<1>2. /\ r \in Seq(Message) /\ Len(r) = Len(q) - 1 /\ Head(q) = q[1]
      /\ \A i \in 1..Len(r) : r[i] = q[i + 1]
    BY HeadTailProperties
<1>3. 1 \in 1..Len(q)
    BY <1>1
<1>4. \A i \in 1..Len(r) : i + 1 \in 1..Len(q)
    BY <1>1, <1>2
<1> QED
    BY <1>1, <1>2, <1>3, <1>4, ElementOfSeq

LEMMA TailSays ==
    ASSUME NEW q \in Seq(Message), q # <<>>, NEW r, r = Tail(q), NEW f
    PROVE  /\ \A i : LastWord(r, f, i) => LastWord(q, f, i + 1)
           /\ Decided(r, f) => Decided(q, f)
           /\ Decided(q, f) /\ ~Decided(r, f) => LastWord(q, f, 1)
<1>1. PICK n \in Nat : /\ Len(q) = n + 1 /\ Len(r) = n
                       /\ \A i \in 1..n : r[i] = q[i + 1]
    <2>1. Len(q) - 1 \in Nat /\ Len(q) = (Len(q) - 1) + 1
        BY TailIs
    <2> QED
        BY <2>1, TailIs
<1>2. \A i \in 1..n : i + 1 \in 1..n + 1
    OBVIOUS
<1>3. ASSUME NEW i \in 1..n + 1, i # 1
      PROVE  i - 1 \in 1..n /\ q[i] = r[i - 1]
    <2>1. i - 1 \in 1..n /\ (i - 1) + 1 = i
        BY <1>3
    <2> QED
        BY <1>1, <2>1
<1>4. ASSUME NEW i, LastWord(r, f, i) PROVE LastWord(q, f, i + 1)
    <2>1. i \in 1..n /\ Settles(r[i], f)
        BY <1>1, <1>4 DEF LastWord
    <2>2. \A j \in 1..n + 1 : Settles(q[j], f) => j <= i + 1
        <3> SUFFICES ASSUME NEW j \in 1..n + 1, Settles(q[j], f), j # 1 PROVE j <= i + 1
            BY <2>1
        <3>1. j - 1 <= i
            BY <1>1, <1>3, <1>4 DEF LastWord
        <3> QED
            BY <2>1, <3>1
    <2> QED
        BY <1>1, <1>2, <2>1, <2>2 DEF LastWord
<1>5. Decided(r, f) => Decided(q, f)
    BY <1>1, <1>2 DEF Decided
<1>6. ASSUME Decided(q, f), ~Decided(r, f) PROVE LastWord(q, f, 1)
    <2>1. \A i \in 1..n + 1 : Settles(q[i], f) => i = 1
        BY <1>1, <1>3, <1>6 DEF Decided
    <2>2. 1 \in 1..n + 1 /\ \A i \in 1..n + 1 : i = 1 => i <= 1
        OBVIOUS
    <2> QED
        BY <1>1, <1>6, <2>1, <2>2 DEF Decided, LastWord
<1> QED
    BY <1>4, <1>5, <1>6

-----------------------------------------------------------------------------
\* A message is applied: what was right stays right.
LEMMA AppliedRules ==
    ASSUME NEW q \in Seq(Message), q # <<>>, NEW r, r = Tail(q), NEW f, NEW p, NEW s,
           RulesAreRight(q, f, p, s)
    PROVE  RulesAreRight(r, f, p, s)
<1> SUFFICES ASSUME NEW i \in 1..Len(r), LastWord(r, f, i), r[i].op = "rules"
             PROVE  s \in SwitchesOf(p) /\ r[i].rules = EntriesOf(f, p, s)
    BY DEF RulesAreRight
<1>1. i + 1 \in 1..Len(q) /\ r[i] = q[i + 1]
    BY TailIs
<1>2. LastWord(q, f, i + 1)
    BY TailSays
<1> QED
    BY <1>1, <1>2 DEF RulesAreRight

\* A meter message applied: the last rules still find their meter.
LEMMA AppliedMeter ==
    ASSUME NEW q \in Seq(Message), q # <<>>, NEW r, r = Tail(q),
           NEW f, NEW s, NEW E, NEW M, NEW D, NEW L,
           Effect(Head(q), f, s, E, M, D, L), MeterComesFirst(q, M, f)
    PROVE  MeterComesFirst(r, L, f)
<1> SUFFICES ASSUME NEW i \in 1..Len(r), LastWord(r, f, i), r[i].op = "rules"
             PROVE  \E j \in 0..i - 1 :
                       /\ IF j = 0 THEN f \in L ELSE r[j].op = "meter" /\ f \in r[j].flows
                       /\ \A k \in j + 1..i - 1 :
                             ~(r[k].op = "dropMeter" /\ f \in r[k].flows)
    BY DEF MeterComesFirst
<1>1. /\ Len(r) \in Nat /\ Head(q) = q[1]
      /\ \A k \in 1..Len(r) : k + 1 \in 1..Len(q) /\ r[k] = q[k + 1]
    BY TailIs
<1>2. LastWord(q, f, i + 1) /\ q[i + 1].op = "rules" /\ i + 1 \in 1..Len(q)
    BY <1>1, TailSays
<1>3. (i + 1) - 1 = i
    BY <1>1
<1>4. PICK j \in 0..i :
         /\ IF j = 0 THEN f \in M ELSE q[j].op = "meter" /\ f \in q[j].flows
         /\ \A k \in j + 1..i : ~(q[k].op = "dropMeter" /\ f \in q[k].flows)
    BY <1>2, <1>3 DEF MeterComesFirst
<1>5. CASE j \in {0, 1}
    <2>1. f \in L
        <3>1. CASE j = 0
            <4>1. 1 \in j + 1..i
                BY <3>1
            <4> QED
                BY <1>1, <1>4, <3>1, <4>1 DEF Effect
        <3>2. CASE j = 1
            BY <1>1, <1>4, <3>2 DEF Effect
        <3> QED
            BY <1>5, <3>1, <3>2
    <2>2. \A k \in 0 + 1..i - 1 : k + 1 \in j + 1..i /\ r[k] = q[k + 1]
        <3>1. \A k \in 0 + 1..i - 1 : k \in 1..Len(r) /\ k + 1 \in j + 1..i
            BY <1>1, <1>5
        <3> QED
            BY <1>1, <3>1
    <2>3. 0 \in 0..i - 1
        BY <1>1
    <2> QED
        BY <1>4, <2>1, <2>2, <2>3
<1>6. CASE j \notin {0, 1}
    <2>1. j - 1 \in 0..i - 1 /\ j - 1 # 0 /\ j - 1 \in 1..Len(r) /\ (j - 1) + 1 = j
        BY <1>1, <1>6
    <2>2. r[j - 1] = q[j] /\ j # 0
        BY <1>1, <1>6, <2>1
    <2>3. \A k \in (j - 1) + 1..i - 1 : k + 1 \in j + 1..i /\ r[k] = q[k + 1]
        <3>1. \A k \in (j - 1) + 1..i - 1 : k \in 1..Len(r) /\ k + 1 \in j + 1..i
            BY <1>1, <1>6
        <3> QED
            BY <1>1, <3>1
    <2>4. \A k \in (j - 1) + 1..i - 1 : ~(r[k].op = "dropMeter" /\ f \in r[k].flows)
        BY <1>4, <2>3
    <2>5. r[j - 1].op = "meter" /\ f \in r[j - 1].flows
        BY <1>4, <2>2
    <2> QED
        BY <2>1, <2>4, <2>5
<1> QED
    BY <1>5, <1>6

\* The entries of f after the last word about it: those of its path, unless
\* they were refused for want of the meter.
LEMMA LastWordApplied ==
    ASSUME NEW q \in Seq(Message), q # <<>>, NEW f, NEW p, NEW s,
           NEW E, NEW M, NEW D, NEW L, LastWord(q, f, 1),
           Effect(Head(q), f, s, E, M, D, L), RulesAreRight(q, f, p, s)
    PROVE  /\ q[1].op \in {"rules", "delete"}
           /\ q[1].op = "delete" => EntriesIn(D, f) = {}
           /\ q[1].op = "rules" =>
                 /\ s \in SwitchesOf(p)
                 /\ s # Source[f] \/ f \in M => EntriesIn(D, f) = EntriesOf(f, p, s)
                 /\ MeterComesFirst(q, M, f) => f \in M
           /\ f \in M => f \in L
<1>1. Head(q) = q[1] /\ 1 \in 1..Len(q)
    BY TailIs DEF LastWord
<1>2. Settles(q[1], f)
    BY DEF LastWord
<1>3. q[1].op = "rules" => s \in SwitchesOf(p) /\ q[1].rules = EntriesOf(f, p, s)
    BY <1>1 DEF RulesAreRight
<1>4. q[1].op = "rules" /\ MeterComesFirst(q, M, f) => f \in M
    <2>1. \A j \in 0..1 - 1 : j = 0
        OBVIOUS
    <2> QED
        BY <1>1, <2>1 DEF MeterComesFirst
<1> QED
    BY <1>1, <1>2, <1>3, <1>4 DEF Effect, Settles

\* The last word applied leaves the right entries.
LEMMA AppliedEntries ==
    ASSUME NEW q \in Seq(Message), q # <<>>, NEW r, r = Tail(q), NEW f, NEW p, NEW s,
           NEW E, NEW M, NEW D, NEW L, Effect(Head(q), f, s, E, M, D, L),
           RulesAreRight(q, f, p, s), EntriesAreRight(q, E, f, p, s)
    PROVE  \/ EntriesAreRight(r, D, f, p, s)
           \/ s = Source[f] /\ s \in SwitchesOf(p) /\ ~MeterComesFirst(q, M, f)
<1> SUFFICES ASSUME ~Decided(r, f),
                    s # Source[f] \/ s \notin SwitchesOf(p) \/ MeterComesFirst(q, M, f)
             PROVE  EntriesIn(D, f) \subseteq RightEntries(f, p, s)
    BY DEF EntriesAreRight
<1>1. CASE Decided(q, f)
    <2>1. LastWord(q, f, 1)
        BY <1>1, TailSays
    <2>2. /\ q[1].op \in {"rules", "delete"}
          /\ q[1].op = "delete" => EntriesIn(D, f) = {}
          /\ q[1].op = "rules" =>
                /\ s \in SwitchesOf(p)
                /\ s # Source[f] \/ f \in M => EntriesIn(D, f) = EntriesOf(f, p, s)
                /\ MeterComesFirst(q, M, f) => f \in M
        BY <2>1, LastWordApplied
    <2> QED
        BY <2>2 DEF RightEntries
<1>2. CASE ~Decided(q, f)
    <2>1. ~Settles(q[1], f) /\ Head(q) = q[1]
        <3>1. 1 \in 1..Len(q) /\ Head(q) = q[1]
            BY TailIs
        <3> QED
            BY <1>2, <3>1 DEF Decided
    <2> QED
        BY <1>2, <2>1 DEF Effect, EntriesAreRight
<1> QED
    BY <1>1, <1>2

\* A message applied takes nothing away that is needed and not under way.
LEMMA AppliedMissing ==
    ASSUME NEW q \in Seq(Message), q # <<>>, NEW r, r = Tail(q), NEW f, NEW p, NEW s,
           NEW E, NEW M, NEW D, NEW L, Effect(Head(q), f, s, E, M, D, L),
           RulesAreRight(q, f, p, s), NothingMissing(q, E, M, f, p, s),
           MeterComesFirst(q, M, f) \/ s # Source[f]
    PROVE  NothingMissing(r, D, L, f, p, s)
<1> SUFFICES ASSUME s \in SwitchesOf(p)
             PROVE  /\ \A i \in 1..Len(r) : LastWord(r, f, i) => r[i].op = "rules"
                    /\ ~Decided(r, f) => EntriesIn(D, f) = EntriesOf(f, p, s)
                    /\ s = Source[f] =>
                          /\ ~Decided(r, f) => f \in L
                          /\ \A j \in 1..Len(r) : Touches(r[j], f) =>
                                \E i \in j + 1..Len(r) : Settles(r[i], f)
    BY DEF NothingMissing
<1>1. /\ Len(q) \in Nat \ {0} /\ Len(r) = Len(q) - 1
      /\ Head(q) = q[1] /\ 1 \in 1..Len(q)
      /\ \A i \in 1..Len(r) : i + 1 \in 1..Len(q) /\ r[i] = q[i + 1]
    BY TailIs
<1>2. /\ \A i \in 1..Len(q) : LastWord(q, f, i) => q[i].op = "rules"
      /\ ~Decided(q, f) => EntriesIn(E, f) = EntriesOf(f, p, s)
      /\ s = Source[f] =>
            /\ ~Decided(q, f) => f \in M
            /\ \A j \in 1..Len(q) : Touches(q[j], f) =>
                  \E i \in j + 1..Len(q) : Settles(q[i], f)
    BY DEF NothingMissing
<1>3. \A i \in 1..Len(r) : LastWord(r, f, i) => r[i].op = "rules"
    <2> SUFFICES ASSUME NEW i \in 1..Len(r), LastWord(r, f, i) PROVE r[i].op = "rules"
        OBVIOUS
    <2>1. LastWord(q, f, i + 1)
        BY TailSays
    <2> QED
        BY <1>1, <1>2, <2>1
<1>4. ASSUME ~Decided(r, f)
      PROVE  EntriesIn(D, f) = EntriesOf(f, p, s) /\ (s = Source[f] => f \in L)
    <2>1. CASE Decided(q, f)
        <3>1. LastWord(q, f, 1)
            BY <1>4, <2>1, TailSays
        <3>2. q[1].op = "rules"
            BY <1>1, <1>2, <3>1
        <3>3. /\ s # Source[f] \/ f \in M => EntriesIn(D, f) = EntriesOf(f, p, s)
              /\ MeterComesFirst(q, M, f) => f \in M
              /\ f \in M => f \in L
            <4>1. /\ q[1].op = "rules" =>
                        /\ s \in SwitchesOf(p)
                        /\ s # Source[f] \/ f \in M => EntriesIn(D, f) = EntriesOf(f, p, s)
                        /\ MeterComesFirst(q, M, f) => f \in M
                  /\ f \in M => f \in L
                BY <3>1, LastWordApplied
            <4> QED
                BY <3>2, <4>1
        <3> QED
            BY <3>3
    <2>2. CASE ~Decided(q, f)
        <3>1. ~Settles(q[1], f)
            BY <1>1, <2>2 DEF Decided
        <3>2. s = Source[f] => ~Touches(q[1], f)
            <4> SUFFICES ASSUME s = Source[f], Touches(q[1], f) PROVE FALSE
                OBVIOUS
            <4>1. PICK i \in 1 + 1..Len(q) : Settles(q[i], f)
                BY <1>1, <1>2
            <4>2. i \in 1..Len(q)
                BY <1>1
            <4> QED
                BY <2>2, <4>1, <4>2 DEF Decided
        <3>3. EntriesIn(D, f) = EntriesIn(E, f)
            BY <1>1, <3>1, <3>2 DEF Effect
        <3>4. s = Source[f] => f \in L
            BY <1>1, <1>2, <2>2, <3>2 DEF Effect, Touches
        <3> QED
            BY <1>2, <2>2, <3>3, <3>4
    <2> QED
        BY <2>1, <2>2
<1>5. ASSUME s = Source[f], NEW j \in 1..Len(r), Touches(r[j], f)
      PROVE  \E i \in j + 1..Len(r) : Settles(r[i], f)
    <2>1. j + 1 \in 1..Len(q) /\ Touches(q[j + 1], f)
        BY <1>1, <1>5
    <2>2. PICK i \in (j + 1) + 1..Len(q) : Settles(q[i], f)
        BY <1>2, <1>5, <2>1
    <2>3. i - 1 \in j + 1..Len(r) /\ i - 1 \in 1..Len(r) /\ (i - 1) + 1 = i
        BY <1>1, <1>5, <2>2
    <2>4. r[i - 1] = q[i]
        BY <1>1, <2>3
    <2> QED
        BY <2>2, <2>3, <2>4
<1> QED
    BY <1>3, <1>4, <1>5

\* The types are kept.
LEMMA AppliedTypes ==
    ASSUME NEW s, entries[s] \subseteq Entry, meters[s] \subseteq Flows, NEW m \in Message
    PROVE  ApplyEntries(s, m) \subseteq Entry /\ ApplyMeters(s, m) \subseteq Flows
<1>1. /\ m.op \in {"meter", "rules", "delete", "dropMeter"}
      /\ m.flows \subseteq Flows /\ m.rules \subseteq Entry
    BY DEF Message
<1>2. CASE m.op = "rules"
    BY <1>1, <1>2 DEF ApplyEntries, ApplyMeters
<1>3. CASE m.op = "delete"
    BY <1>1, <1>3 DEF ApplyEntries, ApplyMeters
<1>4. CASE m.op \in {"meter", "dropMeter"}
    <2>1. ApplyEntries(s, m) = { e \in entries[s] : e.flow \notin m.flows }
                               \cup (entries[s] \ Metered(s))
        BY <1>4 DEF ApplyEntries
    <2>2. ApplyMeters(s, m) = IF m.op = "meter" THEN meters[s] \cup m.flows
                              ELSE meters[s] \ m.flows
        BY <1>4 DEF ApplyMeters
    <2> QED
        BY <1>1, <2>1, <2>2
<1> QED
    BY <1>1, <1>2, <1>3, <1>4

\* Nothing but the tables and the queues changes.
LEMMA TablesChange ==
    ASSUME ControlInv, DataInv, NEW s \in Switches,
           entries' \in [Switches -> SUBSET Entry], meters' \in [Switches -> SUBSET Flows],
           toSwitch' \in [Switches -> Seq(Message)],
           \A t \in Switches \ {s} :
              toSwitch'[t] = toSwitch[t] /\ entries'[t] = entries[t] /\ meters'[t] = meters[t],
           \A i \in 1..Len(toSwitch'[s]) : RulesOfOne(toSwitch'[s][i]),
           s \notin datapaths => toSwitch'[s] = <<>>,
           UNCHANGED <<vars, registering, faults>>,
           notices \subseteq notices',
           notices' \subseteq [switch : ExpiringAt, flow : TimedFlows],
           \A f \in Flows : s \in datapaths => SwitchInv(s, f)'
    PROVE  DataInv'
<1>1. UNCHANGED <<agenda, flows, datapaths, expiring>>
    BY DEF vars, stateVars, controlVars
<1>2. RoutesStay /\ NobodyPlaced
    BY <1>1, OthersStay
<1>3. DataTypeOK'
    BY DEF DataInv, DataTypeOK
<1>4. ChannelsOK'
    BY <1>1 DEF DataInv, ChannelsOK
<1>5. RoutesKnown'
    BY <1>2, KnownStaysKnown DEF DataInv
<1>6. ASSUME NEW t \in datapaths, t # s, NEW f \in Flows PROVE SwitchInv(t, f)'
    <2>1. t \in Switches
        BY DEF ControlInv, ControlTypeOK
    <2>2. SwitchInv(t, f) /\ KnownPath(f)' = KnownPath(f)
        BY <1>2 DEF DataInv, RoutesStay
    <2>3. /\ toSwitch'[t] = toSwitch[t] /\ entries'[t] = entries[t] /\ meters'[t] = meters[t]
        BY <1>6, <2>1
    <2>4. TurnsRight(toSwitch[t], toSwitch'[t], entries[t], meters[t], f,
                     KnownPath(f), KnownPath(f)', t)
        BY <2>2, <2>3 DEF TurnsRight
    <2>5. Expired(f, t) => Expired(f, t)' \/ KnownPath(f)' = NoPath
        BY <1>1 DEF Expired, Announced
    <2> QED
        BY <2>2, <2>3, <2>4, <2>5, TurnKeepsSwitch
<1> QED
    BY <1>1, <1>3, <1>4, <1>5, <1>6 DEF DataInv

\* A switch takes the next message from the controller.
LEMMA ApplyKeepsInv ==
    ASSUME ControlInv, DataInv, NEW s \in Switches, Apply(s) PROVE DataInv'
<1>1. PICK q, r, m, E, M, D, L :
         /\ q = toSwitch[s] /\ r = Tail(q) /\ m = Head(q)
         /\ E = entries[s] /\ M = meters[s]
         /\ D = ApplyEntries(s, m) /\ L = ApplyMeters(s, m)
    OBVIOUS
<1>2. /\ q # <<>>
      /\ toSwitch' = [toSwitch EXCEPT ![s] = r]
      /\ entries' = [entries EXCEPT ![s] = D]
      /\ meters' = [meters EXCEPT ![s] = L]
      /\ UNCHANGED <<vars, notices, registering, faults>>
    BY <1>1 DEF Apply
<1>3. /\ toSwitch \in [Switches -> Seq(Message)] /\ q \in Seq(Message)
      /\ entries \in [Switches -> SUBSET Entry] /\ E \subseteq Entry
      /\ meters \in [Switches -> SUBSET Flows] /\ M \subseteq Flows
      /\ \A i \in 1..Len(q) : RulesOfOne(q[i])
      /\ notices \subseteq [switch : ExpiringAt, flow : TimedFlows]
    BY <1>1 DEF DataInv, DataTypeOK, ChannelsOK
<1>4. s \in datapaths
    BY <1>1, <1>2 DEF DataInv, ChannelsOK
<1>5. /\ Len(q) \in Nat \ {0} /\ r \in Seq(Message)
      /\ m = q[1] /\ m \in Message /\ 1 \in 1..Len(q)
      /\ \A i \in 1..Len(r) : i + 1 \in 1..Len(q) /\ r[i] = q[i + 1]
    <2>1. /\ Len(q) \in Nat \ {0} /\ r \in Seq(Message)
          /\ Head(q) = q[1] /\ q[1] \in Message
          /\ \A i \in 1..Len(r) : i + 1 \in 1..Len(q) /\ r[i] = q[i + 1]
        BY <1>1, <1>2, <1>3, TailIs
    <2>2. 1 \in 1..Len(q)
        BY <2>1
    <2> QED
        BY <1>1, <2>1, <2>2
<1>6. RulesOfOne(m) /\ \A i \in 1..Len(r) : RulesOfOne(r[i])
    BY <1>3, <1>5
<1>7. D \subseteq Entry /\ L \subseteq Flows
    BY <1>1, <1>3, <1>5, AppliedTypes
<1>8. ASSUME NEW f \in Flows PROVE SwitchInv(s, f)'
    <2>1. PICK p : p = KnownPath(f)
        OBVIOUS
    <2>2. KnownPath(f)' = p
        <3>1. UNCHANGED <<agenda, flows>>
            BY <1>2 DEF vars, stateVars, controlVars
        <3> QED
            BY <2>1, <3>1, OthersStay DEF RoutesStay
    <2>3. Effect(Head(q), f, s, E, M, D, L)
        BY <1>1, <1>5, <1>6, MessageHasEffect
    <2>4. /\ RulesAreRight(q, f, p, s)
          /\ \/ EntriesAreRight(q, E, f, p, s)
             \/ At(s, {"wipeFlows"})
             \/ At(s, {"fill"}) /\ s = Source[f] /\ p # NoPath
          /\ \/ MeterComesFirst(q, M, f)
             \/ s # Source[f]
             \/ At(s, {"fill"})
          /\ \/ NothingMissing(q, E, M, f, p, s)
             \/ At(s, {"wipeFlows", "wipeMeters", "fill"})
             \/ Expired(f, s)
        BY <1>1, <1>4, <2>1 DEF DataInv, SwitchInv
    <2>5. RulesAreRight(r, f, p, s)
        BY <1>1, <1>2, <1>3, <2>4, AppliedRules
    <2>6. MeterComesFirst(q, M, f) => MeterComesFirst(r, L, f)
        BY <1>1, <1>2, <1>3, <2>3, AppliedMeter
    <2>7. \/ EntriesAreRight(r, D, f, p, s)
          \/ At(s, {"wipeFlows"})
          \/ At(s, {"fill"}) /\ s = Source[f] /\ p # NoPath
        <3>1. SUFFICES ASSUME EntriesAreRight(q, E, f, p, s), ~EntriesAreRight(r, D, f, p, s)
                       PROVE  At(s, {"fill"}) /\ s = Source[f] /\ p # NoPath
            BY <2>4
        <3>2. s = Source[f] /\ s \in SwitchesOf(p) /\ ~MeterComesFirst(q, M, f)
            BY <1>1, <1>2, <1>3, <2>3, <2>4, <3>1, AppliedEntries
        <3> QED
            BY <2>4, <3>2, NoPathNoSwitches
    <2>8. \/ NothingMissing(r, D, L, f, p, s)
          \/ At(s, {"wipeFlows", "wipeMeters", "fill"})
          \/ Expired(f, s)
        <3>1. SUFFICES ASSUME NothingMissing(q, E, M, f, p, s),
                              ~At(s, {"wipeFlows", "wipeMeters", "fill"})
                       PROVE  NothingMissing(r, D, L, f, p, s)
            BY <2>4
        <3>2. ~At(s, {"fill"})
            BY <3>1 DEF At
        <3> QED
            BY <1>1, <1>2, <1>3, <2>3, <2>4, <3>1, <3>2, AppliedMissing
    <2>9. /\ \A stages : At(s, stages)' <=> At(s, stages)
          /\ Expired(f, s) => Expired(f, s)'
        BY <1>2 DEF At, Expired, Announced, vars, controlVars
    <2>10. toSwitch'[s] = r /\ entries'[s] = D /\ meters'[s] = L
        BY <1>2, <1>3
    <2> QED
        BY <2>2, <2>4, <2>5, <2>6, <2>7, <2>8, <2>9, <2>10 DEF SwitchInv
<1>9. /\ entries' \in [Switches -> SUBSET Entry] /\ meters' \in [Switches -> SUBSET Flows]
      /\ toSwitch' \in [Switches -> Seq(Message)] /\ toSwitch'[s] = r
    BY <1>2, <1>3, <1>5, <1>7
<1>10. \A t \in Switches \ {s} :
          toSwitch'[t] = toSwitch[t] /\ entries'[t] = entries[t] /\ meters'[t] = meters[t]
    BY <1>2, <1>3
<1> QED
    BY <1>2, <1>3, <1>4, <1>6, <1>8, <1>9, <1>10, TablesChange

\* An entry times out; at the source a notice is sent to the controller.
LEMMA TimeOutKeepsInv ==
    ASSUME ControlInv, DataInv, NEW s \in ExpiringAt, NEW e \in entries[s], TimeOut(s, e)
    PROVE  DataInv'
<1>0. s \in Switches
    BY ControllerAssumption
<1>1. /\ e.flow \in TimedFlows
      /\ entries' = [entries EXCEPT ![s] = @ \ {e}]
      /\ notices' = IF s \in datapaths
                    THEN notices \cup {[switch |-> s, flow |-> e.flow]}
                    ELSE notices
      /\ UNCHANGED <<vars, meters, toSwitch, registering, faults>>
    BY DEF TimeOut
<1>2. /\ entries \in [Switches -> SUBSET Entry]
      /\ meters \in [Switches -> SUBSET Flows]
      /\ toSwitch \in [Switches -> Seq(Message)]
      /\ notices \subseteq [switch : ExpiringAt, flow : TimedFlows]
      /\ \A i \in 1..Len(toSwitch[s]) : RulesOfOne(toSwitch[s][i])
      /\ s \notin datapaths => toSwitch[s] = <<>>
    BY <1>0 DEF DataInv, DataTypeOK, ChannelsOK
<1>3. /\ entries' \in [Switches -> SUBSET Entry]
      /\ entries'[s] = entries[s] \ {e}
      /\ \A t \in Switches \ {s} : entries'[t] = entries[t]
    BY <1>0, <1>1, <1>2
<1>4. /\ notices \subseteq notices' /\ expiring' = expiring
      /\ notices' \subseteq [switch : ExpiringAt, flow : TimedFlows]
    BY <1>1, <1>2 DEF vars, controlVars
<1>5. ASSUME NEW f \in Flows, s \in datapaths PROVE SwitchInv(s, f)'
    <2>1. PICK q, E, M, p, D : /\ q = toSwitch[s] /\ E = entries[s] /\ M = meters[s]
                               /\ p = KnownPath(f) /\ D = entries'[s]
        OBVIOUS
    <2>2. p = KnownPath(f)' /\ q = toSwitch'[s] /\ M = meters'[s]
        <3>1. UNCHANGED <<agenda, flows>>
            BY <1>1 DEF vars, stateVars, controlVars
        <3> QED
            BY <1>1, <2>1, <3>1, OthersStay DEF RoutesStay
    <2>3. SwitchInv(s, f)
        BY <1>5 DEF DataInv
    <2>4. EntriesIn(D, f) \subseteq EntriesIn(E, f)
        BY <1>3, <2>1 DEF EntriesIn
    <2>5. EntriesAreRight(q, E, f, p, s) => EntriesAreRight(q, D, f, p, s)
        BY <2>4 DEF EntriesAreRight
    <2>6. CASE e.flow = f
        <3>1. Expired(f, s)'
            BY <1>1, <1>5, <2>6 DEF Expired, Announced
        <3> QED
            BY <1>1, <2>1, <2>2, <2>3, <2>5, <3>1 DEF SwitchInv, At
    <2>7. CASE e.flow # f
        <3>1. EntriesIn(D, f) = EntriesIn(E, f)
            BY <1>3, <2>1, <2>7 DEF EntriesIn
        <3>2. NothingMissing(q, E, M, f, p, s) => NothingMissing(q, D, M, f, p, s)
            BY <3>1 DEF NothingMissing
        <3>3. Expired(f, s) => Expired(f, s)'
            BY <1>4 DEF Expired, Announced
        <3> QED
            BY <1>1, <2>1, <2>2, <2>3, <2>5, <3>2, <3>3 DEF SwitchInv, At
    <2> QED
        BY <2>6, <2>7
<1> QED
    BY <1>0, <1>1, <1>2, <1>3, <1>4, <1>5, TablesChange

-----------------------------------------------------------------------------
\* Nobody is connected and nothing is programmed to begin with.
LEMMA DataInitInv == DataInit => DataInv
<1> SUFFICES ASSUME DataInit PROVE DataInv
    OBVIOUS
<1>1. /\ entries = [s \in Switches |-> {}] /\ meters = [s \in Switches |-> {}]
      /\ toSwitch = Nothing /\ notices = {} /\ registering = Idle /\ faults = 0
      /\ flows = [f \in Flows |-> [state |-> "ABSENT", path |-> NoPath]]
      /\ agenda = <<>> /\ datapaths \subseteq Switches
      /\ holder = "none"
    BY DEF DataInit, Init, StateInit
<1>2. \A s \in Switches : toSwitch[s] = <<>> /\ entries[s] = {} /\ meters[s] = {}
    BY <1>1 DEF Nothing
<1>3. DataTypeOK
    <2>1. toSwitch \in [Switches -> Seq(Message)]
        <3>1. <<>> \in Seq(Message)
            OBVIOUS
        <3> QED
            BY <1>1, <3>1 DEF Nothing
    <2>2. faults \in 0..FaultsAllowed
        BY <1>1, DataPlaneAssumption
    <2>3. entries \in [Switches -> SUBSET Entry] /\ meters \in [Switches -> SUBSET Flows]
        BY <1>1
    <2> QED
        BY <1>1, <2>1, <2>2, <2>3 DEF DataTypeOK
<1>4. ChannelsOK
    BY <1>1, <1>2 DEF ChannelsOK
<1>5. \A f \in Flows : KnownPath(f) = NoPath /\ ~Active(f)
    <2>1. \A c : c \notin CallsIn(agenda)
        BY <1>1 DEF CallsIn
    <2>2. \A f \in Flows : KnownIn(agenda, flows[f].path, f) = flows[f].path
        BY <2>1, KnownByTable
    <2> QED
        BY <1>1, <2>2 DEF KnownPath, Active
<1>6. RoutesKnown
    BY <1>5 DEF RoutesKnown
<1>7. ASSUME NEW s \in datapaths, NEW f \in Flows PROVE SwitchInv(s, f)
    <2>1. s \in Switches
        BY <1>1
    <2>2. \A i : ~LastWord(<<>>, f, i)
        BY DEF LastWord
    <2>3. EntriesIn({}, f) = {}
        BY DEF EntriesIn
    <2>4. /\ RulesAreRight(<<>>, f, NoPath, s)
          /\ EntriesAreRight(<<>>, {}, f, NoPath, s)
          /\ MeterComesFirst(<<>>, {}, f)
          /\ NothingMissing(<<>>, {}, {}, f, NoPath, s)
        BY <2>2, <2>3, NoPathNoSwitches
        DEF RulesAreRight, EntriesAreRight, MeterComesFirst, NothingMissing
    <2> QED
        BY <1>2, <1>5, <2>1, <2>4 DEF SwitchInv
<1> QED
    BY <1>3, <1>4, <1>6, <1>7 DEF DataInv

\* Every step of the composition keeps the invariant.
LEMMA DataNextInv ==
    ASSUME ControlInv, CalmInv, DataInv, [DataNext]_allVars PROVE DataInv'
<1>1. CASE ProgramStep
    BY <1>1, AdmitKeepsInv, MoveKeepsInv, FailKeepsInv, SilentKeepsInv DEF ProgramStep
<1>2. CASE Request
    BY <1>2, RequestKeepsInv
<1>3. CASE LinkEvent
    BY <1>3, LinkEventKeepsInv
<1>4. CASE EventStep
    BY <1>4, TakeNoticeKeepsInv, DropNoticeKeepsInv, ExpiryKeepsInv, IgnoreExpiryKeepsInv,
       WipeFlowsKeepsInv, WipeMetersKeepsInv, RefillKeepsInv DEF EventStep, HandleExpiry
<1>5. CASE SwitchStep
    BY <1>5, ApplyKeepsInv DEF SwitchStep
<1>6. CASE TimeOuts
    <2>1. PICK s \in ExpiringAt : \E e \in entries[s] : TimeOut(s, e)
        BY <1>6 DEF TimeOuts
    <2> QED
        BY <2>1, TimeOutKeepsInv
<1>7. ASSUME NEW f \in Flows, Withdraw(f) PROVE DataInv'
    BY <1>7, WithdrawKeepsInv
<1>8. ASSUME NEW s \in Switches, Register(s) \/ Disconnect(s) PROVE DataInv'
    BY <1>8, RegisterKeepsInv, DisconnectKeepsInv
<1>9. CASE UNCHANGED allVars
    <2>1. /\ UNCHANGED <<agenda, flows, datapaths, expiring>>
          /\ UNCHANGED <<entries, meters, toSwitch, notices, registering, faults>>
        BY <1>9 DEF allVars, netVars, vars, stateVars, controlVars
    <2>2. faults' \in 0..FaultsAllowed /\ Announced' = Announced
        BY <2>1 DEF DataInv, DataTypeOK, Announced
    <2> QED
        BY <2>1, <2>2, OthersStay, StayKeepsInv
<1> QED
    BY <1>1, <1>2, <1>3, <1>4, <1>5, <1>6, <1>7, <1>8, <1>9 DEF DataNext

\* So the invariant always holds, with those of the controller it rests on.
LEMMA DataInvariant == DataSpec => [](ControlInv /\ CalmInv /\ DataInv)
<1>1. DataInit => ControlInv /\ CalmInv /\ DataInv
    BY InitInv, DataInitInv DEF DataInit
<1>2. ControlInv /\ CalmInv /\ DataInv /\ [DataNext]_allVars
         => (ControlInv /\ CalmInv /\ DataInv)'
    <2>1. DataInv => NoticesOK
        BY DEF DataInv, DataTypeOK, NoticesOK
    <2> QED
        BY <2>1, DataPlaneAssumption, DataStepIsController, NextInv, DataNextInv
<1> QED
    BY <1>1, <1>2, PTL DEF DataSpec

\* The tables, meters, messages and notices are what they are declared to be,
\* whatever is programmed, lost and expires (controller.py _install_flow,
\* _delete_flow, switch_features_handler).
THEOREM DataTypes == DataSpec => []DataTypeOK
<1>1. DataInv => DataTypeOK
    BY DEF DataInv
<1> QED
    BY <1>1, DataInvariant, PTL

\* At rest, every flow is known by the path it has, and nothing is under way.
LEMMA SettledSwitch ==
    ASSUME ControlInv, DataInv, Settled, NEW s \in datapaths, NEW f \in Flows
    PROVE  /\ KnownPath(f) = flows[f].path
           /\ FlowEntries(f, s) \subseteq RightEntries(f, flows[f].path, s)
           /\ NothingMissing(<<>>, entries[s], meters[s], f, flows[f].path, s)
              \/ Expired(f, s)
           /\ ~Decided(<<>>, f)
<1>1. s \in Switches /\ toSwitch[s] = <<>> /\ registering = Idle
    BY DEF Settled, Nothing, ControlInv, ControlTypeOK
<1>2. KnownPath(f) = flows[f].path
    BY KnownAtRest DEF Settled
<1>3. ~At(s, {"wipeFlows"}) /\ ~At(s, {"fill"}) /\ ~At(s, {"wipeFlows", "wipeMeters", "fill"})
    BY <1>1 DEF At, Idle
<1>4. /\ EntriesAreRight(<<>>, entries[s], f, flows[f].path, s)
      /\ NothingMissing(<<>>, entries[s], meters[s], f, flows[f].path, s) \/ Expired(f, s)
    BY <1>1, <1>2, <1>3 DEF DataInv, SwitchInv
<1>5. ~Decided(<<>>, f)
    BY DEF Decided
<1>6. FlowEntries(f, s) = EntriesIn(entries[s], f)
    BY DEF FlowEntries, EntriesIn
<1> QED
    BY <1>2, <1>4, <1>5, <1>6 DEF EntriesAreRight

\* When all is handled, a connected switch has the entries of the ACTIVE flows
\* whose paths cross it, and no others: all of them for a flow without a
\* timeout. However requests, reroutes, registrations, lost connections and
\* expiries interleave, no rule of an old path survives and none of the
\* present one is missing (controller.py _install_flow, _delete_flow,
\* _replace_path, switch_features_handler, flow_removed_handler).
THEOREM TablesAreRight == DataSpec => []TablesFollowFlows
<1>1. ASSUME ControlInv, DataInv PROVE TablesFollowFlows
    <2> SUFFICES ASSUME Settled, NEW s \in datapaths, NEW f \in Flows
                 PROVE  IF Active(f) /\ s \in SwitchesOf(flows[f].path)
                        THEN /\ FlowEntries(f, s) \subseteq EntriesOf(f, flows[f].path, s)
                             /\ f \notin TimedFlows =>
                                   FlowEntries(f, s) = EntriesOf(f, flows[f].path, s)
                        ELSE FlowEntries(f, s) = {}
        BY <1>1 DEF TablesFollowFlows
    <2>1. /\ FlowEntries(f, s) \subseteq RightEntries(f, flows[f].path, s)
          /\ NothingMissing(<<>>, entries[s], meters[s], f, flows[f].path, s)
             \/ Expired(f, s)
          /\ ~Decided(<<>>, f)
        BY <1>1, SettledSwitch
    <2>2. CASE s \in SwitchesOf(flows[f].path)
        <3>1. Active(f)
            BY <1>1, <2>2, IdleHasNoPath, NoPathNoSwitches
        <3>2. f \notin TimedFlows => EntriesIn(entries[s], f) = EntriesOf(f, flows[f].path, s)
            BY <2>1, <2>2 DEF NothingMissing, Expired
        <3> QED
            BY <2>1, <2>2, <3>1, <3>2 DEF RightEntries, FlowEntries, EntriesIn
    <2>3. CASE s \notin SwitchesOf(flows[f].path)
        BY <2>1, <2>3 DEF RightEntries
    <2> QED
        BY <2>2, <2>3
<1> QED
    BY <1>1, DataInvariant, PTL

\* When all is handled, an ACTIVE flow whose source is connected is metered
\* and classified there, unless the notice that ends it is still to come: no
\* reservation is held for a flow nothing would ever expire (controller.py
\* _install_meter, _install_flow, flow_removed_handler).
THEOREM ReservationsWatched == DataSpec => []ReservationsAreWatched
<1>1. ASSUME ControlInv, DataInv PROVE ReservationsAreWatched
    <2> SUFFICES ASSUME Settled, NEW f \in Flows, Active(f), Source[f] \in datapaths,
                        [switch |-> Source[f], flow |-> f] \notin Announced
                 PROVE  /\ f \in meters[Source[f]]
                        /\ FlowEntries(f, Source[f])
                              = EntriesOf(f, flows[f].path, Source[f])
        BY <1>1 DEF ReservationsAreWatched, Announced
    <2>1. PICK s : s = Source[f]
        OBVIOUS
    <2>2. flows[f].path # NoPath /\ flows[f].path \in PathsFor(f)
        BY <1>1, PathEnds DEF DataInv, RoutesKnown
    <2>3. s \in SwitchesOf(flows[f].path)
        BY <2>1, <2>2, PathEnds
    <2>4. /\ NothingMissing(<<>>, entries[s], meters[s], f, flows[f].path, s)
          /\ ~Decided(<<>>, f)
        BY <1>1, <2>1, SettledSwitch DEF Expired
    <2>5. f \in meters[s] /\ EntriesIn(entries[s], f) = EntriesOf(f, flows[f].path, s)
        BY <2>1, <2>3, <2>4 DEF NothingMissing
    <2> QED
        BY <2>1, <2>5 DEF FlowEntries, EntriesIn
<1> QED
    BY <1>1, DataInvariant, PTL
=============================================================================
