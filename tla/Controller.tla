----------------------------- MODULE Controller -----------------------------
(***************************************************************************)
(* The controller (controller.py): flow requests from the control threads, *)
(* port and flow-removed events on the OpenFlow event thread, all working  *)
(* on the one NetworkState under the one lock.                             *)
(*                                                                         *)
(* A handler that holds the lock is not one step.  Threads that take no    *)
(* lock run between its statements: a switch registers or is lost, the     *)
(* clock passes the end of a hold-down, clear_flows reads the flow table.  *)
(* So a handler runs as the agenda of calls it has still to make, one      *)
(* reserve or release a step, and nobody else gets the lock before the     *)
(* agenda is empty.  _replace_path called from a loop is an item that puts *)
(* its own calls in front of the rest.                                     *)
(*                                                                         *)
(* A refused request changes nothing and is no step.                       *)
(***************************************************************************)
EXTENDS Admission

CONSTANTS
    FirstNumber,      \* what the flow counter stands at when the run starts
    RequestPolicies,  \* the policies requests ask for
    RequestTieBreaks, \* the tie breaks requests ask for
    MayPreempt,       \* the values of allow_preemption requests use
    MayControl,       \* the values of admission_control requests use
    BreakableLinks,   \* bound: the links that fail
    FlakySwitches,    \* bound: the switches that lose their connection
    TimedFlows,       \* the flows with an idle or a hard timeout
    ExpiringAt,       \* bound: the switches whose entries time out
    ClearsAllowed,    \* bound: how often clear_flows is called
    ConcurrentClear   \* whether requests are made while flows are cleared

ASSUME ControllerAssumption ==
    /\ FirstNumber \in Nat \ {0}
    /\ FirstNumber + Cardinality(Flows) <= 100
    /\ RequestPolicies \subseteq {"widest", "shortest"}
    /\ RequestTieBreaks \subseteq {"fewest", "best_fit"}
    /\ MayPreempt \subseteq BOOLEAN
    /\ MayControl \subseteq BOOLEAN
    /\ BreakableLinks \subseteq Links
    /\ FlakySwitches \subseteq Switches
    /\ TimedFlows \subseteq Flows
    /\ ExpiringAt \subseteq Switches
    /\ ClearsAllowed \in Nat
    /\ ConcurrentClear \in BOOLEAN

Clears == 1..ClearsAllowed

VARIABLES
    terms,      \* [Flows -> [number, policy, tieBreak]], set by new_flow
    byCookie,   \* the flows _by_cookie knows
    datapaths,  \* the connected switches
    holder,     \* the thread in the lock: "none", "control" or "app"
    agenda,     \* the calls the holder has still to make
    clearing,   \* the calls of clear_flows: [Clears -> [stage, todo]]
    expiring    \* flow_removed_handler: the flow it has looked up, if any

controlVars == <<terms, byCookie, datapaths, holder, agenda, clearing, expiring>>
vars == <<stateVars, controlVars>>

-----------------------------------------------------------------------------
\* The calls a handler makes.  old is the path a rerouted flow comes from,
\* flag is force of an admission and allow_preemption of a reroute.
Calls == {"preempt", "admit", "evacuate", "reroute", "move"}

Call == [ call : Calls, flow : Flows, path : Paths \cup {NoPath},
          old : Paths \cup {NoPath}, flag : BOOLEAN ]

CallOf(name, f, path, old, flag) ==
    [call |-> name, flow |-> f, path |-> path, old |-> old, flag |-> flag]

Preempt(f) == CallOf("preempt", f, NoPath, NoPath, FALSE)
Admit(f, p, force) == CallOf("admit", f, p, NoPath, force)
Evacuate(f) == CallOf("evacuate", f, NoPath, NoPath, TRUE)
Reroute(f, old, allowPreemption) ==
    CallOf("reroute", f, NoPath, old, allowPreemption)
Move(f, p, old) == CallOf("move", f, p, old, FALSE)

\* "f10" sorts before "f2": the order of the decimal strings below 100.
IdRank(n) == IF n < 10 THEN 11 * (n - 1) ELSE 11 * ((n \div 10) - 1) + 1 + (n % 10)

\* The orders in which a loop may go through the flows of S.
Orderings(S, Precedes(_, _)) ==
    { q \in [1..Cardinality(S) -> S] :
        \A i, j \in 1..Cardinality(S) :
            i < j => q[i] # q[j] /\ ~Precedes(q[j], q[i]) }

\* sorted(chosen), and the sorts of set_link_down and _handle_link_up: the
\* first sorts a list made from a set, the second the flow table in the order
\* the flows were first reserved.
ById(S) ==
    LET Precedes(f, g) == IdRank(terms[f].number) < IdRank(terms[g].number)
    IN  Orderings(S, Precedes)

MoreImportant(f, g) ==
    \/ Priority[f] > Priority[g]
    \/ Priority[f] = Priority[g] /\ Bandwidth[f] > Bandwidth[g]

MostImportantFirst(S) == Orderings(S, MoreImportant)

MostImportantOldestFirst(S) ==
    LET Precedes(f, g) == \/ MoreImportant(f, g)
                          \/ /\ ~MoreImportant(g, f)
                             /\ terms[f].number < terms[g].number
    IN  Orderings(S, Precedes)

ForEach(order, Body(_)) == [i \in DOMAIN order |-> Body(order[i])]

-----------------------------------------------------------------------------
Online(p) == SwitchesOf(p) \subseteq datapaths

Minted(f) == terms[f].number # 0
NextNumber == FirstNumber + Cardinality({ f \in Flows : Minted(f) })

\* A flow that clear_flows dropped from the table while a link still lists
\* it.  flows_on raises KeyError on such a link.
Orphaned(l) == \E f \in linkFlows[l] : ~InTable(f)

\* The links the preemptive search looks at: those of the switches it popped
\* before dst.
ScannedLinks(f, policy) ==
    UNION { { l \in Links : l \cap (t.settled \ {Destination[f]}) # {} } :
            t \in Search(policy, Source[f], Destination[f],
                         PreemptableWidth(Priority[f]), Bandwidth[f]) }

\* evaluate() ends in a KeyError.
EvaluateRaises(f, policy, allowPreemption, admissionControl) ==
    /\ Source[f] # Destination[f]
    /\ admissionControl
    /\ allowPreemption
    /\ FreePaths(f, policy) = {}
    /\ \E l \in ScannedLinks(f, policy) \ downLinks : Orphaned(l)

\* Mutation: the lock stays taken.
ProceedHolding(rest) == agenda' = rest /\ holder' = holder

\* The lock is released when nothing is left to do.
Proceed(rest) == /\ agenda' = rest
                 /\ holder' = IF rest = <<>> THEN "none" ELSE holder

TakeLock(thread, calls) ==
    /\ holder = "none"
    /\ agenda' = calls
    /\ holder' = IF calls = <<>> THEN "none" ELSE thread

\* The event thread takes the next event when it is through with the last.
EventThreadIdle == holder # "app" /\ expiring = {}

\* Some call of clear_flows is under way.
Clearing == \E c \in Clears : clearing[c].stage = "on"

Calling(name) == agenda # <<>> /\ Head(agenda).call = name

-----------------------------------------------------------------------------
Init ==
    /\ StateInit
    /\ terms = [f \in Flows |-> [number |-> 0, policy |-> "widest",
                                 tieBreak |-> "fewest"]]
    /\ byCookie = {}
    /\ datapaths = Switches
    /\ holder = "none"
    /\ agenda = <<>>
    /\ clearing = [c \in Clears |-> [stage |-> "ready", todo |-> {}]]
    /\ expiring = {}

\* request_flow up to new_flow, for a request that is accepted.  The victims
\* are released, the flow is placed, the victims look for other paths.
RequestFlow(f, policy, tieBreak, allowPreemption, admissionControl) ==
    /\ ~Minted(f)
    /\ Clearing => ConcurrentClear
    /\ ~EvaluateRaises(f, policy, allowPreemption, admissionControl)
    /\ \E d \in Evaluate(f, policy, tieBreak, allowPreemption, admissionControl) :
          /\ Online(d.path)
          /\ \E order \in ById(d.victims) :
                LET Retry(v) == Reroute(v, flows[v].path, FALSE)
                IN  TakeLock("control", ForEach(order, Preempt)
                                        \o << Admit(f, d.path, d.forced) >>
                                        \o ForEach(order, Retry))
    /\ terms' = [terms EXCEPT ![f] = [number |-> NextNumber, policy |-> policy,
                                      tieBreak |-> tieBreak]]
    /\ UNCHANGED <<stateVars, byCookie, datapaths, clearing, expiring>>

PreemptStep ==
    /\ Calling("preempt")
    /\ Release(Head(agenda).flow, "PREEMPTED")
    /\ Proceed(Tail(agenda))
    /\ UNCHANGED <<holdDown, terms, byCookie, datapaths, clearing, expiring>>

AdmitStep ==
    LET c == Head(agenda)
    IN  /\ Calling("admit")
        /\ Reserve(c.flow, c.path, c.flag)
        /\ byCookie' = byCookie \cup {c.flow}
        /\ Proceed(Tail(agenda))
        /\ UNCHANGED <<holdDown, terms, datapaths, clearing, expiring>>

\* _replace_path up to the point where the decision is acted on.
RerouteRaises(c) ==
    EvaluateRaises(c.flow, terms[c.flow].policy, c.flag, TRUE)

RerouteDecisions(c) ==
    Evaluate(c.flow, terms[c.flow].policy, terms[c.flow].tieBreak, c.flag, TRUE)

RerouteFound ==
    LET c == Head(agenda)
        Retry(v) == Reroute(v, flows[v].path, FALSE)
    IN  /\ Calling("reroute")
        /\ ~RerouteRaises(c)
        /\ \E d \in RerouteDecisions(c) :
              /\ Online(d.path)
              /\ \E order \in ById(d.victims) :
                    Proceed(ForEach(order, Preempt)
                            \o << Move(c.flow, d.path, c.old) >>
                            \o ForEach(order, Retry)
                            \o Tail(agenda))
        /\ UNCHANGED <<stateVars, terms, byCookie, datapaths, clearing, expiring>>

\* Mutation: a flow with no path is tried again at once.
RerouteFailedRetries ==
    LET c == Head(agenda)
    IN  /\ Calling("reroute")
        /\ ~RerouteRaises(c)
        /\ \A d \in RerouteDecisions(c) : ~Online(d.path)
        /\ flows' = [flows EXCEPT ![c.flow].state = "FAILED"]
        /\ Proceed(agenda)
        /\ UNCHANGED <<residual, linkFlows, downLinks, holdDown, forced,
                       terms, byCookie, datapaths, clearing, expiring>>

\* No path, or a path through a switch that is not connected.
RerouteFailed ==
    LET c == Head(agenda)
    IN  /\ Calling("reroute")
        /\ ~RerouteRaises(c)
        /\ \A d \in RerouteDecisions(c) : ~Online(d.path)
        /\ flows' = [flows EXCEPT ![c.flow].state = "FAILED"]
        /\ Proceed(Tail(agenda))
        /\ UNCHANGED <<residual, linkFlows, downLinks, holdDown, forced,
                       terms, byCookie, datapaths, clearing, expiring>>

\* The KeyError leaves the handler where it stands and frees the lock.
RerouteAborts ==
    /\ Calling("reroute")
    /\ RerouteRaises(Head(agenda))
    /\ Proceed(<<>>)
    /\ UNCHANGED <<stateVars, terms, byCookie, datapaths, clearing, expiring>>

\* The rest of _replace_path for a flow that has a new path.
MoveStep ==
    LET c == Head(agenda)
    IN  /\ Calling("move")
        /\ Reserve(c.flow, c.path, FALSE)
        /\ MarkHoldDown(c.flow)
        /\ Proceed(Tail(agenda))
        /\ UNCHANGED <<terms, byCookie, datapaths, clearing, expiring>>

\* Mutation: the flow is taken off the dead link and forgotten about.
EvacuateOnly ==
    /\ Calling("evacuate")
    /\ Release(Head(agenda).flow, "PREEMPTED")
    /\ Proceed(Tail(agenda))
    /\ UNCHANGED <<holdDown, terms, byCookie, datapaths, clearing, expiring>>

\* One round of the loop of _handle_link_down.
EvacuateStep ==
    LET c == Head(agenda)
    IN  /\ Calling("evacuate")
        /\ Release(c.flow, "PREEMPTED")
        /\ Proceed(<< Reroute(c.flow, flows[c.flow].path, TRUE) >> \o Tail(agenda))
        /\ UNCHANGED <<holdDown, terms, byCookie, datapaths, clearing, expiring>>

HandlerStep == \/ PreemptStep \/ AdmitStep \/ MoveStep \/ EvacuateStep
               \/ RerouteFound \/ RerouteFailed \/ RerouteAborts

-----------------------------------------------------------------------------
\* Mutation: the cookie of a removed flow stays known.
TearDownKeepsCookie(f, newState) ==
    /\ Release(f, newState)
    /\ UNCHANGED <<holdDown, terms, byCookie, datapaths, holder, agenda>>

\* What remove_flow does to a flow in the table.
TearDown(f, newState) ==
    /\ Release(f, newState)
    /\ byCookie' = byCookie \ {f}
    /\ UNCHANGED <<holdDown, terms, datapaths, holder, agenda>>

RemoveFlow(f) ==
    /\ holder = "none"
    /\ TearDown(f, "REMOVED")
    /\ UNCHANGED <<clearing, expiring>>

\* flow_removed_handler for an entry of f that timed out at s: the cookie is
\* looked up without the lock, ...
LookUpCookie(s, f) ==
    /\ EventThreadIdle
    /\ s \in datapaths
    /\ f \in byCookie
    /\ expiring' = {[switch |-> s, flow |-> f]}
    /\ UNCHANGED <<stateVars, terms, byCookie, datapaths, holder, agenda, clearing>>

\* Mutation: what held at the lookup is taken to hold under the lock.
ExpireUnchecked(x) ==
    /\ holder = "none"
    /\ x \in expiring
    /\ x.switch = Source[x.flow]
    /\ expiring' = expiring \ {x}
    /\ TearDown(x.flow, "EXPIRED")
    /\ UNCHANGED clearing

\* ... and with it the flow is looked at once more: only its ingress switch
\* ends it, and only while it is ACTIVE.
ExpireFlow(x) ==
    /\ holder = "none"
    /\ x \in expiring
    /\ Active(x.flow) /\ x.switch = Source[x.flow]
    /\ expiring' = expiring \ {x}
    /\ TearDown(x.flow, "EXPIRED")
    /\ UNCHANGED clearing

IgnoreExpiry(x) ==
    /\ holder = "none"
    /\ x \in expiring
    /\ ~(Active(x.flow) /\ x.switch = Source[x.flow])
    /\ expiring' = expiring \ {x}
    /\ UNCHANGED <<stateVars, terms, byCookie, datapaths, holder, agenda, clearing>>

\* clear_flows reads the flow table without the lock, removes flow by flow,
\* taking the lock for each, and then empties the table.  Calls may overlap.
ClearStart(c) ==
    /\ clearing[c].stage = "ready"
    /\ \A earlier \in 1..(c - 1) : clearing[earlier].stage # "ready"
    /\ holder # "none" => ConcurrentClear
    /\ clearing' = [clearing EXCEPT ![c] = [stage |-> "on",
                                           todo  |-> { f \in Flows : InTable(f) }]]
    /\ UNCHANGED <<stateVars, terms, byCookie, datapaths, holder, agenda, expiring>>

\* f is the next on c's list.
ClearComesTo(c, f) ==
    /\ clearing[c].stage = "on"
    /\ holder = "none"
    /\ f \in clearing[c].todo
    /\ \A g \in clearing[c].todo : terms[f].number <= terms[g].number
    /\ clearing' = [clearing EXCEPT ![c].todo = @ \ {f}]
    /\ UNCHANGED expiring

ClearRemove(c, f) ==
    /\ ClearComesTo(c, f)
    /\ TearDown(f, "REMOVED")

\* "unknown flow": another call has emptied the table.
ClearMisses(c, f) ==
    /\ ClearComesTo(c, f)
    /\ ~InTable(f)
    /\ UNCHANGED <<stateVars, terms, byCookie, datapaths, holder, agenda>>

\* Mutations: the table is emptied while flows are left to remove; the index
\* is emptied along with the table.
ClearFinishAtOnce(c) ==
    /\ clearing[c].stage = "on"
    /\ holder = "none"
    /\ flows' = [f \in Flows |-> [state |-> "ABSENT", path |-> NoPath]]
    /\ byCookie' = {}
    /\ clearing' = [clearing EXCEPT ![c] = [stage |-> "done", todo |-> {}]]
    /\ UNCHANGED <<residual, linkFlows, downLinks, holdDown, forced,
                   terms, datapaths, holder, agenda, expiring>>

ClearFinishEmptiesIndex(c) ==
    /\ clearing[c].stage = "on"
    /\ clearing[c].todo = {}
    /\ holder = "none"
    /\ flows' = [f \in Flows |-> [state |-> "ABSENT", path |-> NoPath]]
    /\ linkFlows' = [l \in Links |-> {}]
    /\ byCookie' = {}
    /\ clearing' = [clearing EXCEPT ![c].stage = "done"]
    /\ UNCHANGED <<residual, downLinks, holdDown, forced,
                   terms, datapaths, holder, agenda, expiring>>

ClearFinish(c) ==
    /\ clearing[c].stage = "on"
    /\ clearing[c].todo = {}
    /\ holder = "none"
    /\ flows' = [f \in Flows |-> [state |-> "ABSENT", path |-> NoPath]]
    /\ byCookie' = {}
    /\ clearing' = [clearing EXCEPT ![c].stage = "done"]
    /\ UNCHANGED <<residual, linkFlows, downLinks, holdDown, forced,
                   terms, datapaths, holder, agenda, expiring>>

-----------------------------------------------------------------------------
\* port_status_handler for a core link: some connected end reports it.
Reported(l) == l \cap datapaths # {}

LinkDown(l) ==
    /\ EventThreadIdle
    /\ l \in BreakableLinks \ downLinks
    /\ Reported(l)
    /\ ~Orphaned(l)
    /\ SetLinkDown(l)
    /\ \E order \in MostImportantFirst(linkFlows[l]) :
          TakeLock("app", ForEach(order, Evacuate))
    /\ UNCHANGED <<holdDown, terms, byCookie, datapaths, clearing, expiring>>

\* set_link_down marks the link and then raises in flows_on.
LinkDownAborts(l) ==
    /\ EventThreadIdle
    /\ l \in BreakableLinks \ downLinks
    /\ Reported(l)
    /\ Orphaned(l)
    /\ SetLinkDown(l)
    /\ TakeLock("app", <<>>)
    /\ UNCHANGED <<holdDown, terms, byCookie, datapaths, clearing, expiring>>

LinkUp(l) ==
    LET failed == { f \in Flows : flows[f].state = "FAILED" }
        Retry(f) == Reroute(f, NoPath, FALSE)
    IN  /\ EventThreadIdle
        /\ l \in downLinks
        /\ Reported(l)
        /\ SetLinkUp(l)
        /\ \E order \in MostImportantOldestFirst(failed) :
              TakeLock("app", ForEach(order, Retry))
        /\ UNCHANGED <<holdDown, terms, byCookie, datapaths, clearing, expiring>>

\* The event thread adds and drops datapaths without the lock, so only its
\* own handlers are not interrupted by it.
SwitchUp(s) ==
    /\ EventThreadIdle
    /\ s \in Switches \ datapaths
    /\ datapaths' = datapaths \cup {s}
    /\ UNCHANGED <<stateVars, terms, byCookie, holder, agenda, clearing, expiring>>

SwitchDown(s) ==
    /\ EventThreadIdle
    /\ s \in FlakySwitches \cap datapaths
    /\ datapaths' = datapaths \ {s}
    /\ UNCHANGED <<stateVars, terms, byCookie, holder, agenda, clearing, expiring>>

ClockTick == \E f \in Flows : HoldDownEnds(f) /\ UNCHANGED controlVars

Requests ==
    \E f \in Flows, policy \in RequestPolicies, tieBreak \in RequestTieBreaks,
       allowPreemption \in MayPreempt, admissionControl \in MayControl :
          RequestFlow(f, policy, tieBreak, allowPreemption, admissionControl)

Environment ==
    \/ \E f \in Flows : RemoveFlow(f)
    \/ \E s \in ExpiringAt, f \in TimedFlows : LookUpCookie(s, f)
    \/ \E x \in expiring : ExpireFlow(x) \/ IgnoreExpiry(x)
    \/ \E c \in Clears : \/ ClearStart(c) \/ ClearFinish(c)
                         \/ \E f \in Flows : ClearRemove(c, f) \/ ClearMisses(c, f)
    \/ \E l \in Links : LinkDown(l) \/ LinkDownAborts(l) \/ LinkUp(l)
    \/ \E s \in Switches : SwitchUp(s) \/ SwitchDown(s)
    \/ ClockTick

Next == HandlerStep \/ Requests \/ Environment

Spec == Init /\ [][Next]_vars

\* A thread that holds the lock keeps running.
FairSpec == Spec /\ WF_vars(HandlerStep)

-----------------------------------------------------------------------------
\* The fields have their types, and the lock is held exactly while there is
\* something left to do.
TypeOK ==
    /\ StateTypeOK
    /\ terms \in [Flows -> [number : Nat, policy : {"widest", "shortest"},
                             tieBreak : {"fewest", "best_fit"}]]
    /\ byCookie \subseteq Flows
    /\ datapaths \subseteq Switches
    /\ holder \in {"none", "control", "app"}
    /\ agenda \in Seq(Call)
    /\ holder = "none" <=> agenda = <<>>
    /\ clearing \in [Clears -> [stage : {"ready", "on", "done"}, todo : SUBSET Flows]]
    /\ expiring \subseteq [switch : ExpiringAt, flow : TimedFlows]

AtRest == holder = "none"

\* When _handle_link_down is through, no flow is left on a link that is down,
\* and no later handler puts one there: not a request, a reroute or a retry
\* (state.py available(), controller.py _handle_link_down).
NoFlowOnDownLink ==
    AtRest => \A l \in downLinks : linkFlows[l] = {}

\* PREEMPTED is a state in transit: whoever was released for another flow or
\* for a failed link has been placed again or declared FAILED before the lock
\* is free (controller.py request_flow, _replace_path).
NobodyLeftPreempted ==
    AtRest => \A f \in Flows : flows[f].state # "PREEMPTED"

\* When a handler comes to the reserve() of an accepted decision, there is
\* room: the victims chosen link by link, each credited on the later links,
\* free what the flow needs, and InsufficientCapacity is never raised with
\* the victims already gone (admission.py evaluate, state.py reserve).
ReserveNeverRaises ==
    agenda # <<>> =>
        LET c == Head(agenda)
        IN  c.call \in {"admit", "move"} =>
                /\ c.flag \/ Fits(c.flow, c.path)
                /\ ~Active(c.flow)

\* _by_cookie knows exactly the flows that can still expire or be retried, so
\* the expiry of an ACTIVE flow is never dropped for an unknown cookie
\* (controller.py flow_removed_handler).
CookieMapAgrees ==
    byCookie = { f \in Flows : flows[f].state \in {"ACTIVE", "PREEMPTED", "FAILED"} }

\* A flow that was removed or expired stays so: neither the retries of
\* _handle_link_up nor a pending reroute bring it back.
TerminalIsFinal ==
    [][\A f \in Flows :
          flows[f].state \in {"EXPIRED", "REMOVED"} =>
              flows'[f].state \in {flows[f].state, "REMOVED", "ABSENT"}]_vars

\* A flow is preempted only while it is ACTIVE and outside its hold-down
\* window, and only for a strictly more important flow that is going to be
\* placed, in the same handler, on a link the victim gives up (state.py
\* victims, admission.py evaluate).
PreemptionIsJustified ==
    [][Calling("preempt") =>
          LET v == Head(agenda).flow
          IN  /\ Active(v)
              /\ v \notin holdDown
              /\ \E i \in 2..Len(agenda) :
                    /\ agenda[i].call \in {"admit", "move"}
                    /\ Priority[agenda[i].flow] > Priority[v]
                    /\ LinksOf(agenda[i].path) \cap FlowLinks(v) # {}]_vars

\* Every handler ends: a cascade of preemptions stops.
HandlersEnd == holder # "none" ~> holder = "none"

\* What in_hold_down documents: a flow rerouted less than HOLD_DOWN_SEC ago is
\* immune.  Here: as long as its path is sound it is not taken off it again.
HoldDownIsImmunity ==
    [][\A f \in holdDown :
          Active(f) /\ FlowLinks(f) \cap downLinks = {} =>
              flows'[f].state # "PREEMPTED"]_vars
=============================================================================
