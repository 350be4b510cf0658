------------------------------ MODULE DataPlane ------------------------------
(***************************************************************************)
(* The controller and the switches it programs (controller.py              *)
(* _install_flow, _delete_flow, _wipe, switch_features_handler,            *)
(* flow_removed_handler).  Every step of Controller that programs a switch *)
(* is taken together with the messages it sends; each connection is a FIFO *)
(* channel of its own, so two switches may hear of one handler in any      *)
(* order and at any later time.                                            *)
(*                                                                         *)
(* The switch is external: an ADD replaces the entry with the same match,  *)
(* a cookie deletes both directions, a meter takes the entries that refer  *)
(* to it along, an expired entry sends a notice with the flow's cookie.    *)
(* The two matches of a flow are told apart by their direction, an output  *)
(* port by the neighbour behind it, the switch itself standing for the     *)
(* host.  The messages for one switch leave in one go.                     *)
(***************************************************************************)
EXTENDS Controller, SequencesExt

CONSTANTS
    FaultsAllowed   \* bound: how many link and connection failures there are

ASSUME DataPlaneAssumption ==
    /\ FaultsAllowed \in Nat
    /\ ~ConcurrentClear

VARIABLES
    entries,      \* [Switches -> set of flow entries]
    meters,       \* [Switches -> the flows that have a meter]
    toSwitch,     \* [Switches -> messages sent and not yet applied]
    notices,      \* flow-removed messages that the controller has not handled
    registering,  \* switch_features_handler: [switch, stage]
    faults        \* the failures so far

netVars == <<entries, meters, toSwitch, notices, registering, faults>>
allVars == <<vars, netVars>>

-----------------------------------------------------------------------------
Directions == {"forward", "reverse"}
Entry == [flow : Flows, direction : Directions, out : Switches]

\* The ports at one hop of a path, the switch itself being its host.
NextHop(p, s) == LET i == CHOOSE j \in DOMAIN p : p[j] = s
                 IN  IF i = Len(p) THEN s ELSE p[i + 1]
\* Mutation: the host's port is left out of the way back.
PreviousHopOnly(p, s) == LET i == CHOOSE j \in DOMAIN p : p[j] = s
                         IN  IF i = 1 THEN 0 ELSE p[i - 1]
PreviousHop(p, s) == LET i == CHOOSE j \in DOMAIN p : p[j] = s
                     IN  IF i = 1 THEN s ELSE p[i - 1]

EntriesOf(f, p, s) ==
    { [flow |-> f, direction |-> "forward", out |-> NextHop(p, s)],
      [flow |-> f, direction |-> "reverse", out |-> PreviousHop(p, s)] }

FlowEntries(f, s) == { e \in entries[s] : e.flow = f }

\* The entries that send through a meter.
Metered(s) ==
    { e \in entries[s] : e.direction = "forward" /\ s = Source[e.flow] }

\* What the controller tells a switch.  A message is about one flow, or about
\* all it has.
Message == [op : {"meter", "rules", "delete", "dropMeter"},
            flows : SUBSET Flows, rules : SUBSET Entry]

Order(op, S) == [op |-> op, flows |-> S, rules |-> {}]
Rules(f, p, s) == [op |-> "rules", flows |-> {f}, rules |-> EntriesOf(f, p, s)]

Nothing == [s \in Switches |-> <<>>]

\* Mutation: a switch that is refilled gets no meters.
InstallUnmetered(f, p, only) ==
    [s \in Switches |->
        IF s \notin SwitchesOf(p) \cap only THEN <<>>
        ELSE (IF s = p[1] /\ only = Switches THEN << Order("meter", {f}) >> ELSE <<>>)
             \o << Rules(f, p, s) >>]

\* _install_flow with _install_meter, for the switches of only.
InstallFlow(f, p, only) ==
    [s \in Switches |->
        IF s \notin SwitchesOf(p) \cap only THEN <<>>
        ELSE (IF s = p[1] THEN << Order("meter", {f}) >> ELSE <<>>)
             \o << Rules(f, p, s) >>]

\* _delete_flow.  path is the flow's path when it is called: the meter goes
\* only where that still begins.
DeleteFlow(f, path, switches, dropMeter) ==
    [s \in Switches |->
        IF s \notin switches THEN <<>>
        ELSE << Order("delete", {f}) >>
             \o IF dropMeter /\ path # NoPath /\ s = path[1]
                THEN << Order("dropMeter", {f}) >> ELSE <<>>]

\* send_msg for every switch that is connected.
Send(batch) ==
    toSwitch' = [s \in Switches |-> IF s \in datapaths
                                    THEN toSwitch[s] \o batch[s]
                                    ELSE toSwitch[s]]

Idle == [switch |-> 0, stage |-> "idle"]

\* The event thread has nothing in hand.
EventThreadFree == registering = Idle /\ EventThreadIdle

-----------------------------------------------------------------------------
DataInit ==
    /\ Init
    /\ entries = [s \in Switches |-> {}]
    /\ meters = [s \in Switches |-> {}]
    /\ toSwitch = Nothing
    /\ notices = {}
    /\ registering = Idle
    /\ faults = 0

Quietly == UNCHANGED netVars
Sending(batch) ==
    Send(batch) /\ UNCHANGED <<entries, meters, notices, registering, faults>>

\* The handlers, with what each call sends.
AdmitAndInstall ==
    LET c == Head(agenda)
    IN  AdmitStep /\ Sending(InstallFlow(c.flow, c.path, Switches))

\* Mutation: the switches only the old path used are not told.
MoveForgetsStale ==
    LET c == Head(agenda)
    IN  MoveStep /\ Sending(InstallFlow(c.flow, c.path, Switches))

MoveAndInstall ==
    LET c     == Head(agenda)
        add   == InstallFlow(c.flow, c.path, Switches)
        stale == DeleteFlow(c.flow, c.path, SwitchesOf(c.old) \ SwitchesOf(c.path), FALSE)
    IN  MoveStep /\ Sending([s \in Switches |-> add[s] \o stale[s]])

FailAndDelete ==
    LET c == Head(agenda)
    IN  /\ RerouteFailed
        /\ Sending(DeleteFlow(c.flow, flows[c.flow].path, SwitchesOf(c.old), TRUE))

SilentStep == /\ PreemptStep \/ EvacuateStep \/ RerouteFound
              /\ Quietly

ProgramStep ==
    AdmitAndInstall \/ MoveAndInstall \/ FailAndDelete \/ SilentStep

\* remove_flow: the path is read by release(), which empties it.
DeleteReleased(f) ==
    DeleteFlow(f, flows'[f].path, SwitchesOf(flows[f].path), TRUE)

Withdraw(f) ==
    /\ RemoveFlow(f) \/ \E c \in Clears : ClearRemove(c, f)
    /\ Sending(DeleteReleased(f))

\* flow_removed_handler, from the notice to the lock and after it.
TakeNotice(n) ==
    /\ EventThreadFree
    /\ n \in notices
    /\ LookUpCookie(n.switch, n.flow)
    /\ notices' = notices \ {n}
    /\ UNCHANGED <<entries, meters, toSwitch, registering, faults>>

DropNotice(n) ==
    /\ EventThreadFree
    /\ n \in notices
    /\ n.flow \notin byCookie
    /\ notices' = notices \ {n}
    /\ UNCHANGED <<vars, entries, meters, toSwitch, registering, faults>>

HandleExpiry(x) == \/ ExpireFlow(x) /\ Sending(DeleteReleased(x.flow))
                   \/ IgnoreExpiry(x) /\ Quietly

LinkEvent ==
    /\ EventThreadFree
    /\ \/ \E l \in Links : LinkUp(l) /\ faults' = faults
       \/ \E l \in Links : LinkDown(l)
                           /\ faults < FaultsAllowed /\ faults' = faults + 1
    /\ UNCHANGED <<entries, meters, toSwitch, notices, registering>>

ClearCall ==
    \E c \in Clears : \/ ClearStart(c) \/ ClearFinish(c)
                     \/ \E f \in Flows : ClearMisses(c, f)

Request == (Requests \/ ClearCall \/ ClockTick) /\ Quietly

-----------------------------------------------------------------------------
\* switch_features_handler: the datapath is known before it is wiped, and
\* wiped before the lock is taken to fill it.
Register(s) ==
    /\ EventThreadFree
    /\ SwitchUp(s)
    /\ registering' = [switch |-> s, stage |-> "wipeFlows"]
    /\ UNCHANGED <<entries, meters, toSwitch, notices, faults>>

\* A thread that holds the lock may be between the two messages it sends one
\* switch.
SendAmong(s, m) ==
    LET q == toSwitch[s]
    IN  \/ toSwitch' = [toSwitch EXCEPT ![s] = Append(q, m)]
        \/ /\ q # <<>> /\ Last(q).op \in {"rules", "dropMeter"}
           /\ toSwitch' = [toSwitch EXCEPT ![s] = Front(q) \o << m, Last(q) >>]

WipeFlows ==
    /\ registering.stage = "wipeFlows"
    /\ SendAmong(registering.switch, Order("delete", Flows))
    /\ registering' = [registering EXCEPT !.stage = "wipeMeters"]
    /\ UNCHANGED <<vars, entries, meters, notices, faults>>

\* Mutation: a wiped switch is left empty.
WipeMetersOnly ==
    /\ registering.stage = "wipeMeters"
    /\ SendAmong(registering.switch, Order("dropMeter", Flows))
    /\ registering' = Idle
    /\ UNCHANGED <<vars, entries, meters, notices, faults>>

WipeMeters ==
    /\ registering.stage = "wipeMeters"
    /\ SendAmong(registering.switch, Order("dropMeter", Flows))
    /\ registering' = [registering EXCEPT !.stage = "fill"]
    /\ UNCHANGED <<vars, entries, meters, notices, faults>>

\* What the active flows through s are refilled with, in the order of the flow
\* table, which is the order they were first reserved in.
Oldest(S) ==
    LET Precedes(f, g) == terms[f].number < terms[g].number
    IN  Orderings(S, Precedes)

Refills(s) ==
    LET through == { f \in Flows : Active(f) /\ s \in SwitchesOf(flows[f].path) }
        Fill(f) == InstallFlow(f, flows[f].path, {s})[s]
    IN  { FlattenSeq(ForEach(order, Fill)) : order \in Oldest(through) }

Refill ==
    LET s == registering.switch
    IN  /\ registering.stage = "fill"
        /\ holder = "none"
        /\ \E batch \in Refills(s) :
              toSwitch' = [toSwitch EXCEPT ![s] = @ \o batch]
        /\ registering' = Idle
        /\ UNCHANGED <<vars, entries, meters, notices, faults>>

\* The connection is lost with all that is in it, and state_change_handler
\* drops the datapath.  The switch keeps its tables, or restarts without.
Disconnect(s) ==
    /\ EventThreadFree
    /\ faults < FaultsAllowed
    /\ faults' = faults + 1
    /\ SwitchDown(s)
    /\ toSwitch' = [toSwitch EXCEPT ![s] = <<>>]
    /\ notices' = { n \in notices : n.switch # s }
    /\ \/ UNCHANGED <<entries, meters>>
       \/ /\ entries' = [entries EXCEPT ![s] = {}]
          /\ meters' = [meters EXCEPT ![s] = {}]
    /\ UNCHANGED registering

-----------------------------------------------------------------------------
\* The switch applies the next message.  A rule is refused without the meter
\* it refers to.
Accepted(s, m) ==
    \A e \in m.rules :
        e.direction = "forward" /\ s = Source[e.flow] => e.flow \in meters[s]

ApplyEntries(s, m) ==
    LET others == { e \in entries[s] : e.flow \notin m.flows }
    IN  CASE m.op = "rules" -> IF Accepted(s, m) THEN others \cup m.rules
                               ELSE entries[s]
          [] m.op = "delete" -> others
          [] OTHER -> others \cup (entries[s] \ Metered(s))

ApplyMeters(s, m) ==
    CASE m.op = "meter"     -> meters[s] \cup m.flows
      [] m.op = "dropMeter" -> meters[s] \ m.flows
      [] OTHER              -> meters[s]

Apply(s) ==
    LET m == Head(toSwitch[s])
    IN  /\ toSwitch[s] # <<>>
        /\ toSwitch' = [toSwitch EXCEPT ![s] = Tail(@)]
        /\ entries' = [entries EXCEPT ![s] = ApplyEntries(s, m)]
        /\ meters' = [meters EXCEPT ![s] = ApplyMeters(s, m)]
        /\ UNCHANGED <<vars, notices, registering, faults>>

\* An entry times out.  The notice is lost when nobody is connected; a second
\* one for the same flow tells the controller nothing new.
TimeOut(s, e) ==
    /\ e \in entries[s]
    /\ e.flow \in TimedFlows
    /\ entries' = [entries EXCEPT ![s] = @ \ {e}]
    /\ notices' = IF s \in datapaths
                  THEN notices \cup {[switch |-> s, flow |-> e.flow]}
                  ELSE notices
    /\ UNCHANGED <<vars, meters, toSwitch, registering, faults>>

EventStep == \/ \E n \in notices : TakeNotice(n) \/ DropNotice(n)
             \/ \E x \in expiring : HandleExpiry(x)
             \/ WipeFlows \/ WipeMeters \/ Refill

SwitchStep == \E s \in Switches : Apply(s)

\* The ingress switch sees no more traffic of a flow.
FallsSilent(f) == \E e \in FlowEntries(f, Source[f]) : TimeOut(Source[f], e)

TimeOuts == \E s \in ExpiringAt : \E e \in entries[s] : TimeOut(s, e)

DataNext ==
    \/ ProgramStep \/ Request \/ LinkEvent \/ EventStep \/ SwitchStep \/ TimeOuts
    \/ \E f \in Flows : Withdraw(f)
    \/ \E s \in Switches : Register(s) \/ Disconnect(s)

DataSpec == DataInit /\ [][DataNext]_allVars

\* Whoever holds the lock goes on, the event thread serves what arrived, the
\* connections deliver what was sent, a switch that lost its connection tries
\* again, and the traffic of a flow with a timeout ends.
DataFairness ==
    /\ WF_allVars(ProgramStep)
    /\ WF_allVars(EventStep)
    /\ WF_allVars(SwitchStep)
    /\ \A s \in FlakySwitches : WF_allVars(Register(s))
    /\ \A f \in TimedFlows : WF_allVars(FallsSilent(f))

DataFairSpec == DataSpec /\ DataFairness

-----------------------------------------------------------------------------
DataTypeOK ==
    /\ entries \in [Switches -> SUBSET Entry]
    /\ meters \in [Switches -> SUBSET Flows]
    /\ toSwitch \in [Switches -> Seq(Message)]
    /\ notices \subseteq [switch : ExpiringAt, flow : TimedFlows]
    /\ \/ registering = Idle
       \/ registering \in [switch : Switches, stage : {"wipeFlows", "wipeMeters", "fill"}]
    /\ faults \in 0..FaultsAllowed

\* No handler is under way, no switch is being registered and every message
\* has arrived.
Settled == holder = "none" /\ registering = Idle /\ toSwitch = Nothing

\* Once everything has arrived, a connected switch forwards for exactly the
\* flows placed through it, along their present paths: no entry is left over
\* from an old path, a lost connection or an ended flow, and none is missing
\* that cannot have timed out (controller.py _install_flow, _delete_flow,
\* switch_features_handler).
TablesFollowFlows ==
    Settled => \A s \in datapaths, f \in Flows :
        IF Active(f) /\ s \in SwitchesOf(flows[f].path)
        THEN /\ FlowEntries(f, s) \subseteq EntriesOf(f, flows[f].path, s)
             /\ f \notin TimedFlows => FlowEntries(f, s) = EntriesOf(f, flows[f].path, s)
        ELSE FlowEntries(f, s) = {}

\* The reservation of an ACTIVE flow is held to its rate and watched: once
\* everything has arrived, its ingress switch has the meter and both entries,
\* whose expiry will release it, or has reported one that did expire, and
\* the report is being handled or still to be handled
\* (controller.py _install_meter, flow_removed_handler, switch_features_handler).
ReservationsAreWatched ==
    Settled => \A f \in Flows :
        Active(f) /\ Source[f] \in datapaths =>
            \/ /\ f \in meters[Source[f]]
               /\ FlowEntries(f, Source[f]) = EntriesOf(f, flows[f].path, Source[f])
            \/ [switch |-> Source[f], flow |-> f] \in notices \cup expiring

\* A reservation with a timeout whose traffic has ended is released, whatever
\* was lost or restarted on the way.
ReservationsEnd == \A f \in TimedFlows : Active(f) ~> ~Active(f)

\* What the drop_meter argument of _delete_flow documents: the meter goes with
\* the flow.
MetersEndWithFlows ==
    Settled => \A s \in datapaths : \A f \in meters[s] : Active(f)
=============================================================================
