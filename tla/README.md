# NetSlice in TLA+

NetSlice (`src/netslice`) is an SDN controller that admits bandwidth-reserved
flows onto a small core network, preempts less important flows when it has to,
and reroutes flows when links fail. This directory holds TLA+ modules of its
decision making, its bookkeeping, what it makes the switches do, its event log and
the life of its process, the TLC configurations that check them on small instances,
and proofs, checked by TLAPS, of what holds for every instance.

## 1. The system

| part | code | state it keeps | operations |
|---|---|---|---|
| path search | `routing.py` | none (heap, labels and predecessors of one call) | `widest_path`, `shortest_path`, `find_path` |
| network state | `state.py` | `flows`, `residual`, `link_flows`, `down_links`, hold-down times | `new_flow`, `reserve`, `release`, `forget`, `mark_hold_down`, `set_link_down`, `set_link_up`, and the readers `available`, `preemptable_capacity`, `victims`, `flows_on` |
| admission | `admission.py` | none | `evaluate` |
| controller, handlers | `controller.py` | `_by_cookie`, the lock | `request_flow`, `remove_flow`, `clear_flows`, `_replace_path`, `_handle_link_down`, `_handle_link_up`, `flow_removed_handler` |
| controller, connections | `controller.py` | `datapaths` | `switch_features_handler`, `state_change_handler` |
| controller, data plane | `controller.py` | the switches' tables and meters | `_install_flow`, `_install_meter`, `_delete_flow`, `_wipe` |
| controller, statistics | `controller.py` | `flow_stats` | `_poll_flow_stats`, `flow_stats_reply_handler` |
| event log | `controller.py`, `dashboard.html` | `event_log`, `_event_seq`, the page's `lastSeq` | `record`, `events_since` |
| control socket, client | `controller.py`, `client.py` | none | `_dispatch`, `send` |
| dashboard | `dashboard.py` | none | URL routes to the same handlers |
| topology, lab | `topology.py` | the topology, port numbers | `build_lab`, `deploy`, `set_link` |
| controller process | `topology.py`, `controller.py` `main`, `_ports_in_use` | the PID file, three TCP ports, the event log file | `start_controller`, `controller_pid`, `controller_responding`, `stop_controller` |

**Interaction.** Requests reach `request_flow` and `remove_flow` from a thread
for each control connection and for each dashboard request. OpenFlow events
(port status, flow removed, switch features, disconnection) are handled one
after the other on the event thread. All of them share one `NetworkState`, and
one lock that every writer takes: but switch registration and loss change
`datapaths` without it, `clear_flows` takes it for each removal and once more at
the end, cookies are looked up before it is taken, and `record` is called with
and without it. The threads are real (`TECHNOLOGIES.md`, `dashboard.py:13-23`).

**What is hard.** The order of victims, retries and link events within one
handler, where each step changes what the next one finds; what the unlocked
threads do between two of those steps; the three structures of `state.py` that
must agree at all times; a plan made link by link and carried out afterwards; a
cascade of preemptions that has to stop. Then what happens outside the lock: messages
to different switches arrive in any order and are lost with a connection; a switch is
wiped before and filled after the lock is taken; entries expire by themselves and the
notices may come late or never. Event numbers are drawn, written and buffered by
threads that do not wait for one another, and read by a page whose requests overlap.
Operators start and stop processes that share nothing but a PID file and the ports.
`PROJECT.json` lists these as hazards,
each at its line, with the properties that would catch it going wrong, or with the
reason why none does.

**What makes each part correct.**

* search: a path is returned exactly when an admissible one exists, it is a real
  path, and it is the best one by the policy;
* network state: residual = capacity less the reservations of the flows the index
  lists; the index lists exactly the ACTIVE flows where their paths go; nothing
  that was checked is overbooked;
* admission: what is decided can be carried out; only the less important, outside
  their hold-down, give way, and only where it helps;
* handlers: when the lock is free nobody is left half-way (PREEMPTED, or on a dead
  link); a flow that was torn down stays so; handlers end; cookies and flow table
  agree;
* data plane: once everything has arrived, every connected switch has exactly the
  entries of the flows placed through it, and each reservation is metered and watched
  by an entry whose expiry releases it;
* event log: the page shows what is on disk, shows it once, and misses events only in
  ways that can be named;
* process: a controller that came up undisturbed can be found and stopped, is
  complete, and is the one that answers; no running controller loses its PID file
  except to an overlapping start.

## 2. Modules

| module | what it models |
|---|---|
| `Network` | switches, core links as two-element sets, capacities, simple paths |
| `Routing` | the Dijkstra search of `routing.py` as operators on a table (label, predecessor, settled); a recursive function does the rounds |
| `Dijkstra`, `MCDijkstra` | the same search as a state machine, one step for each popped switch, with a reference over all simple paths |
| `Workload` | the requests, as constants, and `Load`, the bandwidth of a set of flows |
| `Reservations` | the abstract specification of the ledger: who is booked where; what is free is defined by it |
| `NetworkState`, `MCNetworkState` | `state.py`, one action for each method |
| `Admission` | `evaluate`, `victims` and what they call, as sets of possible decisions |
| `Controller`, `MCController` | the handlers, one step for each reserve or release, under the lock |
| `DataPlane`, `MCDataPlane` | the controller composed with the switches: messages, tables, meters, expiry notices, registration, lost connections |
| `ControllerProcess`, `MCControllerProcess` | the processes, the PID file, the ports, and the commands that start and stop controllers, poll by poll |
| `EventLog` | `record`, `events_since` and the page that follows the log |
| `Routing_proofs`, `Dijkstra_proofs`, `NetworkState_proofs`, `Admission_proofs`, `Controller_proofs`, `DataPlane_proofs`, `ControllerProcess_proofs`, `EventLog_proofs` | lemmas and theorems, each about the module it is named after |

`DataPlane` extends `Controller`: each of its steps that programs a switch is a step of
`Controller` conjoined with the messages it sends. `Controller` extends `Admission`, which extends `NetworkState` and `Routing`;
`NetworkState` instantiates `Reservations` under the refinement mapping
`booked[f] = {l : f in linkFlows[l]}`.

### How the state corresponds to the code

* `flows[f] = [state, path]` is a `FlowEntry`. The state `ABSENT` stands for a
  flow that is not in the dictionary. `links` is a function of `path`, so it is not
  kept twice. What a request asks for never changes and is a constant
  (`Bandwidth`, `Priority`, `Source`, `Destination`); its policy, tie break and
  number are in `terms`.
* A flow constant is one request. Hosts are left out: access links carry no
  capacity in the code, so a request is a pair of switches.
* `holdDown` is the set of flows whose `hold_down_until` is in the future. The clock
  may pass it at any moment, also in the middle of a handler.
* `forced` is a history variable: the flows that were reserved with `force=True`.
* `holder` and `agenda` are the thread in the lock and the calls it has still to
  make. A handler is split where it changes `NetworkState`: `preempt` is the
  release of one victim, `admit` and `move` the reserve, `reroute` the decision of
  `_replace_path`, `evacuate` the release in `_handle_link_down`. A `reroute` that
  succeeds puts its own calls in front of what is left, as the nested call does.
* `clearing[c]` is a call of `clear_flows`: the identifiers it copied and has still to
  remove. Nothing keeps two calls apart, so they may overlap.
* `expiring` holds the notice whose cookie `flow_removed_handler` has looked up, without
  the lock, and whose flow it has not yet looked at under the lock. Other threads take
  the lock between the two (`LookUpCookie`, then `ExpireFlow` or `IgnoreExpiry`).
* Bandwidths are whole numbers, so the tolerance `EPS` has no work to do.
* Where Python leaves an order open (iteration over a set of strings before a
  stable sort), the model has every order the sort key allows. Where it sorts
  identifiers as strings, `IdRank` gives that order, and `FirstNumber = 9` makes
  `f9` and `f10` meet.
* In `DataPlane`, `entries[s]` is the flow table of a switch. The two matches of a flow are
  told apart by `direction`; `out` is the neighbour behind the output port, the switch
  itself standing for its host. `meters[s]` are the flows with a meter, `toSwitch[s]` the
  messages on the connection, `notices` the flow-removed messages that wait for the event
  thread (`TakeNotice` and `DropNotice` are its lookup of the cookie, `HandleExpiry` the
  part under the lock), `registering` how far `switch_features_handler` has come. The switch is not part
  of the repository; how it is used fixes what is assumed of it: an ADD with the same
  match replaces the entry, a delete by cookie takes both directions, a deleted meter
  takes the entries that refer to it along, a rule without its meter is refused, a
  connection is a FIFO channel and loses what is in it. Messages that one handler sends
  one switch leave together, except that registration, which wipes without the lock, may
  come between two of them.
* In `ControllerProcess`, `process[p]` is how far `main` has come and which ports it has not
  probed yet, one after the other, or later has not tried to bind yet. A process that found
  a port taken is `busy` until it has probed the others. One that ended is `exited` until
  whoever started it has waited for it, and can be signalled as long, then `dead`. `owner` is who listens, `pidFile` the number in `CONTROLLER_PID`
  (`NoPid` when there is no file), `logOwner` who emptied the event log last. `command[c]` is
  what an operator runs and the PID it holds in a local variable. Three
  history variables say who met whom: `overlapped` are the starts that met another command,
  or a process starting up, before they had a process of their own; `contested` the
  processes of these, and those that met one while they came up themselves; `rewritten` the
  commands since whose reading or writing of the file another start has written it. The
  code takes for granted that nobody else starts a controller at the same moment, and the
  properties make this their condition. They do not suppose that nobody else serves: that no
  leftover of an earlier start holds a port or answers for the new one is what they say.
* In `EventLog`, an event is its number. `recording` is where each thread stands in `record`,
  `buffer` the deque, `refreshing` the calls of `refresh` under way with the `lastSeq` they
  read. A reply is a set: `drawEvents` takes its largest number, its order only matters to
  the layout. `shown`, `repeated`, `overlapped`, `inherited`, `latest` and `overtaken` are history
  variables.
* `flows_on` raises `KeyError` for a flow that is listed and not in the table; the
  actions ending in `Aborts` are the handlers that this exception leaves.

## 3. Runs

| run | question | bound |
|---|---|---|
| `dijkstra` | is what a search has settled final and best, and is the path it returns the right one? | 5 switches, 6 links, all 4^6 width assignments, both policies, minimum 0 and 2; start and goal two apart, with two ways round and a chord |
| `dijkstra_ties` | does `widest_path` break ties on hops, as documented? **No** | 5 links, 3 widths |
| `network_state` | do table, index and residuals agree under any order of calls, and do they implement `Reservations`? | 3 links, 3 flows of widths 1, 2, 2; links that fit exactly, fall short by one, or are overbooked by force |
| `controller_requests` | who gives way, and can every decision be carried out? | ring of 4, 4 flows of 3 priorities, one of whose victims crosses two links of the path and others one; both tie breaks, admission control on and off |
| `controller_failures` | is everybody placed or FAILED when the lock is free, whatever fails, and does every handler come to its end? | square with diagonal, 3 flows that cannot all be placed, one flow with a timeout, one link and one switch that fail and return without limit, one clear while no request is made |
| `controller_clear` | what survives of the ledger when `clear_flows` runs beside requests? | the same square, one link, two clears at any moment, which may overlap |
| `clear_race` | do flow table and index agree in that case? **No** | the same, no failure |
| `hold_down` | is a rerouted flow immune, as documented? **No** | ring of 4, 3 flows |
| `data_plane` | do the tables follow the flows, and is a silent reservation released? | triangle, 2 flows that are each other's detour, one with a timeout; one failure at any moment, of a link or of a connection, the tables kept or lost |
| `meters` | does the meter go with its flow, as documented? **No** | the same, no failure |
| `controller_process` | is the controller that runs the one that is known, is it complete, does a start that reports success tell the truth, and who may take the PID file away? | 2 operators (interchangeable), 3 processes, 2 ports |
| `event_log` | which events does the page miss or repeat? | 2 recording threads, 4 events, 2 refreshes under way, a buffer of 3 and replies of 2, one restart |

Every flow is requested once (`Minted`), so each run is finite; link and switch
failures, removals and expiries are not counted. The bounds are `BreakableLinks`,
`FlakySwitches`, `TimedFlows`, `ExpiringAt`, `ClearsAllowed` and the workload. Three flows with one link
failing are enough for a reroute that preempts, whose victim is still waiting for
its own evacuation, and for retries that fail; the fourth flow of
`controller_requests` is there for the credit between links. In `data_plane` one failure
(`FaultsAllowed`) is enough for a wipe that meets a request, a reroute or an expiry under
way; nothing is cleared (`ClearsAllowed = 0`), as removals one by one are requests anyway;
entries expire by themselves at the switches of `ExpiringAt`. Two ports stand for the three
of the code, the one that is asked and one that is not; the third process is the one
that finds the remains of two. The buffer of `event_log` overflows within four events, and a
reply is shorter than the buffer, as 200 is shorter than 500. `ConcurrentClear`
says whether requests are made while a clear is under way: it is FALSE where the
properties are those that the race of `clear_race` breaks.

**The four disagreements.** `dijkstra_ties`: a single label for each switch loses
the shorter prefix when the bottleneck comes later (`routing.py:125-126` says
otherwise). `clear_race`: a request between the last removal of `clear_flows` and
its emptying of the table is forgotten with its bandwidth still charged
(`state.py:9-13`); in `controller_clear` the consequences are modelled too: the
handlers that then die of a `KeyError`, with links marked down and flows left on
them. `hold_down`: `_handle_link_down` releases every flow of the list it made at
the start, also one that an earlier round of its loop has moved meanwhile
(`state.py:104-108`). `meters`: `_delete_flow` looks for the meter at the flow's ingress, but
`release` has emptied the path from which the ingress is read, so the meter stays on
the switch until a wipe (`controller.py:903-904` says otherwise).

**Fairness.** A thread in the lock runs on a native thread with nothing to wait for
but its own calls, so the steps of the lock holder are weakly fair
(`WF_vars(HandlerStep)`, in `controller_failures`). `DataFairness` adds, for `data_plane`, the event thread, which serves its
queue one by one; the delivery of what was sent over a connection that stands; that a
switch which lost its connection tries again (that is how Open vSwitch is configured);
and that the traffic of a flow with a timeout ends, for a flow that is used for ever is
meant to stay. `event_log` assumes that some refresh goes on: the page has a timer. No
fairness is assumed of requests, failures, repairs, clocks, recording threads, operators
or processes, and none at all in `controller_process`.

**Mutations.** Definitions with a comment "Mutation" are wrong versions of the
definition after them, each the way a plausible bug would have it. No
specification uses them. Put in the place of the original they make the property
they are listed with in `PROJECT.json` fail.

## 4. Proofs

What is proved holds for every finite network and workload that satisfies
`NetworkAssumption` and `WorkloadAssumption` (capacities and bandwidths are
positive whole numbers; links join two different switches).

* `NetworkState_proofs`: the inductive invariant is
  `LedgerInv /\ NoOrphans`. `BooksBalance` alone is not inductive: that the clamp in
  `release` does nothing needs to know that the flow is among those the residual
  was computed without, which is `TableIndexed`; that a reservation adds its
  bandwidth once needs to know that no link lists the flow yet, which is
  `NoOrphans` for flows outside the table. `CheckedFlowsFit` needs `BooksBalance`, to
  turn the check against the residual into one against the sum. The lemmas say
  what one reserve or release does to each part, so that a specification that
  makes the same calls in its own order can use them. They rest on what `Load` is: the
  number of Mbps of a set of flows, so a flow that joins or leaves changes it by its
  bandwidth. The definition by cardinality is what makes this provable without induction.
* `StateCorrect`: type correctness, `IndexAgrees`, `BooksBalance` and
  `CheckedFlowsFit` for `StateSpec`. `StateRefines`: `StateSpec` implements
  `Reservations`, with `FreeIsAvailable` as the heart of the mapping.

* `Routing_proofs`: `FoundPathIsUsable`, that a path the search returns uses no link
  that is down or too narrow. The loop is a recursive function over rounds; the
  induction is over the least round that would break `Pruned` (`LeastNumber`, from the
  well-foundedness of the naturals).
* `Dijkstra_proofs`: that the searches are right, on every core, for every query. The
  inductive invariant is `SearchInv`: the label of a reached switch is the offer of its
  predecessor, which is settled (`LabelIsOffer`); switches are settled from the best
  label to the worst (`SettledInOrder`, which also speaks of `dst`, the one switch that is
  settled without being scanned); and no usable link out of a settled switch offers its
  other end more than that end's label says (`OffersTaken`). `OffersTaken` alone is not
  inductive: the label of a settled switch must not improve later, and that is
  `SettledInOrder`. The rest follows from the invariant in one state. Hops fall by one
  from a switch to its predecessor, so the predecessors lead back to the start along one
  simple path, and it has the label's width and length (`ChainExists`, `ChainLabels`,
  `ChainUnique`). Along any usable path, as far as its switches are settled, labels are
  as good as the path (`LabelsKeepUp`), and the first one that is not settled is no better
  than what was popped (`SettledIsBest`). `IsRound` says that the steps are the rounds of
  the recursive function behind `FindPath` of `Routing`, so `SearchIsCorrect` is about
  what admission calls. Assumed are `QueryAssumption` (switches of the core, whole
  numbers, widths below `Infinity`) and `WidthsBelowInfinity`.
* `Admission_proofs`: what a decision of `evaluate` is. `DecisionFacts`: its path is one
  of the flow, its victims may be taken off it. `DecisionFits`: on every link of the
  path, what is free and what the victims release there is enough. This is the
  argument about `admission.py:172-195`: the credit for victims chosen earlier on the
  path and the pick for the link itself are disjoint sets of flows, so their loads add
  up.
* `Controller_proofs`: the handlers, call by call. What holds of the network state in
  the middle of a handler depends on what the handler has still to do, so the inductive
  invariant `ControlInv` speaks of the agenda: victims first, then the one placement
  they are for, then their retries, then evacuations (`Sorted`); two calls do not
  collide (`Coherent`); a flow about to be evicted is ACTIVE and less important than
  the flow it makes room for (`PreemptsReady`); a flow about to be placed is on no link
  (`PlacementsReady`); whoever is to be rerouted is displaced or about to be
  (`ReroutesReady`). None of the properties is inductive without it: a release keeps the
  books only if the flow's row is as the decision saw it. `RoomReady` adds that a pending
  placement has room once the victims still on its links are gone.

  | theorem | property | assumes |
  |---|---|---|
  | `ControllerBooks` | `TypeOK`, `BooksBalance`, `CheckedFlowsFit` | |
  | `ControllerCookies` | `CookieMapAgrees` | |
  | `ControllerRefines` | `LedgerSpec` | |
  | `EndedFlowsStayEnded` | `TerminalIsFinal` | |
  | `PreemptionsAreJustified` | `PreemptionIsJustified` | |
  | `ReservesNeverRaise` | `ReserveNeverRaises` | |
  | `ControllerIndex` | `IndexAgrees`, `NobodyLeftPreempted` | no request while flows are cleared |
  | `DownLinksAreEmpty` | `NoFlowOnDownLink` | no request while flows are cleared |

  The assumption is `~ConcurrentClear`; under it `CalmInv` is inductive as well: every
  listed flow has its row, so no handler dies of a `KeyError`, and whoever is
  PREEMPTED has a retry pending. Without it the last two are false, which `clear_race`
  and the abort actions of `controller_clear` show. The proofs use the assumptions on
  the constants that TLC evaluates in every run (`NetworkAssumption`,
  `WorkloadAssumption`, `ControllerAssumption`), and nothing of `WidthsBelowInfinity`.

* `DataPlane_proofs`: `DataRefinesController`, that whatever switches and connections do,
  the program takes the steps of `Controller`. The one step that is not so by its
  form is the lookup of a notice's cookie, which acts on what a switch sent: it must be
  a notice some switch may send (`NoticesOK`). What becomes of the flow is decided under the lock,
  from the row as it is by then. `DataKeepsController` is what follows: books,
  index, cookies, room and down links are right however late the switches hear of it.

  What the switches hold is `DataInv`. The properties speak of the moment when nothing
  is under way, so the invariant has to say what is under way. For a connected switch
  `s` and a flow `f`, `SwitchInv` says:

  * `RulesAreRight`: the last message in the queue that decides on `f`'s entries is, if
    it adds rules, about the path `f` is known by;
  * `EntriesAreRight`: if no such message is in the queue, the entries are of that path
    already, or there are none;
  * `MeterComesFirst`: before the last rules there is a meter in the switch or in the queue, with no
    removal in between; a rule without its meter would be refused;
  * `NothingMissing`: on a switch of the path nothing in the queue takes entries or meter
    away for good.

  A flow's row is not the path the switches were told of: while it waits for a new place
  its row is empty and the switches still have the old one, which the pending call carries
  (`KnownPath`, and `OldPathsKept` in `Controller_proofs`). A switch is exempt while it is wiped
  and filled, stage by stage, for the wipe takes no lock and rules of another thread may
  arrive before or after it; an entry that timed out may be gone as long as its notice is
  on its way or in the handler's hands (`Expired`, `Announced`). The refill, which programs the flows in the table's order,
  is followed by the number of flows done, with one witness for what precedes each.
  `DataTypes`, `TablesAreRight` and `ReservationsWatched` follow, for any core,
  workload and number of failures. They assume `~ConcurrentClear`, as `DataPlane` does.
* `ControllerProcess_proofs`: `ProcessInv`. `ServerIsKnown` speaks of processes that are up;
  that they are in the file when they get there needs to know who might take them out.
  `Mine(p)` says it for an uncontested process from its first step on: every command
  under way is about `p`, nobody else is starting up, and the file or the start that is
  about to write it names `p`. A command that begins later finds `p` answering and in the
  file, so it is about `p` too, and the one that unlinks the file has seen its process
  exited. That nobody else answers is not part of being uncontested: it is the first
  conjunct of `PortsOf(p)`, which holds because the start found no answer before it had a
  process (`NobodyAnswers`), nobody who could bind a port was starting up since, and
  each probe that found a port free stays right for the same reason. `FileIsAsRead` is about every
  command, contested or not: what it read from the file or wrote to it is still there, or the file is
  gone, unless another start has written it (`rewritten`); together with `CommandsMakeSense`, by which
  a command unlinks the file only for a process that is not alive, this is
  `KeptFile`. `KnownServer`, `WholeServer`, `TruthfulSuccess` and `ProcessTypes` follow, for
  any number of operators, processes and ports.
* `EventLog_proofs`: `OnDisk` follows an event from its line to the page; `OneAtATime` is why
  nothing is drawn twice: without overlap, the one reply under way was asked with the
  present `lastSeq`, and nothing shown is newer than that, whichever controller numbered
  it. `LossInv` is why nothing else is lost: a reply may be drawn at any later time, so
  whatever its newest event passes over must have been heard of already (`RepliesCover`),
  and a number that enters the buffer afterwards is older than one that did before, for
  the page knows no number of this controller that has not entered (`KnownEntered`).
  The two history variables say that an event was overtaken when the one that overtook it has
  already left the buffer. `ShownAreOnDisk`, `EventsAreShownOnce`, `LossesAreNamed`,
  `LogTypes`.

Every invariant and action property of the passing runs is stated by a theorem. Only
model-checked is what needs fairness: `HandlersEnd`, `ReservationsEnd`,
`EventsReachThePage`.

## 5. Not modelled, and the plan

What the plan has left, in this order:

1. `LinkPorts`: the two ends of a link, each of which reports its port; one end that
   comes up marks the whole link up, and a report made while a switch is away is lost.
   In `Controller` a link goes up or down as one (`Reported`).
2. The connection itself: two connections of one switch at a time, with the DEAD event
   of the old one arriving after the registration of the new (`controller.py:335`).
   `DataPlane` has one connection for each switch.
3. Failure after the reservation: an exception from `_install_flow` or `record`
   (`controller.py:509`).
4. The gap of a reroute: new and old entries are written switch by switch without
   waiting for barriers; `TablesFollowFlows` speaks of the time when all has arrived.
5. The event stream between the handlers and the log: which events `Controller` records
   in which order.

Simplifications to know of: in `DataPlane` requests do not run beside `clear_flows`
(`~ConcurrentClear`); the counters of flow statistics, which decide nothing, the
table-miss entry and barriers are left out. In `ControllerProcess` an operating system
does not give a PID twice, so a file that is left over names nobody else's process.

Left out for good: rendering and wording, argument parsing, address plans,
Kathara, demonstrations and scripts. The statistics poller changes only
counters on the dashboard. A request repeated after the client's 30 s timeout is
a second request to the code, which gives it no identity to compare.
