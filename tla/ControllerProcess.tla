-------------------------- MODULE ControllerProcess --------------------------
(***************************************************************************)
(* The life of the controller's process (topology.py start_controller,     *)
(* stop_controller, controller_pid, controller_responding; controller.py   *)
(* main, _ports_in_use, __init__): operators run start and stop commands   *)
(* side by side, the only thing the commands share is the PID file, and    *)
(* the only thing the processes share are the three ports and the event    *)
(* log on disk.                                                            *)
(*                                                                         *)
(* A command waits by polling: each poll is a step, and so is the deadline *)
(* that ends it.  A process that cannot bind a port loses the thread that  *)
(* would have served it and lives on.  A process that has exited can still *)
(* be signalled until whoever started it has looked at it or has ended.    *)
(* Identifiers of processes are not used again.                            *)
(***************************************************************************)
EXTENDS Naturals

CONSTANTS
    Operators,  \* who runs commands, one at a time each
    Processes,  \* bound: how many processes are started
    Ports,      \* PORTS, numbered in its order
    Control     \* the control channel, the port a command asks

ASSUME ProcessAssumption ==
    Processes \in Nat /\ Ports \subseteq Nat /\ Control \in Ports

Pids == 1..Processes
NoPid == 0

VARIABLES
    process,    \* [Pids -> [stage, untried]], untried the ports not yet probed,
                \* then the ports not yet bound
    owner,      \* [Ports -> the process that listens]
    pidFile,    \* CONTROLLER_PID
    logOwner,   \* the process that emptied the event log last
    command,    \* [Operators -> [doing, stage, pid]]
    overlapped, \* history: starts that have met another, nothing spawned yet
    contested,  \* history: processes whose start has met another
    rewritten   \* history: commands since whose reading of the file it was written

history == <<overlapped, contested, rewritten>>
processVars == <<process, owner, pidFile, logOwner, command, history>>

-----------------------------------------------------------------------------
Stages == {"fresh", "starting", "busy", "clear", "up", "exited", "dead"}

Alive(p) == process[p].stage \in {"starting", "busy", "clear", "up"}
StartingUp(p) == Alive(p) /\ (process[p].stage = "up" => process[p].untried # {})

\* os.kill(pid, 0) finds p: it is alive, or nobody has waited for it.
Present(p) == Alive(p) \/ process[p].stage = "exited"

Resting == [doing |-> "nothing", stage |-> "done", pid |-> NoPid]

Waiting(c, doing, stage) ==
    command[c].doing = doing /\ command[c].stage = stage

\* p is alive, has been through its start-up, and is in the file.
Established(p) ==
    /\ Alive(p) /\ ~StartingUp(p)
    /\ \A c \in Operators : Waiting(c, "start", "write") => command[c].pid # p

\* controller_responding: somebody accepts on the control channel.
Responding == owner[Control] # NoPid

\* c's command is the only one, and no process is starting up.
Alone(c) ==
    /\ \A d \in Operators \ {c} : command[d] = Resting
    /\ \A q \in Pids : ~StartingUp(q)

\* Nobody else starts a process, is being started, or asks for one.
Undisturbed(p) ==
    /\ \A q \in Pids \ {p} : ~StartingUp(q)
    /\ \A c \in Operators : \/ command[c] = Resting
                            \/ command[c].doing = "start" /\ command[c].pid = p

Remember ==
    /\ overlapped' = { c \in Operators :
          Waiting(c, "start", "spawn")' /\ (c \in overlapped \/ ~Alone(c)') }
    /\ contested' = { p \in Pids :
          /\ Alive(p)'
          /\ \/ p \in contested
             \/ ~Established(p)' /\ ~Undisturbed(p)'
             \/ \E c \in overlapped : ~Alive(p) /\ command'[c].pid = p }
    /\ rewritten' = { c \in Operators :
          /\ command'[c].stage \in {"probe", "term", "wait", "unlink"}
          /\ \/ c \in rewritten
             \/ \E d \in Operators \ {c} :
                   Waiting(d, "start", "write") /\ Waiting(d, "start", "wait")' }

Goes(c, stage) == command' = [command EXCEPT ![c].stage = stage]
\* Mutation: a command that has ended still looks busy.
EndsHalfway(c) == command' = [command EXCEPT ![c].stage = "done"]
Ends(c) == command' = [command EXCEPT ![c] = Resting]

-----------------------------------------------------------------------------
ProcessInit ==
    /\ process = [p \in Pids |-> [stage |-> "fresh", untried |-> Ports]]
    /\ owner = [port \in Ports |-> NoPid]
    /\ pidFile = NoPid
    /\ logOwner = NoPid
    /\ command = [c \in Operators |-> Resting]
    /\ overlapped = {} /\ contested = {} /\ rewritten = {}

\* start_controller and stop_controller ask controller_pid, which reads the
\* file, probes the process and removes the file of a dead one.
AskForPid(c, doing) ==
    /\ pidFile # NoPid
    /\ command' = [command EXCEPT ![c] = [doing |-> doing, stage |-> "probe",
                                          pid |-> pidFile]]

\* Mutation: nobody asks whether a controller is running.
StartAnyway(c) ==
    /\ command[c] = Resting
    /\ command' = [command EXCEPT ![c] = [doing |-> "start", stage |-> "spawn",
                                          pid |-> NoPid]]
    /\ UNCHANGED <<process, owner, pidFile, logOwner>>

StartBegins(c) ==
    /\ command[c] = Resting
    /\ IF Responding THEN AskForPid(c, "start")
       ELSE command' = [command EXCEPT ![c] = [doing |-> "start", stage |-> "spawn",
                                               pid |-> NoPid]]
    /\ UNCHANGED <<process, owner, pidFile, logOwner>>

Spawn(c, p) ==
    /\ Waiting(c, "start", "spawn")
    /\ process[p].stage = "fresh" /\ \A q \in 1..(p - 1) : process[q].stage # "fresh"
    /\ process' = [process EXCEPT ![p].stage = "starting"]
    /\ command' = [command EXCEPT ![c].stage = "write", ![c].pid = p]
    /\ UNCHANGED <<owner, pidFile, logOwner>>

WritePid(c) ==
    /\ Waiting(c, "start", "write")
    /\ pidFile' = command[c].pid
    /\ Goes(c, "wait")
    /\ UNCHANGED <<process, owner, logOwner>>

\* process.poll() finds that it exited: its file goes.
StartFails(c) ==
    /\ Waiting(c, "start", "wait")
    /\ process[command[c].pid].stage = "exited"
    /\ process' = [process EXCEPT ![command[c].pid].stage = "dead"]
    /\ Goes(c, "unlink")
    /\ UNCHANGED <<owner, pidFile, logOwner>>

\* "controller running (pid ...)": somebody answers.  The process was alive
\* when it was polled.
StartSucceeds(c) ==
    /\ Waiting(c, "start", "wait")
    /\ Responding
    /\ Ends(c)
    /\ UNCHANGED <<process, owner, pidFile, logOwner>>

\* Mutation: a start that gives up removes the file.
StartGivesUpForGood(c) ==
    /\ Waiting(c, "start", "wait")
    /\ Goes(c, "unlink")
    /\ UNCHANGED <<process, owner, pidFile, logOwner>>

\* The deadline.  The process is left to itself.
StartGivesUp(c) ==
    /\ Waiting(c, "start", "wait")
    /\ Ends(c)
    /\ UNCHANGED <<process, owner, pidFile, logOwner>>

StopBegins(c) ==
    /\ command[c] = Resting
    /\ AskForPid(c, "stop")
    /\ UNCHANGED <<process, owner, pidFile, logOwner>>

\* The rest of controller_pid.
Probe(c) ==
    /\ command[c].stage = "probe"
    /\ IF ~Present(command[c].pid) THEN Goes(c, "unlink")
       ELSE IF command[c].doing = "stop" THEN Goes(c, "term")
       ELSE Ends(c)
    /\ UNCHANGED <<process, owner, pidFile, logOwner>>

\* SIGTERM.  When the process is gone by now the command dies of it.
Terminate(c) ==
    /\ command[c].stage = "term"
    /\ IF Present(command[c].pid) THEN Goes(c, "wait") ELSE Ends(c)
    /\ UNCHANGED <<process, owner, pidFile, logOwner>>

StopSeesExit(c) ==
    /\ Waiting(c, "stop", "wait")
    /\ ~Present(command[c].pid)
    /\ Goes(c, "unlink")
    /\ UNCHANGED <<process, owner, pidFile, logOwner>>

\* p is gone and its ports are free.
Dies(p) ==
    /\ process' = [process EXCEPT ![p] = [stage |-> "exited", untried |-> {}]]
    /\ owner' = [port \in Ports |-> IF owner[port] = p THEN NoPid ELSE owner[port]]

\* The deadline: SIGKILL, of which the command dies as of SIGTERM.
Kill(c) ==
    /\ Waiting(c, "stop", "wait")
    /\ IF Present(command[c].pid) THEN Goes(c, "unlink") ELSE Ends(c)
    /\ IF Alive(command[c].pid) THEN Dies(command[c].pid)
       ELSE UNCHANGED <<process, owner>>
    /\ UNCHANGED <<pidFile, logOwner>>

\* CONTROLLER_PID.unlink, whatever the file says by now.
Unlink(c) ==
    /\ command[c].stage = "unlink"
    /\ pidFile' = NoPid
    /\ Ends(c)
    /\ UNCHANGED <<process, owner, logOwner>>

CommandStep(c) ==
    \/ \E p \in Pids : Spawn(c, p)
    \/ WritePid(c) \/ StartFails(c) \/ StartSucceeds(c) \/ StartGivesUp(c)
    \/ Probe(c) \/ Terminate(c) \/ StopSeesExit(c) \/ Kill(c) \/ Unlink(c)

-----------------------------------------------------------------------------
\* Mutation: a port that is in use does not matter.
ProbeInVain(p, port) ==
    /\ process[p].stage \in {"starting", "busy"}
    /\ port \in process[p].untried
    /\ \A other \in process[p].untried : port <= other
    /\ process' = [process EXCEPT ![p].untried = @ \ {port}]
    /\ UNCHANGED <<owner, pidFile, logOwner, command>>

\* _ports_in_use asks one port after the other, and goes on past a busy one.
ProbePort(p, port) ==
    /\ process[p].stage \in {"starting", "busy"}
    /\ port \in process[p].untried
    /\ \A other \in process[p].untried : port <= other
    /\ process' = [process EXCEPT ![p] =
          [stage |-> IF owner[port] = NoPid THEN @.stage ELSE "busy",
           untried |-> @.untried \ {port}]]
    /\ UNCHANGED <<owner, pidFile, logOwner, command>>

\* main: exit when a port was in use, load the application otherwise.
ExitIfBusy(p) ==
    /\ process[p].stage = "busy" /\ process[p].untried = {}
    /\ Dies(p)
    /\ UNCHANGED <<pidFile, logOwner, command>>

PassProbes(p) ==
    /\ process[p].stage = "starting" /\ process[p].untried = {}
    /\ process' = [process EXCEPT ![p] = [stage |-> "clear", untried |-> Ports]]
    /\ UNCHANGED <<owner, pidFile, logOwner, command>>

\* __init__ empties the event log and starts the threads that bind.
Load(p) ==
    /\ process[p].stage = "clear"
    /\ process' = [process EXCEPT ![p].stage = "up"]
    /\ logOwner' = p
    /\ UNCHANGED <<owner, pidFile, command>>

Bind(p, port) ==
    /\ process[p].stage = "up"
    /\ port \in process[p].untried
    /\ process' = [process EXCEPT ![p].untried = @ \ {port}]
    /\ owner' = IF owner[port] = NoPid THEN [owner EXCEPT ![port] = p] ELSE owner
    /\ UNCHANGED <<pidFile, logOwner, command>>

\* It crashes, obeys SIGTERM, or somebody else kills it.
Exit(p) ==
    /\ Alive(p)
    /\ Dies(p)
    /\ UNCHANGED <<pidFile, logOwner, command>>

\* Whoever started p has ended, so somebody else waits for it.
Reap(p) ==
    /\ process[p].stage = "exited"
    /\ \A c \in Operators :
          command[c].doing = "start" /\ command[c].stage \in {"write", "wait"}
          => command[c].pid # p
    /\ process' = [process EXCEPT ![p].stage = "dead"]
    /\ UNCHANGED <<owner, pidFile, logOwner, command>>

ProcessStep(p) ==
    \/ \E port \in Ports : ProbePort(p, port) \/ Bind(p, port)
    \/ ExitIfBusy(p) \/ PassProbes(p) \/ Load(p) \/ Exit(p) \/ Reap(p)

ProcessNext ==
    /\ \/ \E c \in Operators : StartBegins(c) \/ StopBegins(c) \/ CommandStep(c)
       \/ \E p \in Pids : ProcessStep(p)
    /\ Remember

ProcessSpec == ProcessInit /\ [][ProcessNext]_processVars

-----------------------------------------------------------------------------
ProcessTypeOK ==
    /\ process \in [Pids -> [stage : Stages, untried : SUBSET Ports]]
    /\ owner \in [Ports -> Pids \cup {NoPid}]
    /\ {pidFile, logOwner} \subseteq Pids \cup {NoPid}
    /\ command \in [Operators ->
           [doing : {"nothing", "start", "stop"},
            stage : {"done", "spawn", "write", "wait", "probe", "term", "unlink"},
            pid : Pids \cup {NoPid}]]
    /\ \A port \in Ports : owner[port] # NoPid => Alive(owner[port])
    /\ \A c \in Operators : command[c].stage = "done" <=> command[c] = Resting

\* A controller that came up undisturbed can be stopped: the PID file names
\* it, whatever was started or stopped before, whatever crashed, and whatever
\* runs beside it since
\* (topology.py controller_pid, start_controller, stop_controller).
ServerIsKnown ==
    \A p \in Pids \ contested :
        Established(p) => pidFile = p

\* Such a controller is whole: it has all three ports, and nobody has emptied
\* its event log (controller.py main, _ports_in_use, __init__).
ServerIsWhole ==
    \A p \in Pids \ contested :
        Established(p) => /\ logOwner = p
                          /\ \A port \in Ports : owner[port] = p

\* A start that reports its process running is right, unless it has met
\* another: if the process lives, it is the one that answers, though all that
\* the command asks is whether anybody does (topology.py start_controller).
SuccessIsTrue ==
    [][\A c \in Operators : \A p \in Pids \ contested :
          StartSucceeds(c) /\ command[c].pid = p /\ Alive(p)
          => owner[Control] = p]_processVars

\* A command takes the PID file away from a living process only if another
\* start has written the file since the command read or wrote it: a start
\* that gave up, a crash, or a stop that looked at an exited process never
\* costs a running controller its file
\* (topology.py controller_pid, start_controller, stop_controller).
ServerKeepsItsFile ==
    [][\A c \in Operators :
          Unlink(c) /\ pidFile # NoPid => c \in rewritten \/ ~Alive(pidFile)]_processVars
=============================================================================
