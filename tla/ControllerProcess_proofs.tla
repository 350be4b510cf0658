---------------------- MODULE ControllerProcess_proofs ----------------------
(***************************************************************************)
(* A controller that came up undisturbed is known and whole, for any       *)
(* number of operators, processes and ports.                               *)
(***************************************************************************)
EXTENDS ControllerProcess, TLAPS

\* Who commands, and what is known of the processes they name.
CommandsMakeSense ==
    /\ pidFile \in Pids => process[pidFile].stage # "fresh"
    /\ \A c \in Operators :
          /\ command[c].stage = "spawn" => command[c].pid = NoPid
          /\ command[c].stage \in {"write", "wait", "probe", "term", "unlink"} =>
                command[c].pid \in Pids /\ process[command[c].pid].stage # "fresh"
          /\ command[c].stage = "unlink" => ~Alive(command[c].pid)

\* Nobody has bound a port before the application is loaded.
NothingBoundYet ==
    /\ \A p \in Pids : process[p].stage \in {"fresh", "clear"} =>
                          process[p].untried = Ports
    /\ \A port \in Ports : owner[port] # NoPid => process[owner[port]].stage = "up"

\* Everybody else leaves p alone: while p starts because it would be contested
\* otherwise, and afterwards because all they can find is p.
LeftAlone(p) ==
    /\ \A q \in Pids \ {p} : ~StartingUp(q)
    /\ \A c \in Operators : command[c] = Resting \/ command[c].pid = p

\* What p's probes have found stays so, the answer the operator got before p
\* was spawned included.
PortsOf(p) ==
    /\ owner[Control] \in {p, NoPid}
    /\ process[p].stage = "starting" =>
          \A port \in Ports \ process[p].untried : owner[port] \in {p, NoPid}
    /\ process[p].stage \in {"clear", "up"} =>
          \A port \in Ports : owner[port] \in {p, NoPid}
    /\ process[p].stage = "up" =>
          /\ logOwner = p
          /\ \A port \in Ports \ process[p].untried : owner[port] = p

InTheFile(p) ==
    \/ pidFile = p
    \/ \E c \in Operators : Waiting(c, "start", "write") /\ command[c].pid = p

Mine(p) ==
    /\ Established(p) \/ Undisturbed(p)
    /\ LeftAlone(p)
    /\ PortsOf(p)
    /\ InTheFile(p)

\* A start that has met nobody still has its answer: nobody serves.
NobodyAnswers ==
    \A c \in Operators \ overlapped :
        Waiting(c, "start", "spawn") => owner[Control] = NoPid /\ Alone(c)

\* A command that has read or written the file knows what is in it, unless
\* another start has written it since.
FileIsAsRead ==
    \A c \in Operators \ rewritten :
        command[c].stage \in {"probe", "term", "wait", "unlink"} =>
            pidFile \in {command[c].pid, NoPid}

Sensible == ProcessTypeOK /\ CommandsMakeSense /\ NothingBoundYet

ProcessInv ==
    /\ Sensible
    /\ NobodyAnswers
    /\ FileIsAsRead
    /\ \A p \in Pids \ contested : Alive(p) => Mine(p)
-----------------------------------------------------------------------------
LEMMA ProcessInvInit == ProcessInit => ProcessInv
BY ProcessAssumption
   DEF ProcessInit, ProcessInv, Sensible, ProcessTypeOK, CommandsMakeSense, NothingBoundYet,
       NobodyAnswers, FileIsAsRead, Waiting, Alive, Resting, Stages, Pids, NoPid

\* A command that goes on, or ends, or begins.
LEMMA MoveKeepsSense ==
    ASSUME Sensible, NEW c \in Operators,
           NEW n \in [doing : {"nothing", "start", "stop"},
                      stage : {"done", "spawn", "write", "wait", "probe", "term", "unlink"},
                      pid : Pids \cup {NoPid}],
           n.stage = "done" <=> n = Resting,
           n.stage = "spawn" => n.pid = NoPid,
           n.stage \in {"write", "wait", "probe", "term", "unlink"} =>
                n.pid \in Pids /\ process[n.pid].stage # "fresh",
           n.stage = "unlink" => ~Alive(n.pid),
           command' = [command EXCEPT ![c] = n],
           UNCHANGED <<process, owner, pidFile, logOwner>>
    PROVE  Sensible'
<1>1. ProcessTypeOK'
  BY DEF Sensible, ProcessTypeOK, Alive
<1>2. CommandsMakeSense'
  BY DEF Sensible, ProcessTypeOK, CommandsMakeSense, Alive
<1>3. NothingBoundYet'
  BY DEF Sensible, NothingBoundYet
<1>. QED BY <1>1, <1>2, <1>3 DEF Sensible

\* What is in the file and in the commands goes on making sense.
LEMMA CommandKeepsSense ==
    ASSUME Sensible, NEW c \in Operators,
           StartBegins(c) \/ StopBegins(c) \/ CommandStep(c)
    PROVE  Sensible'
<1> USE DEF Sensible, ProcessTypeOK, CommandsMakeSense, NothingBoundYet, Waiting,
            NoPid, Pids, Alive, Resting, Goes, Ends, Stages
<1>0. /\ command[c] \in [doing : {"nothing", "start", "stop"},
            stage : {"done", "spawn", "write", "wait", "probe", "term", "unlink"},
            pid : Pids \cup {NoPid}]
      /\ command[c].stage = "done" <=> command[c] = Resting
  OBVIOUS
<1>1. CASE StartBegins(c)
  <2>1. CASE Responding
    <3>. DEFINE n == [doing |-> "start", stage |-> "probe", pid |-> pidFile]
    <3>1. command' = [command EXCEPT ![c] = n] /\ pidFile \in Pids
          /\ UNCHANGED <<process, owner, pidFile, logOwner>>
      BY <1>1, <2>1 DEF StartBegins, AskForPid
    <3>. QED BY <3>1, MoveKeepsSense
  <2>2. CASE ~Responding
    <3>. DEFINE n == [doing |-> "start", stage |-> "spawn", pid |-> NoPid]
    <3>1. command' = [command EXCEPT ![c] = n]
          /\ UNCHANGED <<process, owner, pidFile, logOwner>>
      BY <1>1, <2>2 DEF StartBegins
    <3>. QED BY <3>1, MoveKeepsSense
  <2>. QED BY <2>1, <2>2
<1>2. CASE StopBegins(c)
  BY <1>2 DEF StopBegins, AskForPid
<1>3. ASSUME NEW p \in Pids, Spawn(c, p)
      PROVE  Sensible'
  BY <1>3 DEF Spawn
<1>4. CASE WritePid(c)
  BY <1>4 DEF WritePid
<1>5. CASE StartFails(c)
  BY <1>5 DEF StartFails
<1>6. CASE StartSucceeds(c) \/ StartGivesUp(c)
  <2>. /\ command' = [command EXCEPT ![c] = Resting]
       /\ UNCHANGED <<process, owner, pidFile, logOwner>>
    BY <1>6 DEF StartSucceeds, StartGivesUp
  <2>. QED OBVIOUS
<1>7. CASE Probe(c)
  <2>1. /\ command[c].stage = "probe"
        /\ UNCHANGED <<process, owner, pidFile, logOwner>>
        /\ \/ ~Present(command[c].pid) /\ Goes(c, "unlink")
           \/ Goes(c, "term") \/ Ends(c)
    BY <1>7 DEF Probe
  <2>2. CASE Ends(c)
    BY <2>1, <2>2, MoveKeepsSense
  <2>3. CASE Goes(c, "term")
    BY <2>1, <2>3
  <2>4. CASE ~Present(command[c].pid) /\ Goes(c, "unlink")
    BY <2>1, <2>4 DEF Present
  <2>. QED BY <2>1, <2>2, <2>3, <2>4
<1>8. CASE Terminate(c)
  <2>1. /\ command[c].stage = "term"
        /\ UNCHANGED <<process, owner, pidFile, logOwner>>
        /\ Goes(c, "wait") \/ Ends(c)
    BY <1>8 DEF Terminate
  <2>2. CASE Ends(c)
    BY <2>1, <2>2, MoveKeepsSense
  <2>3. CASE Goes(c, "wait")
    BY <2>1, <2>3
  <2>. QED BY <2>1, <2>2, <2>3
<1>9. CASE StopSeesExit(c)
  BY <1>9 DEF StopSeesExit, Present
<1>10. CASE Kill(c)
  <2>1. CASE Alive(command[c].pid)
    <3>. DEFINE dying == command[c].pid
    <3>1. /\ dying \in Pids /\ command[c].stage = "wait"
          /\ process' = [process EXCEPT ![dying] = [stage |-> "exited", untried |-> {}]]
          /\ owner' = [port \in Ports |->
                          IF owner[port] = dying THEN NoPid ELSE owner[port]]
          /\ command' = [command EXCEPT ![c].stage = "unlink"]
          /\ UNCHANGED <<pidFile, logOwner>>
      BY <1>10, <2>1 DEF Kill, Dies, Present
    <3>. HIDE DEF dying
    <3>2. ProcessTypeOK' BY <3>1
    <3>3. NothingBoundYet' BY <3>1
    <3>4. CommandsMakeSense' BY <3>1 DEF dying
    <3>. QED BY <3>2, <3>3, <3>4
  <2>2. CASE ~Alive(command[c].pid)
    <3>1. /\ Ends(c) \/ Goes(c, "unlink")
          /\ command[c].stage = "wait"
          /\ UNCHANGED <<process, owner, pidFile, logOwner>>
      BY <1>10, <2>2 DEF Kill
    <3>2. CASE Ends(c)
      BY <3>1, <3>2, MoveKeepsSense
    <3>3. CASE Goes(c, "unlink")
      BY <2>2, <3>1, <3>3
    <3>. QED BY <3>1, <3>2, <3>3
  <2>. QED BY <2>1, <2>2
<1>11. CASE Unlink(c)
  BY <1>11 DEF Unlink
<1>. QED
  BY <1>1, <1>2, <1>3, <1>4, <1>5, <1>6, <1>7, <1>8, <1>9, <1>10, <1>11
     DEF CommandStep

LEMMA ProcessKeepsSense ==
    ASSUME Sensible, NEW p \in Pids, ProcessStep(p)
    PROVE  Sensible'
<1> USE DEF Sensible, ProcessTypeOK, CommandsMakeSense, NothingBoundYet, Waiting,
            NoPid, Pids, Alive, Resting, Stages
<1>1. ASSUME NEW port \in Ports, ProbePort(p, port)
      PROVE  Sensible'
  BY <1>1 DEF ProbePort
<1>2. CASE PassProbes(p)
  BY <1>2 DEF PassProbes
<1>3. CASE Load(p)
  BY <1>3 DEF Load
<1>4. ASSUME NEW port \in Ports, Bind(p, port)
      PROVE  Sensible'
  BY <1>4 DEF Bind
<1>5. CASE ExitIfBusy(p) \/ Exit(p)
  <2>1. /\ Alive(p)
        /\ process' = [process EXCEPT ![p] = [stage |-> "exited", untried |-> {}]]
        /\ owner' = [port \in Ports |-> IF owner[port] = p THEN NoPid ELSE owner[port]]
        /\ UNCHANGED <<pidFile, logOwner, command>>
    BY <1>5 DEF ExitIfBusy, Exit, Dies
  <2>2. ProcessTypeOK' BY <2>1
  <2>3. NothingBoundYet' BY <2>1
  <2>4. CommandsMakeSense' BY <2>1
  <2>. QED BY <2>2, <2>3, <2>4
<1>6. CASE Reap(p)
  BY <1>6 DEF Reap
<1>. QED BY <1>1, <1>2, <1>3, <1>4, <1>5, <1>6 DEF ProcessStep

-----------------------------------------------------------------------------
\* A command that waits to spawn and has met nobody was the only one a step
\* ago, so nobody can have bound a port since it asked.
LEMMA StillNobodyAnswers ==
    ASSUME ProcessInv, ProcessNext
    PROVE  NobodyAnswers'
<1> SUFFICES ASSUME NEW c \in Operators \ overlapped', Waiting(c, "start", "spawn")'
             PROVE  owner'[Control] = NoPid /\ Alone(c)'
  BY DEF NobodyAnswers
<1>1. Alone(c)' /\ c \notin overlapped
  BY DEF ProcessNext, Remember
<1>. USE DEF ProcessInv, Sensible, ProcessTypeOK, Waiting
<1>2. CASE Waiting(c, "start", "spawn")
  <2>1. owner[Control] = NoPid /\ Alone(c)
    BY <1>1, <1>2 DEF NobodyAnswers
  <2>2. ASSUME NEW d \in Operators, StartBegins(d) \/ StopBegins(d) \/ CommandStep(d)
        PROVE  owner'[Control] = NoPid
    <3>1. owner' = owner
          \/ \E q \in Pids : owner' = [port \in Ports |->
                              IF owner[port] = q THEN NoPid ELSE owner[port]]
      BY <2>2 DEF StartBegins, StopBegins, CommandStep, Spawn, WritePid, StartFails,
           StartSucceeds, StartGivesUp, Probe, Terminate, StopSeesExit, Kill, Dies,
           Unlink, CommandsMakeSense
    <3>. QED BY <3>1, <2>1, ProcessAssumption
  <2>3. ASSUME NEW q \in Pids, ProcessStep(q)
        PROVE  owner'[Control] = NoPid
    <3>1. ~StartingUp(q)
      BY <2>1 DEF Alone
    <3>2. owner' = owner
          \/ owner' = [port \in Ports |-> IF owner[port] = q THEN NoPid ELSE owner[port]]
      BY <2>3, <3>1 DEF ProcessStep, ProbePort, PassProbes, Load, Bind, ExitIfBusy, Exit,
           Dies, Reap, StartingUp, Alive
    <3>. QED BY <3>2, <2>1, ProcessAssumption
  <2>. QED BY <1>1, <2>2, <2>3 DEF ProcessNext
<1>3. CASE ~Waiting(c, "start", "spawn")
  <2>1. ASSUME NEW d \in Operators, StartBegins(d) \/ StopBegins(d) \/ CommandStep(d)
        PROVE  c = d /\ StartBegins(c) /\ ~Responding
    BY <2>1, <1>3 DEF StartBegins, StopBegins, AskForPid, CommandStep, Spawn, WritePid,
         StartFails, StartSucceeds, StartGivesUp, Probe, Terminate, StopSeesExit, Kill,
         Unlink, Goes, Ends, Resting
  <2>2. ASSUME NEW q \in Pids, ProcessStep(q) PROVE FALSE
    BY <2>2, <1>3 DEF ProcessStep, ProbePort, PassProbes, Load, Bind, ExitIfBusy, Exit, Reap
  <2>. QED BY <1>1, <2>1, <2>2 DEF ProcessNext, StartBegins, Responding
<1>. QED BY <1>2, <1>3

\* What a command has read of the file, or written in it, is still there, or
\* the file is gone, or another start has written it.
LEMMA StillAsRead ==
    ASSUME ProcessInv, ProcessNext
    PROVE  FileIsAsRead'
<1>. DEFINE Later == {"probe", "term", "wait", "unlink"}
<1> SUFFICES ASSUME NEW c \in Operators \ rewritten', command'[c].stage \in Later
             PROVE  pidFile' \in {command'[c].pid, NoPid}
  BY DEF FileIsAsRead
<1>1. /\ c \notin rewritten
      /\ \A d \in Operators \ {c} :
            ~(Waiting(d, "start", "write") /\ Waiting(d, "start", "wait")')
  BY DEF ProcessNext, Remember
<1>. USE DEF ProcessInv, Sensible, ProcessTypeOK, Waiting
<1>2. ASSUME NEW q \in Pids, ProcessStep(q)
      PROVE  pidFile' \in {command'[c].pid, NoPid}
  <2>1. UNCHANGED pidFile /\ UNCHANGED command
    BY <1>2 DEF ProcessStep, ProbePort, PassProbes, Load, Bind, ExitIfBusy, Exit, Reap
  <2>. QED BY <1>1, <2>1 DEF FileIsAsRead
<1>3. ASSUME NEW d \in Operators, StartBegins(d) \/ StopBegins(d) \/ CommandStep(d)
      PROVE  pidFile' \in {command'[c].pid, NoPid}
  <2>1. CASE WritePid(d)
    BY <2>1, <1>1 DEF WritePid, Goes
  <2>2. CASE Unlink(d)
    BY <2>2 DEF Unlink
  <2>3. CASE UNCHANGED pidFile /\ c # d
    <3>1. command'[c] = command[c]
      BY <1>3, <2>3 DEF StartBegins, StopBegins, AskForPid, CommandStep, Spawn, WritePid,
         StartFails, StartSucceeds, StartGivesUp, Probe, Terminate, StopSeesExit, Kill,
         Unlink, Goes, Ends
    <3>. QED BY <1>1, <2>3, <3>1 DEF FileIsAsRead
  <2>4. CASE UNCHANGED pidFile /\ c = d /\ ~WritePid(d) /\ ~Unlink(d)
    <3>1. \/ command'[c].pid = pidFile
          \/ command'[c].pid = command[c].pid /\ command[c].stage \in Later
      BY <1>3, <2>4 DEF StartBegins, StopBegins, AskForPid, CommandStep, Spawn,
         StartFails, StartSucceeds, StartGivesUp, Probe, Terminate, StopSeesExit, Kill,
         Goes, Ends, Resting
    <3>. QED BY <1>1, <2>4, <3>1 DEF FileIsAsRead
  <2>5. UNCHANGED pidFile \/ WritePid(d) \/ Unlink(d)
    BY <1>3 DEF StartBegins, StopBegins, CommandStep, Spawn, StartFails, StartSucceeds,
         StartGivesUp, Probe, Terminate, StopSeesExit, Kill
  <2>. QED BY <2>1, <2>2, <2>3, <2>4, <2>5
<1>. QED BY <1>2, <1>3 DEF ProcessNext

-----------------------------------------------------------------------------
\* Whoever is alive and has not been contested was so before, unless it has
\* just been spawned.
LEMMA StillMine ==
    ASSUME ProcessInv, Remember, NEW p \in Pids \ contested', Alive(p)'
    PROVE  /\ Alive(p) => p \notin contested /\ Mine(p)
           /\ (Established(p) \/ Undisturbed(p))'
           /\ Undisturbed(p)' => LeftAlone(p)'
           /\ \A c \in overlapped : ~Alive(p) => command'[c].pid # p
<1>0. \A c \in overlapped : ~Alive(p) => command'[c].pid # p
  BY DEF Remember
<1>1. p \notin contested /\ (Established(p) \/ Undisturbed(p))'
  BY DEF Remember
<1>2. Undisturbed(p)' => LeftAlone(p)'
  BY DEF Undisturbed, LeftAlone
<1>. QED BY <1>0, <1>1, <1>2 DEF ProcessInv

\* No process starts, moves on or dies; one that has exited may be waited for.
NoLifeChanges ==
    \A q \in Pids : \/ process'[q] = process[q]
                    \/ process[q].stage = "exited" /\ process'[q].stage = "dead"

\* A command that looks and decides leaves an uncontested process as it was:
\* if it takes anything up, that is the process in the file.
LEMMA LookKeepsMine ==
    ASSUME ProcessInv, Remember, NEW c \in Operators, NEW n,
           owner' = owner, pidFile' = pidFile, logOwner' = logOwner, NoLifeChanges,
           command' = [command EXCEPT ![c] = n],
           n.stage # "write", command[c].stage # "write",
           \/ n = Resting
           \/ n.pid = command[c].pid /\ command[c] # Resting
           \/ n.pid = pidFile
           \/ ~Responding,
           NEW p \in Pids \ contested', Alive(p)'
    PROVE  Mine(p)'
<1>0. \A q \in Pids : /\ Alive(q) => process'[q] = process[q]
                      /\ Alive(q)' <=> Alive(q)
                      /\ StartingUp(q)' <=> StartingUp(q)
  BY DEF NoLifeChanges, Alive, StartingUp
<1>1. Alive(p) /\ Mine(p) /\ (Established(p) \/ Undisturbed(p))'
      /\ (Undisturbed(p)' => LeftAlone(p)') /\ process'[p] = process[p]
  BY <1>0, StillMine
<1>2. PortsOf(p)'
  BY <1>1 DEF Mine, PortsOf
<1>3. /\ c \in DOMAIN command
      /\ \A d \in Operators : Waiting(d, "start", "write")' <=> Waiting(d, "start", "write")
      /\ \A d \in Operators : Waiting(d, "start", "write") => command'[d].pid = command[d].pid
  BY DEF ProcessInv, Sensible, ProcessTypeOK, Waiting
<1>4. InTheFile(p)'
  BY <1>1, <1>3 DEF Mine, InTheFile
<1>5. Established(p)' <=> Established(p)
  BY <1>0, <1>3 DEF Established
<1>6. ASSUME Established(p) PROVE LeftAlone(p)'
  <2>1. pidFile = p /\ owner[Control] = p
    BY <1>1, <1>6, ProcessAssumption
       DEF Mine, InTheFile, Established, PortsOf, Alive, StartingUp, ProcessInv,
           NothingBoundYet
  <2>2. n = Resting \/ n.pid = p
    BY <2>1, <1>1 DEF Mine, LeftAlone, Responding, Pids, NoPid
  <2>. QED BY <2>2, <1>0, <1>1, <1>3 DEF Mine, LeftAlone
<1>. QED BY <1>1, <1>2, <1>4, <1>5, <1>6 DEF Mine

\* A command never takes an uncontested process out of the file, and whatever
\* it does to a process, it does to the one in the file.
LEMMA CommandKeepsMine ==
    ASSUME ProcessInv, Remember, NEW c \in Operators,
           StartBegins(c) \/ StopBegins(c) \/ CommandStep(c),
           NEW p \in Pids \ contested', Alive(p)'
    PROVE  Mine(p)'
<1>0. /\ Alive(p) => Mine(p)
      /\ (Established(p) \/ Undisturbed(p))'
      /\ Undisturbed(p)' => LeftAlone(p)'
      /\ \A d \in overlapped : ~Alive(p) => command'[d].pid # p
  BY StillMine
<1>. DEFINE To(n) == command' = [command EXCEPT ![c] = n]
<1>a. command[c] \in [doing : {"nothing", "start", "stop"},
            stage : {"done", "spawn", "write", "wait", "probe", "term", "unlink"},
            pid : Pids \cup {NoPid}]
  BY DEF ProcessInv, Sensible, ProcessTypeOK
<1>1. CASE StartBegins(c) \/ StopBegins(c)
  <2>1. /\ UNCHANGED process /\ NoLifeChanges
        /\ owner' = owner /\ pidFile' = pidFile /\ logOwner' = logOwner
        /\ command[c].stage # "write"
    BY <1>1 DEF NoLifeChanges, StartBegins, StopBegins, Resting
  <2>2. CASE UNCHANGED command
    BY <2>1, <2>2, <1>0 DEF Mine, LeftAlone, PortsOf, InTheFile, StartingUp, Alive,
          Waiting
  <2>3. ASSUME NEW doing, To([doing |-> doing, stage |-> "probe", pid |-> pidFile])
        PROVE  Mine(p)'
    <3>. DEFINE n == [doing |-> doing, stage |-> "probe", pid |-> pidFile]
    <3>1. n.stage # "write" /\ To(n) /\ n.pid = pidFile
      BY <2>3
    <3>. HIDE DEF n
    <3>. QED BY <2>1, <3>1, LookKeepsMine
  <2>4. CASE ~Responding /\ To([doing |-> "start", stage |-> "spawn", pid |-> NoPid])
    <3>. DEFINE n == [doing |-> "start", stage |-> "spawn", pid |-> NoPid]
    <3>1. n.stage # "write" /\ To(n) /\ ~Responding
      BY <2>4
    <3>. HIDE DEF n
    <3>. QED BY <2>1, <3>1, LookKeepsMine
  <2>. QED BY <1>1, <2>2, <2>3, <2>4 DEF StartBegins, StopBegins, AskForPid
<1>2. ASSUME NEW q \in Pids, Spawn(c, q)
      PROVE  Mine(p)'
  <2>1. ~Alive(p)
    BY <1>0, <1>2 DEF Spawn, Mine, LeftAlone, Waiting, Resting, ProcessInv,
          Sensible, CommandsMakeSense, Pids, NoPid
  <2>2. p = q /\ process'[p].stage = "starting" /\ command'[c].stage = "write"
        /\ command'[c].doing = "start" /\ command'[c].pid = p
        /\ process'[p].untried = Ports
    BY <1>2, <2>1 DEF Spawn, Alive, ProcessInv, Sensible, ProcessTypeOK, Waiting, NothingBoundYet
  <2>4. owner'[Control] = NoPid
    BY <1>0, <1>2, <2>1, <2>2 DEF Spawn, ProcessInv, Sensible, NobodyAnswers
  <2>3. ~Established(p)' /\ InTheFile(p)' /\ PortsOf(p)'
    BY <2>2, <2>4 DEF Established, InTheFile, PortsOf, Waiting
  <2>. QED BY <1>0, <2>3 DEF Mine
<1>3. CASE WritePid(c)
  <2>1. Alive(p) /\ command[c].pid = p
    BY <1>0, <1>3 DEF WritePid, Alive, Mine, LeftAlone, Waiting, Resting
  <2>2. pidFile' = p /\ UNCHANGED <<process, owner, logOwner>>
        /\ command' = [command EXCEPT ![c].stage = "wait"]
    BY <1>3, <2>1 DEF WritePid, Goes
  <2>3. PortsOf(p)' /\ InTheFile(p)'
    BY <1>0, <2>1, <2>2 DEF PortsOf, InTheFile, Mine
  <2>4. LeftAlone(p)'
    BY <1>0, <2>1, <2>2, <1>3
       DEF LeftAlone, Mine, StartingUp, Alive, ProcessInv, Sensible, ProcessTypeOK, WritePid,
           Waiting
  <2>. QED BY <1>0, <2>3, <2>4 DEF Mine
<1>4. CASE \/ StartFails(c) \/ StartSucceeds(c) \/ StartGivesUp(c) \/ Probe(c)
           \/ Terminate(c) \/ StopSeesExit(c)
           \/ (Kill(c) /\ ~Alive(command[c].pid))
  <2>1. /\ owner' = owner /\ pidFile' = pidFile /\ logOwner' = logOwner
        /\ command[c].stage # "write" /\ command[c].stage # "done"
        /\ \/ To(Resting)
           \/ \E stage \in {"unlink", "term", "wait"} :
                 To([command[c] EXCEPT !.stage = stage])
    BY <1>4 DEF StartFails, StartSucceeds, StartGivesUp, Probe, Terminate,
          StopSeesExit, Kill, Goes, Ends, Waiting
  <2>0. NoLifeChanges
    BY <1>4 DEF NoLifeChanges, StartFails, StartSucceeds, StartGivesUp, Probe, Terminate,
          StopSeesExit, Kill, ProcessInv, Sensible, ProcessTypeOK
  <2>2. CASE To(Resting)
    <3>1. Resting.stage # "write" /\ To(Resting)
      BY <2>2 DEF Resting
    <3>. QED BY <2>0, <2>1, <3>1, LookKeepsMine
  <2>3. ASSUME NEW stage \in {"unlink", "term", "wait"},
               To([command[c] EXCEPT !.stage = stage])
        PROVE  Mine(p)'
    <3>. DEFINE n == [command[c] EXCEPT !.stage = stage]
    <3>1. n.stage # "write" /\ n.pid = command[c].pid /\ command[c] # Resting
      BY <2>1, <1>a DEF Resting
    <3>2. command' = [command EXCEPT ![c] = n]
      BY <2>3
    <3>. HIDE DEF n
    <3>. QED BY <2>0, <2>1, <3>1, <3>2, LookKeepsMine
  <2>. QED BY <2>1, <2>2, <2>3
<1>5. CASE Kill(c) /\ Alive(command[c].pid)
  <2>1. Alive(p) /\ command[c].pid # p
    BY <1>5 DEF Kill, Dies, Alive, ProcessInv, Sensible, ProcessTypeOK
  <2>. QED BY <1>0, <2>1, <1>5 DEF Mine, LeftAlone, Kill, Waiting, Resting
<1>6. CASE Unlink(c)
  <2>1. Alive(p) /\ command[c].pid # p
    BY <1>6 DEF Unlink, Alive, ProcessInv, Sensible, CommandsMakeSense
  <2>. QED BY <1>0, <2>1, <1>6 DEF Mine, LeftAlone, Unlink, Resting
<1>7. CASE Kill(c)
  BY <1>4, <1>5, <1>7
<1>8. CASE \E q \in Pids : Spawn(c, q)
  BY <1>2, <1>8
<1>9. CASE CommandStep(c)
  BY <1>3, <1>4, <1>6, <1>7, <1>8, <1>9 DEF CommandStep
<1>. QED BY <1>1, <1>9

\* A process changes only itself, and an uncontested one is the only one that
\* is starting up.
LEMMA ProcessKeepsMine ==
    ASSUME ProcessInv, Remember, NEW q \in Pids, ProcessStep(q),
           NEW p \in Pids \ contested', Alive(p)'
    PROVE  Mine(p)'
<1>0. /\ Alive(p) => Mine(p)
      /\ (Established(p) \/ Undisturbed(p))'
  BY StillMine
<1>. USE DEF ProcessInv, Sensible, ProcessTypeOK, Stages
<1>1. Alive(p) /\ Mine(p) /\ UNCHANGED <<pidFile, command>>
      /\ \A r \in Pids \ {q} : process'[r] = process[r]
  BY <1>0 DEF ProcessStep, ProbePort, PassProbes, ExitIfBusy, Load, Bind, Exit, Reap,
       Dies, Alive
<1>2. InTheFile(p)'
  BY <1>1 DEF Mine, InTheFile, Waiting
<1>3. ASSUME LeftAlone(p)', PortsOf(p)' PROVE Mine(p)'
  BY <1>0, <1>2, <1>3 DEF Mine
<1>4. CASE ExitIfBusy(q) \/ Exit(q)
  <2>1. q # p /\ process'[q].stage = "exited" /\ UNCHANGED logOwner
        /\ \A port \in Ports : owner'[port] = IF owner[port] = q THEN NoPid ELSE owner[port]
    BY <1>4 DEF ExitIfBusy, Exit, Dies, Alive
  <2>2. LeftAlone(p)'
    BY <1>1, <2>1 DEF Mine, LeftAlone, StartingUp, Alive
  <2>3. PortsOf(p)'
    BY <1>1, <2>1, ProcessAssumption DEF Mine, PortsOf
  <2>. QED BY <1>3, <2>2, <2>3
<1>5. CASE Reap(q)
  <2>1. q # p /\ process'[q].stage = "dead" /\ UNCHANGED <<owner, logOwner>>
    BY <1>1, <1>5 DEF Reap, Alive
  <2>2. LeftAlone(p)' /\ PortsOf(p)'
    BY <1>1, <2>1 DEF Mine, LeftAlone, PortsOf, StartingUp, Alive
  <2>. QED BY <1>3, <2>2
<1>6. ASSUME NEW port \in Ports, ProbePort(q, port) PROVE Mine(p)'
  <2>1. q = p
    BY <1>1, <1>6 DEF ProbePort, Mine, LeftAlone, StartingUp, Alive
  <2>2. LeftAlone(p)'
    BY <1>1, <2>1 DEF Mine, LeftAlone, StartingUp, Alive
  <2>3. PortsOf(p)'
    BY <1>1, <1>6, <2>1 DEF ProbePort, PortsOf, Mine
  <2>. QED BY <1>3, <2>2, <2>3
<1>7. CASE PassProbes(q) \/ Load(q)
  <2>1. q = p
    BY <1>1, <1>7 DEF PassProbes, Load, Mine, LeftAlone, StartingUp, Alive
  <2>2. LeftAlone(p)'
    BY <1>1, <2>1 DEF Mine, LeftAlone, StartingUp, Alive
  <2>3. PortsOf(p)'
    BY <1>1, <1>7, <2>1 DEF PassProbes, Load, PortsOf, Mine, NothingBoundYet
  <2>. QED BY <1>3, <2>2, <2>3
<1>8. ASSUME NEW port \in Ports, Bind(q, port) PROVE Mine(p)'
  <2>1. q = p
    BY <1>1, <1>8 DEF Bind, Mine, LeftAlone, StartingUp, Alive
  <2>2. LeftAlone(p)'
    BY <1>1, <2>1 DEF Mine, LeftAlone, StartingUp, Alive
  <2>3. PortsOf(p)'
    BY <1>1, <1>8, <2>1, ProcessAssumption DEF Bind, PortsOf, Mine
  <2>. QED BY <1>3, <2>2, <2>3
<1>. QED BY <1>4, <1>5, <1>6, <1>7, <1>8 DEF ProcessStep

-----------------------------------------------------------------------------
LEMMA ProcessInvNext == ProcessInv /\ [ProcessNext]_processVars => ProcessInv'
<1> SUFFICES ASSUME ProcessInv, [ProcessNext]_processVars PROVE ProcessInv'
  OBVIOUS
<1>1. CASE UNCHANGED processVars
  BY <1>1 DEF processVars, history, ProcessInv, Sensible, ProcessTypeOK, CommandsMakeSense,
       NothingBoundYet, NobodyAnswers, FileIsAsRead, Alone, Mine, Established, Undisturbed, LeftAlone, PortsOf,
       InTheFile, StartingUp, Alive, Waiting
<1>2. CASE ProcessNext
  <2>1. NobodyAnswers' /\ FileIsAsRead'
    BY <1>2, StillNobodyAnswers, StillAsRead
  <2>2. ASSUME Remember, NEW c \in Operators,
               StartBegins(c) \/ StopBegins(c) \/ CommandStep(c)
        PROVE  ProcessInv'
    BY <2>1, <2>2, CommandKeepsSense, CommandKeepsMine DEF ProcessInv
  <2>3. ASSUME Remember, NEW p \in Pids, ProcessStep(p)
        PROVE  ProcessInv'
    BY <2>1, <2>3, ProcessKeepsSense, ProcessKeepsMine DEF ProcessInv
  <2>. QED BY <1>2, <2>2, <2>3 DEF ProcessNext
<1>. QED BY <1>1, <1>2

\* Whatever the operators do and whatever crashes, an uncontested controller
\* is found in the file and is left alone (topology.py start_controller,
\* stop_controller, controller_pid).
THEOREM ProcessInvariant == ProcessSpec => []ProcessInv
BY ProcessInvInit, ProcessInvNext, PTL DEF ProcessSpec

\* What an established, uncontested process has.
LEMMA EstablishedIsWhole ==
    ASSUME ProcessInv, NEW p \in Pids \ contested, Established(p)
    PROVE  pidFile = p /\ logOwner = p /\ \A port \in Ports : owner[port] = p
BY ProcessAssumption
   DEF ProcessInv, Sensible, NothingBoundYet, Mine, PortsOf, InTheFile, Established,
       StartingUp, Alive

\* The PID file names every controller that came up undisturbed.
THEOREM KnownServer == ProcessSpec => []ServerIsKnown
<1>1. ProcessInv => ServerIsKnown
  BY EstablishedIsWhole DEF ServerIsKnown
<1>. QED BY <1>1, ProcessInvariant, PTL

\* Such a controller listens on every port and owns its event log.
THEOREM WholeServer == ProcessSpec => []ServerIsWhole
<1>1. ProcessInv => ServerIsWhole
  BY EstablishedIsWhole DEF ServerIsWhole
<1>. QED BY <1>1, ProcessInvariant, PTL

\* A start that met nobody and reports success is right: nobody answered when
\* it asked, so whoever answers now is the process it spawned.
THEOREM TruthfulSuccess == ProcessSpec => SuccessIsTrue
<1>1. ASSUME ProcessInv, NEW c \in Operators, NEW p \in Pids \ contested,
             StartSucceeds(c), command[c].pid = p, Alive(p)
      PROVE  owner[Control] = p
  BY <1>1, ProcessAssumption
     DEF StartSucceeds, Responding, ProcessInv, Sensible, ProcessTypeOK, NothingBoundYet,
         Mine, PortsOf, Alive, Established, StartingUp, Undisturbed, Pids, NoPid
<1>2. ProcessInv => [\A c \in Operators : \A p \in Pids \ contested :
          StartSucceeds(c) /\ command[c].pid = p /\ Alive(p)
          => owner[Control] = p]_processVars
  BY <1>1
<1>. QED BY <1>2, ProcessInvariant, PTL DEF SuccessIsTrue

\* A command takes the file away from a living process only if another start
\* has written it since the command looked.
THEOREM KeptFile == ProcessSpec => ServerKeepsItsFile
<1>1. ASSUME ProcessInv, NEW c \in Operators, Unlink(c), pidFile # NoPid
      PROVE  c \in rewritten \/ ~Alive(pidFile)
  BY <1>1 DEF ProcessInv, Sensible, CommandsMakeSense, FileIsAsRead, Unlink
<1>2. ProcessInv => [\A c \in Operators :
          Unlink(c) /\ pidFile # NoPid => c \in rewritten \/ ~Alive(pidFile)]_processVars
  BY <1>1
<1>. QED BY <1>2, ProcessInvariant, PTL DEF ServerKeepsItsFile

\* Types.
THEOREM ProcessTypes == ProcessSpec => []ProcessTypeOK
<1>1. ProcessInv => ProcessTypeOK
  BY DEF ProcessInv, Sensible
<1>. QED BY <1>1, ProcessInvariant, PTL
=============================================================================
