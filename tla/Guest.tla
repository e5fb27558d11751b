------------------------------- MODULE Guest -------------------------------
(***************************************************************************)
(* One machine from its start to the end of its shutdown (pkgs/uml-runner/ *)
(* uml_runner/machine.py), over the processes it is made of (Processes)    *)
(* and the calls made to its agent (Rpc).                                  *)
(*                                                                         *)
(* The backend's launch is one run of Python with no await in it, so       *)
(* nothing else of the runner happens between its steps; the processes it  *)
(* has started live on by themselves, and the runner may be killed.        *)
(***************************************************************************)
EXTENDS Processes, Rpc

VARIABLES runner,    \* the process that drives the guest runs
          start,     \* Machine.start
          todo,      \* what the backend's launch has still to do
          held,      \* files, sockets and descriptors the machine has
          known,     \* Machine._helpers and _cleanup, once launch returned
          process,   \* Machine._process: none, running, or its returncode is set
          down,      \* Machine.shutdown
          crash      \* Machine.crash

vars == <<procVars, rpcVars, runner, start, todo, held, known, process, down, crash>>
machineVars == <<runner, start, todo, held, known, process, down, crash>>

Helpers == {"vfsd", "artd", "passt"}
Resource == {"rundir", "agentSock", "guestSock", "sockdir", "spareFds"}

MachineTypeOK ==
    /\ runner \in BOOLEAN
    /\ start \in {"no", "launch", "spawn", "spawning", "boot", "up", "failed"}
    /\ todo \subseteq Helpers \cup {"sockdir", "disk", "template"}
    /\ held \subseteq Resource
    /\ known \subseteq Helpers \cup {"sockdir"}
    /\ process \in {"none", "running", "exited"}
    /\ down \in {"no", "asking", "reap", "term", "kill", "helpers", "release", "done", "raised"}
    /\ crash \in {"no", "asked", "dead"}

TypeOK == ProcTypeOK /\ RpcTypeOK /\ MachineTypeOK

Init ==
    /\ ProcInit /\ RpcInit
    /\ runner = TRUE /\ start = "no" /\ todo = {} /\ held = {} /\ known = {}
    /\ process = "none" /\ down = "no" /\ crash = "no"

-----------------------------------------------------------------------------
(* start                                                                   *)

\* What launch does under each backend, with or without a directory of its
\* own for the sockets, with or without artifacts.
UmlLaunch == {{}, {"sockdir"}}
QemuLaunch == {opt \cup {"vfsd", "disk", "passt"} : opt \in SUBSET {"sockdir", "artd"}}
ContainerLaunch == {{"template"}, {"template", "sockdir"}}
LaunchSteps ==
    CASE kind = "uml"       -> UmlLaunch
      [] kind = "qemu"      -> QemuLaunch
      [] kind = "container" -> ContainerLaunch

\* The order launch takes them in.
Before(a, b) ==
    LET order == [sockdir |-> 2, template |-> 1, vfsd |-> 3, artd |-> 4, disk |-> 5, passt |-> 6]
    IN order[a] < order[b]

StartBegins ==
    /\ start = "no" /\ down = "no"
    /\ start' = "launch"
    /\ held' = {"rundir", "agentSock", "guestSock"}
    /\ todo' \in LaunchSteps
    /\ UNCHANGED <<procVars, rpcVars, runner, known, process, down, crash>>

Takes(s) ==
    /\ start = "launch" /\ s \in todo
    /\ \A t \in todo : t = s \/ Before(s, t)
    /\ todo' = todo \ {s}
    /\ UNCHANGED <<kind, stage, guarded, stuck, term, short, adrift>>
    /\ UNCHANGED <<rpcVars, runner, start, known, process, down, crash>>

\* The container's root is copied from its template, into the run directory.
Template == Takes("template") /\ UNCHANGED <<alive, held>>

\* socket_dir, where the run directory's name is too long for a socket.
SocketDir ==
    /\ Takes("sockdir")
    /\ held' = held \cup {"sockdir"}
    /\ UNCHANGED alive

\* A virtiofsd, and the connected descriptor of it that is kept for QEMU.
Virtiofsd(s) ==
    /\ Takes(s)
    /\ alive' = alive \cup {s}
    /\ held' = held \cup {"spareFds"}

\* The unlinked disk, by its two descriptors.
ScratchDisk ==
    /\ Takes("disk")
    /\ held' = held \cup {"spareFds"}
    /\ UNCHANGED alive

\* passt, and QEMU's end of its socketpair.
Passt ==
    /\ Takes("passt")
    /\ alive' = alive \cup {"passt"}
    /\ held' = held \cup {"spareFds"}

LaunchStep ==
    \/ Template \/ SocketDir \/ ScratchDisk \/ Passt
    \/ \E s \in {"vfsd", "artd"} : Virtiofsd(s)

\* A helper that is gone a moment later, a disk that cannot be made, a host
\* that lacks something.  Qemu.launch kills the helpers it has, each by its
\* pid, and closes what it opened; the socket directory is in nobody's list.
LaunchFails ==
    /\ start = "launch" /\ todo \ {"sockdir"} # {} /\ "sockdir" \notin todo
    /\ start' = "failed"
    /\ End(Helpers)
    /\ held' = held \ {"spareFds"}
    /\ todo' = {}
    /\ UNCHANGED <<kind, stage, guarded, stuck, term, short>>
    /\ UNCHANGED <<rpcVars, runner, known, process, down, crash>>

\* Seeded bug: the helpers stay with the Launch.
LaunchedAlone ==
    /\ start = "launch" /\ todo = {}
    /\ start' = "spawn"
    /\ known' = held \cap {"sockdir"}
    /\ UNCHANGED <<procVars, rpcVars, runner, todo, held, process, down, crash>>

\* The Launch is the machine's now.
Launched ==
    /\ start = "launch" /\ todo = {}
    /\ start' = "spawn"
    /\ known' = (IF kind = "qemu" THEN Helpers ELSE {}) \cup (held \cap {"sockdir"})
    /\ UNCHANGED <<procVars, rpcVars, runner, todo, held, process, down, crash>>

\* create_subprocess_exec starts the leader, which lives on while the loop
\* sets up its pipes; or the program cannot be executed.
Spawn ==
    /\ start = "spawn"
    /\ \/ /\ start' = "spawning"
          /\ alive' = alive \cup {"leader"}
          /\ stage' = "new"
          /\ guarded' = IF kind = "qemu" THEN "yes" ELSE guarded
       \/ /\ start' = "failed"
          /\ UNCHANGED <<alive, stage, guarded>>
    /\ UNCHANGED <<kind, stuck, term, short, adrift>>
    /\ UNCHANGED <<rpcVars, runner, todo, held, known, process, down, crash>>

\* It is the machine's, and the spare descriptors are closed.
Spawned ==
    /\ start = "spawning"
    /\ start' = "boot" /\ process' = "running"
    /\ held' = held \ {"spareFds"}
    /\ UNCHANGED <<procVars, rpcVars, runner, todo, known, down, crash>>

\* A cancel meanwhile: asyncio kills the process it has started, by its pid,
\* and the machine never has it.
SpawnCancelled ==
    /\ start = "spawning"
    /\ start' = "failed"
    /\ Kill({"leader"})
    /\ UNCHANGED <<rpcVars, runner, todo, held, known, process, down, crash>>

\* The process that answers to the agent's name.
Agent == IF kind = "container" THEN "init" ELSE GuestProcess
Ready == Agent \in alive /\ (kind = "container" => stage = "relay") /\ (kind = "uml" => guarded = "yes")

\* Seeded bug: the machine keeps its copy of the guest's end.
ConnectsKeeping ==
    /\ conn' = "open"
    /\ held' = held \ {"agentSock"}

\* The ready line, and the connection.  The machine drops its copy of the
\* guest's end, so that nobody but the guest has it.
Connects ==
    /\ conn' = "open"
    /\ held' = held \ {"agentSock", "guestSock"}

\* A container's socket may be gone by the time it is connected to.
Up ==
    /\ start = "boot" /\ down = "no" /\ Ready
    /\ start' = "up"
    /\ Connects
    /\ UNCHANGED <<seq, pending, call, requests, serving, replies>>
    /\ UNCHANGED <<procVars, runner, todo, known, process, down, crash>>

\* The boot timeout, or a leader that exited before the ready line.
BootFails ==
    /\ start = "boot" /\ down = "no"
    /\ start' = "failed"
    /\ UNCHANGED <<procVars, rpcVars, runner, todo, held, known, process, down, crash>>

-----------------------------------------------------------------------------
(* The agent's end of the channel.                                         *)

\* Who has the guest's end of the socketpair: whatever inherited it, or the
\* agent of a container; and the machine, until it is dropped.
Holders ==
    CASE kind = "uml"       -> {"leader", "passt", "fork", "kernel"}
      [] kind = "qemu"      -> {"leader"}
      [] kind = "container" -> {"init"}
OtherEnd == Holders \cap alive # {} \/ "guestSock" \in held

Ask(c) ==
    /\ start = "up" /\ down = "no"
    /\ Call(c, OtherEnd)
    /\ UNCHANGED <<procVars, machineVars>>

AgentServes == Agent \in alive /\ Serve /\ UNCHANGED <<procVars, machineVars>>
AgentAnswers ==
    /\ Agent \in alive
    /\ \E how \in {"value", "raised"} : Answer(how)
    /\ UNCHANGED <<procVars, machineVars>>

\* Seeded bug: a poweroff is asked without a deadline.
GivesUpUnlessDown(c) == c # Down /\ Timeout(c) /\ UNCHANGED <<procVars, machineVars>>

HostReceives == Receive /\ UNCHANGED <<procVars, machineVars>>
GivesUp(c) == Timeout(c) /\ UNCHANGED <<procVars, machineVars>>

\* End of file, once what was written before it is read: serve_forever ends
\* and closes the connection.  Machine._conn still names it.
HangUp ==
    /\ conn = "open" /\ ~OtherEnd /\ replies = <<>>
    /\ CloseTo("closed")
    /\ UNCHANGED <<procVars, machineVars>>

-----------------------------------------------------------------------------
(* shutdown                                                                *)

\* The agent is asked only when it can answer: a dead guest's does not
\* refuse, it hangs.
DownBegins ==
    /\ down = "no" /\ start \in {"no", "boot", "up", "failed"}
    /\ IF conn = "open" /\ Alive
       THEN /\ Call(Down, OtherEnd)
            /\ down' = "asking"
       ELSE /\ down' = "reap"
            /\ UNCHANGED rpcVars
    /\ UNCHANGED <<procVars, runner, start, todo, held, known, process, crash>>

\* An answer, an error, or 15 seconds; then the connection is closed.
DownAsked ==
    /\ down = "asking" /\ ~Waiting(Down)
    /\ CloseTo("none")
    /\ down' = "reap"
    /\ UNCHANGED <<procVars, runner, start, todo, held, known, process, crash>>

\* An exception of the agent that is none of the four caught here: vinegar
\* rebuilds it as what it was, and the shutdown ends with it.
DownRaises ==
    /\ down = "asking" /\ call[Down].st = "reply" /\ call[Down].got.how = "raised"
    /\ down' = "raised"
    /\ UNCHANGED <<procVars, rpcVars, runner, start, todo, held, known, process, crash>>

\* _reap.  A leader whose exit is known is not signalled, nor is its group.
ReapBegins ==
    /\ down = "reap"
    /\ held' = held \ {"agentSock", "guestSock"}
    /\ IF process # "running"
       THEN /\ down' = "helpers"
            /\ UNCHANGED procVars
       ELSE /\ down' = "term"
            /\ TermGroup
    /\ UNCHANGED <<rpcVars, runner, start, todo, known, process, crash>>

\* The loop learns of the leader's exit.
ChildExits ==
    /\ process = "running" /\ "leader" \notin alive
    /\ process' = "exited"
    /\ UNCHANGED <<procVars, rpcVars, runner, start, todo, held, known, down, crash>>

ReapEnds ==
    /\ down \in {"term", "kill"} /\ process = "exited"
    /\ down' = "helpers"
    /\ UNCHANGED <<procVars, rpcVars, runner, start, todo, held, known, process, crash>>

\* 30 seconds after SIGTERM: more than a bridge takes that is on its way out.
\* A leader in a sleep that nothing interrupts outlives the SIGKILL.
ReapKills ==
    /\ down = "term" /\ process = "running" /\ ~BridgeDue
    /\ down' = "kill"
    /\ KillGroup \/ Kill(Group \ {"leader"})
    /\ UNCHANGED <<rpcVars, runner, start, todo, held, known, process, crash>>

\* "process would not die", 5 seconds later, and the shutdown goes on.
ReapGivesUp ==
    /\ down = "kill" /\ process = "running" /\ "leader" \in alive
    /\ down' = "helpers"
    /\ adrift' = adrift \cup {"leader"}
    /\ UNCHANGED <<kind, alive, stage, guarded, stuck, term, short>>
    /\ UNCHANGED <<rpcVars, runner, start, todo, held, known, process, crash>>

\* The helpers the runner started that have not exited, by their own groups.
KillHelpers ==
    /\ down = "helpers"
    /\ End((known \cap Helpers) \cup {p \in {"fork"} : "passt" \in alive \cap known})
    /\ down' = "release"
    /\ UNCHANGED <<kind, stage, guarded, stuck, term, short>>
    /\ UNCHANGED <<rpcVars, runner, start, todo, held, known, process, crash>>

\* The console's task, the memory monitor, `_cleanup' and the run directory.
Release ==
    /\ down = "release"
    /\ held' = held \ ({"rundir"} \cup (known \cap {"sockdir"}))
    /\ known' = {}
    /\ down' = "done"
    /\ UNCHANGED <<procVars, rpcVars, runner, start, todo, process, crash>>

\* The console's task had ended with an exception of whoever it told a line.
ReleaseRaises ==
    /\ down = "release" /\ process # "none"
    /\ down' = "raised"
    /\ UNCHANGED <<procVars, rpcVars, runner, start, todo, held, known, process, crash>>

-----------------------------------------------------------------------------
(* crash, and the end of the runner itself                                 *)

\* Seeded bug: only the group is signalled.
CrashSignalsGroup == KillGroup

\* The group, and the guest by its own pid.
CrashSignals ==
    \E gone \in (IF process = "running" THEN Reached ELSE {{}}) : Kill(gone \cup {GuestProcess})

Crash ==
    /\ start = "up" /\ down = "no" /\ crash = "no"
    /\ crash' = "asked"
    /\ CrashSignals
    /\ UNCHANGED <<rpcVars, runner, start, todo, held, known, process, down>>

\* The leader is waited for, then the guest's pid is asked about.
CrashDone ==
    /\ crash = "asked" /\ process = "exited" /\ ~Alive
    /\ crash' = "dead"
    /\ UNCHANGED <<procVars, rpcVars, runner, start, todo, held, known, process, down>>

\* Killed, or dead of a fault: no cleanup runs.
RunnerDies ==
    /\ runner' = FALSE
    /\ Orphaned
    /\ UNCHANGED <<rpcVars, start, todo, held, known, process, down, crash>>

-----------------------------------------------------------------------------
RunnerSteps ==
    \/ StartBegins \/ LaunchStep
    \/ LaunchFails \/ Launched \/ Spawn \/ Spawned \/ SpawnCancelled \/ Up \/ BootFails
    \/ \E c \in Caller : Ask(c) \/ GivesUp(c)
    \/ GivesUp(Down)
    \/ HostReceives \/ HangUp \/ ChildExits
    \/ DownBegins \/ DownAsked \/ DownRaises \/ ReapBegins \/ ReapEnds \/ ReapKills
    \/ ReapGivesUp \/ KillHelpers \/ Release \/ ReleaseRaises
    \/ Crash \/ CrashDone
    \/ RunnerDies

Apart == UNCHANGED <<machineVars, rpcVars>>
Lives == ProcNext /\ Apart

Next == (runner /\ RunnerSteps) \/ Lives \/ AgentServes \/ AgentAnswers

\* The runner's loop runs what is ready and its timers fire, and a process
\* does what it is about to.  No caller has to ask, no deadline of a caller
\* has to come, and neither guest nor agent has to do anything.
RunnerFairness ==
    /\ WF_vars(runner /\ HostReceives) /\ WF_vars(runner /\ HangUp)
    /\ WF_vars(runner /\ ChildExits) /\ WF_vars(runner /\ CrashDone)
    /\ WF_vars(runner /\ GivesUp(Down)) /\ WF_vars(runner /\ (DownAsked \/ DownRaises))
    /\ WF_vars(runner /\ ReapBegins) /\ WF_vars(runner /\ ReapEnds)
    /\ WF_vars(runner /\ ReapKills) /\ WF_vars(runner /\ ReapGivesUp)
    /\ WF_vars(runner /\ KillHelpers) /\ WF_vars(runner /\ (Release \/ ReleaseRaises))
ProcessFairness ==
    /\ WF_vars(BridgeForks /\ Apart) /\ WF_vars(BridgeGuards /\ Apart) /\ WF_vars(BridgeEnds /\ Apart)
    /\ WF_vars(LauncherBegins /\ Apart) /\ WF_vars(LauncherWaits /\ Apart) /\ WF_vars(LauncherEnds /\ Apart)
    /\ WF_vars(InitGuards /\ Apart) /\ WF_vars(CrunEnds /\ Apart)
Spec == Init /\ [][Next]_vars /\ RunnerFairness /\ ProcessFairness

-----------------------------------------------------------------------------
\* What a shutdown has no way to end: a process whose parent was to end it
\* and went first, an init whose crun was gone before it asked for its death
\* signal, and all of a guest whose leader lived through a SIGKILL.
BeyondReach ==
    IF "leader" \in adrift THEN Process
    ELSE adrift \cup {p \in {"init"} : guarded \in {"born", "late"}}

(* When a shutdown has returned nothing of the guest runs but what is      *)
(* beyond its reach, and a guest that had come up has left no file, socket *)
(* or descriptor behind: under every backend, whenever it began, whichever *)
(* processes had died, after a crash too (machine.py:354, 445).            *)
DownMeansDown ==
    down = "done" =>
       /\ alive \subseteq BeyondReach
       /\ start = "up" => held = {}

(* A shutdown ends, whatever the guest does: one that does not answer, one *)
(* that ignores the poweroff, a bridge that reads for ever, a launcher     *)
(* that had the SIGTERM before there was a container, a leader that lives  *)
(* through a SIGKILL: it returns or raises (machine.py:411).               *)
ShutdownEnds == down # "no" ~> (down \in {"done", "raised"} \/ ~runner)

(* Whoever waits for an answer of a guest that is gone is told, long       *)
(* before the deadline: the end of file comes because nobody but the guest *)
(* has the other end, once its bridge has ended it all (machine.py:347,    *)
(* main.rs:217).  What outlived the bridge keeps the other end.            *)
GoneIsNoticed ==
    \A c \in Caller :
       (Waiting(c) /\ conn = "open" /\ Agent \notin alive)
          ~> (~Waiting(c) \/ stuck \/ adrift \cap Holders \cap alive # {} \/ ~runner)

(* A crash leaves the guest dead, and the call that asked for it returns   *)
(* (machine.py:452: the group alone left the kernel in one run of two).    *)
CrashKills == crash = "asked" ~> (crash = "dead" \/ ~runner)

(* A runner that is killed where no cleanup can run takes its guest with   *)
(* it: from the moment the guest asked for its own death signal, nothing   *)
(* of it stays but what lost its parent, which no death signal reaches: a  *)
(* process that passt had forked, the children of a bridge that died first *)
(* (backend.py:52, main.rs:171, container.py:198, machine.py:376).         *)
RunnerGoneGuestGone ==
    (~runner /\ guarded = "yes" /\ (kind = "uml" => "leader" \in alive))
       ~> (alive \subseteq adrift \/ stuck)

(* "then make sure nothing is left" (machine.py:355), for every start.  It *)
(* does not hold of a start that fails (README, section 6).                *)
NothingIsLeft == down = "done" => alive = {} /\ held = {} /\ ~short
=============================================================================
