-------------------------------- MODULE Drive --------------------------------
(***************************************************************************)
(* drive and _sequence (pkgs/uml/uml/cli.py): boot the guests, run what is *)
(* pending, write the evidence, put the guests down.  Composes the session *)
(* the controller and the scheduler, and adds what can go wrong around     *)
(* them.  drive() is at one of:                                            *)
(*                                                                         *)
(*   boot      session.boot()                                              *)
(*   wait      _schedule, in `changed.wait()'                              *)
(*   paused    _schedule, in `control.pause()'                             *)
(*   stopping  _schedule, its tasks cancelled, until they have ended       *)
(*   drain     the shielded end: `await session.drain()', then the         *)
(*             evidence is written                                         *)
(*   teardown  `await session.teardown()'                                  *)
(*   closing   the outer task group cancelled: the controller and its      *)
(*             clients                                                     *)
(*   over                                                                  *)
(***************************************************************************)
EXTENDS Schedule

CONSTANTS Faults    \* which of the faults below this run may meet

ASSUME FaultsAssumption ==
    Faults \subseteq {"boot", "stop", "late stop", "gone", "raise", "write"}

VARIABLES guests,       \* "none" were started, they are "up", or "down"
          evidence,     \* NoEvidence, or what write_output wrote
          cancelled,    \* the outer task group is cancelled
          cut           \* the last fault that broke into the drive itself

driveVars == <<guests, evidence, cancelled, cut>>
vars == <<sessionVars, controlVars, scheduleVars, driveVars>>

NoEvidence == [passed |-> FALSE, phases |-> <<>>, errors |-> {}]
Evidence == [passed : BOOLEAN, phases : [Phase -> PhaseState], errors : SUBSET Phase]

Places == {"boot", "wait", "paused", "stopping", "drain", "teardown", "closing", "over"}

TypeOK ==
    /\ SessionTypeOK
    /\ ControlTypeOK
    /\ ScheduleTypeOK
    /\ pc \in Places
    /\ guests \in {"none", "up", "down"}
    /\ evidence \in Evidence \cup {NoEvidence}
    /\ cancelled \in BOOLEAN
    /\ cut \in {"none", "stop", "late stop", "write"}

Init ==
    /\ SessionInit
    /\ ControlInit
    /\ ScheduleInit
    /\ pc = "boot"
    /\ guests = "none"
    /\ evidence = NoEvidence
    /\ cancelled = FALSE
    /\ cut = "none"

-----------------------------------------------------------------------------
(* The sequence. *)

\* Every guest is up, and the scheduler takes its first turn.
Booted ==
    /\ pc = "boot"
    /\ guests' = "up"
    /\ Turn(resume)
    /\ UNCHANGED <<changed, evidence, cancelled, cut>>

\* A guest would not boot: the others settled first and may be up.  A forward
\* that cannot be resolved fails before any is started.
BootFails ==
    /\ "boot" \in Faults
    /\ pc = "boot"
    /\ pc' = "drain"
    /\ guests' \in {"none", "up"}
    /\ UNCHANGED <<sessionVars, controlVars, options, running, failed, pausedBefore, changed,
                   evidence, cancelled, cut>>

\* The scheduler's cancelled tasks have all ended.
Unwound ==
    /\ pc = "stopping" /\ running = {}
    /\ pc' = "drain"
    /\ UNCHANGED <<sessionVars, controlVars, options, running, failed, pausedBefore, changed, driveVars>>

\* write_output, right after the drain: status, phases.json, report.json.
WriteOutput ==
    /\ pc = "drain"
    /\ pc' = "teardown"
    /\ evidence' = [passed |-> Passed(state), phases |-> state, errors |-> errors]
    /\ UNCHANGED <<sessionVars, controlVars, options, running, failed, pausedBefore, changed,
                   guests, cancelled, cut>>

\* The drain or the writing raised -- a full disk.  Nothing is between them
\* and teardown to catch it.
WriteFails ==
    /\ "write" \in Faults
    /\ pc = "drain"
    /\ pc' = "closing"
    /\ cancelled' = TRUE
    /\ cut' = "write"
    /\ UNCHANGED <<sessionVars, controlVars, options, running, failed, pausedBefore, changed,
                   guests, evidence>>

\* teardown: every guest shut down, each failure of one caught; then the
\* outer group is cancelled.
Teardown ==
    /\ pc = "teardown"
    /\ pc' = "closing"
    /\ guests' = IF guests = "up" THEN "down" ELSE guests
    /\ cancelled' = TRUE
    /\ UNCHANGED <<sessionVars, controlVars, options, running, failed, pausedBefore, changed,
                   evidence, cut>>

\* The controller has closed and no client is left.
Close ==
    /\ pc = "closing"
    /\ \A c \in Client : cli[c] = "idle"
    /\ pc' = "over"
    /\ UNCHANGED <<sessionVars, controlVars, options, running, failed, pausedBefore, changed, driveVars>>

-----------------------------------------------------------------------------
(* The controller, while its socket is there. *)

Serving == Controlled /\ ~ cancelled

Request(c) ==
    /\ Serving
    /\ \E op \in Op : Ask(c, op)
    /\ UNCHANGED <<scheduleVars, driveVars>>

Serve(c) ==
    /\ Handle(c) \/ ExecEnds(c) \/ HandRunSteps(c) \/ HandRunEnds(c) \/ Reply(c)
    /\ UNCHANGED <<scheduleVars, driveVars>>

EndClient(c) ==
    /\ cancelled
    /\ ClientCancelled(c)
    /\ UNCHANGED <<scheduleVars, driveVars>>

-----------------------------------------------------------------------------
(* The scheduler and its tasks. *)

ScheduleTurns == (Wake \/ Resumed) /\ UNCHANGED driveVars

RunPhase(p) == (PhaseSteps(p) \/ PhaseEnds(p)) /\ UNCHANGED driveVars

\* Seeded bug: a cancelled task stays in `running'.
EndPhaseListed(p) ==
    /\ pc = "stopping"
    /\ p \in running
    /\ RunCancelled(p)
    /\ UNCHANGED <<controlVars, scheduleVars, driveVars>>

\* The group of _schedule is cancelled, and with it the task of p.
EndPhase(p) ==
    /\ pc = "stopping"
    /\ p \in running
    /\ RunCancelled(p)
    /\ TaskOver(p)
    /\ UNCHANGED <<controlVars, options, pc, failed, pausedBefore, driveVars>>

-----------------------------------------------------------------------------
(* What goes wrong. *)

\* Seeded bug: the end of _sequence is not shielded.
InterruptUnshielded(shielded) ==
    /\ \/ pc = "boot" /\ pc' = "drain" /\ guests' \in {"none", "up"} /\ UNCHANGED resume
       \/ pc \in {"wait", "stopping"} /\ pc' = "stopping" /\ UNCHANGED <<guests, resume>>
       \/ pc = "paused" /\ pc' = "drain" /\ resume' = "none" /\ UNCHANGED guests
       \/ pc \in {"drain", "teardown"} /\ pc' = "closing" /\ UNCHANGED <<guests, resume>>

\* The drive's own task is cancelled at its await: the pause is over, the
\* tasks of the scheduler are cancelled.  The end of _sequence is shielded
\* from a cancel of the task group, which is what `shielded' says.
Interrupt(shielded) ==
    /\ \/ /\ pc = "boot" /\ pc' = "drain"
          /\ guests' \in {"none", "up"}
          /\ UNCHANGED resume
       \/ /\ pc \in {"wait", "stopping"} /\ pc' = "stopping"
          /\ UNCHANGED <<guests, resume>>
       \/ /\ pc = "paused" /\ pc' = "drain"
          /\ resume' = "none"
          /\ UNCHANGED guests
       \/ /\ pc \in {"drain", "teardown"}
          /\ pc' = IF shielded THEN pc ELSE "closing"
          /\ UNCHANGED <<guests, resume>>

\* ^C: asyncio's runner cancels the main task, once.  Not a cancel of a
\* scope, so the shield at the end of _sequence does not hold off a late one.
Stop ==
    /\ cut = "none"
    /\ cut' = IF pc \in {"drain", "teardown"} THEN "late stop" ELSE "stop"
    /\ cut' \in Faults
    /\ Interrupt(FALSE)
    /\ cancelled' = (cancelled \/ pc' = "closing")
    /\ UNCHANGED <<sessionVars, continuing, cli, ask, options, running, failed, pausedBefore, changed,
                   evidence>>

\* A client's task raised out of the listener, so the outer group is
\* cancelled: a client that went away before its reply was sent, or the
\* session's drain or settle under a phase run by hand.
ClientRaises(c) ==
    /\ \/ /\ "gone" \in Faults
          /\ cli[c] = "reply"
          /\ UNCHANGED sessionVars
       \/ /\ "raise" \in Faults
          /\ cli[c] = "busy" /\ ask[c] = "run"
          /\ RunRaises(c)
    /\ cli' = [cli EXCEPT ![c] = "idle"]
    /\ cancelled' = TRUE
    /\ IF pc \in {"closing", "over"} THEN UNCHANGED <<pc, guests, resume>> ELSE Interrupt(TRUE)
    /\ UNCHANGED <<continuing, ask, options, running, failed, pausedBefore, changed, evidence, cut>>

\* The drain or settle under a scheduled phase raised: the scheduler's group
\* is cancelled, and the error leaves _schedule when its tasks have ended.
PhaseRaises(p) ==
    /\ "raise" \in Faults
    /\ p \in running
    /\ RunRaises(p)
    /\ TaskOver(p)
    /\ pc' = "stopping"
    /\ UNCHANGED <<controlVars, options, failed, pausedBefore, driveVars>>

-----------------------------------------------------------------------------

Done == pc = "over" /\ UNCHANGED vars

Next ==
    \/ Booted \/ BootFails \/ Unwound \/ WriteOutput \/ WriteFails \/ Teardown \/ Close
    \/ ScheduleTurns \/ Stop
    \/ \E c \in Client : Request(c) \/ Serve(c) \/ EndClient(c) \/ ClientRaises(c)
    \/ \E p \in Phase : RunPhase(p) \/ EndPhase(p) \/ PhaseRaises(p)
    \/ Done

\* The loop runs every task that is ready.  A boot, a script and a shutdown
\* end: every one of them is bounded by a timeout.  Nobody has to ask for
\* anything; a person at a breakpoint says `continue' some time.
Fairness ==
    /\ WF_vars(Booted) /\ WF_vars(Unwound) /\ WF_vars(WriteOutput)
    /\ WF_vars(Teardown) /\ WF_vars(Close) /\ WF_vars(ScheduleTurns)
    /\ \A p \in Phase : WF_vars(RunPhase(p)) /\ WF_vars(EndPhase(p))
    /\ \A c \in Client : WF_vars(Serve(c)) /\ WF_vars(EndClient(c))
    /\ \A c \in Client :
          SF_vars(Serving /\ Ask(c, "continue") /\ UNCHANGED <<scheduleVars, driveVars>>)

Spec == Init /\ [][Next]_vars
FairSpec == Spec /\ Fairness

-----------------------------------------------------------------------------
(* What must hold. *)

Started(p) == at[p] = "idle" /\ at'[p] = "drain"
Begins(t) == at[t] = "drain" /\ at'[t] = "body"
InRun(t) == at[t] \in {"body", "passing", "failing"}

\* Why guests are exclusive, as an inductive invariant (DriveProofs).  The
\* scheduler's tasks are the phases in `running', and no two of those want a
\* guest; a client's code is on the guests only while none runs and none is
\* about to, because a client whose `continue' resumed the drive has nothing
\* else on the socket.
OneClient == \A c, d \in Client : c = d

JobsKnown ==
    /\ \A p \in Phase : job[p] = p
    /\ \A c \in Client : cli[c] \in {"sent", "busy"} /\ ask[c] = "run" => job[c] \in Phase

TasksKnown ==
    /\ \A p \in Phase : at[p] # "idle" => p \in running
    /\ \A c \in Client : at[c] # "idle" => cli[c] = "busy" /\ ask[c] = "run"

RunningApart ==
    \A p, q \in running : p # q => Claims(spec, p) \cap Claims(spec, q) = {}

HandsOff ==
    /\ \A c \in Client : cli[c] = "busy" =>
          running = {} /\ pc \notin {"boot", "wait", "stopping"} /\ resume # "set"
    /\ resume = "set" => \A c \in Client : cli[c] = "idle"
    /\ resume # "none" => pc = "paused"
    /\ pc = "paused" => running = {}

Inv == TypeOK /\ JobsKnown /\ TasksKnown /\ RunningApart /\ HandsOff

\* Two users never share a guest: not two phases, not a phase and what a
\* client sent by hand (`launchable', Controller, _schedule's "paused always
\* means nothing is running, and `exec' never races a phase on the same
\* guest").
GuestExclusive ==
    \A t, u \in Task : t # u => Uses(t) \cap Uses(u) = {}

\* A command or a journal entry carries the phase it belongs to: a guest is
\* held by exactly the phase that is running on it (session.running).
Attribution ==
    /\ \A t \in Task : InRun(t) => \A g \in NodesOf(job[t]) : holder[g] = job[t]
    /\ \A g \in Guest : holder[g] # NoPhase =>
          \E t \in Task : InRun(t) /\ job[t] = holder[g] /\ g \in NodesOf(job[t])

\* An answer stands: once a phase has one, only a run of it by hand changes
\* it.  In particular a phase that was skipped is not run by the scheduler.
VerdictStands ==
    [][\A p \in Phase :
          state[p] \notin Unfinished /\ state'[p] # state[p] =>
             \E c \in Client : at[c] # "idle" /\ job[c] = p]_vars

\* When the scheduler's phase begins, everything in its `after' still has an
\* answer: nothing took one back while the phase drained.  It holds when
\* nobody runs a phase by hand (README, section 6).
BeginsInOrder ==
    [][\A p \in Phase : Begins(p) =>
          \A a \in spec[p].after : a \in Phase /\ state[a] \notin Unfinished]_vars

\* The rule phases.py exists for, first half: the scheduler begins nothing
\* that depends on a phase that failed.
FailureStopsDependents ==
    [][\A p \in Phase : Begins(p) =>
          \A f \in Phase : state[f] = "failed" => p \notin Dependents(spec, f)]_vars

\* Second half, "and nothing else": at the end of a run that met no fault,
\* every phase has an answer, and one that was skipped depends on a phase
\* that failed.
NothingElseLeftOut ==
    Faults = {} /\ pc = "teardown" =>
       \A p \in Phase :
          /\ state[p] \notin Unfinished
          /\ state[p] = "skipped" => \E f \in errors : p \in Dependents(spec, f)

\* What phases.json says is how the run ended: nothing changes after it.
EvidenceFinal ==
    pc = "over" /\ evidence # NoEvidence =>
       evidence.phases = state /\ evidence.errors = errors

\* --serial: one phase at a time, in the order Nix sorted them.
SerialOrder ==
    [][Serial => \A p \in Phase : Started(p) =>
          /\ running = {} /\ running' = {p}
          /\ \A q \in 1..(p - 1) : state[q] \notin Unfinished]_vars

\* A breakpoint is a pause before the phase starts, and --break-on-failure
\* one before anything else does.
PausesFirst ==
    [][\A p \in Phase : Started(p) =>
          /\ p \in Breaks => p \in pausedBefore
          /\ BreakOnFailure => \A f \in Phase : state[f] = "failed" => at'[f] = "idle" /\ f \notin failed]_vars

\* The drive is held until a client says `continue' (Controller.pause): what
\* resumes it is a `continue' whose client is still waiting for its reply.
OnlyContinueResumes ==
    [][resume = "waiting" /\ resume' = "set" =>
          \E c \in Client : ask[c] = "continue" /\ cli[c] = "reply"]_vars

\* "Paused always means nothing is running": while a client's code is let
\* loose on the guests, the scheduler has no phase of its own (cli.py:349).
\* It holds with one client and not with two (README, section 6).
PausedIsQuiet ==
    \A c \in Client : cli[c] = "busy" => running = {}

\* However the drive ends, the evidence is written and no guest is left up,
\* unless its very end was broken into.
NothingLeftBehind ==
    pc = "over" /\ cut \notin {"late stop", "write"} => evidence # NoEvidence /\ guests # "up"

\* phases.json is never a run still in progress (PhaseState.INTERRUPTED).  It
\* does not hold of a phase that is cancelled as it settles (section 6).
NothingLeftRunning ==
    evidence # NoEvidence => \A p \in Phase : evidence.phases[p] # "running"

\* The drive keeps the contract of RunContract: a phase that has not ended
\* has no answer, and who uses a guest has borrowed it.
Answer(s) == [p \in Phase |-> IF s[p] \in Unfinished THEN "none" ELSE s[p]]

Lent ==
    [g \in Guest |-> IF \E t \in Task : g \in Uses(t)
                     THEN CHOOSE t \in Task : g \in Uses(t) ELSE NoPhase]

Contract == INSTANCE RunContract WITH
    Person <- Client, Nobody <- NoPhase, answer <- Answer(state), lent <- Lent, up <- (guests = "up"),
    report <- IF evidence = NoEvidence THEN {} ELSE {Answer(evidence.phases)}

KeepsContract == Contract!ContractSpec

\* The drive ends.
DriveEnds == <>(pc = "over")

=============================================================================
