----------------------------- MODULE DriveProofs -----------------------------
(***************************************************************************)
(* Proofs about Drive, for any number of phases and guests, any dependency *)
(* graph, any breakpoints and flags, and every fault a theorem does not    *)
(* exclude.                                                                *)
(*                                                                         *)
(*   TypeCorrect       every variable keeps its type                       *)
(*   PhasesApart       no two phases the scheduler started want a guest    *)
(*   OneClientIsSafe   with one client nothing shares a guest with anything*)
(*   EndsWhole         the drive ends with its evidence and no guest       *)
(*   EvidenceIsFinal   and nothing changes after the evidence              *)
(*   ContinueResumes   only a `continue' ends a pause                      *)
(*   PausesComeFirst   pauses come where they were asked for               *)
(*   GuestsAttributed  a guest is held by the phase that is on it          *)
(*   RunningPhasesHold one half of that, whatever breaks in                *)
(*                                                                         *)
(* From StepKinds on, a step is a turn of the scheduler, a step of run()   *)
(* by one of its tasks or by a client's, or beside both.  What the session *)
(* says is followed through those four and not through the actions.        *)
(***************************************************************************)
EXTENDS Drive, TLAPS

Known == TypeOK /\ JobsKnown /\ TasksKnown

\* A task of the scheduler is not a client's.
LEMMA PhaseIsNotClient == Phase \cap Client = {}
BY ClientAssumption DEF Phase

RunStep(t) ==
    \/ RunBegins(t) \/ BodyEnds(t, "passing") \/ BodyEnds(t, "failing")
    \/ RunPassed(t) \/ RunFailed(t) \/ RunCancelled(t) \/ RunRaises(t)

\* What a step of Session.run is, whatever step it is: it moves one task that
\* was inside run(), and the session keeps its types.
LEMMA RunStepTypes ==
    ASSUME SessionTypeOK, NEW t \in Task, job[t] \in Phase, RunStep(t)
    PROVE  /\ SessionTypeOK'
           /\ spec' = spec /\ job' = job
           /\ at[t] # "idle"
           /\ \A u \in Task : u # t => at'[u] = at[u]
<1> USE DEF SessionTypeOK, Stage, PhaseState, Leave, Release, LetGo, Draining
<1>1. CASE RunBegins(t)
  BY <1>1 DEF RunBegins
<1>2. CASE BodyEnds(t, "passing") \/ BodyEnds(t, "failing")
  BY <1>2 DEF BodyEnds
<1>3. CASE RunPassed(t)
  BY <1>3 DEF RunPassed
<1>4. CASE RunFailed(t)
  BY <1>4 DEF RunFailed
<1>5. CASE RunCancelled(t)
  BY <1>5 DEF RunCancelled
<1>6. CASE RunRaises(t)
  BY <1>6 DEF RunRaises
<1>7. QED
  BY <1>1, <1>2, <1>3, <1>4, <1>5, <1>6 DEF RunStep


-----------------------------------------------------------------------------
(* One step of each component keeps the types, the jobs and the tasks. *)

\* The first state has them.
LEMMA KnownInit == Init => Known
<1> SUFFICES ASSUME Init PROVE Known
  OBVIOUS
<1> USE DEF Init, SessionInit, ControlInit, ScheduleInit
<1>1. SessionTypeOK
  <2>1. state \in [Phase -> PhaseState]
    BY DEF PhaseState
  <2>2. QED
    BY <2>1, SpecsAssumption DEF SessionTypeOK, Stage, Task, NoPhase
<1>2. ControlTypeOK /\ ScheduleTypeOK
  BY DEF ControlTypeOK, ScheduleTypeOK, Op
<1>3. TypeOK
  BY <1>1, <1>2 DEF TypeOK, Places
<1>4. JobsKnown /\ TasksKnown
  BY PhaseIsNotClient DEF JobsKnown, TasksKnown, Task
<1>5. QED
  BY <1>3, <1>4 DEF Known

\* A turn of the scheduler starts the phases it puts in `running'.
LEMMA TurnKnown ==
    ASSUME Known, NEW x \in {"none", "waiting", "set"}, Turn(x)
    PROVE  /\ SessionTypeOK' /\ ControlTypeOK' /\ pc' \in Places
           /\ running' \subseteq Phase /\ failed' \subseteq Phase /\ pausedBefore' \subseteq Phase
           /\ options' \in Options
           /\ JobsKnown' /\ TasksKnown'
<1> USE DEF Known, TypeOK, SessionTypeOK, ControlTypeOK, ScheduleTypeOK, Places
<1>1. CASE BeginPause
  <2>1. First(Stops) \subseteq Phase
    BY DEF First, Stops, Candidates, Ready, Runnable
  <2>2. pausedBefore' \subseteq Phase
    BY <1>1, <2>1 DEF BeginPause
  <2>3. QED
    BY <1>1, <2>2 DEF Turn, BeginPause, JobsKnown, TasksKnown
<1>2. CASE HoldBack /\ resume' = x
  BY <1>2 DEF Turn, HoldBack, JobsKnown, TasksKnown
<1>3. CASE Launch /\ resume' = x
  <2>1. PICK todo \in SUBSET Candidates :
          /\ running' = running \cup todo
          /\ at' = [t \in Task |-> IF t \in todo THEN "drain" ELSE at[t]]
          /\ ahead' = [t \in Task |-> IF t \in todo THEN Draining \cup {p \in todo : p < t}
                                     ELSE ahead[t]]
          /\ pc' = IF running \cup todo = {} THEN "drain" ELSE "wait"
    BY <1>3 DEF Launch
  <2>2. todo \subseteq Phase
    BY DEF Candidates, Ready, Runnable
  <2>3. todo \cap Client = {}
    BY <2>2, PhaseIsNotClient
  <2>4. at' \in [Task -> Stage]
    BY <2>1 DEF Stage
  <2>41. todo \subseteq Task /\ Draining \subseteq Task
    BY <2>2 DEF Task, Draining
  <2>42. ahead' \in [Task -> SUBSET Task]
    BY <2>1, <2>41
  <2>5. SessionTypeOK' /\ ControlTypeOK'
    BY <1>3, <2>4, <2>42 DEF Turn
  <2>6. TasksKnown'
    BY <1>3, <2>1, <2>2, <2>3 DEF Turn, TasksKnown, Task
  <2>7. JobsKnown'
    BY <1>3 DEF Turn, JobsKnown
  <2>8. QED
    BY <1>3, <2>1, <2>2, <2>5, <2>6, <2>7 DEF Launch, Turn
<1>4. QED
  BY <1>1, <1>2, <1>3 DEF Turn

\* A phase run by hand takes one step of Session.run.
LEMMA HandRunKnown ==
    ASSUME Known, NEW c \in Client, cli[c] = "busy", ask[c] = "run", RunStep(c),
           \/ UNCHANGED cli
           \/ at'[c] = "idle" /\ \E v \in {"idle", "reply"} : cli' = [cli EXCEPT ![c] = v],
           UNCHANGED <<ask, running>>
    PROVE  SessionTypeOK' /\ cli' \in [Client -> {"idle", "sent", "busy", "reply"}] /\ JobsKnown' /\ TasksKnown'
<1>1. job[c] \in Phase /\ c \in Task
  BY DEF Known, JobsKnown, Task
<1>2. /\ SessionTypeOK'
      /\ job' = job
      /\ \A u \in Task : u # c => at'[u] = at[u]
  BY <1>1, RunStepTypes DEF Known, TypeOK
<1>3. cli' \in [Client -> {"idle", "sent", "busy", "reply"}]
  BY DEF Known, TypeOK, ControlTypeOK
<1>4. JobsKnown'
  BY <1>2 DEF Known, TypeOK, ControlTypeOK, JobsKnown
<1>5. TasksKnown'
  BY <1>2, PhaseIsNotClient DEF Known, TypeOK, ControlTypeOK, TasksKnown, Task
<1>6. QED
  BY <1>2, <1>3, <1>4, <1>5

\* A task of the scheduler takes one step of Session.run.
LEMMA PhaseStepKnown ==
    ASSUME Known, NEW p \in Phase, RunStep(p), UNCHANGED <<cli, ask>>,
           UNCHANGED running \/ (running' = running \ {p} /\ at'[p] = "idle")
    PROVE  SessionTypeOK' /\ JobsKnown' /\ TasksKnown'
<1>1. p \in Task /\ job[p] \in Phase /\ p \notin Client
  BY PhaseIsNotClient DEF Known, JobsKnown, Task
<1>2. /\ SessionTypeOK'
      /\ job' = job /\ at[p] # "idle"
      /\ \A u \in Task : u # p => at'[u] = at[u]
  BY <1>1, RunStepTypes DEF Known, TypeOK
<1>3. JobsKnown'
  BY <1>2 DEF Known, JobsKnown
<1>4. TasksKnown'
  BY <1>1, <1>2 DEF Known, TasksKnown, Task
<1>5. QED
  BY <1>2, <1>3, <1>4

\* Leaving run() by any of its four ends leaves the task idle.
LEMMA EndsIdle ==
    ASSUME SessionTypeOK, NEW t \in Task,
           RunPassed(t) \/ RunFailed(t) \/ RunCancelled(t) \/ RunRaises(t)
    PROVE  at'[t] = "idle"
BY DEF SessionTypeOK, RunPassed, RunFailed, RunCancelled, RunRaises, Leave

-----------------------------------------------------------------------------
(* Every step of the drive. *)

\* Every action of the drive keeps them.
LEMMA KnownStep == Known /\ [Next]_vars => Known'
<1> SUFFICES ASSUME Known, [Next]_vars PROVE Known'
  OBVIOUS
<1> USE DEF driveVars
<1>1. CASE Booted
  <2>1. resume \in {"none", "waiting", "set"}
    BY DEF Known, TypeOK, ControlTypeOK
  <2>2. Turn(resume)
    BY <1>1 DEF Booted
  <2>3. QED
    BY <1>1, <2>1, <2>2, TurnKnown DEF Booted, Known, TypeOK, ScheduleTypeOK
<1>2. CASE BootFails \/ Unwound \/ WriteFails \/ Teardown \/ Close
  <2> USE DEF Known, TypeOK, Places, SessionTypeOK, ControlTypeOK, ScheduleTypeOK,
              JobsKnown, TasksKnown, sessionVars, controlVars
  <2>1. CASE BootFails
    BY <2>1 DEF BootFails
  <2>2. CASE Unwound
    BY <2>2 DEF Unwound
  <2>3. CASE WriteFails
    BY <2>3 DEF WriteFails
  <2>4. CASE Teardown
    BY <2>4 DEF Teardown
  <2>5. CASE Close
    BY <2>5 DEF Close
  <2> HIDE DEF Known, TypeOK, Places, SessionTypeOK, ControlTypeOK, ScheduleTypeOK,
               JobsKnown, TasksKnown, sessionVars, controlVars
  <2>6. QED
    BY <1>2, <2>1, <2>2, <2>3, <2>4, <2>5
<1>3. CASE WriteOutput
  BY <1>3 DEF WriteOutput, Known, TypeOK, Places, SessionTypeOK, ControlTypeOK,
              ScheduleTypeOK, JobsKnown, TasksKnown, sessionVars, controlVars,
              Evidence, Passed
<1>4. CASE ScheduleTurns
  <2>1. CASE Wake
    <3>1. resume \in {"none", "waiting", "set"} /\ Turn(resume)
      BY <2>1 DEF Wake, Known, TypeOK, ControlTypeOK
    <3>2. QED
      BY <1>4, <2>1, <3>1, TurnKnown DEF ScheduleTurns, Wake, Known, TypeOK, ScheduleTypeOK
  <2>2. CASE Resumed
    <3>1. Turn("none")
      BY <2>2 DEF Resumed
    <3>2. QED
      BY <1>4, <2>2, <3>1, TurnKnown DEF ScheduleTurns, Resumed, Known, TypeOK, ScheduleTypeOK
  <2>3. QED
    BY <1>4, <2>1, <2>2 DEF ScheduleTurns
<1>5. CASE Stop
  <2>1. /\ pc' \in Places
        /\ guests' \in {"none", "up", "down"}
        /\ resume' \in {"none", "waiting", "set"}
    BY <1>5 DEF Stop, Interrupt, Known, TypeOK, ControlTypeOK, Places
  <2>2. QED
    BY <1>5, <2>1 DEF Stop, Known, TypeOK, SessionTypeOK, ControlTypeOK, ScheduleTypeOK,
                      JobsKnown, TasksKnown, sessionVars
<1>6. ASSUME NEW c \in Client, Request(c) PROVE Known'
  <2>1. PICK op \in Op : Ask(c, op)
    BY <1>6 DEF Request
  <2>2. c \in Task
    BY DEF Task
  <2>3. job' \in [Task -> Phase \cup {NoPhase}]
    BY <2>1, <2>2 DEF Ask, Known, TypeOK, SessionTypeOK
  <2>4. SessionTypeOK' /\ ControlTypeOK'
    BY <2>1, <2>3 DEF Ask, Known, TypeOK, SessionTypeOK, ControlTypeOK
  <2>5. \A p \in Phase : job'[p] = job[p]
    BY <2>1, PhaseIsNotClient DEF Ask, Known, TypeOK, SessionTypeOK, Task
  <2>6. \A d \in Client : d # c => cli'[d] = cli[d] /\ ask'[d] = ask[d] /\ job'[d] = job[d]
    BY <2>1 DEF Ask, Known, TypeOK, SessionTypeOK, ControlTypeOK, Task
  <2>7. ask'[c] = "run" => job'[c] \in Phase
    BY <2>1, <2>2 DEF Ask, Known, TypeOK, SessionTypeOK, ControlTypeOK
  <2>8. JobsKnown'
    BY <2>5, <2>6, <2>7 DEF Known, JobsKnown
  <2>9. TasksKnown'
    BY <1>6, <2>1, <2>6 DEF Request, Ask, Known, TasksKnown, scheduleVars
  <2>10. QED
    BY <1>6, <2>4, <2>8, <2>9 DEF Request, Known, TypeOK, ScheduleTypeOK, scheduleVars
<1>7. ASSUME NEW c \in Client, Serve(c) PROVE Known'
  <2>0. UNCHANGED <<scheduleVars, driveVars>>
    BY <1>7 DEF Serve
  <2>1. CASE Handle(c)
    <3>1. c \in Task
      BY DEF Task
    <3>2. SessionTypeOK' /\ ControlTypeOK'
      <4> USE DEF Handle, Known, TypeOK, SessionTypeOK, ControlTypeOK
      <4>1. Draining \in SUBSET Task
        BY DEF Draining
      <4>2. at' \in [Task -> Stage] /\ ahead' \in [Task -> SUBSET Task]
        BY <2>1, <3>1, <4>1 DEF Enters, Stage
      <4>3. QED
        BY <2>1, <3>1, <4>2
    <3>3. UNCHANGED <<job, ask, running>> /\ \A t \in Task : t # c => at'[t] = at[t]
      BY <2>0, <2>1, <3>1 DEF Handle, Enters, Known, TypeOK, SessionTypeOK, scheduleVars
    <3>4. JobsKnown'
      BY <2>1, <3>3 DEF Handle, Known, TypeOK, ControlTypeOK, JobsKnown
    <3>5. TasksKnown'
      BY <2>1, <3>1, <3>3, PhaseIsNotClient
         DEF Handle, Known, TypeOK, SessionTypeOK, ControlTypeOK, TasksKnown, Task
    <3>6. QED
      BY <2>0, <3>2, <3>4, <3>5 DEF Known, TypeOK, ScheduleTypeOK, scheduleVars
  <2>2. CASE ExecEnds(c) \/ Reply(c)
    <3>1. SessionTypeOK' /\ ControlTypeOK'
      BY <2>2 DEF ExecEnds, Reply, Known, TypeOK, SessionTypeOK, ControlTypeOK, sessionVars
    <3>2. JobsKnown' /\ TasksKnown'
      BY <2>0, <2>2 DEF ExecEnds, Reply, Known, TypeOK, ControlTypeOK, JobsKnown, TasksKnown,
                        sessionVars, scheduleVars
    <3>3. QED
      BY <2>0, <3>1, <3>2 DEF Known, TypeOK, ScheduleTypeOK, scheduleVars
  <2>3. CASE HandRunSteps(c) \/ HandRunEnds(c)
    <3>0. c \in Task /\ SessionTypeOK
      BY DEF Task, Known, TypeOK
    <3>1. RunStep(c) /\ cli[c] = "busy" /\ ask[c] = "run" /\ UNCHANGED <<ask, resume, continuing>>
      BY <2>3 DEF HandRunSteps, HandRunEnds, RunStep, controlVars
    <3>2. \/ UNCHANGED cli
          \/ at'[c] = "idle" /\ \E v \in {"idle", "reply"} : cli' = [cli EXCEPT ![c] = v]
      BY <2>3, <3>0, EndsIdle DEF HandRunSteps, HandRunEnds, controlVars
    <3>3. QED
      BY <2>0, <3>1, <3>2, HandRunKnown DEF Known, TypeOK, ControlTypeOK, ScheduleTypeOK, scheduleVars
  <2>4. QED
    BY <1>7, <2>1, <2>2, <2>3 DEF Serve
<1>8. ASSUME NEW c \in Client, EndClient(c) PROVE Known'
  <2>0. UNCHANGED <<scheduleVars, driveVars, resume, continuing, ask>>
    BY <1>8 DEF EndClient, ClientCancelled
  <2>1. CASE at[c] = "idle"
    <3>1. SessionTypeOK' /\ ControlTypeOK'
      BY <1>8, <2>1 DEF EndClient, ClientCancelled, Known, TypeOK, SessionTypeOK, ControlTypeOK, sessionVars
    <3>2. JobsKnown' /\ TasksKnown'
      BY <1>8, <2>0, <2>1 DEF EndClient, ClientCancelled, Known, TypeOK, ControlTypeOK, JobsKnown,
                              TasksKnown, sessionVars, scheduleVars
    <3>3. QED
      BY <2>0, <3>1, <3>2 DEF Known, TypeOK, ScheduleTypeOK, scheduleVars
  <2>2. CASE at[c] # "idle"
    <3>1. cli[c] = "busy" /\ ask[c] = "run" /\ c \in Task /\ SessionTypeOK
      BY <2>2 DEF Known, TasksKnown, TypeOK, Task
    <3>2. RunCancelled(c) /\ cli' = [cli EXCEPT ![c] = "idle"]
      BY <1>8, <2>2 DEF EndClient, ClientCancelled
    <3>3. at'[c] = "idle" /\ RunStep(c)
      BY <3>1, <3>2, EndsIdle DEF RunStep
    <3>4. QED
      BY <2>0, <3>1, <3>2, <3>3, HandRunKnown DEF Known, TypeOK, ControlTypeOK, ScheduleTypeOK, scheduleVars
  <2>3. QED
    BY <2>1, <2>2
<1>9. ASSUME NEW c \in Client, ClientRaises(c) PROVE Known'
  <2>1. /\ pc' \in Places
        /\ guests' \in {"none", "up", "down"}
        /\ resume' \in {"none", "waiting", "set"}
    BY <1>9 DEF ClientRaises, Interrupt, Known, TypeOK, ControlTypeOK, Places
  <2>2. /\ cli' = [cli EXCEPT ![c] = "idle"]
        /\ UNCHANGED <<continuing, ask, options, running, failed, pausedBefore, changed, evidence, cut>>
        /\ cancelled' = TRUE
    BY <1>9 DEF ClientRaises
  <2>3. cli' \in [Client -> {"idle", "sent", "busy", "reply"}]
    BY <2>2 DEF Known, TypeOK, ControlTypeOK
  <2>4. SessionTypeOK' /\ JobsKnown' /\ TasksKnown'
    <3>1. CASE cli[c] = "reply" /\ UNCHANGED sessionVars
      BY <2>2, <3>1 DEF Known, TypeOK, SessionTypeOK, ControlTypeOK, JobsKnown, TasksKnown, sessionVars
    <3>2. CASE cli[c] = "busy" /\ ask[c] = "run" /\ RunRaises(c)
      <4>1. at'[c] = "idle" /\ RunStep(c)
        BY <3>2, EndsIdle DEF RunStep, Known, TypeOK, Task
      <4>2. QED
        BY <2>2, <3>2, <4>1, HandRunKnown
    <3>3. QED
      BY <1>9, <3>1, <3>2 DEF ClientRaises
  <2>5. QED
    BY <2>1, <2>2, <2>3, <2>4 DEF Known, TypeOK, ControlTypeOK, ScheduleTypeOK
<1>10. ASSUME NEW p \in Phase, RunPhase(p) PROVE Known'
  <2>0. p \in Task /\ SessionTypeOK
    BY DEF Task, Known, TypeOK
  <2>1. /\ RunStep(p)
        /\ UNCHANGED <<controlVars, options, pc, pausedBefore, driveVars>>
        /\ UNCHANGED failed \/ failed' = failed \cup {p}
        /\ UNCHANGED changed \/ changed' = TRUE
    BY <1>10 DEF RunPhase, PhaseSteps, PhaseEnds, RunStep, TaskOver, scheduleVars
  <2>2. UNCHANGED running \/ (running' = running \ {p} /\ at'[p] = "idle")
    BY <1>10, <2>0, EndsIdle DEF RunPhase, PhaseSteps, PhaseEnds, TaskOver, scheduleVars
  <2>3. SessionTypeOK' /\ JobsKnown' /\ TasksKnown'
    BY <2>1, <2>2, PhaseStepKnown DEF controlVars
  <2>4. ControlTypeOK' /\ ScheduleTypeOK'
    BY <2>1, <2>2 DEF Known, TypeOK, ControlTypeOK, ScheduleTypeOK, controlVars
  <2>5. QED
    BY <2>1, <2>3, <2>4 DEF Known, TypeOK, Places
<1>11. ASSUME NEW p \in Phase, EndPhase(p) \/ PhaseRaises(p) PROVE Known'
  <2>0. p \in Task /\ SessionTypeOK
    BY DEF Task, Known, TypeOK
  <2>1. /\ RunCancelled(p) \/ RunRaises(p)
        /\ UNCHANGED <<controlVars, options, failed, pausedBefore, driveVars>>
        /\ running' = running \ {p} /\ changed' = TRUE
        /\ pc' \in Places
    BY <1>11 DEF EndPhase, PhaseRaises, TaskOver, Places, Known, TypeOK
  <2>2. at'[p] = "idle" /\ RunStep(p)
    BY <2>0, <2>1, EndsIdle DEF RunStep
  <2>3. SessionTypeOK' /\ JobsKnown' /\ TasksKnown'
    BY <2>1, <2>2, PhaseStepKnown DEF controlVars
  <2>4. QED
    BY <2>1, <2>3 DEF Known, TypeOK, ControlTypeOK, ScheduleTypeOK, controlVars
<1>12. CASE UNCHANGED vars
  BY <1>12 DEF vars, Known, TypeOK, SessionTypeOK, ControlTypeOK, ScheduleTypeOK, JobsKnown, TasksKnown,
               sessionVars, controlVars, scheduleVars
<1>13. QED
  BY <1>1, <1>2, <1>3, <1>4, <1>5, <1>6, <1>7, <1>8, <1>9, <1>10, <1>11, <1>12 DEF Next, Done

\* Every variable keeps its type, in every run, with every fault.
THEOREM TypeCorrect == Spec => []TypeOK
<1>1. Known => TypeOK
  BY DEF Known
<1>2. QED
  BY <1>1, KnownInit, KnownStep, PTL DEF Spec

-----------------------------------------------------------------------------
(* The phases the scheduler started want no guest in common. *)

\* What launchable() adds keeps the running phases apart: each phase it takes
\* wants nothing a running one has, nor one it took before.
LEMMA LaunchApart ==
    ASSUME RunningApart, running \subseteq Phase, NEW todo, Chosen(todo)
    PROVE  \A p, q \in running \cup todo : p # q => Claims(spec, p) \cap Claims(spec, q) = {}
<1>1. PICK all \in SUBSET Candidates :
        /\ IsLaunchable(all, spec, Candidates, running)
        /\ todo \subseteq all
  BY DEF Chosen, First
<1>2. \A p \in all, q \in running : Claims(spec, p) \cap Claims(spec, q) = {}
  BY <1>1 DEF IsLaunchable, ClaimsOf
<1>3. \A p, q \in all : q < p => Claims(spec, p) \cap Claims(spec, q) = {}
  BY <1>1 DEF IsLaunchable, ClaimsOf
<1>4. all \subseteq Int
  BY NumPhasesAssumption DEF Candidates, Ready, Runnable, Phase
<1>5. \A p, q \in all : p # q => Claims(spec, p) \cap Claims(spec, q) = {}
  <2>1. SUFFICES ASSUME NEW p \in all, NEW q \in all, p # q
                 PROVE  Claims(spec, p) \cap Claims(spec, q) = {}
    OBVIOUS
  <2>2. p < q \/ q < p
    BY <1>4, <2>1
  <2>3. QED
    BY <1>3, <2>2
<1>6. QED
  BY <1>1, <1>2, <1>5 DEF RunningApart

\* A turn adds only what IsLaunchable let in beside the running phases, so
\* they stay apart.
LEMMA TurnApart ==
    ASSUME RunningApart, running \subseteq Phase, NEW x, Turn(x)
    PROVE  RunningApart'
<1>1. spec' = spec
  BY DEF Turn
<1>2. CASE BeginPause \/ HoldBack
  BY <1>1, <1>2 DEF BeginPause, HoldBack, RunningApart, Claims
<1>3. CASE Launch
  <2>1. PICK todo : Chosen(todo) /\ running' = running \cup todo
    BY <1>3 DEF Launch
  <2>2. \A p, q \in running' : p # q => Claims(spec, p) \cap Claims(spec, q) = {}
    BY <2>1, LaunchApart
  <2>3. QED
    BY <1>1, <2>2 DEF RunningApart, Claims
<1>4. QED
  BY <1>2, <1>3 DEF Turn

\* Every step but a turn of the scheduler leaves the spec alone and starts
\* nothing.
LEMMA OnlyTurnsStart ==
    ASSUME Known, [Next]_vars
    PROVE  \/ (Booted \/ Wake \/ Resumed)
           \/ spec' = spec /\ running' \subseteq running
<1>1. CASE BootFails \/ Unwound \/ WriteOutput \/ WriteFails \/ Teardown \/ Close \/ Stop
  BY <1>1 DEF BootFails, Unwound, WriteOutput, WriteFails, Teardown, Close, Stop, sessionVars
<1>2. ASSUME NEW c \in Client, Request(c) \/ Serve(c) \/ EndClient(c) \/ ClientRaises(c)
      PROVE  spec' = spec /\ running' \subseteq running
  BY <1>2 DEF Request, Serve, EndClient, ClientRaises, Ask, Handle, ExecEnds, HandRunSteps,
              HandRunEnds, Reply, ClientCancelled, RunBegins, BodyEnds, RunPassed, RunFailed,
              RunCancelled, RunRaises, sessionVars, scheduleVars
<1>3. ASSUME NEW p \in Phase, RunPhase(p) \/ EndPhase(p) \/ PhaseRaises(p)
      PROVE  spec' = spec /\ running' \subseteq running
  BY <1>3 DEF RunPhase, EndPhase, PhaseRaises, PhaseSteps, PhaseEnds, TaskOver, RunBegins, BodyEnds,
              RunPassed, RunFailed, RunCancelled, RunRaises, scheduleVars
<1>4. CASE UNCHANGED vars
  BY <1>4 DEF vars, sessionVars, scheduleVars
<1>5. QED
  BY <1>1, <1>2, <1>3, <1>4 DEF Next, Done, ScheduleTurns

\* No other action makes `running' larger.
LEMMA ApartStep == Known /\ RunningApart /\ [Next]_vars => RunningApart'
<1> SUFFICES ASSUME Known, RunningApart, [Next]_vars PROVE RunningApart'
  OBVIOUS
<1>1. running \subseteq Phase
  BY DEF Known, TypeOK, ScheduleTypeOK
<1>2. CASE Booted \/ Wake \/ Resumed
  BY <1>1, <1>2, TurnApart DEF Booted, Wake, Resumed
<1>3. CASE spec' = spec /\ running' \subseteq running
  BY <1>3 DEF RunningApart, Claims
<1>4. QED
  BY <1>2, <1>3, OnlyTurnsStart

\* However many clients there are and whatever they do, no two phases the
\* scheduler has started at once want a guest in common.
THEOREM PhasesApart == Spec => []RunningApart
<1>1. Init => RunningApart
  BY DEF Init, ScheduleInit, RunningApart
<1>2. QED
  BY <1>1, KnownInit, KnownStep, ApartStep, PTL DEF Spec

-----------------------------------------------------------------------------
(* With one client, what it sends to the guests has them to itself. *)

\* A turn is taken when no client has its code on the guests, and what it
\* starts is not started under a pause.
LEMMA TurnHandsOff ==
    ASSUME Known, NEW x \in {"none", resume}, Turn(x), HandsOff,
           \A c \in Client : cli[c] # "busy",
           resume = "none" \/ x = "none"
    PROVE  HandsOff'
<1>1. UNCHANGED cli
  BY DEF Turn
<1>2. CASE BeginPause
  BY <1>1, <1>2 DEF BeginPause, HandsOff
<1>3. CASE HoldBack \/ Launch
  BY <1>1, <1>3 DEF Turn, HoldBack, Launch, BeginPause, Reason, HandsOff, Known, TypeOK, ControlTypeOK
<1>4. QED
  BY <1>2, <1>3 DEF Turn

\* Every action keeps a lone client and the scheduler off each other's guests:
\* it can only send code while the drive is paused, and only its own
\* `continue' ends that.
LEMMA HandsOffStep ==
    ASSUME OneClient, Known, HandsOff, [Next]_vars
    PROVE  HandsOff'
<1> USE DEF HandsOff
<1>1. CASE Booted
  BY <1>1, TurnHandsOff DEF Booted
<1>2. CASE ScheduleTurns
  <2>1. CASE Wake
    BY <2>1, TurnHandsOff DEF Wake
  <2>2. CASE Resumed
    BY <2>2, TurnHandsOff DEF Resumed
  <2>3. QED
    BY <1>2, <2>1, <2>2 DEF ScheduleTurns
<1>3. CASE BootFails \/ Unwound \/ WriteOutput \/ WriteFails \/ Teardown \/ Close
  BY <1>3 DEF BootFails, Unwound, WriteOutput, WriteFails, Teardown, Close, controlVars
<1>4. CASE Stop
  BY <1>4 DEF Stop, Interrupt
<1>5. ASSUME NEW c \in Client, Request(c) PROVE HandsOff'
  BY <1>5 DEF Request, Ask, scheduleVars, Known, TypeOK, ControlTypeOK
<1>6. ASSUME NEW c \in Client, Serve(c) PROVE HandsOff'
  <2>1. \A d \in Client : d = c
    BY DEF OneClient
  <2>2. UNCHANGED <<pc, running>>
    BY <1>6 DEF Serve, scheduleVars
  <2>3. CASE Handle(c)
    BY <2>1, <2>2, <2>3 DEF Handle, Paused, Known, TypeOK, ControlTypeOK
  <2>4. CASE Reply(c)
    BY <2>1, <2>2, <2>4 DEF Reply, Paused, Known, TypeOK, ControlTypeOK
  <2>5. CASE ExecEnds(c) \/ HandRunEnds(c)
    BY <2>1, <2>2, <2>5 DEF ExecEnds, HandRunEnds, Known, TypeOK, ControlTypeOK
  <2>6. CASE HandRunSteps(c)
    BY <2>2, <2>6 DEF HandRunSteps, controlVars
  <2>7. QED
    BY <1>6, <2>3, <2>4, <2>5, <2>6 DEF Serve
<1>7. ASSUME NEW c \in Client, EndClient(c) PROVE HandsOff'
  BY <1>7 DEF EndClient, ClientCancelled, scheduleVars, Known, TypeOK, ControlTypeOK
<1>8. ASSUME NEW c \in Client, ClientRaises(c) PROVE HandsOff'
  <2>1. \A d \in Client : cli'[d] = "idle"
    BY <1>8 DEF ClientRaises, OneClient, Known, TypeOK, ControlTypeOK
  <2>2. UNCHANGED running
    BY <1>8 DEF ClientRaises
  <2>3. /\ resume' # "none" => pc' = "paused"
        /\ pc' = "paused" => pc = "paused"
    BY <1>8 DEF ClientRaises, Interrupt
  <2>4. QED
    BY <2>1, <2>2, <2>3
<1>9. ASSUME NEW p \in Phase, RunPhase(p) \/ EndPhase(p) \/ PhaseRaises(p) PROVE HandsOff'
  <2>1. p \in running
    BY <1>9 DEF RunPhase, EndPhase, PhaseRaises, PhaseSteps, PhaseEnds
  <2>2. /\ UNCHANGED <<cli, resume>> /\ running' \subseteq running
        /\ pc' = pc \/ pc' = "stopping"
    BY <1>9 DEF RunPhase, EndPhase, PhaseRaises, PhaseSteps, PhaseEnds, TaskOver, controlVars, scheduleVars
  <2>3. pc # "paused"
    BY <2>1
  <2>4. QED
    BY <2>1, <2>2, <2>3
<1>10. CASE UNCHANGED vars
  BY <1>10 DEF vars, controlVars, scheduleVars
<1>11. QED
  BY <1>1, <1>2, <1>3, <1>4, <1>5, <1>6, <1>7, <1>8, <1>9, <1>10 DEF Next, Done

\* What the invariant says about who uses a guest.
LEMMA InvExcludes ==
    ASSUME OneClient, Known, RunningApart, HandsOff
    PROVE  GuestExclusive
<1> SUFFICES ASSUME NEW t \in Task, NEW u \in Task, t # u
             PROVE  Uses(t) \cap Uses(u) = {}
  BY DEF GuestExclusive
<1>1. ASSUME NEW p \in Phase PROVE Uses(p) = IF at[p] # "idle" THEN Claims(spec, p) ELSE {}
  BY PhaseIsNotClient DEF Uses, Known, JobsKnown
<1>2. ASSUME NEW p \in Phase, at[p] # "idle" PROVE p \in running
  BY <1>2 DEF Known, TasksKnown
<1>3. ASSUME NEW c \in Client, cli[c] # "busy" PROVE Uses(c) = {}
  BY <1>3 DEF Uses, Known, TasksKnown
<1>4. CASE t \in Phase /\ u \in Phase
  BY <1>1, <1>2, <1>4 DEF RunningApart
<1>5. ASSUME NEW p \in Phase, NEW c \in Client PROVE Uses(p) = {} \/ Uses(c) = {}
  BY <1>1, <1>2, <1>3 DEF HandsOff
<1>6. CASE t \in Client /\ u \in Client
  BY <1>6 DEF OneClient
<1>7. QED
  BY <1>4, <1>5, <1>6 DEF Task

\* With one client -- a person with `uml ctl', or the MCP server taking one
\* call at a time -- no guest is ever used by two at once: not by two phases,
\* not by a phase and what was sent by hand.
THEOREM OneClientIsSafe == ASSUME OneClient PROVE Spec => []GuestExclusive
<1>1. Init => RunningApart /\ HandsOff
  BY DEF Init, ScheduleInit, ControlInit, RunningApart, HandsOff
<1>2. Known /\ HandsOff /\ [Next]_vars => HandsOff'
  BY HandsOffStep
<1>3. Known /\ RunningApart /\ HandsOff => GuestExclusive
  BY InvExcludes
<1>4. QED
  BY <1>1, <1>2, <1>3, KnownInit, KnownStep, ApartStep, PTL DEF Spec

-----------------------------------------------------------------------------
(* The end of the drive. *)

\* What write_output writes is not nothing, even of a run with no phase.
LEMMA EvidenceIsSomething ==
    ASSUME state \in [Phase -> PhaseState]
    PROVE  [passed |-> Passed(state), phases |-> state, errors |-> errors] # NoEvidence
<1> DEFINE written == [passed |-> Passed(state), phases |-> state, errors |-> errors]
<1>1. SUFFICES ASSUME written = NoEvidence PROVE FALSE
  OBVIOUS
<1>2. written.passed = FALSE /\ written.phases = <<>>
  BY <1>1 DEF NoEvidence
<1>3. ~ Passed(state) /\ state = <<>>
  BY <1>2
<1>4. Phase = {}
  BY <1>3
<1>5. QED
  BY <1>3, <1>4 DEF Passed

\* Once the end of the drive was not broken into, what comes before a stage
\* of it has been done.
EndIsWhole ==
    cut \notin {"late stop", "write"} =>
       /\ pc \in {"teardown", "closing", "over"} => evidence # NoEvidence
       /\ pc \in {"closing", "over"} => guests # "up"

\* Every action keeps it.
LEMMA EndIsWholeStep == Known /\ EndIsWhole /\ [Next]_vars => EndIsWhole'
<1> SUFFICES ASSUME Known, EndIsWhole, [Next]_vars PROVE EndIsWhole'
  OBVIOUS
<1> USE DEF EndIsWhole
<1>1. CASE Booted \/ ScheduleTurns
  <2>1. pc' \in {"wait", "paused", "drain"}
    BY <1>1 DEF Booted, ScheduleTurns, Wake, Resumed, Turn, BeginPause, HoldBack, Launch
  <2>2. QED
    BY <2>1
<1>2. CASE BootFails \/ Unwound \/ WriteFails \/ Teardown \/ Close
  BY <1>2 DEF BootFails, Unwound, WriteFails, Teardown, Close, driveVars
<1>3. CASE WriteOutput
  <2>1. evidence' # NoEvidence
    BY <1>3, EvidenceIsSomething DEF WriteOutput, Known, TypeOK, SessionTypeOK
  <2>2. QED
    BY <1>3, <2>1 DEF WriteOutput
<1>4. CASE Stop
  BY <1>4 DEF Stop, Interrupt
<1>5. ASSUME NEW c \in Client, Request(c) \/ Serve(c) \/ EndClient(c) PROVE EndIsWhole'
  BY <1>5 DEF Request, Serve, EndClient, scheduleVars, driveVars
<1>6. ASSUME NEW c \in Client, ClientRaises(c) PROVE EndIsWhole'
  BY <1>6 DEF ClientRaises, Interrupt
<1>7. ASSUME NEW p \in Phase, RunPhase(p) \/ EndPhase(p) PROVE EndIsWhole'
  BY <1>7 DEF RunPhase, PhaseSteps, PhaseEnds, EndPhase, scheduleVars, driveVars
<1>8. ASSUME NEW p \in Phase, PhaseRaises(p) PROVE EndIsWhole'
  BY <1>8 DEF PhaseRaises
<1>9. CASE UNCHANGED vars
  BY <1>9 DEF vars, scheduleVars, driveVars
<1>10. QED
  BY <1>1, <1>2, <1>3, <1>4, <1>5, <1>6, <1>7, <1>8, <1>9 DEF Next, Done

\* However the drive ends -- a phase or a client raised, a boot failed, ^C,
\* any number of clients -- its evidence is written and no guest is left up
\* (_sequence, cli.py), unless its very end was broken into.
THEOREM EndsWhole == Spec => []NothingLeftBehind
<1>1. Init => EndIsWhole
  BY DEF Init, EndIsWhole
<1>2. EndIsWhole => NothingLeftBehind
  BY DEF EndIsWhole, NothingLeftBehind
<1>3. QED
  BY <1>1, <1>2, KnownInit, KnownStep, EndIsWholeStep, PTL DEF Spec

-----------------------------------------------------------------------------
(* Nothing changes once the evidence is written. *)

\* While phases run the scheduler waits for them.
Resting == running # {} => pc \in {"wait", "stopping"}

\* Every action keeps that.
LEMMA RestingStep == Known /\ Resting /\ [Next]_vars => Resting'
<1> SUFFICES ASSUME Known, Resting, [Next]_vars PROVE Resting'
  OBVIOUS
<1> USE DEF Resting
<1>1. CASE Booted \/ ScheduleTurns
  BY <1>1 DEF Booted, ScheduleTurns, Wake, Resumed, Turn, BeginPause, HoldBack, Launch
<1>2. CASE BootFails \/ Unwound \/ WriteOutput \/ WriteFails \/ Teardown \/ Close
  BY <1>2 DEF BootFails, Unwound, WriteOutput, WriteFails, Teardown, Close, driveVars
<1>3. CASE Stop
  BY <1>3 DEF Stop, Interrupt
<1>4. ASSUME NEW c \in Client, Request(c) \/ Serve(c) \/ EndClient(c) PROVE Resting'
  BY <1>4 DEF Request, Serve, EndClient, scheduleVars
<1>5. ASSUME NEW c \in Client, ClientRaises(c) PROVE Resting'
  BY <1>5 DEF ClientRaises, Interrupt
<1>6. ASSUME NEW p \in Phase, RunPhase(p) \/ EndPhase(p) \/ PhaseRaises(p) PROVE Resting'
  BY <1>6 DEF RunPhase, EndPhase, PhaseRaises, PhaseSteps, PhaseEnds, TaskOver, scheduleVars
<1>7. CASE UNCHANGED vars
  BY <1>7 DEF vars, scheduleVars
<1>8. QED
  BY <1>1, <1>2, <1>3, <1>4, <1>5, <1>6, <1>7 DEF Next, Done

\* The loop of the scheduler is over, or was never begun.
Ended == pc \in {"drain", "teardown", "closing", "over"}

\* Nobody is at work at the end of the drive.
QuietEnd == Ended => running = {} /\ \A c \in Client : cli[c] # "busy"

\* Every action keeps that, with one client and no ^C.
LEMMA QuietEndStep ==
    ASSUME OneClient, "stop" \notin Faults, Known, Resting, HandsOff, QuietEnd, [Next]_vars
    PROVE  QuietEnd'
<1> USE DEF QuietEnd, Ended
<1>1. CASE Booted \/ ScheduleTurns
  <2>1. /\ cli' = cli
        /\ pc' \in {"wait", "paused"} \/ running' = {}
    BY <1>1 DEF Booted, ScheduleTurns, Wake, Resumed, Turn, BeginPause, HoldBack, Launch
  <2>2. \A c \in Client : cli[c] # "busy"
    BY <1>1 DEF Booted, ScheduleTurns, Wake, Resumed, HandsOff
  <2>3. QED
    BY <2>1, <2>2
<1>2. CASE BootFails \/ Unwound \/ WriteOutput \/ WriteFails \/ Teardown \/ Close
  BY <1>2 DEF BootFails, Unwound, WriteOutput, WriteFails, Teardown, Close, driveVars, controlVars, HandsOff,
              Resting
<1>3. CASE Stop
  BY <1>3 DEF Stop, Interrupt
<1>4. ASSUME NEW c \in Client, Request(c) \/ Serve(c) \/ EndClient(c) PROVE QuietEnd'
  <2>1. UNCHANGED <<pc, running>>
    BY <1>4 DEF Request, Serve, EndClient, scheduleVars
  <2>2. Ended => ~ Paused
    BY DEF HandsOff, Paused
  <2>3. Ended => \A d \in Client : cli'[d] = "busy" => cli[d] = "busy"
    BY <1>4, <2>2 DEF Request, Serve, EndClient, Ask, Handle, ExecEnds, HandRunSteps, HandRunEnds, Reply,
                      ClientCancelled, controlVars, Known, TypeOK, ControlTypeOK
  <2>4. QED
    BY <2>1, <2>3
<1>5. ASSUME NEW c \in Client, ClientRaises(c) PROVE QuietEnd'
  <2>1. \A d \in Client : cli'[d] = "idle"
    BY <1>5 DEF ClientRaises, OneClient, Known, TypeOK, ControlTypeOK
  <2>2. UNCHANGED running
    BY <1>5 DEF ClientRaises
  <2>3. Ended' => Ended \/ pc \in {"boot", "paused"}
    BY <1>5 DEF ClientRaises, Interrupt
  <2>4. QED
    BY <2>1, <2>2, <2>3 DEF Resting
<1>6. ASSUME NEW p \in Phase, RunPhase(p) \/ EndPhase(p) \/ PhaseRaises(p) PROVE QuietEnd'
  <2>1. /\ p \in running /\ cli' = cli
        /\ pc' = pc \/ pc' = "stopping"
    BY <1>6 DEF RunPhase, EndPhase, PhaseRaises, PhaseSteps, PhaseEnds, scheduleVars, controlVars
  <2>2. QED
    BY <2>1
<1>7. CASE UNCHANGED vars
  BY <1>7 DEF vars, controlVars, scheduleVars
<1>8. QED
  BY <1>1, <1>2, <1>3, <1>4, <1>5, <1>6, <1>7 DEF Next, Done

-----------------------------------------------------------------------------
(* What any step does to the answers. *)

\* The scheduler takes a turn: after the boot, on a wake-up, or resumed.
Turning ==
    /\ pc \in {"boot", "wait"} \/ (pc = "paused" /\ resume = "set")
    /\ \E x \in {"none", resume} : Turn(x)

\* A step of run() that nothing broke into.
RunsOn(t) ==
    RunBegins(t) \/ BodyEnds(t, "passing") \/ BodyEnds(t, "failing") \/ RunPassed(t) \/ RunFailed(t)

\* The scheduler's task for p, or the task of client c, takes a step of run().
PhaseRuns(p) ==
    /\ p \in running /\ RunStep(p) /\ UNCHANGED <<cli, ask>>
    /\ RunsOn(p) \/ pc' = "stopping"

\* A client's task takes one, of a phase run by hand.
HandRuns(c) ==
    /\ cli[c] = "busy" /\ ask[c] = "run" /\ RunStep(c) /\ UNCHANGED running
    /\ RunsOn(c) \/ (cancelled' /\ (cancelled \/ "raise" \in Faults))

\* No task that is in run() moves.  A client may enter it, or say what it is
\* going to run.
Beside ==
    /\ UNCHANGED <<spec, state, holder, errors, running>>
    /\ \A p \in Phase : at'[p] = at[p] /\ job'[p] = job[p]
    /\ \A c \in Client :
          /\ at'[c] = at[c] \/ (at[c] = "idle" /\ at'[c] = "drain")
          /\ job'[c] = job[c] \/ (cli[c] = "idle" /\ at'[c] = "idle")

\* Every step of the drive is one of these.
LEMMA StepKinds ==
    ASSUME Known, [Next]_vars
    PROVE  \/ Turning
           \/ \E p \in Phase : PhaseRuns(p)
           \/ \E c \in Client : HandRuns(c)
           \/ Beside
<1>1. CASE Booted \/ ScheduleTurns
  BY <1>1 DEF Booted, ScheduleTurns, Wake, Resumed, Turning
<1>2. CASE BootFails \/ Unwound \/ WriteOutput \/ WriteFails \/ Teardown \/ Close \/ Stop \/ UNCHANGED vars
  BY <1>2 DEF BootFails, Unwound, WriteOutput, WriteFails, Teardown, Close, Stop, Beside, vars, sessionVars,
              scheduleVars
<1>3. ASSUME NEW c \in Client, Request(c) PROVE Beside
  <2>1. PICK op \in Op : Ask(c, op)
    BY <1>3 DEF Request
  <2>2. c \in Task /\ at[c] = "idle"
    BY <2>1 DEF Ask, Task, Known, TasksKnown
  <2>3. \A t \in Task : t # c => job'[t] = job[t]
    BY <2>1 DEF Ask, Known, TypeOK, SessionTypeOK
  <2>4. QED
    BY <1>3, <2>1, <2>2, <2>3, PhaseIsNotClient DEF Request, Ask, Beside, Task, scheduleVars
<1>4. ASSUME NEW c \in Client, Serve(c) PROVE HandRuns(c) \/ Beside
  <2>1. UNCHANGED running
    BY <1>4 DEF Serve, scheduleVars
  <2>2. CASE Handle(c)
    <3>1. c \in Task /\ c \notin Phase /\ at[c] = "idle"
      BY <2>2, PhaseIsNotClient DEF Handle, Task, Known, TasksKnown
    <3>2. at' = at \/ at' = [at EXCEPT ![c] = "drain"]
      BY <2>2 DEF Handle, Enters
    <3>3. /\ \A p \in Phase : at'[p] = at[p]
          /\ \A d \in Client : at'[d] = at[d] \/ (at[d] = "idle" /\ at'[d] = "drain")
      BY <3>1, <3>2 DEF Known, TypeOK, SessionTypeOK, Task
    <3>4. QED
      BY <2>1, <2>2, <3>3 DEF Handle, Beside
  <2>3. CASE ExecEnds(c) \/ Reply(c)
    BY <2>1, <2>3 DEF ExecEnds, Reply, Beside, sessionVars
  <2>4. CASE HandRunSteps(c) \/ HandRunEnds(c)
    BY <2>1, <2>4 DEF HandRunSteps, HandRunEnds, HandRuns, RunStep, RunsOn
  <2>5. QED
    BY <1>4, <2>2, <2>3, <2>4 DEF Serve
<1>5. ASSUME NEW c \in Client, EndClient(c) \/ ClientRaises(c) PROVE HandRuns(c) \/ Beside
  <2>1. UNCHANGED running
    BY <1>5 DEF EndClient, ClientRaises, scheduleVars
  <2>2. CASE UNCHANGED sessionVars
    BY <2>1, <2>2 DEF Beside, sessionVars
  <2>3. at[c] # "idle" => cli[c] = "busy" /\ ask[c] = "run"
    BY DEF Known, TasksKnown
  <2>4. ASSUME EndClient(c), ~ UNCHANGED sessionVars PROVE HandRuns(c)
    <3>1. RunCancelled(c) /\ at[c] # "idle"
      BY <2>4 DEF EndClient, ClientCancelled
    <3>2. cancelled /\ cancelled'
      BY <2>4 DEF EndClient, driveVars
    <3>3. QED
      BY <2>1, <2>3, <3>1, <3>2 DEF HandRuns, RunStep
  <2>5. ASSUME ClientRaises(c), ~ UNCHANGED sessionVars PROVE HandRuns(c)
    <3>1. RunRaises(c) /\ cli[c] = "busy" /\ ask[c] = "run" /\ "raise" \in Faults
      BY <2>5 DEF ClientRaises
    <3>2. cancelled' = TRUE
      BY <2>5 DEF ClientRaises
    <3>3. QED
      BY <2>1, <3>1, <3>2 DEF HandRuns, RunStep
  <2>6. QED
    BY <1>5, <2>2, <2>4, <2>5
<1>6. ASSUME NEW p \in Phase, RunPhase(p) \/ EndPhase(p) \/ PhaseRaises(p) PROVE PhaseRuns(p)
  BY <1>6 DEF RunPhase, EndPhase, PhaseRaises, PhaseSteps, PhaseEnds, PhaseRuns, RunStep, RunsOn,
              controlVars
<1>7. QED
  BY <1>1, <1>2, <1>3, <1>4, <1>5, <1>6 DEF Next, Done

-----------------------------------------------------------------------------
(* What was written stays true. *)

\* Evidence that was written says what the session says.
EvidenceStands ==
    evidence # NoEvidence =>
       /\ pc \in {"teardown", "closing", "over"}
       /\ evidence.phases = state /\ evidence.errors = errors

\* Every action keeps that: once it is written nobody is at work, so what the
\* session says does not change.
LEMMA EvidenceStandsStep ==
    ASSUME OneClient, "stop" \notin Faults, Known, QuietEnd, EvidenceStands, [Next]_vars
    PROVE  EvidenceStands'
<1> USE DEF EvidenceStands
<1>1. CASE WriteOutput
  BY <1>1 DEF WriteOutput, sessionVars
<1>2. ASSUME ~ WriteOutput, evidence # NoEvidence PROVE UNCHANGED <<state, errors>>
  <2>1. running = {} /\ \A c \in Client : cli[c] # "busy"
    BY <1>2 DEF QuietEnd, Ended
  <2>2. ~ Turning
    BY <1>2 DEF Turning
  <2>3. QED
    BY <2>1, <2>2, StepKinds DEF PhaseRuns, HandRuns, Beside
<1>3. ASSUME ~ WriteOutput PROVE evidence' = evidence
  <2>1. ASSUME NEW c \in Client, Request(c) \/ Serve(c) \/ EndClient(c) \/ ClientRaises(c) PROVE evidence' = evidence
    BY <2>1 DEF Request, Serve, EndClient, ClientRaises, driveVars
  <2>2. ASSUME NEW p \in Phase, RunPhase(p) \/ EndPhase(p) \/ PhaseRaises(p) PROVE evidence' = evidence
    BY <2>2 DEF RunPhase, EndPhase, PhaseRaises, driveVars
  <2>3. QED
    BY <1>3, <2>1, <2>2 DEF Next, Done, vars, driveVars, Booted, BootFails, Unwound, WriteFails, Teardown, Close,
                            ScheduleTurns, Stop
<1>4. ASSUME pc \in {"teardown", "closing", "over"} PROVE pc' \in {"teardown", "closing", "over"}
  <2>1. running = {}
    BY <1>4 DEF QuietEnd, Ended
  <2>2. ASSUME NEW c \in Client, Request(c) \/ Serve(c) \/ EndClient(c) \/ ClientRaises(c)
        PROVE  pc' \in {"teardown", "closing", "over"}
    BY <1>4, <2>2 DEF Request, Serve, EndClient, ClientRaises, Interrupt, scheduleVars
  <2>3. ASSUME NEW p \in Phase, RunPhase(p) \/ EndPhase(p) \/ PhaseRaises(p) PROVE FALSE
    BY <2>1, <2>3 DEF RunPhase, EndPhase, PhaseRaises, PhaseSteps, PhaseEnds
  <2>4. QED
    BY <1>4, <2>2, <2>3 DEF Next, Done, vars, scheduleVars, Booted, BootFails, Unwound, WriteOutput, WriteFails,
                            Teardown, Close, ScheduleTurns, Wake, Resumed, Stop, Interrupt
<1>5. QED
  BY <1>1, <1>2, <1>3, <1>4

\* What phases.json says is how the run ended (write_output, session.py), with
\* one client and no ^C: a late reply, a client that goes away and a write that
\* fails included.  A ^C at a pause may find a phase run by hand on its way.
THEOREM EvidenceIsFinal == ASSUME OneClient, "stop" \notin Faults PROVE Spec => []EvidenceFinal
<1> DEFINE IInv == Known /\ Resting /\ HandsOff /\ QuietEnd /\ EvidenceStands
<1>1. Init => IInv
  BY KnownInit DEF Init, ScheduleInit, ControlInit, HandsOff, Resting, QuietEnd, Ended, EvidenceStands
<1>2. IInv /\ [Next]_vars => IInv'
  BY KnownStep, RestingStep, HandsOffStep, QuietEndStep, EvidenceStandsStep
<1>3. IInv => EvidenceFinal
  BY DEF EvidenceStands, EvidenceFinal
<1>4. QED
  BY <1>1, <1>2, <1>3, PTL DEF Spec

-----------------------------------------------------------------------------
(* A pause ends when its `continue' is answered. *)

\* A drive that was cancelled takes no more turns.
CancelEnds == cancelled => pc \notin {"boot", "wait", "paused"}

\* Every action keeps that.
LEMMA CancelEndsStep == Known /\ Resting /\ CancelEnds /\ [Next]_vars => CancelEnds'
<1> SUFFICES ASSUME Known, Resting, CancelEnds, [Next]_vars PROVE CancelEnds'
  OBVIOUS
<1> USE DEF CancelEnds
<1>1. CASE Booted \/ ScheduleTurns
  BY <1>1 DEF Booted, ScheduleTurns, Wake, Resumed, driveVars
<1>2. CASE BootFails \/ Unwound \/ WriteOutput \/ WriteFails \/ Teardown \/ Close
  BY <1>2 DEF BootFails, Unwound, WriteOutput, WriteFails, Teardown, Close, driveVars
<1>3. CASE Stop
  BY <1>3 DEF Stop, Interrupt
<1>4. ASSUME NEW c \in Client, Request(c) \/ Serve(c) \/ EndClient(c) PROVE CancelEnds'
  BY <1>4 DEF Request, Serve, EndClient, scheduleVars, driveVars
<1>5. ASSUME NEW c \in Client, ClientRaises(c) PROVE CancelEnds'
  BY <1>5 DEF ClientRaises, Interrupt, Known, TypeOK, Places
<1>6. ASSUME NEW p \in Phase, RunPhase(p) \/ EndPhase(p) \/ PhaseRaises(p) PROVE CancelEnds'
  BY <1>6 DEF RunPhase, EndPhase, PhaseRaises, PhaseSteps, PhaseEnds, scheduleVars, driveVars
<1>7. CASE UNCHANGED vars
  BY <1>7 DEF vars, scheduleVars, driveVars
<1>8. QED
  BY <1>1, <1>2, <1>3, <1>4, <1>5, <1>6, <1>7 DEF Next, Done

\* A `continue' that has been accepted is still to be answered, and once the
\* drive is on its way none is remembered.
ContinueHeld ==
    /\ continuing /\ resume = "waiting" =>
          \E c \in Client : ask[c] = "continue" /\ cli[c] = "reply"
    /\ pc \in {"boot", "wait"} \/ resume = "set" => ~ continuing

\* Every action keeps that, with one client: whoever is answered next is the
\* one that said it.
LEMMA ContinueHeldStep ==
    ASSUME OneClient, Known, HandsOff, CancelEnds, ContinueHeld, [Next]_vars
    PROVE  ContinueHeld'
<1> USE DEF ContinueHeld
<1>1. CASE Booted \/ ScheduleTurns
  BY <1>1 DEF Booted, ScheduleTurns, Wake, Resumed, Turn, BeginPause, HoldBack, Launch
<1>2. CASE BootFails \/ Unwound \/ WriteOutput \/ WriteFails \/ Teardown \/ Close
  BY <1>2 DEF BootFails, Unwound, WriteOutput, WriteFails, Teardown, Close, controlVars
<1>3. CASE Stop
  BY <1>3 DEF Stop, Interrupt
<1>4. ASSUME NEW c \in Client, Request(c) PROVE ContinueHeld'
  <2>1. UNCHANGED <<pc, resume, continuing>>
    BY <1>4 DEF Request, Ask, scheduleVars
  <2>2. \A d \in Client : cli[d] = "reply" => cli'[d] = "reply" /\ ask'[d] = ask[d]
    BY <1>4 DEF Request, Ask, Known, TypeOK, ControlTypeOK
  <2>3. QED
    BY <2>1, <2>2
<1>5. ASSUME NEW c \in Client, Serve(c) PROVE ContinueHeld'
  <2>0. UNCHANGED pc /\ UNCHANGED ask
    BY <1>5 DEF Serve, Handle, ExecEnds, HandRunSteps, HandRunEnds, Reply, controlVars, scheduleVars
  <2>1. CASE Handle(c)
    <3>1. \A d \in Client : cli[d] = "reply" => cli'[d] = "reply"
      BY <2>1 DEF Handle, Known, TypeOK, ControlTypeOK
    <3>2. CASE UNCHANGED continuing
      BY <2>0, <2>1, <3>1, <3>2 DEF Handle
    <3>3. CASE continuing' = TRUE /\ ask[c] = "continue" /\ cli' = [cli EXCEPT ![c] = "reply"] /\ Paused
      <4>1. cli'[c] = "reply"
        BY <3>3 DEF Known, TypeOK, ControlTypeOK
      <4>2. resume' # "set" /\ pc' \notin {"boot", "wait"}
        BY <2>0, <2>1, <3>3 DEF Handle, HandsOff, Paused
      <4>3. QED
        BY <2>0, <3>3, <4>1, <4>2
    <3>4. QED
      BY <2>1, <3>2, <3>3 DEF Handle
  <2>2. CASE ExecEnds(c) \/ HandRunSteps(c) \/ HandRunEnds(c)
    <3>1. UNCHANGED <<resume, continuing>>
      BY <2>2 DEF ExecEnds, HandRunSteps, HandRunEnds, controlVars
    <3>2. \A d \in Client : cli[d] = "reply" => cli'[d] = "reply"
      BY <2>2 DEF ExecEnds, HandRunSteps, HandRunEnds, controlVars, Known, TypeOK, ControlTypeOK
    <3>3. QED
      BY <2>0, <3>1, <3>2
  <2>3. CASE Reply(c)
    <3>1. resume # "set"
      BY <2>3 DEF Reply, HandsOff
    <3>2. CASE continuing /\ Paused
      BY <2>3, <3>2 DEF Reply
    <3>3. CASE ~ (continuing /\ Paused)
      <4>1. UNCHANGED <<continuing, resume>>
        BY <2>3, <3>3 DEF Reply
      <4>2. QED
        BY <2>0, <3>3, <4>1 DEF Paused
    <3>4. QED
      BY <3>2, <3>3
  <2>4. QED
    BY <1>5, <2>1, <2>2, <2>3 DEF Serve
<1>6. ASSUME NEW c \in Client, EndClient(c) PROVE ContinueHeld'
  BY <1>6 DEF EndClient, ClientCancelled, scheduleVars, CancelEnds, HandsOff
<1>7. ASSUME NEW c \in Client, ClientRaises(c) PROVE ContinueHeld'
  BY <1>7 DEF ClientRaises, Interrupt, HandsOff
<1>8. ASSUME NEW p \in Phase, RunPhase(p) \/ EndPhase(p) \/ PhaseRaises(p) PROVE ContinueHeld'
  BY <1>8 DEF RunPhase, EndPhase, PhaseRaises, PhaseSteps, PhaseEnds, controlVars, scheduleVars
<1>9. CASE UNCHANGED vars
  BY <1>9 DEF vars, controlVars, scheduleVars
<1>10. QED
  BY <1>1, <1>2, <1>3, <1>4, <1>5, <1>6, <1>7, <1>8, <1>9 DEF Next, Done

\* Only a reply sets the event of a pause.
LEMMA ResumedByReply ==
    ASSUME [Next]_vars, resume = "waiting", resume' = "set"
    PROVE  continuing
<1>1. ASSUME NEW c \in Client, Request(c) \/ Serve(c) \/ EndClient(c) \/ ClientRaises(c)
      PROVE  continuing
  BY <1>1 DEF Request, Serve, EndClient, ClientRaises, Interrupt, Ask, Handle, ExecEnds, HandRunSteps,
              HandRunEnds, Reply, ClientCancelled, controlVars
<1>2. ASSUME NEW p \in Phase, RunPhase(p) \/ EndPhase(p) \/ PhaseRaises(p) PROVE FALSE
  BY <1>2 DEF RunPhase, EndPhase, PhaseRaises, PhaseSteps, PhaseEnds, controlVars
<1>3. CASE Booted \/ ScheduleTurns
  BY <1>3 DEF Booted, ScheduleTurns, Wake, Resumed, Turn, BeginPause
<1>4. CASE BootFails \/ Unwound \/ WriteOutput \/ WriteFails \/ Teardown \/ Close \/ Stop \/ UNCHANGED vars
  BY <1>4 DEF BootFails, Unwound, WriteOutput, WriteFails, Teardown, Close, Stop, Interrupt, vars, controlVars
<1>5. QED
  BY <1>1, <1>2, <1>3, <1>4 DEF Next, Done

\* With one client a pause ends only by the reply to a `continue' of that very
\* pause (control.py:265), never by another request's.
THEOREM ContinueResumes == ASSUME OneClient PROVE Spec => OnlyContinueResumes
<1> DEFINE IInv == Known /\ Resting /\ HandsOff /\ CancelEnds /\ ContinueHeld
<1>1. Init => IInv
  BY KnownInit DEF Init, ScheduleInit, ControlInit, HandsOff, Resting, CancelEnds, ContinueHeld
<1>2. IInv /\ [Next]_vars => IInv'
  BY KnownStep, RestingStep, HandsOffStep, CancelEndsStep, ContinueHeldStep
<1> DEFINE Answers == resume = "waiting" /\ resume' = "set" =>
                        \E c \in Client : ask[c] = "continue" /\ cli[c] = "reply"
<1>3. IInv /\ [Next]_vars => [Answers]_vars
  BY ResumedByReply DEF ContinueHeld
<1>4. QED
  BY <1>1, <1>2, <1>3, PTL DEF Spec, OnlyContinueResumes

-----------------------------------------------------------------------------
(* Pauses come before what they are asked for. *)

\* A phase the scheduler started has not failed.
NotFailedYet == \A p \in Phase : at[p] # "idle" => state[p] # "failed"

\* What a turn starts is a candidate, and nothing else of the session moves.
LEMMA TurnStarts ==
    ASSUME Known, Turning
    PROVE  \E todo \in SUBSET Candidates :
              /\ todo # {} => Launch /\ Chosen(todo)
              /\ running' = running \cup todo
              /\ at' = [t \in Task |-> IF t \in todo THEN "drain" ELSE at[t]]
              /\ UNCHANGED <<spec, state, holder, errors, job, cli, ask, options>>
<1>1. PICK x : Turn(x)
  BY DEF Turning
<1>2. UNCHANGED <<spec, state, holder, errors, job, cli, ask, options>>
  BY <1>1 DEF Turn
<1>3. CASE Launch
  BY <1>2, <1>3 DEF Launch
<1>4. CASE BeginPause \/ HoldBack
  <2>1. running' = running /\ at' = at
    BY <1>4 DEF BeginPause, HoldBack
  <2>2. at = [t \in Task |-> at[t]]
    BY DEF Known, TypeOK, SessionTypeOK
  <2>3. at' = [t \in Task |-> IF t \in {} THEN "drain" ELSE at[t]]
    BY <2>1, <2>2
  <2>4. WITNESS {} \in SUBSET Candidates
  <2>5. QED
    BY <1>2, <2>1, <2>3
<1>5. QED
  BY <1>1, <1>3, <1>4 DEF Turn

\* The scheduler's task for p is in run(); every other task stays where it is.
LEMMA PhaseMoves ==
    ASSUME Known, NEW p \in Phase, PhaseRuns(p)
    PROVE  /\ at[p] # "idle" /\ job[p] = p /\ p \in Task
           /\ SessionTypeOK' /\ spec' = spec /\ job' = job
           /\ \A u \in Task : u # p => at'[u] = at[u]
BY RunStepTypes DEF PhaseRuns, Known, TypeOK, JobsKnown, Task

\* The same of the task of a client.
LEMMA HandMoves ==
    ASSUME Known, NEW c \in Client, HandRuns(c)
    PROVE  /\ at[c] # "idle" /\ job[c] \in Phase /\ c \in Task /\ c \notin Phase
           /\ SessionTypeOK' /\ spec' = spec /\ job' = job
           /\ \A u \in Task : u # c => at'[u] = at[u]
BY RunStepTypes, PhaseIsNotClient DEF HandRuns, Known, TypeOK, JobsKnown, Task

\* Every action keeps that: a phase that fails leaves run() in the same step.
LEMMA NotFailedYetStep ==
    ASSUME Known, HandsOff, NotFailedYet, [Next]_vars
    PROVE  NotFailedYet'
<1> USE DEF NotFailedYet
<1>1. CASE Turning
  <2>1. PICK todo \in SUBSET Candidates :
           /\ at' = [t \in Task |-> IF t \in todo THEN "drain" ELSE at[t]]
           /\ UNCHANGED state
    BY <1>1, TurnStarts
  <2>2. \A p \in todo : state[p] = "pending"
    BY DEF Candidates, Ready, Runnable
  <2>3. QED
    BY <2>1, <2>2 DEF Task
<1>2. ASSUME NEW p \in Phase, PhaseRuns(p) PROVE NotFailedYet'
  <2>1. /\ job[p] = p
        /\ \A q \in Phase : q # p => at'[q] = at[q]
    BY <1>2, PhaseMoves DEF Task
  <2>2. \A q \in Phase : q # p => state'[q] \in {state[q], "skipped"}
    BY <1>2, <2>1 DEF PhaseRuns, RunStep, RunBegins, BodyEnds, RunPassed, RunFailed, RunCancelled, RunRaises,
                      Known, TypeOK, SessionTypeOK
  <2>3. at'[p] # "idle" => state'[p] \in {state[p], "running"}
    BY <1>2, <2>1 DEF PhaseRuns, RunStep, RunBegins, BodyEnds, RunPassed, RunFailed, RunCancelled, RunRaises,
                      Leave, Known, TypeOK, SessionTypeOK, Task
  <2>4. at[p] # "idle"
    BY <1>2, PhaseMoves
  <2>5. QED
    BY <2>1, <2>2, <2>3, <2>4
<1>3. ASSUME NEW c \in Client, HandRuns(c) PROVE NotFailedYet'
  <2>1. running = {}
    BY <1>3 DEF HandRuns, HandsOff
  <2>2. \A p \in Phase : at'[p] = at[p]
    BY <1>3, HandMoves DEF Task
  <2>3. QED
    BY <2>1, <2>2 DEF Known, TasksKnown
<1>4. CASE Beside
  BY <1>4 DEF Beside
<1>5. QED
  BY <1>1, <1>2, <1>3, <1>4, StepKinds

\* Only a turn that launches starts a phase, and it starts a candidate.
LEMMA StartedByLaunch ==
    ASSUME Known, [Next]_vars, NEW p \in Phase, Started(p)
    PROVE  \E todo \in SUBSET Candidates :
              /\ Launch /\ Chosen(todo) /\ p \in todo
              /\ running' = running \cup todo
              /\ at' = [t \in Task |-> IF t \in todo THEN "drain" ELSE at[t]]
              /\ Turning
<1>1. Turning
  <2>1. ASSUME NEW q \in Phase, PhaseRuns(q) PROVE FALSE
    BY <2>1, PhaseMoves DEF Started, Task
  <2>2. ASSUME NEW c \in Client, HandRuns(c) PROVE FALSE
    BY <2>2, HandMoves DEF Started, Task
  <2>3. ~ Beside
    BY DEF Beside, Started
  <2>4. QED
    BY <2>1, <2>2, <2>3, StepKinds
<1>2. QED
  BY <1>1, TurnStarts DEF Started, Task

\* With one client, and any faults, no phase starts before the pause asked for
\* before it, nor after a failure that has not been paused for (_schedule,
\* cli.py).
THEOREM PausesComeFirst == ASSUME OneClient PROVE Spec => PausesFirst
<1> DEFINE IInv == Known /\ HandsOff /\ NotFailedYet
<1>1. Init => IInv
  BY KnownInit DEF Init, SessionInit, ScheduleInit, ControlInit, HandsOff, NotFailedYet, Task
<1>2. IInv /\ [Next]_vars => IInv'
  BY KnownStep, HandsOffStep, NotFailedYetStep
<1> DEFINE PausedFor(p) ==
       /\ p \in Breaks => p \in pausedBefore
       /\ BreakOnFailure => \A f \in Phase : state[f] = "failed" => at'[f] = "idle" /\ f \notin failed
<1>3. ASSUME IInv, [Next]_vars, NEW p \in Phase, Started(p) PROVE PausedFor(p)
  <2>1. PICK todo \in SUBSET Candidates :
           /\ Launch /\ p \in todo
           /\ at' = [t \in Task |-> IF t \in todo THEN "drain" ELSE at[t]]
    BY <1>3, StartedByLaunch
  <2>2. ~ StopsAfterFailure /\ Stops = {}
    BY <2>1 DEF Launch, Reason
  <2>3. p \in Breaks => p \in pausedBefore
    BY <2>1, <2>2 DEF Stops, Controlled
  <2>4. ASSUME NEW f \in Phase, state[f] = "failed" PROVE at'[f] = "idle"
    <3>1. f \notin todo
      BY <2>4 DEF Candidates, Ready, Runnable
    <3>2. QED
      BY <1>3, <2>1, <2>4, <3>1 DEF NotFailedYet, Task
  <2>5. QED
    BY <2>2, <2>3, <2>4 DEF StopsAfterFailure
<1>4. IInv /\ [Next]_vars => [\A p \in Phase : Started(p) => PausedFor(p)]_vars
  BY <1>3
<1>5. QED
  BY <1>1, <1>2, <1>4, PTL DEF Spec, PausesFirst

-----------------------------------------------------------------------------
(* A guest is held by the phase that runs on it. *)

\* The scheduler is never told to stop when nobody interrupts it and nothing
\* it awaits raises.
NeverStopping == Faults \cap {"stop", "gone", "raise"} = {} => pc # "stopping"

\* Every action keeps that.
LEMMA NeverStoppingStep == NeverStopping /\ [Next]_vars => NeverStopping'
<1> SUFFICES ASSUME Faults \cap {"stop", "gone", "raise"} = {}, pc # "stopping", [Next]_vars
             PROVE  pc' # "stopping"
  BY DEF NeverStopping
<1>1. ASSUME NEW c \in Client, Request(c) \/ Serve(c) \/ EndClient(c) \/ ClientRaises(c) PROVE pc' # "stopping"
  BY <1>1 DEF Request, Serve, EndClient, ClientRaises, scheduleVars
<1>2. ASSUME NEW p \in Phase, RunPhase(p) \/ EndPhase(p) \/ PhaseRaises(p) PROVE pc' # "stopping"
  BY <1>2 DEF RunPhase, EndPhase, PhaseRaises, PhaseSteps, PhaseEnds, scheduleVars
<1>3. CASE Booted \/ ScheduleTurns
  BY <1>3 DEF Booted, ScheduleTurns, Wake, Resumed, Turn, BeginPause, HoldBack, Launch
<1>4. CASE BootFails \/ Unwound \/ WriteOutput \/ WriteFails \/ Teardown \/ Close \/ UNCHANGED vars
  BY <1>4 DEF BootFails, Unwound, WriteOutput, WriteFails, Teardown, Close, vars, scheduleVars
<1>5. CASE Stop
  BY <1>5 DEF Stop, Interrupt
<1>6. QED
  BY <1>1, <1>2, <1>3, <1>4, <1>5 DEF Next, Done

\* A phase that is on its guests holds them.
Holds == \A t \in Task : InRun(t) => \A g \in NodesOf(job[t]) : holder[g] = job[t]

\* What is held is held by a phase that is on its guests.
Held ==
    \A g \in Guest : holder[g] # NoPhase =>
       \E t \in Task : InRun(t) /\ job[t] = holder[g] /\ g \in NodesOf(job[t])

\* The guests run() marks are among those the phase claims.
LEMMA NodesAreClaimed ==
    ASSUME SessionTypeOK, NEW p \in Phase
    PROVE  NodesOf(p) \subseteq Claims(spec, p)
BY DEF SessionTypeOK, PhaseSpec, NodesOf, Claims

\* Tasks that are in run() mark different guests.
LEMMA MarkedApart ==
    ASSUME Known, GuestExclusive, NEW t \in Task, NEW u \in Task, t # u,
           at[t] # "idle", at[u] # "idle"
    PROVE  /\ job[t] \in Phase /\ job[u] \in Phase
           /\ NodesOf(job[t]) \cap NodesOf(job[u]) = {}
<1>1. job[t] \in Phase /\ job[u] \in Phase
  BY DEF Known, JobsKnown, TasksKnown, Task
<1>2. Claims(spec, job[t]) \cap Claims(spec, job[u]) = {}
  BY DEF GuestExclusive, Uses
<1>3. QED
  BY <1>1, <1>2, NodesAreClaimed DEF Known, TypeOK

\* A step of run() keeps both: the guests it marks or gives back are nobody
\* else's.
LEMMA RunStepHolds ==
    ASSUME Known, GuestExclusive, Holds, NEW t \in Task, job[t] \in Phase, at[t] # "idle", RunStep(t),
           SessionTypeOK', job' = job, spec' = spec, \A u \in Task : u # t => at'[u] = at[u]
    PROVE  /\ Holds'
           /\ RunsOn(t) /\ Held => Held'
<1>1. \A p : NodesOf(p)' = NodesOf(p)
  BY DEF NodesOf
<1>2. holder \in [Guest -> Phase \cup {NoPhase}] /\ at \in [Task -> Stage] /\ job[t] # NoPhase
  <2>1. NoPhase \notin Phase
    BY NumPhasesAssumption DEF Phase, NoPhase
  <2>2. QED
    BY <2>1 DEF Known, TypeOK, SessionTypeOK
<1>3. \A u \in Task : u # t /\ at[u] # "idle" => NodesOf(job[t]) \cap NodesOf(job[u]) = {}
  BY MarkedApart
<1>4. \/ /\ RunBegins(t) /\ at[t] = "drain" /\ at'[t] = "body"
         /\ \A g \in Guest : holder'[g] = IF g \in NodesOf(job[t]) THEN job[t] ELSE holder[g]
      \/ /\ at[t] = "body" /\ at'[t] \in {"passing", "failing"} /\ holder' = holder
      \/ /\ at'[t] = "idle"
         /\ \A g \in Guest : holder'[g] = IF g \in NodesOf(job[t]) THEN NoPhase ELSE holder[g]
      \/ at'[t] = "idle" /\ holder' = holder /\ ~ RunsOn(t)
  <2> USE <1>2
  <2>1. CASE RunBegins(t)
    BY <2>1 DEF RunBegins
  <2>2. CASE BodyEnds(t, "passing") \/ BodyEnds(t, "failing")
    BY <2>2 DEF BodyEnds
  <2>3. CASE RunPassed(t) \/ RunFailed(t)
    BY <2>3 DEF RunPassed, RunFailed, Leave, Release
  <2>4. CASE RunCancelled(t) \/ RunRaises(t)
    BY <2>4 DEF RunCancelled, RunRaises, Leave, Release, RunsOn, RunBegins, BodyEnds, RunPassed, RunFailed, Stage
  <2>5. QED
    BY <2>1, <2>2, <2>3, <2>4 DEF RunStep
<1>5. \A u \in Task : u # t => (InRun(u)' <=> InRun(u))
  BY DEF InRun
<1>6. \A p \in Phase : NodesOf(p) \subseteq Guest
  BY DEF NodesOf, Known, TypeOK, SessionTypeOK, PhaseSpec
<1>7. \A u \in Task : at[u] # "idle" => job[u] \in Phase
  BY DEF Known, JobsKnown, TasksKnown, Task
<1>8. Holds'
  <2>1. SUFFICES ASSUME NEW u \in Task, InRun(u)', NEW g \in NodesOf(job[u]) PROVE holder'[g] = job[u]
    BY <1>1 DEF Holds
  <2>2. CASE u = t
    BY <1>4, <1>6, <2>1, <2>2 DEF InRun, Holds
  <2>3. CASE u # t
    <3>1. at[u] # "idle" /\ holder[g] = job[u]
      BY <1>5, <2>1, <2>3 DEF Holds, InRun
    <3>2. g \in Guest /\ g \notin NodesOf(job[t])
      BY <1>3, <1>6, <1>7, <2>1, <2>3, <3>1
    <3>3. QED
      BY <1>4, <3>1, <3>2
  <2>4. QED
    BY <2>2, <2>3
<1>9. ASSUME RunsOn(t), Held PROVE Held'
  <2>1. SUFFICES ASSUME NEW g \in Guest, holder'[g] # NoPhase
                 PROVE  \E u \in Task : InRun(u)' /\ job[u] = holder'[g] /\ g \in NodesOf(job[u])
    BY <1>1 DEF Held
  <2>2. CASE InRun(t)' /\ g \in NodesOf(job[t])
    BY <1>8, <1>1, <2>2 DEF Holds
  <2>3. CASE ~ (InRun(t)' /\ g \in NodesOf(job[t]))
    <3>1. holder[g] = holder'[g]
      BY <1>4, <1>9, <2>1, <2>3 DEF InRun
    <3>2. PICK u \in Task : InRun(u) /\ job[u] = holder[g] /\ g \in NodesOf(job[u])
      BY <2>1, <3>1, <1>9 DEF Held
    <3>3. u # t
      BY <1>4, <1>9, <2>1, <2>3, <3>2 DEF InRun
    <3>4. QED
      BY <1>5, <3>1, <3>2, <3>3
  <2>4. QED
    BY <2>2, <2>3
<1>10. QED
  BY <1>8, <1>9

\* Neither a turn nor a step beside run() disturbs who is in it.
LEMMA InRunUndisturbed ==
    ASSUME Known, Beside \/ Turning
    PROVE  /\ UNCHANGED <<spec, state, holder, errors>>
           /\ \A t \in Task : (InRun(t)' <=> InRun(t)) /\ (InRun(t) => job'[t] = job[t])
<1>1. CASE Beside
  <2>1. \A c \in Client : (InRun(c)' <=> InRun(c)) /\ (InRun(c) => job'[c] = job[c])
    BY <1>1 DEF Beside, InRun
  <2>2. \A p \in Phase : (InRun(p)' <=> InRun(p)) /\ job'[p] = job[p]
    BY <1>1 DEF Beside, InRun
  <2>3. QED
    BY <1>1, <2>1, <2>2 DEF Beside, Task
<1>2. CASE Turning
  <2>1. PICK todo \in SUBSET Candidates :
           /\ at' = [t \in Task |-> IF t \in todo THEN "drain" ELSE at[t]]
           /\ UNCHANGED <<spec, state, holder, errors, job>>
           /\ todo # {} => Launch
    BY <1>2, TurnStarts
  <2>2. \A t \in todo : t \in Phase /\ t \notin running
    BY DEF Candidates, Ready, Runnable
  <2>3. \A t \in todo : at[t] = "idle"
    BY <2>2 DEF Known, TasksKnown
  <2>4. QED
    BY <2>1, <2>3 DEF InRun
<1>3. QED
  BY <1>1, <1>2

\* So it keeps both.
LEMMA BesideHolds ==
    ASSUME Known, Beside \/ Turning
    PROVE  (Holds => Holds') /\ (Held => Held')
<1>1. /\ UNCHANGED <<spec, holder>>
      /\ \A t \in Task : (InRun(t)' <=> InRun(t)) /\ (InRun(t) => job'[t] = job[t])
  BY InRunUndisturbed
<1>2. \A p : NodesOf(p)' = NodesOf(p)
  BY <1>1 DEF NodesOf
<1>3. QED
  BY <1>1, <1>2 DEF Holds, Held

\* Every action keeps the first half.
LEMMA HoldsStep ==
    ASSUME Known, GuestExclusive, Holds, [Next]_vars
    PROVE  Holds'
<1>1. ASSUME NEW p \in Phase, PhaseRuns(p) PROVE Holds'
  BY <1>1, PhaseMoves, RunStepHolds DEF PhaseRuns
<1>2. ASSUME NEW c \in Client, HandRuns(c) PROVE Holds'
  BY <1>2, HandMoves, RunStepHolds DEF HandRuns
<1>3. QED
  BY <1>1, <1>2, BesideHolds, StepKinds

\* Every action keeps the second: without a cancel or an error run() is left
\* only by its two ends that release.
LEMMA HeldStep ==
    ASSUME Faults \cap {"stop", "gone", "raise"} = {}, Known, GuestExclusive, QuietEnd, CancelEnds,
           NeverStopping, NeverStopping', Holds, Held, [Next]_vars
    PROVE  Held'
<1>1. ASSUME NEW p \in Phase, PhaseRuns(p) PROVE Held'
  <2>1. RunsOn(p)
    BY <1>1 DEF PhaseRuns, NeverStopping
  <2>2. QED
    BY <1>1, <2>1, PhaseMoves, RunStepHolds DEF PhaseRuns
<1>2. ASSUME NEW c \in Client, HandRuns(c) PROVE Held'
  <2>1. pc \in {"boot", "wait", "paused"}
    BY <1>2 DEF HandRuns, QuietEnd, Ended, NeverStopping, Known, TypeOK, Places
  <2>2. RunsOn(c)
    BY <1>2, <2>1 DEF HandRuns, CancelEnds
  <2>3. QED
    BY <1>2, <2>2, HandMoves, RunStepHolds DEF HandRuns
<1>3. QED
  BY <1>1, <1>2, BesideHolds, StepKinds

\* Whatever a person does at a pause, and however boot, the writing and a late
\* ^C go: a guest is held by exactly the phase that is on it (session.running),
\* so what it says is told as that phase's.
THEOREM GuestsAttributed ==
    ASSUME OneClient, Faults \cap {"stop", "gone", "raise"} = {}
    PROVE  Spec => []Attribution
<1> DEFINE IInv ==
       /\ Known /\ Resting /\ RunningApart /\ HandsOff /\ QuietEnd /\ CancelEnds /\ NeverStopping
       /\ Holds /\ Held
<1>1. Init => IInv
  <2> SUFFICES ASSUME Init PROVE IInv
    OBVIOUS
  <2>1. \A t \in Task : at[t] = "idle"
    BY DEF Init, SessionInit
  <2>2. Holds /\ Held
    BY <2>1 DEF Holds, Held, InRun, Init, SessionInit
  <2>3. QED
    BY <2>2, KnownInit DEF Init, ScheduleInit, ControlInit, HandsOff, Resting, QuietEnd, Ended, RunningApart,
                           CancelEnds, NeverStopping
<1>2. IInv /\ [Next]_vars => IInv'
  <2> SUFFICES ASSUME IInv, [Next]_vars PROVE IInv'
    OBVIOUS
  <2>1. GuestExclusive
    BY InvExcludes
  <2>2. /\ Known' /\ Resting' /\ RunningApart' /\ HandsOff' /\ CancelEnds' /\ NeverStopping'
    BY KnownStep, RestingStep, ApartStep, HandsOffStep, CancelEndsStep, NeverStoppingStep
  <2>3. QuietEnd'
    BY QuietEndStep
  <2>4. Holds' /\ Held'
    BY <2>1, <2>2, HoldsStep, HeldStep
  <2>5. QED
    BY <2>2, <2>3, <2>4
<1>3. IInv => Attribution
  BY DEF Holds, Held, Attribution
<1>4. QED
  BY <1>1, <1>2, <1>3, PTL DEF Spec

\* ... and the first half of it holds whatever is interrupted or raises.
THEOREM RunningPhasesHold == ASSUME OneClient PROVE Spec => []Holds
<1> DEFINE IInv == Known /\ RunningApart /\ HandsOff /\ Holds
<1>1. Init => IInv
  BY KnownInit DEF Init, SessionInit, ScheduleInit, ControlInit, RunningApart, HandsOff, Holds, InRun
<1>2. IInv /\ [Next]_vars => IInv'
  BY KnownStep, ApartStep, HandsOffStep, InvExcludes, HoldsStep
<1>3. QED
  BY <1>1, <1>2, PTL DEF Spec
=============================================================================
