------------------------------ MODULE Schedule ------------------------------
(***************************************************************************)
(* _schedule (pkgs/uml/uml/cli.py): start every phase that may start, and  *)
(* again each time one ends; stop at a breakpoint or after a failure.      *)
(*                                                                         *)
(* The loop has two awaits, `changed.wait()' and `control.pause()'.  What  *)
(* it does between one and the next is the operator Turn, which is part of *)
(* the step that gets it there.                                            *)
(***************************************************************************)
EXTENDS Control

CONSTANT Options    \* the command lines to run with: each one a choice of Init

ASSUME OptionsAssumption ==
    Options \subseteq [breaks : SUBSET Phase, onFailure : BOOLEAN, serial : BOOLEAN]

VARIABLES options,          \* the command line: never changes
          pc,               \* where drive() is: see Drive
          running,          \* the phases whose task the scheduler started
          failed,           \* those that failed since the last pause
          pausedBefore,     \* the breakpoints already honoured
          changed           \* a task ended since the scheduler last looked

scheduleVars == <<options, pc, running, failed, pausedBefore, changed>>

Breaks == options.breaks                \* --break: pause before each of these
BreakOnFailure == options.onFailure     \* --break-on-failure
Serial == options.serial                \* --serial

\* `control is not None': a Controller exists only for a breakpoint.
Controlled == Breaks # {} \/ BreakOnFailure

ScheduleTypeOK ==
    /\ options \in Options
    /\ running \subseteq Phase
    /\ failed \subseteq Phase
    /\ pausedBefore \subseteq Phase
    /\ changed \in BOOLEAN

ScheduleInit ==
    /\ options \in Options
    /\ running = {}
    /\ failed = {}
    /\ pausedBefore = {}
    /\ changed = FALSE

First(S) == {p \in S : \A q \in S : p <= q}

-----------------------------------------------------------------------------

Candidates == Ready(spec, state) \ running

\* The candidates with a breakpoint not yet honoured.
Stops == IF Controlled THEN Candidates \cap (Breaks \ pausedBefore) ELSE {}

StopsAfterFailure == BreakOnFailure /\ failed # {}

\* Seeded bug: a breakpoint met while phases run is not a reason.
ReasonAtRest == running = {} /\ (StopsAfterFailure \/ Stops # {})

\* There is a reason to pause.
Reason == StopsAfterFailure \/ Stops # {}

\* Seeded bug: the drive pauses without waiting for quiet.
BeginPauseAtOnce ==
    /\ Reason
    /\ pausedBefore' = IF StopsAfterFailure THEN pausedBefore
                       ELSE pausedBefore \cup First(Stops)
    /\ failed' = {}
    /\ resume' = "waiting"
    /\ pc' = "paused"
    /\ UNCHANGED <<running, at, ahead>>

\* control.pause() up to its await.  A pause before a phase is before the
\* first that has one; a pause after a failure honours no breakpoint.
BeginPause ==
    /\ Reason /\ running = {}
    /\ pausedBefore' = IF StopsAfterFailure THEN pausedBefore
                       ELSE pausedBefore \cup First(Stops)
    /\ failed' = {}
    /\ resume' = "waiting"
    /\ pc' = "paused"
    /\ UNCHANGED <<running, at, ahead>>

\* A reason to pause while phases still run starts nothing.
HoldBack ==
    /\ Reason /\ running # {}
    /\ pc' = "wait"
    /\ UNCHANGED <<running, at, ahead, failed, pausedBefore>>

\* Seeded bug: --serial waits until nothing runs, and then takes them all.
ChosenTogether(todo) ==
    \E all \in SUBSET Candidates :
        /\ IsLaunchable(all, spec, Candidates, running)
        /\ todo = IF Serial /\ running # {} THEN {} ELSE all

\* What launchable() chose, or under --serial the first of it and only when
\* nothing runs.
Chosen(todo) ==
    \E all \in SUBSET Candidates :
        /\ IsLaunchable(all, spec, Candidates, running)
        /\ todo = IF ~ Serial THEN all ELSE IF running = {} THEN First(all) ELSE {}

\* Every chosen phase gets a task, and the tasks ask for their first drain in
\* the order of the phases.  With none running after that the loop is
\* over, and with it the task group: the evidence is next.
Launch ==
    /\ ~ Reason
    /\ \E todo \in SUBSET Candidates :
          /\ Chosen(todo)
          /\ running' = running \cup todo
          /\ at' = [t \in Task |-> IF t \in todo THEN "drain" ELSE at[t]]
          /\ ahead' = [t \in Task |-> IF t \in todo THEN Draining \cup {p \in todo : p < t}
                                     ELSE ahead[t]]
          /\ pc' = IF running \cup todo = {} THEN "drain" ELSE "wait"
    /\ UNCHANGED <<failed, pausedBefore>>

\* One turn of the loop, from an await to the next.  The caller says what
\* becomes of `resume' when the turn does not begin a pause.
Turn(otherwise) ==
    /\ \/ BeginPause
       \/ (HoldBack \/ Launch) /\ resume' = otherwise
    /\ UNCHANGED <<spec, state, holder, errors, job, continuing, cli, ask, options>>

\* `await changed.wait()' is over, and the event is a new one.
Wake ==
    /\ pc = "wait" /\ changed
    /\ changed' = FALSE
    /\ Turn(resume)

\* `await self._resume.wait()' is over: a client said continue.
Resumed ==
    /\ pc = "paused" /\ resume = "set"
    /\ Turn("none")
    /\ UNCHANGED changed

\* The scheduler's task for p, inside session.run.
PhaseSteps(p) ==
    /\ p \in running
    /\ RunBegins(p) \/ BodyEnds(p, "passing") \/ BodyEnds(p, "failing")
    /\ UNCHANGED <<controlVars, scheduleVars>>

\* `del running[...]' and `changed.set()', however the task ended.
TaskOver(p) ==
    /\ running' = running \ {p}
    /\ changed' = TRUE

\* session.run returned to one(): a failure is remembered for the pause.
PhaseEnds(p) ==
    /\ p \in running
    /\ \/ RunPassed(p) /\ UNCHANGED failed
       \/ RunFailed(p) /\ failed' = failed \cup {p}
    /\ TaskOver(p)
    /\ UNCHANGED <<controlVars, options, pc, pausedBefore>>

=============================================================================
