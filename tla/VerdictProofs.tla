---------------------------- MODULE VerdictProofs ----------------------------
(***************************************************************************)
(* Proofs about the verdicts of Drive: which phase begins when, what a     *)
(* failure takes with it and what is left at the end.                      *)
(*                                                                         *)
(*   AnswersStandFast    an answer stands                                  *)
(*   FailureStops        nothing that depends on a failure begins          *)
(*   PhasesBeginInOrder  nothing begins before what it comes after         *)
(*   SerialInOrder       --serial is the order of the list                 *)
(*   NothingElse         what did not fail or follow a failure was run     *)
(*   DriveKeepsContract  the drive implements RunContract                  *)
(*                                                                         *)
(* The first three are of runs in which nobody runs a phase by hand and    *)
(* nothing was deselected: with either they do not hold (README, section   *)
(* 6).  They share the invariant Verdicts.                                 *)
(***************************************************************************)
EXTENDS DriveProofs, WellFoundedInduction

-----------------------------------------------------------------------------
(* What `depends on' means. *)

\* What depends on f.
Behind(f) == Dependents(spec, f)

\* A set the walk from f adds nothing to.
ClosedUnder(f, S) == f \in S /\ NamesOneOf(spec, S) \subseteq S

\* A phase that names another, and is not `always', depends on it.
LEMMA DirectDepends ==
    ASSUME NEW q \in Phase, NEW a \in Phase, q # a, a \in spec[q].after, ~ spec[q].always
    PROVE  q \in Behind(a)
<1>1. SUFFICES ASSUME NEW S \in SUBSET Phase, ClosedUnder(a, S) PROVE q \in S
  BY DEF Behind, Dependents, ClosedUnder
<1>2. q \in NamesOneOf(spec, S)
  BY <1>1 DEF ClosedUnder, NamesOneOf
<1>3. QED
  BY <1>1, <1>2 DEF ClosedUnder

\* What depends on a phase depends on everything that phase depends on.
LEMMA DependsThrough ==
    ASSUME NEW f \in Phase, NEW a \in Behind(f), NEW q \in Behind(a), q # f
    PROVE  q \in Behind(f)
<1>1. q \in Phase
  BY DEF Behind, Dependents
<1>2. SUFFICES ASSUME NEW S \in SUBSET Phase, ClosedUnder(f, S) PROVE q \in S
  BY <1>1 DEF Behind, Dependents, ClosedUnder
<1>3. a \in S
  BY <1>2 DEF Behind, Dependents, ClosedUnder
<1>4. ClosedUnder(a, S)
  BY <1>2, <1>3 DEF ClosedUnder
<1>5. QED
  BY <1>4 DEF Behind, Dependents, ClosedUnder

\* A phase that depends on another is not `always', and names it or a phase
\* that depends on it.
LEMMA LastStepOfPath ==
    ASSUME NEW f \in Phase, NEW q \in Behind(f)
    PROVE  ~ spec[q].always /\ \E a \in spec[q].after : a = f \/ a \in Behind(f)
<1> DEFINE Near(x) == ~ spec[x].always /\ \E a \in spec[x].after : a = f \/ a \in Behind(f)
           T == {f} \cup {x \in Behind(f) : Near(x)}
<1>1. Behind(f) \subseteq Phase \ {f}
  BY DEF Behind, Dependents
<1>2. ASSUME NEW S \in SUBSET Phase, ClosedUnder(f, S) PROVE T \subseteq S
  BY <1>2 DEF Behind, Dependents, ClosedUnder
<1>3. ASSUME NEW x \in NamesOneOf(spec, T) PROVE x \in T
  <2>1. x \in Phase /\ Near(x)
    BY <1>3 DEF NamesOneOf
  <2>2. ASSUME NEW S \in SUBSET Phase, ClosedUnder(f, S) PROVE x \in S
    <3>1. NamesOneOf(spec, T) \subseteq NamesOneOf(spec, S)
      BY <1>2, <2>2 DEF NamesOneOf
    <3>2. QED
      BY <1>3, <2>2, <3>1 DEF ClosedUnder
  <2>3. x # f => x \in Behind(f)
    BY <2>1, <2>2 DEF Behind, Dependents, ClosedUnder
  <2>4. QED
    BY <2>1, <2>3
<1>4. T \in SUBSET Phase /\ ClosedUnder(f, T)
  BY <1>1, <1>3 DEF ClosedUnder
<1>5. q \in T
  BY <1>4 DEF Behind, Dependents, ClosedUnder
<1>6. QED
  BY <1>1, <1>5


-----------------------------------------------------------------------------
(* Verdicts, when everything is selected and nobody runs a phase by hand. *)

\* Nobody runs a phase by hand; `exec' and `continue' are as they were.
NoHandRuns == \A c \in Client : ask[c] # "run"
\* `--only' was not given.
AllSelected == Selections \subseteq {Phase}

\* The scheduler's task for q is in run(), or was.
Begun(q) == at[q] # "idle" \/ state[q] \in {"running", "passed", "failed", "interrupted"}

\* A phase says "pending" until its drain is over, and "running" after it.
StageFits ==
    \A p \in Phase :
       /\ at[p] = "drain" => state[p] = "pending"
       /\ at[p] \notin {"idle", "drain"} => state[p] = "running"

\* Everything was selected, and nothing is deselected later.
NoneDeselected == \A p \in Phase : state[p] # "deselected"

\* The drive takes turns only while no phase was interrupted.
NoneInterrupted ==
    pc \in {"boot", "wait", "paused"} => \A p \in Phase : state[p] # "interrupted"

\* A phase begins only after what it depends on has passed.
BegunAfterPassed == \A q, f \in Phase : Begun(q) /\ q \in Behind(f) => state[f] = "passed"

\* And after what it names has an answer, whichever.
BegunAfterAll ==
    \A q \in Phase : Begun(q) => \A a \in spec[q].after : a \in Phase /\ state[a] \notin Unfinished

\* A failure took everything behind it.
FailureTakesAll ==
    \A f \in Phase : state[f] = "failed" => \A q \in Behind(f) : state[q] = "skipped"

\* Nothing was taken without one.
SkippedByFailure ==
    \A q \in Phase : state[q] = "skipped" => \E f \in Phase : state[f] = "failed" /\ q \in Behind(f)

\* The inductive invariant of the verdicts.
Verdicts ==
    /\ StageFits /\ NoneDeselected /\ NoneInterrupted
    /\ BegunAfterPassed /\ BegunAfterAll /\ FailureTakesAll /\ SkippedByFailure

\* A drive that takes no more turns never does again.
LEMMA NoWayBack ==
    ASSUME Known, Resting, [Next]_vars, pc' \in {"boot", "wait", "paused"}
    PROVE  pc \in {"boot", "wait", "paused"}
<1>1. ASSUME NEW c \in Client, Request(c) \/ Serve(c) \/ EndClient(c) \/ ClientRaises(c)
      PROVE  pc \in {"boot", "wait", "paused"}
  BY <1>1 DEF Request, Serve, EndClient, ClientRaises, Interrupt, scheduleVars
<1>2. ASSUME NEW p \in Phase, RunPhase(p) \/ EndPhase(p) \/ PhaseRaises(p)
      PROVE  pc \in {"boot", "wait", "paused"}
  BY <1>2 DEF RunPhase, EndPhase, PhaseRaises, PhaseSteps, PhaseEnds, scheduleVars
<1>3. CASE Booted \/ ScheduleTurns
  BY <1>3 DEF Booted, ScheduleTurns, Wake, Resumed
<1>4. CASE BootFails \/ Unwound \/ WriteOutput \/ WriteFails \/ Teardown \/ Close \/ UNCHANGED vars
  BY <1>4 DEF BootFails, Unwound, WriteOutput, WriteFails, Teardown, Close, vars, scheduleVars
<1>5. CASE Stop
  BY <1>5 DEF Stop, Interrupt
<1>6. QED
  BY <1>1, <1>2, <1>3, <1>4, <1>5 DEF Next, Done

\* A candidate depends on nothing that has not passed.
LEMMA CandidateAfterPassed ==
    ASSUME Known, Verdicts, pc \in {"boot", "wait", "paused"},
           NEW q \in Candidates, NEW f \in Phase, q \in Behind(f)
    PROVE  state[f] = "passed"
<1>1. /\ q \in Phase /\ state[q] = "pending"
      /\ \A a \in spec[q].after : a \in Phase /\ state[a] \notin Unfinished
  BY DEF Candidates, Ready, Runnable
<1>2. ~ spec[q].always
  BY LastStepOfPath
<1>3. PICK a \in spec[q].after : a = f \/ a \in Behind(f)
  BY LastStepOfPath
<1>4. a \in Phase /\ a # q /\ q \in Behind(a)
  BY <1>1, <1>2, DirectDepends DEF Unfinished
<1>5. state[a] # "failed"
  BY <1>1, <1>4 DEF Verdicts, FailureTakesAll
<1>6. state[a] # "skipped"
  <2>1. SUFFICES ASSUME NEW h \in Phase, state[h] = "failed", a \in Behind(h) PROVE FALSE
    BY <1>4 DEF Verdicts, SkippedByFailure
  <2>2. q \in Behind(h)
    BY <1>1, <1>4, <2>1, DependsThrough
  <2>3. QED
    BY <1>1, <2>1, <2>2 DEF Verdicts, FailureTakesAll
<1>7. state[a] = "passed"
  BY <1>1, <1>3, <1>4, <1>5, <1>6 DEF Verdicts, NoneDeselected, NoneInterrupted, Unfinished, PhaseState,
                                    Known, TypeOK, SessionTypeOK
<1>8. QED
  BY <1>3, <1>4, <1>7 DEF Verdicts, BegunAfterPassed, Begun

\* A turn keeps the verdicts.
LEMMA VerdictsTurn ==
    ASSUME Known, Verdicts, Turning
    PROVE  Verdicts'
<1>1. PICK todo \in SUBSET Candidates :
         /\ at' = [t \in Task |-> IF t \in todo THEN "drain" ELSE at[t]]
         /\ UNCHANGED <<spec, state, holder, errors, job, cli, ask, options>>
  BY TurnStarts
<1>0. pc \in {"boot", "wait", "paused"}
  BY DEF Turning
<1>2. \A q \in todo : /\ q \in Phase /\ state[q] = "pending"
                      /\ \A a \in spec[q].after : a \in Phase /\ state[a] \notin Unfinished
  BY DEF Candidates, Ready, Runnable
<1>3. \A q \in Phase : at'[q] = IF q \in todo THEN "drain" ELSE at[q]
  BY <1>1 DEF Task
<1>4. \A q \in Phase : Begun(q)' <=> Begun(q) \/ q \in todo
  BY <1>1, <1>2, <1>3 DEF Begun
<1>5. \A f : Behind(f)' = Behind(f)
  BY <1>1 DEF Behind
<1>6. StageFits'
  BY <1>1, <1>2, <1>3 DEF Verdicts, StageFits
<1>7. NoneDeselected' /\ NoneInterrupted'
  BY <1>0, <1>1 DEF Verdicts, NoneDeselected, NoneInterrupted
<1>8. BegunAfterPassed'
  <2>1. SUFFICES ASSUME NEW q \in Phase, NEW f \in Phase, Begun(q)', q \in Behind(f) PROVE state'[f] = "passed"
    BY <1>5 DEF BegunAfterPassed
  <2>2. QED
    BY <1>0, <1>1, <1>4, <2>1, CandidateAfterPassed DEF Verdicts, BegunAfterPassed
<1>9. BegunAfterAll'
  BY <1>1, <1>2, <1>4 DEF Verdicts, BegunAfterAll
<1>10. FailureTakesAll' /\ SkippedByFailure'
  BY <1>1, <1>5 DEF Verdicts, FailureTakesAll, SkippedByFailure
<1>11. QED
  BY <1>6, <1>7, <1>8, <1>9, <1>10 DEF Verdicts

\* What a step of run() does to the verdicts: one phase moves, and if it
\* fails, the pending ones behind it are skipped.
PhaseMoved(p) ==
    /\ state[p] \in {"pending", "running"}
    /\ \/ at[p] = "drain" /\ at'[p] = "body" /\ state'[p] = "running"
       \/ at[p] # "drain" /\ at'[p] \notin {"idle", "drain"} /\ state'[p] = state[p]
       \/ at'[p] = "idle" /\ state'[p] \in {state[p], "passed", "failed", "interrupted"}
    /\ at'[p] # "idle" \/ state'[p] \in {"passed", "failed"} \/ pc' = "stopping"
    /\ \A q \in Phase \ {p} :
          /\ at'[q] = at[q]
          /\ state'[q] = IF state'[p] = "failed" /\ q \in Behind(p) /\ state[q] = "pending"
                         THEN "skipped" ELSE state[q]

\* Every step of a scheduled phase is such a move.
LEMMA PhaseMovesOn ==
    ASSUME Known, StageFits, NEW p \in Phase, PhaseRuns(p)
    PROVE  PhaseMoved(p) /\ spec' = spec
<1>1. /\ at[p] # "idle" /\ job[p] = p /\ p \in Task
      /\ spec' = spec
      /\ \A u \in Task : u # p => at'[u] = at[u]
  BY PhaseMoves
<1>2. state \in [Phase -> PhaseState] /\ at \in [Task -> Stage] /\ state[p] \in {"pending", "running"}
  BY <1>1 DEF Known, TypeOK, SessionTypeOK, StageFits, Stage
<1>3. \A q \in Phase \ {p} : at'[q] = at[q]
  BY <1>1 DEF Task
<1> USE <1>1, <1>2, <1>3 DEF PhaseMoved
<1>4. CASE RunBegins(p)
  BY <1>4 DEF RunBegins
<1>5. CASE BodyEnds(p, "passing") \/ BodyEnds(p, "failing")
  BY <1>5 DEF BodyEnds, StageFits
<1>6. CASE RunPassed(p)
  BY <1>6 DEF RunPassed, Leave
<1>7. CASE RunFailed(p)
  <2>1. at'[p] = "idle" /\ state'[p] = "failed"
    BY <1>7 DEF RunFailed, Leave
  <2>2. \A q \in Phase \ {p} : state'[q] = IF q \in Behind(p) /\ state[q] = "pending" THEN "skipped" ELSE state[q]
    BY <1>7 DEF RunFailed, SkippedBy, Behind
  <2>3. QED
    BY <2>1, <2>2
<1>8. CASE RunCancelled(p) \/ RunRaises(p)
  <2>1. pc' = "stopping"
    BY <1>8 DEF PhaseRuns, RunsOn, RunBegins, BodyEnds, RunPassed, RunFailed, RunCancelled, RunRaises, Leave
  <2>2. at'[p] = "idle"
    BY <1>8 DEF RunCancelled, RunRaises, Leave
  <2>3. state' = state \/ state' = [state EXCEPT ![p] = "interrupted"]
    BY <1>8 DEF RunCancelled, RunRaises
  <2>4. QED
    BY <2>1, <2>2, <2>3
<1>9. QED
  BY <1>4, <1>5, <1>6, <1>7, <1>8 DEF PhaseRuns, RunStep

\* A step of a scheduled phase keeps the verdicts.  What its failure skips has
\* not begun, because what has begun has everything it depends on behind it.
LEMMA VerdictsPhase ==
    ASSUME Known, Resting, Verdicts, [Next]_vars, NEW p \in Phase, PhaseRuns(p)
    PROVE  Verdicts'
<1> USE DEF Verdicts
<1>1. PhaseMoved(p) /\ spec' = spec
  BY PhaseMovesOn
<1>2. \A f : Behind(f)' = Behind(f)
  BY <1>1 DEF Behind
<1>3. Begun(p)
  BY PhaseMoves DEF Begun
<1>4. \A q \in Behind(p) : ~ Begun(q) /\ q \in Phase \ {p}
  <2>1. \A q \in Behind(p) : q \in Phase \ {p}
    BY DEF Behind, Dependents
  <2>2. QED
    BY <1>1, <2>1 DEF PhaseMoved, BegunAfterPassed
<1>5. \A q \in Phase : Begun(q)' => Begun(q)
  BY <1>1, <1>3 DEF PhaseMoved, Begun
<1>6. StageFits'
  BY <1>1, <1>4, PhaseMoves DEF PhaseMoved, StageFits, Begun
<1>7. NoneDeselected'
  BY <1>1 DEF PhaseMoved, NoneDeselected
<1>8. NoneInterrupted'
  <2>1. pc' \in {"boot", "wait", "paused"} => pc \in {"boot", "wait", "paused"}
    BY NoWayBack
  <2>2. QED
    BY <1>1, <2>1 DEF PhaseMoved, NoneInterrupted
<1>9. \A q \in Phase : state[q] \notin Unfinished => state'[q] = state[q]
  BY <1>1 DEF PhaseMoved, Unfinished
<1>10. BegunAfterPassed'
  BY <1>2, <1>5, <1>9 DEF BegunAfterPassed, Unfinished
<1>11. BegunAfterAll'
  BY <1>1, <1>5, <1>9 DEF BegunAfterAll
<1>12. FailureTakesAll'
  <2>1. SUFFICES ASSUME NEW f \in Phase, state'[f] = "failed", NEW q \in Behind(f) PROVE state'[q] = "skipped"
    BY <1>2 DEF FailureTakesAll
  <2>2. CASE f = p
    <3>1. state[q] \in {"pending", "skipped"}
      BY <1>4, <2>2 DEF Begun, NoneDeselected, Known, TypeOK, SessionTypeOK, PhaseState
    <3>2. QED
      BY <1>1, <1>4, <2>1, <2>2, <3>1 DEF PhaseMoved
  <2>3. CASE f # p
    <3>1. state[f] = "failed" /\ q \in Phase
      BY <1>1, <2>1, <2>3 DEF PhaseMoved, Behind, Dependents
    <3>2. QED
      BY <1>9, <3>1 DEF FailureTakesAll, Unfinished
  <2>4. QED
    BY <2>2, <2>3
<1>13. SkippedByFailure'
  <2>1. SUFFICES ASSUME NEW q \in Phase, state'[q] = "skipped"
                 PROVE  \E f \in Phase : state'[f] = "failed" /\ q \in Behind(f)
    BY <1>2 DEF SkippedByFailure
  <2>2. q # p
    BY <1>1, <2>1 DEF PhaseMoved
  <2>3. CASE state[q] = "skipped"
    BY <1>9, <2>3 DEF SkippedByFailure, Unfinished
  <2>4. CASE state[q] # "skipped"
    BY <1>1, <2>1, <2>2, <2>4 DEF PhaseMoved
  <2>5. QED
    BY <2>3, <2>4
<1>14. QED
  BY <1>6, <1>7, <1>8, <1>10, <1>11, <1>12, <1>13

\* Every action keeps them, when nobody runs a phase by hand.
LEMMA VerdictsStep ==
    ASSUME NoHandRuns, Known, Resting, Verdicts, [Next]_vars
    PROVE  Verdicts'
<1>1. CASE Beside
  <2>1. /\ UNCHANGED <<spec, state>> /\ \A p \in Phase : at'[p] = at[p]
    BY <1>1 DEF Beside
  <2>2. \A f : Behind(f)' = Behind(f)
    BY <2>1 DEF Behind
  <2>3. \A q \in Phase : Begun(q)' <=> Begun(q)
    BY <2>1 DEF Begun
  <2>4. NoneInterrupted'
    BY <2>1, NoWayBack DEF Verdicts, NoneInterrupted
  <2>5. QED
    BY <2>1, <2>2, <2>3, <2>4 DEF Verdicts, StageFits, NoneDeselected, BegunAfterPassed, BegunAfterAll,
                                  FailureTakesAll, SkippedByFailure
<1>2. ASSUME NEW c \in Client, HandRuns(c) PROVE FALSE
  BY <1>2 DEF HandRuns, NoHandRuns
<1>3. QED
  BY <1>1, <1>2, VerdictsTurn, VerdictsPhase, StepKinds

\* They hold before anything has begun.
LEMMA VerdictsInit ==
    ASSUME AllSelected, Init
    PROVE  Verdicts
<1>1. \A p \in Phase : state[p] = "pending"
  BY DEF Init, SessionInit, AllSelected
<1>2. \A p \in Phase : at[p] = "idle"
  BY DEF Init, SessionInit, Task
<1>3. QED
  BY <1>1, <1>2 DEF Verdicts, StageFits, NoneDeselected, NoneInterrupted, Begun, BegunAfterPassed,
                    BegunAfterAll, FailureTakesAll, SkippedByFailure

-----------------------------------------------------------------------------
(* What a step may not do. *)

\* Verdicts hold of every run in which no phase is run by hand.
LEMMA VerdictsHold ==
    ASSUME AllSelected PROVE Spec /\ []NoHandRuns => [](Known /\ Resting /\ Verdicts)
<1>1. Init => Known /\ Resting /\ Verdicts
  BY KnownInit, VerdictsInit DEF Init, ScheduleInit, Resting
<1>2. NoHandRuns /\ Known /\ Resting /\ Verdicts /\ [Next]_vars => (Known /\ Resting /\ Verdicts)'
  BY KnownStep, RestingStep, VerdictsStep
<1>3. QED
  BY <1>1, <1>2, PTL DEF Spec

\* No answer changes under them.
LEMMA AnswersStand ==
    ASSUME NoHandRuns, Known, Verdicts, [Next]_vars, NEW p \in Phase, state[p] \notin Unfinished
    PROVE  state'[p] = state[p]
<1>1. ASSUME NEW q \in Phase, PhaseRuns(q) PROVE state'[p] = state[p]
  <2>1. PhaseMoved(q)
    BY <1>1, PhaseMovesOn DEF Verdicts
  <2>2. QED
    BY <2>1 DEF PhaseMoved, Unfinished
<1>2. ASSUME NEW c \in Client, HandRuns(c) PROVE FALSE
  BY <1>2 DEF HandRuns, NoHandRuns
<1>3. Turning => UNCHANGED state
  BY TurnStarts
<1>4. QED
  BY <1>1, <1>2, <1>3, StepKinds DEF Beside

\* When everything is selected and nobody runs a phase by hand, an answer once
\* given stands, on any graph and through every fault: a phase that was skipped
\* is not run, one that passed does not become skipped (phases.py, cli.py).
THEOREM AnswersStandFast == ASSUME AllSelected PROVE Spec /\ []NoHandRuns => VerdictStands
<1> DEFINE Stands == \A p \in Phase :
                        state[p] \notin Unfinished /\ state'[p] # state[p] =>
                           \E c \in Client : at[c] # "idle" /\ job[c] = p
<1>1. NoHandRuns /\ Known /\ Verdicts /\ [Next]_vars => [Stands]_vars
  BY AnswersStand
<1>2. QED
  BY <1>1, VerdictsHold, PTL DEF Spec, VerdictStands

\* The rule phases.py exists for: the scheduler begins nothing that depends on
\* a phase that failed, directly or through others.
THEOREM FailureStops == ASSUME AllSelected PROVE Spec /\ []NoHandRuns => FailureStopsDependents
<1> DEFINE Kept == \A p \in Phase : Begins(p) =>
                      \A f \in Phase : state[f] = "failed" => p \notin Dependents(spec, f)
<1>1. Verdicts => [Kept]_vars
  BY DEF Verdicts, BegunAfterPassed, Begun, Begins, Behind
<1>2. QED
  BY <1>1, VerdictsHold, PTL DEF Spec, FailureStopsDependents

\* A phase begins only when everything it comes after has its answer, though it
\* was chosen before its drain and is marked running after it (session.py).
THEOREM PhasesBeginInOrder == ASSUME AllSelected PROVE Spec /\ []NoHandRuns => BeginsInOrder
<1> DEFINE Kept == \A p \in Phase : Begins(p) =>
                      \A a \in spec[p].after : a \in Phase /\ state[a] \notin Unfinished
<1>1. Verdicts => [Kept]_vars
  BY DEF Verdicts, BegunAfterAll, Begun, Begins
<1>2. QED
  BY <1>1, VerdictsHold, PTL DEF Spec, BeginsInOrder

-----------------------------------------------------------------------------
(* The order of --serial, and nothing left out, for specs sorted by Nix. *)

\* Nix sorted the list: a phase names only phases before it (modules/run.nix).
Sorted == \A s \in Specs : \A p \in Phase : s[p].after \subseteq 1..(p - 1)

\* A set of phases that is not empty has a first.
LEMMA FirstExists ==
    ASSUME NEW S \in SUBSET Phase, S # {}
    PROVE  \E p \in S : \A q \in S : p <= q
<1>1. S \subseteq Nat
  BY NumPhasesAssumption DEF Phase
<1>2. PICK p \in S : \A q \in S : <<q, p>> \notin OpToRel(<, Nat)
  BY <1>1, NatLessThanWellFounded, WFMin
<1>3. \A q \in S : ~ (q < p)
  BY <1>1, <1>2 DEF OpToRel
<1>4. QED
  BY <1>1, <1>3

\* The spec is one of those given.
SpecGiven == spec \in Specs

\* No action changes it.
LEMMA SpecGivenStep == Known /\ SpecGiven /\ [Next]_vars => SpecGiven'
<1> SUFFICES ASSUME Known, SpecGiven, [Next]_vars PROVE spec' = spec
  BY DEF SpecGiven
<1>1. QED
  BY StepKinds, TurnStarts, PhaseMoves, HandMoves DEF Beside

\* While the drive takes turns, a phase that says it runs is being run.
RunningIsRun ==
    pc \in {"boot", "wait", "paused"} =>
       \A p \in Phase : state[p] = "running" => \E t \in Task : InRun(t) /\ job[t] = p

\* A step of run() that nothing broke into keeps it that who says it runs is
\* being run.
LEMMA RunsOnIsRun ==
    ASSUME Known, NEW t \in Task, job[t] \in Phase, RunsOn(t), job' = job,
           \A u \in Task : u # t => at'[u] = at[u],
           \A p \in Phase : state[p] = "running" => \E u \in Task : InRun(u) /\ job[u] = p
    PROVE  \A p \in Phase : state'[p] = "running" => \E u \in Task : InRun(u)' /\ job'[u] = p
<1>1. \A u \in Task : u # t => (InRun(u)' <=> InRun(u))
  BY DEF InRun
<1>2. \/ InRun(t)' /\ (\A p \in Phase : p # job[t] => state'[p] = state[p])
      \/ state'[job[t]] # "running" /\ (\A p \in Phase : state'[p] = "running" => state[p] = "running")
  <2> USE DEF Known, TypeOK, SessionTypeOK
  <2>1. CASE RunBegins(t)
    BY <2>1 DEF RunBegins, InRun
  <2>2. CASE BodyEnds(t, "passing") \/ BodyEnds(t, "failing")
    BY <2>2 DEF BodyEnds, InRun
  <2>3. CASE RunPassed(t)
    BY <2>3 DEF RunPassed
  <2>4. CASE RunFailed(t)
    BY <2>4 DEF RunFailed
  <2>5. QED
    BY <2>1, <2>2, <2>3, <2>4 DEF RunsOn
<1>3. QED
  BY <1>1, <1>2

\* Every action does, as long as the drive takes turns.
LEMMA RunningIsRunStep ==
    ASSUME Known, Resting, CancelEnds, RunningIsRun, [Next]_vars
    PROVE  RunningIsRun'
<1>1. SUFFICES ASSUME pc' \in {"boot", "wait", "paused"}
               PROVE  \A p \in Phase : state'[p] = "running" => \E u \in Task : InRun(u)' /\ job'[u] = p
  BY DEF RunningIsRun
<1>2. \A p \in Phase : state[p] = "running" => \E u \in Task : InRun(u) /\ job[u] = p
  BY <1>1, NoWayBack DEF RunningIsRun
<1>3. ASSUME NEW p \in Phase, PhaseRuns(p)
      PROVE  \A q \in Phase : state'[q] = "running" => \E u \in Task : InRun(u)' /\ job'[u] = q
  <2>1. RunsOn(p)
    BY <1>1, <1>3 DEF PhaseRuns
  <2>2. QED
    BY <1>2, <1>3, <2>1, PhaseMoves, RunsOnIsRun
<1>4. ASSUME NEW c \in Client, HandRuns(c)
      PROVE  \A q \in Phase : state'[q] = "running" => \E u \in Task : InRun(u)' /\ job'[u] = q
  <2>1. ~ cancelled'
    BY <1>1, CancelEndsStep DEF CancelEnds
  <2>2. RunsOn(c)
    BY <1>4, <2>1 DEF HandRuns
  <2>3. QED
    BY <1>2, <1>4, <2>2, HandMoves, RunsOnIsRun
<1>5. CASE Turning \/ Beside
  <2>1. UNCHANGED state /\ \A t \in Task : InRun(t) => InRun(t)' /\ job'[t] = job[t]
    BY <1>5, InRunUndisturbed
  <2>2. QED
    BY <1>2, <2>1
<1>6. QED
  BY <1>3, <1>4, <1>5, StepKinds

\* When a turn is taken and nothing runs, nobody is in run() at all.
LEMMA TurnIsQuiet ==
    ASSUME Known, HandsOff, RunningIsRun, Turning, running = {}
    PROVE  \A p \in Phase : state[p] # "running"
<1>1. \A c \in Client : cli[c] # "busy"
  BY DEF Turning, HandsOff
<1>2. \A t \in Task : at[t] = "idle"
  BY <1>1 DEF Known, TasksKnown, Task
<1>3. QED
  BY <1>2 DEF RunningIsRun, Turning, InRun

\* The first phase without an answer is a candidate, in a sorted spec.
LEMMA FirstIsCandidate ==
    ASSUME Sorted, SpecGiven, running = {}, \A p \in Phase : state[p] # "running",
           NEW q \in Phase, state[q] \in Unfinished
    PROVE  \E m \in Candidates : m <= q
<1> DEFINE S == {p \in Phase : state[p] \in Unfinished}
<1>1. PICK m \in S : \A p \in S : m <= p
  BY FirstExists
<1>2. state[m] = "pending" /\ m \in Phase
  BY DEF Unfinished
<1>3. ASSUME NEW a \in spec[m].after PROVE a \in Phase /\ state[a] \notin Unfinished
  <2>1. a \in 1..(m - 1)
    BY <1>2 DEF Sorted, SpecGiven
  <2>2. a \in Phase /\ ~ (m <= a)
    BY <1>2, <2>1, NumPhasesAssumption DEF Phase
  <2>3. QED
    BY <1>1, <2>2
<1>4. m \in Candidates
  BY <1>2, <1>3 DEF Candidates, Ready, Runnable
<1>5. QED
  BY <1>1, <1>4

\* With nothing running, the first candidate is always launchable.
LEMMA FirstIsLaunchable ==
    ASSUME running = {}, NEW all, IsLaunchable(all, spec, Candidates, running),
           NEW m \in Candidates
    PROVE  \E p \in all : p <= m
<1>1. SUFFICES ASSUME m \notin all, \A q \in all : ~ (q < m) PROVE FALSE
  <2>1. all \subseteq Int /\ m \in Int
    BY NumPhasesAssumption DEF IsLaunchable, Candidates, Ready, Runnable, Phase
  <2>2. QED
    BY <1>1, <2>1
<1>2. running \cup {q \in all : q < m} = {}
  BY <1>1
<1>3. ClaimsOf(spec, {}) = {}
  BY DEF ClaimsOf
<1>4. QED
  BY <1>1, <1>2, <1>3 DEF IsLaunchable

\* --serial (cli.py): with one client, on any sorted graph and through every
\* fault, phases run one at a time and each starts only when all the phases
\* before it in the list have an answer.
THEOREM SerialInOrder == ASSUME OneClient, Sorted PROVE Spec => SerialOrder
<1> DEFINE IInv == Known /\ Resting /\ HandsOff /\ CancelEnds /\ SpecGiven /\ RunningIsRun
           Ordered(p) ==
              /\ running = {} /\ running' = {p}
              /\ \A q \in 1..(p - 1) : state[q] \notin Unfinished
<1>1. Init => IInv
  BY KnownInit DEF Init, SessionInit, ScheduleInit, ControlInit, HandsOff, Resting, CancelEnds, SpecGiven,
                   RunningIsRun
<1>2. IInv /\ [Next]_vars => IInv'
  BY KnownStep, RestingStep, HandsOffStep, CancelEndsStep, SpecGivenStep, RunningIsRunStep
<1>3. ASSUME IInv, [Next]_vars, Serial, NEW p \in Phase, Started(p) PROVE Ordered(p)
  <2>1. PICK todo \in SUBSET Candidates :
           /\ Chosen(todo) /\ p \in todo /\ Turning
           /\ running' = running \cup todo
    BY <1>3, StartedByLaunch
  <2>2. PICK all \in SUBSET Candidates :
           /\ IsLaunchable(all, spec, Candidates, running)
           /\ todo = IF running = {} THEN First(all) ELSE {}
    BY <1>3, <2>1 DEF Chosen
  <2>3. running = {} /\ todo = First(all)
    BY <2>1, <2>2
  <2>4. p \in all /\ \A q \in all : p <= q
    BY <2>1, <2>3 DEF First
  <2>5. all \subseteq Int
    BY NumPhasesAssumption DEF Candidates, Ready, Runnable, Phase
  <2>6. \A q \in First(all) : q = p
    BY <2>4, <2>5 DEF First
  <2>7. running' = {p}
    BY <2>1, <2>3, <2>6
  <2>8. ASSUME NEW q \in 1..(p - 1), state[q] \in Unfinished PROVE FALSE
    <3>1. q \in Phase /\ ~ (p <= q)
      BY NumPhasesAssumption DEF Phase
    <3>2. PICK m \in Candidates : m <= q
      BY <1>3, <2>1, <2>3, <2>8, <3>1, TurnIsQuiet, FirstIsCandidate
    <3>3. PICK r \in all : r <= m
      BY <2>2, <2>3, FirstIsLaunchable
    <3>4. m \in Int /\ r \in Int /\ p \in Int /\ q \in Int /\ p <= r
      BY <2>4, <2>5, NumPhasesAssumption DEF Candidates, Ready, Runnable, Phase
    <3>5. QED
      BY <3>1, <3>2, <3>3, <3>4
  <2>9. QED
    BY <2>3, <2>7, <2>8
<1>4. IInv /\ [Next]_vars => [Serial => \A p \in Phase : Started(p) => Ordered(p)]_vars
  BY <1>3
<1>5. QED
  BY <1>1, <1>2, <1>4, PTL DEF Spec, SerialOrder

\* A phase that was skipped depends on one whose error is recorded.
SkippedByError == \A q \in Phase : state[q] = "skipped" => \E f \in errors : q \in Behind(f)

\* Every action keeps that: no error is taken back.
LEMMA SkippedByErrorStep == Known /\ SkippedByError /\ [Next]_vars => SkippedByError'
<1> SUFFICES ASSUME Known, SkippedByError, [Next]_vars PROVE SkippedByError'
  OBVIOUS
<1>1. spec' = spec
  BY StepKinds, TurnStarts, PhaseMoves, HandMoves DEF Beside
<1>2. \A f : Behind(f)' = Behind(f)
  BY <1>1 DEF Behind
<1>3. ASSUME NEW t \in Task, job[t] \in Phase, RunStep(t) PROVE SkippedByError'
  <2>1. errors \subseteq errors'
    BY <1>3 DEF RunStep, RunBegins, BodyEnds, RunPassed, RunFailed, RunCancelled, RunRaises
  <2>2. SUFFICES ASSUME NEW q \in Phase, state'[q] = "skipped" PROVE \E f \in errors' : q \in Behind(f)
    BY <1>2 DEF SkippedByError
  <2>3. CASE state[q] = "skipped"
    BY <2>1, <2>3 DEF SkippedByError
  <2>4. CASE state[q] # "skipped"
    <3>1. RunFailed(t)
      BY <1>3, <2>2, <2>4 DEF RunStep, RunBegins, BodyEnds, RunPassed, RunCancelled, RunRaises,
                              Known, TypeOK, SessionTypeOK
    <3>2. q \in SkippedBy(spec, job[t]) /\ job[t] \in errors'
      BY <2>2, <2>4, <3>1 DEF RunFailed
    <3>3. QED
      BY <3>2 DEF SkippedBy, Behind
  <2>5. QED
    BY <2>3, <2>4
<1>4. CASE Turning \/ Beside
  BY <1>2, <1>4, InRunUndisturbed DEF SkippedByError
<1>5. QED
  BY <1>3, <1>4, StepKinds, PhaseMoves, HandMoves DEF PhaseRuns, HandRuns

\* A turn that ends the loop found nothing to start.
LEMMA LoopEndsEmpty ==
    ASSUME Known, Launch, running' = {}, NEW m \in Candidates
    PROVE  FALSE
<1>1. PICK todo \in SUBSET Candidates : Chosen(todo) /\ running' = running \cup todo
  BY DEF Launch
<1>2. running = {} /\ todo = {}
  BY <1>1
<1>3. PICK all \in SUBSET Candidates :
        /\ IsLaunchable(all, spec, Candidates, running)
        /\ {} = IF ~ Serial THEN all ELSE First(all)
  BY <1>1, <1>2 DEF Chosen
<1>4. all # {} /\ all \in SUBSET Phase
  BY <1>2, <1>3, FirstIsLaunchable DEF Candidates, Ready, Runnable
<1>5. First(all) # {}
  BY <1>4, FirstExists DEF First
<1>6. QED
  BY <1>3, <1>4, <1>5

\* Without a fault the drive comes to its end by a turn that started nothing.
LEMMA EndsByLoop ==
    ASSUME Faults = {}, Known, NeverStopping, ~ Ended, Ended', [Next]_vars
    PROVE  Turning /\ Launch /\ running' = {}
<1>1. ASSUME NEW c \in Client, Request(c) \/ Serve(c) \/ EndClient(c) \/ ClientRaises(c) PROVE FALSE
  BY <1>1 DEF Request, Serve, EndClient, ClientRaises, scheduleVars, Ended
<1>2. ASSUME NEW p \in Phase, RunPhase(p) \/ EndPhase(p) \/ PhaseRaises(p) PROVE FALSE
  BY <1>2 DEF RunPhase, EndPhase, PhaseRaises, PhaseSteps, PhaseEnds, scheduleVars, Ended
<1>3. CASE Booted \/ ScheduleTurns
  <2>1. PICK x \in {"none", resume} : Turn(x)
    BY <1>3 DEF Booted, ScheduleTurns, Wake, Resumed
  <2>2. pc' = "drain"
    BY <2>1 DEF Turn, BeginPause, HoldBack, Launch, Ended
  <2>3. Launch /\ running' = {}
    BY <2>1, <2>2 DEF Turn, BeginPause, HoldBack, Launch
  <2>4. QED
    BY <1>3, <2>1, <2>3 DEF Booted, ScheduleTurns, Wake, Resumed, Turning
<1>4. ~ (BootFails \/ Unwound \/ WriteOutput \/ WriteFails \/ Teardown \/ Close \/ Stop \/ UNCHANGED vars)
  BY DEF BootFails, Unwound, WriteOutput, WriteFails, Teardown, Close, Stop, vars, scheduleVars, Ended,
         NeverStopping
<1>5. QED
  BY <1>1, <1>2, <1>3, <1>4 DEF Next, Done

\* At the end of a run without a fault every phase has an answer.
AllAnswered == Faults = {} /\ Ended => \A p \in Phase : state[p] \notin Unfinished

\* Every action keeps that: the loop ends by a turn that found no candidate,
\* and in a sorted graph the first phase without an answer is one.
LEMMA AllAnsweredStep ==
    ASSUME Sorted, Known, HandsOff, QuietEnd, NeverStopping, SpecGiven, RunningIsRun, AllAnswered, [Next]_vars
    PROVE  AllAnswered'
<1>1. SUFFICES ASSUME Faults = {}, Ended', NEW p \in Phase PROVE state'[p] \notin Unfinished
  BY DEF AllAnswered
<1>2. CASE Ended
  <2>1. running = {} /\ \A c \in Client : cli[c] # "busy"
    BY <1>2 DEF QuietEnd
  <2>2. ~ Turning
    BY <1>2 DEF Turning, Ended
  <2>3. UNCHANGED state
    BY <2>1, <2>2, StepKinds DEF PhaseRuns, HandRuns, Beside
  <2>4. QED
    BY <1>1, <1>2, <2>3 DEF AllAnswered
<1>3. CASE ~ Ended
  <2>1. Turning /\ Launch /\ running' = {}
    BY <1>1, <1>3, EndsByLoop
  <2>2. running = {} /\ UNCHANGED state
    BY <2>1, TurnStarts DEF Launch
  <2>3. \A q \in Phase : state[q] # "running"
    BY <2>1, <2>2, TurnIsQuiet
  <2>4. ASSUME state[p] \in Unfinished PROVE FALSE
    BY <2>1, <2>2, <2>3, <2>4, FirstIsCandidate, LoopEndsEmpty
  <2>5. QED
    BY <2>2, <2>4
<1>4. QED
  BY <1>2, <1>3

\* The other half of the rule, "and nothing else": a run without a fault ends
\* with an answer for every phase, and one that was skipped depends on a phase
\* whose error is recorded -- phases run by hand at a pause included.
THEOREM NothingElse == ASSUME OneClient, Sorted PROVE Spec => []NothingElseLeftOut
<1> DEFINE IInv ==
       /\ Known /\ Resting /\ HandsOff /\ CancelEnds /\ NeverStopping /\ SpecGiven /\ RunningIsRun
       /\ SkippedByError
       /\ Faults = {} => QuietEnd /\ AllAnswered
<1>1. Init => IInv
  <2> SUFFICES ASSUME Init PROVE IInv
    OBVIOUS
  <2>1. \A p \in Phase : state[p] # "skipped" /\ state[p] # "running"
    BY DEF Init, SessionInit
  <2>2. QED
    BY <2>1, KnownInit DEF Init, SessionInit, ScheduleInit, ControlInit, HandsOff, Resting, CancelEnds,
                           NeverStopping, SpecGiven, RunningIsRun, SkippedByError, QuietEnd, Ended, AllAnswered
<1>2. IInv /\ [Next]_vars => IInv'
  <2> SUFFICES ASSUME IInv, [Next]_vars PROVE IInv'
    OBVIOUS
  <2>1. /\ Known' /\ Resting' /\ HandsOff' /\ CancelEnds' /\ NeverStopping' /\ SpecGiven' /\ RunningIsRun'
        /\ SkippedByError'
    BY KnownStep, RestingStep, HandsOffStep, CancelEndsStep, NeverStoppingStep, SpecGivenStep,
       RunningIsRunStep, SkippedByErrorStep
  <2>2. Faults = {} => QuietEnd' /\ AllAnswered'
    BY QuietEndStep, AllAnsweredStep
  <2>3. QED
    BY <2>1, <2>2
<1>3. IInv => NothingElseLeftOut
  BY DEF AllAnswered, SkippedByError, Behind, Ended, NothingElseLeftOut
<1>4. QED
  BY <1>1, <1>2, <1>3, PTL DEF Spec

-----------------------------------------------------------------------------
(* The drive keeps its contract. *)

\* Nothing interrupts the drive while it takes turns.
Undisturbed == Faults \cap {"stop", "gone", "raise"} = {}

\* Who uses a guest has been lent it.
LEMMA LentTo ==
    GuestExclusive => \A g \in Guest, t \in Task : g \in Uses(t) => Lent[g] = t
<1> SUFFICES ASSUME GuestExclusive, NEW g \in Guest, NEW t \in Task, g \in Uses(t) PROVE Lent[g] = t
  OBVIOUS
<1> DEFINE u == CHOOSE v \in Task : g \in Uses(v)
<1>1. u \in Task /\ g \in Uses(u)
  OBVIOUS
<1>2. Lent[g] = u
  BY DEF Lent
<1>3. QED
  BY <1>1, <1>2 DEF GuestExclusive

\* What nobody uses is not lent.
LEMMA LentToNobody ==
    \A g \in Guest : (\A t \in Task : g \notin Uses(t)) => Lent[g] = NoPhase
BY DEF Lent

\* Nobody is not a user.
LEMMA NobodyIsNoUser == NoPhase \notin Task
BY ClientAssumption, NumPhasesAssumption DEF Task, Phase, NoPhase

\* What is lent is used.
LEMMA LentIsUsed ==
    \A g \in Guest : Lent[g] # NoPhase => Lent[g] \in Task /\ g \in Uses(Lent[g])
<1> SUFFICES ASSUME NEW g \in Guest, Lent[g] # NoPhase PROVE Lent[g] \in Task /\ g \in Uses(Lent[g])
  OBVIOUS
<1>1. PICK t \in Task : g \in Uses(t)
  BY LentToNobody
<1> DEFINE u == CHOOSE v \in Task : g \in Uses(v)
<1>2. u \in Task /\ g \in Uses(u)
  BY <1>1
<1>3. Lent[g] = u
  BY <1>1 DEF Lent
<1>4. QED
  BY <1>2, <1>3

\* What the lemmas above say, in one formula to be primed.
LentFits ==
    /\ GuestExclusive => \A g \in Guest, t \in Task : g \in Uses(t) => Lent[g] = t
    /\ \A g \in Guest : (\A t \in Task : g \notin Uses(t)) => Lent[g] = NoPhase
    /\ \A g \in Guest : Lent[g] # NoPhase => \E t \in Task : Lent[g] = t /\ g \in Uses(t)

\* The same after a step.
LEMMA LentAfter ==
    /\ GuestExclusive' => \A g \in Guest, t \in Task : g \in Uses(t)' => Lent'[g] = t
    /\ \A g \in Guest : (\A t \in Task : g \notin Uses(t)') => Lent'[g] = NoPhase
    /\ \A g \in Guest : Lent'[g] # NoPhase => \E t \in Task : Lent'[g] = t /\ g \in Uses(t)'
<1>1. LentFits
  BY LentTo, LentToNobody, LentIsUsed DEF LentFits
<1>2. LentFits'
  BY <1>1, PTL
<1>3. QED
  BY <1>2 DEF LentFits

\* Guests lent to new users were nobody's.
LEMMA MoreIsLent ==
    ASSUME GuestExclusive, GuestExclusive', \A t \in Task : Uses(t) \subseteq Uses(t)'
    PROVE  /\ Lent' \in [Guest -> Task \cup {NoPhase}]
           /\ \A g \in Guest : Lent'[g] # Lent[g] => Lent[g] = NoPhase
<1>1. Lent' \in [Guest -> Task \cup {NoPhase}]
  <2>1. \A g \in Guest : Lent'[g] \in Task \cup {NoPhase}
    BY LentAfter
  <2>2. Lent' = [g \in Guest |-> Lent'[g]]
    BY DEF Lent
  <2>3. QED
    BY <2>1, <2>2
<1>2. ASSUME NEW g \in Guest, Lent[g] # NoPhase PROVE Lent'[g] = Lent[g]
  <2>1. Lent[g] \in Task /\ g \in Uses(Lent[g])
    BY <1>2, LentIsUsed
  <2>2. PICK t \in Task : t = Lent[g] /\ g \in Uses(t)
    BY <2>1
  <2>3. QED
    BY <2>2, LentAfter
<1>3. QED
  BY <1>1, <1>2

\* While nobody borrows and nobody gives back, no guest changes hands.
LEMMA SameIsLent ==
    ASSUME GuestExclusive, GuestExclusive', \A t \in Task : Uses(t)' = Uses(t)
    PROVE  Lent' = Lent
<1>1. \A g \in Guest : Lent[g] = NoPhase => Lent'[g] = NoPhase
  BY LentTo, LentAfter, NobodyIsNoUser
<1>2. \A g \in Guest : Lent'[g] = Lent[g]
  BY <1>1, MoreIsLent
<1>3. Lent' = [g \in Guest |-> Lent'[g]] /\ Lent = [g \in Guest |-> Lent[g]]
  BY DEF Lent
<1>4. QED
  BY <1>2, <1>3

\* When one user is done, what it had is nobody's again.
LEMMA LentIsBack ==
    ASSUME GuestExclusive, GuestExclusive', NEW t \in Task, Uses(t)' = {},
           \A u \in Task : u # t => Uses(u)' = Uses(u)
    PROVE  Lent' = [g \in Guest |-> IF Lent[g] = t THEN NoPhase ELSE Lent[g]]
<1>1. ASSUME NEW g \in Guest PROVE Lent'[g] = IF Lent[g] = t THEN NoPhase ELSE Lent[g]
  <2>1. CASE Lent[g] = t
    <3>1. g \in Uses(t)
      BY <2>1, LentIsUsed, NobodyIsNoUser
    <3>2. \A u \in Task : g \notin Uses(u)'
      BY <3>1 DEF GuestExclusive
    <3>3. QED
      BY <2>1, <3>2, LentAfter
  <2>2. CASE Lent[g] = NoPhase
    BY <2>2, LentTo, LentAfter, NobodyIsNoUser
  <2>3. CASE Lent[g] \notin {t, NoPhase}
    <3>1. PICK u \in Task : u = Lent[g] /\ g \in Uses(u)
      BY <2>3, LentIsUsed
    <3>2. QED
      BY <2>3, <3>1, LentAfter
  <2>4. QED
    BY <2>1, <2>2, <2>3
<1>2. Lent' = [g \in Guest |-> Lent'[g]]
  BY DEF Lent
<1>3. QED
  BY <1>1, <1>2

\* Where the guests and the evidence are at each stage of the drive.
Stages ==
    /\ pc = "boot" => guests = "none"
    /\ pc \in {"wait", "paused"} => guests = "up"
    /\ pc = "teardown" => evidence # NoEvidence
    /\ pc = "drain" => evidence = NoEvidence

\* Every action keeps that.
LEMMA StagesStep ==
    ASSUME Undisturbed, Known, NeverStopping, NeverStopping', EvidenceStands, Stages, [Next]_vars
    PROVE  Stages'
<1> USE DEF Stages
<1>0. pc # "stopping" /\ pc' # "stopping"
  BY DEF Undisturbed, NeverStopping
<1>1. CASE Booted \/ ScheduleTurns
  <2>1. evidence = NoEvidence /\ evidence' = evidence /\ guests' = "up"
    BY <1>1 DEF Booted, ScheduleTurns, Wake, Resumed, driveVars, EvidenceStands
  <2>2. pc' \in {"wait", "paused", "drain"}
    BY <1>1 DEF Booted, ScheduleTurns, Wake, Resumed, Turn, BeginPause, HoldBack, Launch
  <2>3. QED
    BY <2>1, <2>2
<1>2. CASE BootFails \/ Unwound \/ WriteFails \/ Teardown \/ Close
  BY <1>0, <1>2 DEF BootFails, Unwound, WriteFails, Teardown, Close, driveVars, EvidenceStands
<1>3. CASE WriteOutput
  BY <1>3, EvidenceIsSomething DEF WriteOutput, Known, TypeOK, SessionTypeOK
<1>4. CASE Stop
  BY <1>4, <1>0 DEF Stop, Interrupt, Undisturbed
<1>5. ASSUME NEW c \in Client, Request(c) \/ Serve(c) \/ EndClient(c) PROVE Stages'
  BY <1>5 DEF Request, Serve, EndClient, scheduleVars, driveVars
<1>6. ASSUME NEW c \in Client, ClientRaises(c) PROVE FALSE
  BY <1>6 DEF ClientRaises, Undisturbed
<1>7. ASSUME NEW p \in Phase, RunPhase(p) \/ EndPhase(p) \/ PhaseRaises(p) PROVE Stages'
  BY <1>0, <1>7 DEF RunPhase, EndPhase, PhaseRaises, PhaseSteps, PhaseEnds, scheduleVars, driveVars
<1>8. CASE UNCHANGED vars
  BY <1>8 DEF vars, scheduleVars, driveVars
<1>9. QED
  BY <1>1, <1>2, <1>3, <1>4, <1>5, <1>6, <1>7, <1>8 DEF Next, Done

\* A phase that drains has no answer, or was skipped since it was started.
DrainFits == \A p \in Phase : at[p] = "drain" => state[p] \in {"pending", "skipped"}

\* Every action keeps that.
LEMMA DrainFitsStep ==
    ASSUME Known, HandsOff, DrainFits, [Next]_vars
    PROVE  DrainFits'
<1> USE DEF DrainFits
<1>1. CASE Turning
  <2>1. PICK todo \in SUBSET Candidates :
           /\ at' = [t \in Task |-> IF t \in todo THEN "drain" ELSE at[t]]
           /\ UNCHANGED state
    BY <1>1, TurnStarts
  <2>2. \A p \in todo : state[p] = "pending"
    BY DEF Candidates, Ready, Runnable
  <2>3. QED
    BY <2>1, <2>2 DEF Task
<1>2. ASSUME NEW p \in Phase, PhaseRuns(p) PROVE DrainFits'
  <2>1. /\ job[p] = p /\ p \in Task
        /\ \A q \in Phase : q # p => at'[q] = at[q]
    BY <1>2, PhaseMoves DEF Task
  <2>2. \A q \in Phase : q # p => state'[q] \in {state[q], "skipped"}
    BY <1>2, <2>1 DEF PhaseRuns, RunStep, RunBegins, BodyEnds, RunPassed, RunFailed, RunCancelled, RunRaises,
                      Known, TypeOK, SessionTypeOK
  <2>3. at'[p] # "drain"
    BY <1>2, <2>1 DEF PhaseRuns, RunStep, RunBegins, BodyEnds, RunPassed, RunFailed, RunCancelled, RunRaises,
                      Leave, Known, TypeOK, SessionTypeOK
  <2>4. QED
    BY <2>1, <2>2, <2>3
<1>3. ASSUME NEW c \in Client, HandRuns(c) PROVE DrainFits'
  <2>1. running = {}
    BY <1>3 DEF HandRuns, HandsOff
  <2>2. \A p \in Phase : at'[p] = at[p]
    BY <1>3, HandMoves DEF Task
  <2>3. QED
    BY <2>1, <2>2 DEF Known, TasksKnown
<1>4. CASE Beside
  BY <1>4 DEF Beside
<1>5. QED
  BY <1>1, <1>2, <1>3, <1>4, StepKinds

\* Everything the mapping of a step rests on.
ContractInv ==
    /\ Known /\ Resting /\ RunningApart /\ HandsOff /\ QuietEnd /\ CancelEnds /\ NeverStopping
    /\ EvidenceStands /\ Stages /\ DrainFits

\* It holds at first.
LEMMA ContractInvInit == Init => ContractInv
<1> SUFFICES ASSUME Init PROVE ContractInv
  OBVIOUS
<1>1. \A t \in Task : at[t] = "idle"
  BY DEF Init, SessionInit
<1>2. QED
  BY <1>1, KnownInit DEF Init, SessionInit, ScheduleInit, ControlInit, ContractInv, HandsOff, Resting, QuietEnd,
     Ended, RunningApart, CancelEnds, NeverStopping, EvidenceStands, Stages, DrainFits, Task

\* Every action keeps it, with one client.
LEMMA ContractInvStep ==
    ASSUME Undisturbed, OneClient, ContractInv, [Next]_vars
    PROVE  ContractInv'
<1> USE DEF ContractInv
<1>1. "stop" \notin Faults
  BY DEF Undisturbed
<1>2. /\ Known' /\ Resting' /\ RunningApart' /\ HandsOff' /\ CancelEnds' /\ NeverStopping'
  BY KnownStep, RestingStep, ApartStep, HandsOffStep, CancelEndsStep, NeverStoppingStep
<1>3. QuietEnd' /\ EvidenceStands'
  BY <1>1, QuietEndStep, EvidenceStandsStep
<1>4. Stages' /\ DrainFits'
  BY <1>2, StagesStep, DrainFitsStep
<1>5. QED
  BY <1>2, <1>3, <1>4

\* A run has a guest; without one nobody could be lent anything.
HasGuests == Guest # {}

\* A task in run() has been lent a guest.
LEMMA InRunIsLent ==
    ASSUME HasGuests, Known, GuestExclusive, NEW t \in Task, at[t] # "idle"
    PROVE  \E g \in Guest : Lent[g] = t
<1>1. job[t] \in Phase /\ spec \in [Phase -> PhaseSpec]
  BY DEF Known, JobsKnown, TasksKnown, Task, TypeOK, SessionTypeOK
<1>2. Claims(spec, job[t]) # {} /\ Claims(spec, job[t]) \subseteq Guest
  BY <1>1 DEF HasGuests, Claims, PhaseSpec
<1>3. QED
  BY <1>2, LentTo DEF Uses

\* A step of run() reopens a phase, gives back its guests with an answer, or
\* is none of the contract's business.
LEMMA RunMaps ==
    ASSUME HasGuests, Known, Known', GuestExclusive, GuestExclusive', DrainFits, NEW t \in Task,
           job[t] \in Phase, at[t] # "idle", RunsOn(t), spec' = spec, job' = job,
           \A u \in Task : u # t => at'[u] = at[u],
           \A c \in Client : c # t => cli'[c] = cli[c],
           t \in Client => cli'[t] = IF at'[t] = "idle" THEN "reply" ELSE "busy",
           cli[t] = "busy" \/ t \notin Client, t \in Phase => job[t] = t,
           UNCHANGED <<evidence, guests>>
    PROVE  Contract!ContractNext \/ UNCHANGED Contract!contractVars
<1> DEFINE A == Answer(state)
           P == job[t]
<1>0. /\ state \in [Phase -> PhaseState] /\ at \in [Task -> Stage]
      /\ A \in [Phase -> PhaseState \cup {"none"}]
  BY DEF Known, TypeOK, SessionTypeOK, Answer
<1>1. \A u \in Task : u # t => Uses(u)' = Uses(u)
  BY DEF Uses
<1>2. at'[t] # "idle" => Uses(t)' = Uses(t)
  BY DEF Uses
<1>3. at'[t] = "idle" => Uses(t)' = {}
  BY DEF Uses
<1>4. CASE RunBegins(t)
  <2>1. at'[t] = "body" /\ at[t] = "drain" /\ state' = [state EXCEPT ![P] = "running"]
    BY <1>0, <1>4 DEF RunBegins
  <2>2. Lent' = Lent
    BY <1>1, <1>2, <2>1, SameIsLent
  <2>3. Answer(state') = [A EXCEPT ![P] = "none"]
    BY <1>0, <2>1 DEF Answer, Unfinished
  <2>4. CASE A[P] = "none"
    <3>1. Answer(state') = A
      BY <1>0, <2>3, <2>4
    <3>2. QED
      BY <2>2, <3>1 DEF Contract!contractVars
  <2>5. CASE A[P] # "none"
    <3>1. PICK g \in Guest : Lent[g] = t
      BY InRunIsLent
    <3>2. t \in Client \/ (t = P /\ A[P] = "skipped")
      BY <2>1, <2>5 DEF Task, DrainFits, Answer, Unfinished
    <3>3. Contract!Reopen(P)
      BY <2>2, <2>3, <3>1, <3>2 DEF Contract!Reopen
    <3>4. QED
      BY <3>3 DEF Contract!ContractNext
  <2>6. QED
    BY <2>4, <2>5
<1>5. CASE BodyEnds(t, "passing") \/ BodyEnds(t, "failing")
  <2>1. at'[t] # "idle" /\ state' = state
    BY <1>0, <1>5 DEF BodyEnds
  <2>2. Lent' = Lent
    BY <1>1, <1>2, <2>1, SameIsLent
  <2>3. QED
    BY <2>1, <2>2 DEF Contract!contractVars
<1>6. ASSUME at'[t] = "idle",
             \/ Answer(state') = [A EXCEPT ![P] = "passed"]
             \/ \E S \in SUBSET {q \in Phase : A[q] = "none"} :
                   Answer(state') = [q \in Phase |-> IF q = P THEN "failed"
                                                     ELSE IF q \in S THEN "skipped" ELSE A[q]]
      PROVE  Contract!GiveBack(t) /\ t \in Contract!User
  <2>1. Lent' = [g \in Guest |-> IF Lent[g] = t THEN NoPhase ELSE Lent[g]]
    BY <1>1, <1>3, <1>6, LentIsBack
  <2>2. P \in IF t \in Client THEN Phase ELSE {t}
    BY DEF Task
  <2>3. \E g \in Guest : Lent[g] = t
    BY InRunIsLent
  <2>4. QED
    BY <1>6, <2>1, <2>2, <2>3 DEF Contract!GiveBack, Contract!User, Task
<1>7. CASE RunPassed(t)
  <2>1. at'[t] = "idle" /\ state' = [state EXCEPT ![P] = "passed"]
    BY <1>0, <1>7 DEF RunPassed, Leave
  <2>2. Answer(state') = [A EXCEPT ![P] = "passed"]
    BY <1>0, <2>1 DEF Answer, Unfinished
  <2>3. QED
    BY <1>6, <2>1, <2>2 DEF Contract!ContractNext
<1>8. CASE RunFailed(t)
  <2> DEFINE S == {q \in SkippedBy(spec, P) : state[q] = "pending"}
  <2>1. /\ at'[t] = "idle"
        /\ state' = [q \in Phase |-> IF q = P THEN "failed" ELSE IF q \in S THEN "skipped" ELSE state[q]]
    BY <1>0, <1>8 DEF RunFailed, Leave
  <2>2. S \in SUBSET {q \in Phase : A[q] = "none"}
    BY DEF SkippedBy, Dependents, Answer, Unfinished
  <2>3. Answer(state') = [q \in Phase |-> IF q = P THEN "failed" ELSE IF q \in S THEN "skipped" ELSE A[q]]
    BY <1>0, <2>1 DEF Answer, Unfinished
  <2>4. QED
    BY <1>6, <2>1, <2>2, <2>3 DEF Contract!ContractNext
<1>9. QED
  BY <1>4, <1>5, <1>7, <1>8 DEF RunsOn

\* A turn lends what it starts.
LEMMA TurnMaps ==
    ASSUME Known, GuestExclusive, GuestExclusive', Turning, evidence = NoEvidence, UNCHANGED evidence,
           guests' = "up"
    PROVE  Contract!ContractNext \/ UNCHANGED Contract!contractVars
<1>1. PICK todo \in SUBSET Candidates :
         /\ at' = [t \in Task |-> IF t \in todo THEN "drain" ELSE at[t]]
         /\ UNCHANGED <<spec, state, job, cli>>
  BY TurnStarts
<1>2. \A t \in todo : t \in Phase /\ at[t] = "idle"
  BY <1>1 DEF Candidates, Ready, Runnable, Known, TasksKnown
<1>3. \A t \in Task : Uses(t) \subseteq Uses(t)'
  <2>1. ASSUME NEW t \in Task PROVE Uses(t) \subseteq Uses(t)'
    <3>1. CASE t \in todo
      <4>1. Uses(t) = {}
        BY <1>2, <3>1, PhaseIsNotClient DEF Uses
      <4>2. QED
        BY <4>1
    <3>2. CASE t \notin todo
      BY <1>1, <3>2 DEF Uses
    <3>3. QED
      BY <3>1, <3>2
  <2>2. QED
    BY <2>1
<1>4. Contract!Lend
  BY <1>1, <1>3, MoreIsLent DEF Contract!Lend, Contract!User, Task
<1>5. QED
  BY <1>4 DEF Contract!ContractNext, Contract!Borrow, Contract!ComeUp

\* Guests are exclusive before and after a step.
LEMMA ExclusiveBothSides ==
    OneClient => (Known /\ RunningApart /\ HandsOff => GuestExclusive)
                 /\ (Known' /\ RunningApart' /\ HandsOff' => GuestExclusive')
<1>1. OneClient /\ Known /\ RunningApart /\ HandsOff => GuestExclusive
  BY InvExcludes
<1>2. (OneClient /\ Known /\ RunningApart /\ HandsOff => GuestExclusive)'
  BY <1>1, PTL
<1>3. OneClient' <=> OneClient
  BY DEF OneClient
<1>4. QED
  BY <1>1, <1>2, <1>3

\* Every step of the drive is one of the contract, or none of its business.
LEMMA StepMaps ==
    ASSUME Undisturbed, OneClient, HasGuests, ContractInv, ContractInv', [Next]_vars
    PROVE  Contract!ContractNext \/ UNCHANGED Contract!contractVars
<1> USE DEF ContractInv
<1> DEFINE Maps == Contract!ContractNext \/ UNCHANGED Contract!contractVars
<1>0. GuestExclusive /\ GuestExclusive'
  BY ExclusiveBothSides
<1>1. pc # "stopping"
  BY DEF NeverStopping, Undisturbed
<1>2. ASSUME UNCHANGED <<state, evidence, guests>>, \A t \in Task : Uses(t)' = Uses(t) PROVE Maps
  BY <1>0, <1>2, SameIsLent DEF Contract!contractVars
<1>3. CASE Booted \/ ScheduleTurns
  <2>1. Turning /\ guests' = "up" /\ evidence' = evidence
    BY <1>3 DEF Booted, ScheduleTurns, Wake, Resumed, Turning, driveVars, Stages
  <2>2. evidence = NoEvidence
    BY <1>3 DEF Booted, ScheduleTurns, Wake, Resumed, EvidenceStands
  <2>3. QED
    BY <1>0, <2>1, <2>2, TurnMaps
<1>4. ASSUME BootFails \/ Unwound \/ WriteOutput \/ WriteFails \/ Teardown \/ Close \/ Stop \/ UNCHANGED vars
      PROVE  Maps
  <2>1. UNCHANGED <<spec, state, at, job, cli>>
    BY <1>4 DEF BootFails, Unwound, WriteOutput, WriteFails, Teardown, Close, Stop, vars, sessionVars, controlVars
  <2>2. \A t \in Task : Uses(t)' = Uses(t)
    BY <2>1 DEF Uses
  <2>3. Lent' = Lent
    BY <1>0, <2>2, SameIsLent
  <2>4. CASE BootFails
    <3>1. guests = "none" /\ evidence = NoEvidence /\ evidence' = evidence
      BY <2>4 DEF BootFails, Stages, EvidenceStands
    <3>2. CASE guests' = "up"
      <4>1. Contract!Lend
        BY <1>0, <2>1, <2>2, <3>1, MoreIsLent DEF Contract!Lend, Contract!User, Task
      <4>2. QED
        BY <3>1, <3>2, <4>1 DEF Contract!ComeUp, Contract!ContractNext
    <3>3. CASE guests' = "none"
      BY <1>2, <2>1, <2>2, <3>1, <3>3
    <3>4. QED
      BY <2>4, <3>2, <3>3 DEF BootFails
  <2>5. CASE WriteOutput
    <3>1. \A g \in Guest : Lent[g] = NoPhase
      <4>1. \A t \in Task : Uses(t) = {}
        BY <2>5 DEF WriteOutput, QuietEnd, Ended, Known, TasksKnown, Uses, Task
      <4>2. QED
        BY <4>1, LentToNobody
    <3>2. evidence = NoEvidence /\ evidence' # NoEvidence /\ evidence'.phases = state /\ guests' = guests
      BY <2>5, EvidenceIsSomething DEF WriteOutput, Stages, Known, TypeOK, SessionTypeOK
    <3>3. Contract!Publish
      BY <2>1, <2>3, <3>1, <3>2 DEF Contract!Publish
    <3>4. QED
      BY <3>3 DEF Contract!ContractNext
  <2>6. CASE Teardown
    <3>1. evidence # NoEvidence /\ evidence' = evidence
      BY <2>6 DEF Teardown, Stages
    <3>2. CASE guests = "up"
      <4>1. Contract!GoDown
        BY <2>1, <2>3, <2>6, <3>1, <3>2 DEF Contract!GoDown, Teardown
      <4>2. QED
        BY <4>1 DEF Contract!ContractNext
    <3>3. CASE guests # "up"
      BY <1>2, <2>1, <2>2, <2>6, <3>1, <3>3 DEF Teardown
    <3>4. QED
      BY <3>2, <3>3
  <2>7. CASE Stop
    <3>1. pc \in {"drain", "teardown"}
      BY <2>7 DEF Stop, Undisturbed
    <3>2. UNCHANGED <<evidence, guests>>
      BY <2>7, <3>1 DEF Stop, Interrupt
    <3>3. QED
      BY <1>2, <2>1, <2>2, <3>2
  <2>8. CASE WriteFails \/ Close \/ UNCHANGED vars
    BY <1>2, <2>1, <2>2, <2>8 DEF WriteFails, Close, vars, driveVars
  <2>9. QED
    BY <1>1, <1>4, <2>4, <2>5, <2>6, <2>7, <2>8 DEF Unwound
<1>5. ASSUME NEW c \in Client, Request(c) \/ Serve(c) \/ EndClient(c) PROVE Maps
  <2>0. /\ UNCHANGED <<evidence, guests, pc, running>>
        /\ c \in Task /\ c \notin Phase
    BY <1>5, PhaseIsNotClient DEF Request, Serve, EndClient, scheduleVars, driveVars, Task
  <2>1. CASE Request(c)
    <3>1. PICK op \in Op : Ask(c, op)
      BY <2>1 DEF Request
    <3>2. /\ UNCHANGED <<spec, state, at>> /\ at[c] = "idle"
          /\ \A t \in Task : t # c => job'[t] = job[t]
          /\ \A d \in Client : cli'[d] = "busy" <=> cli[d] = "busy"
      BY <3>1 DEF Ask, Known, TasksKnown, TypeOK, SessionTypeOK, ControlTypeOK
    <3>3. \A t \in Task : Uses(t)' = Uses(t)
      BY <3>2 DEF Uses
    <3>4. QED
      BY <1>2, <2>0, <3>2, <3>3
  <2>2. CASE Handle(c)
    <3>1. /\ UNCHANGED <<spec, state, job>>
          /\ Uses(c) = {}
          /\ \A d \in Client : d # c => cli'[d] = cli[d]
      BY <2>2 DEF Handle, Uses, Known, TasksKnown, TypeOK, ControlTypeOK
    <3>2. \A t \in Task : t # c => at'[t] = at[t]
      BY <2>2 DEF Handle, Enters, Known, TypeOK, SessionTypeOK
    <3>3. \A t \in Task : t # c => Uses(t)' = Uses(t)
      BY <3>1, <3>2 DEF Uses
    <3>4. CASE Uses(c)' = {}
      <4>1. \A t \in Task : Uses(t)' = Uses(t)
        BY <3>1, <3>3, <3>4
      <4>2. QED
        BY <1>2, <2>0, <3>1, <4>1
    <3>5. CASE Uses(c)' # {}
      <4>1. Paused
        <5>1. ASSUME ~ Paused PROVE cli'[c] = "reply" /\ at'[c] = "idle"
          BY <2>2, <5>1 DEF Handle, Known, TasksKnown, TypeOK, ControlTypeOK
        <5>2. QED
          BY <3>5, <5>1 DEF Uses
      <4>2. guests = "up" /\ evidence = NoEvidence
        BY <4>1 DEF Paused, HandsOff, Stages, EvidenceStands
      <4>3. \A t \in Task : Uses(t) \subseteq Uses(t)'
        <5>1. ASSUME NEW t \in Task PROVE Uses(t) \subseteq Uses(t)'
          <6>1. CASE t = c
            BY <3>1, <6>1
          <6>2. CASE t # c
            BY <3>3, <6>2
          <6>3. QED
            BY <6>1, <6>2
        <5>2. QED
          BY <5>1
      <4>4. Contract!Lend
        BY <1>0, <2>0, <3>1, <4>2, <4>3, MoreIsLent DEF Contract!Lend, Contract!User, Task
      <4>5. QED
        BY <2>0, <4>2, <4>4 DEF Contract!Borrow, Contract!ContractNext
    <3>6. QED
      BY <3>4, <3>5
  <2>3. CASE ExecEnds(c)
    <3>1. /\ UNCHANGED <<spec, state, job, at>> /\ at[c] = "idle" /\ cli[c] = "busy"
          /\ \A d \in Client : cli'[d] = IF d = c THEN "reply" ELSE cli[d]
      BY <2>3 DEF ExecEnds, sessionVars, Known, TasksKnown, TypeOK, ControlTypeOK
    <3>2. Uses(c) = Guest /\ Uses(c)' = {} /\ \A t \in Task : t # c => Uses(t)' = Uses(t)
      BY <3>1 DEF Uses
    <3>3. Lent' = [g \in Guest |-> IF Lent[g] = c THEN NoPhase ELSE Lent[g]]
      BY <1>0, <2>0, <3>2, LentIsBack
    <3>4. \E g \in Guest : Lent[g] = c
      BY <1>0, <2>0, <3>2, LentTo DEF HasGuests
    <3>5. Contract!GiveBack(c) /\ c \in Contract!User
      BY <2>0, <3>1, <3>3, <3>4 DEF Contract!GiveBack, Contract!User
    <3>6. QED
      BY <3>5 DEF Contract!ContractNext
  <2>4. CASE HandRunSteps(c) \/ HandRunEnds(c)
    <3>1. cli[c] = "busy" /\ ask[c] = "run" /\ RunsOn(c)
      BY <2>4 DEF HandRunSteps, HandRunEnds, RunsOn
    <3>2. HandRuns(c)
      BY <2>0, <3>1 DEF HandRuns, RunStep, RunsOn
    <3>3. at'[c] = "idle" <=> HandRunEnds(c)
      BY <2>4 DEF HandRunSteps, HandRunEnds, RunBegins, BodyEnds, RunPassed, RunFailed, Leave, Known, TypeOK,
                  SessionTypeOK, Task
    <3>4. \A d \in Client : cli'[d] = IF d = c /\ HandRunEnds(c) THEN "reply" ELSE cli[d]
      BY <2>4, <3>3 DEF HandRunSteps, HandRunEnds, controlVars, Known, TypeOK, ControlTypeOK
    <3>5. QED
      BY <1>0, <2>0, <3>1, <3>2, <3>3, <3>4, HandMoves, RunMaps
  <2>5. CASE Reply(c)
    <3>1. /\ UNCHANGED <<spec, state, job, at>>
          /\ \A d \in Client : cli'[d] = "busy" <=> cli[d] = "busy"
      BY <2>5 DEF Reply, sessionVars, Known, TypeOK, ControlTypeOK
    <3>2. \A t \in Task : Uses(t)' = Uses(t)
      BY <3>1 DEF Uses
    <3>3. QED
      BY <1>2, <2>0, <3>1, <3>2
  <2>6. CASE EndClient(c)
    <3>1. Ended
      BY <1>1, <2>6 DEF EndClient, CancelEnds, Ended, Known, TypeOK, Places
    <3>2. cli[c] # "busy" /\ at[c] = "idle"
      BY <3>1 DEF QuietEnd, Known, TasksKnown
    <3>3. /\ UNCHANGED <<spec, state, job, at>>
          /\ \A d \in Client : cli'[d] = "busy" <=> cli[d] = "busy"
      BY <2>6, <3>2 DEF EndClient, ClientCancelled, sessionVars, Known, TypeOK, ControlTypeOK
    <3>4. \A t \in Task : Uses(t)' = Uses(t)
      BY <3>3 DEF Uses
    <3>5. QED
      BY <1>2, <2>0, <3>3, <3>4
  <2>7. QED
    BY <1>5, <2>1, <2>2, <2>3, <2>4, <2>5, <2>6 DEF Serve
<1>6. ASSUME NEW c \in Client, ClientRaises(c) PROVE FALSE
  BY <1>6 DEF ClientRaises, Undisturbed
<1>7. ASSUME NEW p \in Phase, RunPhase(p) \/ EndPhase(p) \/ PhaseRaises(p) PROVE Maps
  <2>1. PhaseRuns(p) /\ RunsOn(p) /\ UNCHANGED <<evidence, guests>>
    BY <1>1, <1>7 DEF RunPhase, EndPhase, PhaseRaises, PhaseSteps, PhaseEnds, PhaseRuns, RunStep, RunsOn,
                      controlVars, driveVars, Undisturbed
  <2>2. QED
    BY <1>0, <2>1, PhaseMoves, PhaseIsNotClient, RunMaps DEF PhaseRuns
<1>8. QED
  BY <1>3, <1>4, <1>5, <1>6, <1>7 DEF Next, Done

\* The drive implements RunContract: with one client, whatever boot, the writing
\* of the evidence and a late ^C do, every step of it lends guests nobody has,
\* gives back a user's with an answer, reopens a phase, publishes the answers
\* as they stand, puts the guests down after that, or changes nothing a reader
\* of the run could see.
THEOREM DriveKeepsContract ==
    ASSUME OneClient, HasGuests, Faults \cap {"stop", "gone", "raise"} = {}
    PROVE  Spec => KeepsContract
<1>1. Init => Contract!ContractInit
  <2> SUFFICES ASSUME Init PROVE Contract!ContractInit
    OBVIOUS
  <2>1. \A t \in Task : Uses(t) = {}
    BY DEF Init, SessionInit, ControlInit, Uses
  <2>2. Lent = [g \in Guest |-> NoPhase]
    BY <2>1 DEF Lent
  <2>3. Answer(state) \in [Phase -> {"none", "deselected"}]
    BY DEF Init, SessionInit, Answer, Unfinished
  <2>4. QED
    BY <2>2, <2>3 DEF Init, Contract!ContractInit
<1>2. Undisturbed
  BY DEF Undisturbed
<1>3. ContractInv /\ [Next]_vars => ContractInv'
  BY <1>2, ContractInvStep
<1>4. ContractInv /\ ContractInv' /\ [Next]_vars => [Contract!ContractNext]_Contract!contractVars
  BY <1>2, StepMaps
<1>5. QED
  BY <1>1, <1>3, <1>4, ContractInvInit, PTL DEF Spec, KeepsContract, Contract!ContractSpec
=============================================================================
