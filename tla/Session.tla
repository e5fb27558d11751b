------------------------------- MODULE Session -------------------------------
(***************************************************************************)
(* Session.run (pkgs/uml/uml/session.py): one phase from the call to its   *)
(* answer, by any number of callers at once.                               *)
(*                                                                         *)
(* A caller is a task: the scheduler's task for phase p is p itself, and a *)
(* request that runs a phase by hand is the task of its client.  Everything*)
(* is on one event loop, so the code between two awaits is one step.  The  *)
(* awaits of run() are, in order:                                          *)
(*                                                                         *)
(*   drain    `await self.drain()', before anything is recorded            *)
(*   body     the script or pytest                                         *)
(*   passing  `await self.settle()' after a body that returned             *)
(*   failing  `await self.settle()' after a body that raised               *)
(*                                                                         *)
(* "idle" is a task that is not in run().                                  *)
(*                                                                         *)
(* A drain holds the lock `_draining', which is handed on in the order it  *)
(* was asked for, and settle ends in a drain.  So a task that was on its   *)
(* first drain when a body ended is through it before that task is through *)
(* its settle; one started later may still be at it.                       *)
(***************************************************************************)
EXTENDS Phases

CONSTANTS Client,       \* who may run a phase by hand; see Control
          Specs,        \* the specs to run: each one a choice of Init
          Selections    \* the sets of phases `--only' may leave selected

ASSUME ClientAssumption == Client \cap Int = {}
ASSUME SpecsAssumption == Specs \subseteq [Phase -> PhaseSpec]
ASSUME SelectionsAssumption == Selections \subseteq SUBSET Phase

VARIABLES spec,         \* session.spec.phases: never changes
          state,        \* session.state
          holder,       \* session.running: the phase that holds a guest
          errors,       \* the keys of session.errors
          at,           \* the await of run() each task is in
          job,          \* the phase each task runs
          ahead         \* the first drains each task's own drain waits behind

sessionVars == <<spec, state, holder, errors, at, job, ahead>>

Task == Phase \cup Client
NoPhase == 0
Stage == {"idle", "drain", "body", "passing", "failing"}

\* `phase.nodes or list(self.vms)': the guests run() marks as held.  Not the
\* guests a phase claims: a pytest phase claims all of them.
NodesOf(p) == IF spec[p].nodes = {} THEN Guest ELSE spec[p].nodes

SessionTypeOK ==
    /\ spec \in [Phase -> PhaseSpec]
    /\ state \in [Phase -> PhaseState]
    /\ holder \in [Guest -> Phase \cup {NoPhase}]
    /\ errors \subseteq Phase
    /\ at \in [Task -> Stage]
    /\ job \in [Task -> Phase \cup {NoPhase}]
    /\ ahead \in [Task -> SUBSET Task]

\* Session.__init__, and `--only' of cli.run, which marks the rest.
SessionInit ==
    /\ spec \in Specs
    /\ \E only \in Selections :
          state = [p \in Phase |-> IF p \in only THEN "pending" ELSE "deselected"]
    /\ holder = [g \in Guest |-> NoPhase]
    /\ errors = {}
    /\ at = [t \in Task |-> "idle"]
    /\ job = [t \in Task |-> IF t \in Phase THEN t ELSE NoPhase]
    /\ ahead = [t \in Task |-> {}]

-----------------------------------------------------------------------------

\* Seeded bug: every guest is given back, not only the phase's.
ReleaseAll(p) == holder' = [g \in Guest |-> NoPhase]

\* _release: whoever the session thinks holds them.
Release(p) == holder' = [g \in Guest |-> IF g \in NodesOf(p) THEN NoPhase ELSE holder[g]]

Leave(t) == at' = [at EXCEPT ![t] = "idle"]

\* Who is on a first drain: has asked for the lock, or holds it.
Draining == {t \in Task : at[t] = "drain"}

\* The lock is handed on: nobody waits for t any longer, nor t for anybody.
LetGo(t) == ahead' = [u \in Task |-> IF u = t THEN {} ELSE ahead[u] \ {t}]

\* The drain is over: the phase is running, and its guests are its own.
RunBegins(t) ==
    /\ at[t] = "drain" /\ ahead[t] = {}
    /\ at' = [at EXCEPT ![t] = "body"]
    /\ LetGo(t)
    /\ state' = [state EXCEPT ![job[t]] = "running"]
    /\ holder' = [g \in Guest |-> IF g \in NodesOf(job[t]) THEN job[t] ELSE holder[g]]
    /\ UNCHANGED <<spec, errors, job>>

\* The script or pytest returned ("passing") or raised ("failing"), and settle
\* has its drains to come, the last of them behind all that is asked for now.
BodyEnds(t, how) ==
    /\ at[t] = "body"
    /\ at' = [at EXCEPT ![t] = how]
    /\ ahead' = [ahead EXCEPT ![t] = Draining]
    /\ UNCHANGED <<spec, state, holder, errors, job>>

\* Settled after a body that returned.
RunPassed(t) ==
    /\ at[t] = "passing" /\ ahead[t] = {}
    /\ Leave(t)
    /\ Release(job[t])
    /\ state' = [state EXCEPT ![job[t]] = "passed"]
    /\ UNCHANGED <<spec, errors, job, ahead>>

\* Seeded bug: a failure takes answered phases with it.
RunFailedOverAnswers(t) ==
    /\ at[t] = "failing" /\ ahead[t] = {}
    /\ Leave(t)
    /\ Release(job[t])
    /\ state' = [p \in Phase |->
                    IF p = job[t] THEN "failed"
                    ELSE IF p \in SkippedBy(spec, job[t]) THEN "skipped" ELSE state[p]]
    /\ errors' = errors \cup {job[t]}
    /\ UNCHANGED <<spec, job, ahead>>

\* Settled after a body that raised: the failure, and the pending phases it
\* takes with it, in the same step.
RunFailed(t) ==
    /\ at[t] = "failing" /\ ahead[t] = {}
    /\ Leave(t)
    /\ Release(job[t])
    /\ state' = [p \in Phase |->
                    IF p = job[t] THEN "failed"
                    ELSE IF p \in SkippedBy(spec, job[t]) /\ state[p] = "pending" THEN "skipped"
                    ELSE state[p]]
    /\ errors' = errors \cup {job[t]}
    /\ UNCHANGED <<spec, job, ahead>>

\* The task is cancelled at its await.  Only a cancel of the body is caught:
\* one that arrives in the drain or in settle leaves run() as it stands.
RunCancelled(t) ==
    /\ at[t] # "idle"
    /\ Leave(t)
    /\ LetGo(t)
    /\ IF at[t] = "body"
         THEN /\ state' = [state EXCEPT ![job[t]] = "interrupted"]
              /\ Release(job[t])
         ELSE UNCHANGED <<state, holder>>
    /\ UNCHANGED <<spec, errors, job>>

\* The drain or settle itself raised: a journal file that cannot be read, an
\* agent whose descriptor is closed.  settle catches MachineError and no more.
RunRaises(t) ==
    /\ at[t] \in {"drain", "passing", "failing"}
    /\ at[t] = "drain" => ahead[t] = {}
    /\ Leave(t)
    /\ LetGo(t)
    /\ UNCHANGED <<spec, state, holder, errors, job>>

=============================================================================
