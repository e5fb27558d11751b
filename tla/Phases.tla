------------------------------- MODULE Phases -------------------------------
(***************************************************************************)
(* The pure half of a run (pkgs/uml/uml/phases.py): which phases may       *)
(* start, which may start together, and which a failure takes with it.     *)
(*                                                                         *)
(* A phase is its position in the list Nix sorted, so "in the order given" *)
(* is the order of the numbers.  The functions of phases.py take the list  *)
(* of phases and what has happened so far; so do the operators here, as    *)
(* `spec' (a PhaseSpec for every phase) and `state'.                       *)
(***************************************************************************)
EXTENDS Integers, FiniteSets

CONSTANTS NumPhases,    \* how many phases the spec declares
          Guest         \* the guests' names: `every' in phases.py

ASSUME NumPhasesAssumption == NumPhases \in Nat

Phase == 1..NumPhases

\* A name some `after' holds that no phase has.  Nix refuses it
\* (modules/run.nix, `unknown'); a spec that did not come from Nix may hold it.
Unknown == 0

PhaseSpec == [after  : SUBSET (Phase \cup {Unknown}),
              nodes  : SUBSET Guest,
              always : BOOLEAN,
              pytest : BOOLEAN]

PhaseState == {"pending", "running", "passed", "failed",
               "skipped", "interrupted", "deselected"}

Unfinished == {"pending", "running"}

-----------------------------------------------------------------------------

\* One pass of the loop of `dependents': everything that names something
\* already found.  An `always' phase is never found, so nothing is found
\* through it either.
NamesOneOf(spec, found) ==
    {q \in Phase : ~ spec[q].always /\ spec[q].after \cap found # {}}

\* Every phase that depends on p, directly or through another: the least set
\* that a pass adds nothing to.  PhaseLoops checks that the loop computes it.
Dependents(spec, p) ==
    LET Closed(S) == p \in S /\ NamesOneOf(spec, S) \subseteq S
    IN  {q \in Phase \ {p} : \A S \in SUBSET Phase : Closed(S) => q \in S}

\* Seeded bugs: only what names p is skipped, or everything listed after it.
SkippedByDirect(spec, p) == NamesOneOf(spec, {p})
SkippedByPosition(spec, p) == {q \in Phase : p < q}

\* The phases a failure of p skips, among those not yet run.
SkippedBy(spec, p) == Dependents(spec, p)

\* Seeded bug: a skipped phase is still worth running.
RunnableIfSkipped(state) == {p \in Phase : state[p] \in {"pending", "skipped"}}

Runnable(state) == {p \in Phase : state[p] = "pending"}

\* Seeded bug: a phase that runs is taken for one that has an answer.
ReadyBesideRunning(spec, state) ==
    {p \in Runnable(state) :
        \A a \in spec[p].after : a \in Phase /\ state[a] # "pending"}

\* Pending phases whose every `after' has an answer, any answer.  A name no
\* phase has counts as pending for ever.
Ready(spec, state) ==
    {p \in Runnable(state) :
        \A a \in spec[p].after : a \in Phase /\ state[a] \notin Unfinished}

\* The guests a phase holds while it runs.
Claims(spec, p) ==
    IF spec[p].pytest \/ spec[p].nodes = {} THEN Guest ELSE spec[p].nodes

ClaimsOf(spec, S) == UNION {Claims(spec, p) : p \in S}

\* todo is what `launchable' returns for these candidates beside the running
\* phases: taken in order, each one unless something already holds a guest
\* it wants.
IsLaunchable(todo, spec, candidates, running) ==
    /\ todo \subseteq candidates
    /\ \A p \in candidates :
          p \in todo <=>
             Claims(spec, p) \cap ClaimsOf(spec, running \cup {q \in todo : q < p}) = {}

\* Did the run succeed?
Passed(state) == \A p \in Phase : state[p] \in {"passed", "deselected"}

=============================================================================
