----------------------------- MODULE PhaseLoops -----------------------------
(***************************************************************************)
(* The two functions of phases.py that loop, as they are written.          *)
(*                                                                         *)
(*   dependents  grows `found' pass by pass until a pass adds nothing      *)
(*   launchable  takes the candidates one by one, each unless a guest it   *)
(*               wants is held                                             *)
(*                                                                         *)
(* Phases says what they return without a loop; here the loops are shown to*)
(* return that.  A behaviour is one call of one of them.  The graph is any *)
(* graph, sorted or not: `dependents' means not to depend on the sort.     *)
(***************************************************************************)
EXTENDS Phases

CONSTANTS Graphs,   \* the specs to call `dependents' on
          Lists     \* the specs to call `launchable' on

ASSUME GraphsAssumption == Graphs \subseteq [Phase -> PhaseSpec]
ASSUME ListsAssumption == Lists \subseteq [Phase -> PhaseSpec]

VARIABLES call,             \* the function called
          spec,             \* its list of phases
          name, found,      \* dependents: the argument, and what it found
          candidates,       \* launchable: the argument `ready'
          running,          \* and the argument `running'
          left,             \* the candidates it has not looked at
          held, chosen,
          returned          \* the call is over

walkVars == <<name, found>>
chooseVars == <<candidates, running, left, held, chosen>>
vars == <<call, spec, walkVars, chooseVars, returned>>

NoPhase == 0

CallDependents ==
    /\ call = "dependents"
    /\ spec \in Graphs
    /\ name \in Phase /\ found = {name}
    /\ candidates = {} /\ running = {} /\ left = {} /\ held = {} /\ chosen = {}

CallLaunchable ==
    /\ call = "launchable"
    /\ spec \in Lists
    /\ name = NoPhase /\ found = {}
    /\ candidates \in SUBSET Phase
    /\ running \in SUBSET (Phase \ candidates)
    /\ left = candidates
    /\ held = ClaimsOf(spec, running)
    /\ chosen = {}

Init == (CallDependents \/ CallLaunchable) /\ returned = FALSE

-----------------------------------------------------------------------------
(* dependents *)

\* Seeded bugs: a pass sees only what names the phase itself, or forgets what
\* the pass before found.
GrownOnce == found \cup NamesOneOf(spec, {name})
GrownAfresh == NamesOneOf(spec, found)

Grown == found \cup NamesOneOf(spec, found)

\* One pass over the list.
Pass ==
    /\ call = "dependents" /\ ~ returned
    /\ Grown # found
    /\ found' = Grown
    /\ UNCHANGED <<call, spec, name, chooseVars, returned>>

\* The pass that added nothing was the last.
PassOver ==
    /\ call = "dependents" /\ ~ returned
    /\ Grown = found
    /\ returned' = TRUE
    /\ UNCHANGED <<call, spec, walkVars, chooseVars>>

-----------------------------------------------------------------------------
(* launchable *)

\* Seeded bugs: the first conflict ends the loop, or what is chosen holds
\* nothing.
LookUntilConflict(p) ==
    /\ p \in left
    /\ \A q \in left : p <= q
    /\ IF held \cap Claims(spec, p) = {}
         THEN held' = held \cup Claims(spec, p) /\ chosen' = chosen \cup {p} /\ left' = left \ {p}
         ELSE left' = {} /\ UNCHANGED <<held, chosen>>
    /\ UNCHANGED <<call, spec, walkVars, candidates, running, returned>>

LookWithoutHolding(p) ==
    /\ p \in left
    /\ \A q \in left : p <= q
    /\ left' = left \ {p}
    /\ chosen' = IF held \cap Claims(spec, p) = {} THEN chosen \cup {p} ELSE chosen
    /\ UNCHANGED <<call, spec, walkVars, candidates, running, held, returned>>

\* The next candidate, in the order given.
Look(p) ==
    /\ p \in left
    /\ \A q \in left : p <= q
    /\ left' = left \ {p}
    /\ IF held \cap Claims(spec, p) = {}
         THEN held' = held \cup Claims(spec, p) /\ chosen' = chosen \cup {p}
         ELSE UNCHANGED <<held, chosen>>
    /\ UNCHANGED <<call, spec, walkVars, candidates, running, returned>>

LookOver ==
    /\ call = "launchable" /\ ~ returned
    /\ left = {}
    /\ returned' = TRUE
    /\ UNCHANGED <<call, spec, walkVars, chooseVars>>

-----------------------------------------------------------------------------

Over == returned /\ UNCHANGED vars

Next == Pass \/ PassOver \/ LookOver \/ Over \/ \E p \in Phase : Look(p)

Spec == Init /\ [][Next]_vars /\ WF_vars(Next)

\* What `dependents' returns is every phase the failure reaches and no other:
\* `always' stops the walk, order does not matter, a cycle is harmless.
ReturnsDependents ==
    call = "dependents" /\ returned => found \ {name} = Dependents(spec, name)

\* `launchable' returns the one set that IsLaunchable describes: the
\* scheduler, which starts a set of that description, has no other to choose.
ReturnsLaunchable ==
    call = "launchable" /\ returned =>
       \A todo \in SUBSET candidates :
          IsLaunchable(todo, spec, candidates, running) <=> todo = chosen

\* However the caller's running phases overlap among themselves, nothing
\* chosen shares a guest with one of them or with another chosen.
ChosenApart ==
    \A p \in chosen, q \in chosen \cup running :
        p # q => Claims(spec, p) \cap Claims(spec, q) = {}

\* The call returns, whatever the graph.
Returns == <>returned

=============================================================================
