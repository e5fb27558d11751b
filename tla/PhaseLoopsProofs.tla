-------------------------- MODULE PhaseLoopsProofs --------------------------
(***************************************************************************)
(* Proofs about PhaseLoops, for any list of any number of phases: sorted or*)
(* not, with cycles, with names no phase has.                              *)
(*                                                                         *)
(*   LoopReturnsDependents   dependents returns Phases!Dependents          *)
(*   LoopReturnsLaunchable   launchable returns the set IsLaunchable says  *)
(*   LoopChoosesApart        which shares no guest with anything           *)
(***************************************************************************)
EXTENDS PhaseLoops, TLAPS

TypeOK ==
    /\ call \in {"dependents", "launchable"}
    /\ spec \in [Phase -> PhaseSpec]
    /\ name \in Phase \cup {NoPhase} /\ found \subseteq Phase
    /\ candidates \subseteq Phase
    /\ running \subseteq Phase
    /\ left \subseteq candidates
    /\ chosen \subseteq candidates \ left
    /\ returned \in BOOLEAN

Closed(S) == name \in S /\ NamesOneOf(spec, S) \subseteq S

\* The walk never finds a phase outside a closed set, and is over only when
\* what it found is closed itself: the least closed set.
WalkInv ==
    /\ call = "dependents" => name \in Phase /\ name \in found
    /\ \A S \in SUBSET Phase : Closed(S) => found \subseteq S
    /\ call = "dependents" /\ returned => Closed(found)

Looked == candidates \ left

\* What is held is what running and chosen phases claim; a candidate looked
\* at was chosen for no other reason; and every set that fits agrees with the
\* loop on the candidates it has looked at.
ChooseInv ==
    /\ \A p \in Looked, q \in left : p < q
    /\ held = ClaimsOf(spec, running \cup chosen)
    /\ \A p \in Looked :
          p \in chosen <=>
             Claims(spec, p) \cap ClaimsOf(spec, running \cup {q \in chosen : q < p}) = {}
    /\ \A todo \in SUBSET candidates :
          IsLaunchable(todo, spec, candidates, running) => todo \cap Looked = chosen
    /\ call = "launchable" /\ returned => left = {}

IInv == TypeOK /\ WalkInv /\ ChooseInv

\* The invariant holds when either function is called.
LEMMA IInvInit == Init => IInv
<1> SUFFICES ASSUME Init PROVE IInv
  OBVIOUS
<1> USE GraphsAssumption, ListsAssumption DEF Init, CallDependents, CallLaunchable
<1>1. TypeOK
  BY DEF TypeOK
<1>2. WalkInv
  BY DEF WalkInv, Closed
<1>3. ChooseInv
  BY DEF ChooseInv, Looked, ClaimsOf
<1>4. QED
  BY <1>1, <1>2, <1>3 DEF IInv

\* A pass over a larger set finds at least what one over a smaller set does.
LEMMA FollowersGrow ==
    ASSUME NEW S, NEW T, S \subseteq T
    PROVE  NamesOneOf(spec, S) \subseteq NamesOneOf(spec, T)
BY DEF NamesOneOf

\* A step that leaves the choice alone keeps its half of the invariant.
LEMMA ChooseUndisturbed ==
    ASSUME IInv, UNCHANGED <<spec, chooseVars>>,
           call' = call, returned' => returned \/ (call = "launchable" => left = {})
    PROVE  ChooseInv'
<1>1. /\ spec' = spec /\ candidates' = candidates /\ running' = running
      /\ left' = left /\ held' = held /\ chosen' = chosen
  BY DEF chooseVars
<1>2. Looked' = Looked
  BY <1>1 DEF Looked
<1>3. QED
  BY <1>1, <1>2 DEF IInv, ChooseInv

\* A pass keeps the invariant: a closed set that holds what was found holds
\* what the pass adds.
LEMMA PassKeeps ==
    ASSUME IInv, Pass
    PROVE  IInv'
<1>1. NamesOneOf(spec, found) \subseteq Phase
  BY DEF NamesOneOf
<1>2. TypeOK'
  BY <1>1 DEF Pass, Grown, IInv, TypeOK, chooseVars
<1>3. ASSUME NEW S \in SUBSET Phase, Closed(S)' PROVE found' \subseteq S
  <2>1. Closed(S)
    BY <1>3 DEF Pass, Closed
  <2>2. found \subseteq S
    BY <2>1 DEF IInv, WalkInv
  <2>3. NamesOneOf(spec, found) \subseteq S
    BY <2>1, <2>2, FollowersGrow DEF Closed
  <2>4. QED
    BY <2>2, <2>3 DEF Pass, Grown
<1>4. WalkInv'
  BY <1>3 DEF Pass, Grown, IInv, WalkInv, TypeOK
<1>5. ChooseInv'
  BY ChooseUndisturbed DEF Pass
<1>6. QED
  BY <1>2, <1>4, <1>5 DEF IInv

\* So does the pass that adds nothing.
LEMMA PassOverKeeps ==
    ASSUME IInv, PassOver
    PROVE  IInv'
<1>1. Closed(found)
  BY DEF PassOver, Grown, IInv, WalkInv, Closed
<1>2. WalkInv'
  BY <1>1 DEF PassOver, IInv, WalkInv, Closed, walkVars
<1>3. ChooseInv'
  BY ChooseUndisturbed DEF PassOver
<1>4. QED
  BY <1>2, <1>3 DEF PassOver, IInv, TypeOK, walkVars, chooseVars

\* Looking at a candidate keeps it.
LEMMA LookKeeps ==
    ASSUME IInv, NEW p \in Phase, Look(p)
    PROVE  IInv'
<1> DEFINE Free == held \cap Claims(spec, p) = {}
<1>1. p \in candidates /\ p \notin chosen /\ p \notin Looked
  BY DEF Look, IInv, ChooseInv, TypeOK, Looked
<1>2. Looked' = Looked \cup {p}
  BY <1>1 DEF Look, Looked, IInv, TypeOK
<1>3. \A q \in Looked : q < p
  BY DEF Look, IInv, ChooseInv
<1>4. chosen \subseteq Looked /\ Looked \subseteq Phase
  BY DEF IInv, ChooseInv, TypeOK, Looked
<1>5. chosen' = IF Free THEN chosen \cup {p} ELSE chosen
  BY DEF Look
<1>6. TypeOK'
  BY <1>1 DEF Look, IInv, ChooseInv, TypeOK, walkVars
<1>7. \A q \in Looked', r \in left' : q < r
  <2>1. \A r \in left' : p < r
    BY DEF Look, IInv, ChooseInv, TypeOK, Phase
  <2>2. QED
    BY <1>2, <2>1 DEF Look, IInv, ChooseInv
<1>8. (held = ClaimsOf(spec, running \cup chosen))'
  BY <1>5 DEF Look, IInv, ChooseInv, ClaimsOf
<1>9. {q \in chosen : q < p} = chosen
  BY <1>3, <1>4
<1>10. \A q \in Looked : {r \in chosen' : r < q} = {r \in chosen : r < q}
  <2>1. \A q \in Looked : ~ (p < q)
    BY <1>3, <1>4 DEF Phase
  <2>2. QED
    BY <1>5, <2>1
<1>11. {r \in chosen' : r < p} = chosen
  BY <1>5, <1>9 DEF Phase
<1>12. (\A q \in Looked :
          q \in chosen <=>
             Claims(spec, q) \cap ClaimsOf(spec, running \cup {r \in chosen : r < q}) = {})'
  <2>1. ASSUME NEW q \in Looked
        PROVE  q \in chosen' <=>
                 Claims(spec, q) \cap ClaimsOf(spec, running \cup {r \in chosen' : r < q}) = {}
    <3>1. q \in chosen' <=> q \in chosen
      BY <1>1, <1>5, <2>1
    <3>2. QED
      BY <1>10, <2>1, <3>1 DEF IInv, ChooseInv
  <2>2. p \in chosen' <=>
          Claims(spec, p) \cap ClaimsOf(spec, running \cup {r \in chosen' : r < p}) = {}
    <3>1. p \in chosen' <=> Free
      BY <1>1, <1>5
    <3>2. Free <=> Claims(spec, p) \cap ClaimsOf(spec, running \cup chosen) = {}
      BY DEF IInv, ChooseInv
    <3>3. QED
      BY <1>11, <3>1, <3>2
  <2>3. spec' = spec /\ running' = running
    BY DEF Look
  <2>4. \A q \in Looked' :
          q \in chosen' <=>
             Claims(spec, q) \cap ClaimsOf(spec, running \cup {r \in chosen' : r < q}) = {}
    BY <1>2, <2>1, <2>2
  <2>5. QED
    BY <2>3, <2>4
<1>13. ASSUME NEW todo \in SUBSET candidates,
              IsLaunchable(todo, spec, candidates, running)
       PROVE  todo \cap Looked' = chosen'
  <2>1. todo \cap Looked = chosen
    BY <1>13 DEF IInv, ChooseInv
  <2>2. {q \in todo : q < p} = chosen
    <3>1. \A q \in candidates \ Looked : ~ (q < p)
      BY <1>1 DEF Look, IInv, ChooseInv, TypeOK, Looked, Phase
    <3>2. QED
      BY <1>3, <2>1, <3>1
  <2>3. p \in todo <=> Claims(spec, p) \cap ClaimsOf(spec, running \cup chosen) = {}
    BY <1>1, <1>13, <2>2 DEF IsLaunchable
  <2>4. p \in todo <=> Free
    BY <2>3 DEF IInv, ChooseInv
  <2>5. QED
    BY <1>1, <1>2, <1>5, <2>1, <2>4
<1>14. (\A todo \in SUBSET candidates :
          IsLaunchable(todo, spec, candidates, running) => todo \cap Looked = chosen)'
  <2>1. spec' = spec /\ candidates' = candidates /\ running' = running
    BY DEF Look
  <2>2. QED
    BY <1>13, <2>1
<1>15. WalkInv'
  BY DEF Look, IInv, WalkInv, Closed, walkVars
<1>16. (call = "launchable" /\ returned => left = {})'
  BY DEF Look, IInv, ChooseInv
<1>17. QED
  BY <1>6, <1>7, <1>8, <1>12, <1>14, <1>15, <1>16 DEF IInv, ChooseInv

\* Every step keeps the invariant.
LEMMA IInvStep == IInv /\ [Next]_vars => IInv'
<1> SUFFICES ASSUME IInv, [Next]_vars PROVE IInv'
  OBVIOUS
<1>1. ASSUME NEW p \in Phase, Look(p) PROVE IInv'
  BY <1>1, LookKeeps
<1>2. CASE LookOver \/ UNCHANGED vars
  <2>1. /\ UNCHANGED <<call, spec, walkVars, chooseVars>>
        /\ UNCHANGED returned \/ (returned' = TRUE /\ call = "launchable" /\ left = {})
    BY <1>2 DEF LookOver, vars
  <2>2. ChooseInv'
    BY <2>1, ChooseUndisturbed
  <2>3. TypeOK'
    BY <2>1 DEF IInv, TypeOK, walkVars, chooseVars
  <2>4. \A S : Closed(S)' <=> Closed(S)
    BY <2>1 DEF Closed, walkVars
  <2>5. Closed(found)' <=> Closed(found)
    BY <2>1 DEF Closed, walkVars
  <2>6. call' = call /\ name' = name /\ found' = found
    BY <2>1 DEF walkVars
  <2>7. WalkInv'
    BY <2>1, <2>4, <2>5, <2>6 DEF IInv, WalkInv
  <2>8. QED
    BY <2>2, <2>3, <2>7 DEF IInv
<1>3. QED
  BY <1>1, <1>2, PassKeeps, PassOverKeeps DEF Next, Over

\* A set that is closed and inside every closed set is the phase itself and
\* what depends on it.
LEMMA LeastIsDependents == IInv => ReturnsDependents
<1> SUFFICES ASSUME IInv, call = "dependents", returned
             PROVE  found \ {name} = Dependents(spec, name)
  BY DEF ReturnsDependents
<1>1. ASSUME NEW q \in Phase \ {name}
      PROVE  q \in found <=> \A S \in SUBSET Phase : Closed(S) => q \in S
  BY DEF IInv, WalkInv, TypeOK
<1>2. Dependents(spec, name) =
        {q \in Phase \ {name} : \A S \in SUBSET Phase : Closed(S) => q \in S}
  BY DEF Dependents, Closed
<1>3. QED
  BY <1>1, <1>2 DEF IInv, TypeOK

\* When no candidate is left the set chosen fits, and any that fits is it.
LEMMA LeftNothing == IInv => ReturnsLaunchable
<1> SUFFICES ASSUME IInv, call = "launchable", returned, NEW todo \in SUBSET candidates
             PROVE  IsLaunchable(todo, spec, candidates, running) <=> todo = chosen
  BY DEF ReturnsLaunchable
<1>1. Looked = candidates
  BY DEF Looked, IInv, ChooseInv
<1>2. IsLaunchable(chosen, spec, candidates, running)
  BY <1>1 DEF IInv, ChooseInv, TypeOK, IsLaunchable
<1>3. IsLaunchable(todo, spec, candidates, running) => todo = chosen
  BY <1>1 DEF IInv, ChooseInv
<1>4. QED
  BY <1>2, <1>3

\* What a phase took, no other phase it chose or that was running has: the
\* later of two chosen ones was looked at with the claims of the first held.
LEMMA IInvApart == IInv => ChosenApart
<1> SUFFICES ASSUME IInv, NEW p \in chosen, NEW q \in chosen \cup running, p # q
             PROVE  Claims(spec, p) \cap Claims(spec, q) = {}
  BY DEF ChosenApart
<1>1. p \in Looked /\ p \in Phase /\ q \in Phase
  BY DEF IInv, ChooseInv, TypeOK, Looked
<1>2. ASSUME NEW r \in Looked, r \in chosen, NEW s \in running \cup {t \in chosen : t < r}
      PROVE  Claims(spec, r) \cap Claims(spec, s) = {}
  BY <1>2 DEF IInv, ChooseInv, ClaimsOf
<1>3. CASE q \in running \/ q < p
  BY <1>1, <1>2, <1>3
<1>4. CASE q \in chosen /\ p < q
  <2>1. q \in Looked
    BY <1>4 DEF IInv, ChooseInv, TypeOK, Looked
  <2>2. QED
    BY <1>2, <1>4, <2>1
<1>5. QED
  BY <1>1, <1>3, <1>4 DEF Phase

\* Whatever the list -- unsorted, with a cycle, with a name no phase has --
\* the loop of `dependents' returns exactly what depends on the phase.
THEOREM LoopReturnsDependents == Spec => []ReturnsDependents
<1>1. Init => IInv
  BY IInvInit
<1>2. IInv /\ [Next]_vars => IInv'
  BY IInvStep
<1>3. IInv => ReturnsDependents
  BY LeastIsDependents
<1>4. QED
  BY <1>1, <1>2, <1>3, PTL DEF Spec

\* For any phases, any candidates and any running phases, `launchable'
\* returns the one set of candidates that IsLaunchable describes.
THEOREM LoopReturnsLaunchable == Spec => []ReturnsLaunchable
<1>1. Init => IInv
  BY IInvInit
<1>2. IInv /\ [Next]_vars => IInv'
  BY IInvStep
<1>3. IInv => ReturnsLaunchable
  BY LeftNothing
<1>4. QED
  BY <1>1, <1>2, <1>3, PTL DEF Spec

\* Nothing `launchable' returns shares a guest with what runs, or with
\* anything else it returns.
THEOREM LoopChoosesApart == Spec => []ChosenApart
<1>1. Init => IInv
  BY IInvInit
<1>2. IInv /\ [Next]_vars => IInv'
  BY IInvStep
<1>3. IInv => ChosenApart
  BY IInvApart
<1>4. QED
  BY <1>1, <1>2, <1>3, PTL DEF Spec

=============================================================================
