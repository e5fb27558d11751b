----------------------------- MODULE RunContract -----------------------------
(***************************************************************************)
(* What a run promises whoever reads it, with no scheduler, no await and no*)
(* socket in it.  Guests come up once.  Each is lent to one user at a time:*)
(* a phase, or a person.  A phase's answer is given by the user that had   *)
(* its guests, in the moment it gives them back, and the phases its failure*)
(* takes with it are skipped in that same moment.  The report is written   *)
(* once, when nobody has a guest, and says every answer as it stands; only *)
(* then do the guests go down, and nothing happens after that.             *)
(***************************************************************************)
CONSTANTS Phase, Guest,
          Person,       \* who may borrow every guest by hand
          Nobody        \* who has a guest nobody has

VARIABLES answer,   \* each phase's answer, "none" until it has one
          lent,     \* who has each guest
          report,   \* what has been written: {}, or the answers as they were
          up        \* the guests are up

contractVars == <<answer, lent, report, up>>

User == Phase \cup Person

ContractInit ==
    /\ answer \in [Phase -> {"none", "deselected"}]
    /\ lent = [g \in Guest |-> Nobody]
    /\ report = {}
    /\ up = FALSE

\* Guests nobody has are lent, and no other changes hands.
Lend ==
    /\ report = {}
    /\ lent' \in [Guest -> User \cup {Nobody}]
    /\ \A g \in Guest : lent'[g] # lent[g] => lent[g] = Nobody
    /\ UNCHANGED <<answer, report>>

\* The guests come up, and the first users may have theirs at once.
ComeUp == ~ up /\ up' = TRUE /\ Lend

Borrow == up /\ Lend /\ UNCHANGED up

\* A person runs a phase again: it has no answer until it ends.  So does a
\* phase that was skipped when its guests were lent to it already.
Reopen(p) ==
    /\ \E g \in Guest : lent[g] \in Person \/ (lent[g] = p /\ answer[p] = "skipped")
    /\ answer' = [answer EXCEPT ![p] = "none"]
    /\ UNCHANGED <<lent, report, up>>

\* u gives back everything it has.  A phase gives its answer with it, a
\* person the answer of a phase or none at all; a failure skips phases that
\* had no answer.
GiveBack(u) ==
    /\ \E g \in Guest : lent[g] = u
    /\ lent' = [g \in Guest |-> IF lent[g] = u THEN Nobody ELSE lent[g]]
    /\ \/ u \in Person /\ UNCHANGED answer
       \/ \E p \in IF u \in Person THEN Phase ELSE {u} :
             \/ answer' = [answer EXCEPT ![p] = "passed"]
             \/ \E S \in SUBSET {q \in Phase : answer[q] = "none"} :
                   answer' = [q \in Phase |-> IF q = p THEN "failed"
                                              ELSE IF q \in S THEN "skipped" ELSE answer[q]]
    /\ UNCHANGED <<report, up>>

Publish ==
    /\ report = {}
    /\ \A g \in Guest : lent[g] = Nobody
    /\ report' = {answer}
    /\ UNCHANGED <<answer, lent, up>>

GoDown ==
    /\ up /\ report # {}
    /\ up' = FALSE
    /\ UNCHANGED <<answer, lent, report>>

ContractNext ==
    \/ ComeUp \/ Borrow \/ Publish \/ GoDown
    \/ \E p \in Phase : Reopen(p)
    \/ \E u \in User : GiveBack(u)

ContractSpec == ContractInit /\ [][ContractNext]_contractVars

=============================================================================
