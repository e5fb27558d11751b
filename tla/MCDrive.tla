------------------------------- MODULE MCDrive -------------------------------
(* Instances of Drive for TLC: three phases on two guests. *)
EXTENDS Drive, TLC

CONSTANTS g1, g2, c1, c2

MCNone == {}
MCOne == {c1}
MCTwo == {c1, c2}
MCGuest == {g1, g2}
\* The command lines: no breakpoint, a breakpoint, several and on failure.
Line(breaks, onFailure, serial) ==
    [breaks |-> breaks, onFailure |-> onFailure, serial |-> serial]
MCNoBreak == {Line({}, FALSE, FALSE)}
MCPlain == {Line({}, FALSE, FALSE), Line({}, FALSE, TRUE)}
MCBreak == {Line({2}, FALSE, FALSE)}
MCHand == {Line({1, 3}, TRUE, FALSE)}
\* With MCTwo: where two clients are too many.
MCTwoBreaks == {Line({1, 3}, FALSE, FALSE)}

MCAll == {Phase}
MCAnySelection == SUBSET Phase

\* Every way three phases can depend on each other, sorted by Nix.
Afters == {a \in [1..3 -> SUBSET (1..3)] : \A p \in 1..3 : a[p] \subseteq 1..(p - 1)}

SpecsOf(afters, nodes, always, pytest) ==
    {[p \in Phase |-> [after |-> a[p], nodes |-> n[p], always |-> p \in w, pytest |-> p \in t]] :
        a \in afters, n \in nodes, w \in always, t \in pytest}

\* Every guest, or one of them: alone, together, or one after the other.
Nodes == [1..3 -> {{}, {g1}, {g2}}]

MCSpecs == SpecsOf(Afters, Nodes, {{}, {2}, {2, 3}}, {{}, {2}})

\* Fewer: a chain, a fork, one beside a chain and three apart, on one guest
\* each or on all.  The third has a breakpoint met while something runs.
FewAfters == {<<{}, {1}, {2}>>, <<{}, {1}, {1}>>, <<{}, {}, {1}>>, <<{}, {}, {}>>}
MCFewSpecs == SpecsOf(FewAfters, {<<{g1}, {g2}, {g1}>>, <<{g1}, {}, {g2}>>}, {{}, {3}}, {{}})

\* Fewer still, where the faults make many states of each.
MCFaultSpecs == SpecsOf(FewAfters, {<<{g1}, {g2}, {g1}>>}, {{3}}, {{}})

\* Four phases: the last needs the first through the second, and has to wait
\* for the third to give its guest back.
MCThrough == SpecsOf({<<{}, {1}, {}, {2}>>}, {<<{g1}, {g1}, {g2}, {g2}>>}, {{}}, {{}})

\* Not in a run: with five phases, the same and one that always runs after the
\* fourth; the second is run by hand before the first (README, section 6).
MCFirst == {Line({1}, FALSE, FALSE)}
MCByHand == SpecsOf({<<{}, {1}, {}, {2}, {4}>>}, {<<{g1}, {g1}, {g2}, {g2}, {g1}>>}, {{5}}, {{}})
=============================================================================
