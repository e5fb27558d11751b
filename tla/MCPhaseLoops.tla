---------------------------- MODULE MCPhaseLoops ----------------------------
(* Every graph of three phases, cycles and unknown names too, and every way
   three phases can claim two guests. *)
EXTENDS PhaseLoops, TLC

CONSTANTS g1, g2

MCGuest == {g1, g2}

MCGraphs ==
    {[p \in Phase |-> [after |-> a[p], nodes |-> {}, always |-> p \in w, pytest |-> FALSE]] :
        a \in [Phase -> SUBSET (Phase \cup {Unknown})], w \in SUBSET Phase}

MCLists ==
    {[p \in Phase |-> [after |-> {}, nodes |-> n[p], always |-> FALSE, pytest |-> p \in t]] :
        n \in [Phase -> SUBSET MCGuest], t \in SUBSET Phase}
=============================================================================
