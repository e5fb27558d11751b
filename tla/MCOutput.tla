----------------------------- MODULE MCOutput -----------------------------
(* Two scripts on guests of their own, and a suite that names one of them. *)
EXTENDS Output, TLC

CONSTANTS a, b, t, g, h

MCScript == {a, b}
MCSuite == {t}
MCGuest == {g, h}
MCNodes == a :> {g} @@ b :> {h} @@ t :> {g}

\* What each phase waits for.
MCNeeds == a :> {} @@ b :> {} @@ t :> {a}
=============================================================================
