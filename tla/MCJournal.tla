------------------------------- MODULE MCJournal -------------------------------
(* Two guests and two phases. *)
EXTENDS Journal, TLC

\* One phase after another on a guest; the other guest keeps no journal.
InTurn == [nodes |-> <<{1}, {1}>>, early |-> <<1, 0>>, entries |-> <<2, 0>>,
           restarts |-> <<0, 0>>, mortal |-> {}, cut |-> FALSE]

\* A phase on each guest.
Apart == [nodes |-> <<{1}, {2}>>, early |-> <<1, 1>>, entries |-> <<1, 1>>,
          restarts |-> <<0, 0>>, mortal |-> {}, cut |-> FALSE]

\* One phase on both, either of which may die.
Both == [nodes |-> <<{1, 2}, {}>>, early |-> <<1, 1>>, entries |-> <<1, 1>>,
         restarts |-> <<0, 0>>, mortal |-> {1, 2}, cut |-> FALSE]

\* One phase on a guest that starts its stream again, and may die; it has
\* logged more than a stream carries.
Restarted == [nodes |-> <<{1}, {}>>, early |-> <<2, 0>>, entries |-> <<3, 0>>,
              restarts |-> <<1, 0>>, mortal |-> {1}, cut |-> FALSE]

\* The drive is cut short in the middle of a phase.
CutShort == [nodes |-> <<{1}, {}>>, early |-> <<1, 0>>, entries |-> <<2, 0>>,
             restarts |-> <<0, 0>>, mortal |-> {}, cut |-> TRUE]

MCScenes == {InTurn, Apart, Both, Restarted, CutShort}
MCInTurn == {InTurn}
MCRestarted == {Restarted}
MCCutShort == {CutShort}
=============================================================================
