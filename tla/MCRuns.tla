-------------------------------- MODULE MCRuns --------------------------------
(* Two monitors and a request to stop. *)
EXTENDS Runs, TLC

CONSTANTS m1, m2, s1

MCMonitor == {m1, m2}
MCStopper == {s1}
=============================================================================
