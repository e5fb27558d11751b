------------------------------ MODULE MCGuest ------------------------------
(* A task that asks the guest twice, and the one that shuts it down. *)
EXTENDS Guest, TLC

CONSTANTS c1, d

MCCaller == {c1}
MCDown == d
=============================================================================
