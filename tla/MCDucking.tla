----------------------------- MODULE MCDucking -----------------------------
(* Applications for the instances of Ducking that TLC checks. *)
EXTENDS Ducking

\* every session has an application of its own
OwnApp == [s \in Sessions |-> s]
=============================================================================
