------------------------------ MODULE TakeLife ------------------------------
(***************************************************************************)
(* What the rest of the program relies on of the recorder manager: a take  *)
(* is a recording under a generation of its own, it is begun from Idle     *)
(* only, and either a stop claims it and hands its audio over, or it is    *)
(* discarded.  Whoever remembers a generation (the silence timer, the      *)
(* deferred release, the mute worker, the probe of the duck) relies on     *)
(* nothing more.                                                           *)
(*                                                                         *)
(* DictationCoordinator and Ducking take the recorder for this; MicStream, *)
(* with its locks and threads, implements it.                              *)
(***************************************************************************)
EXTENDS Naturals

VARIABLES
  state,        \* RecordingState
  generation,   \* the generation of the newest take
  stopping      \* a stop_recording has claimed a take and not returned

vars == <<state, generation, stopping>>

Init == state = "Idle" /\ generation = 0 /\ stopping = FALSE

\* try_start_recording
Begin ==
  /\ state = "Idle" /\ ~ stopping
  /\ state' = "Recording" /\ generation' = generation + 1
  /\ UNCHANGED stopping

\* stop_recording
Claim ==
  /\ state = "Recording" /\ ~ stopping
  /\ state' = "Stopping" /\ stopping' = TRUE
  /\ UNCHANGED generation

Finish ==
  /\ state = "Stopping" /\ stopping
  /\ state' = "Idle" /\ stopping' = FALSE
  /\ UNCHANGED generation

\* A panic in stop_recording: the take stays Stopping.
Abort ==
  /\ stopping
  /\ stopping' = FALSE
  /\ UNCHANGED <<state, generation>>

\* cancel_recording
Discard ==
  /\ state = "Recording"
  /\ state' = "Idle"
  /\ UNCHANGED <<generation, stopping>>

Next == Begin \/ Claim \/ Finish \/ Abort \/ Discard

Spec == Init /\ [][Next]_vars
-----------------------------------------------------------------------------
\* is_active_recording_generation
Active(g) == state = "Recording" /\ generation = g

\* A take that has ended never records again: a generation found inactive once
\* need not be looked at again (is_active_recording_generation).
EndsForGood ==
  [][\A g \in 0 .. generation : ~ Active(g) => ~ Active(g)']_vars
=============================================================================
