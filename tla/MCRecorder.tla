----------------------------- MODULE MCRecorder -----------------------------
(* Bounds for Recorder: one take of many frames, for the detector and the     *)
(* drain; two takes on one stream; two on a device that stalls and resumes;     *)
(* two with a stop that gives up and a stream that is closed and reopened.    *)
EXTENDS Recorder

Budget(f, s, t, c, g, d) ==
  [frames |-> f, starts |-> s, stops |-> t, closes |-> c, giveUps |-> g, stalls |-> d]

OneTake   == Budget(4, 1, 1, 0, 0, 0)
TwoTakes  == Budget(3, 2, 2, 0, 0, 0)
Stalled   == Budget(2, 2, 2, 0, 0, 1)
Reopened  == Budget(2, 2, 2, 1, 1, 0)

MCBudgets == {OneTake, TwoTakes, Stalled, Reopened}
=============================================================================
