----------------------- MODULE MCDictationCoordinator -----------------------
(***************************************************************************)
(* Values for the constants of DictationCoordinator: how often each kind   *)
(* of environment step may happen in a run.                                *)
(***************************************************************************)
EXTENDS DictationCoordinator, TLC

Nothing == [kind \in BudgetKinds |-> 0]

\* two takes, two threads that cancel
BudgetCancel   == ("input" :> 2 @@ "cancel" :> 2) @@ Nothing
\* two takes ended by every trigger there is
BudgetTriggers == ("input" :> 2 @@ "echo" :> 1 @@ "timer" :> 1 @@ "clear" :> 1
                   @@ "mode" :> 1) @@ Nothing
\* two takes, one cancelled, a panic of each kind, one Processing stage given up
BudgetFaults   == ("input" :> 2 @@ "cancel" :> 1 @@ "panic" :> 1 @@ "startPanic" :> 1
                   @@ "wedge" :> 1) @@ Nothing
\* three holds of the push-to-talk key and a keyboard that repeats
BudgetHolds    == ("input" :> 3 @@ "echo" :> 2) @@ Nothing
\* two takes and one cancel
BudgetOverlap  == ("input" :> 2 @@ "cancel" :> 1) @@ Nothing

SymmetricCancellers == Permutations(Cancellers)
=============================================================================
