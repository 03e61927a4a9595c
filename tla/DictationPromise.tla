-------------------------- MODULE DictationPromise --------------------------
(***************************************************************************)
(* What a dictation promises its user, session by session: a session that  *)
(* is cancelled before its text has begun to leave is withheld for good,   *)
(* whatever decodes and clean-ups are still under way; text leaves only a  *)
(* session that was begun, and leaves it at most once.                     *)
(* DictationCoordinator implements it.                                     *)
(***************************************************************************)
EXTENDS Naturals

VARIABLES
  newest,       \* the newest session begun
  withheld,     \* sessions whose text will never leave
  leaving,      \* sessions past their last cancellation point
  released      \* sessions whose text has left

vars == <<newest, withheld, leaving, released>>

Init == newest = 0 /\ withheld = {} /\ leaving = {} /\ released = {}

Begin ==
  /\ newest' = newest + 1
  /\ UNCHANGED <<withheld, leaving, released>>

\* One cancel withholds every session that has not begun to leave.
Cancel ==
  /\ withheld' = withheld \cup ((1 .. newest) \ (leaving \cup released))
  /\ UNCHANGED <<newest, leaving, released>>

Leave(s) ==
  /\ s \notin withheld \cup leaving \cup released
  /\ leaving' = leaving \cup {s}
  /\ UNCHANGED <<newest, withheld, released>>

Release(s) ==
  /\ s \in leaving
  /\ leaving' = leaving \ {s}
  /\ released' = released \cup {s}
  /\ UNCHANGED <<newest, withheld>>

\* The text was blank, or the task that carried it failed.
Abandon(s) ==
  /\ s \in leaving
  /\ leaving' = leaving \ {s}
  /\ UNCHANGED <<newest, withheld, released>>

Next ==
  \/ Begin
  \/ Cancel
  \/ \E s \in 1 .. newest : Leave(s) \/ Release(s) \/ Abandon(s)

Spec == Init /\ [][Next]_vars
=============================================================================
