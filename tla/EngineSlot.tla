----------------------------- MODULE EngineSlot -----------------------------
(***************************************************************************)
(* The engine slot of the transcription manager (managers/transcription):  *)
(* one engine behind a mutex, the name of the model it is for, and the     *)
(* flag that a load is on.  Dictations and file transcriptions take the    *)
(* engine out of the slot for as long as they decode; loads, switches,     *)
(* unloads, warmups and the idle watcher go on meanwhile.                  *)
(*                                                                         *)
(* An engine is known by its model, and a live ORT session is an engine    *)
(* that is in the slot or in a thread's hand.  The mutexes lifecycle (of   *)
(* IdleWatcherSignal), is_loading and engine are modelled where one is     *)
(* held across steps; one that is taken and dropped within a step only has *)
(* to be free.                                                             *)
(***************************************************************************)
EXTENDS Naturals, FiniteSets

CONSTANTS
  Threads,      \* threads that decode, load, unload and warm up
  Models,       \* model ids
  Cloud,        \* those of a cloud provider: they have no engine
  Budgets,      \* bounds: how often a thread makes each kind of request
  Watcher,      \* the idle watcher's thread
  NoEngine,
  Nobody

Kinds == {"decodes", "loads", "unloads", "warmups", "idles"}
Locks == {"lifecycle", "is_loading", "engine"}
Actors == Threads \cup {Watcher}

ASSUME NamesAssumption ==
  /\ Watcher \notin Threads /\ Nobody \notin Threads /\ Nobody # Watcher
  /\ NoEngine \notin Models /\ Cloud \subseteq Models
ASSUME BudgetsAssumption == Budgets \subseteq [Actors -> [Kinds -> Nat]]

VARIABLES
  slot,         \* the engine in the mutex
  label,        \* current_model_id
  isLoading,    \* the guarded is_loading
  held,         \* the holder of each mutex
  pc,           \* per thread: the next step
  op, ask,      \* per thread: the request it serves, the model it asks for
  hand,         \* per thread: the engine it has taken out or built
  guard,        \* per thread: it owns a LoadingGuard
  left,         \* how much of the budget is left
  crossed       \* history: an engine was installed while another one decoded

engines == <<slot, hand>>
claim   == <<isLoading, guard>>
vars    == <<slot, label, isLoading, held, pc, op, ask, hand, guard, left, crossed>>

Init ==
  /\ slot = NoEngine /\ label = NoEngine
  /\ isLoading = FALSE
  /\ held = [l \in Locks |-> Nobody]
  /\ pc = [t \in Actors |-> "idle"]
  /\ op = [t \in Threads |-> "load"]
  /\ ask = [t \in Threads |-> NoEngine]
  /\ hand = [t \in Actors |-> NoEngine]
  /\ guard = [t \in Threads |-> FALSE]
  /\ left \in Budgets
  /\ crossed = FALSE

-----------------------------------------------------------------------------
Local      == Models \ Cloud
At(t, l)   == pc[t] = l
Goto(t, l) == pc' = [pc EXCEPT ![t] = l]
Free(l)    == held[l] = Nobody
Lock(t, l) == Free(l) /\ held' = [held EXCEPT ![l] = t]
Unlock(ls) == held' = [l \in Locks |-> IF l \in ls THEN Nobody ELSE held[l]]
Spend(t, k) == left[t][k] > 0 /\ left' = [left EXCEPT ![t][k] = @ - 1]

\* A request of a thread that has nothing to do.
Begin(t, k, o, m, l) ==
  /\ At(t, "idle") /\ Spend(t, k)
  /\ op' = [op EXCEPT ![t] = o]
  /\ ask' = [ask EXCEPT ![t] = m]
  /\ Goto(t, l)
  /\ UNCHANGED <<slot, label, isLoading, held, hand, guard, crossed>>

\* A step that only decides where t goes on.
Decides(t, l) ==
  /\ Goto(t, l)
  /\ UNCHANGED <<slot, label, isLoading, held, op, ask, hand, guard, left, crossed>>

\* The engine t holds is put in the slot; one that is there is dropped.
Puts(t) ==
  /\ slot' = hand[t]
  /\ hand' = [hand EXCEPT ![t] = NoEngine]

Takes(t) ==
  /\ hand' = [hand EXCEPT ![t] = slot]
  /\ slot' = NoEngine

\* The engine t holds is shut down.
ShutsDown(t) == hand' = [hand EXCEPT ![t] = NoEngine] /\ UNCHANGED slot

\* t has the engine out of the slot for a decode.
Decoding(t) == pc[t] \in {"decode", "put"}

-----------------------------------------------------------------------------
\* load_model_blocking_inner and initiate_model_load

Served(t) == IF op[t] = "decode" THEN "gate" ELSE "idle"

\* A switch or a mode change; a reload builds even what is there.
LoadBegins(t) ==
  \E m \in Models :
    \/ Begin(t, "loads", "load", m, "matches")
    \/ Begin(t, "loads", "reload", m, "claim")

PressBegins(t) ==
  \E m \in Models : Begin(t, "loads", "press", m, "present")

\* is_model_ready_for reads the name and then the slot, a press the other way.
Matches(t) ==
  /\ At(t, "matches")
  /\ Decides(t, IF label # ask[t] THEN "claim"
                ELSE IF op[t] = "press" \/ ask[t] \in Cloud THEN Served(t)
                ELSE "present")

Present(t) ==
  /\ At(t, "present") /\ Free("engine")
  /\ Decides(t, IF slot = NoEngine THEN "claim"
                ELSE IF op[t] = "press" THEN "matches"
                ELSE Served(t))

\* Mutant of ClaimOrder: the flag is locked first and the watcher notified second.
ClaimOrderReversed == [first |-> "is_loading", second |-> "lifecycle"]

\* try_start_loading: lifecycle, then is_loading.
ClaimOrder == [first |-> "lifecycle", second |-> "is_loading"]

ClaimLocks(t) ==
  /\ At(t, "claim") /\ Lock(t, ClaimOrder.first)
  /\ Goto(t, "set")
  /\ UNCHANGED <<slot, label, isLoading, op, ask, hand, guard, left, crossed>>

\* A press leaves a load that is on alone; the thread it spawns reads the
\* selected model again.
ClaimSets(t) ==
  /\ At(t, "set") /\ Free(ClaimOrder.second)
  /\ Unlock({ClaimOrder.first})
  /\ \/ /\ isLoading
        /\ Goto(t, IF op[t] = "press" THEN "idle" ELSE "await")
        /\ UNCHANGED <<isLoading, guard, ask>>
     \/ /\ ~isLoading
        /\ isLoading' = TRUE
        /\ guard' = [guard EXCEPT ![t] = TRUE]
        /\ \E m \in Models : /\ op[t] = "press" \/ m = ask[t]
                             /\ ask' = [ask EXCEPT ![t] = m]
        /\ Goto(t, "resolve")
  /\ UNCHANGED <<slot, label, op, hand, left, crossed>>

Awaits(t) ==
  /\ At(t, "await") /\ Free("is_loading") /\ ~isLoading
  /\ Decides(t, IF op[t] = "reload" THEN "claim" ELSE "matches")

-----------------------------------------------------------------------------
\* dispatch_load and load_winstt_model

\* An error or a panic: the request fails once the LoadingGuard is dropped.
LoadFails(t) ==
  /\ op' = [op EXCEPT ![t] = "failed"]
  /\ Goto(t, "drop")
  /\ UNCHANGED <<slot, label, isLoading, held, ask, hand, guard, left, crossed>>

\* A failed resolve leaves the engine in place.
Resolves(t) ==
  /\ At(t, "resolve")
  /\ \/ Decides(t, "evict")
     \/ ask[t] \in Local /\ LoadFails(t)

\* Mutant of AfterEviction: cloud models are built too.
AfterEvictionBuilds(t) == "build"

AfterEviction(t) == IF ask[t] \in Cloud THEN "name" ELSE "build"

\* is_model_loaded before the old engine is unloaded.
Evicts(t) ==
  /\ At(t, "evict") /\ Free("engine")
  /\ Decides(t, IF slot = NoEngine THEN AfterEviction(t) ELSE "take")

Builds(t) ==
  /\ At(t, "build")
  /\ \/ /\ hand' = [hand EXCEPT ![t] = ask[t]]
        /\ Goto(t, "install")
        /\ UNCHANGED <<slot, label, isLoading, held, op, ask, guard, left, crossed>>
     \/ LoadFails(t)

\* Mutant of Installs: the LoadingGuard is dropped before the engine has its name.
InstallsUnclaimed(t) ==
  /\ At(t, "install") /\ Free("engine")
  /\ Puts(t)
  /\ crossed' = (crossed \/ \E u \in Threads : Decoding(u))
  /\ isLoading' = FALSE
  /\ guard' = [guard EXCEPT ![t] = FALSE]
  /\ Goto(t, "name")
  /\ UNCHANGED <<label, held, op, ask, left>>

Installs(t) ==
  /\ At(t, "install") /\ Free("engine")
  /\ Puts(t)
  /\ crossed' = (crossed \/ \E u \in Threads : Decoding(u))
  /\ Goto(t, "name")
  /\ UNCHANGED <<label, isLoading, held, op, ask, guard, left>>

Names(t) ==
  /\ At(t, "name")
  /\ label' = ask[t]
  /\ Goto(t, "touch")
  /\ UNCHANGED <<slot, isLoading, held, op, ask, hand, guard, left, crossed>>

\* touch_activity
Touches(t) ==
  /\ At(t, "touch") /\ Free("lifecycle")
  /\ Decides(t, IF guard[t] THEN "drop" ELSE "idle")

\* LoadingGuard::drop
DropLocks(t) ==
  /\ At(t, "drop") /\ Lock(t, "lifecycle")
  /\ Goto(t, "lower")
  /\ UNCHANGED <<slot, label, isLoading, op, ask, hand, guard, left, crossed>>

DropLowers(t) ==
  /\ At(t, "lower") /\ Free("is_loading")
  /\ isLoading' = FALSE
  /\ guard' = [guard EXCEPT ![t] = FALSE]
  /\ Unlock({"lifecycle"})
  /\ Goto(t, Served(t))
  /\ UNCHANGED <<slot, label, op, ask, hand, left, crossed>>

-----------------------------------------------------------------------------
\* unload_model, alone or as the eviction of a load

\* Settings, clean-up, an accelerator change; a cancel asks the policy first.
UnloadBegins(t) ==
  \E l \in {"take", "policy"} : Begin(t, "unloads", "unload", NoEngine, l)

UnloadTakes(t) ==
  /\ At(t, "take") /\ Free("engine")
  /\ Takes(t)
  /\ Goto(t, "clear")
  /\ UNCHANGED <<label, isLoading, held, op, ask, guard, left, crossed>>

UnloadClears(t) ==
  /\ At(t, "clear")
  /\ ShutsDown(t)
  /\ label' = NoEngine
  /\ Goto(t, "notify")
  /\ UNCHANGED <<isLoading, held, op, ask, guard, left, crossed>>

UnloadNotifies(t) ==
  /\ At(t, "notify") /\ Free("lifecycle")
  /\ Decides(t, IF guard[t] THEN AfterEviction(t) ELSE "idle")

\* maybe_unload_immediately: only a timeout of zero unloads at once.
AsksPolicy(t) ==
  /\ At(t, "policy")
  /\ \/ Free("engine") /\ slot # NoEngine /\ Decides(t, "take")
     \/ Decides(t, "idle")

-----------------------------------------------------------------------------
\* transcribe_with_selected_model

\* Empty or silent audio goes no further than the unload policy.
DecodeBegins(t) ==
  /\ Free("lifecycle")
  /\ \E m \in Models :
       \/ Begin(t, "decodes", "decode", m, "policy")
       \/ Begin(t, "decodes", "decode", m, IF m \in Cloud THEN "cloud" ELSE "matches")

\* Text, an error, or the provider is offline and a local model steps in.
CloudAnswers(t) ==
  /\ At(t, "cloud")
  /\ \/ Decides(t, "policy")
     \/ Decides(t, "idle")
     \/ /\ Free("lifecycle")
        /\ \E m \in Local : ask' = [ask EXCEPT ![t] = m]
        /\ Goto(t, "matches")
        /\ UNCHANGED <<slot, label, isLoading, held, op, hand, guard, left, crossed>>

\* The wait for a load keeps is_loading locked until the slot has been seen.
WaitsForLoad(t) ==
  /\ At(t, "gate") /\ ~isLoading /\ Lock(t, "is_loading")
  /\ Goto(t, "check")
  /\ UNCHANGED <<slot, label, isLoading, op, ask, hand, guard, left, crossed>>

ChecksEngine(t) ==
  /\ At(t, "check") /\ Free("engine")
  /\ Unlock({"is_loading"})
  /\ Goto(t, IF slot = NoEngine THEN "idle" ELSE "grab")
  /\ UNCHANGED <<slot, label, isLoading, op, ask, hand, guard, left, crossed>>

TakesEngine(t) ==
  /\ At(t, "grab") /\ Free("engine")
  /\ Takes(t)
  /\ Goto(t, IF slot = NoEngine THEN "idle" ELSE "decode")
  /\ UNCHANGED <<label, isLoading, held, op, ask, guard, left, crossed>>

\* Text, an error that keeps the engine, or a lost device, a degenerate
\* decode or a panic that shuts it down.
Decodes(t) ==
  /\ At(t, "decode")
  /\ \E o \in {"decode", "failed"} : op' = [op EXCEPT ![t] = o]
  /\ \/ Goto(t, "put") /\ UNCHANGED engines
     \/ ShutsDown(t) /\ Goto(t, "condemn")
  /\ UNCHANGED <<label, isLoading, held, ask, guard, left, crossed>>

PutsBack(t) ==
  /\ At(t, "put") /\ Free("engine")
  /\ Puts(t)
  /\ Goto(t, IF op[t] = "failed" THEN "idle" ELSE "policy")
  /\ UNCHANGED <<label, isLoading, held, op, ask, guard, left, crossed>>

\* unload_engine_after_fatal_decode
Condemns(t) ==
  /\ At(t, "condemn")
  /\ label' = NoEngine
  /\ Goto(t, "idle")
  /\ UNCHANGED <<slot, isLoading, held, op, ask, hand, guard, left, crossed>>

-----------------------------------------------------------------------------
\* warmup

\* wait_for_loading_to_finish; a load may begin before the name is read.
WarmupBegins(t) ==
  /\ Free("is_loading") /\ ~isLoading
  /\ Begin(t, "warmups", "warmup", NoEngine, "settled")

WarmupReads(t) ==
  /\ At(t, "settled")
  /\ ask' = [ask EXCEPT ![t] = label]
  /\ Goto(t, IF label = NoEngine THEN "idle" ELSE "try")
  /\ UNCHANGED <<slot, label, isLoading, held, op, hand, guard, left, crossed>>

\* try_lock: who finds the engine busy or out leaves.
WarmupTries(t) ==
  /\ At(t, "try")
  /\ \/ /\ slot # NoEngine /\ Lock(t, "engine")
        /\ Goto(t, "call")
        /\ UNCHANGED <<slot, label, isLoading, op, ask, hand, guard, left, crossed>>
     \/ /\ slot = NoEngine \/ ~Free("engine")
        /\ Decides(t, "idle")

\* The dummy decode works, fails, or is degenerate and the model is rebuilt.
WarmupReturns(t) ==
  /\ At(t, "call")
  /\ Unlock({"engine"})
  /\ \/ \E l \in {"touch", "idle"} : Goto(t, l) /\ UNCHANGED op
     \/ Goto(t, "claim") /\ op' = [op EXCEPT ![t] = "reload"]
  /\ UNCHANGED <<slot, label, isLoading, ask, hand, guard, left, crossed>>

-----------------------------------------------------------------------------
\* unload_if_still_idle: lifecycle, is_loading, engine

WatcherWakes ==
  /\ At(Watcher, "idle") /\ Spend(Watcher, "idles")
  /\ Lock(Watcher, "lifecycle")
  /\ Goto(Watcher, "lock")
  /\ UNCHANGED <<slot, label, isLoading, op, ask, hand, guard, crossed>>

WatcherLocks ==
  /\ At(Watcher, "lock") /\ Lock(Watcher, "is_loading")
  /\ Goto(Watcher, "look")
  /\ UNCHANGED <<slot, label, isLoading, op, ask, hand, guard, left, crossed>>

\* Policy, recording and deadline may speak for the engine.
WatcherSpares ==
  /\ At(Watcher, "look") /\ Free("engine")
  /\ Unlock({"lifecycle", "is_loading"})
  /\ Goto(Watcher, "idle")
  /\ UNCHANGED <<slot, label, isLoading, op, ask, hand, guard, left, crossed>>

\* Mutant of WatcherTakes: all three guards are dropped before the shutdown.
WatcherTakesUnguarded ==
  /\ At(Watcher, "look") /\ Free("engine")
  /\ slot # NoEngine /\ ~isLoading
  /\ Takes(Watcher)
  /\ Unlock({"is_loading", "lifecycle"})
  /\ Goto(Watcher, "teardown")
  /\ UNCHANGED <<label, isLoading, op, ask, guard, left, crossed>>

\* lifecycle stays locked until the engine is gone and its name is cleared.
WatcherTakes ==
  /\ At(Watcher, "look") /\ Free("engine")
  /\ slot # NoEngine /\ ~isLoading
  /\ Takes(Watcher)
  /\ Unlock({"is_loading"})
  /\ Goto(Watcher, "teardown")
  /\ UNCHANGED <<label, isLoading, op, ask, guard, left, crossed>>

WatcherUnloads ==
  /\ At(Watcher, "teardown")
  /\ ShutsDown(Watcher)
  /\ label' = NoEngine
  /\ held' = [l \in Locks |-> IF held[l] = Watcher THEN Nobody ELSE held[l]]
  /\ Goto(Watcher, "idle")
  /\ UNCHANGED <<isLoading, op, ask, guard, left, crossed>>

-----------------------------------------------------------------------------
Requests(t) ==
  \/ LoadBegins(t) \/ PressBegins(t) \/ UnloadBegins(t)
  \/ DecodeBegins(t) \/ WarmupBegins(t)

Load(t) ==
  \/ Matches(t) \/ Present(t) \/ ClaimLocks(t) \/ ClaimSets(t) \/ Awaits(t)
  \/ Resolves(t) \/ Evicts(t) \/ Builds(t) \/ Installs(t) \/ Names(t)
  \/ Touches(t) \/ DropLocks(t) \/ DropLowers(t)

Unload(t) == UnloadTakes(t) \/ UnloadClears(t) \/ UnloadNotifies(t) \/ AsksPolicy(t)

Decode(t) ==
  \/ CloudAnswers(t) \/ WaitsForLoad(t) \/ ChecksEngine(t) \/ TakesEngine(t)
  \/ Decodes(t) \/ PutsBack(t) \/ Condemns(t)

Warmup(t) == WarmupReads(t) \/ WarmupTries(t) \/ WarmupReturns(t)

Serves(t) == Load(t) \/ Unload(t) \/ Decode(t) \/ Warmup(t)

Watches == WatcherLocks \/ WatcherSpares \/ WatcherTakes \/ WatcherUnloads

Next == (\E t \in Threads : Requests(t) \/ Serves(t)) \/ WatcherWakes \/ Watches

Spec == Init /\ [][Next]_vars

\* Engine calls return, as they end, fail or panic; who asks, and when, is open.
FairSpec ==
  /\ Spec
  /\ \A t \in Threads : WF_vars(Serves(t))
  /\ WF_vars(Watches)

-----------------------------------------------------------------------------
\* Properties

Labels == {"idle", "matches", "present", "claim", "set", "await", "resolve", "evict",
           "build", "install", "name", "touch", "drop", "lower", "take", "clear",
           "notify", "policy", "cloud", "gate", "check", "grab", "decode", "put",
           "condemn", "settled", "try", "call"}
Engines == Local \cup {NoEngine}

\* Every variable has its type; an engine is always one of a local model.
TypeOK ==
  /\ slot \in Engines /\ label \in Models \cup {NoEngine}
  /\ isLoading \in BOOLEAN /\ crossed \in BOOLEAN
  /\ held \in [Locks -> Actors \cup {Nobody}]
  /\ pc \in [Actors -> Labels \cup {"lock", "look", "teardown"}]
  /\ op \in [Threads -> {"decode", "load", "reload", "press", "unload", "warmup", "failed"}]
  /\ ask \in [Threads -> Models \cup {NoEngine}]
  /\ hand \in [Actors -> Engines]
  /\ guard \in [Threads -> BOOLEAN]
  /\ left \in [Actors -> [Kinds -> Nat]]

\* The name of a local model is the name of the engine in the slot, except
\* between the two stores of a load: what is_model_ready_for calls ready is
\* the model that was asked for.  This needs that no load installs an engine
\* while another one is out for a decode, which the code does not prevent
\* (see OneLiveSession).
LabelNamesEngine ==
  \/ crossed
  \/ \E t \in Threads : At(t, "name")
  \/ slot = NoEngine \/ label \notin Local
  \/ slot = label

\* While the idle watcher shuts an engine down, and until it has cleared its
\* name, no load is on: no second session is built beside the old one, and
\* the name a load sets is not the one that is cleared.
IdleTeardownIsAlone == At(Watcher, "teardown") => \A t \in Threads : ~guard[t]

\* Every request returns: the loading flag is lowered after an error or a
\* panic too, waiters go on, and the three mutexes are never taken crosswise.
RequestsReturn == \A t \in Threads : ~At(t, "idle") ~> At(t, "idle")

\* At most one ORT session is alive, in the slot or in a thread's hand
\* (load.rs: "the Windows DLL race forbids two live ort sessions").
OneLiveSession ==
  LET out == {t \in Actors : hand[t] # NoEngine}
  IN  Cardinality(out) + (IF slot = NoEngine THEN 0 ELSE 1) <= 1

=============================================================================
