-------------------------- MODULE EngineSlotProofs --------------------------
(***************************************************************************)
(* For any threads, models and bounds of EngineSlot: its types, that the   *)
(* idle watcher's teardown meets no load, and that the name of the model   *)
(* is the name of the engine.  The invariant says which mutex each step    *)
(* holds, that one thread at most owns the claim on the loading flag, and  *)
(* what the owner knows of slot and name at each of its steps.  The last   *)
(* part shows that no threads wait for each other.                         *)
(***************************************************************************)
EXTENDS EngineSlot, TLAPS

\* Steps only the owner of the claim takes, and those it shares with others.
Claims  == {"resolve", "evict", "build", "install", "name", "drop", "lower"}
Guarded == Claims \cup {"take", "clear", "notify", "touch"}

\* What each step between a lock and its unlock holds.
LocksHeld ==
  /\ \A t \in Threads : pc[t] \in {"set", "lower"} => held["lifecycle"] = t
  /\ \A t \in Threads : pc[t] = "check" => held["is_loading"] = t
  /\ \A t \in Threads : pc[t] = "call" => held["engine"] = t
  /\ pc[Watcher] \in {"lock", "look", "teardown"} => held["lifecycle"] = Watcher
  /\ pc[Watcher] = "look" => held["is_loading"] = Watcher

\* The claim has one owner, which lowers the flag before it is at rest.
Claimed ==
  /\ \A t \in Threads : guard[t] => isLoading /\ pc[t] \in Guarded /\ ask[t] \in Models
  /\ \A t \in Threads : pc[t] \in Claims => guard[t]
  /\ \A t, u \in Threads : guard[t] /\ guard[u] => t = u
  /\ pc[Watcher] = "teardown" => ~isLoading

\* What is built is what was asked for.
Asked ==
  /\ \A t \in Threads : pc[t] \in {"build", "install"} => ask[t] \in Local
  /\ \A t \in Threads : pc[t] = "install" => hand[t] = ask[t]

\* One decode at a time, and then the slot is empty.
Alone ==
  \A t \in Threads : Decoding(t) =>
    slot = NoEngine /\ \A u \in Threads : Decoding(u) => u = t

\* A load about to name its engine: that engine is in the slot or out for a decode.
Naming ==
  \A t \in Threads : pc[t] = "name" /\ ask[t] \in Local =>
    /\ slot \in {NoEngine, ask[t]}
    /\ \A u \in Threads : Decoding(u) => hand[u] = ask[t]

\* Otherwise the name of a local model is that of every engine there is.
Fits ==
  \/ \E t \in Threads : pc[t] = "name"
  \/ label \notin Local
  \/ /\ slot \in {NoEngine, label}
     /\ \A u \in Threads : Decoding(u) => hand[u] = label

Named == crossed \/ (Alone /\ Naming /\ Fits)

Inv == TypeOK /\ LocksHeld /\ Claimed /\ Asked /\ Named

-----------------------------------------------------------------------------
\* Types.  Budgets, locks and the other functions are typed one by one.

Steps == Labels \cup {"lock", "look", "teardown"}
Ops   == {"decode", "load", "reload", "press", "unload", "warmup", "failed"}

PcType   == pc \in [Actors -> Steps]
OpType   == op \in [Threads -> Ops]
AskType  == ask \in [Threads -> Models \cup {NoEngine}]
HandType == hand \in [Actors -> Engines]
HeldType == held \in [Locks -> Actors \cup {Nobody}]
LeftType == left \in [Actors -> [Kinds -> Nat]]

LEMMA ActorNames == Threads \subseteq Actors /\ Watcher \in Actors
  BY DEF Actors

LEMMA LockNames == Locks = {"lifecycle", "is_loading", "engine"}
  BY DEF Locks

LEMMA GotoTypes ==
  ASSUME TypeOK, NEW t \in Actors, NEW l \in Steps, Goto(t, l)
  PROVE  PcType'
  BY DEF Goto, TypeOK, PcType, Steps

LEMMA LockTypes ==
  ASSUME TypeOK, NEW t \in Actors, NEW l \in Locks, Lock(t, l)
  PROVE  HeldType'
  BY DEF Lock, TypeOK, HeldType

LEMMA UnlockTypes ==
  ASSUME TypeOK, NEW ls, Unlock(ls)
  PROVE  HeldType'
  BY DEF Unlock, TypeOK, HeldType

LEMMA SpendTypes ==
  ASSUME TypeOK, NEW t \in Actors, NEW k \in Kinds, Spend(t, k)
  PROVE  LeftType'
<1>1. left[t] \in [Kinds -> Nat] /\ left[t][k] \in Nat /\ left[t][k] > 0
  BY DEF TypeOK, Spend
<1>2. [left[t] EXCEPT ![k] = left[t][k] - 1] \in [Kinds -> Nat]
  BY <1>1
<1>3. left' = [left EXCEPT ![t] = [left[t] EXCEPT ![k] = left[t][k] - 1]]
  BY Zenon DEF Spend
<1> QED BY <1>2, <1>3 DEF TypeOK, LeftType

LEMMA TakesTypes ==
  ASSUME TypeOK, NEW t \in Actors, Takes(t)
  PROVE  HandType' /\ slot' \in Engines
  BY DEF Takes, TypeOK, HandType, Engines

LEMMA PutsTypes ==
  ASSUME TypeOK, NEW t \in Actors, Puts(t)
  PROVE  HandType' /\ slot' \in Engines
  BY DEF Puts, TypeOK, HandType, Engines

LEMMA ShutsDownTypes ==
  ASSUME TypeOK, NEW t \in Actors, ShutsDown(t)
  PROVE  HandType' /\ slot' \in Engines
  BY DEF ShutsDown, TypeOK, HandType, Engines

LEMMA BeginTypes ==
  ASSUME TypeOK, NEW t \in Threads, NEW k \in Kinds, NEW o \in Ops,
         NEW m \in Models \cup {NoEngine}, NEW l \in Steps, Begin(t, k, o, m, l)
  PROVE  TypeOK'
<1>1. PcType' /\ LeftType'
  BY ActorNames, GotoTypes, SpendTypes DEF Begin
<1>2. OpType' /\ AskType'
  BY DEF Begin, TypeOK, OpType, AskType, Ops
<1> QED
  BY <1>1, <1>2 DEF Begin, TypeOK, PcType, LeftType, OpType, AskType, Steps, Ops

LEMMA DecidesTypes ==
  ASSUME TypeOK, NEW t \in Threads, NEW l \in Steps, Decides(t, l)
  PROVE  TypeOK'
<1>1. PcType'
  BY ActorNames, GotoTypes DEF Decides
<1> QED BY <1>1 DEF Decides, TypeOK, PcType, Steps

LEMMA RequestTypes ==
  ASSUME TypeOK, NEW t \in Threads, Requests(t)
  PROVE  TypeOK'
<1> USE DEF Kinds, Ops, Steps, Labels
<1>1. CASE LoadBegins(t)
  BY <1>1, BeginTypes DEF LoadBegins
<1>2. CASE PressBegins(t)
  BY <1>2, BeginTypes DEF PressBegins
<1>3. CASE UnloadBegins(t)
  BY <1>3, BeginTypes DEF UnloadBegins
<1>4. CASE DecodeBegins(t)
  <2>1. PICK m \in Models, l \in {"policy", "cloud", "matches"} :
          Begin(t, "decodes", "decode", m, l)
    BY <1>4 DEF DecodeBegins
  <2> QED BY <2>1, BeginTypes
<1>5. CASE WarmupBegins(t)
  BY <1>5, BeginTypes DEF WarmupBegins
<1> QED BY <1>1, <1>2, <1>3, <1>4, <1>5 DEF Requests

\* Steps of a request up to the claim.
LEMMA ClaimTypes ==
  ASSUME TypeOK, NEW t \in Threads,
         Matches(t) \/ Present(t) \/ ClaimLocks(t) \/ ClaimSets(t) \/ Awaits(t)
  PROVE  TypeOK'
<1> USE DEF Steps, Labels
<1>1. CASE Matches(t)
  BY <1>1, DecidesTypes DEF Matches, Served
<1>2. CASE Present(t)
  BY <1>2, DecidesTypes DEF Present, Served
<1>3. CASE ClaimLocks(t)
  <2>1. PcType' /\ HeldType'
    BY <1>3, ActorNames, LockNames, GotoTypes, LockTypes DEF ClaimLocks, ClaimOrder
  <2> QED BY <2>1, <1>3 DEF ClaimLocks, TypeOK, PcType, HeldType
<1>4. CASE ClaimSets(t)
  <2>1. PcType' /\ HeldType'
    BY <1>4, ActorNames, GotoTypes, UnlockTypes DEF ClaimSets
  <2>2. AskType' /\ guard' \in [Threads -> BOOLEAN] /\ isLoading' \in BOOLEAN
    BY <1>4 DEF ClaimSets, TypeOK, AskType
  <2> QED BY <2>1, <2>2, <1>4 DEF ClaimSets, TypeOK, PcType, HeldType, AskType
<1>5. CASE Awaits(t)
  BY <1>5, DecidesTypes DEF Awaits
<1> QED BY <1>1, <1>2, <1>3, <1>4, <1>5

LEMMA LoadFailsTypes ==
  ASSUME TypeOK, NEW t \in Threads, LoadFails(t)
  PROVE  TypeOK'
<1>1. PcType'
  BY ActorNames, GotoTypes DEF LoadFails, Steps, Labels
<1>2. OpType'
  BY DEF LoadFails, TypeOK, OpType, Ops
<1> QED BY <1>1, <1>2 DEF LoadFails, TypeOK, PcType, OpType, Steps, Ops

\* Steps under the claim; what is built and named is a model that was asked for.
LEMMA BuildTypes ==
  ASSUME TypeOK, Claimed, Asked, NEW t \in Threads,
         Resolves(t) \/ Evicts(t) \/ Builds(t) \/ Installs(t) \/ Names(t)
  PROVE  TypeOK'
<1> USE DEF Steps, Labels
<1>1. CASE Resolves(t)
  BY <1>1, DecidesTypes, LoadFailsTypes DEF Resolves
<1>2. CASE Evicts(t)
  BY <1>2, DecidesTypes DEF Evicts, AfterEviction
<1>3. CASE Builds(t)
  <2>1. CASE LoadFails(t)
    BY <2>1, LoadFailsTypes
  <2>2. CASE /\ hand' = [hand EXCEPT ![t] = ask[t]]
             /\ Goto(t, "install")
             /\ UNCHANGED <<slot, label, isLoading, held, op, ask, guard, left, crossed>>
    <3>1. ask[t] \in Engines
      BY <1>3 DEF Builds, At, Asked, Engines
    <3>2. PcType' /\ HandType'
      BY <2>2, <3>1, ActorNames, GotoTypes DEF TypeOK, HandType
    <3> QED BY <2>2, <3>2 DEF TypeOK, PcType, HandType
  <2> QED BY <1>3, <2>1, <2>2 DEF Builds
<1>4. CASE Installs(t)
  <2>1. PcType' /\ HandType' /\ slot' \in Engines
    BY <1>4, ActorNames, GotoTypes, PutsTypes DEF Installs
  <2>2. crossed' \in BOOLEAN
    BY <1>4, Zenon DEF Installs, TypeOK
  <2> QED BY <2>1, <2>2, <1>4 DEF Installs, TypeOK, PcType, HandType
<1>5. CASE Names(t)
  <2>1. ask[t] \in Models
    BY <1>5 DEF Names, At, Claimed, Claims
  <2>2. PcType'
    BY <1>5, ActorNames, GotoTypes DEF Names
  <2> QED BY <2>1, <2>2, <1>5 DEF Names, TypeOK, PcType
<1> QED BY <1>1, <1>2, <1>3, <1>4, <1>5

LEMMA DropTypes ==
  ASSUME TypeOK, NEW t \in Threads, Touches(t) \/ DropLocks(t) \/ DropLowers(t)
  PROVE  TypeOK'
<1> USE DEF Steps, Labels
<1>1. CASE Touches(t)
  BY <1>1, DecidesTypes DEF Touches
<1>2. CASE DropLocks(t)
  <2>1. PcType' /\ HeldType'
    BY <1>2, ActorNames, LockNames, GotoTypes, LockTypes DEF DropLocks
  <2> QED BY <2>1, <1>2 DEF DropLocks, TypeOK, PcType, HeldType
<1>3. CASE DropLowers(t)
  <2>1. PcType' /\ HeldType'
    BY <1>3, ActorNames, GotoTypes, UnlockTypes DEF DropLowers, Served
  <2>2. guard' \in [Threads -> BOOLEAN] /\ isLoading' \in BOOLEAN
    BY <1>3 DEF DropLowers, TypeOK
  <2> QED BY <2>1, <2>2, <1>3 DEF DropLowers, TypeOK, PcType, HeldType
<1> QED BY <1>1, <1>2, <1>3

LEMMA UnloadTypes ==
  ASSUME TypeOK, NEW t \in Threads, Unload(t)
  PROVE  TypeOK'
<1> USE DEF Steps, Labels
<1>1. CASE UnloadTakes(t)
  <2>1. PcType' /\ HandType' /\ slot' \in Engines
    BY <1>1, ActorNames, GotoTypes, TakesTypes DEF UnloadTakes
  <2> QED BY <2>1, <1>1 DEF UnloadTakes, TypeOK, PcType, HandType
<1>2. CASE UnloadClears(t)
  <2>1. PcType' /\ HandType' /\ slot' \in Engines
    BY <1>2, ActorNames, GotoTypes, ShutsDownTypes DEF UnloadClears
  <2> QED BY <2>1, <1>2 DEF UnloadClears, TypeOK, PcType, HandType
<1>3. CASE UnloadNotifies(t)
  BY <1>3, DecidesTypes DEF UnloadNotifies, AfterEviction
<1>4. CASE AsksPolicy(t)
  BY <1>4, DecidesTypes DEF AsksPolicy
<1> QED BY <1>1, <1>2, <1>3, <1>4 DEF Unload

LEMMA DecodeTypes ==
  ASSUME TypeOK, NEW t \in Threads, Decode(t)
  PROVE  TypeOK'
<1> USE DEF Steps, Labels
<1>1. CASE CloudAnswers(t)
  <2>1. CASE \E l \in {"policy", "idle"} : Decides(t, l)
    BY <2>1, DecidesTypes
  <2>2. CASE /\ \E m \in Local : ask' = [ask EXCEPT ![t] = m]
             /\ Goto(t, "matches")
             /\ UNCHANGED <<slot, label, isLoading, held, op, hand, guard, left, crossed>>
    <3>1. PcType' /\ AskType'
      BY <2>2, ActorNames, GotoTypes DEF TypeOK, AskType, Local
    <3> QED BY <2>2, <3>1 DEF TypeOK, PcType, AskType
  <2> QED BY <1>1, <2>1, <2>2 DEF CloudAnswers
<1>2. CASE WaitsForLoad(t)
  <2>1. PcType' /\ HeldType'
    BY <1>2, ActorNames, LockNames, GotoTypes, LockTypes DEF WaitsForLoad
  <2> QED BY <2>1, <1>2 DEF WaitsForLoad, TypeOK, PcType, HeldType
<1>3. CASE ChecksEngine(t)
  <2>1. PcType' /\ HeldType'
    BY <1>3, ActorNames, GotoTypes, UnlockTypes DEF ChecksEngine
  <2> QED BY <2>1, <1>3 DEF ChecksEngine, TypeOK, PcType, HeldType
<1>4. CASE TakesEngine(t)
  <2>1. PcType' /\ HandType' /\ slot' \in Engines
    BY <1>4, ActorNames, GotoTypes, TakesTypes DEF TakesEngine
  <2> QED BY <2>1, <1>4 DEF TakesEngine, TypeOK, PcType, HandType
<1>5. CASE Decodes(t)
  <2>1. PcType' /\ HandType' /\ slot' \in Engines
    BY <1>5, ActorNames, GotoTypes, ShutsDownTypes DEF Decodes, engines, TypeOK, HandType
  <2>2. OpType'
    BY <1>5 DEF Decodes, TypeOK, OpType, Ops
  <2> QED BY <2>1, <2>2, <1>5 DEF Decodes, TypeOK, PcType, HandType, OpType, Ops
<1>6. CASE PutsBack(t)
  <2>1. PcType' /\ HandType' /\ slot' \in Engines
    BY <1>6, ActorNames, GotoTypes, PutsTypes DEF PutsBack
  <2> QED BY <2>1, <1>6 DEF PutsBack, TypeOK, PcType, HandType
<1>7. CASE Condemns(t)
  <2>1. PcType'
    BY <1>7, ActorNames, GotoTypes DEF Condemns
  <2> QED BY <2>1, <1>7 DEF Condemns, TypeOK, PcType
<1> QED BY <1>1, <1>2, <1>3, <1>4, <1>5, <1>6, <1>7 DEF Decode

LEMMA WarmupTypes ==
  ASSUME TypeOK, NEW t \in Threads, Warmup(t)
  PROVE  TypeOK'
<1> USE DEF Steps, Labels
<1>1. CASE WarmupReads(t)
  <2>1. PcType' /\ AskType'
    BY <1>1, ActorNames, GotoTypes DEF WarmupReads, TypeOK, AskType
  <2> QED BY <2>1, <1>1 DEF WarmupReads, TypeOK, PcType, AskType
<1>2. CASE WarmupTries(t)
  <2>1. CASE Decides(t, "idle")
    BY <2>1, DecidesTypes
  <2>2. CASE /\ Lock(t, "engine") /\ Goto(t, "call")
             /\ UNCHANGED <<slot, label, isLoading, op, ask, hand, guard, left, crossed>>
    <3>1. PcType' /\ HeldType'
      BY <2>2, ActorNames, LockNames, GotoTypes, LockTypes
    <3> QED BY <2>2, <3>1 DEF TypeOK, PcType, HeldType
  <2> QED BY <1>2, <2>1, <2>2 DEF WarmupTries
<1>3. CASE WarmupReturns(t)
  <2>1. PcType' /\ HeldType'
    BY <1>3, ActorNames, GotoTypes, UnlockTypes DEF WarmupReturns
  <2>2. OpType'
    BY <1>3 DEF WarmupReturns, TypeOK, OpType, Ops
  <2> QED BY <2>1, <2>2, <1>3 DEF WarmupReturns, TypeOK, PcType, HeldType, OpType, Ops
<1> QED BY <1>1, <1>2, <1>3 DEF Warmup

LEMMA WatcherTypes ==
  ASSUME TypeOK, WatcherWakes \/ Watches
  PROVE  TypeOK'
<1> USE DEF Steps
<1>1. CASE WatcherWakes
  <2>1. PcType' /\ HeldType' /\ LeftType'
    BY <1>1, ActorNames, LockNames, GotoTypes, LockTypes, SpendTypes
       DEF WatcherWakes, Kinds
  <2> QED BY <2>1, <1>1 DEF WatcherWakes, TypeOK, PcType, HeldType, LeftType
<1>2. CASE WatcherLocks
  <2>1. PcType' /\ HeldType'
    BY <1>2, ActorNames, LockNames, GotoTypes, LockTypes DEF WatcherLocks
  <2> QED BY <2>1, <1>2 DEF WatcherLocks, TypeOK, PcType, HeldType
<1>3. CASE WatcherSpares
  <2>1. PcType' /\ HeldType'
    BY <1>3, ActorNames, GotoTypes, UnlockTypes DEF WatcherSpares, Labels
  <2> QED BY <2>1, <1>3 DEF WatcherSpares, TypeOK, PcType, HeldType
<1>4. CASE WatcherTakes
  <2>1. PcType' /\ HeldType' /\ HandType' /\ slot' \in Engines
    BY <1>4, ActorNames, GotoTypes, UnlockTypes, TakesTypes DEF WatcherTakes
  <2> QED BY <2>1, <1>4 DEF WatcherTakes, TypeOK, PcType, HeldType, HandType
<1>5. CASE WatcherUnloads
  <2>1. PcType' /\ HandType' /\ slot' \in Engines
    BY <1>5, ActorNames, GotoTypes, ShutsDownTypes DEF WatcherUnloads, Labels
  <2>2. HeldType'
    BY <1>5 DEF WatcherUnloads, TypeOK, HeldType
  <2> QED BY <2>1, <2>2, <1>5 DEF WatcherUnloads, TypeOK, PcType, HeldType, HandType
<1> QED BY <1>1, <1>2, <1>3, <1>4, <1>5 DEF Watches

LEMMA TypesKept ==
  ASSUME Inv, [Next]_vars
  PROVE  TypeOK'
<1>1. CASE UNCHANGED vars
  BY <1>1 DEF vars, Inv, TypeOK
<1>2. ASSUME NEW t \in Threads, Requests(t) \/ Serves(t)
      PROVE  TypeOK'
  BY <1>2, RequestTypes, ClaimTypes, BuildTypes, DropTypes, UnloadTypes, DecodeTypes,
     WarmupTypes DEF Inv, Serves, Load
<1>3. CASE WatcherWakes \/ Watches
  BY <1>3, WatcherTypes DEF Inv
<1> QED BY <1>1, <1>2, <1>3 DEF Next

-----------------------------------------------------------------------------
\* A thread that moves on: each part of the invariant, and what it needs.

LEMMA Moved ==
  ASSUME TypeOK, NEW t \in Actors, NEW l, Goto(t, l)
  PROVE  \A u \in Actors : pc'[u] = IF u = t THEN l ELSE pc[u]
  BY DEF TypeOK, Goto

LEMMA WatcherApart == Watcher \notin Threads /\ Nobody \notin Actors
  BY NamesAssumption DEF Actors

LEMMA LocksStay ==
  ASSUME TypeOK, LocksHeld, NEW t \in Threads, NEW l,
         l \notin {"set", "lower", "check", "call"},
         Goto(t, l), UNCHANGED held
  PROVE  LocksHeld'
  BY Moved, ActorNames, WatcherApart DEF LocksHeld

LEMMA ClaimStays ==
  ASSUME TypeOK, Claimed, NEW t \in Threads, NEW l,
         l \in Claims => guard[t], guard[t] => l \in Guarded,
         Goto(t, l), UNCHANGED <<isLoading, guard>>,
         \A u \in Threads : guard[u] => ask'[u] = ask[u]
  PROVE  Claimed'
  BY Moved, ActorNames, WatcherApart DEF Claimed

LEMMA AskedStays ==
  ASSUME TypeOK, Asked, NEW t \in Threads, NEW l,
         l # "install", l = "build" => ask'[t] \in Local,
         Goto(t, l),
         \A u \in Threads : pc[u] \in {"build", "install"} /\ u # t =>
                              ask'[u] = ask[u] /\ hand'[u] = hand[u]
  PROVE  Asked'
  BY Moved, ActorNames DEF Asked

LEMMA NamedStays ==
  ASSUME TypeOK, Named, NEW t \in Threads, NEW l,
         l \notin {"decode", "put"}, l = "name" => ask'[t] \notin Local,
         Goto(t, l), pc[t] # "name", UNCHANGED <<slot, label, crossed>>,
         \A u \in Threads : pc[u] = "name" => ask'[u] = ask[u],
         \A u \in Threads : Decoding(u) /\ u # t => hand'[u] = hand[u]
  PROVE  Named'
<1>1. \A u \in Threads : pc'[u] = IF u = t THEN l ELSE pc[u]
  BY Moved, ActorNames
<1>2. \A u \in Threads : Decoding(u)' => Decoding(u) /\ u # t
  BY <1>1 DEF Decoding
<1>3. Alone => Alone'
  BY <1>2 DEF Alone
<1>4. Naming => Naming'
  BY <1>1, <1>2 DEF Naming
<1>5. Fits => Fits'
  BY <1>1, <1>2 DEF Fits
<1> QED BY <1>3, <1>4, <1>5 DEF Named

\* What holds of the thread that moves, in the terms of the four lemmas.
LEMMA MoveKeeps ==
  ASSUME Inv, TypeOK', NEW t \in Threads, NEW l,
         l \notin {"set", "lower", "check", "call", "install", "decode", "put"},
         Goto(t, l), pc[t] # "name",
         l \in Claims => guard[t], guard[t] => l \in Guarded,
         l = "build" => ask[t] \in Local, l = "name" => ask[t] \notin Local,
         UNCHANGED <<slot, label, isLoading, held, hand, guard, crossed>>,
         guard[t] => UNCHANGED ask,
         \A u \in Threads : u # t => ask'[u] = ask[u]
  PROVE  Inv'
<1>1. LocksHeld'
  BY LocksStay DEF Inv
<1>2. Claimed'
  BY ClaimStays DEF Inv
<1>3. Asked'
  BY AskedStays DEF Inv, Claims
<1>4. Named'
  BY NamedStays DEF Inv, Claims
<1> QED BY <1>1, <1>2, <1>3, <1>4 DEF Inv

LEMMA DecidesKeeps ==
  ASSUME Inv, TypeOK', NEW t \in Threads, NEW l,
         l \notin {"set", "lower", "check", "call", "install", "decode", "put"},
         Decides(t, l), pc[t] # "name",
         l \in Claims => guard[t], guard[t] => l \in Guarded,
         l = "build" => ask[t] \in Local, l = "name" => ask[t] \notin Local
  PROVE  Inv'
  BY MoveKeeps DEF Decides

LEMMA BeginKeeps ==
  ASSUME Inv, TypeOK', NEW t \in Threads, NEW k, NEW o, NEW m, NEW l,
         l \notin {"set", "lower", "check", "call", "install", "decode", "put"} \cup Claims,
         Begin(t, k, o, m, l)
  PROVE  Inv'
<1>1. ~guard[t] /\ pc[t] # "name"
  BY DEF Begin, At, Inv, Claimed, Guarded, Claims
<1>2. \A u \in Threads : u # t => ask'[u] = ask[u]
  BY DEF Begin, Inv, TypeOK
<1> QED BY <1>1, <1>2, MoveKeeps DEF Begin, Claims

-----------------------------------------------------------------------------
\* Every step of the specification keeps the invariant.

LEMMA RequestKeeps ==
  ASSUME Inv, TypeOK', NEW t \in Threads, Requests(t)
  PROVE  Inv'
<1> USE DEF Claims
<1>1. CASE LoadBegins(t)
  BY <1>1, BeginKeeps DEF LoadBegins
<1>2. CASE PressBegins(t)
  BY <1>2, BeginKeeps DEF PressBegins
<1>3. CASE UnloadBegins(t)
  BY <1>3, BeginKeeps DEF UnloadBegins
<1>4. CASE DecodeBegins(t)
  <2>1. PICK m \in Models, l \in {"policy", "cloud", "matches"} :
          Begin(t, "decodes", "decode", m, l)
    BY <1>4 DEF DecodeBegins
  <2> QED BY <2>1, BeginKeeps
<1>5. CASE WarmupBegins(t)
  BY <1>5, BeginKeeps DEF WarmupBegins
<1> QED BY <1>1, <1>2, <1>3, <1>4, <1>5 DEF Requests

\* Who is not at a guarded step does not own the claim.
LEMMA NotOwner ==
  ASSUME Inv, NEW t \in Threads, pc[t] \notin Guarded
  PROVE  ~guard[t]
  BY DEF Inv, Claimed

LEMMA ClaimKeeps ==
  ASSUME Inv, TypeOK', NEW t \in Threads,
         Matches(t) \/ Present(t) \/ ClaimLocks(t) \/ ClaimSets(t) \/ Awaits(t)
  PROVE  Inv'
<1> USE DEF At
<1>0. ~guard[t] /\ pc[t] \notin Guarded
  BY NotOwner DEF Matches, Present, ClaimLocks, ClaimSets, Awaits, Guarded, Claims
<1>1. CASE Matches(t)
  BY <1>0, <1>1, DecidesKeeps DEF Matches, Served, Guarded, Claims
<1>2. CASE Present(t)
  BY <1>0, <1>2, DecidesKeeps DEF Present, Served, Guarded, Claims
<1>3. CASE Awaits(t)
  BY <1>0, <1>3, DecidesKeeps DEF Awaits, Guarded, Claims
<1>4. CASE ClaimLocks(t)
  <2>1. LocksHeld'
    BY <1>4, Moved, ActorNames, LockNames, WatcherApart
       DEF ClaimLocks, ClaimOrder, Lock, Free, Inv, LocksHeld, TypeOK
  <2>2. Claimed' /\ Asked' /\ Named'
    BY <1>0, <1>4, ClaimStays, AskedStays, NamedStays
       DEF ClaimLocks, Inv, Guarded, Claims
  <2> QED BY <2>1, <2>2 DEF Inv
<1>5. CASE ClaimSets(t)
  <2>1. PICK l \in {"idle", "await", "resolve"} : Goto(t, l)
    BY <1>5 DEF ClaimSets
  <2>2. /\ held' = [k \in Locks |-> IF k = "lifecycle" THEN Nobody ELSE held[k]]
        /\ pc[t] = "set"
    BY <1>5 DEF ClaimSets, ClaimOrder, Unlock
  <2>3. LocksHeld'
    BY <2>1, <2>2, Moved, ActorNames, LockNames, WatcherApart DEF Inv, LocksHeld
  <2>4. Claimed'
    <3>1. CASE isLoading
      BY <1>0, <1>5, <3>1, ClaimStays DEF ClaimSets, Inv, Guarded, Claims
    <3>2. CASE ~isLoading
      <4>1. /\ isLoading' /\ guard' = [guard EXCEPT ![t] = TRUE]
            /\ ask' \in [Threads -> Models \cup {NoEngine}] /\ ask'[t] \in Models
            /\ \A u \in Threads : u # t => ask'[u] = ask[u]
            /\ \A u \in Actors : pc'[u] = IF u = t THEN "resolve" ELSE pc[u]
        BY <1>5, <3>2, Moved, ActorNames DEF ClaimSets, Inv, TypeOK
      <4>2. \A u \in Threads : ~guard[u]
        BY <3>2 DEF Inv, Claimed
      <4>3. pc[Watcher] # "teardown" /\ pc'[Watcher] = pc[Watcher]
        BY <1>5, <4>1, ActorNames, WatcherApart
           DEF ClaimSets, ClaimOrder, Inv, LocksHeld
      <4>4. \A u \in Threads : guard'[u] <=> u = t
        BY <4>1, <4>2 DEF Inv, TypeOK
      <4>5. \A u \in Threads : pc'[u] \in Claims => u = t
        BY <4>1, <4>2, ActorNames DEF Inv, Claimed
      <4> QED BY <4>1, <4>3, <4>4, <4>5, ActorNames DEF Claimed, Guarded, Claims
    <3> QED BY <3>1, <3>2 DEF Inv, TypeOK
  <2>5. \A u \in Threads : u # t => ask'[u] = ask[u]
    BY <1>5 DEF ClaimSets, Inv, TypeOK
  <2>6. Asked' /\ Named'
    BY <1>0, <1>5, <2>1, <2>5, AskedStays, NamedStays
       DEF ClaimSets, Inv, Guarded, Claims
  <2> QED BY <2>3, <2>4, <2>6 DEF Inv
<1> QED BY <1>1, <1>2, <1>3, <1>4, <1>5

LEMMA LoadFailsKeeps ==
  ASSUME Inv, TypeOK', NEW t \in Threads, guard[t], pc[t] # "name", LoadFails(t)
  PROVE  Inv'
  BY MoveKeeps DEF LoadFails, Guarded, Claims

LEMMA EvictionKeeps ==
  ASSUME Inv, TypeOK', NEW t \in Threads, guard[t], pc[t] # "name",
         Decides(t, AfterEviction(t))
  PROVE  Inv'
<1>1. ask[t] \in Models
  BY DEF Inv, Claimed
<1>2. AfterEviction(t) \in {"name", "build"}
  BY DEF AfterEviction
<1>3. /\ AfterEviction(t) = "build" => ask[t] \in Local
      /\ AfterEviction(t) = "name" => ask[t] \notin Local
  BY <1>1 DEF AfterEviction, Local
<1> QED BY <1>2, <1>3, DecidesKeeps DEF Guarded, Claims

LEMMA BuildKeeps ==
  ASSUME Inv, TypeOK', NEW t \in Threads,
         Resolves(t) \/ Evicts(t) \/ Builds(t) \/ Installs(t) \/ Names(t)
  PROVE  Inv'
<1> USE DEF At
<1>0. guard[t] /\ ask[t] \in Models /\ pc[t] \in {"resolve", "evict", "build", "install", "name"}
  BY DEF Resolves, Evicts, Builds, Installs, Names, Inv, Claimed, Claims
<1>1. CASE Resolves(t)
  BY <1>0, <1>1, DecidesKeeps, LoadFailsKeeps DEF Resolves, Guarded, Claims
<1>2. CASE Evicts(t)
  BY <1>0, <1>2, DecidesKeeps, EvictionKeeps DEF Evicts, Guarded, Claims
<1>3. CASE Builds(t)
  <2>1. CASE LoadFails(t)
    BY <1>0, <1>3, <2>1, LoadFailsKeeps DEF Builds
  <2>2. CASE /\ hand' = [hand EXCEPT ![t] = ask[t]]
             /\ Goto(t, "install")
             /\ UNCHANGED <<slot, label, isLoading, held, op, ask, guard, left, crossed>>
    <3>1. LocksHeld' /\ Claimed'
      BY <1>0, <2>2, LocksStay, ClaimStays DEF Inv, Guarded, Claims
    <3>2. \A u \in Actors : hand'[u] = IF u = t THEN ask[t] ELSE hand[u]
      BY <2>2 DEF Inv, TypeOK
    <3>3. Asked'
      BY <1>3, <2>2, <3>2, Moved, ActorNames DEF Builds, Inv, Asked
    <3>4. Named'
      BY <1>3, <2>2, <3>2, ActorNames, NamedStays DEF Builds, Inv
    <3> QED BY <3>1, <3>3, <3>4 DEF Inv
  <2> QED BY <1>3, <2>1, <2>2 DEF Builds
<1>4. CASE Installs(t)
  <2>1. /\ \A u \in Actors : pc'[u] = IF u = t THEN "name" ELSE pc[u]
        /\ \A u \in Actors : u # t => hand'[u] = hand[u]
        /\ slot' = ask[t] /\ ask[t] \in Local
    BY <1>4, Moved, ActorNames DEF Installs, Puts, Inv, TypeOK, Asked
  <2>2. LocksHeld' /\ Claimed'
    BY <1>0, <1>4, LocksStay, ClaimStays DEF Installs, Inv, Guarded, Claims
  <2>3. Asked'
    BY <1>4, <2>1, ActorNames, AskedStays DEF Installs, Inv
  <2>4. CASE crossed'
    BY <2>2, <2>3, <2>4 DEF Inv, Named
  <2>5. CASE ~crossed'
    <3>1. \A u \in Threads : ~Decoding(u)
      BY <1>4, <2>5, Zenon DEF Installs
    <3>2. \A u \in Threads : ~Decoding(u)'
      BY <2>1, <3>1, ActorNames DEF Decoding
    <3>3. \A u \in Threads : pc'[u] = "name" => u = t
      BY <1>0, <2>1, ActorNames DEF Inv, Claimed, Claims
    <3>4. Alone' /\ Naming' /\ Fits'
      BY <1>4, <2>1, <3>2, <3>3, ActorNames DEF Installs, Alone, Naming, Fits
    <3> QED BY <2>2, <2>3, <3>4 DEF Inv, Named
  <2> QED BY <2>4, <2>5
<1>5. CASE Names(t)
  <2>1. \A u \in Actors : pc'[u] = IF u = t THEN "touch" ELSE pc[u]
    BY <1>5, Moved, ActorNames DEF Names, Inv
  <2>2. LocksHeld' /\ Claimed' /\ Asked'
    BY <1>0, <1>5, LocksStay, ClaimStays, AskedStays DEF Names, Inv, Guarded, Claims
  <2>3. CASE crossed
    BY <1>5, <2>2, <2>3 DEF Names, Inv, Named
  <2>4. CASE ~crossed
    <3>1. \A u \in Threads : Decoding(u)' <=> Decoding(u)
      BY <1>5, <2>1, ActorNames DEF Names, Decoding
    <3>2. \A u \in Threads : pc'[u] # "name"
      BY <1>0, <1>5, <2>1, ActorNames DEF Names, Inv, Claimed, Claims
    <3>3. Alone'
      BY <1>5, <2>4, <3>1 DEF Names, Inv, Named, Alone
    <3>4. Naming' /\ Fits'
      BY <1>5, <2>4, <3>1, <3>2 DEF Names, Inv, Named, Naming, Fits
    <3> QED BY <2>2, <3>3, <3>4 DEF Inv, Named
  <2> QED BY <2>3, <2>4
<1> QED BY <1>1, <1>2, <1>3, <1>4, <1>5

LEMMA DropKeeps ==
  ASSUME Inv, TypeOK', NEW t \in Threads, Touches(t) \/ DropLocks(t) \/ DropLowers(t)
  PROVE  Inv'
<1> USE DEF At
<1>1. CASE Touches(t)
  BY <1>1, DecidesKeeps DEF Touches, Guarded, Claims
<1>2. CASE DropLocks(t)
  <2>1. /\ held["lifecycle"] = Nobody /\ guard[t]
        /\ held' = [held EXCEPT !["lifecycle"] = t]
    BY <1>2 DEF DropLocks, Lock, Free, Inv, Claimed, Claims
  <2>2. LocksHeld'
    BY <1>2, <2>1, Moved, ActorNames, LockNames, WatcherApart
       DEF DropLocks, Inv, LocksHeld, TypeOK
  <2>3. Claimed' /\ Asked' /\ Named'
    BY <1>2, <2>1, ClaimStays, AskedStays, NamedStays DEF DropLocks, Inv, Guarded, Claims
  <2> QED BY <2>2, <2>3 DEF Inv
<1>3. CASE DropLowers(t)
  <2>1. /\ pc[t] = "lower" /\ guard[t]
        /\ held' = [k \in Locks |-> IF k = "lifecycle" THEN Nobody ELSE held[k]]
    BY <1>3 DEF DropLowers, Unlock, Inv, Claimed, Claims
  <2>2. PICK l \in {"gate", "idle"} : Goto(t, l)
    BY <1>3 DEF DropLowers, Served
  <2>3. LocksHeld'
    BY <2>1, <2>2, Moved, ActorNames, LockNames, WatcherApart DEF Inv, LocksHeld
  <2>4. \A u \in Threads : ~guard'[u]
    BY <1>3, <2>1 DEF DropLowers, Inv, TypeOK, Claimed
  <2>5. \A u \in Threads : pc'[u] \in Claims => pc[u] \in Claims /\ u # t
    BY <2>2, Moved, ActorNames DEF Inv, Claims
  <2>6. Claimed'
    BY <1>3, <2>1, <2>4, <2>5 DEF DropLowers, Inv, Claimed
  <2>7. Asked' /\ Named'
    BY <1>3, <2>1, <2>2, AskedStays, NamedStays DEF DropLowers, Inv
  <2> QED BY <2>3, <2>6, <2>7 DEF Inv
<1> QED BY <1>1, <1>2, <1>3

LEMMA UnloadKeeps ==
  ASSUME Inv, TypeOK', NEW t \in Threads, Unload(t)
  PROVE  Inv'
<1> USE DEF At
<1>1. CASE UnloadTakes(t)
  <2>1. /\ \A u \in Actors : pc'[u] = IF u = t THEN "clear" ELSE pc[u]
        /\ \A u \in Actors : u # t => hand'[u] = hand[u]
    BY <1>1, Moved, ActorNames DEF UnloadTakes, Takes, Inv, TypeOK
  <2>2. LocksHeld' /\ Claimed' /\ Asked'
    BY <1>1, <2>1, ActorNames, LocksStay, ClaimStays, AskedStays
       DEF UnloadTakes, Inv, Guarded, Claims
  <2>3. \A u \in Threads : Decoding(u)' <=> Decoding(u) /\ u # t
    BY <1>1, <2>1, ActorNames DEF UnloadTakes, Decoding
  <2>4. Alone => Alone'
    BY <1>1, <2>3 DEF UnloadTakes, Takes, Alone
  <2>5. Naming => Naming'
    BY <1>1, <2>1, <2>3, ActorNames DEF UnloadTakes, Takes, Naming
  <2>6. Fits => Fits'
    BY <1>1, <2>1, <2>3, ActorNames DEF UnloadTakes, Takes, Fits
  <2> QED BY <1>1, <2>2, <2>4, <2>5, <2>6 DEF UnloadTakes, Inv, Named
<1>2. CASE UnloadClears(t)
  <2>1. /\ \A u \in Actors : pc'[u] = IF u = t THEN "notify" ELSE pc[u]
        /\ \A u \in Actors : u # t => hand'[u] = hand[u]
    BY <1>2, Moved, ActorNames DEF UnloadClears, ShutsDown, Inv, TypeOK
  <2>2. LocksHeld' /\ Claimed' /\ Asked'
    BY <1>2, <2>1, ActorNames, LocksStay, ClaimStays, AskedStays
       DEF UnloadClears, Inv, Guarded, Claims
  <2>3. \A u \in Threads : Decoding(u)' <=> Decoding(u) /\ u # t
    BY <1>2, <2>1, ActorNames DEF UnloadClears, Decoding
  <2>4. Alone => Alone'
    BY <1>2, <2>3 DEF UnloadClears, ShutsDown, Alone
  <2>5. Naming => Naming'
    BY <1>2, <2>1, <2>3, ActorNames DEF UnloadClears, ShutsDown, Naming
  <2>6. Fits'
    BY <1>2, NamesAssumption DEF UnloadClears, Fits, Local
  <2> QED BY <1>2, <2>2, <2>4, <2>5, <2>6 DEF UnloadClears, Inv, Named
<1>3. CASE UnloadNotifies(t)
  BY <1>3, DecidesKeeps, EvictionKeeps DEF UnloadNotifies, Guarded, Claims
<1>4. CASE AsksPolicy(t)
  <2>1. ~guard[t]
    BY <1>4, NotOwner DEF AsksPolicy, Guarded, Claims
  <2> QED BY <1>4, <2>1, DecidesKeeps DEF AsksPolicy, Guarded, Claims
<1> QED BY <1>1, <1>2, <1>3, <1>4 DEF Unload

LEMMA DecodeKeeps ==
  ASSUME Inv, TypeOK', NEW t \in Threads, Decode(t)
  PROVE  Inv'
<1> USE DEF At
<1>0. ~guard[t] /\ pc[t] \notin Guarded
  BY NotOwner
     DEF Decode, CloudAnswers, WaitsForLoad, ChecksEngine, TakesEngine, Decodes, PutsBack,
     Condemns, Guarded, Claims
<1>1. CASE CloudAnswers(t)
  <2>1. CASE \E l \in {"policy", "idle"} : Decides(t, l)
    BY <1>0, <2>1, DecidesKeeps DEF Guarded, Claims
  <2>2. CASE /\ \E m \in Local : ask' = [ask EXCEPT ![t] = m]
             /\ Goto(t, "matches")
             /\ UNCHANGED <<slot, label, isLoading, held, op, hand, guard, left, crossed>>
    <3>1. \A u \in Threads : u # t => ask'[u] = ask[u]
      BY <2>2 DEF Inv, TypeOK
    <3> QED BY <1>0, <2>2, <3>1, MoveKeeps DEF Guarded, Claims
  <2> QED BY <1>1, <2>1, <2>2 DEF CloudAnswers
<1>2. CASE WaitsForLoad(t)
  <2>1. held["is_loading"] = Nobody /\ held' = [held EXCEPT !["is_loading"] = t]
    BY <1>2 DEF WaitsForLoad, Lock, Free
  <2>2. LocksHeld'
    BY <1>2, <2>1, Moved, ActorNames, LockNames, WatcherApart
       DEF WaitsForLoad, Inv, LocksHeld, TypeOK
  <2>3. Claimed' /\ Asked' /\ Named'
    BY <1>0, <1>2, ClaimStays, AskedStays, NamedStays
       DEF WaitsForLoad, Inv, Guarded, Claims
  <2> QED BY <2>2, <2>3 DEF Inv
<1>3. CASE ChecksEngine(t)
  <2>1. /\ pc[t] = "check"
        /\ held' = [k \in Locks |-> IF k = "is_loading" THEN Nobody ELSE held[k]]
    BY <1>3 DEF ChecksEngine, Unlock
  <2>2. PICK l \in {"idle", "grab"} : Goto(t, l)
    BY <1>3 DEF ChecksEngine
  <2>3. LocksHeld'
    BY <2>1, <2>2, Moved, ActorNames, LockNames, WatcherApart DEF Inv, LocksHeld
  <2>4. Claimed' /\ Asked' /\ Named'
    BY <1>0, <1>3, <2>2, ClaimStays, AskedStays, NamedStays
       DEF ChecksEngine, Inv, Guarded, Claims
  <2> QED BY <2>3, <2>4 DEF Inv
<1>4. CASE TakesEngine(t)
  <2>1. PICK l \in {"idle", "decode"} : Goto(t, l) /\ (l = "decode" <=> slot # NoEngine)
    BY <1>4 DEF TakesEngine
  <2>2. /\ \A u \in Actors : pc'[u] = IF u = t THEN l ELSE pc[u]
        /\ \A u \in Actors : hand'[u] = IF u = t THEN slot ELSE hand[u]
        /\ slot' = NoEngine
    BY <1>4, <2>1, Moved, ActorNames DEF TakesEngine, Takes, Inv, TypeOK
  <2>3. LocksHeld' /\ Claimed' /\ Asked'
    BY <1>0, <1>4, <2>1, <2>2, ActorNames, LocksStay, ClaimStays, AskedStays
       DEF TakesEngine, Inv, Guarded, Claims
  <2>4. \A u \in Threads : u # t => (Decoding(u)' <=> Decoding(u))
    BY <2>2, ActorNames DEF Decoding
  <2>5. Decoding(t)' <=> slot # NoEngine
    BY <2>1, <2>2, ActorNames DEF Decoding
  <2>6. Alone => Alone'
    BY <2>2, <2>4, <2>5 DEF Alone
  <2>7. Naming => Naming'
    BY <1>4, <2>1, <2>2, <2>4, <2>5, ActorNames DEF TakesEngine, Naming
  <2>8. Fits => Fits'
    BY <1>4, <2>1, <2>2, <2>4, <2>5, ActorNames DEF TakesEngine, Fits
  <2> QED BY <1>4, <2>3, <2>6, <2>7, <2>8 DEF TakesEngine, Inv, Named
<1>5. CASE Decodes(t)
  <2>1. PICK l \in {"put", "condemn"} :
          Goto(t, l) /\ (l = "put" => UNCHANGED hand)
    BY <1>5 DEF Decodes, engines
  <2>2. /\ \A u \in Actors : pc'[u] = IF u = t THEN l ELSE pc[u]
        /\ \A u \in Actors : u # t => hand'[u] = hand[u]
        /\ UNCHANGED slot /\ Decoding(t)
    BY <1>5, <2>1, Moved, ActorNames
       DEF Decodes, engines, ShutsDown, Decoding, Inv, TypeOK
  <2>3. LocksHeld' /\ Claimed' /\ Asked'
    BY <1>0, <1>5, <2>1, <2>2, ActorNames, LocksStay, ClaimStays, AskedStays
       DEF Decodes, Inv, Guarded, Claims
  <2>4. \A u \in Threads : Decoding(u)' => Decoding(u) /\ hand'[u] = hand[u]
    BY <2>1, <2>2, ActorNames DEF Decoding
  <2>5. Alone => Alone'
    BY <2>2, <2>4 DEF Alone
  <2>6. Naming => Naming'
    BY <1>5, <2>1, <2>2, <2>4, ActorNames DEF Decodes, Naming
  <2>7. Fits => Fits'
    BY <1>5, <2>1, <2>2, <2>4, ActorNames DEF Decodes, Fits
  <2> QED BY <1>5, <2>3, <2>5, <2>6, <2>7 DEF Decodes, Inv, Named
<1>6. CASE PutsBack(t)
  <2>1. PICK l \in {"idle", "policy"} : Goto(t, l)
    BY <1>6 DEF PutsBack
  <2>2. /\ \A u \in Actors : pc'[u] = IF u = t THEN l ELSE pc[u]
        /\ \A u \in Actors : u # t => hand'[u] = hand[u]
        /\ slot' = hand[t] /\ Decoding(t)
    BY <1>6, <2>1, Moved, ActorNames DEF PutsBack, Puts, Decoding, Inv, TypeOK
  <2>3. LocksHeld' /\ Claimed' /\ Asked'
    BY <1>0, <1>6, <2>1, <2>2, ActorNames, LocksStay, ClaimStays, AskedStays
       DEF PutsBack, Inv, Guarded, Claims
  <2>4. \A u \in Threads : Decoding(u)' => Decoding(u) /\ u # t
    BY <2>1, <2>2, ActorNames DEF Decoding
  <2>5. Alone => Alone'
    BY <2>2, <2>4 DEF Alone
  <2>6. Alone /\ Naming => Naming'
    BY <1>6, <2>1, <2>2, <2>4, ActorNames DEF PutsBack, Alone, Naming
  <2>7. Alone /\ Fits => Fits'
    BY <1>6, <2>1, <2>2, <2>4, ActorNames DEF PutsBack, Alone, Fits
  <2> QED BY <1>6, <2>3, <2>5, <2>6, <2>7 DEF PutsBack, Inv, Named
<1>7. CASE Condemns(t)
  <2>1. \A u \in Actors : pc'[u] = IF u = t THEN "idle" ELSE pc[u]
    BY <1>7, Moved, ActorNames DEF Condemns, Inv
  <2>2. LocksHeld' /\ Claimed' /\ Asked'
    BY <1>0, <1>7, LocksStay, ClaimStays, AskedStays DEF Condemns, Inv, Guarded, Claims
  <2>3. \A u \in Threads : Decoding(u)' => Decoding(u)
    BY <2>1, ActorNames DEF Decoding
  <2>4. Alone => Alone'
    BY <1>7, <2>3 DEF Condemns, Alone
  <2>5. Naming => Naming'
    BY <1>7, <2>1, <2>3, ActorNames DEF Condemns, Naming
  <2>6. Fits'
    BY <1>7, NamesAssumption DEF Condemns, Fits, Local
  <2> QED BY <1>7, <2>2, <2>4, <2>5, <2>6 DEF Condemns, Inv, Named
<1> QED BY <1>1, <1>2, <1>3, <1>4, <1>5, <1>6, <1>7 DEF Decode

LEMMA WarmupKeeps ==
  ASSUME Inv, TypeOK', NEW t \in Threads, Warmup(t)
  PROVE  Inv'
<1> USE DEF At
<1>0. ~guard[t] /\ pc[t] \notin Guarded
  BY NotOwner DEF Warmup, WarmupReads, WarmupTries, WarmupReturns, Guarded, Claims
<1>1. CASE WarmupReads(t)
  <2>1. \A u \in Threads : u # t => ask'[u] = ask[u]
    BY <1>1 DEF WarmupReads, Inv, TypeOK
  <2> QED BY <1>0, <1>1, <2>1, MoveKeeps DEF WarmupReads, Guarded, Claims
<1>2. CASE WarmupTries(t)
  <2>1. CASE Decides(t, "idle")
    BY <1>0, <2>1, DecidesKeeps DEF Guarded, Claims
  <2>2. CASE /\ Lock(t, "engine") /\ Goto(t, "call")
             /\ UNCHANGED <<slot, label, isLoading, op, ask, hand, guard, left, crossed>>
    <3>1. LocksHeld'
      BY <2>2, Moved, ActorNames, LockNames, WatcherApart
         DEF Lock, Free, Inv, LocksHeld, TypeOK
    <3>2. Claimed' /\ Asked' /\ Named'
      BY <1>0, <2>2, ClaimStays, AskedStays, NamedStays DEF Inv, Guarded, Claims
    <3> QED BY <3>1, <3>2 DEF Inv
  <2> QED BY <1>2, <2>1, <2>2 DEF WarmupTries
<1>3. CASE WarmupReturns(t)
  <2>1. /\ pc[t] = "call"
        /\ held' = [k \in Locks |-> IF k = "engine" THEN Nobody ELSE held[k]]
    BY <1>3 DEF WarmupReturns, Unlock
  <2>2. PICK l \in {"touch", "idle", "claim"} : Goto(t, l)
    BY <1>3 DEF WarmupReturns
  <2>3. LocksHeld'
    BY <2>1, <2>2, Moved, ActorNames, LockNames, WatcherApart DEF Inv, LocksHeld
  <2>4. Claimed' /\ Asked' /\ Named'
    BY <1>0, <1>3, <2>2, ClaimStays, AskedStays, NamedStays
       DEF WarmupReturns, Inv, Guarded, Claims
  <2> QED BY <2>3, <2>4 DEF Inv
<1> QED BY <1>1, <1>2, <1>3 DEF Warmup

LEMMA WatcherKeeps ==
  ASSUME Inv, TypeOK', WatcherWakes \/ Watches
  PROVE  Inv'
<1> USE DEF At
<1>1. /\ \A u \in Threads : pc'[u] = pc[u]
      /\ \A u \in Threads : hand'[u] = hand[u]
      /\ UNCHANGED <<isLoading, ask, guard, crossed>>
  BY WatcherApart, ActorNames
     DEF WatcherWakes, Watches, WatcherLocks, WatcherSpares, WatcherTakes, WatcherUnloads,
     Goto, Takes, ShutsDown, Inv, TypeOK
<1>2. \A u \in Threads : Decoding(u)' <=> Decoding(u)
  BY <1>1 DEF Decoding
<1>3. Asked'
  BY <1>1 DEF Inv, Asked
<1>4. ASSUME UNCHANGED <<slot, label>> PROVE Named'
  BY <1>1, <1>2, <1>4 DEF Inv, Named, Alone, Naming, Fits
<1>5. ASSUME pc'[Watcher] = "teardown" => ~isLoading PROVE Claimed'
  BY <1>1, <1>5 DEF Inv, Claimed
<1>6. CASE WatcherWakes
  <2>1. pc'[Watcher] = "lock"
    BY <1>6, Moved, ActorNames DEF WatcherWakes, Inv
  <2>2. LocksHeld'
    BY <1>1, <1>6, <2>1, ActorNames, LockNames, WatcherApart
       DEF WatcherWakes, Lock, Free, Inv, LocksHeld, TypeOK
  <2> QED BY <1>3, <1>4, <1>5, <1>6, <2>1, <2>2 DEF WatcherWakes, Inv
<1>7. CASE WatcherLocks
  <2>1. pc'[Watcher] = "look"
    BY <1>7, Moved, ActorNames DEF WatcherLocks, Inv
  <2>2. LocksHeld'
    BY <1>1, <1>7, <2>1, ActorNames, LockNames, WatcherApart
       DEF WatcherLocks, Lock, Free, Inv, LocksHeld, TypeOK
  <2> QED BY <1>3, <1>4, <1>5, <1>7, <2>1, <2>2 DEF WatcherLocks, Inv
<1>8. CASE WatcherSpares
  <2>1. pc'[Watcher] = "idle"
    BY <1>8, Moved, ActorNames DEF WatcherSpares, Inv
  <2>2. LocksHeld'
    BY <1>1, <1>8, <2>1, ActorNames, LockNames, WatcherApart
       DEF WatcherSpares, Unlock, Inv, LocksHeld
  <2> QED BY <1>3, <1>4, <1>5, <1>8, <2>1, <2>2 DEF WatcherSpares, Inv
<1>9. CASE WatcherTakes
  <2>1. pc'[Watcher] = "teardown" /\ slot' = NoEngine /\ ~isLoading /\ UNCHANGED label
    BY <1>9, Moved, ActorNames DEF WatcherTakes, Takes, Inv
  <2>2. LocksHeld'
    BY <1>1, <1>9, <2>1, ActorNames, LockNames, WatcherApart
       DEF WatcherTakes, Unlock, Inv, LocksHeld
  <2>3. Named'
    BY <1>1, <1>2, <2>1 DEF Inv, Named, Alone, Naming, Fits
  <2> QED BY <1>3, <1>5, <2>1, <2>2, <2>3 DEF Inv
<1>10. CASE WatcherUnloads
  <2>1. pc'[Watcher] = "idle" /\ label' = NoEngine /\ UNCHANGED slot
    BY <1>10, Moved, ActorNames DEF WatcherUnloads, ShutsDown, Inv
  <2>2. LocksHeld'
    BY <1>1, <1>10, <2>1, ActorNames, LockNames, WatcherApart
       DEF WatcherUnloads, Inv, LocksHeld
  <2>3. Named'
    BY <1>1, <1>2, <2>1, NamesAssumption DEF Inv, Named, Alone, Naming, Fits, Local
  <2> QED BY <1>3, <1>5, <2>1, <2>2, <2>3 DEF Inv
<1> QED BY <1>6, <1>7, <1>8, <1>9, <1>10 DEF Watches

LEMMA InvInit == Init => Inv
<1> SUFFICES ASSUME Init PROVE Inv
  OBVIOUS
<1>1. TypeOK
  BY BudgetsAssumption DEF Init, TypeOK, Engines, Labels
<1>2. LocksHeld /\ Claimed /\ Asked
  BY ActorNames, WatcherApart DEF Init, LocksHeld, Claimed, Asked, Claims
<1>3. Named
  BY ActorNames, NamesAssumption DEF Init, Named, Alone, Naming, Fits, Decoding, Local
<1> QED BY <1>1, <1>2, <1>3 DEF Inv

LEMMA InvNext == Inv /\ [Next]_vars => Inv'
<1> SUFFICES ASSUME Inv, [Next]_vars PROVE Inv'
  OBVIOUS
<1>1. TypeOK'
  BY TypesKept
<1>2. CASE UNCHANGED vars
  BY <1>2
     DEF vars, Inv, TypeOK, LocksHeld, Claimed, Asked, Named, Alone, Naming, Fits, Decoding
<1>3. ASSUME NEW t \in Threads, Requests(t) \/ Serves(t)
      PROVE  Inv'
  BY <1>1, <1>3, RequestKeeps, ClaimKeeps, BuildKeeps, DropKeeps, UnloadKeeps, DecodeKeeps,
     WarmupKeeps DEF Serves, Load
<1>4. CASE WatcherWakes \/ Watches
  BY <1>1, <1>4, WatcherKeeps
<1> QED BY <1>2, <1>3, <1>4 DEF Next

LEMMA InvHolds == Spec => []Inv
  BY InvInit, InvNext, PTL DEF Spec

-----------------------------------------------------------------------------
\* Every variable has its type: what a load builds, and what a thread takes
\* out of the slot, is an engine of a local model that was asked for.
THEOREM EngineTypes == Spec => []TypeOK
<1>1. Inv => TypeOK
  BY DEF Inv
<1> QED BY <1>1, InvHolds, PTL

\* While the idle watcher shuts an engine down no load is on: it holds the
\* lifecycle lock, without which no thread raises the flag (unload_if_still_idle).
THEOREM TeardownIsAlone == Spec => []IdleTeardownIsAlone
<1>1. Inv => IdleTeardownIsAlone
  BY DEF Inv, Claimed, IdleTeardownIsAlone, At
<1> QED BY <1>1, InvHolds, PTL

\* The name of a local model is the name of the engine in the slot, as long as
\* no load has installed an engine while another one was decoding.
THEOREM NameIsEngine == Spec => []LabelNamesEngine
<1>1. Inv => LabelNamesEngine
  BY DEF Inv, Named, Fits, LabelNamesEngine, At
<1> QED BY <1>1, InvHolds, PTL

-----------------------------------------------------------------------------
(***************************************************************************)
(* Nobody waits for good, which is what RequestsReturn needs besides       *)
(* fairness.  A held mutex has its holder at a step that lets go of it, a  *)
(* raised flag has an owner on its way to lower it, and the holder of one  *)
(* mutex waits at most for a later one of lifecycle, is_loading, engine.   *)
(***************************************************************************)
HoldersAreThere ==
  /\ ~ Free("engine") => \E t \in Threads : held["engine"] = t /\ pc[t] = "call"
  /\ ~ Free("is_loading") =>
       \/ \E t \in Threads : held["is_loading"] = t /\ pc[t] = "check"
       \/ pc[Watcher] = "look"
  /\ ~ Free("lifecycle") =>
       \/ \E t \in Threads : held["lifecycle"] = t /\ pc[t] \in {"set", "lower"}
       \/ pc[Watcher] \in {"lock", "look", "teardown"}
  /\ isLoading => \E t \in Threads : guard[t]

\* The guards of the steps, without what is chosen in them.
Waits(t, l) ==
  \/ l = "lifecycle" /\ pc[t] \in {"claim", "touch", "drop", "notify"}
  \/ l = "is_loading" /\ pc[t] \in {"set", "lower", "await", "gate", "lock"}
  \/ l = "engine" /\ pc[t] \in {"present", "evict", "install", "take", "check", "grab",
                                "put", "look"}

Ready(t) ==
  /\ pc[t] # "idle"
  /\ \A l \in Locks : Waits(t, l) => Free(l)
  /\ pc[t] \in {"await", "gate"} => ~isLoading

\* Unless every thread rests, some thread can take its next step.
SomebodyIsReady == (\A t \in Actors : At(t, "idle")) \/ \E t \in Actors : Ready(t)

Holding == {"set", "lower", "check", "call"}

\* A thread that holds no mutex here moves on, with its guard.
LEMMA HoldersStay ==
  ASSUME Inv, HoldersAreThere, NEW t \in Threads, NEW l, pc[t] \notin Holding, Goto(t, l),
         UNCHANGED <<held, isLoading, guard>>
  PROVE  HoldersAreThere'
BY Moved, ActorNames, WatcherApart DEF HoldersAreThere, Inv, Free, Holding

LEMMA RequestHolders ==
  ASSUME Inv, HoldersAreThere, NEW t \in Threads, Requests(t)
  PROVE  HoldersAreThere'
<1>1. /\ pc[t] \notin Holding /\ \E l : Goto(t, l)
      /\ UNCHANGED <<held, isLoading, guard>>
  BY DEF Requests, LoadBegins, PressBegins, UnloadBegins, DecodeBegins, WarmupBegins, Begin,
     At, Holding
<1> QED BY <1>1, HoldersStay

LEMMA LoadHolders ==
  ASSUME Inv, HoldersAreThere, NEW t \in Threads, Load(t)
  PROVE  HoldersAreThere'
<1>0. \A u \in Threads : u # Nobody /\ u # Watcher
  BY WatcherApart, ActorNames
<1> USE DEF Free
<1>1. CASE ClaimLocks(t)
  <2>1. /\ Goto(t, "set") /\ pc[t] = "claim" /\ held' = [held EXCEPT !["lifecycle"] = t]
        /\ UNCHANGED <<isLoading, guard>>
    BY <1>1 DEF ClaimLocks, ClaimOrder, Lock, At
  <2>2. \A u \in Actors : pc'[u] = IF u = t THEN "set" ELSE pc[u]
    BY <2>1, Moved, ActorNames DEF Inv
  <2>3. /\ held'["lifecycle"] = t
        /\ \A l \in Locks : l # "lifecycle" => held'[l] = held[l]
    BY <2>1 DEF Inv, TypeOK, Locks
  <2> QED BY <2>1, <2>2, <2>3, ActorNames, WatcherApart, LockNames DEF HoldersAreThere
<1>2. CASE ClaimSets(t)
  <2>1. /\ pc[t] = "set" /\ Unlock({"lifecycle"}) /\ \E l : Goto(t, l)
        /\ \/ UNCHANGED <<isLoading, guard>>
           \/ isLoading' = TRUE /\ guard' = [guard EXCEPT ![t] = TRUE]
    BY <1>2 DEF ClaimSets, ClaimOrder, At
  <2>2. \A u \in Actors : u # t => pc'[u] = pc[u]
    BY <2>1, Moved, ActorNames DEF Inv
  <2>3. /\ held'["lifecycle"] = Nobody
        /\ \A l \in Locks : l # "lifecycle" => held'[l] = held[l]
    BY <2>1 DEF Unlock, Locks
  <2>4. isLoading' => \E u \in Threads : guard'[u]
    BY <2>1 DEF HoldersAreThere, Inv, TypeOK
  <2> QED BY <2>1, <2>2, <2>3, <2>4, ActorNames, WatcherApart, LockNames DEF HoldersAreThere
<1>3. CASE DropLocks(t)
  <2>1. /\ Goto(t, "lower") /\ pc[t] = "drop" /\ held' = [held EXCEPT !["lifecycle"] = t]
        /\ UNCHANGED <<isLoading, guard>>
    BY <1>3 DEF DropLocks, Lock, At
  <2>2. \A u \in Actors : pc'[u] = IF u = t THEN "lower" ELSE pc[u]
    BY <2>1, Moved, ActorNames DEF Inv
  <2>3. /\ held'["lifecycle"] = t
        /\ \A l \in Locks : l # "lifecycle" => held'[l] = held[l]
    BY <2>1 DEF Inv, TypeOK, Locks
  <2> QED BY <2>1, <2>2, <2>3, ActorNames, WatcherApart, LockNames DEF HoldersAreThere
<1>4. CASE DropLowers(t)
  <2>1. /\ pc[t] = "lower" /\ Unlock({"lifecycle"}) /\ \E l : Goto(t, l)
        /\ isLoading' = FALSE
    BY <1>4 DEF DropLowers, At
  <2>2. \A u \in Actors : u # t => pc'[u] = pc[u]
    BY <2>1, Moved, ActorNames DEF Inv
  <2>3. /\ held'["lifecycle"] = Nobody
        /\ \A l \in Locks : l # "lifecycle" => held'[l] = held[l]
    BY <2>1 DEF Unlock, Locks
  <2> QED BY <2>1, <2>2, <2>3, ActorNames, WatcherApart, LockNames DEF HoldersAreThere
<1>5. CASE \/ Matches(t) \/ Present(t) \/ Awaits(t) \/ Resolves(t) \/ Evicts(t) \/ Builds(t)
           \/ Installs(t) \/ Names(t) \/ Touches(t)
  <2>1. /\ pc[t] \notin Holding /\ \E l : Goto(t, l)
        /\ UNCHANGED <<held, isLoading, guard>>
    BY <1>5 DEF Matches, Present, Awaits, Resolves, Evicts, Builds, Installs, Names, Touches,
       LoadFails, Decides, At, Holding
  <2> QED BY <2>1, HoldersStay
<1> QED BY <1>1, <1>2, <1>3, <1>4, <1>5 DEF Load

LEMMA DecodeHolders ==
  ASSUME Inv, HoldersAreThere, NEW t \in Threads, Unload(t) \/ Decode(t)
  PROVE  HoldersAreThere'
<1> USE DEF Free
<1>1. CASE WaitsForLoad(t)
  <2>1. /\ Goto(t, "check") /\ pc[t] = "gate" /\ held' = [held EXCEPT !["is_loading"] = t]
        /\ UNCHANGED <<isLoading, guard>>
    BY <1>1 DEF WaitsForLoad, Lock, At
  <2>2. \A u \in Actors : pc'[u] = IF u = t THEN "check" ELSE pc[u]
    BY <2>1, Moved, ActorNames DEF Inv
  <2>3. /\ held'["is_loading"] = t
        /\ \A l \in Locks : l # "is_loading" => held'[l] = held[l]
    BY <2>1 DEF Inv, TypeOK, Locks
  <2> QED BY <2>1, <2>2, <2>3, ActorNames, WatcherApart, LockNames DEF HoldersAreThere
<1>2. CASE ChecksEngine(t)
  <2>1. /\ pc[t] = "check" /\ Unlock({"is_loading"}) /\ \E l : Goto(t, l)
        /\ UNCHANGED <<isLoading, guard>>
    BY <1>2 DEF ChecksEngine, At
  <2>2. \A u \in Actors : u # t => pc'[u] = pc[u]
    BY <2>1, Moved, ActorNames DEF Inv
  <2>3. /\ held'["is_loading"] = Nobody
        /\ \A l \in Locks : l # "is_loading" => held'[l] = held[l]
    BY <2>1 DEF Unlock, Locks
  <2> QED BY <2>1, <2>2, <2>3, ActorNames, WatcherApart, LockNames DEF HoldersAreThere
<1>3. CASE ~ WaitsForLoad(t) /\ ~ ChecksEngine(t)
  <2>1. /\ pc[t] \notin Holding /\ \E l : Goto(t, l)
        /\ UNCHANGED <<held, isLoading, guard>>
    BY <1>3 DEF Unload, UnloadTakes, UnloadClears, UnloadNotifies, AsksPolicy, Decode,
       CloudAnswers, TakesEngine, Decodes, PutsBack, Condemns, Decides, At, Holding
  <2> QED BY <2>1, HoldersStay
<1> QED BY <1>1, <1>2, <1>3

LEMMA WarmupHolders ==
  ASSUME Inv, HoldersAreThere, NEW t \in Threads, Warmup(t)
  PROVE  HoldersAreThere'
<1> USE DEF Free
<1>1. CASE At(t, "try") /\ Lock(t, "engine") /\ Goto(t, "call") /\ UNCHANGED <<isLoading, guard>>
  <2>1. /\ Goto(t, "call") /\ pc[t] = "try" /\ held' = [held EXCEPT !["engine"] = t]
        /\ UNCHANGED <<isLoading, guard>>
    BY <1>1 DEF Lock, At
  <2>2. \A u \in Actors : pc'[u] = IF u = t THEN "call" ELSE pc[u]
    BY <2>1, Moved, ActorNames DEF Inv
  <2>3. /\ held'["engine"] = t
        /\ \A l \in Locks : l # "engine" => held'[l] = held[l]
    BY <2>1 DEF Inv, TypeOK, Locks
  <2> QED BY <2>1, <2>2, <2>3, ActorNames, WatcherApart, LockNames DEF HoldersAreThere
<1>2. CASE WarmupReturns(t)
  <2>1. /\ pc[t] = "call" /\ Unlock({"engine"}) /\ \E l : Goto(t, l)
        /\ UNCHANGED <<isLoading, guard>>
    BY <1>2 DEF WarmupReturns, At
  <2>2. \A u \in Actors : u # t => pc'[u] = pc[u]
    BY <2>1, Moved, ActorNames DEF Inv
  <2>3. /\ held'["engine"] = Nobody
        /\ \A l \in Locks : l # "engine" => held'[l] = held[l]
    BY <2>1 DEF Unlock, Locks
  <2> QED BY <2>1, <2>2, <2>3, ActorNames, WatcherApart, LockNames DEF HoldersAreThere
<1>3. CASE WarmupReads(t) \/ (At(t, "try") /\ Decides(t, "idle"))
  <2>1. /\ pc[t] \notin Holding /\ \E l : Goto(t, l)
        /\ UNCHANGED <<held, isLoading, guard>>
    BY <1>3 DEF WarmupReads, Decides, At, Holding
  <2> QED BY <2>1, HoldersStay
<1> QED BY <1>1, <1>2, <1>3 DEF Warmup, WarmupTries

LEMMA WatcherHolders ==
  ASSUME Inv, HoldersAreThere, WatcherWakes \/ Watches
  PROVE  HoldersAreThere'
<1> USE DEF Free
<1>1. UNCHANGED <<isLoading, guard>> /\ \E l : Goto(Watcher, l)
  BY DEF WatcherWakes, Watches, WatcherLocks, WatcherSpares, WatcherTakes, WatcherUnloads
<1>2. \A u \in Threads : pc'[u] = pc[u]
  BY <1>1, Moved, ActorNames, WatcherApart DEF Inv
<1>3. CASE WatcherWakes
  <2>1. /\ pc'[Watcher] = "lock"
        /\ \A l \in Locks : l # "lifecycle" => held'[l] = held[l]
    BY <1>3, Moved, ActorNames DEF WatcherWakes, Lock, Inv, TypeOK, Locks
  <2>2. pc[Watcher] = "idle"
    BY <1>3 DEF WatcherWakes, At
  <2> QED BY <1>1, <1>2, <2>1, <2>2, LockNames DEF HoldersAreThere
<1>4. CASE WatcherLocks
  <2>1. /\ pc'[Watcher] = "look" /\ pc[Watcher] = "lock"
        /\ \A l \in Locks : l # "is_loading" => held'[l] = held[l]
    BY <1>4, Moved, ActorNames DEF WatcherLocks, Lock, At, Inv, TypeOK, Locks
  <2> QED BY <1>1, <1>2, <2>1, LockNames DEF HoldersAreThere
<1>5. CASE WatcherSpares
  <2>1. held'["lifecycle"] = Nobody /\ held'["is_loading"] = Nobody
        /\ held'["engine"] = held["engine"]
    BY <1>5 DEF WatcherSpares, Unlock, Locks
  <2> QED BY <1>1, <1>2, <2>1 DEF HoldersAreThere
<1>6. CASE WatcherTakes
  <2>1. /\ held'["is_loading"] = Nobody /\ held'["lifecycle"] = held["lifecycle"]
        /\ held'["engine"] = held["engine"]
        /\ pc'[Watcher] = "teardown"
    BY <1>6, Moved, ActorNames DEF WatcherTakes, Unlock, Locks, Inv
  <2> QED BY <1>1, <1>2, <2>1 DEF HoldersAreThere
<1>7. CASE WatcherUnloads
  <2>1. \A l \in Locks : held'[l] = IF held[l] = Watcher THEN Nobody ELSE held[l]
    BY <1>7 DEF WatcherUnloads
  <2>2. held["lifecycle"] = Watcher /\ pc[Watcher] = "teardown"
    BY <1>7 DEF WatcherUnloads, At, Inv, LocksHeld
  <2> QED BY <1>1, <1>2, <2>1, <2>2, LockNames, WatcherApart DEF HoldersAreThere
<1> QED BY <1>3, <1>4, <1>5, <1>6, <1>7 DEF Watches

LEMMA HoldersNext ==
  ASSUME Inv, HoldersAreThere, [Next]_vars
  PROVE  HoldersAreThere'
<1>1. CASE UNCHANGED vars
  BY <1>1 DEF vars, HoldersAreThere, Free
<1>2. ASSUME NEW t \in Threads, Requests(t) \/ Serves(t)
      PROVE  HoldersAreThere'
  BY <1>2, RequestHolders, LoadHolders, DecodeHolders, WarmupHolders DEF Serves
<1>3. CASE WatcherWakes \/ Watches
  BY <1>3, WatcherHolders
<1> QED BY <1>1, <1>2, <1>3 DEF Next

LEMMA HoldersInit == Init => HoldersAreThere
BY DEF Init, HoldersAreThere, Free, Locks

\* The holder of the last mutex that is held waits for nothing; when none is held,
\* whoever owns the flag goes on, and otherwise everybody does.
LEMMA SomebodyGoesOn ==
  ASSUME Inv, HoldersAreThere
  PROVE  SomebodyIsReady
<1> USE DEF Ready, Waits, SomebodyIsReady, HoldersAreThere
<1>1. CASE ~ Free("engine")
  BY <1>1, ActorNames
<1>2. CASE Free("engine") /\ ~ Free("is_loading")
  BY <1>2, ActorNames
<1>3. CASE Free("engine") /\ Free("is_loading") /\ ~ Free("lifecycle")
  BY <1>3, ActorNames
<1>4. CASE (\A l \in Locks : Free(l)) /\ isLoading
  <2>1. PICK t \in Threads : guard[t]
    BY <1>4
  <2>2. pc[t] \in Guarded
    BY <2>1 DEF Inv, Claimed
  <2> QED BY <1>4, <2>2, ActorNames DEF Guarded, Claims
<1>5. CASE (\A l \in Locks : Free(l)) /\ ~ isLoading
  BY <1>5 DEF At
<1> QED BY <1>1, <1>2, <1>3, <1>4, <1>5, LockNames

\* Loads, decodes, unloads, warmups and the idle watcher never wait for each other in a
\* circle: unless all rest, some thread can take its next step, for any threads and
\* models (the order lifecycle, is_loading, engine of try_start_loading,
\* LoadingGuard::drop and unload_if_still_idle).
THEOREM EngineGoesOn == Spec => []SomebodyIsReady
<1>1. Inv /\ HoldersAreThere /\ [Next]_vars => HoldersAreThere'
  BY HoldersNext
<1>2. Inv /\ HoldersAreThere => SomebodyIsReady
  BY SomebodyGoesOn
<1> QED BY <1>1, <1>2, HoldersInit, InvHolds, PTL DEF Spec
=============================================================================
