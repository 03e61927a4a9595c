------------------------ MODULE ModeTransitionProofs ------------------------
(***************************************************************************)
(* For any modes, savers, callers and bounds of ModeTransition: its types, *)
(* that a settled phase is final, and that one which is Preparing has an   *)
(* owner that goes on; and, when saves do not overlap, that a current      *)
(* Listen session keeps the streaming model.  The invariant of that one    *)
(* counts the saves under way, says who holds the model lock, and orders   *)
(* the generations of counter, phase, workers, sessions and starts.        *)
(***************************************************************************)
EXTENDS ModeTransition, FiniteSetTheorems, TLAPS

\* The saves under way, and those that have not yet taken their generation.
Busy      == {s \in Savers : saver[s].at # "idle"}
Claimants == {s \in Savers : saver[s].at \in {"stop", "claim"}}

Counted ==
  /\ inFlight = Cardinality(Busy)
  /\ generation + Cardinality(Claimants) <= MaxGen

\* Who holds the model lock: one worker or one start, and never both.
WorkerHolds(g)  == worker[g].at \in {"check", "load"}
StarterHolds(a) == starter[a].at \in {"lifecycle", "load", "open"}

LockHeld ==
  /\ \A g \in Gens : WorkerHolds(g) => prepHeld
  /\ \A a \in Starters : StarterHolds(a) => prepHeld
  /\ \A g, h \in Gens : WorkerHolds(g) /\ WorkerHolds(h) => g = h
  /\ \A a, b \in Starters : StarterHolds(a) /\ StarterHolds(b) => a = b
  /\ \A g \in Gens, a \in Starters : ~(WorkerHolds(g) /\ StarterHolds(a))

\* A start loads and opens while no session is live, and opens over the streaming model.
Streaming ==
  \A a \in Starters : /\ starter[a].at = "open" => engine = "stream"
                      /\ starter[a].at \in {"load", "open"} => ~capturing

\* Between its claim and its release, a save is the one of the newest generation;
\* nothing that was let in is as new, and its worker does not exist yet.
SaveIsNewest ==
  \A s \in Savers :
    /\ saver[s].at # "idle" => mode = saver[s].to
    /\ saver[s].at \in {"begin", "publish", "prepare", "settle", "unpublish", "release"}
         => /\ saver[s].gen = generation
            /\ session < generation
            /\ \A a \in Starters : starter[a].letIn < generation
    /\ saver[s].at \in {"begin", "publish", "prepare"}
         => \A g \in Gens : worker[g].at # "none" => g < generation

\* The phase shows the newest generation except while a save is about to store it.
ShowsNewest ==
  /\ state.generation <= generation
  /\ (\A s \in Savers : ~SaverAt(s, "begin")) => state.generation = generation

\* Starts and sessions were let in under a generation that was shown.
LetInShown ==
  /\ session <= state.generation
  /\ \A a \in Starters : starter[a].letIn <= state.generation

\* Workers are of past generations or of the newest; one that reloads prepares a
\* mode other than Listen, and the newest prepares the mode that is persisted.
WorkersOfModes ==
  \A g \in Gens :
    /\ worker[g].at # "none" => g <= generation
    /\ worker[g].at \in {"lock", "check", "load"} => worker[g].to # "listen"
    /\ worker[g].at # "none" /\ g = generation /\ Claimants = {} => worker[g].to = mode

\* A reload on its way is older than no session that is live.
ReloadsAreOlder == \A g \in Gens : worker[g].at = "load" => session <= g

LockInv == TypeOK /\ Counted /\ LockHeld /\ Streaming

Ordered ==
  /\ SaveIsNewest /\ ShowsNewest /\ LetInShown /\ WorkersOfModes /\ ReloadsAreOlder
  /\ CurrentSessionKeepsEngine

\* The renderer waits for a save before it sends the next: the effects of saves, which run
\* outside the write lock, do not overlap.
OneSaver == \A r, s \in Savers : r = s

-----------------------------------------------------------------------------
\* Types.

SaverPoints == {"idle", "stop", "claim", "begin", "publish", "prepare", "settle",
                "unpublish", "release"}

\* Only s moves, to point p.
Moves(s, p) ==
  /\ saver' \in [Savers -> Saver]
  /\ saver'[s].at = p
  /\ \A r \in Savers : r # s => saver'[r] = saver[r]

LEMMA GotoMoves ==
  ASSUME TypeOK, NEW s \in Savers, NEW p \in SaverPoints, SaverGoto(s, p)
  PROVE  /\ Moves(s, p)
         /\ saver'[s].gen = saver[s].gen /\ saver'[s].to = saver[s].to
<1>1. saver[s] \in Saver
  BY DEF TypeOK
<1>2. [saver[s] EXCEPT !.at = p] \in Saver
  BY <1>1 DEF Saver, SaverPoints
<1>3. saver' = [saver EXCEPT ![s] = [saver[s] EXCEPT !.at = p]]
  BY Zenon DEF SaverGoto
<1> QED BY <1>1, <1>2, <1>3 DEF TypeOK, Moves, Saver

LEMMA BusySets ==
  /\ IsFiniteSet(Busy) /\ Cardinality(Busy) \in 0 .. Cardinality(Savers)
  /\ IsFiniteSet(Claimants) /\ Cardinality(Claimants) \in Nat
  /\ Cardinality(Savers) \in Nat
<1>1. Busy \in SUBSET Savers /\ Claimants \in SUBSET Savers
  BY DEF Busy, Claimants
<1>2. IsFiniteSet(Savers)
  BY SaversAssumption
<1>3. IsFiniteSet(Busy) /\ Cardinality(Busy) <= Cardinality(Savers)
  BY <1>1, <1>2, FS_Subset
<1>4. IsFiniteSet(Claimants)
  BY <1>1, <1>2, FS_Subset
<1>5. Cardinality(Busy) \in Nat /\ Cardinality(Claimants) \in Nat /\ Cardinality(Savers) \in Nat
  BY <1>2, <1>3, <1>4, FS_CardinalityType
<1> QED BY <1>3, <1>4, <1>5

\* How a move changes the two counts.
LEMMA MoveCounts ==
  ASSUME TypeOK, NEW s \in Savers, NEW p \in SaverPoints, Moves(s, p)
  PROVE  /\ p # "idle" /\ saver[s].at # "idle" => Busy' = Busy
         /\ p # "idle" /\ saver[s].at = "idle"
              => Cardinality(Busy') = Cardinality(Busy) + 1
         /\ p = "idle" /\ saver[s].at # "idle"
              => Cardinality(Busy') = Cardinality(Busy) - 1
         /\ (p \in {"stop", "claim"} <=> saver[s].at \in {"stop", "claim"})
              => Claimants' = Claimants
         /\ p \in {"stop", "claim"} /\ saver[s].at \notin {"stop", "claim"}
              => Cardinality(Claimants') = Cardinality(Claimants) + 1
         /\ p \notin {"stop", "claim"} /\ saver[s].at \in {"stop", "claim"}
              => Cardinality(Claimants') = Cardinality(Claimants) - 1
<1>1. p # "idle" => Busy' = Busy \cup {s}
  BY DEF Moves, Busy
<1>2. p = "idle" => Busy' = Busy \ {s}
  BY DEF Moves, Busy
<1>3. p \in {"stop", "claim"} => Claimants' = Claimants \cup {s}
  BY DEF Moves, Claimants
<1>4. p \notin {"stop", "claim"} => Claimants' = Claimants \ {s}
  BY DEF Moves, Claimants
<1>5. s \in Busy <=> saver[s].at # "idle"
  BY DEF Busy
<1>6. s \in Claimants <=> saver[s].at \in {"stop", "claim"}
  BY DEF Claimants
<1>7. /\ s \notin Busy => Cardinality(Busy \cup {s}) = Cardinality(Busy) + 1
      /\ s \in Busy => Cardinality(Busy \ {s}) = Cardinality(Busy) - 1
  BY BusySets, FS_AddElement, FS_RemoveElement, Zenon
<1>8. /\ s \notin Claimants => Cardinality(Claimants \cup {s}) = Cardinality(Claimants) + 1
      /\ s \in Claimants => Cardinality(Claimants \ {s}) = Cardinality(Claimants) - 1
  BY BusySets, FS_AddElement, FS_RemoveElement, Zenon
<1>9. s \in Busy => Busy \cup {s} = Busy
  OBVIOUS
<1>10. /\ s \in Claimants => Claimants \cup {s} = Claimants
       /\ s \notin Claimants => Claimants \ {s} = Claimants
  OBVIOUS
<1> QED BY <1>1, <1>2, <1>3, <1>4, <1>5, <1>6, <1>7, <1>8, <1>9, <1>10, Zenon

\* A step of a save that neither starts nor ends it, nor claims.
LEMMA MidMoveCounts ==
  ASSUME TypeOK, Counted, NEW s \in Savers, NEW p \in SaverPoints, Moves(s, p),
         p # "idle", saver[s].at # "idle",
         p \in {"stop", "claim"} <=> saver[s].at \in {"stop", "claim"},
         inFlight' = inFlight, generation' = generation
  PROVE  Counted'
<1>1. Busy' = Busy /\ Claimants' = Claimants
  BY MoveCounts
<1> QED BY <1>1 DEF Counted

LEMMA QuietCounts ==
  ASSUME Counted, saver' = saver, inFlight' = inFlight, generation' = generation
  PROVE  Counted'
  BY DEF Counted, Busy, Claimants

LEMMA SaveTypes ==
  ASSUME TypeOK, Counted, NEW s \in Savers, Save(s) \/ SaveStep(s)
  PROVE  TypeOK' /\ Counted'
<1> USE DEF SaverPoints
<1>0. /\ saver[s] \in Saver /\ inFlight \in Nat /\ generation \in Nat
      /\ inFlight' = Cardinality(Busy)' => inFlight' \in 0 .. Cardinality(Savers)
  <2>1. Busy' \in SUBSET Savers
    BY DEF Busy
  <2>2. IsFiniteSet(Busy') /\ Cardinality(Busy') <= Cardinality(Savers)
    BY <2>1, SaversAssumption, FS_Subset
  <2>3. Cardinality(Busy') \in Nat
    BY <2>2, FS_CardinalityType
  <2> QED BY <2>2, <2>3, BusySets DEF TypeOK
<1>1. CASE Save(s)
  <2>1. PICK to \in Modes \ {mode} :
          /\ saver' = [saver EXCEPT ![s] = [at |-> "stop", from |-> mode, to |-> to,
                                            gen |-> 0, result |-> "Ready"]]
          /\ mode' = to
    BY <1>1 DEF Save
  <2>2. [at |-> "stop", from |-> mode, to |-> to, gen |-> 0, result |-> "Ready"] \in Saver
    BY BoundsAssumption DEF TypeOK, Saver
  <2>3. Moves(s, "stop")
    BY <2>1, <2>2 DEF Moves, TypeOK
  <2>4. Claimants = {r \in Savers : saver[r].at \in {"stop", "claim"}}
    BY DEF Claimants
  <2>5. generation + Cardinality(Claimants) < MaxGen
    BY <1>1, <2>4 DEF Save
  <2>6. /\ Cardinality(Busy') = Cardinality(Busy) + 1
        /\ Cardinality(Claimants') = Cardinality(Claimants) + 1
    BY <1>1, <2>3, MoveCounts DEF Save, SaverAt
  <2>7. Counted'
    BY <1>1, <2>5, <2>6, <1>0, BusySets, BoundsAssumption DEF Counted, Save
  <2> QED BY <1>1, <2>1, <2>3, <2>7, <1>0 DEF Save, TypeOK, Moves, Counted
<1>2. CASE SaveStopsListen(s)
  <2>1. Moves(s, "claim") /\ Counted'
    BY <1>2, GotoMoves, MidMoveCounts DEF SaveStopsListen, SaverAt
  <2> QED BY <1>2, <2>1 DEF SaveStopsListen, TypeOK, Moves
<1>3. CASE SaveClaims(s)
  <2>1. /\ generation + Cardinality(Claimants) <= MaxGen
        /\ Cardinality(Claimants) \in Nat /\ s \in Claimants /\ Cardinality(Claimants) # 0
    BY <1>3, BusySets, FS_EmptySet DEF Counted, Claimants, SaveClaims, SaverAt
  <2>2. generation + 1 \in 0 .. MaxGen
    BY <2>1, <1>0, BoundsAssumption
  <2>3. [saver[s] EXCEPT !.at = "begin", !.gen = generation + 1] \in Saver
    BY <1>0, <2>2 DEF Saver
  <2>4. saver' = [saver EXCEPT ![s] = [saver[s] EXCEPT !.at = "begin", !.gen = generation + 1]]
    BY <1>3, Zenon DEF SaveClaims
  <2>5. Moves(s, "begin")
    BY <2>3, <2>4, <1>0 DEF Moves, TypeOK, Saver
  <2>6. Busy' = Busy /\ Cardinality(Claimants') = Cardinality(Claimants) - 1
    BY <1>3, <2>5, MoveCounts DEF SaveClaims, SaverAt
  <2>7. Counted'
    BY <1>3, <2>1, <2>6, <1>0, BoundsAssumption DEF Counted, SaveClaims
  <2> QED BY <1>3, <2>2, <2>5, <2>7 DEF SaveClaims, TypeOK, Moves
<1>4. CASE SaveBegins(s)
  <2>1. Moves(s, "publish") /\ Counted'
    BY <1>4, GotoMoves, MidMoveCounts DEF SaveBegins, SaverAt
  <2>2. state' \in [generation : 0 .. MaxGen, from : AllModes, to : AllModes, phase : Phases]
    BY <1>4, <1>0, ModesAssumption DEF SaveBegins, Saver, Phases
  <2> QED BY <1>4, <2>1, <2>2 DEF SaveBegins, TypeOK, Moves
<1>5. CASE SavePublishes(s)
  <2>1. Moves(s, "prepare") /\ Counted'
    BY <1>5, GotoMoves, MidMoveCounts DEF SavePublishes, SaverAt
  <2> QED BY <1>5, <2>1 DEF SavePublishes, TypeOK, Moves
<1>6. CASE SaveSettlesInBand(s) \/ SaveCannotSpawn(s)
  <2>1. PICK r \in {"Ready", "Failed"} :
          saver' = [saver EXCEPT ![s].at = "settle", ![s].result = r]
    BY <1>6 DEF SaveSettlesInBand, SaveCannotSpawn
  <2>2. saver' = [saver EXCEPT ![s] = [saver[s] EXCEPT !.at = "settle", !.result = r]]
    BY <2>1, Zenon
  <2>3. Moves(s, "settle")
    BY <2>2, <1>0 DEF Moves, TypeOK, Saver
  <2>4. Counted'
    BY <1>6, <2>3, MidMoveCounts DEF SaveSettlesInBand, SaveCannotSpawn, SaverAt
  <2> QED BY <1>6, <2>3, <2>4 DEF SaveSettlesInBand, SaveCannotSpawn, TypeOK, Moves
<1>7. CASE SaveSpawnsWorker(s)
  <2>1. Moves(s, "release") /\ Counted'
    BY <1>7, GotoMoves, MidMoveCounts DEF SaveSpawnsWorker, SaverAt
  <2>2. worker' \in [Gens -> Worker]
    BY <1>7, <1>0, ModesAssumption DEF SaveSpawnsWorker, TypeOK, Saver, Worker
  <2> QED BY <1>7, <2>1, <2>2 DEF SaveSpawnsWorker, TypeOK, Moves
<1>8. CASE SaveSettles(s)
  <2>1. PICK p \in {"unpublish", "release"} : SaverGoto(s, p)
    BY <1>8 DEF SaveSettles
  <2>2. Moves(s, p) /\ Counted'
    BY <1>8, <2>1, GotoMoves, MidMoveCounts DEF SaveSettles, SaverAt
  <2>3. state' \in [generation : 0 .. MaxGen, from : AllModes, to : AllModes, phase : Phases]
    BY <1>8, <1>0 DEF SaveSettles, TypeOK, Saver, Phases
  <2> QED BY <1>8, <2>2, <2>3 DEF SaveSettles, TypeOK, Moves
<1>9. CASE SaveUnpublishes(s)
  <2>1. Moves(s, "release") /\ Counted'
    BY <1>9, GotoMoves, MidMoveCounts DEF SaveUnpublishes, SaverAt
  <2> QED BY <1>9, <2>1 DEF SaveUnpublishes, TypeOK, Moves
<1>10. CASE SaveReleases(s)
  <2>1. Moves(s, "idle")
    BY <1>10, GotoMoves DEF SaveReleases
  <2>2. Cardinality(Busy') = Cardinality(Busy) - 1 /\ Claimants' = Claimants
    BY <1>10, <2>1, MoveCounts DEF SaveReleases, SaverAt
  <2>3. Counted'
    BY <1>10, <2>2, <1>0, BusySets DEF Counted, SaveReleases
  <2>4. inFlight' \in 0 .. Cardinality(Savers)
    BY <2>3, <1>0 DEF Counted
  <2> QED BY <1>10, <2>1, <2>3, <2>4 DEF SaveReleases, TypeOK, Moves
<1> QED BY <1>1, <1>2, <1>3, <1>4, <1>5, <1>6, <1>7, <1>8, <1>9, <1>10 DEF SaveStep

LEMMA WorkerTypes ==
  ASSUME TypeOK, Counted, NEW g \in Gens, WorkerStep(g)
  PROVE  TypeOK' /\ Counted'
<1>0. worker[g] \in Worker
  BY DEF TypeOK
<1>1. Counted'
  BY QuietCounts DEF WorkerStep, WorkerLocks, WorkerChecks, WorkerLoads, WorkerSettles,
     WorkerUnpublishes, WatchdogFires
<1>2. worker' \in [Gens -> Worker]
  <2>1. PICK p \in {"check", "load", "settle", "unpublish", "done"}, r \in {"Ready", "Failed"} :
          worker' = [worker EXCEPT ![g] = [worker[g] EXCEPT !.at = p, !.result = r]]
    <3>1. worker[g] = [worker[g] EXCEPT !.result = worker[g].result]
          /\ worker[g].result \in {"Ready", "Failed"}
      BY <1>0 DEF Worker
    <3>2. ASSUME NEW p \in {"check", "load", "settle", "unpublish", "done"}, WorkerGoto(g, p)
          PROVE  worker' = [worker EXCEPT ![g] =
                              [worker[g] EXCEPT !.at = p, !.result = worker[g].result]]
      BY <1>0, <3>2 DEF WorkerGoto, Worker, TypeOK
    <3>3. worker' = [worker EXCEPT ![g].at = "settle", ![g].result = "Failed"]
            => worker' = [worker EXCEPT ![g] =
                            [worker[g] EXCEPT !.at = "settle", !.result = "Failed"]]
      BY Zenon
    <3>4. \/ \E p \in {"check", "load", "settle", "unpublish", "done"} : WorkerGoto(g, p)
          \/ worker' = [worker EXCEPT ![g].at = "settle", ![g].result = "Failed"]
      BY DEF WorkerStep, WorkerLocks, WorkerChecks, WorkerLoads, WorkerSettles,
         WorkerUnpublishes, WatchdogFires
    <3> QED BY <3>1, <3>2, <3>3, <3>4
  <2> QED BY <1>0, <2>1 DEF TypeOK, Worker
<1>3. state' \in [generation : 0 .. MaxGen, from : AllModes, to : AllModes, phase : Phases]
  BY <1>0 DEF WorkerStep, WorkerLocks, WorkerChecks, WorkerLoads, WorkerSettles,
     WorkerUnpublishes, WatchdogFires, TypeOK, Worker, Phases
<1> QED
  BY <1>1, <1>2, <1>3 DEF WorkerStep, WorkerLocks, WorkerChecks, WorkerLoads, WorkerSettles,
     WorkerUnpublishes, WatchdogFires, TypeOK

StarterPoints == {"idle", "mode", "guard", "probe", "lock", "lifecycle", "load", "open",
                  "pending", "settle", "unpublish"}

\* Only a moves, to point p.
Walks(a, p) ==
  /\ starter' \in [Starters -> Starter]
  /\ starter'[a].at = p
  /\ \A b \in Starters : b # a => starter'[b] = starter[b]

LEMMA GotoWalks ==
  ASSUME TypeOK, NEW a \in Starters, NEW p \in StarterPoints, StarterGoto(a, p)
  PROVE  Walks(a, p) /\ starter'[a].letIn = starter[a].letIn
<1>1. starter[a] \in Starter
  BY DEF TypeOK
<1>2. [starter[a] EXCEPT !.at = p] \in Starter
  BY <1>1 DEF Starter, StarterPoints
<1>3. starter' = [starter EXCEPT ![a] = [starter[a] EXCEPT !.at = p]]
  BY Zenon DEF StarterGoto
<1> QED BY <1>1, <1>2, <1>3 DEF TypeOK, Walks, Starter

LEMMA EndWalks ==
  ASSUME TypeOK, NEW a \in Starters, NEW r \in {"Ready", "Failed"}, StarterEnds(a, r)
  PROVE  Walks(a, "pending") /\ starter'[a].letIn = starter[a].letIn
<1>1. starter[a] \in Starter
  BY DEF TypeOK
<1>2. [starter[a] EXCEPT !.at = "pending", !.result = r] \in Starter
  BY <1>1 DEF Starter
<1>3. starter' = [starter EXCEPT ![a] = [starter[a] EXCEPT !.at = "pending", !.result = r]]
  BY Zenon DEF StarterEnds
<1> QED BY <1>1, <1>2, <1>3 DEF TypeOK, Walks, Starter

LEMMA LetInWalks ==
  ASSUME TypeOK, NEW a \in Starters,
         starter' = [starter EXCEPT ![a].at = "probe", ![a].letIn = generation]
  PROVE  Walks(a, "probe") /\ starter'[a].letIn = generation
<1>1. starter[a] \in Starter /\ generation \in 0 .. MaxGen
  BY DEF TypeOK
<1>2. [starter[a] EXCEPT !.at = "probe", !.letIn = generation] \in Starter
  BY <1>1 DEF Starter
<1>3. starter' = [starter EXCEPT ![a] = [starter[a] EXCEPT !.at = "probe", !.letIn = generation]]
  BY Zenon
<1> QED BY <1>1, <1>2, <1>3 DEF TypeOK, Walks, Starter

LEMMA FoundWalks ==
  ASSUME TypeOK, NEW a \in Starters,
         starter' = [starter EXCEPT ![a].at = "settle", ![a].gen = state.generation]
  PROVE  Walks(a, "settle") /\ starter'[a].letIn = starter[a].letIn
<1>1. starter[a] \in Starter /\ state.generation \in 0 .. MaxGen
  BY DEF TypeOK
<1>2. [starter[a] EXCEPT !.at = "settle", !.gen = state.generation] \in Starter
  BY <1>1 DEF Starter
<1>3. starter' = [starter EXCEPT ![a] =
                    [starter[a] EXCEPT !.at = "settle", !.gen = state.generation]]
  BY Zenon
<1> QED BY <1>1, <1>2, <1>3 DEF TypeOK, Walks, Starter

\* Every step of a start is a walk; only the one that is let in learns a generation.
LEMMA StartWalks ==
  ASSUME TypeOK, NEW a \in Starters, StartBegins(a) \/ StartStep(a)
  PROVE  /\ \E p \in StarterPoints : Walks(a, p)
         /\ starter'[a].letIn = starter[a].letIn \/ (starter'[a].letIn = generation /\ inFlight = 0)
<1> USE DEF StarterPoints
<1>1. CASE StartSeesGuard(a)
  BY <1>1, GotoWalks, LetInWalks DEF StartSeesGuard
<1>2. CASE StartFindsPending(a)
  BY <1>2, GotoWalks, FoundWalks DEF StartFindsPending
<1>3. CASE StartGivesUp(a) \/ StartProbes(a) \/ StartEnters(a) \/ StartLoads(a) \/ StartOpens(a)
  BY <1>3, GotoWalks, EndWalks
          DEF StartGivesUp, StartProbes, StartEnters, StartLoads, StartOpens
<1>4. CASE \/ StartBegins(a) \/ StartSeesMode(a) \/ StartLocks(a) \/ StartSettles(a)
           \/ StartUnpublishes(a)
  BY <1>4, GotoWalks DEF StartBegins, StartSeesMode, StartLocks, StartSettles, StartUnpublishes
<1> QED BY <1>1, <1>2, <1>3, <1>4 DEF StartStep

LEMMA StartTypes ==
  ASSUME TypeOK, Counted, NEW a \in Starters, StartBegins(a) \/ StartStep(a)
  PROVE  TypeOK' /\ Counted'
<1>0. starter[a] \in Starter
  BY DEF TypeOK
<1>1. Counted'
  BY QuietCounts DEF StartBegins, StartStep, StartSeesMode, StartSeesGuard, StartGivesUp,
     StartProbes, StartLocks, StartEnters, StartLoads, StartOpens, StartFindsPending,
     StartSettles, StartUnpublishes
<1>2. starter' \in [Starters -> Starter]
  BY StartWalks DEF Walks
<1>3. state' \in [generation : 0 .. MaxGen, from : AllModes, to : AllModes, phase : Phases]
  BY <1>0 DEF StartBegins, StartStep, StartSeesMode, StartSeesGuard, StartGivesUp,
     StartProbes, StartLocks, StartEnters, StartLoads, StartOpens, StartFindsPending,
     StartSettles, StartUnpublishes, TypeOK, Starter, Phases
<1>4. session' \in 0 .. MaxGen
  BY <1>0 DEF StartBegins, StartStep, StartSeesMode, StartSeesGuard, StartGivesUp,
     StartProbes, StartLocks, StartEnters, StartLoads, StartOpens, StartFindsPending,
     StartSettles, StartUnpublishes, TypeOK, Starter
<1> QED
  BY <1>1, <1>2, <1>3, <1>4 DEF StartBegins, StartStep, StartSeesMode, StartSeesGuard,
     StartGivesUp, StartProbes, StartLocks, StartEnters, StartLoads, StartOpens,
     StartFindsPending, StartSettles, StartUnpublishes, TypeOK

LEMMA StopTypes ==
  ASSUME TypeOK, Counted, StopListen
  PROVE  TypeOK' /\ Counted'
<1>1. Counted'
  BY QuietCounts DEF StopListen
<1>2. stops' \in 0 .. MaxStops
  BY BoundsAssumption DEF StopListen, TypeOK
<1> QED BY <1>1, <1>2 DEF StopListen, TypeOK

LEMMA TypesInit == Init => TypeOK /\ Counted
<1> SUFFICES ASSUME Init PROVE TypeOK /\ Counted
  OBVIOUS
<1>1. Busy = {} /\ Claimants = {}
  BY DEF Init, Busy, Claimants
<1>2. Cardinality(Savers) \in Nat
  BY BusySets
<1>3. Cardinality(Busy) = 0 /\ Cardinality(Claimants) = 0
  BY <1>1, FS_EmptySet
<1>4. Counted
  BY <1>3, BoundsAssumption DEF Init, Counted
<1>5. /\ inFlight \in 0 .. Cardinality(Savers) /\ generation \in 0 .. MaxGen
      /\ session \in 0 .. MaxGen /\ stops \in 0 .. MaxStops /\ 0 \in 0 .. MaxGen
  BY <1>2, BoundsAssumption DEF Init
<1>6. state \in [generation : 0 .. MaxGen, from : AllModes, to : AllModes, phase : Phases]
  BY <1>5, ModesAssumption DEF Init, Phases
<1>7. /\ saver \in [Savers -> Saver] /\ worker \in [Gens -> Worker]
      /\ starter \in [Starters -> Starter]
  BY <1>5, ModesAssumption DEF Init, Saver, Worker, Starter
<1> QED BY <1>4, <1>5, <1>6, <1>7 DEF Init, TypeOK

LEMMA TypesNext ==
  ASSUME TypeOK, Counted, [Next]_vars
  PROVE  TypeOK' /\ Counted'
<1>1. CASE UNCHANGED vars
  BY <1>1, QuietCounts DEF vars, TypeOK
<1> QED BY <1>1, SaveTypes, WorkerTypes, StartTypes, StopTypes DEF Next

\* Every variable of a mode change keeps its type; the count of saves in flight, which
\* start_listen waits on, is the number of saves under way (RecordingModeTransitionGuard).
THEOREM ModeTypes == Spec => []TypeOK
<1>1. TypeOK /\ Counted /\ [Next]_vars => (TypeOK /\ Counted)'
  BY TypesNext
<1> QED BY <1>1, TypesInit, PTL DEF Spec
-----------------------------------------------------------------------------
\* A phase reported for a generation is final until the next begin: each settle tests,
\* under the mutex, that the phase is still pending (settle).
THEOREM PhaseIsFinal == Spec => SettledStaysSettled
<1> DEFINE Final == state.phase \in {"Ready", "Failed"} =>
                      state' = state \/ state'.phase = "Preparing"
<1>1. ASSUME NEW s \in Savers, Save(s) \/ SaveStep(s)
      PROVE  Final
  BY <1>1 DEF Save, SaveStep, SaveStopsListen, SaveClaims, SaveBegins, SavePublishes,
     SaveSettlesInBand, SaveSpawnsWorker, SaveCannotSpawn, SaveSettles, SaveUnpublishes,
     SaveReleases, Settles
<1>2. ASSUME NEW g \in Gens, WorkerStep(g)
      PROVE  Final
  BY <1>2 DEF WorkerStep, WorkerLocks, WorkerChecks, WorkerLoads, WorkerSettles,
     WorkerUnpublishes, WatchdogFires, Settles
<1>3. ASSUME NEW a \in Starters, StartBegins(a) \/ StartStep(a)
      PROVE  Final
  BY <1>3 DEF StartBegins, StartStep, StartSeesMode, StartSeesGuard, StartGivesUp, StartProbes,
     StartLocks, StartEnters, StartLoads, StartOpens, StartFindsPending, StartSettles,
     StartUnpublishes, Settles
<1>4. StopListen => Final
  BY DEF StopListen
<1>5. UNCHANGED vars => Final
  BY DEF vars
<1>6. [Next]_vars => Final
  BY <1>1, <1>2, <1>3, <1>4, <1>5 DEF Next
<1>7. [Next]_vars => [Final]_vars
  BY <1>6
<1> QED BY <1>7, PTL DEF Spec, SettledStaysSettled
-----------------------------------------------------------------------------
\* The model lock.

\* Only the worker of g moves, to point p.
Turns(g, p) ==
  /\ worker'[g].at = p /\ worker'[g].to = worker[g].to
  /\ \A h \in Gens : h # g => worker'[h] = worker[h]

LEMMA GotoTurns ==
  ASSUME TypeOK, NEW g \in Gens, NEW p, WorkerGoto(g, p)
  PROVE  Turns(g, p)
<1>1. worker[g] \in Worker /\ worker' = [worker EXCEPT ![g] = [worker[g] EXCEPT !.at = p]]
  BY Zenon DEF TypeOK, WorkerGoto
<1> QED BY <1>1 DEF Turns, TypeOK, Worker

LEMMA FailTurns ==
  ASSUME TypeOK, NEW g \in Gens,
         worker' = [worker EXCEPT ![g].at = "settle", ![g].result = "Failed"]
  PROVE  Turns(g, "settle")
<1>1. worker[g] \in Worker
      /\ worker' = [worker EXCEPT ![g] = [worker[g] EXCEPT !.at = "settle", !.result = "Failed"]]
  BY Zenon DEF TypeOK
<1> QED BY <1>1 DEF Turns, TypeOK, Worker

\* What a save gives the worker it spawns.
LEMMA SpawnTurns ==
  ASSUME TypeOK, NEW s \in Savers, SaveSpawnsWorker(s)
  PROVE  /\ \A h \in Gens : h # saver[s].gen => worker'[h] = worker[h]
         /\ saver[s].gen \in Gens =>
              /\ worker'[saver[s].gen].to = saver[s].to
              /\ worker'[saver[s].gen].at \in {"lock", "armed", "settle"}
              /\ worker'[saver[s].gen].at = "lock" => saver[s].to # "listen"
  BY DEF SaveSpawnsWorker, TypeOK, RequiresMainModelReload

LEMMA SaveLocks ==
  ASSUME LockInv, NEW s \in Savers, Save(s) \/ SaveStep(s)
  PROVE  LockHeld' /\ Streaming'
<1>1. CASE SaveSpawnsWorker(s)
  <2>1. \A g \in Gens : worker'[g] = worker[g] \/ ~WorkerHolds(g)'
    BY <1>1, SpawnTurns DEF LockInv, WorkerHolds
  <2> QED BY <1>1, <2>1
          DEF SaveSpawnsWorker, LockInv, LockHeld, Streaming, WorkerHolds, StarterHolds
<1>2. CASE ~SaveSpawnsWorker(s)
  BY <1>2 DEF Save, SaveStep, SaveStopsListen, SaveClaims, SaveBegins, SavePublishes,
     SaveSettlesInBand, SaveCannotSpawn, SaveSettles, SaveUnpublishes, SaveReleases,
     LockInv, LockHeld, Streaming, WorkerHolds, StarterHolds
<1> QED BY <1>1, <1>2

LEMMA WorkerLocksKeep ==
  ASSUME LockInv, NEW g \in Gens, WorkerStep(g)
  PROVE  LockHeld' /\ Streaming'
<1> USE DEF LockInv, LockHeld, Streaming, WorkerHolds, StarterHolds
<1>1. CASE WorkerLocks(g)
  <2>1. Turns(g, "check")
    BY <1>1, GotoTurns DEF WorkerLocks
  <2> QED BY <1>1, <2>1 DEF WorkerLocks, Turns
<1>2. CASE WorkerChecks(g)
  <2>1. \/ Turns(g, "load") /\ prepHeld' = prepHeld
        \/ Turns(g, "settle") /\ prepHeld' = FALSE
    BY <1>2, GotoTurns DEF WorkerChecks
  <2> QED BY <1>2, <2>1 DEF WorkerChecks, WorkerAt, Turns
<1>3. CASE WorkerLoads(g)
  <2>1. Turns(g, "settle")
    BY <1>3, GotoTurns, FailTurns DEF WorkerLoads
  <2> QED BY <1>3, <2>1 DEF WorkerLoads, WorkerAt, Turns
<1>4. CASE WorkerSettles(g)
  <2>1. Turns(g, "unpublish") \/ Turns(g, "done")
    BY <1>4, GotoTurns DEF WorkerSettles
  <2> QED BY <1>4, <2>1 DEF WorkerSettles, Turns
<1>5. CASE WorkerUnpublishes(g)
  <2>1. Turns(g, "done")
    BY <1>5, GotoTurns DEF WorkerUnpublishes
  <2> QED BY <1>5, <2>1 DEF WorkerUnpublishes, Turns
<1>6. CASE WatchdogFires(g)
  <2>1. Turns(g, "settle")
    BY <1>6, FailTurns DEF WatchdogFires
  <2> QED BY <1>6, <2>1 DEF WatchdogFires, Turns
<1> QED BY <1>1, <1>2, <1>3, <1>4, <1>5, <1>6 DEF WorkerStep

LEMMA StartLocksKeep ==
  ASSUME LockInv, NEW a \in Starters, StartBegins(a) \/ StartStep(a)
  PROVE  LockHeld' /\ Streaming'
<1> USE DEF LockInv, LockHeld, Streaming, WorkerHolds, StarterHolds
<1> USE DEF StarterPoints
<1>1. CASE StartLocks(a)
  <2>1. Walks(a, "lifecycle")
    BY <1>1, GotoWalks DEF StartLocks
  <2> QED BY <1>1, <2>1 DEF StartLocks, Walks
<1>2. CASE StartEnters(a)
  <2>1. \/ Walks(a, "pending") /\ prepHeld' = FALSE
        \/ Walks(a, "load") /\ prepHeld' = prepHeld /\ ~capturing'
    BY <1>2, GotoWalks, EndWalks DEF StartEnters
  <2> QED BY <1>2, <2>1 DEF StartEnters, StarterAt, Walks
<1>3. CASE StartLoads(a)
  <2>1. \/ Walks(a, "pending") /\ prepHeld' = FALSE
        \/ Walks(a, "open") /\ prepHeld' = prepHeld /\ engine' = "stream"
    BY <1>3, GotoWalks, EndWalks DEF StartLoads
  <2> QED BY <1>3, <2>1 DEF StartLoads, StarterAt, Walks
<1>4. CASE StartOpens(a)
  <2>1. Walks(a, "pending")
    BY <1>4, EndWalks DEF StartOpens
  <2> QED BY <1>4, <2>1 DEF StartOpens, StarterAt, Walks
<1>5. CASE StartBegins(a) \/ StartSeesMode(a) \/ StartSeesGuard(a) \/ StartGivesUp(a)
           \/ StartProbes(a) \/ StartFindsPending(a) \/ StartSettles(a) \/ StartUnpublishes(a)
  <2>1. PICK p \in StarterPoints : Walks(a, p) /\ p \notin {"lifecycle", "load", "open"}
    BY <1>5, GotoWalks, EndWalks, LetInWalks, FoundWalks DEF StartBegins, StartSeesMode,
       StartSeesGuard, StartGivesUp, StartProbes, StartFindsPending, StartSettles,
       StartUnpublishes
  <2>2. UNCHANGED <<prepHeld, engine, capturing, worker>>
    BY <1>5 DEF StartBegins, StartSeesMode, StartSeesGuard, StartGivesUp, StartProbes,
       StartFindsPending, StartSettles, StartUnpublishes
  <2> QED BY <2>1, <2>2 DEF Walks
<1> QED BY <1>1, <1>2, <1>3, <1>4, <1>5 DEF StartStep

LEMMA LockInvNext ==
  ASSUME LockInv, [Next]_vars
  PROVE  LockInv'
<1>1. TypeOK' /\ Counted'
  BY TypesNext DEF LockInv
<1>2. CASE UNCHANGED vars
  BY <1>1, <1>2 DEF vars, LockInv, LockHeld, Streaming, WorkerHolds, StarterHolds
<1>3. CASE StopListen
  BY <1>1, <1>3 DEF StopListen, LockInv, LockHeld, Streaming, WorkerHolds, StarterHolds
<1> QED BY <1>1, <1>2, <1>3, SaveLocks, WorkerLocksKeep, StartLocksKeep DEF Next, LockInv

LEMMA LockInvInit == Init => LockInv
  BY TypesInit DEF Init, LockInv, LockHeld, Streaming, WorkerHolds, StarterHolds, TypeOK
-----------------------------------------------------------------------------
\* The order of the generations, when saves do not overlap.

LEMMA GenTypes ==
  ASSUME TypeOK
  PROVE  /\ generation \in Nat /\ state.generation \in Nat /\ session \in Nat
         /\ \A s \in Savers : saver[s] \in Saver /\ saver[s].gen \in Nat
         /\ \A a \in Starters : starter[a].letIn \in Nat
         /\ \A g \in Gens : g \in Nat
         /\ MaxGen \in Nat
  BY BoundsAssumption DEF TypeOK, Saver, Starter, Gens

LEMMA ClaimantsOfOne ==
  ASSUME OneSaver, TypeOK, NEW s \in Savers
  PROVE  Claimants = {} <=> saver[s].at \notin {"stop", "claim"}
  BY DEF OneSaver, Claimants

LEMMA SaveOrder ==
  ASSUME OneSaver, LockInv, Ordered, TypeOK', NEW s \in Savers, Save(s) \/ SaveStep(s)
  PROVE  Ordered'
<1> USE DEF SaverPoints, SaverAt
<1>a. TypeOK
  BY DEF LockInv
<1>b. \A r \in Savers : r = s
  BY DEF OneSaver
<1>c. /\ Claimants = {} <=> saver[s].at \notin {"stop", "claim"}
      /\ Claimants' = {} <=> saver'[s].at \notin {"stop", "claim"}
  BY <1>a, <1>b DEF Claimants
<1>1. CASE Save(s)
  <2>1. /\ saver'[s].at = "stop" /\ saver'[s].to = mode'
    BY <1>1, <1>a DEF Save, TypeOK
  <2> QED BY <2>1, <1>1, <1>b, <1>c, GenTypes, <1>a
          DEF Ordered, Save, SaveIsNewest, ShowsNewest, LetInShown,
          WorkersOfModes, ReloadsAreOlder, CurrentSessionKeepsEngine, NoBoundary
<1>2. CASE SaveStopsListen(s)
  <2>1. /\ saver'[s].at = "claim" /\ saver'[s].to = saver[s].to /\ saver'[s].gen = saver[s].gen
    BY <1>2, <1>a, GotoMoves DEF SaveStopsListen, Moves
  <2> QED BY <2>1, <1>2, <1>b, <1>c, GenTypes, <1>a
          DEF Ordered, SaveStopsListen, SaveIsNewest, ShowsNewest, LetInShown,
          WorkersOfModes, ReloadsAreOlder, CurrentSessionKeepsEngine, NoBoundary
<1>3. CASE SaveClaims(s)
  <2>1. /\ saver'[s].at = "begin" /\ saver'[s].to = saver[s].to /\ saver'[s].gen = generation + 1
    BY <1>3, <1>a, GenTypes DEF SaveClaims, TypeOK, Saver
  <2>2. /\ session < generation' /\ \A a \in Starters : starter[a].letIn < generation'
        /\ \A g \in Gens : worker[g].at # "none" => g < generation'
        /\ state.generation <= generation'
    BY <1>3, <1>a, GenTypes DEF SaveClaims, Ordered, ShowsNewest, LetInShown, WorkersOfModes
  <2>3. SaveIsNewest'
    BY <2>1, <2>2, <1>3, <1>b DEF SaveClaims, Ordered, SaveIsNewest
  <2>4. ShowsNewest' /\ LetInShown'
    BY <2>1, <2>2, <1>3, <1>b DEF SaveClaims, Ordered, ShowsNewest, LetInShown
  <2>5. WorkersOfModes'
    BY <2>2, <1>3, <1>a, GenTypes DEF SaveClaims, Ordered, WorkersOfModes
  <2> QED BY <2>1, <2>3, <2>4, <2>5, <1>3, <1>b DEF Ordered, SaveClaims, ReloadsAreOlder,
          CurrentSessionKeepsEngine, NoBoundary
<1>4. CASE SaveBegins(s)
  <2>1. /\ saver'[s].at = "publish" /\ saver'[s].to = saver[s].to /\ saver'[s].gen = saver[s].gen
    BY <1>4, <1>a, GotoMoves DEF SaveBegins, Moves
  <2> QED BY <2>1, <1>4, <1>b, <1>c, GenTypes, <1>a
          DEF Ordered, SaveBegins, SaveIsNewest, ShowsNewest, LetInShown,
          WorkersOfModes, ReloadsAreOlder, CurrentSessionKeepsEngine, NoBoundary
<1>5. CASE SavePublishes(s)
  <2>1. /\ saver'[s].at = "prepare" /\ saver'[s].to = saver[s].to /\ saver'[s].gen = saver[s].gen
    BY <1>5, <1>a, GotoMoves DEF SavePublishes, Moves
  <2> QED BY <2>1, <1>5, <1>b, <1>c, GenTypes, <1>a
          DEF Ordered, SavePublishes, SaveIsNewest, ShowsNewest, LetInShown,
          WorkersOfModes, ReloadsAreOlder, CurrentSessionKeepsEngine, NoBoundary
<1>6. CASE SaveSettlesInBand(s) \/ SaveCannotSpawn(s)
  <2>1. /\ saver'[s].at = "settle" /\ saver'[s].to = saver[s].to /\ saver'[s].gen = saver[s].gen
    BY <1>6, <1>a, GenTypes DEF SaveSettlesInBand, SaveCannotSpawn, TypeOK, Saver
  <2> QED BY <2>1, <1>6, <1>b, <1>c, GenTypes, <1>a
          DEF Ordered, SaveSettlesInBand, SaveCannotSpawn, SaveIsNewest, ShowsNewest, LetInShown,
          WorkersOfModes, ReloadsAreOlder, CurrentSessionKeepsEngine, NoBoundary
<1>7. CASE SaveSpawnsWorker(s)
  <2>1. /\ saver'[s].at = "release" /\ saver'[s].to = saver[s].to /\ saver'[s].gen = saver[s].gen
    BY <1>7, <1>a, GotoMoves DEF SaveSpawnsWorker, Moves
  <2>2. saver[s].gen = generation /\ saver[s].to = mode /\ mode' = mode /\ generation' = generation
    BY <1>7 DEF SaveSpawnsWorker, Ordered, SaveIsNewest
  <2>3. /\ \A h \in Gens : h # generation => worker'[h] = worker[h]
        /\ generation \in Gens =>
             /\ worker'[generation].to = mode
             /\ worker'[generation].at \in {"lock", "armed", "settle"}
             /\ worker'[generation].at = "lock" => mode # "listen"
    BY <1>7, <1>a, <2>2, SpawnTurns
  <2>4. WorkersOfModes'
    BY <2>1, <2>2, <2>3, <1>7, <1>a, <1>c, GenTypes
          DEF SaveSpawnsWorker, Ordered, WorkersOfModes
  <2>5. ReloadsAreOlder'
    BY <2>3, <1>7 DEF SaveSpawnsWorker, Ordered, ReloadsAreOlder
  <2>6. SaveIsNewest'
    BY <2>1, <2>2, <1>7, <1>b DEF SaveSpawnsWorker, Ordered, SaveIsNewest
  <2> QED BY <2>1, <2>4, <2>5, <2>6, <1>7, <1>b
          DEF Ordered, SaveSpawnsWorker, ShowsNewest, LetInShown,
          CurrentSessionKeepsEngine, NoBoundary
<1>8. CASE SaveSettles(s)
  <2>1. /\ saver'[s].at \in {"unpublish", "release"} /\ saver'[s].to = saver[s].to
        /\ saver'[s].gen = saver[s].gen
    BY <1>8, <1>a, GotoMoves DEF SaveSettles, Moves
  <2>2. state'.generation = state.generation
    BY <1>8, <1>a DEF SaveSettles, TypeOK
  <2> QED BY <2>1, <2>2, <1>8, <1>b, <1>c, GenTypes, <1>a
          DEF Ordered, SaveSettles, SaveIsNewest, ShowsNewest, LetInShown,
          WorkersOfModes, ReloadsAreOlder, CurrentSessionKeepsEngine, NoBoundary
<1>9. CASE SaveUnpublishes(s)
  <2>1. /\ saver'[s].at = "release" /\ saver'[s].to = saver[s].to /\ saver'[s].gen = saver[s].gen
    BY <1>9, <1>a, GotoMoves DEF SaveUnpublishes, Moves
  <2> QED BY <2>1, <1>9, <1>b, <1>c, GenTypes, <1>a
          DEF Ordered, SaveUnpublishes, SaveIsNewest, ShowsNewest, LetInShown,
          WorkersOfModes, ReloadsAreOlder, CurrentSessionKeepsEngine, NoBoundary
<1>10. CASE SaveReleases(s)
  <2>1. /\ saver'[s].at = "idle" /\ saver'[s].to = saver[s].to /\ saver'[s].gen = saver[s].gen
    BY <1>10, <1>a, GotoMoves DEF SaveReleases, Moves
  <2>2. session' < generation'
    BY <1>10 DEF SaveReleases, Ordered, SaveIsNewest
  <2> QED BY <2>1, <2>2, <1>10, <1>b, <1>c, GenTypes, <1>a
          DEF Ordered, SaveReleases, SaveIsNewest, ShowsNewest, LetInShown,
          WorkersOfModes, ReloadsAreOlder, CurrentSessionKeepsEngine, NoBoundary
<1> QED BY <1>1, <1>2, <1>3, <1>4, <1>5, <1>6, <1>7, <1>8, <1>9, <1>10 DEF SaveStep

LEMMA WorkerOrder ==
  ASSUME LockInv, Ordered, TypeOK', NEW g \in Gens, WorkerStep(g)
  PROVE  Ordered'
<1> USE DEF WorkerAt
<1>a. TypeOK
  BY DEF LockInv
<1>1. CASE WorkerLocks(g) \/ WorkerUnpublishes(g) \/ WatchdogFires(g)
  <2>1. PICK p \in {"check", "done", "settle"} :
          /\ Turns(g, p)
          /\ worker[g].at \in {"lock", "unpublish", "armed"}
          /\ p = "check" => worker[g].at = "lock"
    BY <1>1, <1>a, GotoTurns, FailTurns DEF WorkerLocks, WorkerUnpublishes, WatchdogFires
  <2>2. UNCHANGED <<mode, generation, state, engine, capturing, session, saver, starter>>
    BY <1>1 DEF WorkerLocks, WorkerUnpublishes, WatchdogFires
  <2>3. Claimants' = Claimants
    BY <2>2 DEF Claimants
  <2> QED BY <2>1, <2>2, <2>3
          DEF Turns, Ordered, SaverAt, SaveIsNewest, ShowsNewest, LetInShown,
          WorkersOfModes, ReloadsAreOlder, CurrentSessionKeepsEngine, NoBoundary
<1>2. CASE WorkerChecks(g)
  <2>1. \/ Turns(g, "load") /\ state.generation = g
        \/ Turns(g, "settle")
    BY <1>2, <1>a, GotoTurns DEF WorkerChecks, IsCurrentGeneration
  <2>2. UNCHANGED <<mode, generation, state, engine, capturing, session, saver, starter>>
    BY <1>2 DEF WorkerChecks
  <2>3. Claimants' = Claimants
    BY <2>2 DEF Claimants
  <2>4. ReloadsAreOlder'
    BY <2>1, <2>2 DEF Turns, Ordered, ReloadsAreOlder, LetInShown
  <2> QED BY <1>2, <2>1, <2>2, <2>3, <2>4
          DEF WorkerChecks, Turns, Ordered, SaverAt, SaveIsNewest, ShowsNewest, LetInShown,
          WorkersOfModes, ReloadsAreOlder, CurrentSessionKeepsEngine, NoBoundary
<1>3. CASE WorkerLoads(g)
  <2>1. Turns(g, "settle") /\ worker[g].at = "load"
    BY <1>3, <1>a, GotoTurns, FailTurns DEF WorkerLoads
  <2>2. UNCHANGED <<mode, generation, state, capturing, session, saver, starter>>
    BY <1>3 DEF WorkerLoads
  <2>3. Claimants' = Claimants
    BY <2>2 DEF Claimants
  <2>4. CurrentSessionKeepsEngine'
    <3> SUFFICES ASSUME mode = "listen", NoBoundary, session = generation
                 PROVE  FALSE
      BY <2>2 DEF CurrentSessionKeepsEngine, NoBoundary, SaverAt
    <3>1. Claimants = {}
      BY DEF NoBoundary, SaverAt, Claimants
    <3>2. worker[g].to # "listen" /\ g <= generation /\ session <= g
      BY <2>1 DEF Ordered, WorkersOfModes, ReloadsAreOlder
    <3>3. g = generation
      BY <3>2, <1>a, GenTypes
    <3> QED BY <2>1, <3>1, <3>2, <3>3 DEF Ordered, WorkersOfModes
  <2> QED BY <2>1, <2>2, <2>3, <2>4
          DEF Turns, Ordered, SaverAt, SaveIsNewest, ShowsNewest, LetInShown,
          WorkersOfModes, ReloadsAreOlder, CurrentSessionKeepsEngine, NoBoundary
<1>4. CASE WorkerSettles(g)
  <2>1. (Turns(g, "unpublish") \/ Turns(g, "done")) /\ worker[g].at = "settle"
    BY <1>4, <1>a, GotoTurns DEF WorkerSettles
  <2>2. UNCHANGED <<mode, generation, engine, capturing, session, saver, starter>>
    BY <1>4 DEF WorkerSettles
  <2>3. state'.generation = state.generation
    BY <1>4, <1>a DEF WorkerSettles, TypeOK
  <2>4. Claimants' = Claimants
    BY <2>2 DEF Claimants
  <2> QED BY <2>1, <2>2, <2>3, <2>4
          DEF Turns, Ordered, SaverAt, SaveIsNewest, ShowsNewest, LetInShown,
          WorkersOfModes, ReloadsAreOlder, CurrentSessionKeepsEngine, NoBoundary
<1> QED BY <1>1, <1>2, <1>3, <1>4 DEF WorkerStep

LEMMA StartOrder ==
  ASSUME LockInv, Ordered, TypeOK', NEW a \in Starters, StartBegins(a) \/ StartStep(a)
  PROVE  Ordered'
<1>a. TypeOK
  BY DEF LockInv
<1>1. UNCHANGED <<mode, generation, saver, worker>>
  BY DEF StartBegins, StartStep, StartSeesMode, StartSeesGuard, StartGivesUp, StartProbes,
     StartLocks, StartEnters, StartLoads, StartOpens, StartFindsPending, StartSettles,
     StartUnpublishes
<1>2. state'.generation = state.generation
  BY <1>a DEF StartBegins, StartStep, StartSeesMode, StartSeesGuard, StartGivesUp, StartProbes,
     StartLocks, StartEnters, StartLoads, StartOpens, StartFindsPending, StartSettles,
     StartUnpublishes, TypeOK
<1>3. Claimants' = Claimants
  BY <1>1 DEF Claimants
<1>4. inFlight = 0 => \A s \in Savers : saver[s].at = "idle"
  <2>1. inFlight = 0 => Busy = {}
    BY BusySets, FS_EmptySet, Zenon DEF LockInv, Counted
  <2> QED BY <2>1 DEF Busy
<1>5. \A b \in Starters : \/ starter'[b].letIn = starter[b].letIn
                          \/ starter'[b].letIn = generation /\ inFlight = 0
  BY <1>a, StartWalks DEF Walks
<1>6. inFlight = 0 => state.generation = generation
  BY <1>4 DEF Ordered, ShowsNewest, SaverAt
<1>7. /\ UNCHANGED session \/ StartOpens(a)
      /\ session' = session \/ session' = starter[a].letIn
  BY DEF StartBegins, StartStep, StartSeesMode, StartSeesGuard, StartGivesUp, StartProbes,
     StartLocks, StartEnters, StartLoads, StartOpens, StartFindsPending, StartSettles,
     StartUnpublishes
<1>8. SaveIsNewest'
  BY <1>1, <1>4, <1>5, <1>7 DEF Ordered, SaveIsNewest
<1>9. ShowsNewest' /\ WorkersOfModes'
  BY <1>1, <1>2, <1>3 DEF Ordered, ShowsNewest, WorkersOfModes, SaverAt
<1>10. LetInShown'
  BY <1>1, <1>2, <1>5, <1>6, <1>7, <1>a, GenTypes DEF Ordered, LetInShown
<1>11. ReloadsAreOlder'
  <2>1. CASE StartOpens(a)
    <3>1. \A g \in Gens : worker[g].at # "load"
      BY <2>1 DEF StartOpens, StarterAt, LockInv, LockHeld, WorkerHolds, StarterHolds
    <3> QED BY <3>1, <1>1 DEF ReloadsAreOlder
  <2> QED BY <2>1, <1>1, <1>7 DEF Ordered, ReloadsAreOlder
<1>12. CurrentSessionKeepsEngine'
  BY <1>1 DEF StartBegins, StartStep, StartSeesMode, StartSeesGuard, StartGivesUp, StartProbes,
     StartLocks, StartEnters, StartLoads, StartOpens, StartFindsPending, StartSettles,
     StartUnpublishes, Ordered, CurrentSessionKeepsEngine, NoBoundary, SaverAt, LockInv,
     Streaming, StarterAt
<1> QED BY <1>8, <1>9, <1>10, <1>11, <1>12 DEF Ordered

LEMMA OrderedNext ==
  ASSUME OneSaver, LockInv, Ordered, [Next]_vars
  PROVE  Ordered'
<1>1. TypeOK'
  BY TypesNext DEF LockInv
<1>2. CASE UNCHANGED vars \/ StopListen
  <2>1. /\ UNCHANGED <<mode, generation, state, engine, session, saver, worker, starter>>
        /\ capturing' => capturing
    BY <1>2 DEF vars, StopListen
  <2>2. Claimants' = Claimants
    BY <2>1 DEF Claimants
  <2> QED BY <2>1, <2>2 DEF Ordered, SaverAt, SaveIsNewest, ShowsNewest, LetInShown,
          WorkersOfModes, ReloadsAreOlder, CurrentSessionKeepsEngine, NoBoundary
<1> QED BY <1>1, <1>2, SaveOrder, WorkerOrder, StartOrder DEF Next

LEMMA OrderedInit == Init => Ordered
  BY DEF Init, Gens, Ordered, SaverAt, SaveIsNewest, ShowsNewest, LetInShown,
          WorkersOfModes, ReloadsAreOlder, CurrentSessionKeepsEngine, NoBoundary

\* A live Listen session that was let in after the last switch keeps the streaming model,
\* whatever reloads of earlier switches are on their way, provided that the effects of two
\* saves do not overlap (ensure_dictation_model_ready, start_listen_runtime).
THEOREM SessionKeepsEngine ==
  ASSUME OneSaver
  PROVE  Spec => []CurrentSessionKeepsEngine
<1>1. Init => LockInv /\ Ordered
  BY LockInvInit, OrderedInit
<1>2. LockInv /\ Ordered /\ [Next]_vars => (LockInv /\ Ordered)'
  BY LockInvNext, OrderedNext
<1>3. LockInv /\ Ordered => CurrentSessionKeepsEngine
  BY DEF Ordered
<1> QED BY <1>1, <1>2, <1>3, PTL DEF Spec
-----------------------------------------------------------------------------
(***************************************************************************)
(* A pending phase has an owner, for any savers, overlapping or not.  This *)
(* is what PhaseSettles rests on besides fairness: the phase is never left *)
(* Preparing with nobody to settle it, and whoever must settle it waits    *)
(* for no lock whose holder is gone or waits in turn.                      *)
(***************************************************************************)
Prepares(s, g) == saver[s].at \in {"publish", "prepare", "settle"} /\ saver[s].gen = g
Works(g)       == worker[g].at \in {"lock", "check", "load", "settle", "armed"}
HasOwner(g)    == (\E s \in Savers : Prepares(s, g)) \/ Works(g)

\* While the phase is Preparing, the save that stored it or the worker of its
\* generation is on its way to settle it, however many saves and starts came
\* between (spawn_mode_preparation, arm_listen_handoff_watchdog).
PreparingHasOwner ==
  state.phase = "Preparing" => state.generation \in Gens /\ HasOwner(state.generation)

\* Neither lock is held by nobody.
LocksHaveHolders ==
  /\ prepHeld => \/ \E g \in Gens : WorkerHolds(g)
                 \/ \E a \in Starters : StarterHolds(a)
  /\ lifecycle => \E a \in Starters : starter[a].at \in {"load", "open"}

\* The holder of the model lock waits for nothing.
HolderMoves ==
  \/ \E g \in Gens : WorkerHolds(g)
  \/ \E a \in Starters : starter[a].at \in {"load", "open"}
  \/ \E a \in Starters : starter[a].at = "lifecycle" /\ ~lifecycle

\* The owner of a pending phase can go on, or waits for the model lock alone, and
\* its holder can go on: the lock order of prepare_mode and start_listen.
PreparationMoves ==
  state.phase = "Preparing" =>
    \/ \E s \in Savers : Prepares(s, state.generation)
    \/ worker[state.generation].at \in {"check", "load", "settle", "armed"}
    \/ worker[state.generation].at = "lock" /\ (~prepHeld \/ HolderMoves)

\* A generation is of one save, and its worker comes into being once.
Unspawned(s) == saver[s].at \in {"begin", "publish", "prepare"}

GenerationsAreOwn ==
  /\ \A s \in Savers :
       Unspawned(s) => saver[s].gen \in 1 .. generation /\ worker[saver[s].gen].at = "none"
  /\ \A r, s \in Savers : Unspawned(r) /\ Unspawned(s) /\ r # s => saver[r].gen # saver[s].gen
  /\ \A g \in Gens : worker[g].at # "none" => g <= generation

OwnerInv == GenerationsAreOwn /\ PreparingHasOwner /\ LocksHaveHolders

\* A save that moves on keeps the generations, when it claims none and spawns nobody.
LEMMA OwnMoves ==
  ASSUME TypeOK, GenerationsAreOwn, NEW s \in Savers, NEW p \in SaverPoints, Moves(s, p),
         saver'[s].gen = saver[s].gen, p \in {"publish", "prepare"} => Unspawned(s),
         p # "begin", UNCHANGED <<generation, worker>>
  PROVE  GenerationsAreOwn'
BY DEF GenerationsAreOwn, Unspawned, Moves

\* An owner other than s stays one while s moves.
LEMMA OwnerElsewhere ==
  ASSUME TypeOK, NEW s \in Savers, NEW p, Moves(s, p), NEW g, HasOwner(g), ~ Prepares(s, g),
         UNCHANGED worker
  PROVE  HasOwner(g)'
BY DEF HasOwner, Prepares, Works, Moves

LEMMA OwnerMoves ==
  ASSUME TypeOK, NEW s \in Savers, NEW p \in {"publish", "prepare", "settle"}, Moves(s, p),
         saver'[s].gen = saver[s].gen, NEW g, HasOwner(g), UNCHANGED worker
  PROVE  HasOwner(g)'
BY DEF HasOwner, Prepares, Works, Moves

LEMMA SaveOwns ==
  ASSUME TypeOK, TypeOK', OwnerInv, NEW s \in Savers, Save(s) \/ SaveStep(s)
  PROVE  GenerationsAreOwn' /\ PreparingHasOwner'
<1> USE DEF SaverPoints, SaverAt
<1>0. /\ GenerationsAreOwn /\ PreparingHasOwner
      /\ saver[s] \in Saver /\ generation \in 0 .. MaxGen /\ generation' \in 0 .. MaxGen
  BY DEF OwnerInv, TypeOK
<1>1. CASE Save(s)
  <2>1. Moves(s, "stop") /\ saver[s].at = "idle"
    BY <1>1, <1>0 DEF Save, Moves, TypeOK
  <2>2. GenerationsAreOwn'
    BY <1>1, <2>1, <1>0 DEF Save, GenerationsAreOwn, Unspawned, Moves
  <2>3. PreparingHasOwner'
    BY <1>1, <2>1, <1>0, OwnerElsewhere DEF Save, PreparingHasOwner, Prepares
  <2> QED BY <2>2, <2>3
<1>2. CASE SaveStopsListen(s)
  <2>1. Moves(s, "claim") /\ saver'[s].gen = saver[s].gen /\ saver[s].at = "stop"
    BY <1>2, GotoMoves DEF SaveStopsListen
  <2>2. GenerationsAreOwn'
    BY <1>2, <2>1, <1>0, OwnMoves DEF SaveStopsListen
  <2>3. PreparingHasOwner'
    BY <1>2, <2>1, <1>0, OwnerElsewhere DEF SaveStopsListen, PreparingHasOwner, Prepares
  <2> QED BY <2>2, <2>3
<1>3. CASE SaveClaims(s)
  <2>1. /\ Moves(s, "begin") /\ saver'[s].gen = generation + 1 /\ saver[s].at = "claim"
        /\ generation' = generation + 1 /\ UNCHANGED <<worker, state>>
    BY <1>3, <1>0 DEF SaveClaims, Moves, TypeOK, Saver
  <2>2. generation + 1 \in Gens /\ worker[generation + 1].at = "none"
    BY <2>1, <1>0, BoundsAssumption DEF GenerationsAreOwn, Gens
  <2>3. GenerationsAreOwn'
    BY <2>1, <2>2, <1>0, GenTypes DEF GenerationsAreOwn, Unspawned, Moves
  <2>4. PreparingHasOwner'
    BY <2>1, <1>0, OwnerElsewhere DEF PreparingHasOwner, Prepares
  <2> QED BY <2>3, <2>4
<1>4. CASE SaveBegins(s)
  <2>1. /\ Moves(s, "publish") /\ saver'[s].gen = saver[s].gen /\ saver[s].at = "begin"
        /\ UNCHANGED <<worker, generation>>
        /\ state'.generation = saver[s].gen
    BY <1>4, GotoMoves DEF SaveBegins
  <2>2. GenerationsAreOwn'
    BY <2>1, <1>0, OwnMoves DEF Unspawned
  <2>3. saver[s].gen \in Gens
    BY <2>1, <1>0, BoundsAssumption DEF GenerationsAreOwn, Unspawned, Gens
  <2>4. Prepares(s, state.generation)'
    BY <2>1 DEF Prepares, Moves
  <2> QED BY <2>1, <2>2, <2>3, <2>4 DEF PreparingHasOwner, HasOwner
<1>5. CASE SavePublishes(s)
  <2>1. /\ Moves(s, "prepare") /\ saver'[s].gen = saver[s].gen /\ saver[s].at = "publish"
        /\ UNCHANGED <<worker, generation, state>>
    BY <1>5, GotoMoves DEF SavePublishes
  <2>2. GenerationsAreOwn'
    BY <2>1, <1>0, OwnMoves DEF Unspawned
  <2> QED BY <2>1, <2>2, <1>0, OwnerMoves DEF PreparingHasOwner
<1>6. CASE SaveSettlesInBand(s) \/ SaveCannotSpawn(s)
  <2>1. PICK r \in {"Ready", "Failed"} :
          saver' = [saver EXCEPT ![s].at = "settle", ![s].result = r]
    BY <1>6 DEF SaveSettlesInBand, SaveCannotSpawn
  <2>2. saver' = [saver EXCEPT ![s] = [saver[s] EXCEPT !.at = "settle", !.result = r]]
    BY <2>1, Zenon
  <2>3. /\ Moves(s, "settle") /\ saver'[s].gen = saver[s].gen
        /\ UNCHANGED <<worker, generation, state>>
    BY <1>6, <2>2, <1>0 DEF Moves, TypeOK, Saver, SaveSettlesInBand, SaveCannotSpawn
  <2>4. GenerationsAreOwn'
    BY <2>3, <1>0, OwnMoves
  <2> QED BY <2>3, <2>4, <1>0, OwnerMoves DEF PreparingHasOwner
<1>7. CASE SaveSpawnsWorker(s)
  <2>1. /\ Moves(s, "release") /\ saver'[s].gen = saver[s].gen /\ saver[s].at = "prepare"
        /\ UNCHANGED <<generation, state>>
    BY <1>7, GotoMoves DEF SaveSpawnsWorker
  <2>2. /\ saver[s].gen \in 1 .. generation /\ saver[s].gen \in Gens
        /\ \A r \in Savers : r # s /\ Unspawned(r) => saver[r].gen # saver[s].gen
    BY <2>1, <1>0, BoundsAssumption DEF GenerationsAreOwn, Unspawned, Gens
  <2>3. /\ \A h \in Gens : h # saver[s].gen => worker'[h] = worker[h]
        /\ worker'[saver[s].gen].at \in {"lock", "armed", "settle"}
    BY <1>7, <2>2, SpawnTurns
  <2>4. \A r \in Savers : Unspawned(r)' => r # s /\ Unspawned(r) /\ saver'[r] = saver[r]
    BY <2>1 DEF Unspawned, Moves
  <2>5. \A r \in Savers : Unspawned(r) => saver[r].gen \in Gens
    BY <1>0, BoundsAssumption DEF GenerationsAreOwn, Gens
  <2>6. GenerationsAreOwn'
    BY <2>1, <2>2, <2>3, <2>4, <2>5, <1>0 DEF GenerationsAreOwn
  <2>7. PreparingHasOwner'
    <3> SUFFICES ASSUME state.phase = "Preparing"
                 PROVE  state.generation \in Gens /\ HasOwner(state.generation)'
      BY <2>1 DEF PreparingHasOwner
    <3>1. state.generation \in Gens /\ HasOwner(state.generation)
      BY <1>0 DEF PreparingHasOwner
    <3>2. CASE state.generation = saver[s].gen
      BY <2>1, <2>3, <3>1, <3>2 DEF HasOwner, Works
    <3>3. CASE state.generation # saver[s].gen
      BY <2>1, <2>3, <3>1, <3>3 DEF HasOwner, Works, Prepares, Moves
    <3> QED BY <3>1, <3>2, <3>3
  <2> QED BY <2>6, <2>7
<1>8. CASE SaveSettles(s)
  <2>1. PICK p \in {"unpublish", "release"} : SaverGoto(s, p)
    BY <1>8 DEF SaveSettles
  <2>2. /\ Moves(s, p) /\ saver'[s].gen = saver[s].gen
        /\ UNCHANGED <<worker, generation>>
    BY <1>8, <2>1, GotoMoves DEF SaveSettles
  <2>3. GenerationsAreOwn'
    BY <2>2, <1>0, OwnMoves
  <2>4. CASE Settles(saver[s].gen)
    <3>1. state'.phase # "Preparing"
      BY <1>8, <2>4, <1>0 DEF SaveSettles, TypeOK, Saver
    <3> QED BY <2>3, <3>1 DEF PreparingHasOwner
  <2>5. CASE ~ Settles(saver[s].gen)
    <3>1. UNCHANGED state
      BY <1>8, <2>5 DEF SaveSettles
    <3>2. state.phase = "Preparing" => ~ Prepares(s, state.generation)
      BY <2>5 DEF Settles, Prepares
    <3> QED BY <2>2, <2>3, <3>1, <3>2, <1>0, OwnerElsewhere DEF PreparingHasOwner
  <2> QED BY <2>4, <2>5
<1>9. CASE SaveUnpublishes(s) \/ SaveReleases(s)
  <2>1. PICK p \in {"release", "idle"} : SaverGoto(s, p)
    BY <1>9 DEF SaveUnpublishes, SaveReleases
  <2>2. /\ Moves(s, p) /\ saver'[s].gen = saver[s].gen
        /\ saver[s].at \in {"unpublish", "release"}
        /\ UNCHANGED <<worker, generation, state>>
    BY <1>9, <2>1, GotoMoves DEF SaveUnpublishes, SaveReleases
  <2>3. GenerationsAreOwn'
    BY <2>2, <1>0, OwnMoves
  <2>4. \A g : ~ Prepares(s, g)
    BY <2>2 DEF Prepares
  <2> QED BY <2>2, <2>3, <2>4, <1>0, OwnerElsewhere DEF PreparingHasOwner
<1> QED BY <1>1, <1>2, <1>3, <1>4, <1>5, <1>6, <1>7, <1>8, <1>9 DEF SaveStep

\* A worker that exists moves on: it holds no new generation.
LEMMA TurnsKeepOwn ==
  ASSUME TypeOK, GenerationsAreOwn, NEW g \in Gens, NEW p, Turns(g, p), worker[g].at # "none",
         UNCHANGED <<saver, generation>>
  PROVE  GenerationsAreOwn'
<1>1. \A s \in Savers : Unspawned(s) => saver[s].gen \in Gens
  BY BoundsAssumption DEF GenerationsAreOwn, TypeOK, Gens
<1> QED BY <1>1 DEF GenerationsAreOwn, Unspawned, Turns

LEMMA TurnsKeepOwner ==
  ASSUME TypeOK, PreparingHasOwner, NEW g \in Gens, NEW p, Turns(g, p),
         UNCHANGED <<saver, state>>,
         \/ p \in {"lock", "check", "load", "settle", "armed"}
         \/ ~ (state.phase = "Preparing" /\ state.generation = g /\ Works(g))
  PROVE  PreparingHasOwner'
BY DEF PreparingHasOwner, HasOwner, Prepares, Works, Turns

LEMMA WorkerOwns ==
  ASSUME TypeOK, TypeOK', OwnerInv, NEW g \in Gens, WorkerStep(g)
  PROVE  GenerationsAreOwn' /\ PreparingHasOwner'
<1> USE DEF WorkerAt
<1>0. GenerationsAreOwn /\ PreparingHasOwner /\ worker[g] \in Worker
  BY DEF OwnerInv, TypeOK
<1>1. CASE WorkerLocks(g) \/ WorkerChecks(g) \/ WorkerLoads(g) \/ WatchdogFires(g)
  <2>1. PICK p \in {"check", "load", "settle"} : Turns(g, p)
    BY <1>1, GotoTurns, FailTurns DEF WorkerLocks, WorkerChecks, WorkerLoads, WatchdogFires
  <2>2. worker[g].at # "none" /\ UNCHANGED <<saver, generation, state>>
    BY <1>1 DEF WorkerLocks, WorkerChecks, WorkerLoads, WatchdogFires
  <2> QED BY <1>0, <2>1, <2>2, TurnsKeepOwn, TurnsKeepOwner
<1>2. CASE WorkerSettles(g)
  <2>1. PICK p \in {"unpublish", "done"} : Turns(g, p)
    BY <1>2, GotoTurns DEF WorkerSettles
  <2>2. GenerationsAreOwn'
    BY <1>0, <1>2, <2>1, TurnsKeepOwn DEF WorkerSettles
  <2>3. CASE Settles(g)
    <3>1. state'.phase # "Preparing"
      BY <1>0, <1>2, <2>3 DEF WorkerSettles, TypeOK, Worker
    <3> QED BY <2>2, <3>1 DEF PreparingHasOwner
  <2>4. CASE ~ Settles(g)
    BY <1>0, <1>2, <2>1, <2>2, <2>4, TurnsKeepOwner DEF WorkerSettles, Settles
  <2> QED BY <2>3, <2>4
<1>3. CASE WorkerUnpublishes(g)
  <2>1. Turns(g, "done")
    BY <1>3, GotoTurns DEF WorkerUnpublishes
  <2>2. worker[g].at = "unpublish" /\ UNCHANGED <<saver, generation, state>>
    BY <1>3 DEF WorkerUnpublishes
  <2> QED BY <1>0, <2>1, <2>2, TurnsKeepOwn, TurnsKeepOwner DEF Works
<1> QED BY <1>1, <1>2, <1>3 DEF WorkerStep

LEMMA StartOwns ==
  ASSUME TypeOK, TypeOK', OwnerInv, NEW a \in Starters, StartBegins(a) \/ StartStep(a)
  PROVE  GenerationsAreOwn' /\ PreparingHasOwner'
<1>0. GenerationsAreOwn /\ PreparingHasOwner /\ starter[a] \in Starter
  BY DEF OwnerInv, TypeOK
<1>1. UNCHANGED <<saver, worker, generation>>
  BY DEF StartBegins, StartStep, StartSeesMode, StartSeesGuard, StartGivesUp, StartProbes,
     StartLocks, StartEnters, StartLoads, StartOpens, StartFindsPending, StartSettles,
     StartUnpublishes
<1>2. UNCHANGED state \/ state'.phase # "Preparing"
  BY <1>0 DEF StartBegins, StartStep, StartSeesMode, StartSeesGuard, StartGivesUp,
     StartProbes, StartLocks, StartEnters, StartLoads, StartOpens, StartFindsPending,
     StartSettles, StartUnpublishes, TypeOK, Starter
<1>3. GenerationsAreOwn'
  BY <1>0, <1>1 DEF GenerationsAreOwn, Unspawned
<1>4. PreparingHasOwner'
  BY <1>0, <1>1, <1>2 DEF PreparingHasOwner, HasOwner, Prepares, Works
<1> QED BY <1>3, <1>4

\* Whoever lets go of a lock is its holder, and whoever takes it becomes that.
LEMMA SaveHolders ==
  ASSUME TypeOK, OwnerInv, NEW s \in Savers, Save(s) \/ SaveStep(s)
  PROVE  LocksHaveHolders'
<1>0. LocksHaveHolders
  BY DEF OwnerInv
<1>1. UNCHANGED <<prepHeld, lifecycle, starter>>
  BY DEF Save, SaveStep, SaveStopsListen, SaveClaims, SaveBegins, SavePublishes,
     SaveSettlesInBand, SaveSpawnsWorker, SaveCannotSpawn, SaveSettles, SaveUnpublishes,
     SaveReleases
<1>2. \A g \in Gens : WorkerHolds(g) => WorkerHolds(g)'
  <2>1. CASE SaveSpawnsWorker(s)
    <3>1. worker[saver[s].gen].at = "none"
      BY <2>1 DEF SaveSpawnsWorker, SaverAt, OwnerInv, GenerationsAreOwn, Unspawned
    <3> QED BY <2>1, <3>1, SpawnTurns DEF WorkerHolds
  <2>2. CASE ~ SaveSpawnsWorker(s)
    <3>1. UNCHANGED worker
      BY <2>2 DEF Save, SaveStep, SaveStopsListen, SaveClaims, SaveBegins, SavePublishes,
         SaveSettlesInBand, SaveCannotSpawn, SaveSettles, SaveUnpublishes, SaveReleases
    <3> QED BY <3>1 DEF WorkerHolds
  <2> QED BY <2>1, <2>2
<1> QED BY <1>0, <1>1, <1>2 DEF LocksHaveHolders, StarterHolds

LEMMA WorkerHolders ==
  ASSUME TypeOK, OwnerInv, NEW g \in Gens, WorkerStep(g)
  PROVE  LocksHaveHolders'
<1> USE DEF WorkerHolds, StarterHolds, LocksHaveHolders, WorkerAt
<1>0. LocksHaveHolders
  BY DEF OwnerInv
<1>1. UNCHANGED <<lifecycle, starter>>
  BY DEF WorkerStep, WorkerLocks, WorkerChecks, WorkerLoads, WorkerSettles,
     WorkerUnpublishes, WatchdogFires
<1>2. CASE WorkerLocks(g)
  <2>1. Turns(g, "check")
    BY <1>2, GotoTurns DEF WorkerLocks
  <2> QED BY <1>0, <1>1, <2>1 DEF Turns
<1>3. CASE WorkerChecks(g)
  <2>1. Turns(g, "load") \/ prepHeld' = FALSE
    BY <1>3, GotoTurns DEF WorkerChecks
  <2> QED BY <1>0, <1>1, <2>1 DEF Turns
<1>4. CASE WorkerLoads(g)
  BY <1>0, <1>1, <1>4 DEF WorkerLoads
<1>5. CASE WorkerSettles(g) \/ WorkerUnpublishes(g) \/ WatchdogFires(g)
  <2>1. \E p : Turns(g, p)
    BY <1>5, GotoTurns, FailTurns DEF WorkerSettles, WorkerUnpublishes, WatchdogFires
  <2>2. worker[g].at \notin {"check", "load"} /\ UNCHANGED prepHeld
    BY <1>5 DEF WorkerSettles, WorkerUnpublishes, WatchdogFires
  <2> QED BY <1>0, <1>1, <2>1, <2>2 DEF Turns
<1> QED BY <1>2, <1>3, <1>4, <1>5 DEF WorkerStep

LEMMA StartHolders ==
  ASSUME TypeOK, OwnerInv, NEW a \in Starters, StartBegins(a) \/ StartStep(a)
  PROVE  LocksHaveHolders'
<1> USE DEF WorkerHolds, StarterHolds, LocksHaveHolders, StarterAt, StarterPoints
<1>0. LocksHaveHolders
  BY DEF OwnerInv
<1>1. UNCHANGED worker
  BY DEF StartBegins, StartStep, StartSeesMode, StartSeesGuard, StartGivesUp, StartProbes,
     StartLocks, StartEnters, StartLoads, StartOpens, StartFindsPending, StartSettles,
     StartUnpublishes
<1>2. CASE StartLocks(a)
  <2>1. Walks(a, "lifecycle") /\ UNCHANGED lifecycle /\ starter[a].at = "lock"
    BY <1>2, GotoWalks DEF StartLocks
  <2> QED BY <1>0, <1>1, <2>1 DEF Walks
<1>3. CASE StartEnters(a)
  <2>1. \/ Walks(a, "pending") /\ prepHeld' = FALSE /\ UNCHANGED lifecycle
        \/ Walks(a, "load") /\ UNCHANGED prepHeld
    BY <1>3, GotoWalks, EndWalks DEF StartEnters
  <2>2. starter[a].at = "lifecycle"
    BY <1>3 DEF StartEnters
  <2> QED BY <1>0, <1>1, <2>1, <2>2 DEF Walks
<1>4. CASE StartLoads(a)
  <2>1. \/ prepHeld' = FALSE /\ lifecycle' = FALSE
        \/ Walks(a, "open") /\ UNCHANGED <<prepHeld, lifecycle>>
    BY <1>4, GotoWalks DEF StartLoads
  <2> QED BY <1>0, <1>1, <2>1 DEF Walks
<1>5. CASE StartOpens(a)
  BY <1>5 DEF StartOpens
<1>6. CASE StartBegins(a) \/ StartSeesMode(a) \/ StartSeesGuard(a) \/ StartGivesUp(a)
           \/ StartProbes(a) \/ StartFindsPending(a) \/ StartSettles(a) \/ StartUnpublishes(a)
  <2>1. /\ \E p \in StarterPoints : Walks(a, p)
        /\ starter[a].at \notin {"lifecycle", "load", "open"}
        /\ UNCHANGED <<prepHeld, lifecycle>>
    BY <1>6, StartWalks DEF StartStep, StartBegins, StartSeesMode, StartSeesGuard,
       StartGivesUp, StartProbes, StartFindsPending, StartSettles, StartUnpublishes
  <2> QED BY <1>0, <1>1, <2>1 DEF Walks
<1> QED BY <1>2, <1>3, <1>4, <1>5, <1>6 DEF StartStep

LEMMA OwnerInvNext ==
  ASSUME TypeOK, TypeOK', OwnerInv, [Next]_vars
  PROVE  OwnerInv'
<1>1. CASE UNCHANGED vars \/ StopListen
  <2>1. UNCHANGED <<generation, state, prepHeld, lifecycle, saver, worker, starter>>
    BY <1>1 DEF vars, StopListen
  <2>2. GenerationsAreOwn' /\ PreparingHasOwner'
    BY <2>1 DEF OwnerInv, GenerationsAreOwn, Unspawned, PreparingHasOwner, HasOwner,
       Prepares, Works
  <2>3. LocksHaveHolders'
    BY <2>1 DEF OwnerInv, LocksHaveHolders, WorkerHolds, StarterHolds
  <2> QED BY <2>2, <2>3 DEF OwnerInv
<1> QED BY <1>1, SaveOwns, WorkerOwns, StartOwns, SaveHolders, WorkerHolders, StartHolders
        DEF Next, OwnerInv

LEMMA OwnerInvInit == Init => OwnerInv
BY DEF Init, OwnerInv, GenerationsAreOwn, Unspawned, PreparingHasOwner, LocksHaveHolders,
   Gens

LEMMA OwnersStay == Spec => []OwnerInv
<1>1. TypeOK /\ TypeOK' /\ OwnerInv /\ [Next]_vars => OwnerInv'
  BY OwnerInvNext
<1> QED BY <1>1, ModeTypes, OwnerInvInit, PTL DEF Spec

\* The phase is never left Preparing with nobody to settle it: the mode switcher,
\* locked meanwhile, is not lost, also when the effects of saves overlap.
THEOREM PreparationIsOwned == Spec => []PreparingHasOwner
<1>1. OwnerInv => PreparingHasOwner
  BY DEF OwnerInv
<1> QED BY <1>1, OwnersStay, PTL

\* And its owner is not blocked for good: what it may wait for is the model lock,
\* whose holder waits at most for the lifecycle mutex, whose holder waits for nothing.
THEOREM PreparationGoesOn == Spec => []PreparationMoves
<1>1. OwnerInv => PreparationMoves
  <2> SUFFICES ASSUME OwnerInv, state.phase = "Preparing",
                      worker[state.generation].at = "lock", prepHeld
               PROVE  HolderMoves
    BY DEF OwnerInv, PreparingHasOwner, HasOwner, Works, PreparationMoves
  <2> QED BY DEF OwnerInv, LocksHaveHolders, HolderMoves, StarterHolds
<1> QED BY <1>1, OwnersStay, PTL
=============================================================================
