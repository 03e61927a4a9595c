--------------------------- MODULE ModeTransition ---------------------------
(***************************************************************************)
(* A change of the recording mode: the save that commits it, the phase the *)
(* renderer shows, the worker that prepares the engine, and the start of   *)
(* Listen that shares the one engine slot with it.                          *)
(*                                                                         *)
(* A save runs on a blocking thread of its own.  Only its read-merge-write *)
(* span holds the settings lock, so the runtime effects of two saves may    *)
(* overlap.  Every save that changes the mode gets a generation; a phase    *)
(* is settled by the worker of that generation, by its watchdog, or by the  *)
(* start_listen that finds it pending.  STATE is written under a mutex and  *)
(* the PREPARING flag, which the hotkey thread reads, after it.             *)
(***************************************************************************)
EXTENDS Naturals, FiniteSets

CONSTANTS
  Modes,      \* recording modes in use, a subset of AllModes
  Savers,     \* threads that save settings
  Starters,   \* callers of start_listen
  MaxGen,     \* bound on the number of mode changes
  MaxStops    \* bound on the calls of stop_listen

AllModes == {"ptt", "toggle", "listen", "wakeword"}

ASSUME ModesAssumption == Modes \subseteq AllModes /\ "ptt" \in Modes
ASSUME BoundsAssumption == MaxGen \in Nat /\ MaxStops \in Nat
ASSUME SaversAssumption == IsFiniteSet(Savers)

VARIABLES
  mode,        \* general.recordingMode, as persisted
  inFlight,    \* RECORDING_MODE_TRANSITIONS_IN_FLIGHT
  generation,  \* GENERATION
  state,       \* STATE: the transition shown, with its generation and phase
  preparing,   \* PREPARING
  prepHeld,    \* MODEL_PREPARATION_LOCK
  lifecycle,   \* the lifecycle mutex of LoopbackManager
  engine,      \* the model resident in the shared slot
  capturing,   \* LoopbackManager::capturing
  session,     \* history: the generation in which the session's start was let in
  saver,       \* the saves under way
  worker,      \* the preparation worker, then watchdog, of each generation
  starter,     \* the start_listen call of each caller
  stops        \* calls of stop_listen made so far

vars == <<mode, inFlight, generation, state, preparing, prepHeld, lifecycle, engine,
          capturing, session, saver, worker, starter, stops>>
-----------------------------------------------------------------------------
Gens == 1 .. MaxGen

Phases == {"Idle", "Preparing", "Ready", "Failed"}

Saver == [at : {"idle", "stop", "claim", "begin", "publish", "prepare", "settle",
                "unpublish", "release"},
          from : Modes, to : Modes, gen : 0 .. MaxGen, result : {"Ready", "Failed"}]

Worker == [at : {"none", "lock", "check", "load", "settle", "unpublish", "armed", "done"},
           to : AllModes, result : {"Ready", "Failed"}]

Starter == [at : {"idle", "mode", "guard", "probe", "lock", "lifecycle", "load", "open",
                  "pending", "settle", "unpublish"},
            letIn : 0 .. MaxGen, gen : 0 .. MaxGen, result : {"Ready", "Failed"}]

\* Every variable has its type.
TypeOK ==
  /\ mode \in Modes
  /\ inFlight \in 0 .. Cardinality(Savers)
  /\ generation \in 0 .. MaxGen
  /\ state \in [generation : 0 .. MaxGen, from : AllModes, to : AllModes, phase : Phases]
  /\ preparing \in BOOLEAN
  /\ prepHeld \in BOOLEAN
  /\ lifecycle \in BOOLEAN
  /\ engine \in {"main", "stream", "none"}
  /\ capturing \in BOOLEAN
  /\ session \in 0 .. MaxGen
  /\ saver \in [Savers -> Saver]
  /\ worker \in [Gens -> Worker]
  /\ starter \in [Starters -> Starter]
  /\ stops \in 0 .. MaxStops

Init ==
  /\ mode \in Modes
  /\ inFlight = 0
  /\ generation = 0
  /\ state = [generation |-> 0, from |-> "ptt", to |-> "ptt", phase |-> "Idle"]
  /\ preparing = FALSE
  /\ prepHeld = FALSE
  /\ lifecycle = FALSE
  /\ engine = "main"
  /\ capturing = FALSE
  /\ session = 0
  /\ saver = [s \in Savers |-> [at |-> "idle", from |-> "ptt", to |-> "ptt", gen |-> 0,
                                result |-> "Ready"]]
  /\ worker = [g \in Gens |-> [at |-> "none", to |-> "ptt", result |-> "Ready"]]
  /\ starter = [a \in Starters |-> [at |-> "idle", letIn |-> 0, gen |-> 0,
                                    result |-> "Ready"]]
  /\ stops = 0
-----------------------------------------------------------------------------
(***************************************************************************)
(* The phase.                                                              *)
(***************************************************************************)

\* Mutant of Settles: a phase that has settled may settle again.
SettlesAgain(gen) == state.generation = gen

\* The test of settle: the phase is still that of generation gen, and pending.
Settles(gen) == state.generation = gen /\ state.phase = "Preparing"

\* is_current_generation
IsCurrentGeneration(gen) == state.generation = gen

\* requires_main_model_reload
RequiresMainModelReload(from, to) == from = "listen" /\ to # "listen"

\* The switches that cost nothing and settle without a worker.
FreeSwitch(from, to) ==
  ~(RequiresMainModelReload(from, to) \/ to = "listen" \/ to = "wakeword")
-----------------------------------------------------------------------------
(***************************************************************************)
(* A save that changes the mode (apply_settings_patch_inner).              *)
(***************************************************************************)
SaverAt(s, point) == saver[s].at = point
SaverGoto(s, point) == saver' = [saver EXCEPT ![s].at = point]

\* The guarded write span: the mode is persisted and the teardown announced.
Save(s) ==
  /\ SaverAt(s, "idle")
  /\ generation + Cardinality({r \in Savers : saver[r].at \in {"stop", "claim"}}) < MaxGen
  /\ \E to \in Modes \ {mode} :
       /\ saver' = [saver EXCEPT ![s] = [at |-> "stop", from |-> mode, to |-> to, gen |-> 0,
                                         result |-> "Ready"]]
       /\ mode' = to
  /\ inFlight' = inFlight + 1
  /\ UNCHANGED <<generation, state, preparing, prepHeld, lifecycle, engine, capturing,
                 session, worker, starter, stops>>

\* finalize_mode_boundary: LoopbackManager::stop waits for a start under way.
SaveStopsListen(s) ==
  /\ SaverAt(s, "stop")
  /\ ~lifecycle
  /\ capturing' = FALSE
  /\ SaverGoto(s, "claim")
  /\ UNCHANGED <<mode, inFlight, generation, state, preparing, prepHeld, lifecycle,
                 engine, session, worker, starter, stops>>

\* begin, in its three accesses: the counter, STATE, PREPARING.
SaveClaims(s) ==
  /\ SaverAt(s, "claim")
  /\ generation' = generation + 1
  /\ saver' = [saver EXCEPT ![s].at = "begin", ![s].gen = generation + 1]
  /\ UNCHANGED <<mode, inFlight, state, preparing, prepHeld, lifecycle, engine,
                 capturing, session, worker, starter, stops>>

SaveBegins(s) ==
  /\ SaverAt(s, "begin")
  /\ state' = [generation |-> saver[s].gen, from |-> saver[s].from, to |-> saver[s].to,
               phase |-> "Preparing"]
  /\ SaverGoto(s, "publish")
  /\ UNCHANGED <<mode, inFlight, generation, preparing, prepHeld, lifecycle, engine,
                 capturing, session, worker, starter, stops>>

SavePublishes(s) ==
  /\ SaverAt(s, "publish")
  /\ preparing' = TRUE
  /\ SaverGoto(s, "prepare")
  /\ UNCHANGED <<mode, inFlight, generation, state, prepHeld, lifecycle, engine,
                 capturing, session, worker, starter, stops>>

\* spawn_mode_preparation: settled in-band, handed to a worker, or failed because
\* the worker could not be spawned.
SaveSettlesInBand(s) ==
  /\ SaverAt(s, "prepare")
  /\ FreeSwitch(saver[s].from, saver[s].to)
  /\ saver' = [saver EXCEPT ![s].at = "settle", ![s].result = "Ready"]
  /\ UNCHANGED <<mode, inFlight, generation, state, preparing, prepHeld, lifecycle,
                 engine, capturing, session, worker, starter, stops>>

\* Mutant of SaveSpawnsWorker: the listen phase is handed off without a watchdog.
SaveSpawnsUnwatched(s) ==
  /\ SaverAt(s, "prepare")
  /\ ~FreeSwitch(saver[s].from, saver[s].to)
  /\ worker' = [worker EXCEPT ![saver[s].gen] =
                  [at |-> IF RequiresMainModelReload(saver[s].from, saver[s].to) THEN "lock"
                          ELSE IF saver[s].to = "listen" THEN "done" ELSE "settle",
                   to |-> saver[s].to, result |-> "Ready"]]
  /\ SaverGoto(s, "release")
  /\ UNCHANGED <<mode, inFlight, generation, state, preparing, prepHeld, lifecycle,
                 engine, capturing, session, starter, stops>>

\* The worker reloads the main model when Listen is left, waits for start_listen
\* when Listen is entered, and is ready otherwise (the wake word is armed here).
SaveSpawnsWorker(s) ==
  /\ SaverAt(s, "prepare")
  /\ ~FreeSwitch(saver[s].from, saver[s].to)
  /\ worker' = [worker EXCEPT ![saver[s].gen] =
                  [at |-> IF RequiresMainModelReload(saver[s].from, saver[s].to) THEN "lock"
                          ELSE IF saver[s].to = "listen" THEN "armed" ELSE "settle",
                   to |-> saver[s].to, result |-> "Ready"]]
  /\ SaverGoto(s, "release")
  /\ UNCHANGED <<mode, inFlight, generation, state, preparing, prepHeld, lifecycle,
                 engine, capturing, session, starter, stops>>

\* Mutant of SaveCannotSpawn: the boundary is released here and at the end of the save.
SaveCannotSpawnReleases(s) ==
  /\ SaverAt(s, "prepare")
  /\ ~FreeSwitch(saver[s].from, saver[s].to)
  /\ saver' = [saver EXCEPT ![s].at = "settle", ![s].result = "Failed"]
  /\ inFlight' = inFlight - 1
  /\ UNCHANGED <<mode, generation, state, preparing, prepHeld, lifecycle, engine,
                 capturing, session, worker, starter, stops>>

SaveCannotSpawn(s) ==
  /\ SaverAt(s, "prepare")
  /\ ~FreeSwitch(saver[s].from, saver[s].to)
  /\ saver' = [saver EXCEPT ![s].at = "settle", ![s].result = "Failed"]
  /\ UNCHANGED <<mode, inFlight, generation, state, preparing, prepHeld, lifecycle,
                 engine, capturing, session, worker, starter, stops>>

SaveSettles(s) ==
  /\ SaverAt(s, "settle")
  /\ IF Settles(saver[s].gen)
     THEN state' = [state EXCEPT !.phase = saver[s].result] /\ SaverGoto(s, "unpublish")
     ELSE SaverGoto(s, "release") /\ UNCHANGED state
  /\ UNCHANGED <<mode, inFlight, generation, preparing, prepHeld, lifecycle, engine,
                 capturing, session, worker, starter, stops>>

SaveUnpublishes(s) ==
  /\ SaverAt(s, "unpublish")
  /\ preparing' = FALSE
  /\ SaverGoto(s, "release")
  /\ UNCHANGED <<mode, inFlight, generation, state, prepHeld, lifecycle, engine,
                 capturing, session, worker, starter, stops>>

\* RecordingModeTransitionGuard::drop
SaveReleases(s) ==
  /\ SaverAt(s, "release")
  /\ inFlight' = inFlight - 1
  /\ SaverGoto(s, "idle")
  /\ UNCHANGED <<mode, generation, state, preparing, prepHeld, lifecycle, engine,
                 capturing, session, worker, starter, stops>>
-----------------------------------------------------------------------------
(***************************************************************************)
(* The preparation worker (prepare_mode) and the Listen watchdog.          *)
(***************************************************************************)
WorkerAt(g, point) == worker[g].at = point
WorkerGoto(g, point) == worker' = [worker EXCEPT ![g].at = point]

WorkerLocks(g) ==
  /\ WorkerAt(g, "lock")
  /\ ~prepHeld
  /\ prepHeld' = TRUE
  /\ WorkerGoto(g, "check")
  /\ UNCHANGED <<mode, inFlight, generation, state, preparing, lifecycle, engine,
                 capturing, session, saver, starter, stops>>

\* Mutant of WorkerChecks: a superseded preparation is not skipped.
WorkerNeverSkips(g) ==
  /\ WorkerAt(g, "check")
  /\ WorkerGoto(g, "load") /\ UNCHANGED prepHeld
  /\ UNCHANGED <<mode, inFlight, generation, state, preparing, lifecycle, engine,
                 capturing, session, saver, starter, stops>>

\* A superseded preparation skips its load.
WorkerChecks(g) ==
  /\ WorkerAt(g, "check")
  /\ IF IsCurrentGeneration(g)
     THEN WorkerGoto(g, "load") /\ UNCHANGED prepHeld
     ELSE WorkerGoto(g, "settle") /\ prepHeld' = FALSE
  /\ UNCHANGED <<mode, inFlight, generation, state, preparing, lifecycle, engine,
                 capturing, session, saver, starter, stops>>

\* ensure_selected_model_loaded.  A load that fails before it has freed the old engine
\* keeps it; one whose build fails leaves none (PHASE 1 and 2 of load_winstt_model).
WorkerLoads(g) ==
  /\ WorkerAt(g, "load")
  /\ \/ /\ engine' = "main"
        /\ WorkerGoto(g, "settle")
     \/ /\ worker' = [worker EXCEPT ![g].at = "settle", ![g].result = "Failed"]
        /\ engine' \in {engine, "none"}
  /\ prepHeld' = FALSE
  /\ UNCHANGED <<mode, inFlight, generation, state, preparing, lifecycle, capturing,
                 session, saver, starter, stops>>

WorkerSettles(g) ==
  /\ WorkerAt(g, "settle")
  /\ IF Settles(g)
     THEN state' = [state EXCEPT !.phase = worker[g].result] /\ WorkerGoto(g, "unpublish")
     ELSE WorkerGoto(g, "done") /\ UNCHANGED state
  /\ UNCHANGED <<mode, inFlight, generation, preparing, prepHeld, lifecycle, engine,
                 capturing, session, saver, starter, stops>>

WorkerUnpublishes(g) ==
  /\ WorkerAt(g, "unpublish")
  /\ preparing' = FALSE
  /\ WorkerGoto(g, "done")
  /\ UNCHANGED <<mode, inFlight, generation, state, prepHeld, lifecycle, engine,
                 capturing, session, saver, starter, stops>>

\* LISTEN_HANDOFF_TIMEOUT passed.
WatchdogFires(g) ==
  /\ WorkerAt(g, "armed")
  /\ worker' = [worker EXCEPT ![g].at = "settle", ![g].result = "Failed"]
  /\ UNCHANGED <<mode, inFlight, generation, state, preparing, prepHeld, lifecycle,
                 engine, capturing, session, saver, starter, stops>>
-----------------------------------------------------------------------------
(***************************************************************************)
(* start_listen, and stop_listen as the renderer calls it.                  *)
(***************************************************************************)
StarterAt(a, point) == starter[a].at = point
StarterGoto(a, point) == starter' = [starter EXCEPT ![a].at = point]

\* The start has its result and goes to settle the phase it may have inherited.
StarterEnds(a, result) ==
  starter' = [starter EXCEPT ![a].at = "pending", ![a].result = result]

StartBegins(a) ==
  /\ StarterAt(a, "idle")
  /\ StarterGoto(a, "mode")
  /\ UNCHANGED <<mode, inFlight, generation, state, preparing, prepHeld, lifecycle,
                 engine, capturing, session, saver, worker, stops>>

\* wait_for_listen_mode_boundary reads the mode, then the counter; the two reads
\* are not one, and nothing reads them again.
StartSeesMode(a) ==
  /\ StarterAt(a, "mode")
  /\ mode = "listen"
  /\ StarterGoto(a, "guard")
  /\ UNCHANGED <<mode, inFlight, generation, state, preparing, prepHeld, lifecycle,
                 engine, capturing, session, saver, worker, stops>>

StartSeesGuard(a) ==
  /\ StarterAt(a, "guard")
  /\ IF inFlight = 0
     THEN starter' = [starter EXCEPT ![a].at = "probe", ![a].letIn = generation]
     ELSE StarterGoto(a, "mode")
  /\ UNCHANGED <<mode, inFlight, generation, state, preparing, prepHeld, lifecycle,
                 engine, capturing, session, saver, worker, stops>>

\* MODE_TRANSITION_WAIT_TIMEOUT passed.
StartGivesUp(a) ==
  /\ \/ StarterAt(a, "mode") /\ mode # "listen"
     \/ StarterAt(a, "guard") /\ inFlight # 0
  /\ StarterEnds(a, "Failed")
  /\ UNCHANGED <<mode, inFlight, generation, state, preparing, prepHeld, lifecycle,
                 engine, capturing, session, saver, worker, stops>>

\* ensure_cached_native_streaming_model awaits the cache probe; the device may be gone.
StartProbes(a) ==
  /\ StarterAt(a, "probe")
  /\ StarterGoto(a, "lock") \/ StarterEnds(a, "Failed")
  /\ UNCHANGED <<mode, inFlight, generation, state, preparing, prepHeld, lifecycle,
                 engine, capturing, session, saver, worker, stops>>

StartLocks(a) ==
  /\ StarterAt(a, "lock")
  /\ ~prepHeld
  /\ prepHeld' = TRUE
  /\ StarterGoto(a, "lifecycle")
  /\ UNCHANGED <<mode, inFlight, generation, state, preparing, lifecycle, engine,
                 capturing, session, saver, worker, stops>>

\* LoopbackManager::start; a session that is active already is left as it is.
StartEnters(a) ==
  /\ StarterAt(a, "lifecycle")
  /\ ~lifecycle
  /\ IF capturing
     THEN StarterEnds(a, "Ready") /\ prepHeld' = FALSE /\ UNCHANGED lifecycle
     ELSE StarterGoto(a, "load") /\ lifecycle' = TRUE /\ UNCHANGED prepHeld
  /\ UNCHANGED <<mode, inFlight, generation, state, preparing, engine, capturing,
                 session, saver, worker, stops>>

\* The streaming model is loaded before the capture is opened; a load fails as above.
StartLoads(a) ==
  /\ StarterAt(a, "load")
  /\ \/ /\ engine' = "stream"
        /\ StarterGoto(a, "open")
        /\ UNCHANGED <<prepHeld, lifecycle>>
     \/ /\ StarterEnds(a, "Failed")
        /\ prepHeld' = FALSE /\ lifecycle' = FALSE
        /\ engine' \in {engine, "none"}
  /\ UNCHANGED <<mode, inFlight, generation, state, preparing, capturing, session,
                 saver, worker, stops>>

StartOpens(a) ==
  /\ StarterAt(a, "open")
  /\ \/ /\ capturing' = TRUE
        /\ session' = starter[a].letIn
        /\ StarterEnds(a, "Ready")
     \/ /\ StarterEnds(a, "Failed")
        /\ UNCHANGED <<capturing, session>>
  /\ prepHeld' = FALSE /\ lifecycle' = FALSE
  /\ UNCHANGED <<mode, inFlight, generation, state, preparing, engine, saver, worker, stops>>

\* pending_generation_for, and the settle of what it found, are two accesses.
StartFindsPending(a) ==
  /\ StarterAt(a, "pending")
  /\ IF state.phase = "Preparing" /\ state.to = "listen"
     THEN starter' = [starter EXCEPT ![a].at = "settle", ![a].gen = state.generation]
     ELSE StarterGoto(a, "idle")
  /\ UNCHANGED <<mode, inFlight, generation, state, preparing, prepHeld, lifecycle,
                 engine, capturing, session, saver, worker, stops>>

StartSettles(a) ==
  /\ StarterAt(a, "settle")
  /\ IF Settles(starter[a].gen)
     THEN state' = [state EXCEPT !.phase = starter[a].result] /\ StarterGoto(a, "unpublish")
     ELSE StarterGoto(a, "idle") /\ UNCHANGED state
  /\ UNCHANGED <<mode, inFlight, generation, preparing, prepHeld, lifecycle, engine,
                 capturing, session, saver, worker, stops>>

StartUnpublishes(a) ==
  /\ StarterAt(a, "unpublish")
  /\ preparing' = FALSE
  /\ StarterGoto(a, "idle")
  /\ UNCHANGED <<mode, inFlight, generation, state, prepHeld, lifecycle, engine,
                 capturing, session, saver, worker, stops>>

\* stop_listen: the renderer left Listen, or restarts it for another device.
StopListen ==
  /\ stops < MaxStops
  /\ ~lifecycle
  /\ capturing' = FALSE
  /\ stops' = stops + 1
  /\ UNCHANGED <<mode, inFlight, generation, state, preparing, prepHeld, lifecycle,
                 engine, session, saver, worker, starter>>
-----------------------------------------------------------------------------
\* What a save does once its value is written.
SaveStep(s) ==
  \/ SaveStopsListen(s) \/ SaveClaims(s) \/ SaveBegins(s) \/ SavePublishes(s)
  \/ SaveSettlesInBand(s) \/ SaveSpawnsWorker(s) \/ SaveCannotSpawn(s)
  \/ SaveSettles(s) \/ SaveUnpublishes(s) \/ SaveReleases(s)

WorkerStep(g) ==
  \/ WorkerLocks(g) \/ WorkerChecks(g) \/ WorkerLoads(g) \/ WorkerSettles(g)
  \/ WorkerUnpublishes(g) \/ WatchdogFires(g)

StartStep(a) ==
  \/ StartSeesMode(a) \/ StartSeesGuard(a) \/ StartGivesUp(a) \/ StartProbes(a)
  \/ StartLocks(a) \/ StartEnters(a) \/ StartLoads(a) \/ StartOpens(a)
  \/ StartFindsPending(a) \/ StartSettles(a) \/ StartUnpublishes(a)

Next ==
  \/ \E s \in Savers : Save(s) \/ SaveStep(s)
  \/ \E g \in Gens : WorkerStep(g)
  \/ \E a \in Starters : StartBegins(a) \/ StartStep(a)
  \/ StopListen

Spec == Init /\ [][Next]_vars

\* Threads that have begun run on; saves and calls of the renderer need not come.
FairSpec ==
  /\ Spec
  /\ \A s \in Savers : WF_vars(SaveStep(s))
  /\ \A g \in Gens : WF_vars(WorkerStep(g))
  /\ \A a \in Starters : WF_vars(StartStep(a))
-----------------------------------------------------------------------------
(***************************************************************************)
(* What must hold.                                                         *)
(***************************************************************************)

\* No save is between its write and the end of its runtime effects.
NoBoundary == \A s \in Savers : SaverAt(s, "idle")

\* A live session whose start was let in after the last switch keeps the streaming
\* model: no reload of an earlier switch, waiting for the lock or holding it, takes it
\* away (ensure_dictation_model_ready, start_listen_runtime).  A session whose start
\* is older than the last switch can lose it: start_listen looks at the mode once.
CurrentSessionKeepsEngine ==
  mode = "listen" /\ NoBoundary /\ capturing /\ session = generation => engine = "stream"

\* A preparation the user waits for ends: the mode switcher is locked while
\* the phase is Preparing (settle, arm_listen_handoff_watchdog).
PhaseSettles == [](state.phase = "Preparing" => <>(state.phase # "Preparing"))

\* A phase reported for a generation is final until a newer switch begins: a
\* superseded worker, a watchdog or a late start_listen does not turn a Ready
\* into a Failed or the reverse (settle).
SettledStaysSettled ==
  [][state.phase \in {"Ready", "Failed"} => state' = state \/ state'.phase = "Preparing"]_vars
=============================================================================
