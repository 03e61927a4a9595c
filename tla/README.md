# WinSTT: verification of the dictation core

WinSTT is a desktop speech-to-text application: a Tauri backend in Rust
(`src/src-tauri/src`) and a React renderer (`src/src`). A hotkey starts and stops a
recording, the audio is decoded by a local or a cloud engine, post-processed and pasted.
This directory models the part of the backend that is concurrent and stateful: who
records, who may stop it, what happens to a take that is cancelled, what becomes of the
microphone, of the captured audio and of the volume of other applications, and which
engine is resident.

`.tla` files are the specifications and their proofs, `.cfg` files are TLC
configurations, and `PROJECT.json` lists components, runs, mutants, findings, hazards,
theorems and, under `map`, the source lines every definition stands for. Paths below are
relative to `src/src-tauri/src`.

## 1. Inventory

### The dictation core

| Component | State | Operations | What makes it correct |
|---|---|---|---|
| Coordinator, `transcription_coordinator.rs` | `Stage` (Idle, Recording, Processing), a deferred release, `processing_since`, an mpsc channel; the statics `CURRENT_DICTATION_SESSION`, `CANCELLED_DICTATION_THROUGH`, `DICTATION_PIPELINE_ACTIVE` | five commands (Input, Cancel, SilenceStop, ProcessingFinished, FinalizeRecordingModeChange), grace expiry, wedge recovery, panic containment | Processing always ends; a trigger stops only its take; stage and recorder agree when the thread is idle |
| Transcribe action, `actions/transcribe.rs`, `actions.rs` | the task's session id, `FinishGuard` | `start`, `stop`, the pipeline task | no output after a cancel; tray and pill always come home; the guard ends only its own session |
| Recorder manager, `managers/audio.rs` | `RecordingState`, `recording_generation`, silence timers, the microphone stream and its close generation, mute, under five mutexes | start, stop, cancel, scheduled close, mute, policy, wake-word and device changes, silence and no-speech watchdogs | a timer of one recording never ends another; the stream is not closed under a recording; a mute is undone; no two threads wait for each other |
| Capture worker, `audio_toolkit/audio/recorder.rs`, `vad/smoothed.rs` | one queue of audio and commands, `stop_flag`, `stop_deadline`, the callback's latch, pre-roll ring, processed samples and speech mask, live mirror, onset automaton | open, start, stop, close; input callback; drain | a stop gets its own take, whole to the stop instant, once, with an honest mask |
| Ducking, `winstt/ducking.rs` | active reasons with probes, snapshots, pending restores, a journal file; the mixer | duck, restore, restore all, recover orphans, watchdog | nothing lowered is forgotten, only what was lowered is put back |
| Cancel path, `utils.rs` | none of its own | `cancel_current_operation`, from Escape, the X, a watchdog | a cancel takes effect whatever it races with |
| Hotkey dispatch, `shortcut/` | registration flags, modifier state, release watchdog | handler per mode, Escape registration | Escape works while a take can be cancelled |
| Tray and overlay, `tray_indicator.rs`, `winstt/commands/overlay.rs` | flags, windows | paint, show, hide | follow the life cycle |
| Cancel registry, `winstt/cancel_registry.rs` | active ids, marks, tokens | track, cancel, cancel_all, clear | a cancel before `track` is kept |

### Modes and engines

| Component | State | Operations | What makes it correct |
|---|---|---|---|
| Mode transition, `winstt/commands/mode_transition.rs`, `settings/recording_mode.rs` | `STATE`, `GENERATION`, `PREPARING`, `MODEL_PREPARATION_LOCK` | begin, settle, publish, worker, 90 s watchdog | a phase settles, once, by its own generation; the hotkey gate shows it; the right engine is resident |
| Listen, `winstt/commands/listen.rs`, `managers/loopback_manager.rs` | lifecycle mutex, `capturing`, consumer thread | start_listen, stop_listen | a live session has the streaming model |
| Settings, `winstt/commands/settings.rs`, `settings_store.rs` | the settings file, a revision, `RECORDING_MODE_TRANSITIONS_IN_FLIGHT` | patch, reset, import | a save is atomic; start_listen waits for its boundary |
| Transcription manager, `managers/transcription/` | the engine slot, `current_model_id`, `is_loading`, activity, warm marks | load, reload, unload, decode, warmup, idle unload, realtime | the model called ready is the one in the slot; one session alive; every request returns |
| Model swap, downloads, watchdogs | requests, locks, progress | swap, pause, resume, cancel | a swap settles; a cancel wins |
| Wake word, realtime preview, TTS and its playback queue, file transcription | each a manager thread and its cancel flags | start, stop, cancel | nothing plays or listens after a stop |

Outside the core: history (SQLite), clipboard and paste, LLM providers, cloud STT, updater,
onboarding, DSP, and the renderer, which is the environment of every model here.

### How they interact

The hotkey thread, timers, cancelling threads and pipeline tasks all send commands to the
coordinator's channel. Only the coordinator thread owns the stage; but the recorder state,
the three session statics, tray, overlay and Escape flag are written directly by all of
them, and this is where the hard behaviours are: state read before a send, a join or an
await and used after it; messages that arrive after the take they speak of; teardown that
blocks; panics half-way. Below the coordinator the recorder manager opens and closes one
device stream under nested mutexes, and talks to the capture worker over one queue that
the device's callback fills too. A take asks the ducking worker for a lower volume through
its own queue, and a watchdog covers the restore that never comes. The task takes the
engine out of the transcription manager's slot while presses, switches, unloads and the
idle watcher go on. A mode change goes through the settings save, which stops Listen
and the dictation of the old mode inside a counted boundary, then opens a *phase* that a
worker, a watchdog or the renderer's `start_listen` settles.

## 2. Modules

| Module | What it is |
|---|---|
| `DictationCoordinator` | one dictation from hotkey to paste: coordinator, recorder state, pipeline tasks, cancelling threads, tray and pill |
| `DictationPromise` | what a dictation promises, session by session: the abstract specification `DictationCoordinator` implements |
| `TakeLife` | what everybody else relies on of the recorder manager: the life of a take; implemented by `MicStream`, used by `DictationCoordinator` and `Ducking` |
| `MCDictationCoordinator` | budgets and symmetry of `DictationCoordinator` for TLC |
| `DictationCoordinatorProofs`, `DictationStageProofs`, `DictationPromiseProofs` | types and silence after a cancel; ownership of Processing, currency of triggers, cancels that take effect, what holds at rest, releases that are not lost, and the use of `TakeLife`; the refinement of the promise |
| `MicStream`, `MicStreamProofs` | the microphone stream under the manager's five mutexes; types, the mute, the undisturbed take, the microphone that comes home, no deadlock, and that it implements `TakeLife` |
| `Recorder`, `MCRecorder`, `RecorderProofs` | the capture worker, its queue, the device's callback and the smoothed detector; its budgets; types and all six safety properties |
| `Ducking`, `MCDucking`, `DuckingProofs` | ducking ledger, jobs, watchdog, journal and a mixer; applications for TLC; types, the three safety properties, and that the worker does not sleep over a lowered session |
| `EngineSlot`, `MCEngineSlot`, `EngineSlotProofs` | the transcription manager's engine slot; request mixes for TLC; types, two safety properties, and that its threads do not block each other |
| `ModeTransition`, `MCModeTransition`, `ModeTransitionProofs` | a mode change: save, phase, preparation worker, watchdog, start and stop of Listen; its TLC module; types, final phases, the engine of a session, and that a preparation always has somebody to settle it |

The components meet at these seams. `DictationCoordinator` has the recorder's state and
generation as they are seen from outside (`rec`, `mic`); `MicStream` opens that step up into
the manager's locks, and `Recorder` opens the worker behind it, whose callers are
`MicStream`'s start, stop and close. `Ducking` takes the life of a dictation as input.
`EngineSlot` is the decode step of a task, seen with everybody else who wants the engine;
`ModeTransition` uses the slot at three values. Composed instances are out of TLC's reach,
so the first seam is closed by a specification in the middle. `TakeLife` says what a take
is: begun from Idle under a fresh generation, then claimed by one stop and handed over, or
discarded, and never back. It is proved that the detailed manager implements it
(`MicLivesTakes`), that the coordinator, with everybody who cancels and clears, takes only
its steps (`DictationLivesTakes`), and that the dictation which the duck serves lives by it
(`DuckLivesTakes`). The other seams are inputs: what the neighbour may do is a free choice
there.

### DictationCoordinator

A step is the code between two accesses to state that another thread may write. The
coordinator thread has a program counter `co.at`: at `"loop"` it takes a command (or lets
the release grace expire); `start()` goes through `start` (settings, offline gate),
`activate`, `gate`, `ui`, `join` (the microphone thread it spawned, `mic`), `announce` and
`started`; `stop()` through `stop`, `capture` and `launch`. A panic is possible at each of
these points and is contained as in the loop's `catch_unwind`. One at `ui` or `join`
(`StartPanics`, with a budget of its own, `startPanic`) leaves the microphone thread that
`start` spawned and will not join: it goes on in `detached`, and may open the microphone at
any later time.

| Variable | Code |
|---|---|
| `queue`, `stage`, `pending`, `co` | channel, `Stage`, `PendingRelease`, the coordinator thread |
| `currentSession`, `cancelledThrough`, `pipelineActive` | the three statics |
| `rec`, `timer` | `RecordingState` and generation; a validated silence timer |
| `mic`, `detached` | the open thread; how many such threads run on after a panic of their `start()` |
| `task`, `launched` | pipeline tasks, each with a phase per cancellation point and per step of `FinishGuard::drop` |
| `canc` | threads in `cancel_current_operation`: `swap`, `mark`, `abort`, `quiet`, `notify`, `epilogue` |
| `tray`, `overlay`, `notices`, `escKey` | tray flags, pill, pending offline-notice hides, Escape requested |
| `held`, `left` | the physical key; the budget of environment steps |
| `doomed` | history: sessions whose cancel was marked before their text was released; with it and the tasks, `Promise` is the instance of `DictationPromise` |

Abstractions: the one binding `"transcribe"` is implied; debouncing of a press is a
nondeterministic choice; recorder internals are single steps; post-processing is one step;
streamed (word-by-word) paste, previews, profile capture and sounds are left out; the
check and the unregistration of Escape are one step; a mode change does not wait for its
acknowledgement; the test and store of the high-water mark are one step, since `fetch_max`
only grows. The hotkey handler's `is_preparing` gate and the release watchdog are covered
by letting a key release be delivered late or not at all.

### MicStream

Threads are the coordinator (with the microphone thread it joins), one cancelling thread,
the thread that applies settings, the worker of a capture's first frame, and close
threads. `start_microphone_stream`, `stop_microphone_stream` and `apply_mute` are
subroutines (`ret` says where a thread goes on); a lock that is held across steps is in
`held`, with the nesting of the code.

| Variable | Code |
|---|---|
| `held` | the mutexes `lifecycle`, `state`, `is_open`, `did_mute`, `recorder` |
| `state`, `mode`, `recGen`, `closeGen` | `RecordingState`, `MicrophoneMode`, the two generations |
| `isOpen`, `didMute`, `isRecording` | the guarded flags |
| `streaming`, `capturing`, `osMuted` | the recorder has a worker; it keeps what is delivered; the output is muted |
| `policy`, `wake`, `target` | the release policy and wake-word mode on disk, the mode `update_mode` was called with |
| `pc`, `ret`, `gen`, `live`, `left` | control, the generation a thread was started for, first frame reported, bounds |
| `saved`, `cancelled` | history: a settings change or a cancel overlaps the last take |

Abstractions: choice of device, onboarding, VAD settings and the live mirror's readers are
left out; opening a device, and a recorder whose worker is dead, are one step that may fail;
a delayed close may run at any time after it is scheduled; one settings thread, one
cancelling thread (the no-speech watchdog is one such) and one first-frame worker at a time;
a microphone thread that outlives a panicked `start()` is left out, here takes begin one
after the other (in `DictationCoordinator` it is `detached`); `mute_while_recording` is a
legacy setting that is off by default and on in the model. The worker's speech callback and
`stop` wait for each other until `stop`'s 1.75 s or `close`'s 1 s run out: these timeouts
are not modelled.

### Recorder

A frame is named by the time of its capture. The device hands frames to the callback some
time later, in chunks of its own choice; the callback loads `stop_flag` and the deadline,
plans what of its chunk belongs before the stop, and sends; the worker takes one message
at a time, and a stop makes it drain until the callback's end of stream or a timeout.

| Variable | Code |
|---|---|
| `now`, `stamped`, `alive`, `delivered` | the device: clock, usable capture times, still delivering, last frame handed over |
| `callback`, `eosSent`, `stopFlag`, `deadline` | the callback's chunk with what it loaded, its latch, the shared flags |
| `queue`, `pending`, `worker` | `worker_rx`, commands that came during a drain, the worker's step |
| `recording`, `take`, `ring`, `mirror` | the consumer's state, processed samples and mask, pre-roll ring, live mirror |
| `vad`, `speaking`, `seen` | `SmoothedVad`, `vad_speaking`, the manager's `speech_seen` |
| `waits`, `open`, `reply`, `left` | the manager's side; bounds |
| `taken`, `asked`, `begun`, and fields of `take` | history |

Abstractions: frames instead of samples (no resampler residue and no synthetic padding),
no downmix, no level display, no first-sound signal; the realtime gate is on; a frame's
sound is chosen when the worker first looks at it; there is always a detector and it does
not fail; a device that cannot be opened is left out; close waits for the worker (the
detach after 1 s is not modelled).

### Ducking

The worker thread's jobs are lists of stages (`todo`), each one attempt on the sessions or
one write of the journal, so a crash can come between any two. A mixer (`level`, `there`,
`key`) remembers what was written; the user moves sliders, sessions go away and come back
under another key.

| Variable | Code |
|---|---|
| `active`, `ducked`, `snapshots`, `pending` | `WorkerState`: reasons with their probe, entries, restores still owed |
| `queue`, `todo`, `cut` | the worker's channel, the job at hand, its reduction |
| `journal`, `up` | `ducked-sessions.json`, the program runs |
| `dict`, `take`, `chimes`, `reading`, `exiting` | the callers: dictation and its generation, chime threads, the island, the exit hook |
| `want`, `granted`, `spoiled` | history: the user's volume, the last accepted take, sessions the properties except |

Abstractions: levels 0 to 8 for a continuous scale; the tiers pid and executable of the
matching are one; a session that is enumerated and then fails is one that was not
enumerated; the order of matching is open; retry rhythms and grace periods are
nondeterministic; a reduction of 0 makes no request; a panic inside a job, a journal that
cannot be written, and a stray late restore after a cancel are left out. A probe is one
step here; `is_active_recording_generation` loads the generation before it takes the state,
so a probe that straddles the begin of the next take may still find the old one active, and
the watchdog sees it inactive only at its next round.

### EngineSlot

An engine is known by its model. Requests (a load or a forced reload, a press, a decode, an
unload, a warmup) run on any thread; the idle watcher is a thread of its own.

| Variable | Code |
|---|---|
| `slot`, `label`, `isLoading` | `engine`, `current_model_id`, `is_loading` |
| `held` | the mutexes `lifecycle` (of `IdleWatcherSignal`), `is_loading`, `engine`, where held across steps |
| `pc`, `op`, `ask` | per thread: step, request, model asked for |
| `hand`, `guard` | per thread: the engine it took out or built; its `LoadingGuard` |
| `left` | bounds: how often a thread makes each kind of request |
| `crossed` | history: an engine was installed while another one was out for a decode |

Abstractions: warm marks, their waiters and the `warming` flag, the providers' snapshot,
events and the watchdog's warnings are left out; empty or silent audio is a decode that
goes straight to the unload policy; the policies (timeout, listen mode, recording,
deadline) are a free choice, which allows more than the code; a realtime preview borrows
the engine as a warmup does; a load that fails or panics ends at the guard's drop; the
idle watcher may look at any time, so its condition variable is not modelled.

### ModeTransition

Each saver walks `stop` (Listen's teardown under the lifecycle mutex), `claim`, `begin`,
`publish` (the three accesses of `begin`), `prepare` (in-band, worker or failed spawn),
`settle`, `unpublish`, `release`. The worker of a generation takes
`MODEL_PREPARATION_LOCK`, re-checks its generation, loads or skips, settles. A start_listen
reads mode and counter, probes the cache, takes the lock and the lifecycle mutex, loads,
opens, and settles the phase it finds. `session` and `letIn` are history: the generation
in which the live session's start passed the boundary.

Abstractions: the engine slot has three values (the main engine, the streaming one, none: a
load that fails may have unloaded the old engine first), and only the two loaders of a mode
change write it (lazy loads by a dictation and idle unload are in `EngineSlot`); the
dictation teardown inside the boundary is the coordinator's `ModeChange` command; the
onboarding early returns and a watchdog thread that cannot be spawned are left out;
wake-word arming is instantaneous.

## 3. Runs

| Run | Instance | Question |
|---|---|---|
| `coord_cancel` | 2 cancelling threads, 2 presses, 2 cancels | does a cancel always win and clean up, wherever it lands, and is every step one the promise allows? |
| `coord_triggers` | 2 presses, repeat, silence timer, queue clear, mode change | does every trigger end its own take and only that? does Processing end? |
| `coord_faults` | 2 presses, 1 cancel, 1 panic, 1 panic of `start()` with its microphone thread out, 1 wedge | does the stage recover from what panics leave behind, and is the recorder still used as `TakeLife` says? |
| `coord_holds` | 3 key holds, 2 repeats | can any order of press, release, debounce and grace leave the microphone on? |
| `mic` | 2 takes, 1 cancel, 1 settings change, 1 fault, 2 close threads, all policies | do takes record, are mutes undone, does the device close, can threads wait for each other? |
| `recorder` | one take of 4 frames; two takes; two with a stalling device; two with a stop that gives up and a reopened stream | does a stop get its own take, whole, once, with an honest mask? |
| `duck` | 1 session, 2 requests, 3 troubles | is anything forgotten or stomped? does the mixer come home? |
| `engine` | 2 local models, 1 cloud model, 6 mixes of requests on 2 or 3 threads and the watcher | is the model called ready the one in the slot? does every request return? |
| `mode_serial` | 2 mode changes, 4 modes, 1 start_listen caller, 1 stop | does the phase settle once, and does a properly admitted session keep its engine? |
| `coord_stale_cancel`, `mic_release`, `engine_sessions` | small instances of the same modules | three statements of the code that do not hold (section 6) |

What the properties say:

* `NoOutputAfterCancel`, `CancelNeverLost`, `TrayComesHome`, `PillComesDown`: a cancelled
  take is silent, is really gone, and the tray and the pill come home.
* `KeepsPromise`: the refinement. Every step of the detailed dictation is a step of
  `DictationPromise` or a stutter, so no session releases its text twice either. It is run
  with cancels; `ImplementsPromise` covers panics and give-ups of Processing as well.
* `BusyIsCancellable`, `StaleTriggerNeverStops`, `ProcessingEnds`, `ProcessingHasOwner`,
  `NoOrphanCapture`, `ReleaseStopsCapture`: stage, recorder, triggers and Escape agree.
* `MuteIsRemembered`, `UndisturbedTakeRecords`, `MicComesHome`, `NoDeadlock`: a muted
  output is remembered and never outlives its stream; a take no cancel or settings change
  overlaps is captured from its start to its stop; once every thread is at rest a
  microphone on demand is closed, unless a settings change came after the last take; as
  long as a thread is under way, some thread can go on.
* `NothingTwice`, `CleanTakeIsWhole`, `AnswersItsOwnTake`, `MaskIsHonest`, `SpeechIsSeen`,
  `MirrorFollows`: frames are answered once, to the stop of their take, without a hole up
  to the stop instant; the mask marks the frames the detector heard as speech; an onset is
  signalled; the live mirror is the recording.
* `NothingForgotten`, `OnlyUndoesItsOwn`, `LiveTakeKeepsItsDuck`, `MixerComesHome`: an
  entry accounts for every lowered session, also across a crash; a restore writes only
  over its own level; a live take is not unducked by a late restore or an old probe;
  everything is restored in the end.
* `LabelNamesEngine`, `IdleTeardownIsAlone`, `RequestsReturn`: name and engine agree; the
  watcher's teardown meets no load; the flag is lowered and waiters go on after every
  failure.
* `CurrentSessionKeepsEngine`, `PhaseSettles`, `SettledStaysSettled`: engine and phase of a
  mode change.

* `KeepsTakeLife`: the manager with its locks implements `TakeLife` (`mic`), and coordinator,
  cancels and panics use it so (`coord_faults`).

There is one type invariant per module; the one of `MicStream` is only proved. For each
property of each run a mutant of the code is listed that TLC must catch.

Bounds. `Budget` of the coordinator says how often each kind of environment step happens.
Two takes are what every race between takes needs: the old one in its pipeline or teardown,
the new one starting; a third hold is there for the grace period. Two cancelling threads
are needed for a cancel that finds the flag already swapped. `MaxTasks` is at least the
number of takes a run can launch, so the bound never blocks a step. In `mic` there are as
many close threads as takes, so that scheduling one never blocks; with two takes a
scheduled close meets a start that reuses the stream, and one settings change or fault
meets both. The four budgets of `recorder` give one take enough frames for onset,
hangover, ring and drain, and two takes each way in which one can reach into the next; the
detector's parameters are small (onset 2, hangover 1, prefill 1, ring 2) but in the order
of the real ones. In `duck` two requests overlap or follow each other and three troubles
are enough for a failed attempt, a crash during its repair and a user's move between; one
session suffices for all but the matching between sessions, which the theorems cover for
sessions of different applications. The mixes of `engine` bring together each pair of
request kinds that shares state, and a third thread where a pair needs a witness; one
request of a kind per thread keeps liveness meaningful. In `mode_serial` two generations
suffice because the run starts from any persisted mode, so listen to ptt to listen is
included. Deadlock in TLC's sense is not checked: when the budget is used up, the system
rests. `NoDeadlock` and `RequestsReturn` look for real ones.

Fairness. `FairSpec` of the coordinator assumes that each thread that has something to do
runs: the coordinator's loop, the microphone-open thread (it opens or fails), each task
(decode and clean-up return, as the code bounds them by timeouts or they fail), each
cancelling thread. The user, timers and panics owe nothing. `ProcessingEnds` is run
without the wedge, whose point is that a task never returns. `FairSpec` of `ModeTransition`
assumes the same of a save once it is written, of workers and their watchdog, and of a
start_listen once called; that it is called at all is not assumed. `FairSpec` of `Ducking`
assumes that the worker, the watchdog, the chime threads and the island run; the mixer, the
user and the program's life owe nothing, and bounded trouble is what lets retries win.
`FairSpec` of `EngineSlot` assumes that a thread which serves a request goes on when it can
(engine calls return, fail or panic) and that the watcher does. Weak fairness is enough
because requests are bounded: with endless requests of other threads a mutex of the
standard library, which is not fair, could starve one. `MicStream` and `Recorder` state
safety only.

## 4. Proofs

For all values of the constants (any number of threads, takes, modes, sessions, models,
frames, thresholds and budgets), except where a hypothesis is named. Every invariant was
checked by TLC before it was proved.

Types: `TypeCorrect`, `MicTypes`, `DuckTypes`, `EngineTypes`, `ModeTypes`, `RecorderTypes`,
each `Spec => []TypeOK`, one lemma per group of actions. Three are not inductive by
themselves: `EngineTypes` needs that only engines of asked-for local models are built,
`ModeTypes` that the counter of transitions equals the number of saves under way, so that
its decrement stays in the naturals, `RecorderTypes` the ranges of the detector's counters,
one label per kept frame and a ring that never overflows.

### Dictation

* `CancelledIsSilent`: `Spec => []NoOutputAfterCancel`. The property alone is not
  inductive: a task may pass its last cancellation point only because the mark already
  covers its session. The invariant adds `DoomedAreCancelled`, that every session in
  `doomed` is at or below the high-water mark; the mark only grows, so the check before
  delivery stops every doomed task.
* `ProcessingIsOwned`: `Spec => []ProcessingHasOwner`. Inductive with the types: launching
  creates the owner, a guard's last step exchanges the task for its message, and receiving
  that message leaves Processing.
* `TriggersAreCurrent`: `Spec => StaleTriggerNeverStops`. The invariant says that a stop
  asked for generation `g` is executed while the recorder is still at `g`, which needs
  that no microphone thread (the only step that starts a generation) runs while the
  coordinator is at `stop`. Under `NoStartPanics`, see below.
* `CancelTakesEffect`: `Spec => []CancelNeverLost`, with any clears and recoveries, and any
  panics that `NoStartPanics` leaves. `EffectInv`: a capture of a cancelled session still
  meets an abort or the join of its microphone thread, and a stage of one is covered by a
  thread that has not yet sent its Cancel, or by a Cancel in the channel.
* `NoStartPanics`, the hypothesis of `TriggersAreCurrent`, `CancelTakesEffect` and
  `ImplementsPromise`, says that no `start()` panics between the spawn of its microphone
  thread and the join (`actions/transcribe.rs:258`). It is a limit of the code: with such a
  panic TLC finds a counterexample to each of the three (section 5). `CancelledIsSilent`,
  `ProcessingIsOwned` and `DictationLivesTakes` hold with these panics too, and wherever a
  theorem below excludes panics, these are meant as well (`NothingPanics`).
* `CapturesBelong`, `TrayRests`, `PillRests`, `BusyCanCancel`: `NoOrphanCapture`,
  `TrayComesHome`, `PillComesDown` and `BusyIsCancellable`. These state what owns a
  capture, a repaint, the pill and the pipeline flag at every step (somebody who has still
  to paint, a task that still works, a notice). Each is a theorem under the environment in
  which it holds, written as hypotheses on `Budget`: no cancels and no panics for
  `NoOrphanCapture`; no panics, and no clears or no cancels, for `TrayComesHome`; neither
  cancels, clears nor panics for `PillComesDown`; no cancels, panics and give-ups of
  Processing for `BusyIsCancellable`. With one of these steps allowed TLC finds a
  counterexample each time (section 5), so the hypotheses are limits of the code and not
  of the proof. Every other kind of step, in any number, is allowed. `TrayComesHome` has
  two invariants: with cancels a thread at `quiet` repaints what the recorder leaves
  behind, without them the stage Recording does.
* `ReleaseNeverLost`: `Spec => []ReleaseIsOnItsWay`, with push-to-talk alone, without cancels
  and panics: while the key is up, a capture in progress has a release before it in the
  channel that no press follows, or the deferred release of this very take, or a stop under
  way. `ReleaseInv` says where a release is from the key's, the start's and the loop's point
  of view; `NoEarlyReport`, that nobody works for or reports on a session whose task has not
  been launched, is why the report of an earlier take leaves a deferred release alone. The
  hypotheses are needed (TLC finds the counterexamples): a toggled take has no key to be
  up, a late Cancel drops the deferred release of a newer take, and a contained panic leaves
  a capture behind whose release finds no stage.
* `ImplementsPromise`: `Spec => KeepsPromise`, under `NoStartPanics`. The mapping takes
  `newest` to `currentSession`, `withheld` to `doomed`, and `leaving` and `released` to the
  sessions of the tasks past their last cancellation point and past their release. The
  invariant `OnceInv` adds to the one of `CancelledIsSilent` that a recorder is started once
  per session and each capture goes to one task; without it two tasks could carry the same
  session.

* `DictationLivesTakes`: `Spec => KeepsTakeLife` for the coordinator, with any cancels,
  clears, timers and panics, microphone threads left behind included. A capture in progress
  (`co.at = "capture"`) is the take that the stop has claimed, so a discard or a begin in
  the middle of it would be no step of `TakeLife`; `StoppingInv` shows that the state is
  `Stopping` until the capture returns.

### Microphone

* `MicLivesTakes`: `Spec => KeepsTakeLife`, the manager implements `TakeLife`.
  `try_start_recording` finds the state Idle, drops that lock, opens the device, and counts
  and publishes the take steps later; the state is Idle still, because only the coordinator
  and the thread it joins begin or claim a take and everybody else can at most discard one.
  `StopHasTake` adds that the state is `Stopping` exactly while a stop is under way.
  `MicTakesEnd` carries over what makes a remembered generation safe to test: once found
  inactive, it stays so.
* `MuteNeverLost`: `Spec => []MuteIsRemembered`. `LocksHeld` says which mutex each step
  holds, `KnownAtSteps` what a thread that holds it knows there: past its unmute a stop
  finds the output unmuted, and past its check an open finds the stream closed.
* `TakeRecords` and `MicReturns`: `Spec => []UndisturbedTakeRecords` and
  `Spec => []MicComesHome`, from one invariant, `TakeInv`. `ClosersWork`, `HelpersWork` and
  `CoordWorks` say where each kind of thread can be, where its subroutine returns to, and
  when it has the lifecycle lock; `HistoryIsTrue` ties the two history flags to the threads
  that disturb a take; `TakeHasStream` and `StreamIsOwned` say what a take may rely on and
  who will still close an open stream. Most of the work is `StreamIsOwned`: each step that
  supersedes or passes over a close must leave another thread that closes.
* `SomebodyGoesOn`: `Spec => []SomebodyIsReady`, if there is a thread for a scheduled close
  at all. `HolderInv` is the converse of `LocksHeld`: who can have each mutex, and where.
  No order of the five mutexes explains it: `stop_recording` takes the recorder under the
  state, `try_start_recording` the state under the recorder. The proof finds the ready
  thread from the holders, and the inversion is harmless only because both run on the
  coordinator.

### Capture worker

`RecorderProofs` first reduces each step to what it does to the `Inbox`, the commands and
audio the worker still has to serve in their order (deferred ones before the queue); the
invariants speak of the inbox only.

* `AnswerFitsTake`, `MirrorHolds`: `AnswersItsOwnTake` and `MirrorFollows`. `Serving` counts
  the starts that lie before each stop of the inbox, and says that a shutdown comes after
  the last stop: a worker that is closed is never in a take, also with a stream that is
  opened again behind it.
* `KeptOnce`: `NothingTwice`. `Once` lines up what the take holds, what waits in the inbox,
  what the callback is at and what the device has still to deliver: four stretches of
  ascending capture times, each before the next.
* `MaskFollows`, `SpeechSignalled`: `MaskIsHonest` and `SpeechIsSeen`. `Detected` and
  `Alerted` relate the detector's counters to the sounds of the frames heard, while a take
  is replayed from the ring, trimmed, extended and drained. A run of the detector over a
  sequence of frames is a recursive function of the naturals, and the induction over it is
  by the least number at which it could fail (`Induct`).
* `CleanTakeHolds`: `CleanTakeIsWhole`. Every frame that is due (captured after the begin
  and no later than the deadline) is followed through the device, the callback's chunk, the
  inbox and the take. `Covered`: until its own end is out of reach, a frame that is due is
  kept or on its way. `Sealed`: no audio follows the end that belongs to the stop under
  way. `Bounded`: what a drain takes in was captured before the flag was raised. `Flags`
  and `Named` say what the worker's step means for the flag and the deadline, and that an
  end in the inbox belongs to a stop served no later than the one under way. A drain that
  only a stale end cut short is not clean, and the property excepts it.

### Ducking

* `NothingIsForgotten` and `OnlyOwnIsUndone`: `Spec => []NothingForgotten` and
  `Spec => OnlyUndoesItsOwn`, under `OwnApplications` (each session is alone in its
  application; with two in one, the second does not hold, section 5). The invariant has
  `DuckShape` (where a job is), `OrphansFirst` (the recovered entries are the first job of
  a launch), and `Accounts`: entries are unique per session, faithful to level and user's
  volume, in the journal unless they are about to be saved, and there for every lowered
  session.
* `LiveTakeHolds`: `Spec => []LiveTakeKeepsItsDuck`, for any applications. `HoldInv`:
  requests name takes that have begun, so an old probe never reads the live take's, and a
  restore of the dictation's hold in the queue comes before every later duck.
* `SomebodyRestores`: `Spec => []NobodySleepsOnIt`, under `OwnApplications`. From the
  invariant of `NothingIsForgotten`: a session away from its user's volume, when nothing
  wants the duck, leaves the worker a job or one of the deadlines of
  `next_watchdog_deadline`.
* `DuckLivesTakes`, `ProbesStayDead`: the takes that hold the duck are those of `TakeLife`
  (live is Recording, a stop or a cancel discards), hence a holder whose probe is dead stays
  dead: the watchdog may reap it whenever it comes round.

### Engine slot

* `TeardownIsAlone` and `NameIsEngine`: `Spec => []IdleTeardownIsAlone` and
  `Spec => []LabelNamesEngine`. `LocksHeld` says which mutex each step holds; `Claimed`
  that the loading flag has one owner at most and that it is down during the watcher's
  teardown; `Asked` that what is built is what was asked for; `Named` that, until engines
  have crossed, one decode runs at a time with the slot empty, and that an engine about
  to be named is in the slot or out for a decode. The last part is why a decode may borrow
  an engine before it has its name.
* `EngineGoesOn`: `Spec => []SomebodyIsReady`: unless all threads rest, one finds free what
  its next step takes. `HoldersAreThere` is the converse of `LocksHeld` (a mutex that is
  held has a thread at a step that holds it), with an owner for the raised loading flag. The
  ready thread is the holder of the last mutex of the order `lifecycle`, `is_loading`,
  `engine` that is held, or else the owner of the flag.

### Modes

* `PhaseIsFinal`: `Spec => SettledStaysSettled`, for any savers: settle compares generation
  and Preparing while it has the mutex of `STATE`.
* `SessionKeepsEngine`: `Spec => []CurrentSessionKeepsEngine`, if there is one saver
  (`OneSaver`; with two it does not hold, section 5). `LockHeld` gives the model lock one
  holder and says what that holder knows; the rest orders generations: those of the counter,
  the phase, the workers, the starts and the live session. A reload that could take the
  session's engine belongs to an older generation than the one it was let in by, and such a
  reload is skipped under the lock or has finished. A start loads only while no session is
  live (`Streaming`), so a load that fails and leaves no engine takes it from nobody.
* `PreparationIsOwned` and `PreparationGoesOn`: `Spec => []PreparingHasOwner` and
  `Spec => []PreparationMoves`, for any savers, overlapping or not: a phase that is
  Preparing has a save, a worker or a watchdog of its generation that has still to settle
  it, and the owner, or who holds the lock it waits for, can go on. `GenerationsAreOwn`
  says that a generation belongs to one save and gets its worker once, `LocksHaveHolders`
  that a lock which is held has a holder. (That the flag `PREPARING` agrees with the phase
  is not part of it: with two savers it need not, section 5.)

The assumptions are those named in the modules: bounds are natural numbers, names of
threads, savers and models are different from the placeholders.

Only model-checked: the liveness properties `ProcessingEnds`, `ReleaseStopsCapture`,
`PhaseSettles`, `MixerComesHome` and `RequestsReturn`, because reasoning from fairness is
outside the prover (each has a safety part that is proved: in this order
`ProcessingIsOwned`, `ReleaseNeverLost`, `PreparationGoesOn`, `SomebodyRestores` and
`EngineGoesOn` say that somebody is there who owes the next step), and of `NoDeadlock` that
a thread which is `Ready` has a step, because `ENABLED` is. Every other property of a
passing run is the property of a theorem.

## 5. What holds only within limits

Dictation

* A panic of `start()` between the spawn of the microphone thread and its join (the calls of
  `actions/transcribe.rs:258-261`) is contained, but drops the join and with it every check
  after it, while the thread goes on. TLC's traces: the session is cancelled, `start` panics,
  and the microphone opens for the cancelled session with nobody to discard it
  (`CancelNeverLost`, `NoOrphanCapture`); a capture that opens so during Processing, and
  mode changes, make two tasks of one session, whose text is released twice (`KeepsPromise`);
  a deferred release expires, a queue clear idles the recorder, the thread left behind begins
  a take, and the stop under way ends that one (`StaleTriggerNeverStops`). What is safe even
  then: a cancelled session releases nothing, Processing has an owner, and the recorder is
  never started over a take.
* `TrayComesHome` and `PillComesDown` do not hold with panics: the containment in the
  coordinator's loop resets the stage and repaints nothing, and a panic inside
  `stop_recording` leaves the recorder `Stopping`, so later presses are ignored.
* `PillComesDown` does not hold with a cancel or a queue clear: when `start` finds its
  recorder closed again it undoes the tray only, and pill and pipeline flag stay until the
  next dictation.
* `TrayComesHome` does not hold with a cancel and a queue clear over an orphaned
  recording (the first finding below). `NoOrphanCapture` is run without cancels for the
  same reason, and does not hold with panics either.
* `BusyIsCancellable` does not hold with cancels (the flag is swapped before the take is
  down), with panics (a panic leaves a recorder that records for a stage that is idle), or
  when Processing is given up: the guard of the task that was given up on, past its test,
  stores the flag under the next take.
* `FinishGuard` tests the current session and stores in two steps (`actions.rs:91`): a
  session that begins in between loses its pipeline flag and Escape. That needs a stage
  that was left before its task was done: `BusyCanCancel` shows that without cancels,
  panics and give-ups no session can begin in between.
* The hide of an offline notice, 4 s later, may hide the pill of a newer take
  (`actions/transcribe.rs:40`).

Microphone

* `UndisturbedTakeRecords` excepts takes that a cancel or a settings change overlaps.
  `cancel_recording` under the immediate policy stops the recorder and closes the stream
  without the lifecycle lock (`audio.rs:1290`); a device change in the middle of a take
  loses it while the state stays `Recording`; and the no-speech watchdog may cancel a newer
  take (`audio.rs:171`).
* It also excepts an always-on stream that could not be reopened: `start()` without a
  worker returns `Ok`, and the take is deaf.
* A close that is late can close an always-on stream when a take ends between
  `update_mode`'s bump of the generation and its store of the mode.
* After a cancel or a fast tap a mute may stay until the stream closes.
* The recorder and the state are taken in both orders (`audio.rs`, `stop_recording` and
  `try_start_recording`). No thread waits forever only because the coordinator joins the
  thread that starts a take before it stops one.

Capture worker

* `seed_preroll` trims non-speech at the head of the ring before a later onset can mark it:
  speech that begins in the last ring frames, and whose onset is confirmed only after the
  start, loses its beginning.
* The callback's latch: a start and a stop with no callback in between, after an earlier
  stop, get no end of stream and wait out the 1.5 s budget.
* An end of stream carries no identity: a stalled callback may end the drain of the next
  take early. `CleanTakeIsWhole` speaks of stops that got their own, on devices with
  capture times; without these the tail still in flight is lost.
* A cancel's `stop` may follow a newer start, and a stop while idle may return frames of a
  drain.
* The doc of the field `live_audio` says that "the mirror keeps the last recording until the
  next Start clears it" (`recorder.rs:324-325`). The worker clears it as soon as a take has
  been answered (`recorder.rs:2010-2018`), and `MirrorFollows` states what the worker does:
  empty between takes. A worker that did what the doc says is the property's mutant,
  `WorkerRearmsKeepingMirror`. The comment
  at the worker's clear gives its reason: a snapshot in the gap before the next start would
  decode the previous utterance again. So it is the field's doc that is stale.

Ducking

* The journal is written in place: a death in the middle of `fs::write` leaves a file that
  the next launch deletes. A capture beside a pending entry of the same session, after a
  failed heal, makes two entries that contradict each other. Both happen; the sessions
  concerned are in `spoiled` and excepted.
* `apply_verified_session_restore` matches greedily in list order (`ducking.rs:1056`): with
  two sessions of one application, of which one is gone, its snapshot may be written to the
  other, when both sat at 0. `duck` has one session per application, and the theorems
  assume it.

Engine slot

* `LabelNamesEngine` excepts histories in which engines crossed (the third finding below):
  the put-back of a decode may leave another engine under the name.
* An unload during a decode is undone by the put-back; the name is gone, so the next
  request rebuilds.
* A decode's put-back notifies nobody: an idle watcher that went to sleep while the slot
  was empty wakes at the next activity only, and the engine stays resident until then
  (against the comment in `transcription.rs` that every transition notifies its condition
  variable). Read, not run.
* A reload between a decode's put-back and its warm mark marks the cold engine warm. Read,
  not run.

Modes

* `CurrentSessionKeepsEngine` speaks of sessions whose start was let in after the last
  switch. `start_listen` checks the boundary once (`listen.rs:120`): on listen, ptt,
  listen, a slow start can go live before the older reload, which then evicts its model.
* All of `ModeTransition` is run with one saver. Saves run on blocking threads and their
  effects are outside the write lock, so two may overlap (the renderer retries a
  conflicting save). Then `begin` of the older can overwrite `STATE` of the newer one,
  `PREPARING`, which is stored outside the mutex (`mode_transition.rs:152`), can stay set
  with no phase pending, and `CurrentSessionKeepsEngine` fails.
* A reload is skipped also for a newer switch that loads nothing (`recording_mode.rs:166`):
  Ready is then reported with the engine of the mode before.
* A stale start_listen that finds a newer Listen phase pending settles it
  (`complete_pending_for` compares the target, not the generation).

## 6. Deviations found

| Run | Code | Against |
|---|---|---|
| `coord_stale_cancel` | the Cancel handler idles any stage when `recording_was_active`, and comes after a slow teardown: a newer take is orphaned, its microphone on | the struct comment, `transcription_coordinator.rs:164` |
| `mic_release` | a change of the input device calls off the scheduled close and schedules none for the stream it reopens: the microphone stays open until the next take ends | the setting's description, `src/messages/en.json:712` |
| `engine_sessions` | a decode has the engine out of the slot, so a load that starts meanwhile unloads nothing and builds a second ORT session | `managers/transcription/load.rs:627` |

`PROJECT.json` gives each with its trace in words.

## 7. Plan

Done: `DictationCoordinator` with the refinement of `DictationPromise`, `MicStream` and the
`TakeLife` between the two, `Ducking`, `EngineSlot`, `Recorder` (with the smoothed detector)
and `ModeTransition`, each with its runs and with proofs of its safety properties.

Left, in this order:

1. `CancelRegistry`: requests as a function of marks and tokens, with track, cancel,
   cancel_all and clear in any order. `EscapeShortcut`: the requested flag against the
   operating system's registration, changed by unordered tasks.
2. The idle watcher's condition variable and the warm marks in `EngineSlot`.
3. Pure algorithms: realtime stabilizer, playback queue.

### Not modelled

History, clipboard and paste, updater, downloads, HTTP providers (LLM, cloud STT), tray
and overlay windows: I/O whose outcome is a choice in the models. Realtime preview, wake
word, text to speech and file transcription: separate managers that meet the core at the
engine, the microphone and the duck, where they are one of the callers. Model swap: its
loads and unloads are requests of `EngineSlot`, its download and rollback are not modelled.
DSP, prompts, catalogs and rendering hold no state these properties are about. The
renderer is the environment of every model here.
