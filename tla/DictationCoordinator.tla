------------------------ MODULE DictationCoordinator ------------------------
(***************************************************************************)
(* One microphone dictation, from the hotkey to the paste.                 *)
(*                                                                         *)
(* The coordinator thread owns the stage Idle | Recording | Processing and *)
(* consumes a FIFO of commands.  Around it run: the thread that opens the  *)
(* microphone while start() draws the UI, one asynchronous pipeline task   *)
(* per stop (decode, post-process, paste, finish guard), and the threads   *)
(* that call cancel_current_operation.  They share three atomics, the      *)
(* recorder, the tray icon and the overlay pill.                           *)
(*                                                                         *)
(* Every dictation mode uses the binding "transcribe", so bindings are     *)
(* left out.  A step is the code between two accesses to state another     *)
(* thread may write.                                                       *)
(***************************************************************************)
EXTENDS Naturals, Sequences

CONSTANTS
  Cancellers,   \* threads that may run cancel_current_operation
  MaxTasks,     \* bound on the pipeline tasks; never reached when it is at least
                \* the number of presses and mode changes Budget allows
  Modes,        \* recording modes in use, a subset of {"ptt", "toggle"}
  Budget        \* how often the environment may act, by kind (bounds the model)

BudgetKinds ==
  {"input", "echo", "cancel", "timer", "clear", "mode", "panic", "startPanic", "wedge"}

ASSUME BudgetAssumption == Budget \in [BudgetKinds -> Nat]
ASSUME ModesAssumption == Modes \subseteq {"ptt", "toggle"}
ASSUME TasksAssumption == MaxTasks \in Nat

VARIABLES
  queue,            \* the coordinator's mpsc channel
  stage,            \* Stage, owned by the coordinator thread
  pending,          \* the deferred push-to-talk release
  co,               \* program counter and locals of the coordinator thread
  mic,              \* the microphone-open thread of start()
  detached,         \* how many such threads run on, their start() having panicked
  currentSession,   \* CURRENT_DICTATION_SESSION
  cancelledThrough, \* CANCELLED_DICTATION_THROUGH
  pipelineActive,   \* DICTATION_PIPELINE_ACTIVE
  rec,              \* AudioRecordingManager: state and recording_generation
  timer,            \* generation a silence timer has validated, 0 when none
  task,             \* the asynchronous pipeline tasks
  launched,         \* how many tasks were launched
  canc,             \* the cancelling threads
  tray,             \* flags of the tray indicator ({} is the idle icon)
  overlay,          \* RECORDING_OVERLAY_ACTIVE
  notices,          \* offline notices whose delayed overlay hide is due
  escKey,           \* CANCEL_SHORTCUT_REGISTERED
  held,             \* the push-to-talk key is physically down
  doomed,           \* history: sessions cancelled before their text was released
  left              \* what remains of Budget

micVars     == <<mic, detached>>
sessionVars == <<currentSession, cancelledThrough, pipelineActive>>
taskVars    == <<task, launched>>
uiVars      == <<tray, overlay, notices, escKey>>
vars == <<queue, stage, pending, co, micVars, sessionVars, rec, timer, taskVars,
          canc, uiVars, held, doomed, left>>
-----------------------------------------------------------------------------
(***************************************************************************)
(* Types.                                                                  *)
(***************************************************************************)
Message ==
       [type : {"Input"}, pressed : BOOLEAN, ptt : BOOLEAN]
  \cup [type : {"Cancel"}, wasRecording : BOOLEAN, through : Nat]
  \cup [type : {"SilenceStop"}, gen : Nat]
  \cup [type : {"ProcessingFinished"}, session : Nat]
  \cup [type : {"FinalizeRecordingModeChange"}]

Stage == [kind : {"Idle", "Recording", "Processing"}, session : Nat]

PendingRelease == [session : Nat, gen : Nat]

StartPoints == {"start", "activate", "gate", "ui", "join", "announce", "started"}
StopPoints  == {"stop", "capture", "launch"}

\* stopFor: the generation a stop was requested for, 0 when it names none;
\* captured: stop_recording returned Some.
Coordinator == [at : {"loop"} \cup StartPoints \cup StopPoints,
                stopFor : Nat, captured : BOOLEAN]

Recorder == [state : {"Idle", "Recording", "Stopping"}, gen : Nat]

\* The phases of the pipeline task, in order; the last five before "done"
\* belong to the drop of its FinishGuard.
WorkPhases  == {"begun", "announce", "checkStart", "decode", "checkDecode", "show",
                "checkShow", "postProcess", "checkPost", "deliver", "terminal"}
GuardPhases == {"guard", "guardFinish", "guardStore", "guardPaint", "guardNotify"}

Task == [phase : {"free", "done"} \cup WorkPhases \cup GuardPhases,
         session : Nat, captured : BOOLEAN, pasted : BOOLEAN]

Canceller == [at : {"idle", "swap", "nothing", "mark", "abort", "quiet",
                    "notify", "epilogue"},
              wasRecording : BOOLEAN, through : Nat]

TaskIds == 1 .. MaxTasks

\* Every variable has its type: the records the threads exchange are those the
\* code declares.
TypeOK ==
  /\ queue \in Seq(Message)
  /\ stage \in Stage
  /\ pending \in PendingRelease
  /\ co \in Coordinator
  /\ mic \in {"none", "opening", "ok", "failed"}
  /\ detached \in Nat
  /\ currentSession \in Nat
  /\ cancelledThrough \in Nat
  /\ pipelineActive \in BOOLEAN
  /\ rec \in Recorder
  /\ timer \in Nat
  /\ task \in [TaskIds -> Task]
  /\ launched \in Nat
  /\ canc \in [Cancellers -> Canceller]
  /\ tray \in SUBSET {"recording", "transcribing"}
  /\ overlay \in BOOLEAN
  /\ notices \in Nat
  /\ escKey \in BOOLEAN
  /\ held \in BOOLEAN
  /\ doomed \in SUBSET Nat
  /\ left \in [BudgetKinds -> Nat]
-----------------------------------------------------------------------------
(***************************************************************************)
(* Initial state and helpers.                                              *)
(***************************************************************************)
IdleStage == [kind |-> "Idle", session |-> 0]
NoRelease == [session |-> 0, gen |-> 0]

Init ==
  /\ queue = << >>
  /\ stage = IdleStage
  /\ pending = NoRelease
  /\ co = [at |-> "loop", stopFor |-> 0, captured |-> FALSE]
  /\ mic = "none"
  /\ detached = 0
  /\ currentSession = 0
  /\ cancelledThrough = 0
  /\ pipelineActive = FALSE
  /\ rec = [state |-> "Idle", gen |-> 0]
  /\ timer = 0
  /\ task = [t \in TaskIds |->
               [phase |-> "free", session |-> 0, captured |-> FALSE, pasted |-> FALSE]]
  /\ launched = 0
  /\ canc = [c \in Cancellers |-> [at |-> "idle", wasRecording |-> FALSE, through |-> 0]]
  /\ tray = {}
  /\ overlay = FALSE
  /\ notices = 0
  /\ escKey = FALSE
  /\ held = FALSE
  /\ doomed = {}
  /\ left = Budget

Spend(kind) ==
  /\ left[kind] > 0
  /\ left' = [left EXCEPT ![kind] = @ - 1]

Send(m) == queue' = Append(queue, m)

\* Mutant of Cancelled: the high-water mark is read as exclusive.
CancelledExclusive(s) == s # 0 /\ s < cancelledThrough

\* is_dictation_session_cancelled
Cancelled(s) == s # 0 /\ s <= cancelledThrough

\* AudioRecordingManager::is_recording
IsRecording == rec.state = "Recording"

\* cancel_recording: only a capture that is Recording is discarded; a stop that
\* is already finalizing (Stopping) is left alone.
CancelRecording ==
  rec' = IF IsRecording THEN [rec EXCEPT !.state = "Idle"] ELSE rec

\* unregister_cancel_shortcut_if_idle, for the value of pipelineActive it reads
EscKeyIfActive(active) == escKey' = (escKey /\ active)

HasRelease == pending # NoRelease

\* pending_release_matches_recording
ReleaseMatchesRecording ==
  /\ IsRecording
  /\ rec.gen = pending.gen
  /\ stage = [kind |-> "Recording", session |-> pending.session]
-----------------------------------------------------------------------------
(***************************************************************************)
(* The coordinator thread: one action per command of handle_command.       *)
(***************************************************************************)
Goto(point) == co' = [co EXCEPT !.at = point]

Receive(type) ==
  /\ co.at = "loop"
  /\ queue # << >>
  /\ Head(queue).type = type
  /\ queue' = Tail(queue)

\* recover_wedged_stage, first half: a Recording stage whose recorder is idle.
LostRecorder == stage.kind = "Recording" /\ ~IsRecording

\* recover_wedged_stage as a whole; stuck says that Processing is older than
\* PROCESSING_WEDGE_TIMEOUT.  next is the stage it leaves, for the caller to
\* publish or to go on from.
RecoverWedgedStage(stuck, next) ==
  LET timedOut == stuck /\ stage.kind = "Processing"
      wedged   == LostRecorder \/ timedOut
  IN  /\ next = IF wedged THEN IdleStage ELSE stage
      /\ IF timedOut THEN Spend("wedge") ELSE UNCHANGED left
      /\ pipelineActive' = (pipelineActive /\ ~wedged)
      /\ tray' = IF wedged THEN {} ELSE tray
      /\ overlay' = (overlay /\ ~LostRecorder)

StuckChoices == {FALSE} \cup {w \in {TRUE} : stage.kind = "Processing" /\ left["wedge"] > 0}

\* A repeated push-to-talk press during the grace period: the deferred release
\* is forgotten and the take goes on.
PressCancelsRelease ==
  /\ Receive("Input")
  /\ Head(queue).ptt /\ Head(queue).pressed
  /\ HasRelease /\ ReleaseMatchesRecording
  /\ pending' = NoRelease
  /\ UNCHANGED <<stage, co, micVars, sessionVars, rec, timer, taskVars, canc, uiVars,
                 held, doomed, left>>

\* Mutant of ReleaseDeferred: a duplicate release forgets the deferred one.
ReleaseForgotten ==
  /\ Receive("Input")
  /\ Head(queue).ptt /\ ~Head(queue).pressed
  /\ stage.kind = "Recording"
  /\ pending' = IF HasRelease THEN NoRelease
                ELSE [session |-> stage.session, gen |-> rec.gen]
  /\ UNCHANGED <<stage, co, micVars, sessionVars, rec, timer, taskVars, canc, uiVars,
                 held, doomed, left>>

\* A push-to-talk release of the take that records: deferred, or ignored when
\* one is deferred already.
ReleaseDeferred ==
  /\ Receive("Input")
  /\ Head(queue).ptt /\ ~Head(queue).pressed
  /\ stage.kind = "Recording"
  /\ pending' = IF HasRelease THEN pending
                ELSE [session |-> stage.session, gen |-> rec.gen]
  /\ UNCHANGED <<stage, co, micVars, sessionVars, rec, timer, taskVars, canc, uiVars,
                 held, doomed, left>>

\* A release that no recording stage owns has no effect.
ReleaseIgnored ==
  /\ Receive("Input")
  /\ Head(queue).ptt /\ ~Head(queue).pressed
  /\ stage.kind # "Recording"
  /\ UNCHANGED <<stage, pending, co, micVars, sessionVars, rec, timer, taskVars, canc,
                 uiVars, held, doomed, left>>

\* A press within DEBOUNCE of the last one: nothing but a stale or (for a
\* toggle) any deferred release is dropped.
PressDebounced ==
  /\ Receive("Input")
  /\ Head(queue).pressed
  /\ ~(Head(queue).ptt /\ HasRelease /\ ReleaseMatchesRecording)
  /\ pending' = NoRelease
  /\ UNCHANGED <<stage, co, micVars, sessionVars, rec, timer, taskVars, canc, uiVars,
                 held, doomed, left>>

\* Any other press: heal a wedged stage, then start from Idle, stop a toggle
\* that records, and ignore the press otherwise.
PressHandled ==
  /\ Receive("Input")
  /\ Head(queue).pressed
  /\ ~(Head(queue).ptt /\ HasRelease /\ ReleaseMatchesRecording)
  /\ pending' = NoRelease
  /\ \E stuck \in StuckChoices, next \in {stage, IdleStage} :
       /\ RecoverWedgedStage(stuck, next)
       /\ stage' = next
       /\ co' = IF next.kind = "Idle" THEN [co EXCEPT !.at = "start"]
                ELSE IF next.kind = "Recording" /\ ~Head(queue).ptt
                THEN [co EXCEPT !.at = "stop", !.stopFor = 0]
                ELSE co
  /\ UNCHANGED <<micVars, currentSession, cancelledThrough, rec, timer, taskVars, canc,
                 notices, escKey, held, doomed>>

\* Cancel: a stage the cancellation covers, or any stage when the canceller saw
\* the recorder running, goes back to Idle.
HandleCancel ==
  /\ Receive("Cancel")
  /\ pending' = NoRelease
  /\ LET m == Head(queue)
         stageCancelled ==
           /\ stage.kind # "Idle"
           /\ stage.session # 0
           /\ stage.session <= m.through
     IN  IF m.wasRecording \/ stageCancelled
         THEN stage' = IdleStage /\ pipelineActive' = FALSE
         ELSE UNCHANGED <<stage, pipelineActive>>
  /\ UNCHANGED <<co, micVars, currentSession, cancelledThrough, rec, timer, taskVars,
                 canc, uiVars, held, doomed, left>>

\* Mutant of HandleSilenceStop: the generation is not compared.
SilenceStopsAnyTake ==
  /\ Receive("SilenceStop")
  /\ LET g == Head(queue).gen
     IN  /\ pending' = IF HasRelease /\ pending.gen = g THEN NoRelease ELSE pending
         /\ \E stuck \in StuckChoices, next \in {stage, IdleStage} :
              /\ RecoverWedgedStage(stuck, next)
              /\ stage' = next
              /\ co' = IF next.kind = "Recording"
                       THEN [co EXCEPT !.at = "stop", !.stopFor = g]
                       ELSE co
  /\ UNCHANGED <<micVars, currentSession, cancelledThrough, rec, timer, taskVars, canc,
                 notices, escKey, held, doomed>>

\* SilenceStop, with the setting re-read (enabled) when the command is handled.
HandleSilenceStop ==
  /\ Receive("SilenceStop")
  /\ LET g == Head(queue).gen
     IN  /\ pending' = IF HasRelease /\ pending.gen = g THEN NoRelease ELSE pending
         /\ \E stuck \in StuckChoices, next \in {stage, IdleStage}, enabled \in BOOLEAN :
              /\ RecoverWedgedStage(stuck, next)
              /\ stage' = next
              /\ co' = IF next.kind = "Recording" /\ rec.gen = g /\ enabled
                       THEN [co EXCEPT !.at = "stop", !.stopFor = g]
                       ELSE co
  /\ UNCHANGED <<micVars, currentSession, cancelledThrough, rec, timer, taskVars, canc,
                 notices, escKey, held, doomed>>

HandleProcessingFinished ==
  /\ Receive("ProcessingFinished")
  /\ LET s == Head(queue).session
     IN  /\ pending' = IF HasRelease /\ pending.session = s THEN NoRelease ELSE pending
         /\ IF stage = [kind |-> "Processing", session |-> s]
            THEN /\ stage' = IdleStage
                 /\ pipelineActive' = (pipelineActive /\ currentSession # s)
            ELSE UNCHANGED <<stage, pipelineActive>>
  /\ UNCHANGED <<co, micVars, currentSession, cancelledThrough, rec, timer, taskVars,
                 canc, uiVars, held, doomed, left>>

\* FinalizeRecordingModeChange also stops a recorder that outlived its stage.
HandleRecordingModeChange ==
  /\ Receive("FinalizeRecordingModeChange")
  /\ pending' = NoRelease
  /\ \E stuck \in StuckChoices, next \in {stage, IdleStage} :
       /\ RecoverWedgedStage(stuck, next)
       /\ stage' = next
       /\ co' = IF next.kind = "Recording" \/ IsRecording
                THEN [co EXCEPT !.at = "stop", !.stopFor = 0]
                ELSE co
  /\ UNCHANGED <<micVars, currentSession, cancelledThrough, rec, timer, taskVars, canc,
                 notices, escKey, held, doomed>>

\* The grace deadline, which receive_next reports only when no command waits.
ExpirePendingRelease ==
  /\ co.at = "loop"
  /\ queue = << >>
  /\ HasRelease
  /\ pending' = NoRelease
  /\ co' = IF ReleaseMatchesRecording
           THEN [co EXCEPT !.at = "stop", !.stopFor = pending.gen]
           ELSE co
  /\ UNCHANGED <<queue, stage, micVars, sessionVars, rec, timer, taskVars, canc, uiVars,
                 held, doomed, left>>
-----------------------------------------------------------------------------
(***************************************************************************)
(* start(): TranscribeAction::start on the coordinator thread, and the     *)
(* thread that opens the microphone meanwhile.                             *)
(***************************************************************************)

\* Onboarding is active: no session is begun.
StartRefused ==
  /\ co.at = "start"
  /\ Goto("started")
  /\ UNCHANGED <<queue, stage, pending, micVars, sessionVars, rec, timer, taskVars,
                 canc, uiVars, held, doomed, left>>

\* begin_dictation_session, in its two atomic operations.
BeginSession ==
  /\ co.at = "start"
  /\ currentSession' = currentSession + 1
  /\ Goto("activate")
  /\ UNCHANGED <<queue, stage, pending, micVars, cancelledThrough, pipelineActive, rec,
                 timer, taskVars, canc, uiVars, held, doomed, left>>

ActivateSession ==
  /\ co.at = "activate"
  /\ pipelineActive' = TRUE
  /\ Goto("gate")
  /\ UNCHANGED <<queue, stage, pending, micVars, currentSession, cancelledThrough, rec,
                 timer, taskVars, canc, uiVars, held, doomed, left>>

\* The offline pre-gate: no capture, a pill that a timer takes down later.
StartOffline ==
  /\ co.at = "gate"
  /\ pipelineActive' = FALSE
  /\ EscKeyIfActive(FALSE)
  /\ overlay' = TRUE
  /\ notices' = notices + 1
  /\ Goto("started")
  /\ UNCHANGED <<queue, stage, pending, micVars, currentSession, cancelledThrough, rec,
                 timer, taskVars, canc, tray, held, doomed, left>>

\* Mutant of OfflineNoticeHide: a hide that no notice asked for.
HideWithoutNotice ==
  /\ notices' = notices - 1
  /\ overlay' = FALSE
  /\ UNCHANGED <<queue, stage, pending, co, micVars, sessionVars, rec, timer, taskVars,
                 canc, tray, escKey, held, doomed, left>>

OfflineNoticeHide ==
  /\ notices > 0
  /\ notices' = notices - 1
  /\ overlay' = FALSE
  /\ UNCHANGED <<queue, stage, pending, co, micVars, sessionVars, rec, timer, taskVars,
                 canc, tray, escKey, held, doomed, left>>

SpawnMicThread ==
  /\ co.at = "gate"
  /\ mic' = "opening"
  /\ Goto("ui")
  /\ UNCHANGED <<queue, stage, pending, detached, sessionVars, rec, timer, taskVars,
                 canc, uiVars, held, doomed, left>>

\* Mutant of MicOpens: the state is not looked at, for start() is only called when the
\* stage is Idle.
MicOpensUnchecked ==
  /\ mic = "opening"
  /\ rec' = [state |-> "Recording", gen |-> rec.gen + 1]
  /\ mic' = "ok"
  /\ UNCHANGED <<queue, stage, pending, co, detached, sessionVars, timer, taskVars, canc,
                 uiVars, held, doomed, left>>

\* try_start_recording, at the point where it publishes the transition.
MicOpens ==
  /\ mic = "opening"
  /\ rec.state = "Idle"
  /\ rec' = [state |-> "Recording", gen |-> rec.gen + 1]
  /\ mic' = "ok"
  /\ UNCHANGED <<queue, stage, pending, co, detached, sessionVars, timer, taskVars,
                 canc, uiVars, held, doomed, left>>

\* "Already recording", no device, a failed or panicked open.
MicFails ==
  /\ mic = "opening"
  /\ mic' = "failed"
  /\ UNCHANGED <<queue, stage, pending, co, detached, sessionVars, rec, timer, taskVars,
                 canc, uiVars, held, doomed, left>>

ShowStartUi ==
  /\ co.at = "ui"
  /\ escKey' = TRUE
  /\ overlay' = TRUE
  /\ Goto("join")
  /\ UNCHANGED <<queue, stage, pending, micVars, sessionVars, rec, timer, taskVars,
                 canc, tray, notices, held, doomed, left>>

\* Joined, and the session was cancelled while the microphone opened.
JoinCancelled ==
  /\ co.at = "join" /\ mic = "ok"
  /\ Cancelled(currentSession)
  /\ mic' = "none"
  /\ CancelRecording
  /\ overlay' = FALSE
  /\ tray' = {}
  /\ EscKeyIfActive(pipelineActive)
  /\ Goto("started")
  /\ UNCHANGED <<queue, stage, pending, detached, sessionVars, timer, taskVars, canc,
                 notices, held, doomed, left>>

\* Mutant of JoinLive: the cancellation is not looked at.
JoinUnchecked ==
  /\ co.at = "join" /\ mic = "ok"
  /\ mic' = "none"
  /\ Goto("announce")
  /\ UNCHANGED <<queue, stage, pending, detached, sessionVars, rec, timer, taskVars,
                 canc, uiVars, held, doomed, left>>

\* Mutant of JoinLive: start() does not wait for the microphone thread.
JoinSkipped ==
  /\ co.at = "join"
  /\ Goto("announce")
  /\ UNCHANGED <<queue, stage, pending, micVars, sessionVars, rec, timer, taskVars,
                 canc, uiVars, held, doomed, left>>

JoinLive ==
  /\ co.at = "join" /\ mic = "ok"
  /\ ~Cancelled(currentSession)
  /\ mic' = "none"
  /\ Goto("announce")
  /\ UNCHANGED <<queue, stage, pending, detached, sessionVars, rec, timer, taskVars,
                 canc, uiVars, held, doomed, left>>

JoinFailed ==
  /\ co.at = "join" /\ mic = "failed"
  /\ mic' = "none"
  /\ pipelineActive' = FALSE
  /\ EscKeyIfActive(FALSE)
  /\ overlay' = FALSE
  /\ tray' = {}
  /\ Goto("started")
  /\ UNCHANGED <<queue, stage, pending, detached, currentSession, cancelledThrough, rec,
                 timer, taskVars, canc, notices, held, doomed, left>>

\* stt:recording-start arms the tray.
AnnounceRecording ==
  /\ co.at = "announce"
  /\ tray' = tray \cup {"recording"}
  /\ Goto("started")
  /\ UNCHANGED <<queue, stage, pending, micVars, sessionVars, rec, timer, taskVars,
                 canc, overlay, notices, escKey, held, doomed, left>>

\* Mutant of FinishStart: the armed tray is not undone.
FinishStartArmed ==
  /\ co.at = "started"
  /\ Goto("loop")
  /\ stage' = IF IsRecording THEN [kind |-> "Recording", session |-> currentSession]
              ELSE stage
  /\ UNCHANGED <<queue, pending, micVars, sessionVars, rec, timer, taskVars, canc,
                 uiVars, held, doomed, left>>

\* Back in start(): the recorder decides whether the stage is Recording.
FinishStart ==
  /\ co.at = "started"
  /\ Goto("loop")
  /\ IF IsRecording
     THEN /\ stage' = [kind |-> "Recording", session |-> currentSession]
          /\ UNCHANGED tray
     ELSE /\ tray' = {}
          /\ UNCHANGED stage
  /\ UNCHANGED <<queue, pending, micVars, sessionVars, rec, timer, taskVars, canc,
                 overlay, notices, escKey, held, doomed, left>>
-----------------------------------------------------------------------------
(***************************************************************************)
(* stop(): TranscribeAction::stop on the coordinator thread.               *)
(***************************************************************************)

\* stop_recording up to Stopping, or None when there is nothing to stop.
StopRecorder ==
  /\ co.at = "stop"
  /\ IF IsRecording
     THEN /\ rec' = [rec EXCEPT !.state = "Stopping"]
          /\ Goto("capture")
     ELSE /\ co' = [co EXCEPT !.at = "launch", !.captured = FALSE]
          /\ UNCHANGED rec
  /\ UNCHANGED <<queue, stage, pending, micVars, sessionVars, timer, taskVars, canc,
                 uiVars, held, doomed, left>>

\* Mutant of CaptureTaken: the session ends with its capture.
CaptureEndsSession ==
  /\ co.at = "capture"
  /\ rec' = [rec EXCEPT !.state = "Idle"]
  /\ co' = [co EXCEPT !.at = "launch", !.captured = TRUE]
  /\ pipelineActive' = FALSE
  /\ UNCHANGED <<queue, stage, pending, micVars, currentSession, cancelledThrough,
                 timer, taskVars, canc, uiVars, held, doomed, left>>

\* stop_recording from Stopping to Idle, with the captured audio in hand.
CaptureTaken ==
  /\ co.at = "capture"
  /\ rec' = [rec EXCEPT !.state = "Idle"]
  /\ co' = [co EXCEPT !.at = "launch", !.captured = TRUE]
  /\ UNCHANGED <<queue, stage, pending, micVars, sessionVars, timer, taskVars, canc,
                 uiVars, held, doomed, left>>

\* stt:recording-stop, the asynchronous task, and the Processing stage.
LaunchTask ==
  /\ co.at = "launch"
  /\ launched < MaxTasks
  /\ tray' = tray \ {"recording"}
  /\ launched' = launched + 1
  /\ task' = [task EXCEPT ![launched + 1] =
                [phase |-> "begun", session |-> currentSession,
                 captured |-> co.captured, pasted |-> FALSE]]
  /\ stage' = [kind |-> "Processing", session |-> currentSession]
  /\ co' = [at |-> "loop", stopFor |-> 0, captured |-> FALSE]
  /\ UNCHANGED <<queue, pending, micVars, sessionVars, rec, timer, canc, overlay,
                 notices, escKey, held, doomed, left>>

\* A panic in the body of start() or stop(), contained by catch_unwind, while no
\* microphone thread is out.
CoordinatorPanics ==
  /\ co.at # "loop"
  /\ mic = "none"
  /\ Spend("panic")
  /\ co' = [at |-> "loop", stopFor |-> 0, captured |-> FALSE]
  /\ stage' = IdleStage
  /\ pending' = NoRelease
  /\ UNCHANGED <<queue, micVars, sessionVars, rec, timer, taskVars, canc, uiVars, held,
                 doomed>>

\* A panic in start() while its microphone thread is out: the thread is not joined,
\* and one that is still opening the microphone runs on by itself.  The UI calls of
\* start() come in between, the Escape key first.
StartPanics ==
  /\ co.at \in {"ui", "join"}
  /\ Spend("startPanic")
  /\ mic' = "none"
  /\ detached' = IF mic = "opening" THEN detached + 1 ELSE detached
  /\ co' = [at |-> "loop", stopFor |-> 0, captured |-> FALSE]
  /\ stage' = IdleStage
  /\ pending' = NoRelease
  /\ escKey' \in {escKey, TRUE}
  /\ co.at = "join" => UNCHANGED escKey
  /\ UNCHANGED <<queue, sessionVars, rec, timer, taskVars, canc, tray, overlay, notices,
                 held, doomed>>

\* The microphone thread nobody joins: try_start_recording as in MicOpens and MicFails.
DetachedMicOpens ==
  /\ detached > 0
  /\ rec.state = "Idle"
  /\ rec' = [state |-> "Recording", gen |-> rec.gen + 1]
  /\ detached' = detached - 1
  /\ UNCHANGED <<queue, stage, pending, co, mic, sessionVars, timer, taskVars, canc, uiVars,
                 held, doomed, left>>

DetachedMicFails ==
  /\ detached > 0
  /\ detached' = detached - 1
  /\ UNCHANGED <<queue, stage, pending, co, mic, sessionVars, rec, timer, taskVars, canc,
                 uiVars, held, doomed, left>>
-----------------------------------------------------------------------------
(***************************************************************************)
(* The pipeline task spawned by stop().                                    *)
(***************************************************************************)
At(t, phase) == t <= launched /\ task[t].phase = phase
Move(t, phase) == task' = [task EXCEPT ![t].phase = phase]

\* cancelled_session_cleanup that finds the session cancelled: the task takes
\* the recording UI down and returns, which drops its guard.  The flag never
\* goes back, so reading it and painting are one step.
CleanedUp(t) ==
  /\ Cancelled(task[t].session)
  /\ Move(t, "guard")
  /\ overlay' = FALSE
  /\ tray' = {}

\* cancelled_session_cleanup that finds it alive.
Passes(t, phase) ==
  /\ ~Cancelled(task[t].session)
  /\ Move(t, phase)
  /\ UNCHANGED <<overlay, tray>>

\* The captured samples are silent or worth a decode; without samples the task
\* goes straight to its terminal event.
TaskBegun(t) ==
  /\ At(t, "begun")
  /\ \/ CleanedUp(t)
     \/ Passes(t, "terminal")
     \/ task[t].captured /\ Passes(t, "announce")
  /\ UNCHANGED <<queue, stage, pending, co, micVars, sessionVars, rec, timer, launched,
                 canc, notices, escKey, held, doomed, left>>

\* stt:transcription-start
TaskAnnounces(t) ==
  /\ At(t, "announce")
  /\ Move(t, "checkStart")
  /\ tray' = tray \cup {"transcribing"}
  /\ UNCHANGED <<queue, stage, pending, co, micVars, sessionVars, rec, timer, launched,
                 canc, overlay, notices, escKey, held, doomed, left>>

TaskChecksStart(t) ==
  /\ At(t, "checkStart")
  /\ CleanedUp(t) \/ Passes(t, "decode")
  /\ UNCHANGED <<queue, stage, pending, co, micVars, sessionVars, rec, timer, launched,
                 canc, notices, escKey, held, doomed, left>>

\* The decode returns, with text or with an error.
TaskDecodes(t) ==
  /\ At(t, "decode")
  /\ Move(t, "checkDecode")
  /\ UNCHANGED <<queue, stage, pending, co, micVars, sessionVars, rec, timer, launched,
                 canc, uiVars, held, doomed, left>>

\* A decode error ends in stt:transcription-failed.
TaskChecksDecode(t) ==
  /\ At(t, "checkDecode")
  /\ CleanedUp(t) \/ Passes(t, "show") \/ Passes(t, "terminal")
  /\ UNCHANGED <<queue, stage, pending, co, micVars, sessionVars, rec, timer, launched,
                 canc, notices, escKey, held, doomed, left>>

\* The pill is shown again when LLM clean-up is going to run.
TaskShowsPill(t) ==
  /\ At(t, "show")
  /\ Move(t, "checkShow")
  /\ overlay' \in {overlay, TRUE}
  /\ UNCHANGED <<queue, stage, pending, co, micVars, sessionVars, rec, timer, launched,
                 canc, tray, notices, escKey, held, doomed, left>>

TaskChecksShow(t) ==
  /\ At(t, "checkShow")
  /\ CleanedUp(t) \/ Passes(t, "postProcess")
  /\ UNCHANGED <<queue, stage, pending, co, micVars, sessionVars, rec, timer, launched,
                 canc, notices, escKey, held, doomed, left>>

TaskPostProcesses(t) ==
  /\ At(t, "postProcess")
  /\ Move(t, "checkPost")
  /\ UNCHANGED <<queue, stage, pending, co, micVars, sessionVars, rec, timer, launched,
                 canc, uiVars, held, doomed, left>>

\* Mutant of TaskChecksPost: the last cancellation point is missing.
TaskSkipsPost(t) ==
  /\ At(t, "checkPost")
  /\ Move(t, "deliver")
  /\ UNCHANGED <<queue, stage, pending, co, micVars, sessionVars, rec, timer, launched,
                 canc, uiVars, held, doomed, left>>

\* The last cancellation point: from "deliver" on, the text is released.
TaskChecksPost(t) ==
  /\ At(t, "checkPost")
  /\ CleanedUp(t) \/ Passes(t, "deliver")
  /\ UNCHANGED <<queue, stage, pending, co, micVars, sessionVars, rec, timer, launched,
                 canc, notices, escKey, held, doomed, left>>

\* Mutant of TaskDelivers: the task ends without its guard.
TaskDeliversUnguarded(t) ==
  /\ At(t, "deliver")
  /\ \E text \in BOOLEAN :
       task' = [task EXCEPT ![t].phase = "done", ![t].pasted = text]
  /\ overlay' = FALSE
  /\ tray' = {}
  /\ UNCHANGED <<queue, stage, pending, co, micVars, sessionVars, rec, timer, launched,
                 canc, notices, escKey, held, doomed, left>>

\* History row, then either stt:no-audio-detected for an empty text or the
\* terminal UI and the paste.
TaskDelivers(t) ==
  /\ At(t, "deliver")
  /\ \E text \in BOOLEAN :
       task' = [task EXCEPT ![t].phase = "guard", ![t].pasted = text]
  /\ overlay' = FALSE
  /\ tray' = {}
  /\ UNCHANGED <<queue, stage, pending, co, micVars, sessionVars, rec, timer, launched,
                 canc, notices, escKey, held, doomed, left>>

\* Mutant of TaskTerminates: the pill stays.
TaskTerminatesTrayOnly(t) ==
  /\ At(t, "terminal")
  /\ Move(t, "guard")
  /\ tray' = {}
  /\ UNCHANGED <<queue, stage, pending, co, micVars, sessionVars, rec, timer, launched,
                 canc, overlay, notices, escKey, held, doomed, left>>

\* A terminal event without text.
TaskTerminates(t) ==
  /\ At(t, "terminal")
  /\ Move(t, "guard")
  /\ overlay' = FALSE
  /\ tray' = {}
  /\ UNCHANGED <<queue, stage, pending, co, micVars, sessionVars, rec, timer, launched,
                 canc, notices, escKey, held, doomed, left>>

\* Mutant of TaskPanics: nothing runs after a panic.
TaskPanicsUnguarded(t) ==
  /\ t <= launched /\ task[t].phase \in WorkPhases
  /\ Spend("panic")
  /\ Move(t, "done")
  /\ UNCHANGED <<queue, stage, pending, co, micVars, sessionVars, rec, timer, launched,
                 canc, uiVars, held, doomed>>

\* A panic unwinds the task: only the guard still runs.
TaskPanics(t) ==
  /\ t <= launched /\ task[t].phase \in WorkPhases
  /\ Spend("panic")
  /\ Move(t, "guard")
  /\ UNCHANGED <<queue, stage, pending, co, micVars, sessionVars, rec, timer, launched,
                 canc, uiVars, held, doomed>>

IsCurrent(t) == task[t].session # 0 /\ task[t].session = currentSession

\* FinishGuard::drop, first test of is_current_dictation_session.
GuardTests(t) ==
  /\ At(t, "guard")
  /\ Move(t, IF IsCurrent(t) THEN "guardFinish" ELSE "guardNotify")
  /\ UNCHANGED <<queue, stage, pending, co, micVars, sessionVars, rec, timer, launched,
                 canc, uiVars, held, doomed, left>>

\* finish_dictation_session tests again, and then stores.
GuardTestsAgain(t) ==
  /\ At(t, "guardFinish")
  /\ Move(t, IF IsCurrent(t) THEN "guardStore" ELSE "guardPaint")
  /\ UNCHANGED <<queue, stage, pending, co, micVars, sessionVars, rec, timer, launched,
                 canc, uiVars, held, doomed, left>>

GuardStores(t) ==
  /\ At(t, "guardStore")
  /\ pipelineActive' = FALSE
  /\ Move(t, "guardPaint")
  /\ UNCHANGED <<queue, stage, pending, co, micVars, currentSession, cancelledThrough,
                 rec, timer, launched, canc, uiVars, held, doomed, left>>

GuardPaints(t) ==
  /\ At(t, "guardPaint")
  /\ EscKeyIfActive(pipelineActive)
  /\ tray' = {}
  /\ Move(t, "guardNotify")
  /\ UNCHANGED <<queue, stage, pending, co, micVars, sessionVars, rec, timer, launched,
                 canc, overlay, notices, held, doomed, left>>

GuardNotifies(t) ==
  /\ At(t, "guardNotify")
  /\ Send([type |-> "ProcessingFinished", session |-> task[t].session])
  /\ Move(t, "done")
  /\ UNCHANGED <<stage, pending, co, micVars, sessionVars, rec, timer, launched, canc,
                 uiVars, held, doomed, left>>
-----------------------------------------------------------------------------
(***************************************************************************)
(* cancel_current_operation, from Escape, the overlay's X, the no-speech   *)
(* watchdog or the command line, each on a thread of its own.              *)
(***************************************************************************)
CancAt(c, point) == canc[c].at = point
CancGoto(c, point) == canc' = [canc EXCEPT ![c].at = point]

CancelBegins(c) ==
  /\ CancAt(c, "idle")
  /\ Spend("cancel")
  /\ canc' = [canc EXCEPT ![c] = [at |-> "swap", wasRecording |-> IsRecording,
                                  through |-> 0]]
  /\ UNCHANGED <<queue, stage, pending, co, micVars, sessionVars, rec, timer, taskVars,
                 uiVars, held, doomed>>

\* cancel_current_dictation_session: the swap decides whether a session is
\* cancelled; without one only a running recorder is.
CancelSwaps(c) ==
  /\ CancAt(c, "swap")
  /\ CancGoto(c, IF pipelineActive THEN "mark"
                 ELSE IF canc[c].wasRecording THEN "abort" ELSE "nothing")
  /\ pipelineActive' = FALSE
  /\ UNCHANGED <<queue, stage, pending, co, micVars, currentSession, cancelledThrough,
                 rec, timer, taskVars, uiVars, held, doomed, left>>

CancelsNothing(c) ==
  /\ CancAt(c, "nothing")
  /\ tray' = {}
  /\ EscKeyIfActive(pipelineActive)
  /\ CancGoto(c, "idle")
  /\ UNCHANGED <<queue, stage, pending, co, micVars, sessionVars, rec, timer, taskVars,
                 overlay, notices, held, doomed, left>>

\* The text of a task leaves it in "deliver": cancelling later is too late.
Released(t) == task[t].phase = "deliver" \/ task[t].pasted

Unreleased(through) ==
  {s \in 1 .. through : \A t \in TaskIds : task[t].session = s => ~Released(t)}

\* The high-water mark covers every session up to the current one.  (Its load
\* and the fetch_max are one step: the current session only grows, and a session
\* begun in between is then simply not covered.)
CancelMarks(c) ==
  /\ CancAt(c, "mark")
  /\ cancelledThrough' = IF currentSession > cancelledThrough THEN currentSession
                         ELSE cancelledThrough
  /\ canc' = [canc EXCEPT ![c].at = "abort", ![c].through = currentSession]
  /\ doomed' = doomed \cup Unreleased(currentSession)
  /\ UNCHANGED <<queue, stage, pending, co, micVars, currentSession, pipelineActive,
                 rec, timer, taskVars, uiVars, held, left>>

\* The recorder is aborted; it may take seconds to close before the next step.
CancelAborts(c) ==
  /\ CancAt(c, "abort")
  /\ CancelRecording
  /\ CancGoto(c, "quiet")
  /\ UNCHANGED <<queue, stage, pending, co, micVars, sessionVars, timer, taskVars,
                 uiVars, held, doomed, left>>

CancelQuietsUi(c) ==
  /\ CancAt(c, "quiet")
  /\ tray' = {}
  /\ overlay' = FALSE
  /\ CancGoto(c, "notify")
  /\ UNCHANGED <<queue, stage, pending, co, micVars, sessionVars, rec, timer, taskVars,
                 notices, escKey, held, doomed, left>>

\* notify_cancel
CancelNotifies(c) ==
  /\ CancAt(c, "notify")
  /\ Send([type |-> "Cancel", wasRecording |-> canc[c].wasRecording,
           through |-> canc[c].through])
  /\ CancGoto(c, "epilogue")
  /\ UNCHANGED <<stage, pending, co, micVars, sessionVars, rec, timer, taskVars, uiVars,
                 held, doomed, left>>

\* The key is released; Escape and the X also broadcast stt:session-aborted,
\* which repaints the tray.
CancelEnds(c) ==
  /\ CancAt(c, "epilogue")
  /\ EscKeyIfActive(pipelineActive)
  /\ tray' \in {tray, {}}
  /\ canc' = [canc EXCEPT ![c] = [at |-> "idle", wasRecording |-> FALSE, through |-> 0]]
  /\ UNCHANGED <<queue, stage, pending, co, micVars, sessionVars, rec, timer, taskVars,
                 overlay, notices, held, doomed, left>>
-----------------------------------------------------------------------------
(***************************************************************************)
(* The environment: the keyboard, the silence timer, the renderer's        *)
(* clear_audio_queue, a change of the recording mode.                      *)
(***************************************************************************)
Input(pressed, ptt) == Send([type |-> "Input", pressed |-> pressed, ptt |-> ptt])

KeyDown ==
  /\ "ptt" \in Modes /\ ~held
  /\ Spend("input")
  /\ held' = TRUE
  /\ Input(TRUE, TRUE)
  /\ UNCHANGED <<stage, pending, co, micVars, sessionVars, rec, timer, taskVars, canc,
                 uiVars, doomed>>

KeyUp ==
  /\ held
  /\ held' = FALSE
  /\ Input(FALSE, TRUE)
  /\ UNCHANGED <<stage, pending, co, micVars, sessionVars, rec, timer, taskVars, canc,
                 uiVars, doomed, left>>

\* The keyboard repeats a press or synthesizes a release while the key is held;
\* the release watchdog duplicates a release.
KeyEcho ==
  /\ "ptt" \in Modes
  /\ Spend("echo")
  /\ \E pressed \in BOOLEAN : (pressed => held) /\ Input(pressed, TRUE)
  /\ UNCHANGED <<stage, pending, co, micVars, sessionVars, rec, timer, taskVars, canc,
                 uiVars, held, doomed>>

TogglePress ==
  /\ "toggle" \in Modes
  /\ Spend("input")
  /\ Input(TRUE, FALSE)
  /\ UNCHANGED <<stage, pending, co, micVars, sessionVars, rec, timer, taskVars, canc,
                 uiVars, held, doomed>>

\* schedule_toggle_silence_stop after its sleep: the checks, then the send.
SilenceCheck ==
  /\ "toggle" \in Modes
  /\ timer = 0 /\ IsRecording
  /\ Spend("timer")
  /\ timer' = rec.gen
  /\ UNCHANGED <<queue, stage, pending, co, micVars, sessionVars, rec, taskVars, canc,
                 uiVars, held, doomed>>

SilenceFires ==
  /\ timer # 0
  /\ Send([type |-> "SilenceStop", gen |-> timer])
  /\ timer' = 0
  /\ UNCHANGED <<stage, pending, co, micVars, sessionVars, rec, taskVars, canc, uiVars,
                 held, doomed, left>>

ClearAudioQueue ==
  /\ Spend("clear")
  /\ CancelRecording
  /\ UNCHANGED <<queue, stage, pending, co, micVars, sessionVars, timer, taskVars, canc,
                 uiVars, held, doomed>>

ModeChange ==
  /\ Spend("mode")
  /\ Send([type |-> "FinalizeRecordingModeChange"])
  /\ UNCHANGED <<stage, pending, co, micVars, sessionVars, rec, timer, taskVars, canc,
                 uiVars, held, doomed>>
-----------------------------------------------------------------------------
(***************************************************************************)
(* The specification.                                                      *)
(***************************************************************************)
HandleInput ==
  PressCancelsRelease \/ ReleaseDeferred \/ ReleaseIgnored \/ PressDebounced \/ PressHandled

HandleCommand ==
  \/ HandleInput \/ HandleCancel \/ HandleSilenceStop
  \/ HandleProcessingFinished \/ HandleRecordingModeChange

Starting ==
  \/ StartRefused \/ BeginSession \/ ActivateSession \/ StartOffline \/ SpawnMicThread
  \/ ShowStartUi \/ JoinCancelled \/ JoinLive \/ JoinFailed \/ AnnounceRecording
  \/ FinishStart

Stopping == StopRecorder \/ CaptureTaken \/ LaunchTask

CoordinatorStep == HandleCommand \/ ExpirePendingRelease \/ Starting \/ Stopping

MicStep == MicOpens \/ MicFails

DetachedMicStep == DetachedMicOpens \/ DetachedMicFails

TaskStep(t) ==
  \/ TaskBegun(t) \/ TaskAnnounces(t) \/ TaskChecksStart(t) \/ TaskDecodes(t)
  \/ TaskChecksDecode(t) \/ TaskShowsPill(t) \/ TaskChecksShow(t)
  \/ TaskPostProcesses(t) \/ TaskChecksPost(t) \/ TaskDelivers(t) \/ TaskTerminates(t)
  \/ GuardTests(t) \/ GuardTestsAgain(t) \/ GuardStores(t) \/ GuardPaints(t)
  \/ GuardNotifies(t)

CancellerStep(c) ==
  \/ CancelSwaps(c) \/ CancelsNothing(c) \/ CancelMarks(c) \/ CancelAborts(c)
  \/ CancelQuietsUi(c) \/ CancelNotifies(c) \/ CancelEnds(c)

Environment ==
  \/ KeyDown \/ KeyUp \/ KeyEcho \/ TogglePress \/ SilenceCheck \/ ClearAudioQueue
  \/ ModeChange \/ (\E c \in Cancellers : CancelBegins(c))

Panic == CoordinatorPanics \/ StartPanics \/ (\E t \in TaskIds : TaskPanics(t))

Next ==
  \/ CoordinatorStep \/ MicStep \/ DetachedMicStep \/ OfflineNoticeHide \/ SilenceFires
  \/ (\E t \in TaskIds : TaskStep(t))
  \/ (\E c \in Cancellers : CancellerStep(c))
  \/ Environment \/ Panic

Spec == Init /\ [][Next]_vars

\* Every thread runs, the microphone opens or fails, and a decode or a clean-up
\* returns.  The user, the timers and the panics owe nothing.
FairSpec ==
  /\ Spec
  /\ WF_vars(CoordinatorStep)
  /\ WF_vars(MicStep)
  /\ WF_vars(DetachedMicStep)
  /\ \A t \in TaskIds : WF_vars(TaskStep(t))
  /\ \A c \in Cancellers : WF_vars(CancellerStep(c))
-----------------------------------------------------------------------------
(***************************************************************************)
(* Properties.                                                             *)
(***************************************************************************)

\* A session whose cancellation was marked before its text was released never
\* releases it, however late its decode or clean-up returns: the cancellation
\* points of the pipeline task (cancelled_session_cleanup).
NoOutputAfterCancel ==
  \A t \in TaskIds : task[t].session \in doomed => ~Released(t)

\* Sessions whose text has left, and those whose text is on its way out.
TextsOut     == {task[t].session : t \in {u \in TaskIds : task[u].pasted}}
TextsLeaving == {task[t].session : t \in {u \in TaskIds : task[u].phase = "deliver"}}

Promise ==
  INSTANCE DictationPromise WITH newest <- currentSession, withheld <- doomed,
                                 leaving <- TextsLeaving, released <- TextsOut

\* The dictation keeps what DictationPromise promises: whatever the coordinator,
\* the tasks, the cancelling threads and the panics do, each of their steps is a
\* step of the promise or leaves it alone.  So a cancelled session stays silent,
\* and no session, however often it is stopped, releases its text twice.  (Unless a
\* start() panicked with its microphone thread out: a capture begun by nobody's start
\* may be stopped again for the session at hand.)
KeepsPromise == Promise!Spec

Life == INSTANCE TakeLife WITH state <- rec.state, generation <- rec.gen,
                               stopping <- co.at = "capture"

\* The coordinator, the microphone thread, the cancelling threads and the renderer's
\* clear use the recorder as TakeLife says: no capture is begun over another one or
\* handed over twice, and none that was stopped or discarded comes back.
KeepsTakeLife == Life!Spec

CancelInFlight == \E c \in Cancellers : canc[c].at # "idle"

AtRest ==
  /\ queue = << >> /\ co.at = "loop" /\ detached = 0 /\ stage.kind = "Idle" /\ ~HasRelease
  /\ rec.state = "Idle" /\ notices = 0 /\ ~CancelInFlight
  /\ \A t \in TaskIds : task[t].phase \in {"free", "done"}

\* When every thread is idle and nothing records, the tray is not left animating:
\* each way out of start(), of the task, of the cancel path and of the recovery
\* repaints it (change_tray_icon and on_tray_idle).
TrayComesHome == AtRest => tray = {}

\* Likewise the pill is not left on the screen (hide_recording_overlay).
PillComesDown == AtRest => ~overlay

\* A deferred release or a silence timer that was armed for one take never stops
\* another one: pending_release_matches_recording and the generation test of
\* SilenceStop.  The coordinator begins no take between the test and the stop; the
\* microphone thread of a start() that panicked may.
StaleTriggerNeverStops ==
  [][rec.state = "Recording" /\ rec'.state = "Stopping" /\ co.stopFor # 0
       => rec.gen = co.stopFor]_vars

\* The stage Processing is never orphaned: a task of that session is under way or
\* its ProcessingFinished is in the channel, whatever cancels, panics and
\* recoveries happened meanwhile.  Otherwise the hotkey would be dead.
ProcessingHasOwner ==
  stage.kind = "Processing" =>
    \/ \E t \in TaskIds : /\ task[t].session = stage.session
                          /\ task[t].phase \notin {"free", "done"}
    \/ \E i \in DOMAIN queue :
         queue[i] = [type |-> "ProcessingFinished", session |-> stage.session]

\* A finished cancellation has taken effect: once no canceller is under way and
\* the coordinator is idle, the cancelled session neither records nor holds the
\* stage.  The hard case is a cancel that lands while the microphone opens: the join
\* discards that capture, so the property is lost when start() panics before it.
CancelNeverLost ==
  queue = << >> /\ co.at = "loop" /\ ~CancelInFlight /\ Cancelled(currentSession)
    => stage.kind = "Idle" /\ ~IsRecording

\* A take that records, or whose task still works, can be cancelled: Escape is
\* requested and cancel_current_dictation_session would return its session.
BusyIsCancellable ==
  \/ stage.kind = "Recording" /\ IsRecording
  \/ stage.kind = "Processing" /\ \E t \in TaskIds : /\ task[t].session = stage.session
                                                      /\ task[t].phase \in WorkPhases
  => pipelineActive /\ escKey

\* The microphone never captures for a stage that does not know it: a recorder
\* that is Recording while the coordinator waits belongs to the stage Recording
\* (the struct comment of TranscriptionCoordinator).
NoOrphanCapture == co.at = "loop" /\ IsRecording => stage.kind = "Recording"

\* A push-to-talk key that is up stops the capture: no order of presses, releases,
\* repeats, debouncing and grace period leaves the microphone running.
ReleaseStopsCapture == ~held ~> (~IsRecording \/ held)

\* The stage Processing is always left, so the hotkey comes back.
ProcessingEnds == stage.kind = "Processing" ~> stage.kind # "Processing"
=============================================================================
