------------------------ MODULE DictationStageProofs ------------------------
(***************************************************************************)
(* What the coordinator's stage and its deferred triggers guarantee: the   *)
(* stage Processing always has an owner that will end it, a trigger armed  *)
(* for one take never stops another one, and a cancel that has finished    *)
(* has taken effect.  And who owns what a dictation shows and uses: the    *)
(* capture, the tray, the pill, the flag and key that can cancel it, and   *)
(* the release that stops it.  The recorder is used as TakeLife says.      *)
(***************************************************************************)
EXTENDS DictationCoordinatorProofs

-----------------------------------------------------------------------------
(***************************************************************************)
(* Processing has an owner.  The property is inductive given the types.    *)
(***************************************************************************)
Working(t, s) == task[t].session = s /\ task[t].phase \notin {"free", "done"}
Reported(s) ==
  \E i \in DOMAIN queue : queue[i] = [type |-> "ProcessingFinished", session |-> s]

Owned(s) == (\E t \in TaskIds : Working(t, s)) \/ Reported(s)

LEMMA OwnedMeans ==
  ProcessingHasOwner <=> (stage.kind = "Processing" => Owned(stage.session))
BY DEF ProcessingHasOwner, Owned, Working, Reported

\* A step that keeps the tasks and loses no message.
LEMMA OwnerFrame ==
  ASSUME ProcessingHasOwner, UNCHANGED task,
         stage' = stage \/ stage'.kind # "Processing",
         \A s : Reported(s) => Reported(s)'
  PROVE  ProcessingHasOwner'
BY OwnedMeans DEF ProcessingHasOwner, Owned, Working, Reported

LEMMA SendKeeps ==
  ASSUME TypeOK, NEW m, Send(m), NEW s, Reported(s)
  PROVE  Reported(s)'
<1>1. PICK i \in DOMAIN queue : queue[i] = [type |-> "ProcessingFinished", session |-> s]
  BY DEF Reported
<1>2. i \in DOMAIN queue' /\ queue'[i] = queue[i]
  BY DEF TypeOK, Send
<1> QED BY <1>1, <1>2 DEF Reported

\* Receiving a command loses no report but the one received.
LEMMA ReceiveKeeps ==
  ASSUME TypeOK, NEW type, Receive(type), NEW s, Reported(s)
  PROVE  \/ Reported(s)'
         \/ Head(queue) = [type |-> "ProcessingFinished", session |-> s]
<1>1. PICK i \in DOMAIN queue : queue[i] = [type |-> "ProcessingFinished", session |-> s]
  BY DEF Reported
<1>2. CASE i = 1
  BY <1>1, <1>2 DEF Receive, TypeOK
<1>3. CASE i # 1
  <2>1. i - 1 \in DOMAIN queue' /\ queue'[i - 1] = queue[i]
    BY <1>1, <1>3 DEF Receive, TypeOK
  <2> QED BY <1>1, <2>1 DEF Reported
<1> QED BY <1>2, <1>3

\* The step of a task that goes on, or whose guard does.
LEMMA OwnerMove ==
  ASSUME TypeOK, ProcessingHasOwner, NEW t \in TaskIds, NEW phase,
         phase \notin {"free", "done"}, Move(t, phase), UNCHANGED <<stage, queue>>
  PROVE  ProcessingHasOwner'
<1>1. \A s : \A u \in TaskIds : Working(u, s) => Working(u, s)'
  BY DEF TypeOK, Move, Task, Working
<1>2. \A s : Reported(s) => Reported(s)'
  BY DEF Reported
<1> QED BY <1>1, <1>2, OwnedMeans DEF ProcessingHasOwner, Owned, Working, Reported

LEMMA OwnerCommand ==
  TypeOK /\ ProcessingHasOwner /\ (HandleCommand \/ ExpirePendingRelease)
    => ProcessingHasOwner'
<1> SUFFICES ASSUME TypeOK, ProcessingHasOwner, HandleCommand \/ ExpirePendingRelease
             PROVE  ProcessingHasOwner'
  OBVIOUS
<1> USE DEF micVars, sessionVars, taskVars, uiVars
<1>1. CASE HandleProcessingFinished
  <2>1. UNCHANGED task /\ Receive("ProcessingFinished")
    BY <1>1 DEF HandleProcessingFinished
  <2>2. CASE stage = [kind |-> "Processing", session |-> Head(queue).session]
    <3>1. stage'.kind # "Processing"
      BY <1>1, <2>2 DEF HandleProcessingFinished, IdleStage
    <3> QED BY <3>1 DEF ProcessingHasOwner
  <2>3. CASE stage # [kind |-> "Processing", session |-> Head(queue).session]
    <3>1. stage' = stage
      BY <1>1, <2>3 DEF HandleProcessingFinished
    <3>2. SUFFICES ASSUME stage.kind = "Processing"
                   PROVE  Owned(stage.session)'
      BY <3>1, OwnedMeans DEF ProcessingHasOwner, Owned, Working, Reported
    <3>3. Head(queue) # [type |-> "ProcessingFinished", session |-> stage.session]
      BY <2>3, <3>2 DEF TypeOK, Stage
    <3>4. Reported(stage.session) => Reported(stage.session)'
      <4>1. ASSUME NEW s, s = stage.session, Reported(s) PROVE Reported(s)'
        BY <2>1, <3>3, <4>1, ReceiveKeeps
      <4> QED BY <3>1, <4>1 DEF Reported
    <3>5. Owned(stage.session)
      BY <3>2, OwnedMeans
    <3> QED BY <2>1, <3>1, <3>4, <3>5 DEF Owned, Working
  <2> QED BY <2>2, <2>3
<1>2. CASE ~HandleProcessingFinished
  <2>1. /\ UNCHANGED task
        /\ stage' = stage \/ stage'.kind # "Processing"
    BY <1>2 DEF HandleCommand, HandleInput, PressCancelsRelease, ReleaseDeferred,
       ReleaseIgnored, PressDebounced, PressHandled, HandleCancel, HandleSilenceStop,
       HandleRecordingModeChange, ExpirePendingRelease, IdleStage
  <2>2. \/ UNCHANGED queue
        \/ \E type : type # "ProcessingFinished" /\ Receive(type)
    BY <1>2 DEF HandleCommand, HandleInput, PressCancelsRelease, ReleaseDeferred,
       ReleaseIgnored, PressDebounced, PressHandled, HandleCancel, HandleSilenceStop,
       HandleRecordingModeChange, ExpirePendingRelease
  <2>3. \A s : Reported(s) => Reported(s)'
    <3>1. CASE UNCHANGED queue
      BY <3>1 DEF Reported
    <3>2. CASE \E type : type # "ProcessingFinished" /\ Receive(type)
      <4>1. PICK type : type # "ProcessingFinished" /\ Receive(type)
        BY <3>2
      <4>2. Head(queue).type # "ProcessingFinished"
        BY <4>1 DEF Receive
      <4> QED BY <4>1, <4>2, ReceiveKeeps
    <3> QED BY <2>2, <3>1, <3>2
  <2> QED BY <2>1, <2>3, OwnerFrame
<1> QED BY <1>1, <1>2

LEMMA OwnerStartStop ==
  TypeOK /\ ProcessingHasOwner /\ (Starting \/ Stopping) => ProcessingHasOwner'
<1> SUFFICES ASSUME TypeOK, ProcessingHasOwner, Starting \/ Stopping
             PROVE  ProcessingHasOwner'
  OBVIOUS
<1> USE DEF micVars, sessionVars, taskVars, uiVars
<1>1. CASE LaunchTask
  <2>1. launched + 1 \in TaskIds
    BY <1>1, TasksAssumption DEF TypeOK, LaunchTask, TaskIds
  <2>2. /\ task'[launched + 1].session = currentSession
        /\ task'[launched + 1].phase = "begun"
        /\ stage'.session = currentSession
    BY <1>1, <2>1 DEF TypeOK, LaunchTask
  <2> QED BY <2>1, <2>2 DEF ProcessingHasOwner
<1>2. CASE FinishStart
  <2>1. UNCHANGED <<task, queue>>
    BY <1>2 DEF FinishStart
  <2>2. stage' = stage \/ stage'.kind # "Processing"
    BY <1>2 DEF FinishStart
  <2> QED BY <2>1, <2>2, OwnerFrame DEF Reported
<1>3. CASE ~LaunchTask /\ ~FinishStart
  <2>1. UNCHANGED <<task, queue, stage>>
    BY <1>3 DEF Starting, StartRefused, BeginSession, ActivateSession, StartOffline,
       SpawnMicThread, ShowStartUi, JoinCancelled, JoinLive, JoinFailed,
       AnnounceRecording, Stopping, StopRecorder, CaptureTaken
  <2> QED BY <2>1, OwnerFrame DEF Reported
<1> QED BY <1>1, <1>2, <1>3

LEMMA OwnerTask ==
  ASSUME TypeOK, ProcessingHasOwner, NEW t \in TaskIds, TaskStep(t) \/ TaskPanics(t)
  PROVE  ProcessingHasOwner'
<1> USE DEF micVars, sessionVars, taskVars, uiVars
<1>1. CASE GuardNotifies(t)
  <2>1. stage' = stage
    BY <1>1 DEF GuardNotifies
  <2>2. \A s : \A u \in TaskIds : u # t /\ Working(u, s) => Working(u, s)'
    BY <1>1 DEF TypeOK, GuardNotifies, Move, Working
  <2>3. Reported(task[t].session)'
    <3>1. /\ Len(queue) + 1 \in DOMAIN queue'
          /\ queue'[Len(queue) + 1] =
               [type |-> "ProcessingFinished", session |-> task[t].session]
      BY <1>1 DEF TypeOK, GuardNotifies, Send
    <3>2. \E i \in DOMAIN queue' :
            queue'[i] = [type |-> "ProcessingFinished", session |-> task[t].session]
      BY <3>1
    <3>3. task'[t].session = task[t].session
      BY <1>1 DEF TypeOK, GuardNotifies, Move, Task
    <3> QED BY <3>2, <3>3 DEF Reported
  <2>4. \A s : Reported(s) => Reported(s)'
    BY <1>1, SendKeeps DEF GuardNotifies
  <2>5. SUFFICES ASSUME stage.kind = "Processing"
                 PROVE  Owned(stage.session)'
    BY <2>1, OwnedMeans DEF ProcessingHasOwner, Owned, Working, Reported
  <2>6. Owned(stage.session)
    BY <2>5, OwnedMeans
  <2>7. task'[t].session = task[t].session
    BY <1>1 DEF TypeOK, GuardNotifies, Move, Task
  <2> QED BY <2>1, <2>2, <2>3, <2>4, <2>6, <2>7 DEF Owned, Working, Reported
<1>2. CASE TaskDelivers(t)
  <2>1. PICK text \in BOOLEAN :
          task' = [task EXCEPT ![t].phase = "guard", ![t].pasted = text]
    BY <1>2 DEF TaskDelivers
  <2>2. task' = [task EXCEPT ![t] = [task[t] EXCEPT !.phase = "guard", !.pasted = text]]
    BY <2>1, Zenon
  <2>3. \A s : \A u \in TaskIds : Working(u, s) => Working(u, s)'
    BY <2>2 DEF TypeOK, Task, Working
  <2>4. UNCHANGED <<stage, queue>>
    BY <1>2 DEF TaskDelivers
  <2> QED BY <2>3, <2>4 DEF ProcessingHasOwner, Working
<1>3. CASE ~GuardNotifies(t) /\ ~TaskDelivers(t)
  <2>1. UNCHANGED <<stage, queue>>
    BY <1>3 DEF TaskStep, TaskBegun, TaskAnnounces, TaskChecksStart, TaskDecodes,
       TaskChecksDecode, TaskShowsPill, TaskChecksShow, TaskPostProcesses, TaskChecksPost,
       TaskTerminates, GuardTests, GuardTestsAgain, GuardStores, GuardPaints, TaskPanics
  <2>2. \E phase : phase \notin {"free", "done"} /\ Move(t, phase)
    BY <1>3 DEF TaskStep, TaskBegun, TaskAnnounces, TaskChecksStart, TaskDecodes,
       TaskChecksDecode, TaskShowsPill, TaskChecksShow, TaskPostProcesses, TaskChecksPost,
       TaskTerminates, GuardTests, GuardTestsAgain, GuardStores, GuardPaints, TaskPanics,
       CleanedUp, Passes
  <2> QED BY <2>1, <2>2, OwnerMove
<1> QED BY <1>1, <1>2, <1>3

\* A step that keeps the tasks and the stage, and at most sends a command.
LEMMA OwnerSend ==
  ASSUME TypeOK, ProcessingHasOwner, UNCHANGED <<task, stage>>,
         UNCHANGED queue \/ \E m : Send(m)
  PROVE  ProcessingHasOwner'
<1>1. \A s : Reported(s) => Reported(s)'
  BY SendKeeps DEF Reported
<1> QED BY <1>1, OwnerFrame

LEMMA OwnerNext == TypeOK /\ ProcessingHasOwner /\ [Next]_vars => ProcessingHasOwner'
<1> SUFFICES ASSUME TypeOK, ProcessingHasOwner, [Next]_vars PROVE ProcessingHasOwner'
  OBVIOUS
<1> USE DEF micVars, sessionVars, taskVars, uiVars
<1>1. CASE CoordinatorStep
  BY <1>1, OwnerCommand, OwnerStartStop DEF CoordinatorStep
<1>2. CASE MicStep \/ DetachedMicStep \/ OfflineNoticeHide \/ SilenceFires
  <2>1. UNCHANGED <<task, stage>> /\ (UNCHANGED queue \/ \E m : Send(m))
    BY <1>2 DEF MicStep, MicOpens, MicFails, DetachedMicStep, DetachedMicOpens,
       DetachedMicFails, OfflineNoticeHide, SilenceFires
  <2> QED BY <2>1, OwnerSend
<1>3. CASE \E t \in TaskIds : TaskStep(t)
  BY <1>3, OwnerTask
<1>4. CASE \E c \in Cancellers : CancellerStep(c)
  <2>1. UNCHANGED <<task, stage>> /\ (UNCHANGED queue \/ \E m : Send(m))
    BY <1>4 DEF CancellerStep, CancelSwaps, CancelsNothing, CancelMarks, CancelAborts,
       CancelQuietsUi, CancelNotifies, CancelEnds
  <2> QED BY <2>1, OwnerSend
<1>5. CASE Environment
  <2>1. UNCHANGED <<task, stage>> /\ (UNCHANGED queue \/ \E m : Send(m))
    BY <1>5 DEF Environment, KeyDown, KeyUp, KeyEcho, TogglePress, SilenceCheck,
       ClearAudioQueue, ModeChange, CancelBegins, Input
  <2> QED BY <2>1, OwnerSend
<1>6. CASE CoordinatorPanics \/ StartPanics
  <2>1. stage' = IdleStage
    BY <1>6 DEF CoordinatorPanics, StartPanics
  <2> QED BY <2>1 DEF IdleStage, ProcessingHasOwner
<1>7. CASE \E t \in TaskIds : TaskPanics(t)
  BY <1>7, OwnerTask
<1>8. CASE UNCHANGED vars
  BY <1>8, OwnerSend DEF vars
<1> QED BY <1>1, <1>2, <1>3, <1>4, <1>5, <1>6, <1>7, <1>8 DEF Next, Panic

LEMMA OwnerInit == Init => ProcessingHasOwner
BY DEF Init, IdleStage, ProcessingHasOwner

\* The stage Processing is never orphaned: the guard of its task still has to run or
\* has reported, whatever cancels, recoveries and contained panics intervene
\* (FinishGuard and its Drop).
THEOREM ProcessingIsOwned == Spec => []ProcessingHasOwner
BY TypeCorrect, OwnerInit, OwnerNext, PTL DEF Spec
-----------------------------------------------------------------------------
(***************************************************************************)
(* Stale triggers.  A stop on behalf of a trigger is under way only for    *)
(* the take it was armed for, and no new take can begin meanwhile, since   *)
(* start() joins the microphone thread before the coordinator goes on.     *)
(***************************************************************************)
TriggerInv ==
  /\ mic # "none" => co.at \in {"ui", "join"}
  /\ co.at = "stop" /\ co.stopFor # 0 => rec.gen = co.stopFor

LEMMA TriggerFrame ==
  ASSUME TriggerInv, UNCHANGED <<mic, co>>, rec'.gen = rec.gen
  PROVE  TriggerInv'
BY DEF TriggerInv

LEMMA CancelKeepsGen ==
  ASSUME TypeOK, CancelRecording
  PROVE  rec'.gen = rec.gen
BY DEF TypeOK, CancelRecording, Recorder

LEMMA TriggerCommand ==
  TypeOK /\ TriggerInv /\ (HandleCommand \/ ExpirePendingRelease) => TriggerInv'
<1> SUFFICES ASSUME TypeOK, TriggerInv, HandleCommand \/ ExpirePendingRelease
             PROVE  TriggerInv'
  OBVIOUS
<1> USE DEF micVars, sessionVars, taskVars, uiVars
<1>1. co.at = "loop" /\ UNCHANGED <<mic, rec>>
  BY DEF HandleCommand, HandleInput, PressCancelsRelease, ReleaseDeferred,
     ReleaseIgnored, PressDebounced, PressHandled, HandleCancel, HandleSilenceStop,
     HandleProcessingFinished, HandleRecordingModeChange, ExpirePendingRelease, Receive
<1>2. mic = "none"
  BY <1>1 DEF TriggerInv
<1>3. \/ UNCHANGED co
      \/ co' = [co EXCEPT !.at = "start"]
      \/ co' = [co EXCEPT !.at = "stop", !.stopFor = 0]
      \/ \E g : g = rec.gen /\ co' = [co EXCEPT !.at = "stop", !.stopFor = g]
  <2>1. CASE PressHandled
    BY <2>1 DEF PressHandled
  <2>2. CASE HandleSilenceStop
    BY <2>2 DEF HandleSilenceStop
  <2>3. CASE HandleRecordingModeChange
    BY <2>3 DEF HandleRecordingModeChange
  <2>4. CASE ExpirePendingRelease
    BY <2>4 DEF ExpirePendingRelease, ReleaseMatchesRecording
  <2>5. CASE ~PressHandled /\ ~HandleSilenceStop /\ ~HandleRecordingModeChange
             /\ ~ExpirePendingRelease
    BY <2>5 DEF HandleCommand, HandleInput, PressCancelsRelease, ReleaseDeferred,
       ReleaseIgnored, PressDebounced, HandleCancel, HandleProcessingFinished
  <2> QED BY <2>1, <2>2, <2>3, <2>4, <2>5
<1>4. co'.at = "stop" => co'.stopFor \in {0, rec.gen}
  BY <1>1, <1>3 DEF TypeOK, Coordinator
<1> QED BY <1>1, <1>2, <1>4 DEF TriggerInv

LEMMA TriggerStartStop ==
  TypeOK /\ TriggerInv /\ (Starting \/ Stopping) => TriggerInv'
<1> SUFFICES ASSUME TypeOK, TriggerInv, Starting \/ Stopping PROVE TriggerInv'
  OBVIOUS
<1> USE DEF micVars, sessionVars, taskVars, uiVars
<1>1. mic' # "none" => co'.at \in {"ui", "join"}
  <2>1. CASE SpawnMicThread
    BY <2>1 DEF TypeOK, Coordinator, SpawnMicThread, Goto
  <2>2. CASE ShowStartUi
    BY <2>2 DEF TypeOK, Coordinator, ShowStartUi, Goto
  <2>3. CASE JoinCancelled \/ JoinLive \/ JoinFailed
    BY <2>3 DEF JoinCancelled, JoinLive, JoinFailed
  <2>4. CASE ~SpawnMicThread /\ ~ShowStartUi /\ ~JoinCancelled /\ ~JoinLive /\ ~JoinFailed
    <3>1. UNCHANGED mic /\ co.at \notin {"ui", "join"}
      BY <2>4 DEF Starting, StartRefused, BeginSession, ActivateSession, StartOffline,
         AnnounceRecording, FinishStart, Stopping, StopRecorder, CaptureTaken, LaunchTask
    <3> QED BY <3>1 DEF TriggerInv
  <2> QED BY <2>1, <2>2, <2>3, <2>4
<1>2. co'.at # "stop"
  <2>1. CASE Starting
    <3>1. \E point : point # "stop" /\ Goto(point)
      BY <2>1 DEF Starting, StartRefused, BeginSession, ActivateSession, StartOffline,
         SpawnMicThread, ShowStartUi, JoinCancelled, JoinLive, JoinFailed,
         AnnounceRecording, FinishStart
    <3> QED BY <3>1 DEF TypeOK, Coordinator, Goto
  <2>2. CASE StopRecorder
    <3>1. co'.at \in {"capture", "launch"}
      BY <2>2 DEF TypeOK, Coordinator, Goto, StopRecorder
    <3> QED BY <3>1
  <2>3. CASE CaptureTaken
    BY <2>3 DEF TypeOK, Coordinator, CaptureTaken
  <2>4. CASE LaunchTask
    BY <2>4 DEF LaunchTask
  <2> QED BY <2>1, <2>2, <2>3, <2>4 DEF Stopping
<1> QED BY <1>1, <1>2 DEF TriggerInv

LEMMA TriggerNext == TypeOK /\ NoneDetached /\ TriggerInv /\ [Next]_vars => TriggerInv'
<1> SUFFICES ASSUME TypeOK, NoneDetached, TriggerInv, [Next]_vars PROVE TriggerInv'
  OBVIOUS
<1> USE DEF micVars, sessionVars, taskVars, uiVars
<1>1. CASE CoordinatorStep
  BY <1>1, TriggerCommand, TriggerStartStop DEF CoordinatorStep
<1>2. CASE MicOpens
  <2>1. co.at \in {"ui", "join"} /\ UNCHANGED co
    BY <1>2 DEF TriggerInv, MicOpens
  <2> QED BY <2>1 DEF TriggerInv
<1>3. CASE MicFails
  BY <1>3 DEF TriggerInv, MicFails
<1>4. CASE OfflineNoticeHide \/ SilenceFires
  BY <1>4, TriggerFrame DEF OfflineNoticeHide, SilenceFires
<1>5. CASE \E t \in TaskIds : TaskStep(t) \/ TaskPanics(t)
  <2>1. UNCHANGED <<mic, co, rec>>
    BY <1>5 DEF TaskStep, TaskBegun, TaskAnnounces, TaskChecksStart, TaskDecodes,
       TaskChecksDecode, TaskShowsPill, TaskChecksShow, TaskPostProcesses, TaskChecksPost,
       TaskDelivers, TaskTerminates, GuardTests, GuardTestsAgain, GuardStores,
       GuardPaints, GuardNotifies, TaskPanics
  <2> QED BY <2>1, TriggerFrame
<1>6. CASE \E c \in Cancellers : CancellerStep(c) \/ CancelBegins(c)
  <2>1. UNCHANGED <<mic, co>> /\ (UNCHANGED rec \/ CancelRecording)
    BY <1>6 DEF CancellerStep, CancelBegins, CancelSwaps, CancelsNothing, CancelMarks,
       CancelAborts, CancelQuietsUi, CancelNotifies, CancelEnds
  <2> QED BY <2>1, CancelKeepsGen, TriggerFrame
<1>7. CASE KeyDown \/ KeyUp \/ KeyEcho \/ TogglePress \/ SilenceCheck \/ ClearAudioQueue
           \/ ModeChange
  <2>1. UNCHANGED <<mic, co>> /\ (UNCHANGED rec \/ CancelRecording)
    BY <1>7 DEF KeyDown, KeyUp, KeyEcho, TogglePress, SilenceCheck, ClearAudioQueue,
       ModeChange
  <2> QED BY <2>1, CancelKeepsGen, TriggerFrame
<1>8. CASE CoordinatorPanics
  BY <1>8 DEF TriggerInv, CoordinatorPanics
<1>9. CASE UNCHANGED vars
  BY <1>9, TriggerFrame DEF vars
<1> QED BY <1>1, <1>2, <1>3, <1>4, <1>5, <1>6, <1>7, <1>8, <1>9, NoneDetachedStep
        DEF Next, MicStep, Environment, Panic

LEMMA TriggerInit == Init => TriggerInv
BY DEF Init, TriggerInv

\* Only stop_recording goes from Recording to Stopping.
LEMMA OnlyStopRecorderStops ==
  ASSUME TypeOK, [Next]_vars, rec.state = "Recording", rec'.state = "Stopping"
  PROVE  co.at = "stop"
<1> USE DEF micVars, sessionVars, taskVars, uiVars
<1>1. rec' # rec /\ ~CancelRecording
  BY DEF TypeOK, Recorder, CancelRecording
<1>2. ~MicOpens /\ ~DetachedMicOpens /\ ~JoinCancelled /\ ~CaptureTaken
  BY <1>1 DEF MicOpens, DetachedMicOpens, JoinCancelled, CaptureTaken, TypeOK, Recorder
<1>3. CASE CoordinatorStep
  <2>1. StopRecorder
    BY <1>1, <1>2, <1>3 DEF CoordinatorStep, HandleCommand, HandleInput,
       PressCancelsRelease, ReleaseDeferred, ReleaseIgnored, PressDebounced, PressHandled,
       HandleCancel, HandleSilenceStop, HandleProcessingFinished,
       HandleRecordingModeChange, ExpirePendingRelease, Starting, StartRefused,
       BeginSession, ActivateSession, StartOffline, SpawnMicThread, ShowStartUi, JoinLive,
       JoinFailed, AnnounceRecording, FinishStart, Stopping, LaunchTask
  <2> QED BY <2>1 DEF StopRecorder
<1>4. CASE ~CoordinatorStep
  <2>1. UNCHANGED rec
    BY <1>1, <1>2, <1>4 DEF Next, MicStep, MicFails, DetachedMicStep, DetachedMicFails,
       StartPanics, OfflineNoticeHide, SilenceFires,
       TaskStep, TaskBegun, TaskAnnounces, TaskChecksStart, TaskDecodes,
       TaskChecksDecode, TaskShowsPill, TaskChecksShow, TaskPostProcesses, TaskChecksPost,
       TaskDelivers, TaskTerminates, GuardTests, GuardTestsAgain, GuardStores,
       GuardPaints, GuardNotifies, CancellerStep, CancelSwaps, CancelsNothing,
       CancelMarks, CancelAborts, CancelQuietsUi, CancelNotifies, CancelEnds,
       Environment, KeyDown, KeyUp, KeyEcho, TogglePress, SilenceCheck, ClearAudioQueue,
       ModeChange, CancelBegins, Panic, CoordinatorPanics, TaskPanics, vars
  <2> QED BY <1>1, <2>1
<1> QED BY <1>3, <1>4

\* A deferred release or a silence timer stops only the take it was armed for:
\* pending_release_matches_recording and the generation test of SilenceStop.  The
\* test is worth something because the microphone thread is joined before start()
\* returns; a start() that panics does not join it, hence the hypothesis.
THEOREM TriggersAreCurrent ==
  ASSUME NoStartPanics
  PROVE  Spec => StaleTriggerNeverStops
<1> DEFINE I == NoneDetached /\ TriggerInv
<1>1. TypeOK /\ I /\ [Next]_vars
        => (rec.state = "Recording" /\ rec'.state = "Stopping" /\ co.stopFor # 0
              => rec.gen = co.stopFor)
  BY OnlyStopRecorderStops DEF TriggerInv
<1>2. Init => I
  BY NoneDetachedInit, TriggerInit
<1>3. TypeOK /\ I /\ [Next]_vars => I'
  BY NoneDetachedNext, TriggerNext
<1> HIDE DEF I
<1> QED BY <1>1, <1>2, <1>3, TypeCorrect, PTL DEF Spec, StaleTriggerNeverStops
-----------------------------------------------------------------------------
(***************************************************************************)
(* The coordinator's recorder lives takes.  A take that is being stopped   *)
(* stays Stopping until stop_recording hands it over, because a cancel     *)
(* leaves it alone and no microphone thread is open while the coordinator  *)
(* stops; that is the invariant the refinement of TakeLife needs.          *)
(***************************************************************************)
StoppingInv == co.at = "capture" => rec.state = "Stopping"

\* A step that neither touches the recorder nor enters or leaves stop_recording.
LEMMA LifeStutters ==
  ASSUME StoppingInv, UNCHANGED rec, co.at # "capture", co'.at # "capture"
  PROVE  StoppingInv' /\ UNCHANGED Life!vars
<1>1. (co'.at = "capture") = (co.at = "capture")
  OBVIOUS
<1> QED BY <1>1 DEF StoppingInv, Life!vars

LEMMA LifeFrame ==
  ASSUME StoppingInv, UNCHANGED <<rec, co>>
  PROVE  StoppingInv' /\ UNCHANGED Life!vars
BY DEF StoppingInv, Life!vars

\* A cancel discards a take that records and leaves any other alone.
LEMMA LifeCancel ==
  ASSUME TypeOK, StoppingInv, CancelRecording,
         (co'.at = "capture") = (co.at = "capture")
  PROVE  StoppingInv' /\ [Life!Next]_(Life!vars)
<1>1. CASE IsRecording
  <2>1. rec.state = "Recording" /\ rec'.state = "Idle" /\ rec'.gen = rec.gen
    BY <1>1 DEF CancelRecording, IsRecording, TypeOK, Recorder
  <2>2. StoppingInv'
    BY <2>1 DEF StoppingInv
  <2>3. Life!Discard
    BY <2>1 DEF Life!Discard
  <2> QED BY <2>2, <2>3 DEF Life!Next
<1>2. CASE ~IsRecording
  <2>1. UNCHANGED rec
    BY <1>2 DEF CancelRecording
  <2> QED BY <2>1 DEF StoppingInv, Life!vars
<1> QED BY <1>1, <1>2

LEMMA LifeCommand ==
  ASSUME TypeOK, StoppingInv, HandleCommand \/ ExpirePendingRelease
  PROVE  StoppingInv' /\ UNCHANGED Life!vars
<1> USE DEF micVars, sessionVars, taskVars, uiVars
<1>1. co.at = "loop" /\ UNCHANGED rec
  BY DEF HandleCommand, HandleInput, PressCancelsRelease, ReleaseDeferred,
     ReleaseIgnored, PressDebounced, PressHandled, HandleCancel, HandleSilenceStop,
     HandleProcessingFinished, HandleRecordingModeChange, ExpirePendingRelease, Receive
<1>2. \/ UNCHANGED co
      \/ co' = [co EXCEPT !.at = "start"]
      \/ \E g : co' = [co EXCEPT !.at = "stop", !.stopFor = g]
  <2>1. CASE PressHandled
    BY <2>1 DEF PressHandled
  <2>2. CASE HandleSilenceStop
    BY <2>2 DEF HandleSilenceStop
  <2>3. CASE HandleRecordingModeChange
    BY <2>3 DEF HandleRecordingModeChange
  <2>4. CASE ExpirePendingRelease
    BY <2>4 DEF ExpirePendingRelease
  <2>5. CASE ~PressHandled /\ ~HandleSilenceStop /\ ~HandleRecordingModeChange
             /\ ~ExpirePendingRelease
    BY <2>5 DEF HandleCommand, HandleInput, PressCancelsRelease, ReleaseDeferred,
       ReleaseIgnored, PressDebounced, HandleCancel, HandleProcessingFinished
  <2> QED BY <2>1, <2>2, <2>3, <2>4, <2>5
<1>3. co'.at \in {"loop", "start", "stop"}
  BY <1>1, <1>2 DEF TypeOK, Coordinator
<1> QED BY <1>1, <1>3, LifeStutters

LEMMA LifeStarting ==
  ASSUME TypeOK, StoppingInv, Starting
  PROVE  StoppingInv' /\ [Life!Next]_(Life!vars)
<1> USE DEF micVars, sessionVars, taskVars, uiVars
<1>1. co.at # "capture" /\ \E point : point # "capture" /\ Goto(point)
  BY DEF Starting, StartRefused, BeginSession, ActivateSession, StartOffline,
     SpawnMicThread, ShowStartUi, JoinCancelled, JoinLive, JoinFailed,
     AnnounceRecording, FinishStart
<1>2. co'.at # "capture"
  BY <1>1 DEF TypeOK, Coordinator, Goto
<1>3. CASE JoinCancelled
  BY <1>1, <1>2, <1>3, LifeCancel DEF JoinCancelled
<1>4. CASE ~JoinCancelled
  <2>1. UNCHANGED rec
    BY <1>4 DEF Starting, StartRefused, BeginSession, ActivateSession, StartOffline,
       SpawnMicThread, ShowStartUi, JoinLive, JoinFailed, AnnounceRecording, FinishStart
  <2> QED BY <1>1, <1>2, <2>1, LifeStutters
<1> QED BY <1>3, <1>4

LEMMA LifeStopping ==
  ASSUME TypeOK, StoppingInv, Stopping
  PROVE  StoppingInv' /\ [Life!Next]_(Life!vars)
<1>1. CASE StopRecorder /\ IsRecording
  <2>1. /\ co.at = "stop" /\ co'.at = "capture"
        /\ rec.state = "Recording" /\ rec'.state = "Stopping" /\ rec'.gen = rec.gen
    BY <1>1 DEF StopRecorder, IsRecording, Goto, TypeOK, Recorder, Coordinator
  <2>2. StoppingInv'
    BY <2>1 DEF StoppingInv
  <2>3. Life!Claim
    BY <2>1 DEF Life!Claim
  <2> QED BY <2>2, <2>3 DEF Life!Next
<1>2. CASE StopRecorder /\ ~IsRecording
  <2>1. UNCHANGED rec /\ co.at # "capture" /\ co'.at # "capture"
    BY <1>2 DEF StopRecorder, TypeOK, Coordinator
  <2> QED BY <2>1, LifeStutters
<1>3. CASE CaptureTaken
  <2>1. /\ co.at = "capture" /\ co'.at = "launch"
        /\ rec'.state = "Idle" /\ rec'.gen = rec.gen
    BY <1>3 DEF CaptureTaken, TypeOK, Recorder, Coordinator
  <2>2. StoppingInv'
    BY <2>1 DEF StoppingInv
  <2>3. Life!Finish
    BY <2>1 DEF Life!Finish, StoppingInv
  <2> QED BY <2>2, <2>3 DEF Life!Next
<1>4. CASE LaunchTask
  <2>1. UNCHANGED rec /\ co.at # "capture" /\ co'.at # "capture"
    BY <1>4 DEF LaunchTask
  <2> QED BY <2>1, LifeStutters
<1> QED BY <1>1, <1>2, <1>3, <1>4 DEF Stopping

\* A panic in stop_recording leaves the take Stopping.
LEMMA LifePanics ==
  ASSUME StoppingInv, CoordinatorPanics
  PROVE  StoppingInv' /\ [Life!Next]_(Life!vars)
<1>1. UNCHANGED rec /\ co'.at = "loop"
  BY DEF CoordinatorPanics
<1>2. CASE co.at = "capture"
  <2>1. Life!Abort
    BY <1>1, <1>2 DEF Life!Abort
  <2> QED BY <1>1, <2>1 DEF Life!Next, StoppingInv
<1>3. CASE co.at # "capture"
  BY <1>1, <1>3, LifeStutters
<1> QED BY <1>2, <1>3

LEMMA LifeNext ==
  ASSUME TypeOK, StoppingInv, [Next]_vars
  PROVE  StoppingInv' /\ [Life!Next]_(Life!vars)
<1> USE DEF micVars, sessionVars, taskVars, uiVars
<1>1. CASE CoordinatorStep
  BY <1>1, LifeCommand, LifeStarting, LifeStopping DEF CoordinatorStep
<1>2. CASE MicOpens \/ DetachedMicOpens
  <2>1. /\ co.at # "capture" /\ co'.at # "capture"
        /\ rec.state = "Idle" /\ rec'.state = "Recording" /\ rec'.gen = rec.gen + 1
    BY <1>2 DEF StoppingInv, MicOpens, DetachedMicOpens
  <2>2. (co'.at = "capture") = (co.at = "capture")
    BY <2>1
  <2>3. Life!Begin
    BY <2>1, <2>2 DEF Life!Begin
  <2> QED BY <2>1, <2>3 DEF Life!Next, StoppingInv
<1>3. CASE MicFails \/ DetachedMicFails \/ OfflineNoticeHide \/ SilenceFires
  <2>1. UNCHANGED <<rec, co>>
    BY <1>3 DEF MicFails, DetachedMicFails, OfflineNoticeHide, SilenceFires
  <2> QED BY <2>1, LifeFrame
<1>4. CASE \E t \in TaskIds : TaskStep(t) \/ TaskPanics(t)
  <2>1. UNCHANGED <<co, rec>>
    BY <1>4 DEF TaskStep, TaskBegun, TaskAnnounces, TaskChecksStart, TaskDecodes,
       TaskChecksDecode, TaskShowsPill, TaskChecksShow, TaskPostProcesses, TaskChecksPost,
       TaskDelivers, TaskTerminates, GuardTests, GuardTestsAgain, GuardStores,
       GuardPaints, GuardNotifies, TaskPanics
  <2> QED BY <2>1, LifeFrame
<1>5. CASE \E c \in Cancellers : CancellerStep(c) \/ CancelBegins(c)
  <2>1. UNCHANGED co /\ (UNCHANGED rec \/ CancelRecording)
    BY <1>5 DEF CancellerStep, CancelBegins, CancelSwaps, CancelsNothing, CancelMarks,
       CancelAborts, CancelQuietsUi, CancelNotifies, CancelEnds
  <2> QED BY <2>1, LifeCancel, LifeFrame
<1>6. CASE KeyDown \/ KeyUp \/ KeyEcho \/ TogglePress \/ SilenceCheck \/ ClearAudioQueue
           \/ ModeChange
  <2>1. UNCHANGED co /\ (UNCHANGED rec \/ CancelRecording)
    BY <1>6 DEF KeyDown, KeyUp, KeyEcho, TogglePress, SilenceCheck, ClearAudioQueue,
       ModeChange
  <2> QED BY <2>1, LifeCancel, LifeFrame
<1>7. CASE CoordinatorPanics
  BY <1>7, LifePanics
<1>8. CASE UNCHANGED vars
  BY <1>8, LifeFrame DEF vars
<1>9. CASE StartPanics
  <2>1. UNCHANGED rec /\ co.at # "capture" /\ co'.at # "capture"
    BY <1>9 DEF StartPanics
  <2> QED BY <2>1, LifeStutters
<1> QED BY <1>1, <1>2, <1>3, <1>4, <1>5, <1>6, <1>7, <1>8, <1>9
        DEF Next, MicStep, DetachedMicStep, Environment, Panic

LEMMA LifeBegins == Init => StoppingInv /\ Life!Init
BY DEF Init, StoppingInv, Life!Init

\* The coordinator uses its recorder as TakeLife says: start() never begins a
\* capture over another, stop() hands each over once, and cancel_recording leaves a
\* capture that is being handed over alone, under every interleaving of the
\* coordinator, the microphone thread, also one that a panicked start() left behind,
\* the cancelling threads and the panics.
THEOREM DictationLivesTakes == Spec => KeepsTakeLife
BY TypeCorrect, LifeBegins, LifeNext, PTL DEF Spec, KeepsTakeLife, Life!Spec
-----------------------------------------------------------------------------
(***************************************************************************)
(* A cancellation is never lost.  As long as the current session is        *)
(* cancelled and still records or holds the stage, a cancelling thread     *)
(* that covers it is on its way, or its Cancel is in the channel.          *)
(***************************************************************************)

\* What the coordinator knows of its stage while it starts a take.
StageIsCurrent ==
  /\ cancelledThrough <= currentSession
  /\ co.at \in StartPoints => stage.kind = "Idle"
  /\ stage.kind # "Idle" => stage.session = currentSession

\* The Cancel of thread c will send the stage of session s to Idle.
Covers(c, s) == canc[c].wasRecording \/ s <= canc[c].through

Aborting(s) == \E c \in Cancellers : canc[c].at = "abort" /\ Covers(c, s)
Cancelling(s) ==
  \E c \in Cancellers : canc[c].at \in {"abort", "quiet", "notify"} /\ Covers(c, s)
Notified(s) ==
  \E i \in DOMAIN queue :
    queue[i].type = "Cancel" /\ (queue[i].wasRecording \/ s <= queue[i].through)

\* A capture of a cancelled session is about to be aborted, by a cancelling
\* thread or by the coordinator that joins the microphone thread.
CaptureIsAborted ==
  Cancelled(currentSession) /\ IsRecording => Aborting(currentSession) \/ mic = "ok"

\* The stage of a cancelled session, or a stop that will set it, is followed by
\* a Cancel.
StageIsCancelled ==
  /\ Cancelled(currentSession)
  /\ stage.kind # "Idle" \/ co.at \in StopPoints
  => Cancelling(currentSession) \/ Notified(currentSession)

EffectInv == StageIsCurrent /\ CaptureIsAborted /\ StageIsCancelled

Followed(s) == Cancelling(s) \/ Notified(s)

\* What a step has to keep for the invariant to go on.
LEMMA EffectFrame ==
  ASSUME EffectInv, StageIsCurrent', UNCHANGED <<currentSession, cancelledThrough>>,
         IsRecording' => IsRecording \/ mic' = "ok",
         IsRecording' /\ mic = "ok" => mic' = "ok",
         IsRecording' /\ Aborting(currentSession) => Aborting(currentSession)',
         Followed(currentSession) =>
           Followed(currentSession)' \/ (stage'.kind = "Idle" /\ co'.at \notin StopPoints),
         stage'.kind # "Idle" \/ co'.at \in StopPoints =>
           \/ stage.kind # "Idle" \/ co.at \in StopPoints
           \/ Cancelled(currentSession) => Aborting(currentSession)
  PROVE  EffectInv'
<1>1. CaptureIsAborted'
  BY DEF EffectInv, CaptureIsAborted, Cancelled, Aborting, Covers
<1>2. Aborting(currentSession) => Followed(currentSession)
  BY DEF Aborting, Cancelling, Followed
<1>3. StageIsCancelled'
  BY <1>2 DEF EffectInv, StageIsCancelled, Cancelled, Followed
<1> QED BY <1>1, <1>3 DEF EffectInv

\* Receiving a command loses no Cancel but the one received.
LEMMA ReceiveNotified ==
  ASSUME TypeOK, NEW type, Receive(type), NEW s, Notified(s)
  PROVE  \/ \E i \in DOMAIN queue' :
              queue'[i].type = "Cancel" /\ (queue'[i].wasRecording \/ s <= queue'[i].through)
         \/ /\ Head(queue).type = "Cancel"
            /\ Head(queue).wasRecording \/ s <= Head(queue).through
<1>1. PICK i \in DOMAIN queue :
        queue[i].type = "Cancel" /\ (queue[i].wasRecording \/ s <= queue[i].through)
  BY DEF Notified
<1>2. CASE i = 1
  BY <1>1, <1>2 DEF Receive, TypeOK
<1>3. CASE i # 1
  <2>1. i - 1 \in DOMAIN queue' /\ queue'[i - 1] = queue[i]
    BY <1>1, <1>3 DEF Receive, TypeOK
  <2> QED BY <1>1, <2>1
<1> QED BY <1>2, <1>3

LEMMA EffectCommand ==
  TypeOK /\ TriggerInv /\ EffectInv /\ (HandleCommand \/ ExpirePendingRelease) => EffectInv'
<1> SUFFICES ASSUME TypeOK, TriggerInv, EffectInv, HandleCommand \/ ExpirePendingRelease
             PROVE  EffectInv'
  OBVIOUS
<1> USE DEF micVars, sessionVars, taskVars, uiVars
<1>1. /\ co.at = "loop"
      /\ UNCHANGED <<mic, rec, canc, currentSession, cancelledThrough>>
  BY DEF HandleCommand, HandleInput, PressCancelsRelease, ReleaseDeferred,
     ReleaseIgnored, PressDebounced, PressHandled, HandleCancel, HandleSilenceStop,
     HandleProcessingFinished, HandleRecordingModeChange, ExpirePendingRelease, Receive
<1>2. mic = "none"
  BY <1>1 DEF TriggerInv
<1>3. stage' = stage \/ stage' = IdleStage
  BY DEF HandleCommand, HandleInput, PressCancelsRelease, ReleaseDeferred,
     ReleaseIgnored, PressDebounced, PressHandled, HandleCancel, HandleSilenceStop,
     HandleProcessingFinished, HandleRecordingModeChange, ExpirePendingRelease
<1>4. \/ UNCHANGED co
      \/ co' = [co EXCEPT !.at = "start"] /\ stage'.kind = "Idle"
      \/ (stage.kind = "Recording" \/ IsRecording)
         /\ \E g : co' = [co EXCEPT !.at = "stop", !.stopFor = g]
  <2>1. CASE PressHandled
    <3>1. PICK next \in {stage, IdleStage} :
            /\ stage' = next
            /\ co' = IF next.kind = "Idle" THEN [co EXCEPT !.at = "start"]
                     ELSE IF next.kind = "Recording" /\ ~Head(queue).ptt
                     THEN [co EXCEPT !.at = "stop", !.stopFor = 0]
                     ELSE co
      BY <2>1 DEF PressHandled
    <3>2. CASE next.kind = "Idle"
      BY <3>1, <3>2
    <3>3. CASE next.kind = "Recording" /\ ~Head(queue).ptt
      <4>1. stage.kind = "Recording" \/ IsRecording
        BY <3>1, <3>3 DEF IdleStage
      <4>2. co' = [co EXCEPT !.at = "stop", !.stopFor = 0]
        BY <3>1, <3>3
      <4>3. \E h : co' = [co EXCEPT !.at = "stop", !.stopFor = h]
        BY <4>2, Zenon
      <4> QED BY <4>1, <4>3
    <3>4. CASE next.kind # "Idle" /\ ~(next.kind = "Recording" /\ ~Head(queue).ptt)
      BY <3>1, <3>4
    <3> QED BY <3>2, <3>3, <3>4
  <2>2. CASE HandleSilenceStop
    <3>1. PICK next \in {stage, IdleStage}, enabled \in BOOLEAN, g \in {Head(queue).gen} :
            co' = IF next.kind = "Recording" /\ rec.gen = g /\ enabled
                  THEN [co EXCEPT !.at = "stop", !.stopFor = g] ELSE co
      BY <2>2 DEF HandleSilenceStop
    <3>2. CASE next.kind = "Recording" /\ rec.gen = g /\ enabled
      <4>1. stage.kind = "Recording" \/ IsRecording
        BY <3>1, <3>2 DEF IdleStage
      <4>2. co' = [co EXCEPT !.at = "stop", !.stopFor = g]
        BY <3>1, <3>2
      <4>3. \E h : co' = [co EXCEPT !.at = "stop", !.stopFor = h]
        BY <4>2, Zenon
      <4> QED BY <4>1, <4>3
    <3>3. CASE ~(next.kind = "Recording" /\ rec.gen = g /\ enabled)
      BY <3>1, <3>3
    <3> QED BY <3>2, <3>3
  <2>3. CASE HandleRecordingModeChange
    <3>1. PICK next \in {stage, IdleStage} :
            co' = IF next.kind = "Recording" \/ IsRecording
                  THEN [co EXCEPT !.at = "stop", !.stopFor = 0] ELSE co
      BY <2>3 DEF HandleRecordingModeChange
    <3>2. CASE next.kind = "Recording" \/ IsRecording
      <4>1. stage.kind = "Recording" \/ IsRecording
        BY <3>1, <3>2 DEF IdleStage
      <4>2. co' = [co EXCEPT !.at = "stop", !.stopFor = 0]
        BY <3>1, <3>2
      <4>3. \E h : co' = [co EXCEPT !.at = "stop", !.stopFor = h]
        BY <4>2, Zenon
      <4> QED BY <4>1, <4>3
    <3>3. CASE ~(next.kind = "Recording" \/ IsRecording)
      BY <3>1, <3>3
    <3> QED BY <3>2, <3>3
  <2>4. CASE ExpirePendingRelease
    BY <2>4 DEF ExpirePendingRelease, ReleaseMatchesRecording
  <2>5. CASE ~PressHandled /\ ~HandleSilenceStop /\ ~HandleRecordingModeChange
             /\ ~ExpirePendingRelease
    BY <2>5 DEF HandleCommand, HandleInput, PressCancelsRelease, ReleaseDeferred,
       ReleaseIgnored, PressDebounced, HandleCancel, HandleProcessingFinished
  <2> QED BY <2>1, <2>2, <2>3, <2>4, <2>5
<1>5. /\ co'.at \in {"loop", "start", "stop"}
      /\ co'.at = "start" => stage'.kind = "Idle"
      /\ co'.at = "stop" => stage.kind = "Recording" \/ IsRecording
  BY <1>1, <1>4 DEF TypeOK, Coordinator
<1>6. StageIsCurrent'
  BY <1>1, <1>3, <1>5 DEF EffectInv, StageIsCurrent, StartPoints, IdleStage
<1>7. /\ IsRecording' <=> IsRecording
      /\ Aborting(currentSession) => Aborting(currentSession)'
      /\ Cancelling(currentSession) => Cancelling(currentSession)'
  BY <1>1 DEF IsRecording, Aborting, Cancelling, Covers
<1>8. Notified(currentSession) =>
        Notified(currentSession)' \/ (stage'.kind = "Idle" /\ co'.at \notin StopPoints)
        \/ ~Cancelled(currentSession)
  <2>1. SUFFICES ASSUME Notified(currentSession), ~Notified(currentSession)',
                        Cancelled(currentSession)
                 PROVE  stage'.kind = "Idle" /\ co'.at \notin StopPoints
    OBVIOUS
  <2>2. CASE UNCHANGED queue
    BY <1>1, <2>1, <2>2 DEF Notified
  <2>3. CASE \E type : Receive(type)
    <3>1. /\ Head(queue).type = "Cancel"
          /\ Head(queue).wasRecording \/ currentSession <= Head(queue).through
      BY <1>1, <2>1, <2>3, ReceiveNotified DEF Notified
    <3>2. HandleCancel
      BY <3>1, <2>3 DEF HandleCommand, HandleInput, PressCancelsRelease, ReleaseDeferred,
         ReleaseIgnored, PressDebounced, PressHandled, HandleSilenceStop,
         HandleProcessingFinished, HandleRecordingModeChange, ExpirePendingRelease, Receive
    <3>3. stage'.kind = "Idle"
      BY <2>1, <3>1, <3>2 DEF HandleCancel, EffectInv, StageIsCurrent, IdleStage, Cancelled,
         TypeOK, Stage
    <3>4. co' = co
      BY <3>2 DEF HandleCancel
    <3> QED BY <1>1, <3>3, <3>4 DEF StopPoints
  <2> QED BY <2>2, <2>3 DEF HandleCommand, HandleInput, PressCancelsRelease,
             ReleaseDeferred, ReleaseIgnored, PressDebounced, PressHandled, HandleCancel,
             HandleSilenceStop, HandleProcessingFinished, HandleRecordingModeChange,
             ExpirePendingRelease
<1>9. CASE Cancelled(currentSession)
  <2>1. stage'.kind # "Idle" \/ co'.at \in StopPoints =>
          stage.kind # "Idle" \/ Aborting(currentSession)
    BY <1>2, <1>3, <1>5, <1>9 DEF EffectInv, CaptureIsAborted, IdleStage, StopPoints
  <2> QED BY <1>1, <1>2, <1>6, <1>7, <1>8, <1>9, <2>1, EffectFrame DEF Followed
<1>10. CASE ~Cancelled(currentSession)
  <2>1. ~Cancelled(currentSession)'
    BY <1>1, <1>10 DEF Cancelled
  <2> QED BY <1>6, <2>1 DEF EffectInv, CaptureIsAborted, StageIsCancelled
<1> QED BY <1>9, <1>10

\* A session that is not cancelled needs nobody.
LEMMA EffectLive ==
  ASSUME StageIsCurrent', ~Cancelled(currentSession)'
  PROVE  EffectInv'
BY DEF EffectInv, CaptureIsAborted, StageIsCancelled

LEMMA EffectStartStop ==
  TypeOK /\ TriggerInv /\ EffectInv /\ (Starting \/ Stopping) => EffectInv'
<1> SUFFICES ASSUME TypeOK, TriggerInv, EffectInv, Starting \/ Stopping PROVE EffectInv'
  OBVIOUS
<1> USE DEF micVars, sessionVars, taskVars, uiVars
<1>1. UNCHANGED <<cancelledThrough, canc, queue>>
  BY DEF Starting, StartRefused, BeginSession, ActivateSession, StartOffline,
     SpawnMicThread, ShowStartUi, JoinCancelled, JoinLive, JoinFailed, AnnounceRecording,
     FinishStart, Stopping, StopRecorder, CaptureTaken, LaunchTask
<1>2. CASE BeginSession
  <2>1. currentSession' = currentSession + 1 /\ stage' = stage
    BY <1>2 DEF BeginSession
  <2>2. co.at = "start"
    BY <1>2 DEF BeginSession
  <2>3. StageIsCurrent'
    BY <1>1, <2>1, <2>2 DEF EffectInv, StageIsCurrent, StartPoints, TypeOK
  <2>4. ~Cancelled(currentSession)'
    BY <1>1, <2>1 DEF EffectInv, StageIsCurrent, Cancelled, TypeOK
  <2> QED BY <2>3, <2>4, EffectLive
<1>3. CASE ~BeginSession
  <2>1. UNCHANGED <<currentSession, cancelledThrough>>
    BY <1>3 DEF Starting, StartRefused, ActivateSession, StartOffline,
       SpawnMicThread, ShowStartUi, JoinCancelled, JoinLive, JoinFailed, AnnounceRecording,
       FinishStart, Stopping, StopRecorder, CaptureTaken, LaunchTask
  <2>2. /\ Aborting(currentSession) => Aborting(currentSession)'
        /\ Followed(currentSession) => Followed(currentSession)'
    BY <1>1, <2>1 DEF Aborting, Followed, Cancelling, Notified, Covers
  <2>3. CASE FinishStart
    <3>1. /\ co.at = "started" /\ co'.at = "loop" /\ mic' = mic /\ rec' = rec
          /\ stage' = stage \/ (IsRecording /\ stage'.session = currentSession)
      BY <2>3 DEF FinishStart, Goto, TypeOK, Coordinator
    <3>2. mic = "none"
      BY <3>1 DEF TriggerInv
    <3>3. StageIsCurrent'
      BY <2>1, <3>1 DEF EffectInv, StageIsCurrent, StartPoints
    <3>4. stage'.kind # "Idle" => stage.kind # "Idle" \/ IsRecording
      BY <3>1
    <3>5. IsRecording /\ Cancelled(currentSession) => Aborting(currentSession)
      BY <3>2 DEF EffectInv, CaptureIsAborted
    <3> QED BY <2>1, <2>2, <3>1, <3>3, <3>4, <3>5, EffectFrame DEF StopPoints, IsRecording
  <2>4. CASE LaunchTask
    <3>1. /\ co.at = "launch" /\ co'.at = "loop" /\ mic' = mic /\ rec' = rec
          /\ stage'.session = currentSession
      BY <2>4 DEF LaunchTask
    <3>2. StageIsCurrent'
      BY <2>1, <3>1 DEF EffectInv, StageIsCurrent, StartPoints
    <3> QED BY <2>1, <2>2, <3>1, <3>2, EffectFrame DEF StopPoints, IsRecording
  <2>5. CASE StopRecorder \/ CaptureTaken
    <3>1. /\ co.at \in StopPoints /\ co'.at \in StopPoints
          /\ mic' = mic /\ stage' = stage
      BY <2>5 DEF StopRecorder, CaptureTaken, Goto, TypeOK, Coordinator, StopPoints
    <3>2. IsRecording' => IsRecording
      BY <2>5 DEF StopRecorder, CaptureTaken, IsRecording, TypeOK, Recorder
    <3>3. StageIsCurrent'
      BY <2>1, <3>1 DEF EffectInv, StageIsCurrent, StartPoints, StopPoints
    <3> QED BY <2>1, <2>2, <3>1, <3>2, <3>3, EffectFrame
  <2>6. CASE JoinLive
    <3>1. ~Cancelled(currentSession)'
      BY <2>1, <2>6 DEF JoinLive, Cancelled
    <3>2. co.at = "join" /\ co'.at = "announce" /\ stage' = stage
      BY <2>6 DEF JoinLive, Goto, TypeOK, Coordinator
    <3>3. StageIsCurrent'
      BY <2>1, <3>2 DEF EffectInv, StageIsCurrent, StartPoints
    <3> QED BY <3>1, <3>3, EffectLive
  <2>7. CASE ~FinishStart /\ ~Stopping /\ ~JoinLive
    <3>1. /\ co.at \in StartPoints /\ stage' = stage
          /\ \E point \in StartPoints : Goto(point)
      BY <1>3, <2>7 DEF Starting, StartRefused, ActivateSession, StartOffline,
         SpawnMicThread, ShowStartUi, JoinCancelled, JoinFailed, AnnounceRecording,
         StartPoints
    <3>2. co'.at \in StartPoints
      BY <3>1 DEF Goto, TypeOK, Coordinator
    <3>3. /\ IsRecording' => IsRecording
          /\ IsRecording' /\ mic = "ok" => mic' = "ok"
      <4>1. CASE JoinCancelled
        BY <4>1 DEF JoinCancelled, CancelRecording, IsRecording, TypeOK, Recorder
      <4>2. CASE JoinFailed
        BY <4>2 DEF JoinFailed, IsRecording
      <4>3. CASE SpawnMicThread
        BY <4>3 DEF SpawnMicThread, TriggerInv, IsRecording
      <4>4. CASE ~JoinCancelled /\ ~JoinFailed /\ ~SpawnMicThread
        <5>1. UNCHANGED <<rec, mic>>
          BY <1>3, <2>7, <4>4 DEF Starting, StartRefused, ActivateSession, StartOffline,
             ShowStartUi, AnnounceRecording
        <5> QED BY <5>1 DEF IsRecording
      <4> QED BY <4>1, <4>2, <4>3, <4>4
    <3>4. StageIsCurrent'
      BY <2>1, <3>1 DEF EffectInv, StageIsCurrent
    <3>5. co'.at \notin StopPoints
      BY <3>2 DEF StartPoints, StopPoints
    <3> QED BY <2>1, <2>2, <3>1, <3>3, <3>4, <3>5, EffectFrame
  <2> QED BY <2>3, <2>4, <2>5, <2>6, <2>7 DEF Stopping
<1> QED BY <1>2, <1>3
LEMMA SendNotified ==
  ASSUME TypeOK, NEW m, UNCHANGED queue \/ Send(m), UNCHANGED currentSession,
         Notified(currentSession)
  PROVE  Notified(currentSession)'
<1>1. PICK i \in DOMAIN queue :
        /\ queue[i].type = "Cancel"
        /\ queue[i].wasRecording \/ currentSession <= queue[i].through
  BY DEF Notified
<1>2. i \in DOMAIN queue' /\ queue'[i] = queue[i]
  <2>1. CASE UNCHANGED queue
    BY <1>1, <2>1
  <2>2. CASE Send(m)
    BY <1>1, <2>2 DEF TypeOK, Send
  <2> QED BY <2>1, <2>2
<1>3. currentSession' = currentSession
  OBVIOUS
<1> QED BY <1>1, <1>2, <1>3 DEF Notified

\* A step that leaves the coordinator and the cancelling threads alone, and at
\* most ends a capture.
LEMMA EffectElsewhere ==
  ASSUME TypeOK, EffectInv, UNCHANGED <<currentSession, cancelledThrough, stage, co, canc, mic>>,
         UNCHANGED queue \/ \E m : Send(m), UNCHANGED rec \/ CancelRecording
  PROVE  EffectInv'
<1>1. IsRecording' => IsRecording
  BY DEF TypeOK, Recorder, CancelRecording, IsRecording
<1>2. Notified(currentSession) => Notified(currentSession)'
  BY SendNotified
<1>3. /\ Aborting(currentSession) => Aborting(currentSession)'
      /\ Cancelling(currentSession) => Cancelling(currentSession)'
  BY DEF Aborting, Cancelling, Covers
<1>4. StageIsCurrent'
  BY DEF EffectInv, StageIsCurrent
<1> QED BY <1>1, <1>2, <1>3, <1>4, EffectFrame DEF Followed

LEMMA EffectCancel ==
  ASSUME TypeOK, TriggerInv, EffectInv, NEW c \in Cancellers,
         CancellerStep(c) \/ CancelBegins(c)
  PROVE  EffectInv'
<1> USE DEF micVars, sessionVars, taskVars, uiVars
<1>1. UNCHANGED <<currentSession, stage, co, mic>>
  BY DEF CancellerStep, CancelBegins, CancelSwaps, CancelsNothing, CancelMarks,
     CancelAborts, CancelQuietsUi, CancelNotifies, CancelEnds
<1>2. \A d \in Cancellers : d # c => canc'[d] = canc[d]
  BY DEF CancellerStep, CancelBegins, CancelSwaps, CancelsNothing, CancelMarks,
     CancelAborts, CancelQuietsUi, CancelNotifies, CancelEnds, CancGoto, TypeOK
<1>3. CASE CancelMarks(c)
  <2>1. /\ canc'[c].at = "abort" /\ canc'[c].through = currentSession
        /\ cancelledThrough' <= currentSession
    BY <1>3 DEF CancelMarks, TypeOK, Canceller, EffectInv, StageIsCurrent
  <2>2. Aborting(currentSession)'
    BY <1>1, <2>1 DEF Aborting, Covers, TypeOK
  <2>3. Cancelling(currentSession)'
    BY <2>2 DEF Aborting, Cancelling
  <2>4. StageIsCurrent'
    BY <1>1, <2>1 DEF EffectInv, StageIsCurrent
  <2> QED BY <2>2, <2>3, <2>4 DEF EffectInv, CaptureIsAborted, StageIsCancelled
<1>4. CASE ~CancelMarks(c)
  <2>1. UNCHANGED cancelledThrough
    BY <1>4 DEF CancellerStep, CancelBegins, CancelSwaps, CancelsNothing,
       CancelAborts, CancelQuietsUi, CancelNotifies, CancelEnds
  <2>2. StageIsCurrent'
    BY <1>1, <2>1 DEF EffectInv, StageIsCurrent
  <2>3. IsRecording' => IsRecording
    BY <1>4 DEF CancellerStep, CancelBegins, CancelSwaps, CancelsNothing, CancelAborts,
       CancelQuietsUi, CancelNotifies, CancelEnds, CancelRecording, IsRecording, TypeOK,
       Recorder
  <2>4. CASE CancelAborts(c)
    <3>1. /\ canc'[c].at = "quiet" /\ Covers(c, currentSession)' <=> Covers(c, currentSession)
          /\ UNCHANGED queue
      BY <1>1, <2>4 DEF CancelAborts, CancGoto, TypeOK, Canceller, Covers
    <3>2. ~IsRecording'
      BY <2>4 DEF CancelAborts, CancelRecording, IsRecording, TypeOK, Recorder
    <3>3. canc'[c].at = "quiet"
      BY <2>4 DEF CancelAborts, CancGoto, TypeOK, Canceller
    <3>4. Covers(c, currentSession) => Covers(c, currentSession)'
      BY <1>1, <2>4 DEF CancelAborts, CancGoto, TypeOK, Canceller, Covers
    <3>5. Cancelling(currentSession) => Cancelling(currentSession)'
      BY <1>1, <1>2, <3>3, <3>4 DEF Cancelling, Covers
    <3>6. Notified(currentSession) => Notified(currentSession)'
      BY <1>1, <2>4 DEF CancelAborts, Notified
    <3> QED BY <1>1, <2>1, <2>2, <3>2, <3>5, <3>6, EffectFrame DEF Followed
  <2>5. CASE CancelQuietsUi(c)
    <3>1. canc'[c].at = "notify" /\ canc[c].at # "abort"
      BY <2>5 DEF CancelQuietsUi, CancAt, CancGoto, TypeOK, Canceller
    <3>2. Covers(c, currentSession) => Covers(c, currentSession)'
      BY <1>1, <2>5 DEF CancelQuietsUi, CancGoto, TypeOK, Canceller, Covers
    <3>3. Cancelling(currentSession) => Cancelling(currentSession)'
      BY <1>1, <1>2, <3>1, <3>2 DEF Cancelling, Covers
    <3>4. Aborting(currentSession) => Aborting(currentSession)'
      BY <1>1, <1>2, <3>1 DEF Aborting, Covers
    <3>5. Notified(currentSession) => Notified(currentSession)'
      BY <1>1, <2>5 DEF CancelQuietsUi, Notified
    <3> QED BY <1>1, <2>1, <2>2, <2>3, <3>3, <3>4, <3>5, EffectFrame DEF Followed
  <2>6. CASE CancelNotifies(c)
    <3>1. canc[c].at = "notify" /\ UNCHANGED <<rec>>
      BY <2>6 DEF CancelNotifies, CancAt
    <3>2. /\ Len(queue) + 1 \in DOMAIN queue'
          /\ queue'[Len(queue) + 1] = [type |-> "Cancel",
               wasRecording |-> canc[c].wasRecording, through |-> canc[c].through]
      BY <2>6 DEF CancelNotifies, Send, TypeOK
    <3>3. Covers(c, currentSession) => Notified(currentSession)'
      BY <1>1, <3>2 DEF Notified, Covers
    <3>4. Cancelling(currentSession) => Followed(currentSession)'
      BY <1>1, <1>2, <3>3 DEF Cancelling, Covers, Followed
    <3>5. Aborting(currentSession) => Aborting(currentSession)'
      BY <1>1, <1>2, <3>1 DEF Aborting, Covers
    <3>6. Notified(currentSession) => Notified(currentSession)'
      BY <1>1, <2>6, SendNotified DEF CancelNotifies
    <3> QED BY <1>1, <2>1, <2>2, <2>3, <3>4, <3>5, <3>6, EffectFrame DEF Followed
  <2>7. CASE ~CancelAborts(c) /\ ~CancelQuietsUi(c) /\ ~CancelNotifies(c)
    <3>1. canc[c].at \notin {"abort", "quiet", "notify"} /\ UNCHANGED queue
      BY <1>4, <2>7 DEF CancellerStep, CancelBegins, CancelSwaps, CancelsNothing,
         CancelEnds, CancAt
    <3>2. Cancelling(currentSession) => Cancelling(currentSession)'
      BY <1>1, <1>2, <3>1 DEF Cancelling, Covers
    <3>3. Aborting(currentSession) => Aborting(currentSession)'
      BY <1>1, <1>2, <3>1 DEF Aborting, Covers
    <3>4. Notified(currentSession) => Notified(currentSession)'
      BY <1>1, <3>1 DEF Notified
    <3> QED BY <1>1, <2>1, <2>2, <2>3, <3>2, <3>3, <3>4, EffectFrame DEF Followed
  <2> QED BY <2>4, <2>5, <2>6, <2>7
<1> QED BY <1>3, <1>4

LEMMA EffectNext ==
  TypeOK /\ NoneDetached /\ TriggerInv /\ EffectInv /\ [Next]_vars => EffectInv'
<1> SUFFICES ASSUME TypeOK, NoneDetached, TriggerInv, EffectInv, [Next]_vars PROVE EffectInv'
  OBVIOUS
<1> USE DEF micVars, sessionVars, taskVars, uiVars
<1>1. CASE CoordinatorStep
  BY <1>1, EffectCommand, EffectStartStop DEF CoordinatorStep
<1>2. CASE MicStep
  <2>1. UNCHANGED <<currentSession, cancelledThrough, stage, co, canc, queue>>
    BY <1>2 DEF MicStep, MicOpens, MicFails
  <2>2. /\ IsRecording' => IsRecording \/ mic' = "ok"
        /\ IsRecording' /\ mic = "ok" => mic' = "ok"
    BY <1>2 DEF MicStep, MicOpens, MicFails, IsRecording
  <2>3. /\ Aborting(currentSession) => Aborting(currentSession)'
        /\ Followed(currentSession) => Followed(currentSession)'
    BY <2>1 DEF Aborting, Followed, Cancelling, Notified, Covers
  <2>4. StageIsCurrent'
    BY <2>1 DEF EffectInv, StageIsCurrent
  <2> QED BY <2>1, <2>2, <2>3, <2>4, EffectFrame
<1>3. CASE OfflineNoticeHide \/ SilenceFires
  BY <1>3, EffectElsewhere DEF OfflineNoticeHide, SilenceFires
<1>4. CASE \E t \in TaskIds : TaskStep(t) \/ TaskPanics(t)
  <2>1. /\ UNCHANGED <<currentSession, cancelledThrough, stage, co, canc, mic, rec>>
        /\ UNCHANGED queue \/ \E m : Send(m)
    BY <1>4 DEF TaskStep, TaskBegun, TaskAnnounces, TaskChecksStart, TaskDecodes,
       TaskChecksDecode, TaskShowsPill, TaskChecksShow, TaskPostProcesses, TaskChecksPost,
       TaskDelivers, TaskTerminates, GuardTests, GuardTestsAgain, GuardStores,
       GuardPaints, GuardNotifies, TaskPanics
  <2> QED BY <2>1, EffectElsewhere
<1>5. CASE \E c \in Cancellers : CancellerStep(c) \/ CancelBegins(c)
  BY <1>5, EffectCancel
<1>6. CASE KeyDown \/ KeyUp \/ KeyEcho \/ TogglePress \/ SilenceCheck \/ ClearAudioQueue
           \/ ModeChange
  <2>1. /\ UNCHANGED <<currentSession, cancelledThrough, stage, co, canc, mic>>
        /\ UNCHANGED queue \/ \E m : Send(m)
        /\ UNCHANGED rec \/ CancelRecording
    BY <1>6 DEF KeyDown, KeyUp, KeyEcho, TogglePress, SilenceCheck, ClearAudioQueue,
       ModeChange, Input
  <2> QED BY <2>1, EffectElsewhere
<1>7. CASE CoordinatorPanics
  <2>1. /\ UNCHANGED <<currentSession, cancelledThrough, canc, queue, rec, mic>>
        /\ co'.at = "loop" /\ stage'.kind = "Idle"
    BY <1>7 DEF CoordinatorPanics, IdleStage
  <2>2. /\ Aborting(currentSession) => Aborting(currentSession)'
        /\ Followed(currentSession) => Followed(currentSession)'
    BY <2>1 DEF Aborting, Followed, Cancelling, Notified, Covers
  <2>3. StageIsCurrent'
    BY <2>1 DEF EffectInv, StageIsCurrent
  <2> QED BY <2>1, <2>2, <2>3, EffectFrame DEF IsRecording, StopPoints
<1>8. CASE UNCHANGED vars
  BY <1>8, EffectElsewhere DEF vars
<1> QED BY <1>1, <1>2, <1>3, <1>4, <1>5, <1>6, <1>7, <1>8, NoneDetachedStep
        DEF Next, Environment, Panic

LEMMA EffectInit == Init => EffectInv
BY DEF Init, EffectInv, StageIsCurrent, CaptureIsAborted, StageIsCancelled, IsRecording,
   StartPoints, StopPoints, IdleStage

\* A cancellation takes effect: once no cancelling thread is under way and the
\* coordinator waits on an empty channel, a cancelled current session neither
\* records nor holds the stage, wherever in start() or stop() the cancel landed
\* (cancel_current_operation, the join in TranscribeAction::start, notify_cancel).
\* A start() that panics while its microphone thread is out is excluded: that thread
\* may begin a capture of the cancelled session that nobody discards.
THEOREM CancelTakesEffect ==
  ASSUME NoStartPanics
  PROVE  Spec => []CancelNeverLost
<1> DEFINE I == NoneDetached /\ TriggerInv /\ EffectInv
<1>1. TypeOK /\ I => CancelNeverLost
  <2> SUFFICES ASSUME TypeOK, TriggerInv, EffectInv, queue = << >>, co.at = "loop",
                      ~CancelInFlight, Cancelled(currentSession)
               PROVE  stage.kind = "Idle" /\ ~IsRecording
    BY DEF CancelNeverLost
  <2>1. ~Aborting(currentSession) /\ ~Cancelling(currentSession)
    BY DEF CancelInFlight, Aborting, Cancelling
  <2>2. ~Notified(currentSession)
    BY DEF Notified
  <2>3. mic = "none"
    BY DEF TriggerInv
  <2> QED BY <2>1, <2>2, <2>3 DEF EffectInv, CaptureIsAborted, StageIsCancelled
<1>2. Init => I
  BY NoneDetachedInit, TriggerInit, EffectInit
<1>3. TypeOK /\ I /\ [Next]_vars => I'
  BY NoneDetachedNext, TriggerNext, EffectNext
<1> HIDE DEF I
<1> QED BY <1>1, <1>2, <1>3, TypeCorrect, PTL DEF Spec
-----------------------------------------------------------------------------
(***************************************************************************)
(* Captures, tray and pill.  Each of the three properties holds as long as *)
(* the environment leaves out what the code does not survive, which the    *)
(* hypotheses name: a kind of step the Budget grants no time at all.       *)
(***************************************************************************)
NobodyCancels == Budget["cancel"] = 0
NobodyClears  == Budget["clear"] = 0
NothingPanics == Budget["panic"] = 0 /\ NoStartPanics

NoPanicLeft == Unspent("panic") /\ NoneDetached

LEMMA NoPanicStep ==
  ASSUME NoPanicLeft
  PROVE  ~Panic /\ ~DetachedMicStep
BY NoStepUnspent, NoneDetachedStep DEF NoPanicLeft, Panic, CoordinatorPanics, TaskPanics

LEMMA NoPanicInit == Init /\ NothingPanics => NoPanicLeft
BY NoneDetachedInit DEF Init, NothingPanics, NoPanicLeft, Unspent

LEMMA NoPanicStays == TypeOK /\ NoPanicLeft /\ [Next]_vars => NoPanicLeft'
BY UnspentStays, NoneDetachedNext DEF NoPanicLeft, BudgetKinds

\* Nobody cancels: no thread is under way and no Cancel is in the channel.
CalmInv ==
  /\ Unspent("cancel")
  /\ \A c \in Cancellers : canc[c].at = "idle"
  /\ \A i \in DOMAIN queue : queue[i].type # "Cancel"

LEMMA CalmSend ==
  ASSUME TypeOK, CalmInv, UNCHANGED queue \/ (\E type : Receive(type))
                          \/ (\E m : Send(m) /\ m.type # "Cancel")
  PROVE  \A i \in DOMAIN queue' : queue'[i].type # "Cancel"
<1>1. CASE UNCHANGED queue
  BY <1>1 DEF CalmInv
<1>2. CASE \E type : Receive(type)
  <2>1. queue # << >> /\ queue' = Tail(queue)
    BY <1>2 DEF Receive
  <2>2. ASSUME NEW i \in DOMAIN queue'
        PROVE  i + 1 \in DOMAIN queue /\ queue'[i] = queue[i + 1]
    BY <2>1 DEF TypeOK
  <2> QED BY <2>2 DEF CalmInv
<1>3. CASE \E m : Send(m) /\ m.type # "Cancel"
  <2>1. PICK m : Send(m) /\ m.type # "Cancel"
    BY <1>3
  <2>2. ASSUME NEW i \in DOMAIN queue'
        PROVE  (i \in DOMAIN queue /\ queue'[i] = queue[i]) \/ queue'[i] = m
    BY <2>1 DEF TypeOK, Send
  <2> QED BY <2>1, <2>2 DEF CalmInv
<1> QED BY <1>1, <1>2, <1>3

LEMMA CalmNext == TypeOK /\ CalmInv /\ [Next]_vars => CalmInv'
<1> SUFFICES ASSUME TypeOK, CalmInv, [Next]_vars PROVE CalmInv'
  OBVIOUS
<1> USE DEF micVars, sessionVars, taskVars, uiVars
<1>1. Unspent("cancel")'
  BY UnspentStays DEF CalmInv, BudgetKinds
<1>2. ASSUME NEW c \in Cancellers PROVE ~CancelBegins(c) /\ ~CancellerStep(c)
  BY DEF CalmInv, Unspent, CancelBegins, Spend, CancellerStep, CancelSwaps,
     CancelsNothing, CancelMarks, CancelAborts, CancelQuietsUi, CancelNotifies, CancelEnds,
     CancAt
<1>3. /\ UNCHANGED canc
      /\ UNCHANGED queue \/ (\E type : Receive(type))
         \/ (\E m : Send(m) /\ m.type # "Cancel")
  <2>1. CASE CoordinatorStep
    BY <2>1 DEF CoordinatorStep, HandleCommand, HandleInput, PressCancelsRelease,
       ReleaseDeferred, ReleaseIgnored, PressDebounced, PressHandled, HandleCancel,
       HandleSilenceStop, HandleProcessingFinished, HandleRecordingModeChange,
       ExpirePendingRelease, Starting, StartRefused, BeginSession,
       ActivateSession, StartOffline, SpawnMicThread, ShowStartUi, JoinCancelled, JoinLive,
       JoinFailed, AnnounceRecording, FinishStart, Stopping, StopRecorder, CaptureTaken,
       LaunchTask
  <2>2. CASE \E t \in TaskIds : TaskStep(t) \/ TaskPanics(t)
    <3>1. PICK t \in TaskIds : TaskStep(t) \/ TaskPanics(t)
      BY <2>2
    <3>2. CASE GuardNotifies(t)
      BY <3>2 DEF GuardNotifies
    <3>3. CASE ~GuardNotifies(t)
      BY <3>1, <3>3 DEF TaskStep, TaskBegun, TaskAnnounces, TaskChecksStart, TaskDecodes,
         TaskChecksDecode, TaskShowsPill, TaskChecksShow, TaskPostProcesses,
         TaskChecksPost, TaskDelivers, TaskTerminates, GuardTests, GuardTestsAgain,
         GuardStores, GuardPaints, TaskPanics
    <3> QED BY <3>2, <3>3
  <2>3. CASE SilenceFires \/ KeyDown \/ KeyUp \/ KeyEcho \/ TogglePress \/ ModeChange
    <3>1. UNCHANGED canc
      BY <2>3 DEF SilenceFires, KeyDown, KeyUp, KeyEcho, TogglePress, ModeChange
    <3>2. CASE SilenceFires
      BY <3>2 DEF SilenceFires
    <3>3. CASE ModeChange
      BY <3>3 DEF ModeChange
    <3>4. CASE KeyDown \/ KeyUp \/ KeyEcho \/ TogglePress
      <4>1. \E pressed, ptt : Input(pressed, ptt)
        BY <3>4 DEF KeyDown, KeyUp, KeyEcho, TogglePress
      <4> QED BY <3>1, <4>1 DEF Input
    <3> QED BY <2>3, <3>1, <3>2, <3>3, <3>4
  <2>4. CASE MicStep \/ DetachedMicStep \/ OfflineNoticeHide \/ SilenceCheck
             \/ ClearAudioQueue \/ CoordinatorPanics \/ StartPanics \/ UNCHANGED vars
    BY <2>4 DEF MicStep, MicOpens, MicFails, DetachedMicStep, DetachedMicOpens,
       DetachedMicFails, OfflineNoticeHide, SilenceCheck, ClearAudioQueue,
       CoordinatorPanics, StartPanics, vars
  <2> QED BY <1>2, <2>1, <2>2, <2>3, <2>4 DEF Next, Environment, Panic
<1> QED BY <1>1, <1>3, CalmSend DEF CalmInv

LEMMA CalmInit == Init /\ NobodyCancels => CalmInv
BY DEF Init, NobodyCancels, CalmInv, Unspent
-----------------------------------------------------------------------------
\* The recorder captures only for a start that is under way or for the stage
\* Recording.
CaptureIsOwned ==
  /\ IsRecording =>
       mic = "ok" \/ co.at \in {"announce", "started"} \/ stage.kind = "Recording"
  /\ co.at \in {"start", "activate", "gate", "launch"} => ~IsRecording

LEMMA CaptureFrame ==
  ASSUME CaptureIsOwned, UNCHANGED <<mic, co, stage>>, IsRecording' => IsRecording
  PROVE  CaptureIsOwned'
BY DEF CaptureIsOwned

LEMMA CaptureCommand ==
  TypeOK /\ TriggerInv /\ CalmInv /\ CaptureIsOwned /\ (HandleCommand \/ ExpirePendingRelease)
    => CaptureIsOwned'
<1> SUFFICES ASSUME TypeOK, TriggerInv, CalmInv, CaptureIsOwned,
                    HandleCommand \/ ExpirePendingRelease
             PROVE  CaptureIsOwned'
  OBVIOUS
<1> USE DEF micVars, sessionVars, taskVars, uiVars
<1>1. co.at = "loop" /\ UNCHANGED <<mic, rec>>
  BY DEF HandleCommand, HandleInput, PressCancelsRelease, ReleaseDeferred,
     ReleaseIgnored, PressDebounced, PressHandled, HandleCancel, HandleSilenceStop,
     HandleProcessingFinished, HandleRecordingModeChange, ExpirePendingRelease, Receive
<1>2. mic = "none"
  BY <1>1 DEF TriggerInv
<1>3. IsRecording => stage.kind = "Recording"
  BY <1>1, <1>2 DEF CaptureIsOwned
<1>4. ~HandleCancel
  <2>1. ASSUME Receive("Cancel") PROVE FALSE
    <3>1. 1 \in DOMAIN queue /\ Head(queue) = queue[1]
      BY <2>1 DEF Receive, TypeOK
    <3> QED BY <2>1, <3>1 DEF Receive, CalmInv
  <2> QED BY <2>1 DEF HandleCancel
<1>5. stage' = stage \/ ~IsRecording
  <2>1. ASSUME NEW stuck, NEW next, RecoverWedgedStage(stuck, next), IsRecording
        PROVE  next = stage
    BY <1>3, <2>1 DEF RecoverWedgedStage, LostRecorder
  <2>2. CASE PressHandled \/ HandleSilenceStop \/ HandleRecordingModeChange
    BY <2>1, <2>2 DEF PressHandled, HandleSilenceStop, HandleRecordingModeChange
  <2>3. CASE HandleProcessingFinished
    BY <1>3, <2>3 DEF HandleProcessingFinished
  <2>4. CASE ~PressHandled /\ ~HandleSilenceStop /\ ~HandleRecordingModeChange
             /\ ~HandleProcessingFinished
    BY <1>4, <2>4 DEF HandleCommand, HandleInput, PressCancelsRelease, ReleaseDeferred,
       ReleaseIgnored, PressDebounced, ExpirePendingRelease
  <2> QED BY <2>2, <2>3, <2>4
<1>6. co'.at \in {"loop", "stop"} \/ (co'.at = "start" /\ ~IsRecording)
  <2>1. CASE PressHandled
    <3>1. PICK next \in {stage, IdleStage} :
            /\ stage' = next
            /\ co' = IF next.kind = "Idle" THEN [co EXCEPT !.at = "start"]
                     ELSE IF next.kind = "Recording" /\ ~Head(queue).ptt
                     THEN [co EXCEPT !.at = "stop", !.stopFor = 0]
                     ELSE co
      BY <2>1 DEF PressHandled
    <3>2. IsRecording => next.kind = "Recording"
      BY <1>3, <1>5, <3>1
    <3> QED BY <1>1, <3>1, <3>2 DEF TypeOK, Coordinator
  <2>2. CASE HandleSilenceStop
    BY <1>1, <2>2 DEF HandleSilenceStop, TypeOK, Coordinator
  <2>3. CASE HandleRecordingModeChange
    BY <1>1, <2>3 DEF HandleRecordingModeChange, TypeOK, Coordinator
  <2>4. CASE ExpirePendingRelease
    BY <1>1, <2>4 DEF ExpirePendingRelease, TypeOK, Coordinator
  <2>5. CASE ~PressHandled /\ ~HandleSilenceStop /\ ~HandleRecordingModeChange
             /\ ~ExpirePendingRelease
    BY <1>1, <2>5 DEF HandleCommand, HandleInput, PressCancelsRelease, ReleaseDeferred,
       ReleaseIgnored, PressDebounced, HandleCancel, HandleProcessingFinished
  <2> QED BY <2>1, <2>2, <2>3, <2>4, <2>5
<1> QED BY <1>1, <1>3, <1>5, <1>6 DEF CaptureIsOwned, IsRecording

LEMMA CaptureStartStop ==
  TypeOK /\ TriggerInv /\ CaptureIsOwned /\ (Starting \/ Stopping) => CaptureIsOwned'
<1> SUFFICES ASSUME TypeOK, TriggerInv, CaptureIsOwned, Starting \/ Stopping
             PROVE  CaptureIsOwned'
  OBVIOUS
<1> USE DEF micVars, sessionVars, taskVars, uiVars, Goto, TypeOK, Coordinator, Recorder,
            CaptureIsOwned, IsRecording
<1>1. CASE StartRefused
  BY <1>1 DEF StartRefused
<1>2. CASE BeginSession
  BY <1>2 DEF BeginSession
<1>3. CASE ActivateSession
  BY <1>3 DEF ActivateSession
<1>4. CASE StartOffline
  BY <1>4 DEF StartOffline
<1>5. CASE SpawnMicThread
  BY <1>5 DEF SpawnMicThread
<1>6. CASE ShowStartUi
  BY <1>6 DEF ShowStartUi
<1>7. CASE JoinCancelled
  BY <1>7 DEF JoinCancelled, CancelRecording
<1>8. CASE JoinLive
  BY <1>8 DEF JoinLive
<1>9. CASE JoinFailed
  BY <1>9 DEF JoinFailed
<1>10. CASE AnnounceRecording
  BY <1>10 DEF AnnounceRecording
<1>11. CASE FinishStart
  BY <1>11 DEF FinishStart, TriggerInv
<1>12. CASE StopRecorder
  BY <1>12 DEF StopRecorder
<1>13. CASE CaptureTaken
  BY <1>13 DEF CaptureTaken
<1>14. CASE LaunchTask
  BY <1>14 DEF LaunchTask
<1> QED BY <1>1, <1>2, <1>3, <1>4, <1>5, <1>6, <1>7, <1>8, <1>9, <1>10, <1>11, <1>12,
           <1>13, <1>14 DEF Starting, Stopping

LEMMA CaptureNext ==
  TypeOK /\ TriggerInv /\ CalmInv /\ NoPanicLeft /\ CaptureIsOwned /\ [Next]_vars
    => CaptureIsOwned'
<1> SUFFICES ASSUME TypeOK, TriggerInv, CalmInv, NoPanicLeft, CaptureIsOwned, [Next]_vars
             PROVE  CaptureIsOwned'
  OBVIOUS
<1> USE DEF micVars, sessionVars, taskVars, uiVars
<1>1. CASE CoordinatorStep
  BY <1>1, CaptureCommand, CaptureStartStop DEF CoordinatorStep
<1>2. CASE MicStep
  <2>1. co.at \in {"ui", "join"} /\ UNCHANGED <<co, stage>>
    BY <1>2 DEF MicStep, MicOpens, MicFails, TriggerInv
  <2>2. IsRecording' => mic' = "ok" \/ (IsRecording /\ mic # "ok")
    BY <1>2 DEF MicStep, MicOpens, MicFails, IsRecording
  <2> QED BY <2>1, <2>2 DEF CaptureIsOwned
<1>3. CASE ~CoordinatorStep /\ ~MicStep
  <2>1. UNCHANGED <<mic, co, stage>> /\ (UNCHANGED rec \/ CancelRecording)
    BY <1>3, NoPanicStep DEF Next, OfflineNoticeHide, SilenceFires,
       TaskStep, TaskBegun, TaskAnnounces, TaskChecksStart, TaskDecodes, TaskChecksDecode,
       TaskShowsPill, TaskChecksShow, TaskPostProcesses, TaskChecksPost, TaskDelivers,
       TaskTerminates, GuardTests, GuardTestsAgain, GuardStores, GuardPaints,
       GuardNotifies, CancellerStep, CancelSwaps, CancelsNothing, CancelMarks,
       CancelAborts, CancelQuietsUi, CancelNotifies, CancelEnds, Environment, KeyDown,
       KeyUp, KeyEcho, TogglePress, SilenceCheck, ClearAudioQueue, ModeChange,
       CancelBegins, vars
  <2>2. IsRecording' => IsRecording
    BY <2>1 DEF IsRecording, CancelRecording, TypeOK, Recorder
  <2> QED BY <2>1, <2>2, CaptureFrame
<1> QED BY <1>1, <1>2, <1>3

LEMMA CaptureInit == Init => CaptureIsOwned
BY DEF Init, CaptureIsOwned, IsRecording

\* Without cancels and contained panics, the only ways past the stage, a
\* recorder that records while the coordinator waits belongs to the stage
\* Recording (the struct comment of TranscriptionCoordinator): start() asks the
\* recorder after the join, and no command leaves the stage of a running take.
THEOREM CapturesBelong ==
  ASSUME NobodyCancels, NothingPanics
  PROVE  Spec => []NoOrphanCapture
<1> DEFINE I == TriggerInv /\ CalmInv /\ NoPanicLeft /\ CaptureIsOwned
<1>1. TypeOK /\ I => NoOrphanCapture
  BY DEF TriggerInv, CaptureIsOwned, NoOrphanCapture
<1>2. Init => I
  BY TriggerInit, CalmInit, CaptureInit, NoPanicInit
<1>3. TypeOK /\ I /\ [Next]_vars => I'
  BY TriggerNext, CalmNext, CaptureNext, NoPanicStays DEF NoPanicLeft
<1> HIDE DEF I
<1> QED BY <1>1, <1>2, <1>3, TypeCorrect, PTL DEF Spec
-----------------------------------------------------------------------------
\* Some task still has its way to a terminal event ahead of it.
TaskWorks == \E t \in TaskIds : task[t].phase \in WorkPhases

\* Whoever animates the tray is still there to repaint it.
RecordingOwner ==
  \/ rec.state # "Idle" \/ co.at \in {"started", "stop", "launch"}
  \/ \E c \in Cancellers : canc[c].at = "quiet"

TrayIsOwned ==
  /\ "recording" \in tray => RecordingOwner
  /\ "transcribing" \in tray => TaskWorks

LEMMA TrayFrame ==
  ASSUME TrayIsOwned, tray' \subseteq tray, RecordingOwner => RecordingOwner',
         TaskWorks => TaskWorks'
  PROVE  TrayIsOwned'
BY DEF TrayIsOwned

\* A task that works goes on, unless it has just taken the recording UI down.
LEMMA WorkGoesOn ==
  ASSUME TypeOK, NEW t \in TaskIds, TaskStep(t)
  PROVE  \/ tray' = {} /\ ~overlay'
         \/ TaskWorks => TaskWorks'
<1> USE DEF micVars, sessionVars, taskVars, uiVars
<1>1. CASE \E phase \in WorkPhases : Move(t, phase)
  <2>1. PICK phase \in WorkPhases : Move(t, phase)
    BY <1>1
  <2>2. task'[t].phase \in WorkPhases
    BY <2>1 DEF Move, TypeOK, Task
  <2> QED BY <2>2 DEF TaskWorks
<1>2. CASE task[t].phase \notin WorkPhases /\ \E phase : Move(t, phase)
  BY <1>2 DEF Move, TypeOK, TaskWorks
<1>3. CASE tray' = {} /\ ~overlay'
  BY <1>3
<1>4. CASE TaskBegun(t) \/ TaskAnnounces(t) \/ TaskChecksStart(t) \/ TaskDecodes(t)
           \/ TaskChecksDecode(t) \/ TaskShowsPill(t) \/ TaskChecksShow(t)
           \/ TaskPostProcesses(t) \/ TaskChecksPost(t) \/ TaskDelivers(t)
           \/ TaskTerminates(t)
  <2>1. CleanedUp(t) \/ (\E phase \in WorkPhases : Move(t, phase))
        \/ TaskDelivers(t) \/ TaskTerminates(t)
    BY <1>4 DEF TaskBegun, TaskAnnounces, TaskChecksStart, TaskDecodes, TaskChecksDecode,
       TaskShowsPill, TaskChecksShow, TaskPostProcesses, TaskChecksPost, Passes, WorkPhases
  <2> QED BY <1>1, <1>3, <2>1 DEF CleanedUp, TaskDelivers, TaskTerminates
<1>5. CASE GuardTests(t) \/ GuardTestsAgain(t) \/ GuardStores(t) \/ GuardPaints(t)
           \/ GuardNotifies(t)
  <2>1. /\ task[t].phase \in GuardPhases
        /\ \E phase : Move(t, phase)
    BY <1>5 DEF GuardTests, GuardTestsAgain, GuardStores, GuardPaints, GuardNotifies, At,
       GuardPhases
  <2>2. task[t].phase \notin WorkPhases
    BY <2>1 DEF GuardPhases, WorkPhases
  <2> QED BY <1>2, <2>1, <2>2
<1> QED BY <1>4, <1>5 DEF TaskStep

\* A new task takes the place of none that works, and works.
LEMMA LaunchWorks ==
  ASSUME TypeOK, LaunchTask
  PROVE  TaskWorks'
<1>1. launched + 1 \in TaskIds
  BY TasksAssumption DEF TypeOK, LaunchTask, TaskIds
<1>2. task'[launched + 1].phase \in WorkPhases
  BY <1>1 DEF TypeOK, LaunchTask, WorkPhases
<1> QED BY <1>1, <1>2 DEF TaskWorks

LEMMA TrayCoordinator ==
  ASSUME TypeOK, TrayIsOwned, CoordinatorStep
  PROVE  TrayIsOwned'
<1> USE DEF micVars, sessionVars, taskVars, uiVars
<1>1. CASE HandleCommand \/ ExpirePendingRelease
  <2>1. co.at = "loop" /\ UNCHANGED <<rec, canc, task>>
    BY <1>1 DEF HandleCommand, HandleInput, PressCancelsRelease, ReleaseDeferred,
       ReleaseIgnored, PressDebounced, PressHandled, HandleCancel, HandleSilenceStop,
       HandleProcessingFinished, HandleRecordingModeChange, ExpirePendingRelease, Receive
  <2>2. tray' \subseteq tray
    BY <1>1 DEF HandleCommand, HandleInput, PressCancelsRelease, ReleaseDeferred,
       ReleaseIgnored, PressDebounced, PressHandled, HandleCancel, HandleSilenceStop,
       HandleProcessingFinished, HandleRecordingModeChange, ExpirePendingRelease,
       RecoverWedgedStage
  <2> QED BY <2>1, <2>2, TrayFrame DEF RecordingOwner, TaskWorks
<1>2. CASE AnnounceRecording
  <2>1. co'.at = "started" /\ tray' = tray \cup {"recording"} /\ UNCHANGED task
    BY <1>2 DEF AnnounceRecording, Goto, TypeOK, Coordinator
  <2> QED BY <2>1 DEF TrayIsOwned, RecordingOwner, TaskWorks
<1>3. CASE FinishStart
  <2>1. \/ tray' = {}
        \/ IsRecording /\ UNCHANGED <<tray, rec, task>>
    BY <1>3 DEF FinishStart
  <2> QED BY <2>1 DEF TrayIsOwned, RecordingOwner, TaskWorks, IsRecording
<1>4. CASE Starting /\ ~AnnounceRecording /\ ~FinishStart
  <2>1. UNCHANGED <<task, canc>> /\ (tray' = {} \/ (UNCHANGED <<tray, rec>>))
    BY <1>4 DEF Starting, StartRefused, BeginSession, ActivateSession, StartOffline,
       SpawnMicThread, ShowStartUi, JoinCancelled, JoinLive, JoinFailed
  <2>2. co.at \notin {"started", "stop", "launch"}
    BY <1>4 DEF Starting, StartRefused, BeginSession, ActivateSession, StartOffline,
       SpawnMicThread, ShowStartUi, JoinCancelled, JoinLive, JoinFailed
  <2> QED BY <2>1, <2>2, TrayFrame DEF TrayIsOwned, RecordingOwner, TaskWorks
<1>5. CASE StopRecorder \/ CaptureTaken
  <2>1. UNCHANGED <<tray, task>> /\ (co'.at = "launch" \/ rec'.state = "Stopping")
    BY <1>5 DEF StopRecorder, CaptureTaken, Goto, TypeOK, Coordinator, Recorder
  <2> QED BY <2>1 DEF TrayIsOwned, RecordingOwner, TaskWorks
<1>6. CASE LaunchTask
  <2>1. tray' = tray \ {"recording"}
    BY <1>6 DEF LaunchTask
  <2> QED BY <1>6, <2>1, LaunchWorks DEF TrayIsOwned
<1> QED BY <1>1, <1>2, <1>3, <1>4, <1>5, <1>6 DEF CoordinatorStep, Stopping

LEMMA TrayCancel ==
  ASSUME TypeOK, TrayIsOwned, NEW c \in Cancellers, CancellerStep(c) \/ CancelBegins(c)
  PROVE  TrayIsOwned'
<1> USE DEF micVars, sessionVars, taskVars, uiVars
<1>1. UNCHANGED <<co, task>> /\ tray' \subseteq tray
  BY DEF CancellerStep, CancelBegins, CancelSwaps, CancelsNothing, CancelMarks,
     CancelAborts, CancelQuietsUi, CancelNotifies, CancelEnds
<1>2. CASE CancelAborts(c)
  <2>1. canc'[c].at = "quiet"
    BY <1>2 DEF CancelAborts, CancGoto, TypeOK, Canceller
  <2> QED BY <1>1, <2>1 DEF TrayIsOwned, RecordingOwner, TaskWorks
<1>3. CASE CancelQuietsUi(c)
  <2>1. tray' = {}
    BY <1>3 DEF CancelQuietsUi
  <2> QED BY <2>1 DEF TrayIsOwned
<1>4. CASE ~CancelAborts(c) /\ ~CancelQuietsUi(c)
  <2>1. UNCHANGED rec /\ canc[c].at # "quiet"
    BY <1>4 DEF CancellerStep, CancelBegins, CancelSwaps, CancelsNothing, CancelMarks,
       CancelNotifies, CancelEnds, CancAt
  <2>2. \A d \in Cancellers : d # c => canc'[d] = canc[d]
    BY <1>4 DEF CancellerStep, CancelBegins, CancelSwaps, CancelsNothing, CancelMarks,
       CancelNotifies, CancelEnds, CancGoto, TypeOK
  <2>3. RecordingOwner => RecordingOwner'
    BY <1>1, <2>1, <2>2 DEF RecordingOwner
  <2>4. TaskWorks => TaskWorks'
    BY <1>1 DEF TaskWorks
  <2> QED BY <1>1, <2>3, <2>4, TrayFrame
<1> QED BY <1>2, <1>3, <1>4

LEMMA TrayNext ==
  TypeOK /\ NoPanicLeft /\ Unspent("clear") /\ TrayIsOwned /\ [Next]_vars
    => TrayIsOwned'
<1> SUFFICES ASSUME TypeOK, NoPanicLeft, Unspent("clear"), TrayIsOwned, [Next]_vars
             PROVE  TrayIsOwned'
  OBVIOUS
<1> USE DEF micVars, sessionVars, taskVars, uiVars
<1>1. CASE CoordinatorStep
  BY <1>1, TrayCoordinator
<1>2. CASE MicStep
  <2>1. UNCHANGED <<co, canc, task, tray>> /\ (UNCHANGED rec \/ rec'.state = "Recording")
    BY <1>2 DEF MicStep, MicOpens, MicFails
  <2> QED BY <2>1 DEF TrayIsOwned, RecordingOwner, TaskWorks
<1>3. CASE \E t \in TaskIds : TaskStep(t)
  <2>1. PICK t \in TaskIds : TaskStep(t)
    BY <1>3
  <2>2. UNCHANGED <<rec, co, canc>>
    BY <2>1 DEF TaskStep, TaskBegun, TaskAnnounces, TaskChecksStart, TaskDecodes,
       TaskChecksDecode, TaskShowsPill, TaskChecksShow, TaskPostProcesses, TaskChecksPost,
       TaskDelivers, TaskTerminates, GuardTests, GuardTestsAgain, GuardStores,
       GuardPaints, GuardNotifies
  <2>3. CASE TaskAnnounces(t)
    <3>1. tray' = tray \cup {"transcribing"}
      BY <2>3 DEF TaskAnnounces
    <3>2. task'[t].phase = "checkStart"
      BY <2>3 DEF TaskAnnounces, Move, TypeOK, Task
    <3>3. TaskWorks'
      BY <3>2 DEF TaskWorks, WorkPhases
    <3> QED BY <2>2, <3>1, <3>3 DEF TrayIsOwned, RecordingOwner
  <2>4. CASE ~TaskAnnounces(t)
    <3>1. tray' \subseteq tray
      BY <2>1, <2>4 DEF TaskStep, TaskBegun, TaskChecksStart, TaskDecodes,
         TaskChecksDecode, TaskShowsPill, TaskChecksShow, TaskPostProcesses,
         TaskChecksPost, TaskDelivers, TaskTerminates, GuardTests, GuardTestsAgain,
         GuardStores, GuardPaints, GuardNotifies, CleanedUp, Passes
    <3>2. CASE tray' = {}
      BY <3>2 DEF TrayIsOwned
    <3>3. CASE TaskWorks => TaskWorks'
      BY <2>2, <3>1, <3>3, TrayFrame DEF RecordingOwner
    <3> QED BY <2>1, <3>2, <3>3, WorkGoesOn
  <2> QED BY <2>3, <2>4
<1>4. CASE \E c \in Cancellers : CancellerStep(c) \/ CancelBegins(c)
  BY <1>4, TrayCancel
<1>5. CASE OfflineNoticeHide \/ SilenceFires \/ KeyDown \/ KeyUp \/ KeyEcho \/ TogglePress
           \/ SilenceCheck \/ ModeChange \/ UNCHANGED vars
  <2>1. UNCHANGED <<rec, co, canc, task, tray>>
    BY <1>5 DEF OfflineNoticeHide, SilenceFires, KeyDown, KeyUp, KeyEcho, TogglePress,
       SilenceCheck, ModeChange, vars
  <2> QED BY <2>1 DEF TrayIsOwned, RecordingOwner, TaskWorks
<1>6. ~ClearAudioQueue /\ ~Panic /\ ~DetachedMicStep
  BY NoPanicStep, NoStepUnspent DEF ClearAudioQueue
<1> QED BY <1>1, <1>2, <1>3, <1>4, <1>5, <1>6 DEF Next, Environment

-----------------------------------------------------------------------------
\* Without cancels the stage Recording vouches for the tray as well: every way
\* out of it repaints.  A capture that clear_audio_queue takes away is one of
\* that stage, or of a start that has not armed the tray or still looks at it.
CalmOwner ==
  \/ rec.state # "Idle" \/ co.at \in {"started", "stop", "launch"}
  \/ stage.kind = "Recording"

CalmTray ==
  /\ "recording" \in tray =>
       CalmOwner /\ co.at \notin {"start", "activate", "gate", "ui", "join", "announce"}
  /\ "transcribing" \in tray => TaskWorks
  /\ rec.state = "Stopping" => co.at = "capture"

LEMMA CalmTrayCommand ==
  ASSUME TypeOK, TriggerInv, CalmInv, CaptureIsOwned, CalmTray,
         HandleCommand \/ ExpirePendingRelease
  PROVE  CalmTray'
<1> USE DEF micVars, sessionVars, taskVars, uiVars
<1>1. co.at = "loop" /\ UNCHANGED <<rec, task>>
  BY DEF HandleCommand, HandleInput, PressCancelsRelease, ReleaseDeferred,
     ReleaseIgnored, PressDebounced, PressHandled, HandleCancel, HandleSilenceStop,
     HandleProcessingFinished, HandleRecordingModeChange, ExpirePendingRelease, Receive
<1>2. rec.state # "Stopping" /\ (IsRecording => stage.kind = "Recording")
  BY <1>1 DEF TriggerInv, CaptureIsOwned, CalmTray
<1>3. "recording" \in tray => stage.kind = "Recording"
  BY <1>1, <1>2 DEF CalmTray, CalmOwner, IsRecording, TypeOK, Recorder
<1>4. ~HandleCancel
  <2>1. ASSUME Receive("Cancel") PROVE FALSE
    <3>1. 1 \in DOMAIN queue /\ Head(queue) = queue[1]
      BY <2>1 DEF Receive, TypeOK
    <3> QED BY <2>1, <3>1 DEF Receive, CalmInv
  <2> QED BY <2>1 DEF HandleCancel
<1>5. ASSUME NEW stuck, NEW next, RecoverWedgedStage(stuck, next)
      PROVE  tray' = {} \/ (tray' = tray /\ next = stage)
  BY <1>5 DEF RecoverWedgedStage
<1>6. CASE PressHandled
  <2>1. PICK stuck \in StuckChoices, next \in {stage, IdleStage} :
          /\ RecoverWedgedStage(stuck, next)
          /\ stage' = next
          /\ co' = IF next.kind = "Idle" THEN [co EXCEPT !.at = "start"]
                   ELSE IF next.kind = "Recording" /\ ~Head(queue).ptt
                   THEN [co EXCEPT !.at = "stop", !.stopFor = 0]
                   ELSE co
    BY <1>6 DEF PressHandled
  <2>2. tray' = {} \/ (tray' = tray /\ stage' = stage)
    BY <2>1, <1>5
  <2>3. stage'.kind = "Recording" => co'.at \in {"loop", "stop"}
    BY <1>1, <2>1 DEF TypeOK, Coordinator
  <2> QED BY <1>1, <1>2, <1>3, <2>2, <2>3 DEF CalmTray, CalmOwner, TaskWorks
<1>7. CASE HandleSilenceStop \/ HandleRecordingModeChange
  <2>1. tray' = {} \/ (tray' = tray /\ stage' = stage)
    BY <1>5, <1>7 DEF HandleSilenceStop, HandleRecordingModeChange
  <2>2. co'.at \in {"loop", "stop"}
    BY <1>1, <1>7 DEF HandleSilenceStop, HandleRecordingModeChange, TypeOK, Coordinator
  <2> QED BY <1>1, <1>2, <1>3, <2>1, <2>2 DEF CalmTray, CalmOwner, TaskWorks
<1>8. CASE HandleProcessingFinished
  <2>1. /\ UNCHANGED <<co, tray>>
        /\ stage' = stage \/ stage.kind = "Processing"
    BY <1>8 DEF HandleProcessingFinished
  <2> QED BY <1>1, <1>2, <1>3, <2>1 DEF CalmTray, CalmOwner, TaskWorks
<1>9. CASE PressCancelsRelease \/ ReleaseDeferred \/ ReleaseIgnored \/ PressDebounced
           \/ ExpirePendingRelease
  <2>1. UNCHANGED <<stage, tray>>
    BY <1>9 DEF PressCancelsRelease, ReleaseDeferred, ReleaseIgnored, PressDebounced,
       ExpirePendingRelease
  <2>2. co'.at \in {"loop", "stop"}
    BY <1>1, <1>9 DEF PressCancelsRelease, ReleaseDeferred, ReleaseIgnored,
       PressDebounced, ExpirePendingRelease, TypeOK, Coordinator
  <2> QED BY <1>1, <1>2, <1>3, <2>1, <2>2 DEF CalmTray, CalmOwner, TaskWorks
<1> QED BY <1>4, <1>6, <1>7, <1>8, <1>9 DEF HandleCommand, HandleInput

LEMMA CalmTrayStarting ==
  ASSUME TypeOK, CalmTray, Starting \/ Stopping
  PROVE  CalmTray'
<1> USE DEF micVars, sessionVars, taskVars, uiVars
<1>1. CASE AnnounceRecording
  <2>1. /\ co'.at = "started" /\ tray' = tray \cup {"recording"}
        /\ UNCHANGED <<task, rec>> /\ co.at = "announce"
    BY <1>1 DEF AnnounceRecording, Goto, TypeOK, Coordinator
  <2> QED BY <2>1 DEF CalmTray, CalmOwner, TaskWorks
<1>2. CASE FinishStart
  <2>1. /\ co.at = "started" /\ co'.at = "loop" /\ UNCHANGED <<rec, task>>
        /\ tray' = {} \/ (IsRecording /\ tray' = tray)
    BY <1>2 DEF FinishStart, Goto, TypeOK, Coordinator
  <2> QED BY <2>1 DEF CalmTray, CalmOwner, TaskWorks, IsRecording
<1>3. CASE StartRefused \/ BeginSession \/ ActivateSession \/ StartOffline \/ SpawnMicThread
           \/ ShowStartUi \/ JoinCancelled \/ JoinLive \/ JoinFailed
  <2>1. co.at \in {"start", "activate", "gate", "ui", "join"} /\ UNCHANGED task
    BY <1>3 DEF StartRefused, BeginSession, ActivateSession, StartOffline,
       SpawnMicThread, ShowStartUi, JoinCancelled, JoinLive, JoinFailed
  <2>2. tray' \subseteq tray
    BY <1>3 DEF StartRefused, BeginSession, ActivateSession, StartOffline,
       SpawnMicThread, ShowStartUi, JoinCancelled, JoinLive, JoinFailed
  <2>3. rec'.state # "Stopping"
    BY <1>3, <2>1 DEF StartRefused, BeginSession, ActivateSession, StartOffline,
       SpawnMicThread, ShowStartUi, JoinCancelled, JoinLive, JoinFailed, CancelRecording,
       CalmTray, TypeOK, Recorder, IsRecording
  <2> QED BY <2>1, <2>2, <2>3 DEF CalmTray, TaskWorks
<1>4. CASE StopRecorder
  <2>1. /\ UNCHANGED <<tray, task>> /\ co.at = "stop"
        /\ \/ co'.at = "launch" /\ UNCHANGED rec
           \/ co'.at = "capture" /\ rec'.state = "Stopping"
    BY <1>4 DEF StopRecorder, Goto, TypeOK, Coordinator, Recorder
  <2> QED BY <2>1 DEF CalmTray, CalmOwner, TaskWorks
<1>5. CASE CaptureTaken
  <2>1. UNCHANGED <<tray, task>> /\ co'.at = "launch" /\ rec'.state = "Idle"
    BY <1>5 DEF CaptureTaken, TypeOK, Coordinator, Recorder
  <2> QED BY <2>1 DEF CalmTray, CalmOwner, TaskWorks
<1>6. CASE LaunchTask
  <2>1. tray' = tray \ {"recording"} /\ co.at = "launch" /\ UNCHANGED rec
    BY <1>6 DEF LaunchTask
  <2> QED BY <1>6, <2>1, LaunchWorks DEF CalmTray
<1> QED BY <1>1, <1>2, <1>3, <1>4, <1>5, <1>6 DEF Starting, Stopping

LEMMA CalmTrayNext ==
  ASSUME TypeOK, TriggerInv, CalmInv, NoPanicLeft, CaptureIsOwned, CalmTray, [Next]_vars
  PROVE  CalmTray'
<1> USE DEF micVars, sessionVars, taskVars, uiVars
<1>1. CASE CoordinatorStep
  BY <1>1, CalmTrayCommand, CalmTrayStarting DEF CoordinatorStep
<1>2. CASE MicStep
  <2>1. /\ UNCHANGED <<co, stage, task, tray>>
        /\ UNCHANGED rec \/ rec'.state = "Recording"
    BY <1>2 DEF MicStep, MicOpens, MicFails
  <2> QED BY <2>1 DEF CalmTray, CalmOwner, TaskWorks
<1>3. CASE \E t \in TaskIds : TaskStep(t)
  <2>1. PICK t \in TaskIds : TaskStep(t)
    BY <1>3
  <2>2. UNCHANGED <<rec, co, stage>>
    BY <2>1 DEF TaskStep, TaskBegun, TaskAnnounces, TaskChecksStart, TaskDecodes,
       TaskChecksDecode, TaskShowsPill, TaskChecksShow, TaskPostProcesses, TaskChecksPost,
       TaskDelivers, TaskTerminates, GuardTests, GuardTestsAgain, GuardStores,
       GuardPaints, GuardNotifies
  <2>3. CASE TaskAnnounces(t)
    <3>1. tray' = tray \cup {"transcribing"}
      BY <2>3 DEF TaskAnnounces
    <3>2. task'[t].phase = "checkStart"
      BY <2>3 DEF TaskAnnounces, Move, TypeOK, Task
    <3>3. TaskWorks'
      BY <3>2 DEF TaskWorks, WorkPhases
    <3> QED BY <2>2, <3>1, <3>3 DEF CalmTray, CalmOwner
  <2>4. CASE ~TaskAnnounces(t)
    <3>1. tray' \subseteq tray
      BY <2>1, <2>4 DEF TaskStep, TaskBegun, TaskChecksStart, TaskDecodes,
         TaskChecksDecode, TaskShowsPill, TaskChecksShow, TaskPostProcesses,
         TaskChecksPost, TaskDelivers, TaskTerminates, GuardTests, GuardTestsAgain,
         GuardStores, GuardPaints, GuardNotifies, CleanedUp, Passes
    <3>2. tray' = {} \/ (TaskWorks => TaskWorks')
      BY <2>1, WorkGoesOn
    <3> QED BY <2>2, <3>1, <3>2 DEF CalmTray, CalmOwner
  <2> QED BY <2>3, <2>4
<1>4. ASSUME NEW c \in Cancellers PROVE ~CancellerStep(c) /\ ~CancelBegins(c)
  <2>1. ~CancellerStep(c)
    BY <1>4 DEF CalmInv, CancellerStep, CancelSwaps, CancelsNothing, CancelMarks,
       CancelAborts, CancelQuietsUi, CancelNotifies, CancelEnds, CancAt
  <2>2. ~CancelBegins(c)
    BY NoStepUnspent DEF CalmInv, CancelBegins
  <2> QED BY <2>1, <2>2
<1>5. CASE ClearAudioQueue
  <2>1. UNCHANGED <<co, stage, task, tray>> /\ CancelRecording
    BY <1>5 DEF ClearAudioQueue
  <2>2. CASE ~IsRecording
    BY <2>1, <2>2 DEF CancelRecording, CalmTray, CalmOwner, TaskWorks
  <2>3. CASE IsRecording
    <3>1. co.at \in {"ui", "join", "announce", "started"} \/ stage.kind = "Recording"
      BY <2>3 DEF CaptureIsOwned, TriggerInv
    <3>2. rec'.state = "Idle"
      BY <2>1, <2>3 DEF CancelRecording, TypeOK, Recorder
    <3> QED BY <2>1, <3>1, <3>2 DEF CalmTray, CalmOwner, TaskWorks
  <2> QED BY <2>2, <2>3
<1>6. CASE OfflineNoticeHide \/ SilenceFires \/ KeyDown \/ KeyUp \/ KeyEcho \/ TogglePress
           \/ SilenceCheck \/ ModeChange \/ UNCHANGED vars
  <2>1. UNCHANGED <<rec, co, stage, task, tray>>
    BY <1>6 DEF OfflineNoticeHide, SilenceFires, KeyDown, KeyUp, KeyEcho, TogglePress,
       SilenceCheck, ModeChange, vars
  <2> QED BY <2>1 DEF CalmTray, CalmOwner, TaskWorks
<1>7. ~Panic /\ ~DetachedMicStep
  BY NoPanicStep
<1> QED BY <1>1, <1>2, <1>3, <1>4, <1>5, <1>6, <1>7 DEF Next, Environment

\* The tray is idle at rest when nobody clears the queue, with any cancels.
LEMMA TrayRestsUncleared ==
  ASSUME NobodyClears, NothingPanics
  PROVE  Spec => []TrayComesHome
<1> DEFINE I == NoPanicLeft /\ Unspent("clear") /\ TrayIsOwned
<1>1. TypeOK /\ I => TrayComesHome
  <2> SUFFICES ASSUME TypeOK, TrayIsOwned, AtRest PROVE tray = {}
    BY DEF TrayComesHome
  <2>1. ~RecordingOwner
    BY DEF RecordingOwner, AtRest, CancelInFlight
  <2>2. ~TaskWorks
    BY DEF TaskWorks, AtRest, WorkPhases
  <2> QED BY <2>1, <2>2 DEF TrayIsOwned, TypeOK
<1>2. Init => I
  BY NoPanicInit DEF Init, Unspent, NobodyClears, TrayIsOwned
<1>3. TypeOK /\ I /\ [Next]_vars => I'
  BY TrayNext, UnspentStays, NoPanicStays DEF BudgetKinds
<1> HIDE DEF I
<1> QED BY <1>1, <1>2, <1>3, TypeCorrect, PTL DEF Spec

\* The tray is idle at rest when nobody cancels, with any clears.
LEMMA TrayRestsUncancelled ==
  ASSUME NobodyCancels, NothingPanics
  PROVE  Spec => []TrayComesHome
<1> DEFINE I == TriggerInv /\ CalmInv /\ NoPanicLeft /\ CaptureIsOwned /\ CalmTray
<1>1. TypeOK /\ I => TrayComesHome
  <2> SUFFICES ASSUME TypeOK, CalmTray, AtRest PROVE tray = {}
    BY DEF TrayComesHome
  <2>1. ~CalmOwner
    BY DEF CalmOwner, AtRest
  <2>2. ~TaskWorks
    BY DEF TaskWorks, AtRest, WorkPhases
  <2> QED BY <2>1, <2>2 DEF CalmTray, TypeOK
<1>2. Init => I
  BY TriggerInit, CalmInit, CaptureInit, NoPanicInit DEF Init, CalmTray
<1>3. TypeOK /\ I /\ [Next]_vars => I'
  BY TriggerNext, CalmNext, CaptureNext, CalmTrayNext, NoPanicStays DEF NoPanicLeft
<1> HIDE DEF I
<1> QED BY <1>1, <1>2, <1>3, TypeCorrect, PTL DEF Spec

\* Without contained panics, and unless clear_audio_queue meets a cancel, the
\* tray is never left animating when every thread rests, however cancels or
\* clears, offline refusals, recoveries and mode changes interleave
\* (change_tray_icon, on_tray_idle, cancelled_session_cleanup,
\* recover_wedged_stage).
THEOREM TrayRests ==
  ASSUME NothingPanics, NobodyClears \/ NobodyCancels
  PROVE  Spec => []TrayComesHome
<1>1. CASE NobodyClears
  BY <1>1, TrayRestsUncleared
<1>2. CASE NobodyCancels
  BY <1>2, TrayRestsUncancelled
<1> QED BY <1>1, <1>2
-----------------------------------------------------------------------------
\* Whoever shows the pill is still there to hide it.
PillIsOwned ==
  /\ mic = "ok" => IsRecording
  /\ overlay => \/ notices > 0 \/ rec.state # "Idle" \/ co.at \in {"join", "stop", "launch"}
                \/ TaskWorks

LEMMA PillFrame ==
  ASSUME PillIsOwned, UNCHANGED <<mic, rec>>, overlay' => overlay, notices' >= notices,
         notices \in Nat, notices' \in Nat,
         co'.at = co.at \/ co.at \notin {"join", "stop", "launch"}, TaskWorks => TaskWorks'
  PROVE  PillIsOwned'
<1>1. notices > 0 => notices' > 0
  OBVIOUS
<1> QED BY <1>1 DEF PillIsOwned, IsRecording

LEMMA PillCoordinator ==
  ASSUME TypeOK, TriggerInv, CalmInv, cancelledThrough = 0, PillIsOwned, CoordinatorStep
  PROVE  PillIsOwned'
<1> USE DEF micVars, sessionVars, taskVars, uiVars
<1>1. CASE HandleCommand \/ ExpirePendingRelease
  <2>1. co.at = "loop" /\ UNCHANGED <<mic, rec, task, notices>>
    BY <1>1 DEF HandleCommand, HandleInput, PressCancelsRelease, ReleaseDeferred,
       ReleaseIgnored, PressDebounced, PressHandled, HandleCancel, HandleSilenceStop,
       HandleProcessingFinished, HandleRecordingModeChange, ExpirePendingRelease, Receive
  <2>2. overlay' => overlay
    BY <1>1 DEF HandleCommand, HandleInput, PressCancelsRelease, ReleaseDeferred,
       ReleaseIgnored, PressDebounced, PressHandled, HandleCancel, HandleSilenceStop,
       HandleProcessingFinished, HandleRecordingModeChange, ExpirePendingRelease,
       RecoverWedgedStage
  <2> QED BY <2>1, <2>2, PillFrame DEF TypeOK, TaskWorks
<1>2. CASE StartOffline
  <2>1. notices' = notices + 1 /\ UNCHANGED <<mic, rec>>
    BY <1>2 DEF StartOffline
  <2> QED BY <2>1 DEF PillIsOwned, TypeOK, IsRecording
<1>3. CASE SpawnMicThread
  <2>1. mic' = "opening" /\ co.at = "gate" /\ UNCHANGED <<rec, overlay, notices, task>>
    BY <1>3 DEF SpawnMicThread
  <2> QED BY <2>1 DEF PillIsOwned, TaskWorks
<1>4. CASE ShowStartUi
  <2>1. co'.at = "join" /\ UNCHANGED <<mic, rec>>
    BY <1>4 DEF ShowStartUi, Goto, TypeOK, Coordinator
  <2> QED BY <2>1 DEF PillIsOwned, IsRecording
<1>5. CASE JoinCancelled
  BY <1>5 DEF JoinCancelled, Cancelled, TypeOK
<1>6. CASE JoinLive
  <2>1. mic = "ok" /\ mic' = "none" /\ UNCHANGED rec
    BY <1>6 DEF JoinLive
  <2> QED BY <2>1 DEF PillIsOwned, IsRecording
<1>7. CASE JoinFailed
  <2>1. mic' = "none" /\ ~overlay'
    BY <1>7 DEF JoinFailed
  <2> QED BY <2>1 DEF PillIsOwned
<1>8. CASE StartRefused \/ BeginSession \/ ActivateSession \/ AnnounceRecording \/ FinishStart
  <2>1. /\ UNCHANGED <<mic, rec, overlay, notices, task>>
        /\ co.at \notin {"join", "stop", "launch"}
    BY <1>8 DEF StartRefused, BeginSession, ActivateSession, AnnounceRecording, FinishStart
  <2> QED BY <2>1, PillFrame DEF TypeOK, TaskWorks
<1>9. CASE StopRecorder \/ CaptureTaken
  <2>1. mic' = mic /\ (co'.at = "launch" \/ rec'.state = "Stopping")
    BY <1>9 DEF StopRecorder, CaptureTaken, Goto, TypeOK, Coordinator, Recorder
  <2>2. mic = "none"
    BY <1>9 DEF TriggerInv, StopRecorder, CaptureTaken
  <2> QED BY <2>1, <2>2 DEF PillIsOwned
<1>10. CASE LaunchTask
  <2>1. UNCHANGED <<mic, rec>>
    BY <1>10 DEF LaunchTask
  <2> QED BY <1>10, <2>1, LaunchWorks DEF PillIsOwned, IsRecording
<1> QED BY <1>1, <1>2, <1>3, <1>4, <1>5, <1>6, <1>7, <1>8, <1>9, <1>10
        DEF CoordinatorStep, Starting, Stopping

LEMMA NobodyMarked ==
  TypeOK /\ CalmInv /\ cancelledThrough = 0 /\ [Next]_vars => cancelledThrough' = 0
<1> SUFFICES ASSUME TypeOK, CalmInv, cancelledThrough = 0, [Next]_vars
             PROVE  cancelledThrough' = 0
  OBVIOUS
<1> USE DEF micVars, sessionVars, taskVars, uiVars
<1>1. ASSUME NEW c \in Cancellers PROVE ~CancelMarks(c)
  BY DEF CalmInv, CancelMarks, CancAt
<1>2. CASE CoordinatorStep
  BY <1>2 DEF CoordinatorStep, HandleCommand, HandleInput, PressCancelsRelease,
     ReleaseDeferred, ReleaseIgnored, PressDebounced, PressHandled, HandleCancel,
     HandleSilenceStop, HandleProcessingFinished, HandleRecordingModeChange,
     ExpirePendingRelease, Starting, StartRefused, BeginSession,
     ActivateSession, StartOffline, SpawnMicThread, ShowStartUi, JoinCancelled, JoinLive,
     JoinFailed, AnnounceRecording, FinishStart, Stopping, StopRecorder, CaptureTaken,
     LaunchTask
<1>3. CASE ~CoordinatorStep
  BY <1>1, <1>3 DEF Next, MicStep, MicOpens, MicFails, DetachedMicStep, DetachedMicOpens,
     DetachedMicFails, StartPanics, OfflineNoticeHide, SilenceFires,
     TaskStep, TaskBegun, TaskAnnounces, TaskChecksStart, TaskDecodes, TaskChecksDecode,
     TaskShowsPill, TaskChecksShow, TaskPostProcesses, TaskChecksPost, TaskDelivers,
     TaskTerminates, GuardTests, GuardTestsAgain, GuardStores, GuardPaints,
     GuardNotifies, CancellerStep, CancelSwaps, CancelsNothing, CancelAborts,
     CancelQuietsUi, CancelNotifies, CancelEnds, Environment, KeyDown,
     KeyUp, KeyEcho, TogglePress, SilenceCheck, ClearAudioQueue, ModeChange,
     CancelBegins, Panic, CoordinatorPanics, TaskPanics, vars
<1> QED BY <1>2, <1>3

LEMMA PillNext ==
  /\ TypeOK /\ TriggerInv /\ CalmInv /\ cancelledThrough = 0
  /\ NoPanicLeft /\ Unspent("clear") /\ PillIsOwned /\ [Next]_vars
  => PillIsOwned'
<1> SUFFICES ASSUME TypeOK, TriggerInv, CalmInv, cancelledThrough = 0, NoPanicLeft,
                    Unspent("clear"), PillIsOwned, [Next]_vars
             PROVE  PillIsOwned'
  OBVIOUS
<1> USE DEF micVars, sessionVars, taskVars, uiVars
<1>1. CASE CoordinatorStep
  BY <1>1, PillCoordinator
<1>2. CASE MicOpens
  BY <1>2 DEF MicOpens, PillIsOwned, IsRecording
<1>3. CASE MicFails
  <2>1. mic' = "failed" /\ UNCHANGED <<rec, co, notices, overlay, task>>
    BY <1>3 DEF MicFails
  <2> QED BY <2>1 DEF PillIsOwned, TaskWorks
<1>4. CASE OfflineNoticeHide
  BY <1>4 DEF OfflineNoticeHide, PillIsOwned, IsRecording
<1>5. CASE \E t \in TaskIds : TaskStep(t)
  <2>1. PICK t \in TaskIds : TaskStep(t)
    BY <1>5
  <2>2. UNCHANGED <<mic, rec, co, notices>>
    BY <2>1 DEF TaskStep, TaskBegun, TaskAnnounces, TaskChecksStart, TaskDecodes,
       TaskChecksDecode, TaskShowsPill, TaskChecksShow, TaskPostProcesses, TaskChecksPost,
       TaskDelivers, TaskTerminates, GuardTests, GuardTestsAgain, GuardStores,
       GuardPaints, GuardNotifies
  <2>3. CASE ~overlay'
    BY <2>2, <2>3 DEF PillIsOwned, IsRecording
  <2>4. CASE TaskShowsPill(t)
    <3>1. task'[t].phase = "checkShow"
      BY <2>4 DEF TaskShowsPill, Move, TypeOK, Task
    <3>2. TaskWorks'
      BY <3>1 DEF TaskWorks, WorkPhases
    <3> QED BY <2>2, <3>2 DEF PillIsOwned, IsRecording
  <2>5. CASE ~TaskShowsPill(t) /\ (TaskWorks => TaskWorks')
    <3>1. overlay' => overlay
      BY <2>1, <2>5 DEF TaskStep, TaskBegun, TaskAnnounces, TaskChecksStart, TaskDecodes,
         TaskChecksDecode, TaskChecksShow, TaskPostProcesses, TaskChecksPost,
         TaskDelivers, TaskTerminates, GuardTests, GuardTestsAgain, GuardStores,
         GuardPaints, GuardNotifies, CleanedUp, Passes
    <3> QED BY <2>2, <2>5, <3>1, PillFrame DEF TypeOK
  <2> QED BY <2>1, <2>3, <2>4, <2>5, WorkGoesOn
<1>6. ASSUME NEW c \in Cancellers PROVE ~CancelBegins(c) /\ ~CancellerStep(c)
  BY DEF CalmInv, Unspent, CancelBegins, Spend, CancellerStep, CancelSwaps,
     CancelsNothing, CancelMarks, CancelAborts, CancelQuietsUi, CancelNotifies, CancelEnds,
     CancAt
<1>7. CASE SilenceFires \/ KeyDown \/ KeyUp \/ KeyEcho \/ TogglePress
           \/ SilenceCheck \/ ModeChange \/ UNCHANGED vars
  <2>1. UNCHANGED <<mic, rec, co, task, overlay, notices>>
    BY <1>7 DEF SilenceFires, KeyDown, KeyUp, KeyEcho, TogglePress, SilenceCheck,
       ModeChange, vars
  <2> QED BY <2>1, PillFrame DEF TypeOK, TaskWorks
<1>8. ~ClearAudioQueue /\ ~Panic /\ ~DetachedMicStep
  BY NoPanicStep, NoStepUnspent DEF ClearAudioQueue
<1> QED BY <1>1, <1>2, <1>3, <1>4, <1>5, <1>6, <1>7, <1>8 DEF Next, MicStep, Environment

\* Without cancels, clear_audio_queue and contained panics the pill is off the
\* screen when every thread rests, whatever offline notices, failed opens,
\* recoveries and mode changes showed it (hide_recording_overlay).
THEOREM PillRests ==
  ASSUME NobodyCancels, NobodyClears, NothingPanics
  PROVE  Spec => []PillComesDown
<1> DEFINE I == /\ TriggerInv /\ CalmInv /\ cancelledThrough = 0
                /\ NoPanicLeft /\ Unspent("clear") /\ PillIsOwned
<1>1. TypeOK /\ I => PillComesDown
  BY DEF PillComesDown, AtRest, PillIsOwned, TaskWorks, WorkPhases
<1>2. Init => I
  BY TriggerInit, CalmInit, NoPanicInit DEF Init, Unspent, NobodyClears, PillIsOwned
<1>3. TypeOK /\ I /\ [Next]_vars => I'
  BY TriggerNext, CalmNext, NobodyMarked, PillNext, UnspentStays, NoPanicStays
     DEF BudgetKinds, NoPanicLeft
<1> HIDE DEF I
<1> QED BY <1>1, <1>2, <1>3, TypeCorrect, PTL DEF Spec
-----------------------------------------------------------------------------
(***************************************************************************)
(* A busy dictation can be cancelled.  The flag that a cancel swaps and    *)
(* the Escape key are set while a take starts, records or is worked on,    *)
(* because the only task there is belongs to the stage, and because the    *)
(* report that ends the stage comes after that task's last store.          *)
(***************************************************************************)
NobodyGivesUp == Budget["wedge"] = 0

Active(t)   == task[t].phase \notin {"free", "done"}
Cancellable == pipelineActive /\ escKey

\* The i-th message is the report of the current session.
IsReport(i) ==
  queue[i].type = "ProcessingFinished" /\ queue[i].session = currentSession

\* The task that is not done is the only one, and it works for the stage.
TaskIsStages ==
  /\ \A t \in TaskIds : Active(t) =>
       stage.kind = "Processing" /\ task[t].session = currentSession
  /\ \A t, u \in TaskIds : Active(t) /\ Active(u) => t = u

\* The report of the current session ends its stage: it is the only one, and
\* its task is done.
ReportIsLast ==
  /\ \A i \in DOMAIN queue :
       queue[i].type = "ProcessingFinished" => queue[i].session <= currentSession
  /\ \A i \in DOMAIN queue : IsReport(i) =>
       stage.kind = "Processing" /\ \A t \in TaskIds : ~Active(t)
  /\ \A i, j \in DOMAIN queue : IsReport(i) /\ IsReport(j) => i = j

\* Who needs the flag and the key has them.
FlagsAreSet ==
  /\ co.at \in {"gate", "ui", "join", "announce"} => pipelineActive
  /\ co.at \in {"join", "announce"} => escKey
  /\ co.at = "started" /\ IsRecording => Cancellable
  /\ stage.kind = "Recording" => Cancellable
  /\ TaskWorks => Cancellable
  /\ co.at \in StopPoints => stage.kind = "Recording"

BusyInv == TaskIsStages /\ ReportIsLast /\ FlagsAreSet

LEMMA QueueShrinks ==
  ASSUME TypeOK, NEW type, Receive(type)
  PROVE  /\ \A i \in DOMAIN queue' : i + 1 \in DOMAIN queue /\ queue'[i] = queue[i + 1]
         /\ 1 \in DOMAIN queue /\ queue[1] = Head(queue) /\ DOMAIN queue' \subseteq Nat \ {0}
BY DEF TypeOK, Receive

LEMMA QueueGrows ==
  ASSUME TypeOK, NEW m, Send(m)
  PROVE  \A i \in DOMAIN queue' :
           \/ i \in DOMAIN queue /\ queue'[i] = queue[i]
           \/ i = Len(queue) + 1 /\ queue'[i] = m
BY DEF TypeOK, Send

\* A step that keeps the tasks and at most drops or adds a message that is no
\* report.
LEMMA ReportFrame ==
  ASSUME TypeOK, TaskIsStages, ReportIsLast, UNCHANGED <<task, currentSession>>,
         stage' = stage \/ stage.kind # "Processing",
         \/ UNCHANGED queue
         \/ \E type : Receive(type)
         \/ \E m : Send(m) /\ m.type # "ProcessingFinished"
  PROVE  ReportIsLast'
<1>1. \A i \in DOMAIN queue : IsReport(i) => stage' = stage
  BY DEF ReportIsLast
<1>2. CASE UNCHANGED queue
  BY <1>1, <1>2 DEF ReportIsLast, IsReport, Active
<1>3. CASE \E type : Receive(type)
  <2>1. /\ \A i \in DOMAIN queue' : i + 1 \in DOMAIN queue /\ queue'[i] = queue[i + 1]
        /\ DOMAIN queue' \subseteq Nat \ {0}
    BY <1>3, QueueShrinks
  <2>2. \A i \in DOMAIN queue' : IsReport(i)' => IsReport(i + 1)
    BY <2>1 DEF IsReport
  <2>3. \A i, j \in DOMAIN queue' : IsReport(i)' /\ IsReport(j)' => i = j
    <3>1. SUFFICES ASSUME NEW i \in DOMAIN queue', NEW j \in DOMAIN queue',
                          IsReport(i)', IsReport(j)'
                   PROVE  i = j
      OBVIOUS
    <3>2. i + 1 = j + 1
      BY <2>1, <2>2, <3>1 DEF ReportIsLast
    <3> QED BY <2>1, <3>2
  <2>4. \A i \in DOMAIN queue' : IsReport(i)' =>
          stage'.kind = "Processing" /\ \A t \in TaskIds : ~Active(t)'
    BY <1>1, <2>1, <2>2 DEF ReportIsLast, Active
  <2>5. \A i \in DOMAIN queue' :
          queue'[i].type = "ProcessingFinished" => queue'[i].session <= currentSession
    BY <2>1 DEF ReportIsLast
  <2>6. currentSession' = currentSession
    OBVIOUS
  <2> QED BY <2>3, <2>4, <2>5, <2>6 DEF ReportIsLast
<1>4. CASE \E m : Send(m) /\ m.type # "ProcessingFinished"
  <2>1. \A i \in DOMAIN queue' :
          \/ i \in DOMAIN queue /\ queue'[i] = queue[i]
          \/ queue'[i].type # "ProcessingFinished"
    BY <1>4, QueueGrows
  <2>2. \A i \in DOMAIN queue' : IsReport(i)' => i \in DOMAIN queue /\ IsReport(i)
    BY <2>1 DEF IsReport
  <2>3. currentSession' = currentSession
    OBVIOUS
  <2> QED BY <1>1, <2>1, <2>2, <2>3 DEF ReportIsLast, Active
<1> QED BY <1>2, <1>3, <1>4

\* A step that leaves the coordinator and the tasks alone.
LEMMA BusyFrame ==
  ASSUME TypeOK, BusyInv, UNCHANGED <<task, currentSession, stage, co, pipelineActive, escKey>>,
         IsRecording' => IsRecording \/ co.at # "started",
         UNCHANGED queue \/ \E m : Send(m) /\ m.type # "ProcessingFinished"
  PROVE  BusyInv'
<1>1. ReportIsLast'
  BY ReportFrame DEF BusyInv
<1>2. TaskIsStages'
  BY DEF BusyInv, TaskIsStages, Active
<1>3. FlagsAreSet'
  BY DEF BusyInv, FlagsAreSet, Cancellable, TaskWorks
<1> QED BY <1>1, <1>2, <1>3 DEF BusyInv

\* Without a stage to give up, the recovery only drops a take that lost its
\* recorder.
LEMMA RecoverKeeps ==
  ASSUME TypeOK, Unspent("wedge"), NEW stuck, NEW next, RecoverWedgedStage(stuck, next)
  PROVE  \/ next = stage /\ pipelineActive' = pipelineActive
         \/ stage.kind = "Recording" /\ ~IsRecording /\ next = IdleStage
<1>1. ~(stuck /\ stage.kind = "Processing")
  BY NoStepUnspent DEF RecoverWedgedStage
<1>2. CASE LostRecorder
  BY <1>2 DEF RecoverWedgedStage, LostRecorder
<1>3. CASE ~LostRecorder
  <2>1. next = stage
    BY <1>1, <1>3 DEF RecoverWedgedStage
  <2>2. pipelineActive' = pipelineActive
    BY <1>1, <1>3, Zenon DEF RecoverWedgedStage, TypeOK
  <2> QED BY <2>1, <2>2
<1> QED BY <1>2, <1>3

LEMMA BusyCommand ==
  ASSUME TypeOK, TriggerInv, CalmInv, CaptureIsOwned, StageIsCurrent, Unspent("wedge"), BusyInv,
         HandleCommand \/ ExpirePendingRelease
  PROVE  BusyInv'
<1> USE DEF micVars, sessionVars, taskVars, uiVars
<1>1. co.at = "loop" /\ UNCHANGED <<mic, rec, task, escKey, currentSession>>
  BY DEF HandleCommand, HandleInput, PressCancelsRelease, ReleaseDeferred,
     ReleaseIgnored, PressDebounced, PressHandled, HandleCancel, HandleSilenceStop,
     HandleProcessingFinished, HandleRecordingModeChange, ExpirePendingRelease, Receive
<1>2. IsRecording => stage.kind = "Recording"
  BY <1>1 DEF CaptureIsOwned, TriggerInv
<1>3. ~HandleCancel
  <2>1. ASSUME Receive("Cancel") PROVE FALSE
    BY <2>1, QueueShrinks DEF Receive, CalmInv
  <2> QED BY <2>1 DEF HandleCancel
<1>4. UNCHANGED queue \/ \E type : Receive(type)
  BY DEF HandleCommand, HandleInput, PressCancelsRelease, ReleaseDeferred,
     ReleaseIgnored, PressDebounced, PressHandled, HandleCancel, HandleSilenceStop,
     HandleProcessingFinished, HandleRecordingModeChange, ExpirePendingRelease
<1>5. CASE HandleProcessingFinished /\ stage = [kind |-> "Processing", session |-> Head(queue).session]
  <2>1. /\ queue[1] = Head(queue) /\ 1 \in DOMAIN queue
        /\ \A i \in DOMAIN queue' : i + 1 \in DOMAIN queue /\ queue'[i] = queue[i + 1]
        /\ DOMAIN queue' \subseteq Nat \ {0}
        /\ Head(queue).type = "ProcessingFinished"
    BY <1>5, QueueShrinks DEF HandleProcessingFinished, Receive
  <2>2. stage.kind = "Processing" /\ stage.session = Head(queue).session
    BY <1>5
  <2>3. IsReport(1)
    BY <2>1, <2>2 DEF IsReport, StageIsCurrent
  <2>4. \A t \in TaskIds : ~Active(t)
    BY <2>1, <2>3 DEF BusyInv, ReportIsLast
  <2>5. \A i \in DOMAIN queue' : ~IsReport(i)'
    <3>1. SUFFICES ASSUME NEW i \in DOMAIN queue', IsReport(i)' PROVE FALSE
      OBVIOUS
    <3>2. IsReport(i + 1) /\ i + 1 \in DOMAIN queue
      BY <1>1, <2>1, <3>1 DEF IsReport
    <3>3. i + 1 = 1
      BY <2>1, <2>3, <3>2 DEF BusyInv, ReportIsLast
    <3> QED BY <2>1, <3>3
  <2>6. \A i \in DOMAIN queue' :
          queue'[i].type = "ProcessingFinished" => queue'[i].session <= currentSession
    BY <2>1 DEF BusyInv, ReportIsLast
  <2>7. \A t \in TaskIds : ~Active(t)'
    BY <1>1, <2>4 DEF Active
  <2>8. TaskIsStages' /\ ReportIsLast'
    BY <1>1, <2>5, <2>6, <2>7 DEF TaskIsStages, ReportIsLast
  <2>9. stage'.kind = "Idle" /\ co' = co
    BY <1>5 DEF HandleProcessingFinished, IdleStage
  <2>10. ~TaskWorks'
    BY <2>7 DEF TaskWorks, Active, WorkPhases
  <2>11. FlagsAreSet'
    BY <1>1, <2>9, <2>10 DEF FlagsAreSet, StopPoints
  <2> QED BY <2>8, <2>11 DEF BusyInv
<1>6. CASE ~(HandleProcessingFinished /\ stage = [kind |-> "Processing", session |-> Head(queue).session])
  <2>1. \/ stage' = stage /\ pipelineActive' = pipelineActive
        \/ stage.kind = "Recording" /\ ~IsRecording /\ stage' = IdleStage
    <3>1. CASE PressHandled \/ HandleSilenceStop \/ HandleRecordingModeChange
      BY <3>1, RecoverKeeps DEF PressHandled, HandleSilenceStop, HandleRecordingModeChange
    <3>2. CASE HandleProcessingFinished
      BY <1>6, <3>2 DEF HandleProcessingFinished
    <3>3. CASE ~PressHandled /\ ~HandleSilenceStop /\ ~HandleRecordingModeChange
               /\ ~HandleProcessingFinished
      BY <1>3, <3>3 DEF HandleCommand, HandleInput, PressCancelsRelease, ReleaseDeferred,
         ReleaseIgnored, PressDebounced, ExpirePendingRelease
    <3> QED BY <3>1, <3>2, <3>3
  <2>2. ReportIsLast'
    BY <1>1, <1>4, <2>1, ReportFrame DEF BusyInv
  <2>3. TaskIsStages'
    BY <1>1, <2>1 DEF BusyInv, TaskIsStages, Active
  <2>4. co'.at \in {"loop", "start"} \/ (co'.at = "stop" /\ stage'.kind = "Recording")
    <3>1. CASE PressHandled
      <4>1. PICK next \in {stage, IdleStage} :
              /\ stage' = next
              /\ co' = IF next.kind = "Idle" THEN [co EXCEPT !.at = "start"]
                       ELSE IF next.kind = "Recording" /\ ~Head(queue).ptt
                       THEN [co EXCEPT !.at = "stop", !.stopFor = 0]
                       ELSE co
        BY <3>1 DEF PressHandled
      <4> QED BY <1>1, <4>1 DEF TypeOK, Coordinator
    <3>2. CASE HandleSilenceStop
      BY <1>1, <3>2 DEF HandleSilenceStop, TypeOK, Coordinator
    <3>3. CASE HandleRecordingModeChange
      <4>1. PICK next \in {stage, IdleStage} :
              /\ stage' = next
              /\ co' = IF next.kind = "Recording" \/ IsRecording
                       THEN [co EXCEPT !.at = "stop", !.stopFor = 0] ELSE co
        BY <3>3 DEF HandleRecordingModeChange
      <4>2. next.kind = "Recording" \/ IsRecording => next.kind = "Recording"
        BY <1>2, <2>1, <4>1
      <4> QED BY <1>1, <4>1, <4>2 DEF TypeOK, Coordinator
    <3>4. CASE ExpirePendingRelease
      BY <1>1, <1>2, <3>4 DEF ExpirePendingRelease, ReleaseMatchesRecording, TypeOK,
         Coordinator
    <3>5. CASE ~PressHandled /\ ~HandleSilenceStop /\ ~HandleRecordingModeChange
               /\ ~ExpirePendingRelease
      BY <1>1, <3>5 DEF HandleCommand, HandleInput, PressCancelsRelease, ReleaseDeferred,
         ReleaseIgnored, PressDebounced, HandleCancel, HandleProcessingFinished
    <3> QED BY <3>1, <3>2, <3>3, <3>4, <3>5
  <2>5. CASE stage' = stage /\ pipelineActive' = pipelineActive
    BY <1>1, <2>2, <2>3, <2>4, <2>5
       DEF BusyInv, FlagsAreSet, Cancellable, TaskWorks, StopPoints
  <2>6. CASE stage.kind = "Recording" /\ ~IsRecording /\ stage' = IdleStage
    <3>1. ~TaskWorks'
      BY <1>1, <2>6 DEF BusyInv, TaskIsStages, TaskWorks, Active, WorkPhases
    <3> QED BY <1>1, <2>2, <2>3, <2>4, <2>6, <3>1
            DEF BusyInv, FlagsAreSet, StopPoints, IdleStage
  <2> QED BY <2>1, <2>5, <2>6
<1> QED BY <1>5, <1>6

\* A take starts from the stage Idle, so no task is active and no report of the
\* current session waits; the reports of older sessions stay behind.
LEMMA BusyStarting ==
  ASSUME TypeOK, TriggerInv, CaptureIsOwned, StageIsCurrent, cancelledThrough = 0, BusyInv,
         Starting
  PROVE  BusyInv'
<1> USE DEF micVars, sessionVars, taskVars, uiVars
<1>1. co.at \in StartPoints /\ UNCHANGED <<task, queue>>
  BY DEF Starting, StartRefused, BeginSession, ActivateSession, StartOffline,
     SpawnMicThread, ShowStartUi, JoinCancelled, JoinLive, JoinFailed, AnnounceRecording,
     FinishStart, StartPoints
<1>2. stage.kind = "Idle"
  BY <1>1 DEF StageIsCurrent
<1>3. /\ \A t \in TaskIds : ~Active(t)'
      /\ \A i \in DOMAIN queue : ~IsReport(i)
  BY <1>1, <1>2 DEF BusyInv, TaskIsStages, ReportIsLast, Active
<1>4. ~TaskWorks'
  BY <1>3 DEF TaskWorks, Active, WorkPhases
<1>5. currentSession' = currentSession \/ currentSession' = currentSession + 1
  BY DEF Starting, StartRefused, BeginSession, ActivateSession, StartOffline,
     SpawnMicThread, ShowStartUi, JoinCancelled, JoinLive, JoinFailed, AnnounceRecording,
     FinishStart
<1>6. \A i \in DOMAIN queue : queue[i].type = "ProcessingFinished" =>
        /\ queue[i].session \in Nat
        /\ queue[i].session <= currentSession /\ queue[i].session # currentSession
  <2>1. ASSUME NEW i \in DOMAIN queue, queue[i].type = "ProcessingFinished"
        PROVE  queue[i].session \in Nat
    BY <2>1 DEF TypeOK, Message
  <2> QED BY <1>3, <2>1 DEF BusyInv, ReportIsLast, IsReport
<1>7. \A i \in DOMAIN queue : queue[i].type = "ProcessingFinished" =>
        queue[i].session <= currentSession' /\ queue[i].session # currentSession'
  BY <1>5, <1>6 DEF TypeOK
<1>8. TaskIsStages' /\ ReportIsLast'
  BY <1>1, <1>3, <1>7 DEF TaskIsStages, ReportIsLast, IsReport
<1>9. FlagsAreSet'
  <2> USE <1>2, <1>4 DEF FlagsAreSet, BusyInv, Cancellable, Goto, TypeOK, Coordinator,
                         StopPoints, IsRecording
  <2>1. CASE StartRefused
    BY <2>1 DEF StartRefused, CaptureIsOwned
  <2>2. CASE BeginSession
    BY <2>2 DEF BeginSession
  <2>3. CASE ActivateSession
    BY <2>3 DEF ActivateSession
  <2>4. CASE StartOffline
    BY <2>4 DEF StartOffline, CaptureIsOwned
  <2>5. CASE SpawnMicThread
    BY <2>5 DEF SpawnMicThread
  <2>6. CASE ShowStartUi
    BY <2>6 DEF ShowStartUi
  <2>7. CASE JoinCancelled
    BY <2>7 DEF JoinCancelled, Cancelled
  <2>8. CASE JoinLive
    BY <2>8 DEF JoinLive
  <2>9. CASE JoinFailed
    BY <2>9 DEF JoinFailed, CaptureIsOwned
  <2>10. CASE AnnounceRecording
    BY <2>10 DEF AnnounceRecording
  <2>11. CASE FinishStart
    BY <2>11 DEF FinishStart
  <2> QED BY <2>1, <2>2, <2>3, <2>4, <2>5, <2>6, <2>7, <2>8, <2>9, <2>10, <2>11 DEF Starting
<1> QED BY <1>8, <1>9 DEF BusyInv

\* A stop leaves the stage Recording, whose flag and key are set, and hands them
\* to the new task.
LEMMA BusyStopping ==
  ASSUME TypeOK, StageIsCurrent, BusyInv, Stopping
  PROVE  BusyInv'
<1> USE DEF micVars, sessionVars, taskVars, uiVars
<1>1. co.at \in StopPoints /\ UNCHANGED <<queue, currentSession, pipelineActive, escKey>>
  BY DEF Stopping, StopRecorder, CaptureTaken, LaunchTask, StopPoints
<1>2. stage.kind = "Recording" /\ Cancellable
  BY <1>1 DEF BusyInv, FlagsAreSet
<1>3. /\ \A t \in TaskIds : ~Active(t)
      /\ \A i \in DOMAIN queue : ~IsReport(i)
  BY <1>2 DEF BusyInv, TaskIsStages, ReportIsLast
<1>4. ReportIsLast'
  BY <1>1, <1>3 DEF BusyInv, ReportIsLast, IsReport
<1>5. CASE LaunchTask
  <2>1. \A t \in TaskIds : Active(t)' => t = launched + 1 /\ task'[t].session = currentSession
    BY <1>3, <1>5 DEF LaunchTask, Active, TypeOK
  <2>2. stage'.kind = "Processing" /\ co'.at = "loop"
    BY <1>5 DEF LaunchTask
  <2>3. TaskIsStages'
    BY <1>1, <2>1, <2>2 DEF TaskIsStages
  <2>4. FlagsAreSet'
    BY <1>1, <1>2, <2>2 DEF FlagsAreSet, Cancellable, StopPoints
  <2> QED BY <1>4, <2>3, <2>4 DEF BusyInv
<1>6. CASE StopRecorder \/ CaptureTaken
  <2>1. UNCHANGED <<task, stage>> /\ co'.at \in StopPoints
    BY <1>6 DEF StopRecorder, CaptureTaken, Goto, TypeOK, Coordinator, StopPoints
  <2>2. TaskIsStages'
    BY <1>1, <2>1 DEF BusyInv, TaskIsStages, Active
  <2>3. FlagsAreSet'
    BY <1>1, <1>2, <2>1 DEF FlagsAreSet, Cancellable, StopPoints
  <2> QED BY <1>4, <2>2, <2>3 DEF BusyInv
<1> QED BY <1>5, <1>6 DEF Stopping


\* What a step of a task does to the tasks: it moves one that is active, and
\* leads none back into work.
LEMMA TaskMoves ==
  ASSUME TypeOK, NEW t \in TaskIds, TaskStep(t)
  PROVE  /\ Active(t) /\ task'[t].session = task[t].session
         /\ \A u \in TaskIds \ {t} : task'[u] = task[u]
         /\ task'[t].phase \in WorkPhases =>
              /\ task[t].phase \in WorkPhases
              /\ UNCHANGED <<pipelineActive, escKey>>
<1> USE DEF micVars, sessionVars, taskVars, uiVars
<1>1. Active(t)
  BY DEF TaskStep, TaskBegun, TaskAnnounces, TaskChecksStart, TaskDecodes, TaskChecksDecode,
     TaskShowsPill, TaskChecksShow, TaskPostProcesses, TaskChecksPost, TaskDelivers,
     TaskTerminates, GuardTests, GuardTestsAgain, GuardStores, GuardPaints, GuardNotifies,
     At, Active
<1>2. CASE GuardTests(t) \/ GuardTestsAgain(t) \/ GuardStores(t) \/ GuardPaints(t)
           \/ GuardNotifies(t)
  <2>1. \E phase : Move(t, phase) /\ phase \notin WorkPhases
    BY <1>2 DEF GuardTests, GuardTestsAgain, GuardStores, GuardPaints, GuardNotifies,
       WorkPhases
  <2> QED BY <1>1, <2>1 DEF Move, TypeOK, Task
<1>3. CASE TaskDelivers(t)
  <2>1. PICK text \in BOOLEAN :
          task' = [task EXCEPT ![t].phase = "guard", ![t].pasted = text]
    BY <1>3 DEF TaskDelivers
  <2>2. task'[t].phase = "guard" /\ task'[t].session = task[t].session
    BY <2>1 DEF TypeOK, Task
  <2>3. \A u \in TaskIds \ {t} : task'[u] = task[u]
    BY <2>1 DEF TypeOK
  <2> QED BY <1>1, <2>2, <2>3 DEF WorkPhases
<1>4. CASE TaskBegun(t) \/ TaskAnnounces(t) \/ TaskChecksStart(t) \/ TaskDecodes(t)
           \/ TaskChecksDecode(t) \/ TaskShowsPill(t) \/ TaskChecksShow(t)
           \/ TaskPostProcesses(t) \/ TaskChecksPost(t) \/ TaskTerminates(t)
  <2>1. \E phase : Move(t, phase)
    BY <1>4 DEF TaskBegun, TaskAnnounces, TaskChecksStart, TaskDecodes, TaskChecksDecode,
       TaskShowsPill, TaskChecksShow, TaskPostProcesses, TaskChecksPost, TaskTerminates,
       CleanedUp, Passes
  <2>2. task[t].phase \in WorkPhases
    BY <1>4 DEF TaskBegun, TaskAnnounces, TaskChecksStart, TaskDecodes, TaskChecksDecode,
       TaskShowsPill, TaskChecksShow, TaskPostProcesses, TaskChecksPost, TaskTerminates,
       At, WorkPhases
  <2>3. UNCHANGED <<pipelineActive, escKey>>
    BY <1>4 DEF TaskBegun, TaskAnnounces, TaskChecksStart, TaskDecodes, TaskChecksDecode,
       TaskShowsPill, TaskChecksShow, TaskPostProcesses, TaskChecksPost, TaskTerminates
  <2> QED BY <1>1, <2>1, <2>2, <2>3 DEF Move, TypeOK, Task
<1> QED BY <1>2, <1>3, <1>4 DEF TaskStep

\* A task belongs to the stage, so what its guard stores concerns no other take,
\* and its report is the first of the session.
LEMMA BusyTask ==
  ASSUME TypeOK, StageIsCurrent, BusyInv, NEW t \in TaskIds, TaskStep(t)
  PROVE  BusyInv'
<1> USE DEF micVars, sessionVars, taskVars, uiVars
<1>1. UNCHANGED <<stage, co, currentSession>>
  BY DEF TaskStep, TaskBegun, TaskAnnounces, TaskChecksStart, TaskDecodes, TaskChecksDecode,
     TaskShowsPill, TaskChecksShow, TaskPostProcesses, TaskChecksPost, TaskDelivers,
     TaskTerminates, GuardTests, GuardTestsAgain, GuardStores, GuardPaints, GuardNotifies
<1>2. /\ stage.kind = "Processing" /\ task[t].session = currentSession
      /\ \A u \in TaskIds : Active(u) => u = t
      /\ \A i \in DOMAIN queue : ~IsReport(i)
  BY TaskMoves DEF BusyInv, TaskIsStages, ReportIsLast
<1>3. \A u \in TaskIds : Active(u)' => u = t /\ task'[u].session = currentSession
  BY <1>2, TaskMoves DEF Active
<1>4. TaskIsStages'
  BY <1>1, <1>2, <1>3 DEF TaskIsStages
<1>5. co.at \notin StartPoints \cup StopPoints
  BY <1>2 DEF StageIsCurrent, BusyInv, FlagsAreSet
<1>6. FlagsAreSet'
  <2>1. TaskWorks' => Cancellable'
    <3>1. SUFFICES ASSUME TaskWorks' PROVE Cancellable'
      OBVIOUS
    <3>2. task'[t].phase \in WorkPhases
      BY <1>3, <3>1 DEF TaskWorks, Active, WorkPhases
    <3>3. TaskWorks /\ UNCHANGED <<pipelineActive, escKey>>
      BY <3>2, TaskMoves DEF TaskWorks
    <3> QED BY <3>3 DEF BusyInv, FlagsAreSet, Cancellable
  <2> QED BY <1>1, <1>2, <1>5, <2>1 DEF FlagsAreSet, StartPoints, StopPoints
<1>7. ReportIsLast'
  <2>1. CASE GuardNotifies(t)
    <3>1. /\ Send([type |-> "ProcessingFinished", session |-> task[t].session])
          /\ Move(t, "done")
      BY <2>1 DEF GuardNotifies
    <3>2. \A i \in DOMAIN queue' :
            \/ i \in DOMAIN queue /\ queue'[i] = queue[i]
            \/ /\ i = Len(queue) + 1
               /\ queue'[i] = [type |-> "ProcessingFinished", session |-> task[t].session]
      BY <3>1, QueueGrows
    <3>3. \A i \in DOMAIN queue' : IsReport(i)' => i = Len(queue) + 1
      BY <1>1, <1>2, <3>2 DEF IsReport
    <3>4. \A u \in TaskIds : ~Active(u)'
      BY <1>3, <3>1 DEF Move, Active, TypeOK, Task
    <3>5. \A i \in DOMAIN queue' :
            queue'[i].type = "ProcessingFinished" => queue'[i].session <= currentSession'
      BY <1>1, <1>2, <3>2 DEF BusyInv, ReportIsLast, TypeOK
    <3> QED BY <1>1, <1>2, <3>3, <3>4, <3>5 DEF ReportIsLast
  <2>2. CASE ~GuardNotifies(t)
    <3>1. queue' = queue
      BY <2>2 DEF TaskStep, TaskBegun, TaskAnnounces, TaskChecksStart, TaskDecodes,
         TaskChecksDecode, TaskShowsPill, TaskChecksShow, TaskPostProcesses, TaskChecksPost,
         TaskDelivers, TaskTerminates, GuardTests, GuardTestsAgain, GuardStores, GuardPaints
    <3> QED BY <1>1, <1>2, <3>1 DEF BusyInv, ReportIsLast, IsReport
  <2> QED BY <2>1, <2>2
<1> QED BY <1>4, <1>6, <1>7 DEF BusyInv

LEMMA BusyNext ==
  /\ TypeOK /\ TriggerInv /\ CalmInv /\ StageIsCurrent /\ cancelledThrough = 0
  /\ NoPanicLeft /\ Unspent("wedge") /\ CaptureIsOwned /\ BusyInv /\ [Next]_vars
  => BusyInv'
<1> SUFFICES ASSUME TypeOK, TriggerInv, CalmInv, StageIsCurrent, cancelledThrough = 0,
                    NoPanicLeft, Unspent("wedge"), CaptureIsOwned, BusyInv, [Next]_vars
             PROVE  BusyInv'
  OBVIOUS
<1> USE DEF micVars, sessionVars, taskVars, uiVars
<1>1. CASE CoordinatorStep
  BY <1>1, BusyCommand, BusyStarting, BusyStopping DEF CoordinatorStep
<1>2. CASE \E t \in TaskIds : TaskStep(t)
  BY <1>2, BusyTask
<1>3. CASE MicStep
  <2>1. /\ UNCHANGED <<task, currentSession, stage, co, pipelineActive, escKey, queue>>
        /\ co.at # "started"
    BY <1>3 DEF MicStep, MicOpens, MicFails, TriggerInv
  <2> QED BY <2>1, BusyFrame
<1>4. CASE \/ OfflineNoticeHide \/ SilenceFires \/ KeyDown \/ KeyUp \/ KeyEcho
           \/ TogglePress \/ SilenceCheck \/ ClearAudioQueue \/ ModeChange \/ UNCHANGED vars
  <2>1. UNCHANGED <<task, currentSession, stage, co, pipelineActive, escKey>>
    BY <1>4 DEF OfflineNoticeHide, SilenceFires, KeyDown, KeyUp, KeyEcho, TogglePress,
       SilenceCheck, ClearAudioQueue, ModeChange, vars
  <2>2. UNCHANGED rec \/ CancelRecording
    BY <1>4 DEF OfflineNoticeHide, SilenceFires, KeyDown, KeyUp, KeyEcho, TogglePress,
       SilenceCheck, ClearAudioQueue, ModeChange, vars
  <2>3. IsRecording' => IsRecording
    BY <2>2 DEF IsRecording, CancelRecording, TypeOK, Recorder
  <2>4. UNCHANGED queue \/ \E m : Send(m) /\ m.type # "ProcessingFinished"
    <3>1. CASE KeyDown \/ KeyUp \/ KeyEcho \/ TogglePress
      <4>1. \E pressed, ptt : Input(pressed, ptt)
        BY <3>1 DEF KeyDown, KeyUp, KeyEcho, TogglePress
      <4> QED BY <4>1 DEF Input
    <3>2. CASE SilenceFires
      BY <3>2 DEF SilenceFires
    <3>3. CASE ModeChange
      BY <3>3 DEF ModeChange
    <3>4. CASE OfflineNoticeHide \/ SilenceCheck \/ ClearAudioQueue \/ UNCHANGED vars
      BY <3>4 DEF OfflineNoticeHide, SilenceCheck, ClearAudioQueue, vars
    <3> QED BY <1>4, <3>1, <3>2, <3>3, <3>4
  <2> QED BY <2>1, <2>3, <2>4, BusyFrame
<1>5. ASSUME NEW c \in Cancellers PROVE ~CancelBegins(c) /\ ~CancellerStep(c)
  BY DEF CalmInv, Unspent, CancelBegins, Spend, CancellerStep, CancelSwaps,
     CancelsNothing, CancelMarks, CancelAborts, CancelQuietsUi, CancelNotifies, CancelEnds,
     CancAt
<1>6. ~Panic /\ ~DetachedMicStep
  BY NoPanicStep
<1> QED BY <1>1, <1>2, <1>3, <1>4, <1>5, <1>6 DEF Next, Environment

LEMMA BusyInit == Init => BusyInv
BY DEF Init, BusyInv, TaskIsStages, ReportIsLast, FlagsAreSet, Active, TaskWorks, IdleStage,
   WorkPhases, StopPoints

\* Without cancels under way, contained panics and a Processing that is given up,
\* a take that records, or whose task works, always has Escape armed and its
\* session active, so that cancel_current_dictation_session would return it: the
\* guard of one session never takes the flag or the key of the next, although it
\* tests the session, stores the flag and unregisters the key in separate steps.
THEOREM BusyCanCancel ==
  ASSUME NobodyCancels, NothingPanics, NobodyGivesUp
  PROVE  Spec => []BusyIsCancellable
<1> DEFINE I == /\ TriggerInv /\ CalmInv /\ EffectInv /\ cancelledThrough = 0
                /\ NoPanicLeft /\ Unspent("wedge") /\ CaptureIsOwned /\ BusyInv
<1>1. TypeOK /\ I => BusyIsCancellable
  BY DEF BusyIsCancellable, BusyInv, FlagsAreSet, Cancellable, TaskWorks
<1>2. Init => I
  BY TriggerInit, CalmInit, EffectInit, CaptureInit, BusyInit, NoPanicInit
     DEF Init, Unspent, NobodyGivesUp
<1>3. TypeOK /\ I /\ [Next]_vars => I'
  <2> SUFFICES ASSUME TypeOK, I, [Next]_vars PROVE I'
    OBVIOUS
  <2>1. TriggerInv' /\ CalmInv' /\ EffectInv' /\ cancelledThrough' = 0
    BY TriggerNext, CalmNext, EffectNext, NobodyMarked DEF NoPanicLeft
  <2>2. NoPanicLeft' /\ Unspent("wedge")' /\ CaptureIsOwned'
    BY CaptureNext, UnspentStays, NoPanicStays DEF BudgetKinds
  <2>3. BusyInv'
    BY BusyNext DEF EffectInv
  <2> QED BY <2>1, <2>2, <2>3
<1> HIDE DEF I
<1> QED BY <1>1, <1>2, <1>3, TypeCorrect, PTL DEF Spec
-----------------------------------------------------------------------------
(***************************************************************************)
(* The release of the push-to-talk key reaches its take.  What the thread  *)
(* of the hotkey sends is ordered, so the last word of the channel is that *)
(* of the key; what the coordinator makes of it is a deferred release that *)
(* only a press, or the end of its own take, takes away.                   *)
(***************************************************************************)
OnlyPushToTalk == "toggle" \notin Modes

Up(m)   == m.type = "Input" /\ m.ptt /\ ~m.pressed
Down(m) == m.type = "Input" /\ m.pressed

NobodyPresses == \A i \in DOMAIN queue : ~Down(queue[i])

\* A release in the channel that no press follows.
LastSaysUp ==
  \E i \in DOMAIN queue :
    Up(queue[i]) /\ \A j \in DOMAIN queue : j > i => ~Down(queue[j])

\* The current session is one whose task has not been launched.
Open == IsRecording \/ co.at \in {"activate", "gate", "ui", "join", "announce"}

\* Nobody works for, or reports on, a session that is still open.
NoEarlyReport ==
  /\ \A t \in TaskIds : Active(t) => task[t].session <= currentSession
  /\ \A i \in DOMAIN queue :
       queue[i].type = "ProcessingFinished" => queue[i].session <= currentSession
  /\ Open => /\ \A t \in TaskIds : Active(t) => task[t].session # currentSession
             /\ \A i \in DOMAIN queue : ~IsReport(i)

NoTimer ==
  timer = 0 /\ \A i \in DOMAIN queue : queue[i].type # "SilenceStop"

\* Where a release is, seen from the key, from a start and from the loop.
ReleaseInv ==
  /\ NoTimer
  /\ IsRecording => rec.gen # 0
  /\ held \/ NobodyPresses \/ LastSaysUp
  /\ co.at \in StartPoints => ~HasRelease /\ (held \/ LastSaysUp)
  /\ co.at = "loop" /\ IsRecording =>
       /\ HasRelease => ReleaseMatchesRecording
       /\ held \/ LastSaysUp \/ HasRelease

\* While the key is up, a capture in progress has its stop before it: a release
\* that no press follows in the channel, the deferred release of this very take,
\* or a stop that is under way.
ReleaseIsOnItsWay ==
  IsRecording /\ ~held =>
    \/ LastSaysUp
    \/ co.at = "loop" /\ HasRelease /\ ReleaseMatchesRecording
    \/ co.at = "stop"

LEMMA SaysAfterSend ==
  ASSUME TypeOK, NEW m, Send(m)
  PROVE  /\ NobodyPresses /\ ~Down(m) => NobodyPresses'
         /\ LastSaysUp /\ ~Down(m) => LastSaysUp'
         /\ Up(m) => LastSaysUp'
         /\ NoTimer /\ UNCHANGED timer /\ m.type # "SilenceStop" => NoTimer'
<1>1. /\ \A i \in DOMAIN queue : i \in DOMAIN queue' /\ queue'[i] = queue[i]
      /\ Len(queue) + 1 \in DOMAIN queue' /\ queue'[Len(queue) + 1] = m
      /\ \A i \in DOMAIN queue' : ~(i > Len(queue) + 1)
  BY DEF TypeOK, Send
<1>2. \A i \in DOMAIN queue' :
        \/ i \in DOMAIN queue /\ queue'[i] = queue[i]
        \/ i = Len(queue) + 1 /\ queue'[i] = m
  BY QueueGrows
<1>3. NobodyPresses /\ ~Down(m) => NobodyPresses'
  BY <1>2 DEF NobodyPresses, Down
<1>4. ASSUME LastSaysUp, ~Down(m) PROVE LastSaysUp'
  <2>1. PICK i \in DOMAIN queue :
          Up(queue[i]) /\ \A j \in DOMAIN queue : j > i => ~Down(queue[j])
    BY <1>4 DEF LastSaysUp
  <2>2. i \in DOMAIN queue' /\ Up(queue'[i])
    BY <1>1, <2>1
  <2>3. \A j \in DOMAIN queue' : j > i => ~Down(queue'[j])
    BY <1>2, <1>4, <2>1
  <2> QED BY <2>2, <2>3 DEF LastSaysUp, Up, Down
<1>5. Up(m) => LastSaysUp'
  BY <1>1 DEF LastSaysUp, Up, Down
<1>6. NoTimer /\ UNCHANGED timer /\ m.type # "SilenceStop" => NoTimer'
  BY <1>2 DEF NoTimer
<1> QED BY <1>3, <1>4, <1>5, <1>6

LEMMA SaysAfterReceive ==
  ASSUME TypeOK, NEW type, Receive(type)
  PROVE  /\ NobodyPresses => NobodyPresses' /\ ~Down(Head(queue))
         /\ LastSaysUp => LastSaysUp' \/ (NobodyPresses' /\ Up(Head(queue)))
         /\ NoTimer /\ UNCHANGED timer => NoTimer' /\ type # "SilenceStop"
<1>1. /\ \A i \in DOMAIN queue' : i + 1 \in DOMAIN queue /\ queue'[i] = queue[i + 1]
      /\ 1 \in DOMAIN queue /\ queue[1] = Head(queue) /\ DOMAIN queue' \subseteq Nat \ {0}
  BY QueueShrinks
<1>2. \A i \in DOMAIN queue : i # 1 => i - 1 \in DOMAIN queue' /\ queue'[i - 1] = queue[i]
  BY DEF TypeOK, Receive
<1>3. NobodyPresses => NobodyPresses' /\ ~Down(Head(queue))
  BY <1>1 DEF NobodyPresses, Down
<1>4. ASSUME LastSaysUp PROVE LastSaysUp' \/ (NobodyPresses' /\ Up(Head(queue)))
  <2>1. PICK i \in DOMAIN queue :
          Up(queue[i]) /\ \A j \in DOMAIN queue : j > i => ~Down(queue[j])
    BY <1>4 DEF LastSaysUp
  <2>2. i \in Nat \ {0}
    BY DEF TypeOK
  <2>3. CASE i = 1
    <3>1. \A j \in DOMAIN queue' : j + 1 > i /\ ~Down(queue'[j])
      BY <1>1, <2>1, <2>3
    <3> QED BY <1>1, <2>1, <2>3, <3>1 DEF NobodyPresses, Down
  <2>4. CASE i # 1
    <3>1. i - 1 \in DOMAIN queue' /\ Up(queue'[i - 1])
      BY <1>2, <2>1, <2>4
    <3>2. \A j \in DOMAIN queue' : j > i - 1 => ~Down(queue'[j])
      BY <1>1, <2>1, <2>2
    <3> QED BY <3>1, <3>2 DEF LastSaysUp, Up, Down
  <2> QED BY <2>3, <2>4
<1>5. NoTimer /\ UNCHANGED timer => NoTimer' /\ type # "SilenceStop"
  BY <1>1 DEF NoTimer, Receive
<1> QED BY <1>3, <1>4, <1>5

LEMMA QuietKeeps ==
  ASSUME TypeOK, UNCHANGED queue \/ \E m : Send(m) /\ m.type \notin {"Input", "SilenceStop"}
  PROVE  /\ NobodyPresses => NobodyPresses'
         /\ LastSaysUp => LastSaysUp'
         /\ NoTimer /\ UNCHANGED timer => NoTimer'
<1>1. CASE UNCHANGED queue
  BY <1>1 DEF NobodyPresses, LastSaysUp, NoTimer, Up, Down
<1>2. CASE \E m : Send(m) /\ m.type \notin {"Input", "SilenceStop"}
  <2>1. PICK m : Send(m) /\ m.type \notin {"Input", "SilenceStop"}
    BY <1>2
  <2> QED BY <2>1, SaysAfterSend DEF Down
<1> QED BY <1>1, <1>2

\* The steps that leave coordinator and key alone, and send no input.
LEMMA ReleaseFrame ==
  ASSUME TypeOK, ReleaseInv, UNCHANGED <<co, stage, pending, held, timer>>,
         UNCHANGED rec \/ CancelRecording,
         UNCHANGED queue \/ \E m : Send(m) /\ m.type \notin {"Input", "SilenceStop"}
  PROVE  ReleaseInv'
<1>1. /\ NobodyPresses => NobodyPresses'
      /\ LastSaysUp => LastSaysUp'
      /\ NoTimer'
  BY QuietKeeps DEF ReleaseInv
<1>2. IsRecording' => UNCHANGED rec /\ IsRecording
  BY DEF IsRecording, CancelRecording, TypeOK, Recorder
<1> QED BY <1>1, <1>2 DEF ReleaseInv, ReleaseMatchesRecording, HasRelease, NoRelease

\* A command that forgets the deferred release while the key has its last word
\* in the channel, or that ends the take.
LEMMA ReleaseForgone ==
  ASSUME ReleaseInv, UNCHANGED <<rec, held>>, NoTimer', pending' = NoRelease,
         held \/ NobodyPresses' \/ LastSaysUp',
         held \/ LastSaysUp' \/ (co'.at # "start" /\ (IsRecording => co'.at # "loop")),
         co'.at \in {"loop", "start", "stop"}
  PROVE  ReleaseInv'
BY DEF ReleaseInv, HasRelease, IsRecording, StartPoints

LEMMA ReleaseCommand ==
  ASSUME TypeOK, TriggerInv, CalmInv, StageIsCurrent, CaptureIsOwned, NoEarlyReport,
         ReleaseInv, HandleCommand \/ ExpirePendingRelease
  PROVE  ReleaseInv'
<1> USE DEF micVars, sessionVars, taskVars, uiVars
<1>1. /\ co.at = "loop" /\ UNCHANGED <<rec, held, timer>>
      /\ ExpirePendingRelease \/ \E type : Receive(type)
  BY DEF HandleCommand, HandleInput, PressCancelsRelease, ReleaseDeferred,
     ReleaseIgnored, PressDebounced, PressHandled, HandleCancel, HandleSilenceStop,
     HandleProcessingFinished, HandleRecordingModeChange, ExpirePendingRelease, Receive
<1>2. IsRecording => stage.kind = "Recording"
  BY <1>1 DEF CaptureIsOwned, TriggerInv
<1>3. CASE ExpirePendingRelease
  <2>1. /\ UNCHANGED queue /\ pending' = NoRelease
        /\ co'.at \in {"loop", "stop"} /\ (ReleaseMatchesRecording => co'.at = "stop")
    BY <1>3 DEF ExpirePendingRelease, TypeOK, Coordinator
  <2>2. IsRecording => ReleaseMatchesRecording
    BY <1>1, <1>3 DEF ReleaseInv, ExpirePendingRelease
  <2>3. /\ NobodyPresses => NobodyPresses'
        /\ LastSaysUp => LastSaysUp'
        /\ NoTimer'
    BY <1>1, <2>1, QuietKeeps DEF ReleaseInv
  <2> QED BY <1>1, <2>1, <2>2, <2>3, ReleaseForgone DEF ReleaseInv
<1>4. ASSUME NEW type, Receive(type)
      PROVE  /\ NoTimer' /\ type # "SilenceStop" /\ type # "Cancel"
             /\ held \/ NobodyPresses' \/ LastSaysUp'
             /\ Down(Head(queue)) => held \/ LastSaysUp'
             /\ LastSaysUp => LastSaysUp' \/ Up(Head(queue))
  <2>1. type # "Cancel"
    BY <1>4, QueueShrinks DEF CalmInv, Receive
  <2>2. Down(Head(queue)) => ~Up(Head(queue))
    BY DEF Up, Down
  <2> QED BY <1>1, <1>4, <2>1, <2>2, SaysAfterReceive DEF ReleaseInv
<1>5. CASE PressCancelsRelease \/ PressDebounced \/ PressHandled
  <2>1. /\ Receive("Input") /\ Down(Head(queue)) /\ pending' = NoRelease
    BY <1>5 DEF PressCancelsRelease, PressDebounced, PressHandled, Receive, Down
  <2>2. co'.at \in {"loop", "start", "stop"}
    <3>1. \/ UNCHANGED co
          \/ co' = [co EXCEPT !.at = "start"]
          \/ co' = [co EXCEPT !.at = "stop", !.stopFor = 0]
      BY <1>5 DEF PressCancelsRelease, PressDebounced, PressHandled
    <3> QED BY <1>1, <3>1 DEF TypeOK, Coordinator
  <2> QED BY <1>1, <1>4, <2>1, <2>2, ReleaseForgone
<1>6. CASE ReleaseDeferred
  <2>1. /\ Receive("Input") /\ UNCHANGED <<co, stage, rec, held>>
        /\ pending' = IF HasRelease THEN pending ELSE [session |-> stage.session, gen |-> rec.gen]
    BY <1>6 DEF ReleaseDeferred
  <2>2. IsRecording => HasRelease' /\ ReleaseMatchesRecording'
    <3>1. SUFFICES ASSUME IsRecording PROVE HasRelease' /\ ReleaseMatchesRecording'
      OBVIOUS
    <3>2. rec.gen # 0 /\ (HasRelease => ReleaseMatchesRecording)
      BY <1>1, <3>1 DEF ReleaseInv
    <3>3. CASE HasRelease
      BY <2>1, <3>2, <3>3 DEF HasRelease, ReleaseMatchesRecording, IsRecording
    <3>4. CASE ~HasRelease
      <4>1. pending' = [session |-> stage.session, gen |-> rec.gen]
        BY <2>1, <3>4
      <4>2. stage = [kind |-> "Recording", session |-> stage.session]
        BY <1>2, <3>1 DEF TypeOK, Stage
      <4> QED BY <2>1, <3>1, <3>2, <4>1, <4>2
              DEF HasRelease, NoRelease, ReleaseMatchesRecording, IsRecording
    <3> QED BY <3>3, <3>4
  <2>3. co'.at = "loop" /\ (IsRecording' => IsRecording)
    BY <1>1, <2>1 DEF IsRecording
  <2> QED BY <1>4, <2>1, <2>2, <2>3 DEF ReleaseInv, StartPoints
<1>7. CASE ReleaseIgnored
  <2>1. Receive("Input") /\ ~IsRecording /\ UNCHANGED <<co, rec, held>>
    BY <1>2, <1>7 DEF ReleaseIgnored
  <2> QED BY <1>1, <1>4, <2>1 DEF ReleaseInv, StartPoints, IsRecording
<1>8. CASE HandleProcessingFinished
  <2>1. /\ Receive("ProcessingFinished") /\ UNCHANGED <<co, rec, held>>
        /\ HasRelease /\ pending.session # Head(queue).session => UNCHANGED pending
        /\ stage.kind = "Recording" => UNCHANGED stage
    BY <1>8 DEF HandleProcessingFinished
  <2>2. IsRecording /\ HasRelease => UNCHANGED <<stage, pending>>
    <3>1. SUFFICES ASSUME IsRecording, HasRelease PROVE UNCHANGED <<stage, pending>>
      OBVIOUS
    <3>2. pending.session = stage.session /\ stage.session = currentSession
      <4>1. ReleaseMatchesRecording
        BY <1>1, <3>1 DEF ReleaseInv
      <4> QED BY <4>1 DEF ReleaseMatchesRecording, StageIsCurrent
    <3>3. Head(queue).session # currentSession
      BY <2>1, <3>1, QueueShrinks DEF NoEarlyReport, Open, IsReport, Receive
    <3> QED BY <1>2, <2>1, <3>1, <3>2, <3>3
  <2>3. ~Up(Head(queue))
    BY <2>1 DEF Up, Receive
  <2>4. IsRecording' <=> IsRecording
    BY <2>1 DEF IsRecording
  <2>5. NoTimer' /\ (held \/ NobodyPresses' \/ LastSaysUp') /\ (LastSaysUp => LastSaysUp')
    BY <1>4, <2>1, <2>3
  <2>6. IsRecording =>
          /\ HasRelease' => ReleaseMatchesRecording'
          /\ held \/ LastSaysUp' \/ HasRelease'
    <3>1. CASE IsRecording /\ HasRelease
      BY <1>1, <2>1, <2>2, <3>1 DEF ReleaseInv, ReleaseMatchesRecording, HasRelease, IsRecording
    <3>2. CASE IsRecording /\ ~HasRelease
      <4>1. ~HasRelease'
        BY <1>8, <3>2 DEF HandleProcessingFinished, HasRelease
      <4> QED BY <1>1, <2>5, <3>2, <4>1 DEF ReleaseInv
    <3> QED BY <3>1, <3>2
  <2> QED BY <1>1, <2>1, <2>4, <2>5, <2>6 DEF ReleaseInv, StartPoints
<1>9. CASE HandleRecordingModeChange
  <2>1. Receive("FinalizeRecordingModeChange") /\ pending' = NoRelease
    BY <1>9 DEF HandleRecordingModeChange
  <2>2. co'.at \in {"loop", "stop"} /\ (IsRecording => co'.at = "stop")
    BY <1>1, <1>9 DEF HandleRecordingModeChange, TypeOK, Coordinator
  <2> QED BY <1>1, <1>4, <2>1, <2>2, ReleaseForgone
<1>10. ~HandleCancel /\ ~HandleSilenceStop
  BY <1>4 DEF HandleCancel, HandleSilenceStop
<1> QED BY <1>3, <1>5, <1>6, <1>7, <1>8, <1>9, <1>10 DEF HandleCommand, HandleInput

LEMMA ReleaseStarting ==
  ASSUME TypeOK, ReleaseInv, Starting
  PROVE  ReleaseInv'
<1> USE DEF micVars, sessionVars, taskVars, uiVars
<1>1. UNCHANGED <<queue, pending, held, timer>> /\ co.at \in StartPoints
  BY DEF Starting, StartRefused, BeginSession, ActivateSession, StartOffline,
     SpawnMicThread, ShowStartUi, JoinCancelled, JoinLive, JoinFailed, AnnounceRecording,
     FinishStart, StartPoints
<1>2. IsRecording' => UNCHANGED rec /\ IsRecording
  <2>1. UNCHANGED rec \/ CancelRecording
    BY DEF Starting, StartRefused, BeginSession, ActivateSession, StartOffline,
       SpawnMicThread, ShowStartUi, JoinCancelled, JoinLive, JoinFailed, AnnounceRecording,
       FinishStart
  <2> QED BY <2>1 DEF IsRecording, CancelRecording, TypeOK, Recorder
<1>3. /\ NobodyPresses => NobodyPresses'
      /\ LastSaysUp => LastSaysUp'
      /\ NoTimer'
  BY <1>1, QuietKeeps DEF ReleaseInv
<1>4. ~HasRelease' /\ (held' \/ LastSaysUp')
  BY <1>1, <1>3 DEF ReleaseInv, HasRelease
<1> QED BY <1>1, <1>2, <1>3, <1>4 DEF ReleaseInv

LEMMA ReleaseStopping ==
  ASSUME TypeOK, CaptureIsOwned, ReleaseInv, Stopping
  PROVE  ReleaseInv'
<1> USE DEF micVars, sessionVars, taskVars, uiVars
<1>1. UNCHANGED <<queue, pending, held, timer>>
  BY DEF Stopping, StopRecorder, CaptureTaken, LaunchTask
<1>2. ~IsRecording'
  <2>1. CASE StopRecorder
    BY <2>1 DEF StopRecorder, IsRecording, TypeOK, Recorder
  <2>2. CASE CaptureTaken
    BY <2>2 DEF CaptureTaken, IsRecording, TypeOK, Recorder
  <2>3. CASE LaunchTask
    BY <2>3 DEF LaunchTask, IsRecording, CaptureIsOwned
  <2> QED BY <2>1, <2>2, <2>3 DEF Stopping
<1>3. co'.at \notin StartPoints
  <2>1. CASE StopRecorder
    BY <2>1 DEF StopRecorder, Goto, TypeOK, Coordinator, StartPoints
  <2>2. CASE CaptureTaken
    BY <2>2 DEF CaptureTaken, TypeOK, Coordinator, StartPoints
  <2>3. CASE LaunchTask
    BY <2>3 DEF LaunchTask, StartPoints
  <2> QED BY <2>1, <2>2, <2>3 DEF Stopping
<1>4. /\ NobodyPresses => NobodyPresses'
      /\ LastSaysUp => LastSaysUp'
      /\ NoTimer'
  BY <1>1, QuietKeeps DEF ReleaseInv
<1> QED BY <1>1, <1>2, <1>3, <1>4 DEF ReleaseInv

\* The key: a press needs the key down, and a release is the last word.
LEMMA ReleaseKey ==
  ASSUME TypeOK, ReleaseInv, KeyDown \/ KeyUp \/ KeyEcho
  PROVE  ReleaseInv'
<1> USE DEF micVars, sessionVars, taskVars, uiVars
<1>1. UNCHANGED <<co, stage, pending, rec, timer>>
  BY DEF KeyDown, KeyUp, KeyEcho
<1>2. \E m : /\ Send(m) /\ m.type = "Input"
             /\ (Down(m) /\ held') \/ (Up(m) /\ (held' => held))
  <2>1. CASE KeyDown
    BY <2>1 DEF KeyDown, Input, Down
  <2>2. CASE KeyUp
    BY <2>2 DEF KeyUp, Input, Up
  <2>3. CASE KeyEcho
    <3>1. PICK pressed \in BOOLEAN : (pressed => held) /\ Input(pressed, TRUE)
      BY <2>3 DEF KeyEcho
    <3>2. UNCHANGED held
      BY <2>3 DEF KeyEcho
    <3> QED BY <3>1, <3>2 DEF Input, Up, Down
  <2> QED BY <2>1, <2>2, <2>3
<1>3. NoTimer' /\ (held' \/ LastSaysUp')
  BY <1>1, <1>2, SaysAfterSend DEF ReleaseInv
<1>4. (IsRecording' <=> IsRecording) /\ (HasRelease' <=> HasRelease)
      /\ (ReleaseMatchesRecording' <=> ReleaseMatchesRecording)
  BY <1>1 DEF IsRecording, HasRelease, NoRelease, ReleaseMatchesRecording
<1> QED BY <1>1, <1>3, <1>4 DEF ReleaseInv

LEMMA ReleaseNext ==
  ASSUME OnlyPushToTalk, TypeOK, TriggerInv, CalmInv, NoPanicLeft, StageIsCurrent,
         CaptureIsOwned, NoEarlyReport, ReleaseInv, [Next]_vars
  PROVE  ReleaseInv'
<1> USE DEF micVars, sessionVars, taskVars, uiVars
<1>1. CASE CoordinatorStep
  BY <1>1, ReleaseCommand, ReleaseStarting, ReleaseStopping DEF CoordinatorStep
<1>2. CASE MicOpens
  <2>1. /\ UNCHANGED <<queue, co, pending, held, timer>>
        /\ co.at \in {"ui", "join"} /\ rec'.gen = rec.gen + 1
    BY <1>2 DEF MicOpens, TriggerInv
  <2>2. /\ NobodyPresses => NobodyPresses'
        /\ LastSaysUp => LastSaysUp'
        /\ NoTimer'
    BY <2>1, QuietKeeps DEF ReleaseInv
  <2>3. rec'.gen # 0
    BY <2>1 DEF TypeOK, Recorder
  <2> QED BY <2>1, <2>2, <2>3 DEF ReleaseInv, StartPoints, HasRelease
<1>3. CASE KeyDown \/ KeyUp \/ KeyEcho
  BY <1>3, ReleaseKey
<1>4. CASE \E t \in TaskIds : TaskStep(t)
  <2>1. PICK t \in TaskIds : TaskStep(t)
    BY <1>4
  <2>2. UNCHANGED <<co, stage, pending, held, timer, rec>>
    BY <2>1 DEF TaskStep, TaskBegun, TaskAnnounces, TaskChecksStart, TaskDecodes,
       TaskChecksDecode, TaskShowsPill, TaskChecksShow, TaskPostProcesses, TaskChecksPost,
       TaskDelivers, TaskTerminates, GuardTests, GuardTestsAgain, GuardStores,
       GuardPaints, GuardNotifies
  <2>3. UNCHANGED queue \/ \E m : Send(m) /\ m.type \notin {"Input", "SilenceStop"}
    <3>1. CASE GuardNotifies(t)
      BY <3>1 DEF GuardNotifies
    <3>2. CASE ~GuardNotifies(t)
      BY <2>1, <3>2 DEF TaskStep, TaskBegun, TaskAnnounces, TaskChecksStart, TaskDecodes,
         TaskChecksDecode, TaskShowsPill, TaskChecksShow, TaskPostProcesses,
         TaskChecksPost, TaskDelivers, TaskTerminates, GuardTests, GuardTestsAgain,
         GuardStores, GuardPaints
    <3> QED BY <3>1, <3>2
  <2> QED BY <2>2, <2>3, ReleaseFrame
<1>5. CASE MicFails \/ OfflineNoticeHide \/ ClearAudioQueue \/ ModeChange \/ UNCHANGED vars
  <2>1. UNCHANGED <<co, stage, pending, held, timer>> /\ (UNCHANGED rec \/ CancelRecording)
    BY <1>5 DEF MicFails, OfflineNoticeHide, ClearAudioQueue, ModeChange, vars
  <2>2. UNCHANGED queue \/ \E m : Send(m) /\ m.type \notin {"Input", "SilenceStop"}
    BY <1>5 DEF MicFails, OfflineNoticeHide, ClearAudioQueue, ModeChange, vars
  <2> QED BY <2>1, <2>2, ReleaseFrame
<1>6. ~TogglePress /\ ~SilenceCheck /\ ~SilenceFires
  BY DEF OnlyPushToTalk, TogglePress, SilenceCheck, SilenceFires, ReleaseInv, NoTimer
<1>7. ASSUME NEW c \in Cancellers PROVE ~CancelBegins(c) /\ ~CancellerStep(c)
  BY DEF CalmInv, Unspent, CancelBegins, Spend, CancellerStep, CancelSwaps,
     CancelsNothing, CancelMarks, CancelAborts, CancelQuietsUi, CancelNotifies, CancelEnds,
     CancAt
<1>8. ~Panic /\ ~DetachedMicStep
  BY NoPanicStep
<1> QED BY <1>1, <1>2, <1>3, <1>4, <1>5, <1>6, <1>7, <1>8 DEF Next, MicStep, Environment

\* A step that begins no session, makes no task current, and sends no report.
LEMMA EarlyFrame ==
  ASSUME TypeOK, NoEarlyReport, UNCHANGED currentSession, Open' => Open,
         \A t \in TaskIds : Active(t)' => Active(t) /\ task'[t].session = task[t].session,
         \/ UNCHANGED queue
         \/ \E type : Receive(type)
         \/ \E m : Send(m) /\ (m.type = "ProcessingFinished" =>
                                 /\ m.session <= currentSession
                                 /\ Open => m.session # currentSession)
  PROVE  NoEarlyReport'
<1>1. \A i \in DOMAIN queue' : queue'[i].type = "ProcessingFinished" =>
        queue'[i].session <= currentSession /\ (Open => queue'[i].session # currentSession)
  <2>1. CASE UNCHANGED queue
    BY <2>1 DEF NoEarlyReport, IsReport
  <2>2. CASE \E type : Receive(type)
    BY <2>2, QueueShrinks DEF NoEarlyReport, IsReport
  <2>3. CASE \E m : Send(m) /\ (m.type = "ProcessingFinished" =>
                                  /\ m.session <= currentSession
                                  /\ Open => m.session # currentSession)
    BY <2>3, QueueGrows DEF NoEarlyReport, IsReport
  <2> QED BY <2>1, <2>2, <2>3
<1>2. \A t \in TaskIds : Active(t)' =>
        task'[t].session <= currentSession /\ (Open => task'[t].session # currentSession)
  BY DEF NoEarlyReport
<1> QED BY <1>1, <1>2 DEF NoEarlyReport, IsReport

LEMMA EarlyCommand ==
  ASSUME TypeOK, CalmInv, CaptureIsOwned, NoEarlyReport, HandleCommand \/ ExpirePendingRelease
  PROVE  NoEarlyReport'
<1> USE DEF micVars, sessionVars, taskVars, uiVars
<1>1. co.at = "loop" /\ UNCHANGED <<currentSession, task, rec>>
  BY DEF HandleCommand, HandleInput, PressCancelsRelease, ReleaseDeferred,
     ReleaseIgnored, PressDebounced, PressHandled, HandleCancel, HandleSilenceStop,
     HandleProcessingFinished, HandleRecordingModeChange, ExpirePendingRelease, Receive
<1>2. UNCHANGED queue \/ \E type : Receive(type)
  BY DEF HandleCommand, HandleInput, PressCancelsRelease, ReleaseDeferred,
     ReleaseIgnored, PressDebounced, PressHandled, HandleCancel, HandleSilenceStop,
     HandleProcessingFinished, HandleRecordingModeChange, ExpirePendingRelease
<1>3. co'.at \in {"loop", "start", "stop"}
  <2>1. \/ UNCHANGED co
        \/ co' = [co EXCEPT !.at = "start"]
        \/ \E g : co' = [co EXCEPT !.at = "stop", !.stopFor = g]
    BY DEF HandleCommand, HandleInput, PressCancelsRelease, ReleaseDeferred,
       ReleaseIgnored, PressDebounced, PressHandled, HandleCancel, HandleSilenceStop,
       HandleProcessingFinished, HandleRecordingModeChange, ExpirePendingRelease
  <2> QED BY <1>1, <2>1 DEF TypeOK, Coordinator
<1>4. Open' => Open
  BY <1>1, <1>3 DEF Open, IsRecording
<1> QED BY <1>1, <1>2, <1>4, EarlyFrame DEF Active

LEMMA EarlyStarting ==
  ASSUME TypeOK, CaptureIsOwned, NoEarlyReport, Starting
  PROVE  NoEarlyReport'
<1> USE DEF micVars, sessionVars, taskVars, uiVars
<1>1. CASE BeginSession
  <2>1. currentSession' = currentSession + 1 /\ UNCHANGED <<queue, task>>
    BY <1>1 DEF BeginSession
  <2>2. \A t \in TaskIds : Active(t)' => task'[t].session <= currentSession
    BY <2>1 DEF NoEarlyReport, Active
  <2>3. \A i \in DOMAIN queue' :
          queue'[i].type = "ProcessingFinished" => queue'[i].session <= currentSession
    BY <2>1 DEF NoEarlyReport
  <2>4. /\ currentSession \in Nat /\ \A t \in TaskIds : task'[t].session \in Nat
        /\ \A i \in DOMAIN queue' :
             queue'[i].type = "ProcessingFinished" => queue'[i].session \in Nat
    <3>1. \A i \in DOMAIN queue : queue[i] \in Message
      BY DEF TypeOK
    <3>2. \A i \in DOMAIN queue :
            queue[i].type = "ProcessingFinished" => queue[i].session \in Nat
      BY <3>1 DEF Message
    <3> QED BY <2>1, <3>2 DEF TypeOK, Task
  <2> QED BY <2>1, <2>2, <2>3, <2>4 DEF NoEarlyReport, IsReport
<1>2. CASE ~BeginSession
  <2>1. UNCHANGED <<queue, task, currentSession>>
    BY <1>2 DEF Starting, StartRefused, ActivateSession, StartOffline, SpawnMicThread,
       ShowStartUi, JoinCancelled, JoinLive, JoinFailed, AnnounceRecording, FinishStart
  <2>2. IsRecording' => IsRecording
    <3>1. UNCHANGED rec \/ CancelRecording
      BY <1>2 DEF Starting, StartRefused, ActivateSession, StartOffline, SpawnMicThread,
         ShowStartUi, JoinCancelled, JoinLive, JoinFailed, AnnounceRecording, FinishStart
    <3> QED BY <3>1 DEF IsRecording, CancelRecording, TypeOK, Recorder
  <2>3. \/ co'.at \in {"started", "loop"}
        \/ co.at \in {"activate", "gate", "ui", "join", "announce"}
    BY <1>2 DEF Starting, StartRefused, ActivateSession, StartOffline, SpawnMicThread,
       ShowStartUi, JoinCancelled, JoinLive, JoinFailed, AnnounceRecording, FinishStart,
       Goto, TypeOK, Coordinator
  <2> QED BY <2>1, <2>2, <2>3, EarlyFrame DEF Open, Active
<1> QED BY <1>1, <1>2

LEMMA EarlyStopping ==
  ASSUME TypeOK, CaptureIsOwned, NoEarlyReport, Stopping
  PROVE  NoEarlyReport'
<1> USE DEF micVars, sessionVars, taskVars, uiVars
<1>1. UNCHANGED <<queue, currentSession>>
  BY DEF Stopping, StopRecorder, CaptureTaken, LaunchTask
<1>2. ~Open'
  <2>1. CASE StopRecorder
    BY <2>1 DEF StopRecorder, Open, IsRecording, Goto, TypeOK, Recorder, Coordinator
  <2>2. CASE CaptureTaken
    BY <2>2 DEF CaptureTaken, Open, IsRecording, TypeOK, Recorder, Coordinator
  <2>3. CASE LaunchTask
    BY <2>3 DEF LaunchTask, Open, IsRecording, CaptureIsOwned
  <2> QED BY <2>1, <2>2, <2>3 DEF Stopping
<1>3. \A t \in TaskIds : Active(t)' => task'[t].session <= currentSession
  <2>1. CASE LaunchTask
    <3>1. \A t \in TaskIds : task'[t] = task[t] \/ task'[t].session = currentSession
      BY <2>1 DEF LaunchTask, TypeOK
    <3> QED BY <3>1 DEF NoEarlyReport, Active, TypeOK
  <2>2. CASE ~LaunchTask
    BY <2>2 DEF Stopping, StopRecorder, CaptureTaken, NoEarlyReport, Active
  <2> QED BY <2>1, <2>2
<1> QED BY <1>1, <1>2, <1>3 DEF NoEarlyReport

LEMMA EarlyNext ==
  ASSUME TypeOK, TriggerInv, CalmInv, NoPanicLeft, CaptureIsOwned, NoEarlyReport,
         [Next]_vars
  PROVE  NoEarlyReport'
<1> USE DEF micVars, sessionVars, taskVars, uiVars
<1>1. CASE CoordinatorStep
  BY <1>1, EarlyCommand, EarlyStarting, EarlyStopping DEF CoordinatorStep
<1>2. CASE MicStep
  <2>1. UNCHANGED <<queue, task, currentSession, co>> /\ Open
    BY <1>2 DEF MicStep, MicOpens, MicFails, TriggerInv, Open
  <2> QED BY <2>1, EarlyFrame DEF Active
<1>3. CASE \E t \in TaskIds : TaskStep(t)
  <2>1. PICK t \in TaskIds : TaskStep(t)
    BY <1>3
  <2>2. UNCHANGED <<currentSession, co, rec>>
    BY <2>1 DEF TaskStep, TaskBegun, TaskAnnounces, TaskChecksStart, TaskDecodes,
       TaskChecksDecode, TaskShowsPill, TaskChecksShow, TaskPostProcesses, TaskChecksPost,
       TaskDelivers, TaskTerminates, GuardTests, GuardTestsAgain, GuardStores,
       GuardPaints, GuardNotifies
  <2>3. \A u \in TaskIds : Active(u)' => Active(u) /\ task'[u].session = task[u].session
    BY <2>1, TaskMoves DEF Active
  <2>4. CASE GuardNotifies(t)
    <3>1. Send([type |-> "ProcessingFinished", session |-> task[t].session])
      BY <2>4 DEF GuardNotifies
    <3>2. task[t].session <= currentSession /\ (Open => task[t].session # currentSession)
      BY <2>1, TaskMoves DEF NoEarlyReport
    <3> QED BY <2>2, <2>3, <3>1, <3>2, EarlyFrame DEF Open, IsRecording
  <2>5. CASE ~GuardNotifies(t)
    <3>1. UNCHANGED queue
      BY <2>1, <2>5 DEF TaskStep, TaskBegun, TaskAnnounces, TaskChecksStart, TaskDecodes,
         TaskChecksDecode, TaskShowsPill, TaskChecksShow, TaskPostProcesses,
         TaskChecksPost, TaskDelivers, TaskTerminates, GuardTests, GuardTestsAgain,
         GuardStores, GuardPaints
    <3> QED BY <2>2, <2>3, <3>1, EarlyFrame DEF Open, IsRecording
  <2> QED BY <2>4, <2>5
<1>4. CASE \/ OfflineNoticeHide \/ SilenceFires \/ KeyDown \/ KeyUp \/ KeyEcho
           \/ TogglePress \/ SilenceCheck \/ ClearAudioQueue \/ ModeChange \/ UNCHANGED vars
  <2>1. UNCHANGED <<task, currentSession, co>> /\ (UNCHANGED rec \/ CancelRecording)
    BY <1>4 DEF OfflineNoticeHide, SilenceFires, KeyDown, KeyUp, KeyEcho, TogglePress,
       SilenceCheck, ClearAudioQueue, ModeChange, vars
  <2>2. Open' => Open
    BY <2>1 DEF Open, IsRecording, CancelRecording, TypeOK, Recorder
  <2>3. UNCHANGED queue \/ \E m : Send(m) /\ m.type # "ProcessingFinished"
    <3>1. CASE KeyDown \/ KeyUp \/ KeyEcho \/ TogglePress
      <4>1. \E pressed, ptt : Input(pressed, ptt)
        BY <3>1 DEF KeyDown, KeyUp, KeyEcho, TogglePress
      <4> QED BY <4>1 DEF Input
    <3>2. CASE SilenceFires
      BY <3>2 DEF SilenceFires
    <3>3. CASE ModeChange
      BY <3>3 DEF ModeChange
    <3>4. CASE OfflineNoticeHide \/ SilenceCheck \/ ClearAudioQueue \/ UNCHANGED vars
      BY <3>4 DEF OfflineNoticeHide, SilenceCheck, ClearAudioQueue, vars
    <3> QED BY <1>4, <3>1, <3>2, <3>3, <3>4
  <2> QED BY <2>1, <2>2, <2>3, EarlyFrame DEF Active
<1>5. ASSUME NEW c \in Cancellers PROVE ~CancelBegins(c) /\ ~CancellerStep(c)
  BY DEF CalmInv, Unspent, CancelBegins, Spend, CancellerStep, CancelSwaps,
     CancelsNothing, CancelMarks, CancelAborts, CancelQuietsUi, CancelNotifies, CancelEnds,
     CancAt
<1>6. ~Panic /\ ~DetachedMicStep
  BY NoPanicStep
<1> QED BY <1>1, <1>2, <1>3, <1>4, <1>5, <1>6 DEF Next, Environment

LEMMA ReleaseInit == Init => NoEarlyReport /\ ReleaseInv
BY DEF Init, NoEarlyReport, ReleaseInv, NoTimer, NobodyPresses, Active, Open, IsRecording,
   StartPoints

\* With push-to-talk alone, without cancels and contained panics: whatever presses,
\* repeats, duplicate releases, clears, mode changes and recoveries come in between,
\* and however presses are debounced, a capture whose key is up has a release before
\* it that stops it.  No press can take that release away but a newer one of the key
\* itself, and the report of an earlier take does not (pending_release_matches_recording,
\* clear_pending_release_for_session).
THEOREM ReleaseNeverLost ==
  ASSUME OnlyPushToTalk, NobodyCancels, NothingPanics
  PROVE  Spec => []ReleaseIsOnItsWay
<1> DEFINE I == /\ TriggerInv /\ StoppingInv /\ CalmInv /\ EffectInv /\ NoPanicLeft
                /\ CaptureIsOwned /\ NoEarlyReport /\ ReleaseInv
<1>1. TypeOK /\ I => ReleaseIsOnItsWay
  BY DEF ReleaseIsOnItsWay, ReleaseInv, CaptureIsOwned, StoppingInv, IsRecording, TypeOK,
     Coordinator, StartPoints, StopPoints
<1>2. Init => I
  BY TriggerInit, LifeBegins, CalmInit, EffectInit, CaptureInit, ReleaseInit,
     NoPanicInit
<1>3. TypeOK /\ I /\ [Next]_vars => I'
  <2> SUFFICES ASSUME TypeOK, I, [Next]_vars PROVE I'
    OBVIOUS
  <2>1. TriggerInv' /\ StoppingInv' /\ CalmInv' /\ EffectInv'
    BY TriggerNext, LifeNext, CalmNext, EffectNext DEF NoPanicLeft
  <2>2. NoPanicLeft' /\ CaptureIsOwned'
    BY CaptureNext, UnspentStays, NoPanicStays DEF BudgetKinds
  <2>3. NoEarlyReport'
    BY EarlyNext
  <2>4. ReleaseInv'
    BY ReleaseNext DEF EffectInv
  <2> QED BY <2>1, <2>2, <2>3, <2>4
<1> HIDE DEF I
<1> QED BY <1>1, <1>2, <1>3, TypeCorrect, PTL DEF Spec
=============================================================================
