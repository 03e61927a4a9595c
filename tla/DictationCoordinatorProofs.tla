--------------------- MODULE DictationCoordinatorProofs ---------------------
(***************************************************************************)
(* Proofs about DictationCoordinator, for every number of cancelling       *)
(* threads, every budget and every size of the task table.                 *)
(***************************************************************************)
EXTENDS DictationCoordinator, TLAPS

-----------------------------------------------------------------------------
(***************************************************************************)
(* What the helpers of the model do to the types.                          *)
(***************************************************************************)
LEMMA SpendType ==
  ASSUME TypeOK, NEW kind \in BudgetKinds, Spend(kind)
  PROVE  left' \in [BudgetKinds -> Nat]
BY DEF TypeOK, Spend

LEMMA SendType ==
  ASSUME TypeOK, NEW m \in Message, Send(m)
  PROVE  queue' \in Seq(Message)
BY DEF TypeOK, Send

LEMMA ReceiveType ==
  ASSUME TypeOK, NEW type, Receive(type)
  PROVE  /\ queue' \in Seq(Message)
         /\ Head(queue) \in Message
BY DEF TypeOK, Receive

LEMMA HeadFields ==
  ASSUME NEW m \in Message
  PROVE  /\ m.type = "Input" => m.pressed \in BOOLEAN /\ m.ptt \in BOOLEAN
         /\ m.type = "Cancel" => m.wasRecording \in BOOLEAN /\ m.through \in Nat
         /\ m.type = "SilenceStop" => m.gen \in Nat
         /\ m.type = "ProcessingFinished" => m.session \in Nat
BY DEF Message

LEMMA GotoType ==
  ASSUME TypeOK, NEW point \in {"loop"} \cup StartPoints \cup StopPoints, Goto(point)
  PROVE  co' \in Coordinator
BY DEF TypeOK, Goto, Coordinator

LEMMA MoveType ==
  ASSUME TypeOK, NEW t \in TaskIds,
         NEW phase \in {"done"} \cup WorkPhases \cup GuardPhases, Move(t, phase)
  PROVE  task' \in [TaskIds -> Task]
BY DEF TypeOK, Move, Task

LEMMA RecoverType ==
  ASSUME TypeOK, NEW stuck \in BOOLEAN, NEW next, RecoverWedgedStage(stuck, next)
  PROVE  /\ next \in Stage
         /\ left' \in [BudgetKinds -> Nat]
         /\ pipelineActive' \in BOOLEAN
         /\ tray' \in SUBSET {"recording", "transcribing"}
         /\ overlay' \in BOOLEAN
<1>1. next \in Stage
  BY DEF TypeOK, RecoverWedgedStage, IdleStage, Stage
<1>2. left' \in [BudgetKinds -> Nat]
  <2>1. CASE stuck /\ stage.kind = "Processing"
    BY <2>1, SpendType DEF RecoverWedgedStage, BudgetKinds
  <2>2. CASE ~(stuck /\ stage.kind = "Processing")
    BY <2>2 DEF RecoverWedgedStage, TypeOK
  <2> QED BY <2>1, <2>2
<1>3. /\ pipelineActive' \in BOOLEAN
      /\ tray' \in SUBSET {"recording", "transcribing"}
      /\ overlay' \in BOOLEAN
  BY DEF TypeOK, RecoverWedgedStage
<1> QED BY <1>1, <1>2, <1>3

LEMMA EscKeyType ==
  ASSUME NEW active, EscKeyIfActive(active)
  PROVE  escKey' \in BOOLEAN
BY DEF EscKeyIfActive

LEMMA CancelRecordingType ==
  ASSUME TypeOK, CancelRecording
  PROVE  rec' \in Recorder
BY DEF TypeOK, CancelRecording, Recorder
-----------------------------------------------------------------------------
(***************************************************************************)
(* Each action keeps the types, thread by thread.                          *)
(***************************************************************************)
LEMMA InputTypes == TypeOK /\ HandleInput => TypeOK'
<1> SUFFICES ASSUME TypeOK, HandleInput PROVE TypeOK'
  OBVIOUS
<1> USE DEF micVars, sessionVars, taskVars, uiVars
<1>1. Receive("Input")
  BY DEF HandleInput, PressCancelsRelease, ReleaseDeferred, ReleaseIgnored, PressDebounced,
         PressHandled
<1>2. queue' \in Seq(Message) /\ Head(queue) \in Message
  BY <1>1, ReceiveType
<1>3. NoRelease \in PendingRelease
  BY DEF NoRelease, PendingRelease
<1>4. CASE PressCancelsRelease
  BY <1>2, <1>3, <1>4 DEF TypeOK, PressCancelsRelease
<1>5. CASE ReleaseDeferred
  BY <1>2, <1>5 DEF TypeOK, ReleaseDeferred, PendingRelease, Stage, Recorder
<1>6. CASE ReleaseIgnored
  BY <1>2, <1>6 DEF TypeOK, ReleaseIgnored
<1>7. CASE PressDebounced
  BY <1>2, <1>3, <1>7 DEF TypeOK, PressDebounced
<1>8. CASE PressHandled
  <2>1. PICK stuck \in StuckChoices, next \in {stage, IdleStage} :
          /\ RecoverWedgedStage(stuck, next)
          /\ stage' = next
          /\ co' = IF next.kind = "Idle" THEN [co EXCEPT !.at = "start"]
                   ELSE IF next.kind = "Recording" /\ ~Head(queue).ptt
                   THEN [co EXCEPT !.at = "stop", !.stopFor = 0]
                   ELSE co
    BY <1>8 DEF PressHandled
  <2>2. stuck \in BOOLEAN
    BY DEF StuckChoices
  <2>3. /\ stage' \in Stage
        /\ left' \in [BudgetKinds -> Nat]
        /\ pipelineActive' \in BOOLEAN
        /\ tray' \in SUBSET {"recording", "transcribing"}
        /\ overlay' \in BOOLEAN
    BY <2>1, <2>2, RecoverType
  <2>4. co' \in Coordinator
    BY <2>1 DEF TypeOK, Coordinator, StartPoints, StopPoints
  <2> QED BY <1>2, <1>3, <1>8, <2>3, <2>4 DEF TypeOK, PressHandled
<1> QED BY <1>4, <1>5, <1>6, <1>7, <1>8 DEF HandleInput

LEMMA CommandTypes ==
  TypeOK /\ (HandleCommand \/ ExpirePendingRelease) => TypeOK'
<1> SUFFICES ASSUME TypeOK, HandleCommand \/ ExpirePendingRelease PROVE TypeOK'
  OBVIOUS
<1> USE DEF micVars, sessionVars, taskVars, uiVars
<1>1. NoRelease \in PendingRelease /\ IdleStage \in Stage
  BY DEF NoRelease, PendingRelease, IdleStage, Stage
<1>2. ASSUME NEW g \in Nat
      PROVE  [co EXCEPT !.at = "stop", !.stopFor = g] \in Coordinator
  BY DEF TypeOK, Coordinator, StopPoints
<1>3. CASE HandleInput
  BY <1>3, InputTypes
<1>4. CASE HandleCancel
  <2>1. queue' \in Seq(Message)
    BY <1>4, ReceiveType DEF HandleCancel
  <2>2. stage' \in Stage /\ pipelineActive' \in BOOLEAN
    BY <1>1, <1>4 DEF TypeOK, HandleCancel
  <2> QED BY <1>1, <1>4, <2>1, <2>2 DEF TypeOK, HandleCancel
<1>5. CASE HandleSilenceStop
  <2>1. queue' \in Seq(Message) /\ Head(queue) \in Message /\ Head(queue).type = "SilenceStop"
    BY <1>5, ReceiveType DEF HandleSilenceStop, Receive
  <2>2. Head(queue).gen \in Nat
    BY <2>1, HeadFields
  <2>3. pending' \in PendingRelease
    BY <1>1, <1>5 DEF TypeOK, HandleSilenceStop
  <2>4. PICK stuck \in StuckChoices, next \in {stage, IdleStage}, enabled \in BOOLEAN :
          /\ RecoverWedgedStage(stuck, next)
          /\ stage' = next
          /\ co' = IF next.kind = "Recording" /\ rec.gen = Head(queue).gen /\ enabled
                   THEN [co EXCEPT !.at = "stop", !.stopFor = Head(queue).gen]
                   ELSE co
    BY <1>5 DEF HandleSilenceStop
  <2>5. co' \in Coordinator
    BY <1>2, <2>2, <2>4 DEF TypeOK
  <2>6. /\ stage' \in Stage
        /\ left' \in [BudgetKinds -> Nat]
        /\ pipelineActive' \in BOOLEAN
        /\ tray' \in SUBSET {"recording", "transcribing"}
        /\ overlay' \in BOOLEAN
    BY <2>4, RecoverType DEF StuckChoices
  <2> QED BY <1>5, <2>1, <2>3, <2>5, <2>6 DEF TypeOK, HandleSilenceStop
<1>6. CASE HandleProcessingFinished
  <2>1. queue' \in Seq(Message)
    BY <1>6, ReceiveType DEF HandleProcessingFinished
  <2>2. pending' \in PendingRelease /\ stage' \in Stage /\ pipelineActive' \in BOOLEAN
    BY <1>1, <1>6 DEF TypeOK, HandleProcessingFinished
  <2> QED BY <1>6, <2>1, <2>2 DEF TypeOK, HandleProcessingFinished
<1>7. CASE HandleRecordingModeChange
  <2>1. queue' \in Seq(Message)
    BY <1>7, ReceiveType DEF HandleRecordingModeChange
  <2>2. PICK stuck \in StuckChoices, next \in {stage, IdleStage} :
          /\ RecoverWedgedStage(stuck, next)
          /\ stage' = next
          /\ co' = IF next.kind = "Recording" \/ IsRecording
                   THEN [co EXCEPT !.at = "stop", !.stopFor = 0]
                   ELSE co
    BY <1>7 DEF HandleRecordingModeChange
  <2>3. co' \in Coordinator
    BY <1>2, <2>2 DEF TypeOK
  <2>4. /\ stage' \in Stage
        /\ left' \in [BudgetKinds -> Nat]
        /\ pipelineActive' \in BOOLEAN
        /\ tray' \in SUBSET {"recording", "transcribing"}
        /\ overlay' \in BOOLEAN
    BY <2>2, RecoverType DEF StuckChoices
  <2> QED BY <1>1, <1>7, <2>1, <2>3, <2>4 DEF TypeOK, HandleRecordingModeChange
<1>8. CASE ExpirePendingRelease
  <2>1. pending.gen \in Nat
    BY DEF TypeOK, PendingRelease
  <2>2. co' \in Coordinator
    BY <1>2, <1>8, <2>1 DEF TypeOK, ExpirePendingRelease
  <2> QED BY <1>1, <1>8, <2>2 DEF TypeOK, ExpirePendingRelease
<1> QED BY <1>3, <1>4, <1>5, <1>6, <1>7, <1>8 DEF HandleCommand

LEMMA StartTypes == TypeOK /\ Starting => TypeOK'
<1> SUFFICES ASSUME TypeOK, Starting PROVE TypeOK'
  OBVIOUS
<1> USE DEF micVars, sessionVars, taskVars, uiVars
<1>1. ASSUME NEW point \in {"loop"} \cup StartPoints \cup StopPoints, Goto(point)
      PROVE  co' \in Coordinator
  BY <1>1, GotoType
<1>2. CASE StartRefused
  BY <1>1, <1>2 DEF TypeOK, StartRefused, StartPoints
<1>3. CASE BeginSession
  BY <1>1, <1>3 DEF TypeOK, BeginSession, StartPoints
<1>4. CASE ActivateSession
  BY <1>1, <1>4 DEF TypeOK, ActivateSession, StartPoints
<1>5. CASE StartOffline
  <2>1. co' \in Coordinator /\ escKey' \in BOOLEAN
    BY <1>1, <1>5, EscKeyType DEF StartOffline, StartPoints
  <2>2. pipelineActive' \in BOOLEAN /\ overlay' \in BOOLEAN
    BY <1>5 DEF StartOffline
  <2>3. notices' \in Nat
    BY <1>5 DEF TypeOK, StartOffline
  <2> QED BY <1>5, <2>1, <2>2, <2>3 DEF TypeOK, StartOffline
<1>6. CASE SpawnMicThread
  BY <1>1, <1>6 DEF TypeOK, SpawnMicThread, StartPoints
<1>7. CASE ShowStartUi
  BY <1>1, <1>7 DEF TypeOK, ShowStartUi, StartPoints
<1>8. CASE JoinCancelled
  <2>1. co' \in Coordinator /\ escKey' \in BOOLEAN
    BY <1>1, <1>8, EscKeyType DEF JoinCancelled, StartPoints
  <2>2. rec' \in Recorder
    BY <1>8, CancelRecordingType DEF JoinCancelled
  <2> QED BY <1>8, <2>1, <2>2 DEF TypeOK, JoinCancelled
<1>9. CASE JoinLive
  BY <1>1, <1>9 DEF TypeOK, JoinLive, StartPoints
<1>10. CASE JoinFailed
  <2>1. co' \in Coordinator /\ escKey' \in BOOLEAN
    BY <1>1, <1>10, EscKeyType DEF JoinFailed, StartPoints
  <2> QED BY <1>10, <2>1 DEF TypeOK, JoinFailed
<1>11. CASE AnnounceRecording
  BY <1>1, <1>11 DEF TypeOK, AnnounceRecording, StartPoints
<1>12. CASE FinishStart
  <2>1. co' \in Coordinator
    BY <1>1, <1>12 DEF FinishStart
  <2>2. CASE IsRecording
    <3>1. stage' \in Stage
      BY <1>12, <2>2 DEF TypeOK, FinishStart, Stage
    <3> QED BY <1>12, <2>1, <2>2, <3>1 DEF TypeOK, FinishStart
  <2>3. CASE ~IsRecording
    BY <1>12, <2>1, <2>3 DEF TypeOK, FinishStart
  <2> QED BY <2>2, <2>3
<1> QED BY <1>2, <1>3, <1>4, <1>5, <1>6, <1>7, <1>8, <1>9, <1>10, <1>11, <1>12 DEF Starting

LEMMA StopTypes == TypeOK /\ Stopping => TypeOK'
<1> SUFFICES ASSUME TypeOK, Stopping PROVE TypeOK'
  OBVIOUS
<1> USE DEF micVars, sessionVars, taskVars, uiVars
<1>1. CASE StopRecorder
  <2>1. co' \in Coordinator
    BY <1>1 DEF TypeOK, StopRecorder, Goto, Coordinator, StopPoints
  <2>2. rec' \in Recorder
    BY <1>1 DEF TypeOK, StopRecorder, Recorder
  <2> QED BY <1>1, <2>1, <2>2 DEF TypeOK, StopRecorder
<1>2. CASE CaptureTaken
  BY <1>2 DEF TypeOK, CaptureTaken, Coordinator, StopPoints, Recorder
<1>3. CASE LaunchTask
  <2>1. task' \in [TaskIds -> Task]
    BY <1>3 DEF TypeOK, LaunchTask, Task, WorkPhases, Coordinator
  <2>2. stage' \in Stage /\ launched' \in Nat
    BY <1>3 DEF TypeOK, LaunchTask, Stage
  <2>3. co' \in Coordinator
    BY <1>3 DEF LaunchTask, Coordinator
  <2>4. tray' \in SUBSET {"recording", "transcribing"}
    BY <1>3 DEF TypeOK, LaunchTask
  <2> QED BY <1>3, <2>1, <2>2, <2>3, <2>4 DEF TypeOK, LaunchTask
<1> QED BY <1>1, <1>2, <1>3 DEF Stopping

LEMMA DeviceTypes ==
  TypeOK /\ (MicStep \/ DetachedMicStep \/ OfflineNoticeHide \/ SilenceFires) => TypeOK'
<1> SUFFICES ASSUME TypeOK, MicStep \/ DetachedMicStep \/ OfflineNoticeHide \/ SilenceFires
             PROVE  TypeOK'
  OBVIOUS
<1> USE DEF micVars, sessionVars, taskVars, uiVars
<1>1. CASE MicOpens
  BY <1>1 DEF TypeOK, MicOpens, Recorder
<1>2. CASE MicFails
  BY <1>2 DEF TypeOK, MicFails
<1>3. CASE OfflineNoticeHide
  <2>1. overlay' \in BOOLEAN
    BY <1>3 DEF OfflineNoticeHide
  <2>2. notices' \in Nat
    BY <1>3 DEF TypeOK, OfflineNoticeHide
  <2> QED BY <1>3, <2>1, <2>2 DEF TypeOK, OfflineNoticeHide
<1>4. CASE SilenceFires
  <2>1. [type |-> "SilenceStop", gen |-> timer] \in Message
    BY DEF TypeOK, Message
  <2>2. queue' \in Seq(Message)
    BY <1>4, <2>1, SendType DEF SilenceFires
  <2> QED BY <1>4, <2>2 DEF TypeOK, SilenceFires
<1>5. CASE DetachedMicOpens
  BY <1>5 DEF TypeOK, DetachedMicOpens, Recorder
<1>6. CASE DetachedMicFails
  BY <1>6 DEF TypeOK, DetachedMicFails
<1> QED BY <1>1, <1>2, <1>3, <1>4, <1>5, <1>6 DEF MicStep, DetachedMicStep

LEMMA TaskTypes ==
  ASSUME TypeOK, NEW t \in TaskIds, TaskStep(t) \/ TaskPanics(t)
  PROVE  TypeOK'
<1> USE DEF micVars, sessionVars, taskVars, uiVars
<1>1. ASSUME NEW phase \in {"done"} \cup WorkPhases \cup GuardPhases, Move(t, phase)
      PROVE  task' \in [TaskIds -> Task]
  BY <1>1, MoveType
<1>2. ASSUME CleanedUp(t)
      PROVE  /\ task' \in [TaskIds -> Task]
             /\ tray' \in SUBSET {"recording", "transcribing"}
             /\ overlay' \in BOOLEAN
  BY <1>1, <1>2 DEF CleanedUp, GuardPhases
<1>3. ASSUME NEW phase \in WorkPhases, Passes(t, phase)
      PROVE  /\ task' \in [TaskIds -> Task]
             /\ tray' \in SUBSET {"recording", "transcribing"}
             /\ overlay' \in BOOLEAN
  BY <1>1, <1>3 DEF Passes, TypeOK
<1>4. CASE TaskBegun(t)
  <2>1. /\ task' \in [TaskIds -> Task]
        /\ tray' \in SUBSET {"recording", "transcribing"}
        /\ overlay' \in BOOLEAN
    BY <1>2, <1>3, <1>4 DEF TaskBegun, WorkPhases
  <2> QED BY <1>4, <2>1 DEF TypeOK, TaskBegun
<1>5. CASE TaskAnnounces(t)
  <2>1. task' \in [TaskIds -> Task]
    BY <1>1, <1>5 DEF TaskAnnounces, WorkPhases
  <2> QED BY <1>5, <2>1 DEF TypeOK, TaskAnnounces
<1>6. CASE TaskChecksStart(t)
  <2>1. /\ task' \in [TaskIds -> Task]
        /\ tray' \in SUBSET {"recording", "transcribing"}
        /\ overlay' \in BOOLEAN
    BY <1>2, <1>3, <1>6 DEF TaskChecksStart, WorkPhases
  <2> QED BY <1>6, <2>1 DEF TypeOK, TaskChecksStart
<1>7. CASE TaskDecodes(t)
  <2>1. task' \in [TaskIds -> Task]
    BY <1>1, <1>7 DEF TaskDecodes, WorkPhases
  <2> QED BY <1>7, <2>1 DEF TypeOK, TaskDecodes
<1>8. CASE TaskChecksDecode(t)
  <2>1. /\ task' \in [TaskIds -> Task]
        /\ tray' \in SUBSET {"recording", "transcribing"}
        /\ overlay' \in BOOLEAN
    BY <1>2, <1>3, <1>8 DEF TaskChecksDecode, WorkPhases
  <2> QED BY <1>8, <2>1 DEF TypeOK, TaskChecksDecode
<1>9. CASE TaskShowsPill(t)
  <2>1. task' \in [TaskIds -> Task]
    BY <1>1, <1>9 DEF TaskShowsPill, WorkPhases
  <2>2. overlay' \in BOOLEAN
    BY <1>9 DEF TypeOK, TaskShowsPill
  <2> QED BY <1>9, <2>1, <2>2 DEF TypeOK, TaskShowsPill
<1>10. CASE TaskChecksShow(t)
  <2>1. /\ task' \in [TaskIds -> Task]
        /\ tray' \in SUBSET {"recording", "transcribing"}
        /\ overlay' \in BOOLEAN
    BY <1>2, <1>3, <1>10 DEF TaskChecksShow, WorkPhases
  <2> QED BY <1>10, <2>1 DEF TypeOK, TaskChecksShow
<1>11. CASE TaskPostProcesses(t)
  <2>1. task' \in [TaskIds -> Task]
    BY <1>1, <1>11 DEF TaskPostProcesses, WorkPhases
  <2> QED BY <1>11, <2>1 DEF TypeOK, TaskPostProcesses
<1>12. CASE TaskChecksPost(t)
  <2>1. /\ task' \in [TaskIds -> Task]
        /\ tray' \in SUBSET {"recording", "transcribing"}
        /\ overlay' \in BOOLEAN
    BY <1>2, <1>3, <1>12 DEF TaskChecksPost, WorkPhases
  <2> QED BY <1>12, <2>1 DEF TypeOK, TaskChecksPost
<1>13. CASE TaskDelivers(t)
  <2>1. task' \in [TaskIds -> Task]
    <3>1. PICK text \in BOOLEAN :
            task' = [task EXCEPT ![t].phase = "guard", ![t].pasted = text]
      BY <1>13 DEF TaskDelivers
    <3>2. [task[t] EXCEPT !.phase = "guard", !.pasted = text] \in Task
      BY DEF TypeOK, Task, GuardPhases
    <3>3. task' = [task EXCEPT ![t] = [task[t] EXCEPT !.phase = "guard", !.pasted = text]]
      BY <3>1, Zenon
    <3> QED BY <3>2, <3>3 DEF TypeOK
  <2>2. overlay' \in BOOLEAN
    BY <1>13 DEF TaskDelivers
  <2> QED BY <1>13, <2>1, <2>2 DEF TypeOK, TaskDelivers
<1>14. CASE TaskTerminates(t)
  <2>1. task' \in [TaskIds -> Task]
    BY <1>1, <1>14 DEF TaskTerminates, GuardPhases
  <2>2. overlay' \in BOOLEAN
    BY <1>14 DEF TaskTerminates
  <2> QED BY <1>14, <2>1, <2>2 DEF TypeOK, TaskTerminates
<1>15. CASE GuardTests(t)
  <2>1. task' \in [TaskIds -> Task]
    BY <1>1, <1>15 DEF GuardTests, GuardPhases
  <2> QED BY <1>15, <2>1 DEF TypeOK, GuardTests
<1>16. CASE GuardTestsAgain(t)
  <2>1. task' \in [TaskIds -> Task]
    BY <1>1, <1>16 DEF GuardTestsAgain, GuardPhases
  <2> QED BY <1>16, <2>1 DEF TypeOK, GuardTestsAgain
<1>17. CASE GuardStores(t)
  <2>1. task' \in [TaskIds -> Task]
    BY <1>1, <1>17 DEF GuardStores, GuardPhases
  <2>2. pipelineActive' \in BOOLEAN
    BY <1>17 DEF GuardStores
  <2> QED BY <1>17, <2>1, <2>2 DEF TypeOK, GuardStores
<1>18. CASE GuardPaints(t)
  <2>1. task' \in [TaskIds -> Task] /\ escKey' \in BOOLEAN
    BY <1>1, <1>18, EscKeyType DEF GuardPaints, GuardPhases
  <2> QED BY <1>18, <2>1 DEF TypeOK, GuardPaints
<1>19. CASE GuardNotifies(t)
  <2>1. task' \in [TaskIds -> Task]
    BY <1>1, <1>19 DEF GuardNotifies
  <2>2. [type |-> "ProcessingFinished", session |-> task[t].session] \in Message
    BY DEF TypeOK, Task, Message
  <2>3. queue' \in Seq(Message)
    BY <1>19, <2>2, SendType DEF GuardNotifies
  <2> QED BY <1>19, <2>1, <2>3 DEF TypeOK, GuardNotifies
<1>20. CASE TaskPanics(t)
  <2>1. task' \in [TaskIds -> Task]
    BY <1>1, <1>20 DEF TaskPanics, GuardPhases
  <2>2. left' \in [BudgetKinds -> Nat]
    BY <1>20, SpendType DEF TaskPanics, BudgetKinds
  <2> QED BY <1>20, <2>1, <2>2 DEF TypeOK, TaskPanics
<1> QED BY <1>4, <1>5, <1>6, <1>7, <1>8, <1>9, <1>10, <1>11, <1>12, <1>13, <1>14, <1>15,
           <1>16, <1>17, <1>18, <1>19, <1>20 DEF TaskStep

LEMMA CancellerTypes ==
  ASSUME TypeOK, NEW c \in Cancellers, CancellerStep(c) \/ CancelBegins(c)
  PROVE  TypeOK'
<1> USE DEF micVars, sessionVars, taskVars, uiVars
<1>1. ASSUME NEW point \in {"idle", "swap", "nothing", "mark", "abort", "quiet",
                            "notify", "epilogue"},
             CancGoto(c, point)
      PROVE  canc' \in [Cancellers -> Canceller]
  BY <1>1 DEF TypeOK, CancGoto, Canceller
<1>2. CASE CancelBegins(c)
  <2>1. left' \in [BudgetKinds -> Nat]
    BY <1>2, SpendType DEF CancelBegins, BudgetKinds
  <2>2. canc' \in [Cancellers -> Canceller]
    BY <1>2 DEF TypeOK, CancelBegins, IsRecording, Canceller
  <2> QED BY <1>2, <2>1, <2>2 DEF TypeOK, CancelBegins
<1>3. CASE CancelSwaps(c)
  <2>1. canc' \in [Cancellers -> Canceller]
    BY <1>1, <1>3 DEF CancelSwaps
  <2>2. pipelineActive' \in BOOLEAN
    BY <1>3 DEF CancelSwaps
  <2> QED BY <1>3, <2>1, <2>2 DEF TypeOK, CancelSwaps
<1>4. CASE CancelsNothing(c)
  <2>1. canc' \in [Cancellers -> Canceller]
    BY <1>1, <1>4 DEF CancelsNothing
  <2>2. escKey' \in BOOLEAN
    BY <1>4, EscKeyType DEF CancelsNothing
  <2> QED BY <1>4, <2>1, <2>2 DEF TypeOK, CancelsNothing
<1>5. CASE CancelMarks(c)
  <2>1. canc' \in [Cancellers -> Canceller]
    BY <1>5 DEF TypeOK, CancelMarks, Canceller
  <2>2. cancelledThrough' \in Nat
    BY <1>5 DEF TypeOK, CancelMarks
  <2>3. Unreleased(currentSession) \subseteq Nat
    BY DEF TypeOK, Unreleased
  <2>4. doomed' \in SUBSET Nat
    BY <1>5, <2>3 DEF TypeOK, CancelMarks
  <2> QED BY <1>5, <2>1, <2>2, <2>4 DEF TypeOK, CancelMarks
<1>6. CASE CancelAborts(c)
  <2>1. canc' \in [Cancellers -> Canceller]
    BY <1>1, <1>6 DEF CancelAborts
  <2>2. rec' \in Recorder
    BY <1>6, CancelRecordingType DEF CancelAborts
  <2> QED BY <1>6, <2>1, <2>2 DEF TypeOK, CancelAborts
<1>7. CASE CancelQuietsUi(c)
  <2>1. canc' \in [Cancellers -> Canceller]
    BY <1>1, <1>7 DEF CancelQuietsUi
  <2>2. overlay' \in BOOLEAN
    BY <1>7 DEF CancelQuietsUi
  <2> QED BY <1>7, <2>1, <2>2 DEF TypeOK, CancelQuietsUi
<1>8. CASE CancelNotifies(c)
  <2>1. canc' \in [Cancellers -> Canceller]
    BY <1>1, <1>8 DEF CancelNotifies
  <2>2. [type |-> "Cancel", wasRecording |-> canc[c].wasRecording,
         through |-> canc[c].through] \in Message
    BY DEF TypeOK, Canceller, Message
  <2>3. queue' \in Seq(Message)
    BY <1>8, <2>2, SendType DEF CancelNotifies
  <2> QED BY <1>8, <2>1, <2>3 DEF TypeOK, CancelNotifies
<1>9. CASE CancelEnds(c)
  <2>1. canc' \in [Cancellers -> Canceller]
    BY <1>9 DEF TypeOK, CancelEnds, Canceller
  <2>2. escKey' \in BOOLEAN
    BY <1>9, EscKeyType DEF CancelEnds
  <2>3. tray' \in SUBSET {"recording", "transcribing"}
    BY <1>9 DEF TypeOK, CancelEnds
  <2> QED BY <1>9, <2>1, <2>2, <2>3 DEF TypeOK, CancelEnds
<1> QED BY <1>2, <1>3, <1>4, <1>5, <1>6, <1>7, <1>8, <1>9 DEF CancellerStep

LEMMA EnvironmentTypes ==
  ASSUME TypeOK,
         KeyDown \/ KeyUp \/ KeyEcho \/ TogglePress \/ SilenceCheck \/ ClearAudioQueue
           \/ ModeChange
  PROVE  TypeOK'
<1> USE DEF micVars, sessionVars, taskVars, uiVars
<1>1. ASSUME NEW pressed \in BOOLEAN, NEW ptt \in BOOLEAN, Input(pressed, ptt)
      PROVE  queue' \in Seq(Message)
  <2>1. [type |-> "Input", pressed |-> pressed, ptt |-> ptt] \in Message
    BY DEF Message
  <2> QED BY <1>1, <2>1, SendType DEF Input
<1>2. ASSUME NEW kind \in BudgetKinds, Spend(kind)
      PROVE  left' \in [BudgetKinds -> Nat]
  BY <1>2, SpendType
<1>3. CASE KeyDown
  <2>1. queue' \in Seq(Message)
    BY <1>1, <1>3 DEF KeyDown
  <2>2. left' \in [BudgetKinds -> Nat]
    BY <1>2, <1>3 DEF KeyDown, BudgetKinds
  <2>3. held' \in BOOLEAN
    BY <1>3 DEF KeyDown
  <2> QED BY <1>3, <2>1, <2>2, <2>3 DEF TypeOK, KeyDown
<1>4. CASE KeyUp
  <2>1. queue' \in Seq(Message)
    BY <1>1, <1>4 DEF KeyUp
  <2>2. held' \in BOOLEAN
    BY <1>4 DEF KeyUp
  <2> QED BY <1>4, <2>1, <2>2 DEF TypeOK, KeyUp
<1>5. CASE KeyEcho
  <2>1. queue' \in Seq(Message)
    BY <1>1, <1>5 DEF KeyEcho
  <2>2. left' \in [BudgetKinds -> Nat]
    BY <1>2, <1>5 DEF KeyEcho, BudgetKinds
  <2> QED BY <1>5, <2>1, <2>2 DEF TypeOK, KeyEcho
<1>6. CASE TogglePress
  <2>1. queue' \in Seq(Message)
    BY <1>1, <1>6 DEF TogglePress
  <2>2. left' \in [BudgetKinds -> Nat]
    BY <1>2, <1>6 DEF TogglePress, BudgetKinds
  <2> QED BY <1>6, <2>1, <2>2 DEF TypeOK, TogglePress
<1>7. CASE SilenceCheck
  <2>1. left' \in [BudgetKinds -> Nat]
    BY <1>2, <1>7 DEF SilenceCheck, BudgetKinds
  <2> QED BY <1>7, <2>1 DEF TypeOK, SilenceCheck, Recorder
<1>8. CASE ClearAudioQueue
  <2>1. left' \in [BudgetKinds -> Nat]
    BY <1>2, <1>8 DEF ClearAudioQueue, BudgetKinds
  <2>2. rec' \in Recorder
    BY <1>8, CancelRecordingType DEF ClearAudioQueue
  <2> QED BY <1>8, <2>1, <2>2 DEF TypeOK, ClearAudioQueue
<1>9. CASE ModeChange
  <2>1. left' \in [BudgetKinds -> Nat]
    BY <1>2, <1>9 DEF ModeChange, BudgetKinds
  <2>2. [type |-> "FinalizeRecordingModeChange"] \in Message
    BY DEF Message
  <2>3. queue' \in Seq(Message)
    BY <1>9, <2>2, SendType DEF ModeChange
  <2> QED BY <1>9, <2>1, <2>3 DEF TypeOK, ModeChange
<1> QED BY <1>3, <1>4, <1>5, <1>6, <1>7, <1>8, <1>9

LEMMA PanicTypes == TypeOK /\ (CoordinatorPanics \/ StartPanics) => TypeOK'
<1> SUFFICES ASSUME TypeOK, CoordinatorPanics \/ StartPanics PROVE TypeOK'
  OBVIOUS
<1> USE DEF micVars, sessionVars, taskVars, uiVars
<1>1. /\ [at |-> "loop", stopFor |-> 0, captured |-> FALSE] \in Coordinator
      /\ IdleStage \in Stage /\ NoRelease \in PendingRelease
  BY DEF Coordinator, IdleStage, Stage, NoRelease, PendingRelease
<1>2. CASE CoordinatorPanics
  <2>1. left' \in [BudgetKinds -> Nat]
    BY <1>2, SpendType DEF CoordinatorPanics, BudgetKinds
  <2> QED BY <1>1, <1>2, <2>1 DEF TypeOK, CoordinatorPanics
<1>3. CASE StartPanics
  <2>1. left' \in [BudgetKinds -> Nat]
    BY <1>3, SpendType DEF StartPanics, BudgetKinds
  <2>2. detached' \in Nat
    BY <1>3 DEF TypeOK, StartPanics
  <2>3. escKey' \in BOOLEAN
    BY <1>3 DEF TypeOK, StartPanics
  <2> QED BY <1>1, <1>3, <2>1, <2>2, <2>3 DEF TypeOK, StartPanics
<1> QED BY <1>2, <1>3
-----------------------------------------------------------------------------
(***************************************************************************)
(* Type correctness.                                                       *)
(***************************************************************************)
LEMMA InitType == Init => TypeOK
<1> SUFFICES ASSUME Init PROVE TypeOK
  OBVIOUS
<1>1. queue \in Seq(Message)
  BY DEF Init
<1>2. stage \in Stage /\ pending \in PendingRelease /\ co \in Coordinator
  BY DEF Init, IdleStage, Stage, NoRelease, PendingRelease, Coordinator
<1>3. rec \in Recorder /\ task \in [TaskIds -> Task]
  BY DEF Init, Recorder, Task
<1>4. canc \in [Cancellers -> Canceller]
  BY DEF Init, Canceller
<1>5. left \in [BudgetKinds -> Nat]
  BY BudgetAssumption DEF Init
<1> QED BY <1>1, <1>2, <1>3, <1>4, <1>5 DEF Init, TypeOK

LEMMA NextType == TypeOK /\ [Next]_vars => TypeOK'
<1> SUFFICES ASSUME TypeOK, [Next]_vars PROVE TypeOK'
  OBVIOUS
<1>1. CASE CoordinatorStep
  BY <1>1, CommandTypes, StartTypes, StopTypes DEF CoordinatorStep
<1>2. CASE MicStep \/ DetachedMicStep \/ OfflineNoticeHide \/ SilenceFires
  BY <1>2, DeviceTypes
<1>3. CASE \E t \in TaskIds : TaskStep(t)
  BY <1>3, TaskTypes
<1>4. CASE \E c \in Cancellers : CancellerStep(c)
  BY <1>4, CancellerTypes
<1>5. CASE Environment
  BY <1>5, EnvironmentTypes, CancellerTypes DEF Environment
<1>6. CASE Panic
  BY <1>6, PanicTypes, TaskTypes DEF Panic
<1>7. CASE UNCHANGED vars
  BY <1>7 DEF vars, micVars, sessionVars, taskVars, uiVars, TypeOK
<1> QED BY <1>1, <1>2, <1>3, <1>4, <1>5, <1>6, <1>7 DEF Next

\* Every variable keeps its type: the records, program counters and messages the
\* threads exchange are those the code declares (TypeOK).
THEOREM TypeCorrect == Spec => []TypeOK
BY InitType, NextType, PTL DEF Spec
-----------------------------------------------------------------------------
(***************************************************************************)
(* The Budget.  What it grants no time at all never happens: theorems that *)
(* do not hold of every behaviour name such a kind of step as hypothesis.  *)
(***************************************************************************)
Unspent(kind) == left[kind] = 0

LEMMA UnspentStays ==
  ASSUME TypeOK, [Next]_vars, NEW kind \in BudgetKinds, Unspent(kind)
  PROVE  Unspent(kind)'
<1> USE DEF micVars, sessionVars, taskVars, uiVars
<1>1. UNCHANGED left \/ \E k : Spend(k)
  <2>1. CASE CoordinatorStep
    BY <2>1 DEF CoordinatorStep, HandleCommand, HandleInput, PressCancelsRelease,
       ReleaseDeferred, ReleaseIgnored, PressDebounced, PressHandled, HandleCancel,
       HandleSilenceStop, HandleProcessingFinished, HandleRecordingModeChange,
       ExpirePendingRelease, RecoverWedgedStage, Starting, StartRefused, BeginSession,
       ActivateSession, StartOffline, SpawnMicThread, ShowStartUi, JoinCancelled, JoinLive,
       JoinFailed, AnnounceRecording, FinishStart, Stopping, StopRecorder, CaptureTaken,
       LaunchTask
  <2>2. CASE ~CoordinatorStep
    BY <2>2 DEF Next, MicStep, MicOpens, MicFails, DetachedMicStep, DetachedMicOpens,
       DetachedMicFails, StartPanics, OfflineNoticeHide, SilenceFires,
       TaskStep, TaskBegun, TaskAnnounces, TaskChecksStart, TaskDecodes, TaskChecksDecode,
       TaskShowsPill, TaskChecksShow, TaskPostProcesses, TaskChecksPost, TaskDelivers,
       TaskTerminates, GuardTests, GuardTestsAgain, GuardStores, GuardPaints,
       GuardNotifies, CancellerStep, CancelSwaps, CancelsNothing, CancelMarks,
       CancelAborts, CancelQuietsUi, CancelNotifies, CancelEnds, Environment, KeyDown,
       KeyUp, KeyEcho, TogglePress, SilenceCheck, ClearAudioQueue, ModeChange,
       CancelBegins, Panic, CoordinatorPanics, TaskPanics, vars
  <2> QED BY <2>1, <2>2
<1>2. ASSUME NEW k, Spend(k) PROVE left'[kind] = 0
  BY <1>2 DEF Spend, Unspent, TypeOK
<1> QED BY <1>1, <1>2 DEF Unspent

LEMMA NoStepUnspent ==
  ASSUME NEW kind, Unspent(kind)
  PROVE  ~Spend(kind)
BY DEF Unspent, Spend

\* No start() panics while its microphone thread is out.
NoStartPanics == Budget["startPanic"] = 0

NoneDetached == detached = 0 /\ Unspent("startPanic")

LEMMA NoneDetachedStep ==
  ASSUME NoneDetached
  PROVE  ~StartPanics /\ ~DetachedMicStep
<1>1. ~Spend("startPanic")
  BY NoStepUnspent DEF NoneDetached
<1>2. ~(detached > 0)
  BY DEF NoneDetached
<1> QED BY <1>1, <1>2 DEF StartPanics, DetachedMicStep, DetachedMicOpens, DetachedMicFails

LEMMA NoneDetachedInit == Init /\ NoStartPanics => NoneDetached
BY DEF Init, NoStartPanics, NoneDetached, Unspent

\* Only a panicked start() leaves a microphone thread behind.
LEMMA NoneDetachedNext == TypeOK /\ NoneDetached /\ [Next]_vars => NoneDetached'
<1> SUFFICES ASSUME TypeOK, NoneDetached, [Next]_vars PROVE NoneDetached'
  OBVIOUS
<1> USE DEF micVars, sessionVars, taskVars, uiVars
<1>1. Unspent("startPanic")'
  BY UnspentStays DEF NoneDetached, BudgetKinds
<1>2. CASE CoordinatorStep
  <2>1. UNCHANGED detached
    BY <1>2 DEF CoordinatorStep, HandleCommand, HandleInput, PressCancelsRelease,
       ReleaseDeferred, ReleaseIgnored, PressDebounced, PressHandled, HandleCancel,
       HandleSilenceStop, HandleProcessingFinished, HandleRecordingModeChange,
       ExpirePendingRelease, Starting, StartRefused, BeginSession, ActivateSession,
       StartOffline, SpawnMicThread, ShowStartUi, JoinCancelled, JoinLive, JoinFailed,
       AnnounceRecording, FinishStart, Stopping, StopRecorder, CaptureTaken, LaunchTask
  <2> QED BY <1>1, <2>1 DEF NoneDetached
<1>3. CASE ~CoordinatorStep
  <2>1. UNCHANGED detached
    BY <1>3, NoneDetachedStep DEF Next, MicStep, MicOpens, MicFails, OfflineNoticeHide,
       SilenceFires, TaskStep, TaskBegun, TaskAnnounces, TaskChecksStart, TaskDecodes,
       TaskChecksDecode, TaskShowsPill, TaskChecksShow, TaskPostProcesses, TaskChecksPost,
       TaskDelivers, TaskTerminates, GuardTests, GuardTestsAgain, GuardStores,
       GuardPaints, GuardNotifies, CancellerStep, CancelSwaps, CancelsNothing,
       CancelMarks, CancelAborts, CancelQuietsUi, CancelNotifies, CancelEnds, Environment,
       KeyDown, KeyUp, KeyEcho, TogglePress, SilenceCheck, ClearAudioQueue, ModeChange,
       CancelBegins, Panic, CoordinatorPanics, TaskPanics, vars
  <2> QED BY <1>1, <2>1 DEF NoneDetached
<1> QED BY <1>2, <1>3
-----------------------------------------------------------------------------
(***************************************************************************)
(* A cancelled session releases no text.  By itself the property is not    *)
(* inductive: that the last cancellation point stops a doomed task needs   *)
(* every doomed session to be under the high-water mark.                   *)
(***************************************************************************)
DoomedAreCancelled == \A s \in doomed : Cancelled(s)

CancelInv == DoomedAreCancelled /\ NoOutputAfterCancel

\* The steps that touch none of the three variables the invariant speaks of.
LEMMA CancelFrame ==
  ASSUME CancelInv, UNCHANGED <<task, doomed, cancelledThrough>>
  PROVE  CancelInv'
BY DEF CancelInv, DoomedAreCancelled, NoOutputAfterCancel, Cancelled, Released

\* The steps of a task that do not release its text.
LEMMA CancelMove ==
  ASSUME TypeOK, CancelInv, NEW t \in TaskIds, NEW phase, phase # "deliver", Move(t, phase),
         UNCHANGED <<doomed, cancelledThrough>>
  PROVE  CancelInv'
<1>1. DoomedAreCancelled'
  BY DEF CancelInv, DoomedAreCancelled, Cancelled
<1>2. \A u \in TaskIds : /\ task'[u].session = task[u].session
                         /\ Released(u)' => Released(u)
  BY DEF TypeOK, Move, Task, Released
<1>3. NoOutputAfterCancel'
  BY <1>2 DEF CancelInv, NoOutputAfterCancel
<1> QED BY <1>1, <1>3 DEF CancelInv

LEMMA CancelCoordinator == TypeOK /\ CancelInv /\ CoordinatorStep => CancelInv'
<1> SUFFICES ASSUME TypeOK, CancelInv, CoordinatorStep PROVE CancelInv'
  OBVIOUS
<1> USE DEF micVars, sessionVars, taskVars, uiVars
<1>1. CASE HandleCommand \/ ExpirePendingRelease
  <2>1. UNCHANGED <<task, doomed, cancelledThrough>>
    BY <1>1 DEF HandleCommand, HandleInput, PressCancelsRelease, ReleaseDeferred,
       ReleaseIgnored, PressDebounced, PressHandled, HandleCancel, HandleSilenceStop,
       HandleProcessingFinished, HandleRecordingModeChange, ExpirePendingRelease
  <2> QED BY <2>1, CancelFrame
<1>2. CASE Starting
  <2>1. UNCHANGED <<task, doomed, cancelledThrough>>
    BY <1>2 DEF Starting, StartRefused, BeginSession, ActivateSession, StartOffline,
       SpawnMicThread, ShowStartUi, JoinCancelled, JoinLive, JoinFailed,
       AnnounceRecording, FinishStart
  <2> QED BY <2>1, CancelFrame
<1>3. CASE StopRecorder \/ CaptureTaken
  <2>1. UNCHANGED <<task, doomed, cancelledThrough>>
    BY <1>3 DEF StopRecorder, CaptureTaken
  <2> QED BY <2>1, CancelFrame
<1>4. CASE LaunchTask
  <2>1. DoomedAreCancelled'
    BY <1>4 DEF CancelInv, DoomedAreCancelled, Cancelled, LaunchTask
  <2>2. \A u \in TaskIds : \/ task'[u] = task[u]
                           \/ task'[u].phase = "begun" /\ ~task'[u].pasted
    BY <1>4 DEF TypeOK, LaunchTask
  <2>3. \A u \in TaskIds : task'[u].session \in doomed => ~Released(u)'
    BY <1>4, <2>2 DEF CancelInv, NoOutputAfterCancel, Released, LaunchTask
  <2>4. NoOutputAfterCancel'
    BY <1>4, <2>3 DEF NoOutputAfterCancel, LaunchTask
  <2> QED BY <2>1, <2>4 DEF CancelInv
<1> QED BY <1>1, <1>2, <1>3, <1>4 DEF CoordinatorStep, Stopping

LEMMA CancelTask ==
  ASSUME TypeOK, CancelInv, NEW t \in TaskIds, TaskStep(t) \/ TaskPanics(t)
  PROVE  CancelInv'
<1> USE DEF micVars, sessionVars, taskVars, uiVars
<1>1. UNCHANGED <<doomed, cancelledThrough>>
  BY DEF TaskStep, TaskBegun, TaskAnnounces, TaskChecksStart, TaskDecodes,
     TaskChecksDecode, TaskShowsPill, TaskChecksShow, TaskPostProcesses, TaskChecksPost,
     TaskDelivers, TaskTerminates, GuardTests, GuardTestsAgain, GuardStores, GuardPaints,
     GuardNotifies, TaskPanics
<1>2. CASE TaskChecksPost(t) /\ Passes(t, "deliver")
  <2>1. task[t].session \notin doomed
    BY <1>2 DEF CancelInv, DoomedAreCancelled, Passes
  <2>2. \A u \in TaskIds : /\ task'[u].session = task[u].session
                           /\ u # t => Released(u)' = Released(u)
    BY <1>2 DEF TypeOK, Passes, Move, Task, Released
  <2>3. NoOutputAfterCancel'
    BY <1>1, <2>1, <2>2 DEF CancelInv, NoOutputAfterCancel
  <2>4. DoomedAreCancelled'
    BY <1>1 DEF CancelInv, DoomedAreCancelled, Cancelled
  <2> QED BY <2>3, <2>4 DEF CancelInv
<1>3. CASE TaskDelivers(t)
  <2>1. Released(t)
    BY <1>3 DEF TaskDelivers, At, Released
  <2>2. PICK text \in BOOLEAN :
          task' = [task EXCEPT ![t].phase = "guard", ![t].pasted = text]
    BY <1>3 DEF TaskDelivers
  <2>3. task' = [task EXCEPT ![t] = [task[t] EXCEPT !.phase = "guard", !.pasted = text]]
    BY <2>2, Zenon
  <2>4. \A u \in TaskIds : /\ task'[u].session = task[u].session
                           /\ u # t => Released(u)' = Released(u)
    BY <2>3 DEF TypeOK, Task, Released
  <2>5. NoOutputAfterCancel'
    BY <1>1, <2>1, <2>4 DEF CancelInv, NoOutputAfterCancel
  <2>6. DoomedAreCancelled'
    BY <1>1 DEF CancelInv, DoomedAreCancelled, Cancelled
  <2> QED BY <2>5, <2>6 DEF CancelInv
<1>4. CASE \E phase : phase # "deliver" /\ Move(t, phase)
  BY <1>1, <1>4, CancelMove
<1>5. \/ TaskChecksPost(t) /\ Passes(t, "deliver")
      \/ TaskDelivers(t)
      \/ \E phase : phase # "deliver" /\ Move(t, phase)
  BY DEF TaskStep, TaskBegun, TaskAnnounces, TaskChecksStart, TaskDecodes,
     TaskChecksDecode, TaskShowsPill, TaskChecksShow, TaskPostProcesses, TaskChecksPost,
     TaskTerminates, GuardTests, GuardTestsAgain, GuardStores, GuardPaints,
     GuardNotifies, TaskPanics, CleanedUp, Passes
<1> QED BY <1>2, <1>3, <1>4, <1>5

LEMMA CancelCanceller ==
  ASSUME TypeOK, CancelInv, NEW c \in Cancellers, CancellerStep(c) \/ CancelBegins(c)
  PROVE  CancelInv'
<1> USE DEF micVars, sessionVars, taskVars, uiVars
<1>1. CASE CancelMarks(c)
  <2>1. /\ currentSession \in Nat /\ cancelledThrough \in Nat
        /\ currentSession <= cancelledThrough' /\ cancelledThrough <= cancelledThrough'
        /\ cancelledThrough' \in Nat
    BY <1>1 DEF TypeOK, CancelMarks
  <2>2. \A s \in Unreleased(currentSession) : s \in Nat /\ s # 0 /\ s <= currentSession
    BY <2>1 DEF Unreleased
  <2>3. \A s \in doomed : s \in Nat /\ s # 0 /\ s <= cancelledThrough
    BY DEF TypeOK, CancelInv, DoomedAreCancelled, Cancelled
  <2>4. doomed' = doomed \cup Unreleased(currentSession) /\ task' = task
    BY <1>1 DEF CancelMarks
  <2>5. DoomedAreCancelled'
    BY <2>1, <2>2, <2>3, <2>4 DEF DoomedAreCancelled, Cancelled
  <2>6. \A u \in TaskIds : task[u].session \in doomed' => ~Released(u)
    BY <2>4 DEF CancelInv, NoOutputAfterCancel, Unreleased
  <2>7. NoOutputAfterCancel'
    BY <2>4, <2>6 DEF NoOutputAfterCancel, Released
  <2> QED BY <2>5, <2>7 DEF CancelInv
<1>2. CASE ~CancelMarks(c)
  <2>1. UNCHANGED <<task, doomed, cancelledThrough>>
    BY <1>2 DEF CancellerStep, CancelBegins, CancelSwaps, CancelsNothing, CancelAborts,
       CancelQuietsUi, CancelNotifies, CancelEnds
  <2> QED BY <2>1, CancelFrame
<1> QED BY <1>1, <1>2

LEMMA CancelNext == TypeOK /\ CancelInv /\ [Next]_vars => CancelInv'
<1> SUFFICES ASSUME TypeOK, CancelInv, [Next]_vars PROVE CancelInv'
  OBVIOUS
<1> USE DEF micVars, sessionVars, taskVars, uiVars
<1>1. CASE CoordinatorStep
  BY <1>1, CancelCoordinator
<1>2. CASE MicStep \/ DetachedMicStep \/ OfflineNoticeHide \/ SilenceFires
  <2>1. UNCHANGED <<task, doomed, cancelledThrough>>
    BY <1>2 DEF MicStep, MicOpens, MicFails, DetachedMicStep, DetachedMicOpens,
       DetachedMicFails, OfflineNoticeHide, SilenceFires
  <2> QED BY <2>1, CancelFrame
<1>3. CASE \E t \in TaskIds : TaskStep(t)
  BY <1>3, CancelTask
<1>4. CASE \E c \in Cancellers : CancellerStep(c)
  BY <1>4, CancelCanceller
<1>5. CASE Environment
  <2>1. CASE \E c \in Cancellers : CancelBegins(c)
    BY <2>1, CancelCanceller
  <2>2. CASE ~\E c \in Cancellers : CancelBegins(c)
    <3>1. UNCHANGED <<task, doomed, cancelledThrough>>
      BY <1>5, <2>2 DEF Environment, KeyDown, KeyUp, KeyEcho, TogglePress, SilenceCheck,
         ClearAudioQueue, ModeChange
    <3> QED BY <3>1, CancelFrame
  <2> QED BY <2>1, <2>2
<1>6. CASE CoordinatorPanics \/ StartPanics
  BY <1>6, CancelFrame DEF CoordinatorPanics, StartPanics
<1>7. CASE \E t \in TaskIds : TaskPanics(t)
  BY <1>7, CancelTask
<1>8. CASE UNCHANGED vars
  BY <1>8, CancelFrame DEF vars
<1> QED BY <1>1, <1>2, <1>3, <1>4, <1>5, <1>6, <1>7, <1>8 DEF Next, Panic

LEMMA CancelInit == Init => CancelInv
BY DEF Init, CancelInv, DoomedAreCancelled, NoOutputAfterCancel

\* Whatever the number of cancelling threads, tasks and sessions, text of a session
\* whose cancellation was marked in time is never released by its pipeline task:
\* cancelled_session_cleanup before each release.
THEOREM CancelledIsSilent == Spec => []NoOutputAfterCancel
<1>1. CancelInv => NoOutputAfterCancel
  BY DEF CancelInv
<1> QED BY <1>1, TypeCorrect, CancelInit, CancelNext, PTL DEF Spec
=============================================================================
