----------------------- MODULE DictationPromiseProofs -----------------------
(***************************************************************************)
(* DictationCoordinator implements DictationPromise, for every number of   *)
(* cancelling threads, every budget and every size of the task table.      *)
(*                                                                         *)
(* That a cancelled session stays withheld follows from CancelInv.  That a *)
(* session leaves at most once needs to know that no two tasks were given  *)
(* audio of one session (OnceInv): the recorder is started at most once    *)
(* per session, and each stop takes what it has recorded away.             *)
(***************************************************************************)
EXTENDS DictationCoordinatorProofs

-----------------------------------------------------------------------------
(***************************************************************************)
(* One recording, one task.                                                *)
(***************************************************************************)

\* Audio of the current session is being, or may still be, recorded for a task
\* that is not launched yet.
Capturing ==
  \/ co.at \in {"activate", "gate", "capture"}
  \/ mic # "none"
  \/ rec.state # "Idle"
  \/ co.at = "launch" /\ co.captured

\* The microphone thread lives while start() waits for it.
MicOwned == mic # "none" => co.at \in {"ui", "join"}

LaunchIsIdle == co.at = "launch" /\ co.captured => rec.state = "Idle"

\* The tasks with audio, and those whose text has left.
Taken  == {t \in TaskIds : task[t].captured}
Pasted == {t \in TaskIds : task[t].pasted}

Handling == WorkPhases \ {"begun", "terminal"}

NotTakenYet ==
  Capturing => /\ currentSession > 0
               /\ \A t \in Taken : task[t].session # currentSession

TaskShape ==
  \A t \in TaskIds :
    /\ task[t].session <= currentSession
    /\ t \in Taken => task[t].session > 0
    /\ task[t].phase \in {"free"} \cup WorkPhases => t \notin Pasted
    /\ t \in Pasted \/ task[t].phase \in Handling => t \in Taken
    /\ t > launched => task[t].phase = "free" /\ t \notin Taken

OneTaskPerTake ==
  \A t, u \in Taken : t # u => task[t].session # task[u].session

OnceInv == MicOwned /\ LaunchIsIdle /\ NotTakenYet /\ TaskShape /\ OneTaskPerTake

LEMMA OnceInit == Init => OnceInv
<1> SUFFICES ASSUME Init PROVE OnceInv
  OBVIOUS
<1>1. Taken = {} /\ Pasted = {}
  BY DEF Init, Taken, Pasted
<1>2. \A t \in TaskIds : task[t].session = 0 /\ task[t].phase = "free"
  BY DEF Init
<1>3. "free" \notin Handling
  BY DEF Handling, WorkPhases
<1>4. currentSession = 0
  BY DEF Init
<1>5. TaskShape
  BY <1>1, <1>2, <1>3, <1>4 DEF TaskShape
<1>6. MicOwned /\ LaunchIsIdle /\ NotTakenYet
  BY DEF Init, Capturing, MicOwned, LaunchIsIdle, NotTakenYet
<1>7. OneTaskPerTake
  BY <1>1 DEF OneTaskPerTake
<1> QED BY <1>5, <1>6, <1>7 DEF OnceInv

\* The steps that begin no session, touch no task and record nothing new.
LEMMA OnceFrame ==
  ASSUME OnceInv, UNCHANGED <<task, launched, currentSession>>, Capturing' => Capturing,
         MicOwned', LaunchIsIdle'
  PROVE  OnceInv'
<1>1. Taken' = Taken /\ Pasted' = Pasted
  BY DEF Taken, Pasted
<1> QED BY <1>1 DEF OnceInv, NotTakenYet, TaskShape, OneTaskPerTake

\* The steps that leave the coordinator, the microphone and the recorder alone too.
LEMMA OnceStutter ==
  ASSUME OnceInv, UNCHANGED <<task, launched, currentSession, co, mic, rec>>
  PROVE  OnceInv'
<1>1. (Capturing' => Capturing) /\ MicOwned' /\ LaunchIsIdle'
  BY DEF OnceInv, Capturing, MicOwned, LaunchIsIdle
<1> QED BY <1>1, OnceFrame

\* The recorder is cancelled: it can only go back to Idle.
LEMMA OnceCancelled ==
  ASSUME TypeOK, OnceInv, CancelRecording,
         UNCHANGED <<task, launched, currentSession, co, mic>>
  PROVE  OnceInv'
<1>1. rec'.state = "Idle" \/ rec' = rec
  BY DEF CancelRecording, TypeOK, Recorder
<1>2. (Capturing' => Capturing) /\ MicOwned' /\ LaunchIsIdle'
  BY <1>1 DEF OnceInv, Capturing, MicOwned, LaunchIsIdle
<1> QED BY <1>2, OnceFrame

LEMMA OnceCommand ==
  ASSUME TypeOK, OnceInv, HandleCommand \/ ExpirePendingRelease
  PROVE  OnceInv'
<1> USE DEF micVars, sessionVars, taskVars, uiVars
<1>1. UNCHANGED <<task, launched, currentSession, mic, rec>>
  BY DEF HandleCommand, HandleInput, PressCancelsRelease, ReleaseDeferred,
     ReleaseIgnored, PressDebounced, PressHandled, HandleCancel, HandleSilenceStop,
     HandleProcessingFinished, HandleRecordingModeChange, ExpirePendingRelease
<1>2. co.at = "loop"
  BY DEF HandleCommand, HandleInput, PressCancelsRelease, ReleaseDeferred,
     ReleaseIgnored, PressDebounced, PressHandled, HandleCancel, HandleSilenceStop,
     HandleProcessingFinished, HandleRecordingModeChange, ExpirePendingRelease, Receive
<1>3. co'.at \in {"loop", "start", "stop"}
  BY <1>2 DEF HandleCommand, HandleInput, PressCancelsRelease, ReleaseDeferred,
     ReleaseIgnored, PressDebounced, PressHandled, HandleCancel, HandleSilenceStop,
     HandleProcessingFinished, HandleRecordingModeChange, ExpirePendingRelease, Receive,
     TypeOK, Coordinator
<1>4. (Capturing' => Capturing) /\ MicOwned' /\ LaunchIsIdle'
  BY <1>1, <1>2, <1>3 DEF OnceInv, Capturing, MicOwned, LaunchIsIdle
<1> QED BY <1>1, <1>4, OnceFrame

LEMMA OnceStarting ==
  ASSUME TypeOK, OnceInv, Starting
  PROVE  OnceInv'
<1> USE DEF micVars, sessionVars, taskVars, uiVars
<1>1. CASE BeginSession
  <2>1. /\ currentSession' = currentSession + 1 /\ currentSession \in Nat
        /\ co'.at = "activate" /\ co.at = "start"
        /\ UNCHANGED <<task, launched, mic, rec>>
    BY <1>1 DEF BeginSession, Goto, TypeOK, Coordinator
  <2>2. MicOwned' /\ LaunchIsIdle'
    BY <2>1 DEF OnceInv, MicOwned, LaunchIsIdle
  <2>3. \A t \in TaskIds : task[t].session \in Nat
    BY DEF TypeOK, Task
  <2>6. Taken' = Taken /\ Pasted' = Pasted /\ Taken \subseteq TaskIds
    BY <2>1 DEF Taken, Pasted
  <2>4. TaskShape' /\ OneTaskPerTake'
    BY <2>1, <2>3, <2>6 DEF OnceInv, TaskShape, OneTaskPerTake
  <2>5. NotTakenYet'
    BY <2>1, <2>3, <2>6 DEF OnceInv, NotTakenYet, TaskShape
  <2> QED BY <2>2, <2>4, <2>5 DEF OnceInv
<1>2. CASE ~BeginSession
  <2>1. UNCHANGED <<task, launched, currentSession>>
    BY <1>2 DEF Starting, StartRefused, ActivateSession, StartOffline, SpawnMicThread,
       ShowStartUi, JoinCancelled, JoinLive, JoinFailed, AnnounceRecording, FinishStart
  <2>2. \/ co.at = "start" /\ co'.at = "started" /\ UNCHANGED <<mic, rec>>
        \/ co.at = "activate" /\ co'.at = "gate" /\ UNCHANGED <<mic, rec>>
        \/ co.at = "gate" /\ co'.at = "started" /\ UNCHANGED <<mic, rec>>
        \/ co.at = "gate" /\ co'.at = "ui" /\ UNCHANGED rec
        \/ co.at = "ui" /\ co'.at = "join" /\ UNCHANGED <<mic, rec>>
        \/ /\ co.at = "join" /\ co'.at \in {"started", "announce"} /\ mic' = "none"
           /\ mic # "none"
        \/ co.at = "announce" /\ co'.at = "started" /\ UNCHANGED <<mic, rec>>
        \/ co.at = "started" /\ co'.at = "loop" /\ UNCHANGED <<mic, rec>>
    BY <1>2 DEF Starting, StartRefused, ActivateSession, StartOffline, SpawnMicThread,
       ShowStartUi, JoinCancelled, JoinLive, JoinFailed, AnnounceRecording, FinishStart,
       Goto, TypeOK, Coordinator
  <2>3. (Capturing' => Capturing) /\ MicOwned' /\ LaunchIsIdle'
    BY <2>2 DEF OnceInv, Capturing, MicOwned, LaunchIsIdle
  <2> QED BY <2>1, <2>3, OnceFrame
<1> QED BY <1>1, <1>2

LEMMA OnceStopping ==
  ASSUME TypeOK, OnceInv, Stopping
  PROVE  OnceInv'
<1> USE DEF micVars, sessionVars, taskVars, uiVars
<1>1. CASE StopRecorder
  <2>1. \/ IsRecording /\ co'.at = "capture"
        \/ co'.at = "launch" /\ ~co'.captured /\ UNCHANGED rec
    BY <1>1 DEF StopRecorder, Goto, TypeOK, Coordinator
  <2>2. co.at = "stop" /\ UNCHANGED <<task, launched, currentSession, mic>>
    BY <1>1 DEF StopRecorder
  <2>3. (Capturing' => Capturing) /\ MicOwned' /\ LaunchIsIdle'
    BY <2>1, <2>2 DEF OnceInv, Capturing, MicOwned, LaunchIsIdle, IsRecording
  <2> QED BY <2>2, <2>3, OnceFrame
<1>2. CASE CaptureTaken
  <2>1. /\ co.at = "capture" /\ co'.at = "launch" /\ rec'.state = "Idle"
        /\ UNCHANGED <<task, launched, currentSession, mic>>
    BY <1>2 DEF CaptureTaken, TypeOK, Coordinator, Recorder
  <2>2. (Capturing' => Capturing) /\ MicOwned' /\ LaunchIsIdle'
    BY <2>1 DEF OnceInv, Capturing, MicOwned, LaunchIsIdle
  <2> QED BY <2>1, <2>2, OnceFrame
<1>3. CASE LaunchTask
  <2> DEFINE new == launched + 1
  <2>1. /\ co.at = "launch" /\ co'.at = "loop" /\ launched' = new
        /\ UNCHANGED <<mic, rec, currentSession>>
    BY <1>3 DEF LaunchTask
  <2>2. /\ new \in TaskIds /\ launched \in Nat
        /\ task' = [task EXCEPT ![new] = [phase |-> "begun", session |-> currentSession,
                                         captured |-> co.captured, pasted |-> FALSE]]
    BY <1>3, TasksAssumption DEF LaunchTask, TypeOK, TaskIds
  <2>3. /\ task'[new].session = currentSession /\ task'[new].phase = "begun"
        /\ \A t \in TaskIds : t # new => task'[t] = task[t]
    BY <2>2 DEF TypeOK
  <2>4. Pasted' = Pasted \ {new}
    BY <2>2 DEF TypeOK, Pasted
  <2>5. Taken' = IF co.captured THEN Taken \cup {new} ELSE Taken \ {new}
    BY <2>2 DEF TypeOK, Taken
  <2>6. new \notin Taken /\ Taken \subseteq TaskIds
    BY <2>2 DEF OnceInv, TaskShape, Taken
  <2>7. MicOwned' /\ LaunchIsIdle' /\ mic' = "none"
    BY <2>1 DEF OnceInv, MicOwned, LaunchIsIdle
  <2>8. "begun" \notin Handling
    BY DEF Handling
  <2>9. CASE co.captured
    <3>1. currentSession > 0 /\ \A t \in Taken : task[t].session # currentSession
      BY <2>1, <2>9 DEF OnceInv, NotTakenYet, Capturing
    <3>2. NotTakenYet'
      BY <2>1, <2>7, <2>9 DEF OnceInv, LaunchIsIdle, Capturing, NotTakenYet
    <3>3. Taken' = Taken \cup {new}
      BY <2>5, <2>9
    <3>4. OneTaskPerTake'
      BY <2>3, <2>6, <3>1, <3>3 DEF OnceInv, OneTaskPerTake
    <3>5. TaskShape'
      BY <2>1, <2>2, <2>3, <2>4, <2>8, <3>1, <3>3 DEF OnceInv, TaskShape, TypeOK, TaskIds
    <3> QED BY <2>7, <3>2, <3>4, <3>5 DEF OnceInv
  <2>10. CASE ~co.captured
    <3>1. Taken' = Taken
      BY <2>5, <2>6, <2>10
    <3>2. Capturing' => Capturing
      BY <2>1, <2>7 DEF Capturing
    <3>3. NotTakenYet'
      BY <2>1, <2>3, <2>6, <3>1, <3>2 DEF OnceInv, NotTakenYet
    <3>4. OneTaskPerTake'
      BY <2>3, <2>6, <3>1 DEF OnceInv, OneTaskPerTake
    <3>5. TaskShape'
      BY <2>1, <2>2, <2>3, <2>4, <2>6, <2>8, <3>1
      DEF OnceInv, TaskShape, TypeOK, TaskIds
    <3> QED BY <2>7, <3>3, <3>4, <3>5 DEF OnceInv
  <2> QED BY <2>9, <2>10
<1> QED BY <1>1, <1>2, <1>3 DEF Stopping

\* What a step of a task may do to it.
TaskMoves(t) ==
  /\ t <= launched
  /\ \E phase \in {"done"} \cup WorkPhases \cup GuardPhases :
       /\ Move(t, phase)
       /\ phase \in WorkPhases => task[t].phase \in WorkPhases
       /\ phase \in Handling => t \in Taken \/ task[t].phase \in Handling
       /\ phase = "deliver" <=> (TaskChecksPost(t) /\ Passes(t, "deliver"))

LEMMA TaskCases ==
  ASSUME NEW t \in TaskIds, TaskStep(t) \/ TaskPanics(t)
  PROVE  TaskDelivers(t) \/ TaskMoves(t)
<1> USE DEF TaskMoves, Move, WorkPhases, GuardPhases, Handling
<1>1. CASE TaskBegun(t)
  BY <1>1 DEF TaskBegun, CleanedUp, Passes, At, TaskChecksPost, Taken
<1>2. CASE TaskChecksPost(t)
  BY <1>2 DEF TaskChecksPost, CleanedUp, Passes, At
<1>3. CASE TaskAnnounces(t) \/ TaskChecksStart(t) \/ TaskDecodes(t) \/ TaskChecksDecode(t)
  BY <1>3 DEF TaskAnnounces, TaskChecksStart, TaskDecodes, TaskChecksDecode, CleanedUp,
     Passes, At, TaskChecksPost
<1>4. CASE TaskTerminates(t)
  BY <1>4 DEF TaskTerminates, At, TaskChecksPost
<1>9. CASE TaskShowsPill(t)
  <2>1. At(t, "show") /\ Move(t, "checkShow")
    BY <1>9, Zenon DEF TaskShowsPill
  <2> QED BY <2>1 DEF At, TaskChecksPost
<1>8. CASE TaskPostProcesses(t)
  BY <1>8 DEF TaskPostProcesses, At, TaskChecksPost
<1>7. CASE TaskChecksShow(t)
  BY <1>7 DEF TaskChecksShow, CleanedUp, Passes, At, TaskChecksPost
<1>5. CASE GuardTests(t) \/ GuardTestsAgain(t) \/ GuardStores(t) \/ GuardPaints(t)
           \/ GuardNotifies(t)
  BY <1>5 DEF GuardTests, GuardTestsAgain, GuardStores, GuardPaints, GuardNotifies, At,
     TaskChecksPost
<1>6. CASE TaskPanics(t)
  BY <1>6 DEF TaskPanics, TaskChecksPost, At, Passes
<1> QED BY <1>1, <1>2, <1>3, <1>4, <1>5, <1>6, <1>7, <1>8, <1>9 DEF TaskStep

\* Its effect, in terms of the invariant.
LEMMA TaskEffect ==
  ASSUME TypeOK, NEW t \in TaskIds, TaskDelivers(t) \/ TaskMoves(t)
  PROVE  /\ t <= launched
         /\ \A u \in TaskIds : /\ task'[u].session = task[u].session
                               /\ u # t => task'[u].phase = task[u].phase
         /\ Taken' = Taken
         /\ TaskDelivers(t) => /\ Pasted' \in {Pasted \ {t}, Pasted \cup {t}}
                               /\ task[t].phase = "deliver" /\ task'[t].phase = "guard"
         /\ ~TaskDelivers(t) =>
              /\ Pasted' = Pasted
              /\ task'[t].phase # "free"
              /\ task'[t].phase \in WorkPhases => task[t].phase \in WorkPhases
              /\ task'[t].phase \in Handling => t \in Taken \/ task[t].phase \in Handling
<1>1. CASE TaskDelivers(t)
  <2>1. PICK text \in BOOLEAN :
          task' = [task EXCEPT ![t].phase = "guard", ![t].pasted = text]
    BY <1>1 DEF TaskDelivers
  <2>2. task' = [task EXCEPT ![t] = [task[t] EXCEPT !.phase = "guard", !.pasted = text]]
    BY <2>1, Zenon
  <2>3. t <= launched /\ task[t].phase = "deliver"
    BY <1>1 DEF TaskDelivers, At
  <2>4. \A u \in TaskIds : /\ task'[u].session = task[u].session
                           /\ u # t => task'[u].phase = task[u].phase
    BY <2>2 DEF TypeOK, Task
  <2>5. task'[t].phase = "guard"
    BY <2>2 DEF TypeOK, Task
  <2>6. Taken' = Taken
    BY <2>2 DEF TypeOK, Task, Taken
  <2>7. Pasted' = IF text THEN Pasted \cup {t} ELSE Pasted \ {t}
    BY <2>2 DEF TypeOK, Task, Pasted
  <2> QED BY <1>1, <2>3, <2>4, <2>5, <2>6, <2>7
<1>2. CASE ~TaskDelivers(t)
  <2>1. PICK phase \in {"done"} \cup WorkPhases \cup GuardPhases :
          /\ Move(t, phase)
          /\ phase \in WorkPhases => task[t].phase \in WorkPhases
          /\ phase \in Handling => t \in Taken \/ task[t].phase \in Handling
    BY <1>2 DEF TaskMoves
  <2>2. phase # "free"
    BY DEF WorkPhases, GuardPhases
  <2>3. \A u \in TaskIds : /\ task'[u].session = task[u].session
                           /\ u # t => task'[u].phase = task[u].phase
    BY <2>1 DEF TypeOK, Task, Move
  <2>4. task'[t].phase = phase
    BY <2>1 DEF TypeOK, Task, Move
  <2>5. Taken' = Taken
    BY <2>1 DEF TypeOK, Task, Move, Taken
  <2>6. Pasted' = Pasted
    BY <2>1 DEF TypeOK, Task, Move, Pasted
  <2>7. t <= launched
    BY <1>2 DEF TaskMoves
  <2> QED BY <1>2, <2>1, <2>2, <2>3, <2>4, <2>5, <2>6, <2>7
<1> QED BY <1>1, <1>2

LEMMA OnceTask ==
  ASSUME TypeOK, OnceInv, NEW t \in TaskIds, TaskStep(t) \/ TaskPanics(t)
  PROVE  OnceInv'
<1>1. UNCHANGED <<launched, currentSession, co, mic, rec>>
  BY DEF TaskStep, TaskBegun, TaskAnnounces, TaskChecksStart, TaskDecodes,
     TaskChecksDecode, TaskShowsPill, TaskChecksShow, TaskPostProcesses, TaskChecksPost,
     TaskDelivers, TaskTerminates, GuardTests, GuardTestsAgain, GuardStores, GuardPaints,
     GuardNotifies, TaskPanics, micVars, sessionVars, taskVars, uiVars
<1>2. TaskDelivers(t) \/ TaskMoves(t)
  BY TaskCases
<1>3. /\ \A u \in TaskIds : /\ task'[u].session = task[u].session
                            /\ u # t => task'[u].phase = task[u].phase
      /\ Taken' = Taken /\ Taken \subseteq TaskIds
  BY <1>2, TaskEffect DEF Taken
<1>4. MicOwned' /\ LaunchIsIdle' /\ NotTakenYet' /\ OneTaskPerTake'
  <2>1. MicOwned' /\ LaunchIsIdle' /\ Capturing' = Capturing
    BY <1>1 DEF OnceInv, MicOwned, LaunchIsIdle, Capturing
  <2>2. \A u \in Taken : task'[u].session = task[u].session
    BY <1>3
  <2>3. NotTakenYet'
    BY <1>1, <1>3, <2>1, <2>2 DEF OnceInv, NotTakenYet
  <2>4. OneTaskPerTake'
    BY <1>3, <2>2 DEF OnceInv, OneTaskPerTake
  <2> QED BY <2>1, <2>3, <2>4
<1>5. ~(t > launched)
  BY <1>2, TaskEffect DEF TypeOK, TaskIds
<1>6. CASE TaskDelivers(t)
  <2>1. /\ Pasted' \in {Pasted \ {t}, Pasted \cup {t}}
        /\ task[t].phase = "deliver" /\ task'[t].phase = "guard"
    BY <1>6, TaskEffect
  <2>2. "guard" \notin {"free"} \cup WorkPhases /\ "guard" \notin Handling
        /\ "deliver" \in Handling
    BY DEF WorkPhases, Handling
  <2>3. t \in Taken
    BY <2>1, <2>2 DEF OnceInv, TaskShape
  <2>4. \A u \in TaskIds : u # t => (u \in Pasted' <=> u \in Pasted)
    BY <2>1
  <2>5. TaskShape'
    BY <1>1, <1>3, <1>5, <2>1, <2>2, <2>3, <2>4, SMTT(30) DEF OnceInv, TaskShape
  <2> QED BY <1>4, <2>5 DEF OnceInv
<1>7. CASE ~TaskDelivers(t)
  <2>1. /\ Pasted' = Pasted
        /\ task'[t].phase # "free"
        /\ task'[t].phase \in WorkPhases => task[t].phase \in WorkPhases
        /\ task'[t].phase \in Handling => t \in Taken \/ task[t].phase \in Handling
    BY <1>2, <1>7, TaskEffect
  <2>2. TaskShape'
    <3>1. ASSUME NEW u \in TaskIds, u # t
          PROVE  task'[u].session = task[u].session /\ task'[u].phase = task[u].phase
      BY <1>3, <3>1
    <3>2. task'[t].session = task[t].session
      BY <1>3
    <3> QED BY <1>1, <1>3, <1>5, <2>1, <3>1, <3>2, SMTT(30) DEF OnceInv, TaskShape
  <2> QED BY <1>4, <2>2 DEF OnceInv
<1> QED BY <1>6, <1>7

LEMMA OnceNext == TypeOK /\ NoneDetached /\ OnceInv /\ [Next]_vars => OnceInv'
<1> SUFFICES ASSUME TypeOK, NoneDetached, OnceInv, [Next]_vars PROVE OnceInv'
  OBVIOUS
<1> USE DEF micVars, sessionVars, taskVars, uiVars
<1>1. CASE CoordinatorStep
  BY <1>1, OnceCommand, OnceStarting, OnceStopping DEF CoordinatorStep
<1>2. CASE MicStep
  <2>1. /\ mic # "none" /\ UNCHANGED <<task, launched, currentSession, co>>
        /\ co.at = "launch" => mic = "none"
    BY <1>2 DEF MicStep, MicOpens, MicFails, OnceInv, MicOwned
  <2>2. (Capturing' => Capturing) /\ MicOwned' /\ LaunchIsIdle'
    BY <2>1 DEF OnceInv, Capturing, MicOwned, LaunchIsIdle
  <2> QED BY <2>1, <2>2, OnceFrame
<1>3. CASE OfflineNoticeHide \/ SilenceFires
  BY <1>3, OnceStutter DEF OfflineNoticeHide, SilenceFires
<1>4. CASE \E t \in TaskIds : TaskStep(t) \/ TaskPanics(t)
  BY <1>4, OnceTask
<1>5. CASE \E c \in Cancellers : CancellerStep(c)
  <2>1. PICK c \in Cancellers : CancellerStep(c)
    BY <1>5
  <2>2. CASE CancelAborts(c)
    BY <2>2, OnceCancelled DEF CancelAborts
  <2>3. CASE ~CancelAborts(c)
    <3>1. UNCHANGED <<task, launched, currentSession, co, mic, rec>>
      BY <2>1, <2>3 DEF CancellerStep, CancelSwaps, CancelsNothing, CancelMarks,
         CancelQuietsUi, CancelNotifies, CancelEnds
    <3> QED BY <3>1, OnceStutter
  <2> QED BY <2>2, <2>3
<1>6. CASE Environment
  <2>1. CASE ClearAudioQueue
    BY <2>1, OnceCancelled DEF ClearAudioQueue
  <2>2. CASE ~ClearAudioQueue
    <3>1. UNCHANGED <<task, launched, currentSession, co, mic, rec>>
      BY <1>6, <2>2 DEF Environment, KeyDown, KeyUp, KeyEcho, TogglePress, SilenceCheck,
         ModeChange, CancelBegins
    <3> QED BY <3>1, OnceStutter
  <2> QED BY <2>1, <2>2
<1>7. CASE CoordinatorPanics
  <2>1. /\ co'.at = "loop" /\ mic' = "none" /\ UNCHANGED <<mic, rec>>
        /\ UNCHANGED <<task, launched, currentSession>>
    BY <1>7 DEF CoordinatorPanics
  <2>2. (Capturing' => Capturing) /\ MicOwned' /\ LaunchIsIdle'
    BY <2>1 DEF OnceInv, Capturing, MicOwned, LaunchIsIdle
  <2> QED BY <2>1, <2>2, OnceFrame
<1>8. CASE UNCHANGED vars
  BY <1>8, OnceStutter DEF vars
<1> QED BY <1>1, <1>2, <1>3, <1>4, <1>5, <1>6, <1>7, <1>8, NoneDetachedStep DEF Next, Panic

-----------------------------------------------------------------------------
(***************************************************************************)
(* The steps of the promise.                                               *)
(***************************************************************************)
Delivering == {t \in TaskIds : task[t].phase = "deliver"}

LEMMA Texts ==
  /\ TextsOut = {task[t].session : t \in Pasted}
  /\ TextsLeaving = {task[t].session : t \in Delivering}
BY DEF TextsOut, TextsLeaving, Pasted, Delivering

LEMMA TextsAfter ==
  /\ TextsOut' = {task'[t].session : t \in Pasted'}
  /\ TextsLeaving' = {task'[t].session : t \in Delivering'}
BY DEF TextsOut, TextsLeaving, Pasted, Delivering

\* A step that the promise does not see.
Silent == UNCHANGED <<currentSession, doomed, TextsLeaving, TextsOut>>

LEMMA SilentIsStutter == Silent => UNCHANGED Promise!vars
BY DEF Silent, Promise!vars

LEMMA TextsFrame ==
  ASSUME UNCHANGED task
  PROVE  UNCHANGED <<TextsLeaving, TextsOut>>
BY DEF TextsOut, TextsLeaving

LEMMA KeptByCoordinator ==
  ASSUME TypeOK, OnceInv, CoordinatorStep
  PROVE  Promise!Begin \/ Silent
<1> USE DEF micVars, sessionVars, taskVars, uiVars
<1>1. CASE BeginSession
  <2>1. currentSession' = currentSession + 1 /\ UNCHANGED <<task, doomed>>
    BY <1>1 DEF BeginSession
  <2> QED BY <2>1, TextsFrame DEF Promise!Begin
<1>2. CASE LaunchTask
  <2> DEFINE new == launched + 1
  <2>1. /\ new \in TaskIds /\ launched \in Nat
        /\ task' = [task EXCEPT ![new] = [phase |-> "begun", session |-> currentSession,
                                         captured |-> co.captured, pasted |-> FALSE]]
    BY <1>2, TasksAssumption DEF LaunchTask, TypeOK, TaskIds
  <2>2. task[new].phase = "free" /\ new \notin Pasted
    BY <2>1 DEF OnceInv, TaskShape
  <2>3. \A t \in TaskIds : t # new => task'[t] = task[t]
    BY <2>1 DEF TypeOK
  <2>4. task'[new].phase = "begun"
    BY <2>1 DEF TypeOK
  <2>5. Pasted' = Pasted
    <3>1. Pasted' = Pasted \ {new}
      BY <2>1 DEF TypeOK, Pasted
    <3> QED BY <2>2, <3>1
  <2>6. Delivering' = Delivering
    BY <2>2, <2>3, <2>4 DEF Delivering
  <2>7. new \notin Delivering /\ Pasted \subseteq TaskIds /\ Delivering \subseteq TaskIds
    BY <2>2 DEF Delivering, Pasted
  <2>8. UNCHANGED <<TextsLeaving, TextsOut>>
    BY <2>2, <2>3, <2>5, <2>6, <2>7, Texts, TextsAfter
  <2>9. UNCHANGED <<currentSession, doomed>>
    BY <1>2 DEF LaunchTask
  <2> QED BY <2>8, <2>9 DEF Silent
<1>3. CASE ~BeginSession /\ ~LaunchTask
  <2>1. UNCHANGED <<task, currentSession, doomed>>
    BY <1>3 DEF CoordinatorStep, HandleCommand, HandleInput, PressCancelsRelease,
       ReleaseDeferred, ReleaseIgnored, PressDebounced, PressHandled, HandleCancel,
       HandleSilenceStop, HandleProcessingFinished, HandleRecordingModeChange,
       ExpirePendingRelease, Starting, StartRefused, ActivateSession, StartOffline,
       SpawnMicThread, ShowStartUi, JoinCancelled, JoinLive, JoinFailed,
       AnnounceRecording, FinishStart, Stopping, StopRecorder, CaptureTaken
  <2> QED BY <2>1, TextsFrame DEF Silent
<1> QED BY <1>1, <1>2, <1>3

LEMMA KeptByTask ==
  ASSUME TypeOK, CancelInv, OnceInv, NEW t \in TaskIds, TaskStep(t) \/ TaskPanics(t)
  PROVE  Promise!Next \/ Silent
<1> DEFINE s == task[t].session
<1>1. UNCHANGED <<currentSession, doomed, cancelledThrough>>
  BY DEF TaskStep, TaskBegun, TaskAnnounces, TaskChecksStart, TaskDecodes,
     TaskChecksDecode, TaskShowsPill, TaskChecksShow, TaskPostProcesses, TaskChecksPost,
     TaskDelivers, TaskTerminates, GuardTests, GuardTestsAgain, GuardStores, GuardPaints,
     GuardNotifies, TaskPanics, micVars, sessionVars, taskVars, uiVars
<1>2. TaskDelivers(t) \/ TaskMoves(t)
  BY TaskCases
<1>3. \A u \in TaskIds : task'[u].session = task[u].session
  BY <1>2, TaskEffect
<1>4. \A u \in TaskIds : u # t => task'[u].phase = task[u].phase
  BY <1>2, TaskEffect
<1>5. Pasted \subseteq TaskIds /\ Delivering \subseteq TaskIds /\ Taken \subseteq TaskIds
  BY DEF Pasted, Delivering, Taken
\* Whoever delivers or has delivered has the audio of its session to itself.
<1>6. \A u \in Pasted \cup Delivering : u \in Taken /\ task[u].session \in 1 .. currentSession
  <2>1. "deliver" \in Handling
    BY DEF Handling, WorkPhases
  <2>2. \A u \in TaskIds : task[u].session \in Nat
    BY DEF TypeOK, Task
  <2>3. currentSession \in Nat
    BY DEF TypeOK
  <2>4. \A u \in Pasted \cup Delivering : u \in Taken
    BY <1>5, <2>1 DEF OnceInv, TaskShape, Delivering
  <2> QED BY <1>5, <2>2, <2>3, <2>4 DEF OnceInv, TaskShape
<1>7. \A u, v \in Taken : task[u].session = task[v].session => u = v
  BY DEF OnceInv, OneTaskPerTake
<1>8. ASSUME t \in Delivering
      PROVE  /\ s \in 1 .. currentSession /\ s \in TextsLeaving
             /\ {task[u].session : u \in Delivering \ {t}} = TextsLeaving \ {s}
             /\ t \notin Pasted
  <2>1. t \notin Pasted
    BY <1>8 DEF OnceInv, TaskShape, Delivering, WorkPhases
  <2>2. \A u \in Delivering \ {t} : task[u].session # s
    BY <1>6, <1>7, <1>8
  <2> QED BY <1>6, <1>8, <2>1, <2>2, Texts
<1>9. CASE TaskDelivers(t)
  <2>1. /\ Pasted' \in {Pasted \ {t}, Pasted \cup {t}}
        /\ task[t].phase = "deliver" /\ task'[t].phase = "guard"
    BY <1>9, TaskEffect
  <2>2. t \in Delivering /\ Delivering' = Delivering \ {t}
    BY <1>4, <2>1 DEF Delivering
  <2>3. TextsLeaving' = TextsLeaving \ {s}
    BY <1>3, <1>5, <1>8, <2>2, TextsAfter
  <2>4. CASE Pasted' = Pasted \cup {t}
    <3>1. TextsOut' = TextsOut \cup {s}
      BY <1>3, <1>5, <2>4, Texts, TextsAfter
    <3>2. Promise!Release(s)
      BY <1>1, <1>8, <2>2, <2>3, <3>1 DEF Promise!Release
    <3> QED BY <1>8, <2>2, <3>2 DEF Promise!Next
  <2>5. CASE Pasted' = Pasted \ {t}
    <3>1. Pasted' = Pasted
      BY <1>8, <2>2, <2>5
    <3>2. TextsOut' = TextsOut
      BY <1>3, <1>5, <3>1, Texts, TextsAfter
    <3>3. Promise!Abandon(s)
      BY <1>1, <1>8, <2>2, <2>3, <3>2 DEF Promise!Abandon
    <3> QED BY <1>8, <2>2, <3>3 DEF Promise!Next
  <2> QED BY <2>1, <2>4, <2>5
<1>10. CASE ~TaskDelivers(t)
  <2>1. Pasted' = Pasted
    BY <1>2, <1>10, TaskEffect
  <2>2. TextsOut' = TextsOut
    BY <1>3, <1>5, <2>1, Texts, TextsAfter
  <2>3. CASE task'[t].phase = "deliver"
    <3>1. TaskChecksPost(t) /\ Passes(t, "deliver")
      <4>1. PICK phase \in {"done"} \cup WorkPhases \cup GuardPhases :
              /\ Move(t, phase)
              /\ phase = "deliver" <=> (TaskChecksPost(t) /\ Passes(t, "deliver"))
        BY <1>2, <1>10 DEF TaskMoves
      <4>2. task'[t].phase = phase
        BY <4>1 DEF TypeOK, Task, Move
      <4> QED BY <2>3, <4>1, <4>2
    <3>2. task[t].phase = "checkPost" /\ ~Cancelled(s)
      BY <3>1 DEF TaskChecksPost, At, Passes
    <3>3. s \notin doomed
      BY <3>2 DEF CancelInv, DoomedAreCancelled
    <3>4. t \in Taken /\ t \notin Pasted /\ t \notin Delivering
      BY <3>2 DEF OnceInv, TaskShape, Handling, WorkPhases, Delivering
    <3>5. s \in 1 .. currentSession
      <4>1. s \in Nat /\ currentSession \in Nat
        BY DEF TypeOK, Task
      <4> QED BY <3>4, <4>1 DEF OnceInv, TaskShape
    <3>6. s \notin TextsLeaving /\ s \notin TextsOut
      BY <1>6, <1>7, <3>4, Texts
    <3>7. Delivering' = Delivering \cup {t}
      BY <1>4, <2>3 DEF Delivering
    <3>8. TextsLeaving' = TextsLeaving \cup {s}
      BY <1>3, <1>5, <3>7, Texts, TextsAfter
    <3>9. Promise!Leave(s)
      BY <1>1, <2>2, <3>3, <3>6, <3>8 DEF Promise!Leave
    <3> QED BY <3>5, <3>9 DEF Promise!Next
  <2>4. CASE task'[t].phase # "deliver"
    <3>1. Delivering' = Delivering \ {t}
      BY <1>4, <2>4 DEF Delivering
    <3>2. CASE t \in Delivering
      <4>1. TextsLeaving' = TextsLeaving \ {s}
        BY <1>3, <1>5, <1>8, <3>1, <3>2, TextsAfter
      <4>2. Promise!Abandon(s)
        BY <1>1, <1>8, <2>2, <3>2, <4>1 DEF Promise!Abandon
      <4> QED BY <1>8, <3>2, <4>2 DEF Promise!Next
    <3>3. CASE t \notin Delivering
      <4>1. Delivering' = Delivering
        BY <3>1, <3>3
      <4>2. TextsLeaving' = TextsLeaving
        BY <1>3, <1>5, <4>1, Texts, TextsAfter
      <4> QED BY <1>1, <2>2, <4>2 DEF Silent
    <3> QED BY <3>2, <3>3
  <2> QED BY <2>3, <2>4
<1> QED BY <1>9, <1>10

LEMMA KeptByCanceller ==
  ASSUME TypeOK, NEW c \in Cancellers, CancellerStep(c) \/ CancelBegins(c)
  PROVE  Promise!Cancel \/ Silent
<1> USE DEF micVars, sessionVars, taskVars, uiVars
<1>1. CASE CancelMarks(c)
  <2>1. doomed' = doomed \cup Unreleased(currentSession) /\ UNCHANGED <<task, currentSession>>
    BY <1>1 DEF CancelMarks
  <2>2. Unreleased(currentSession) = (1 .. currentSession) \ (TextsLeaving \cup TextsOut)
    BY DEF Unreleased, Released, TextsLeaving, TextsOut
  <2> QED BY <2>1, <2>2, TextsFrame DEF Promise!Cancel
<1>2. CASE ~CancelMarks(c)
  <2>1. UNCHANGED <<task, currentSession, doomed>>
    BY <1>2 DEF CancellerStep, CancelBegins, CancelSwaps, CancelsNothing, CancelAborts,
       CancelQuietsUi, CancelNotifies, CancelEnds
  <2> QED BY <2>1, TextsFrame DEF Silent
<1> QED BY <1>1, <1>2

LEMMA PromiseStep ==
  TypeOK /\ CancelInv /\ OnceInv /\ [Next]_vars => [Promise!Next]_(Promise!vars)
<1> SUFFICES ASSUME TypeOK, CancelInv, OnceInv, [Next]_vars
             PROVE  Promise!Next \/ Silent
  BY SilentIsStutter
<1> USE DEF micVars, sessionVars, taskVars, uiVars
<1>1. CASE CoordinatorStep
  BY <1>1, KeptByCoordinator DEF Promise!Next
<1>2. CASE \E t \in TaskIds : TaskStep(t) \/ TaskPanics(t)
  BY <1>2, KeptByTask
<1>3. CASE \E c \in Cancellers : CancellerStep(c) \/ CancelBegins(c)
  BY <1>3, KeptByCanceller DEF Promise!Next
<1>4. CASE \/ MicStep \/ DetachedMicStep \/ OfflineNoticeHide \/ SilenceFires
           \/ CoordinatorPanics \/ StartPanics \/ UNCHANGED vars
           \/ Environment /\ ~\E c \in Cancellers : CancelBegins(c)
  <2>1. UNCHANGED <<task, currentSession, doomed>>
    BY <1>4 DEF MicStep, MicOpens, MicFails, DetachedMicStep, DetachedMicOpens,
       DetachedMicFails, OfflineNoticeHide, SilenceFires, CoordinatorPanics, StartPanics,
       vars, Environment, KeyDown, KeyUp, KeyEcho, TogglePress, SilenceCheck,
       ClearAudioQueue, ModeChange
  <2> QED BY <2>1, TextsFrame DEF Silent
<1> QED BY <1>1, <1>2, <1>3, <1>4 DEF Next, Panic, Environment

LEMMA PromiseInit == Init => Promise!Init
BY DEF Init, Promise!Init, TextsOut, TextsLeaving

\* The detailed dictation implements the promise: every step of the coordinator,
\* the tasks, the cancelling threads and the panics is a step of DictationPromise
\* or invisible to it.  Text leaves only an uncancelled session and only once,
\* whatever TranscribeAction::stop and cancel_current_operation interleave.  Only a
\* start() that panics while its microphone thread is out is excluded: the capture of
\* that thread may be stopped a second time for the same session.
THEOREM ImplementsPromise ==
  ASSUME NoStartPanics
  PROVE  Spec => KeepsPromise
<1> DEFINE I == NoneDetached /\ CancelInv /\ OnceInv
<1>1. Init => I
  BY NoneDetachedInit, CancelInit, OnceInit
<1>2. TypeOK /\ I /\ [Next]_vars => I'
  BY NoneDetachedNext, CancelNext, OnceNext
<1>3. TypeOK /\ I /\ [Next]_vars => [Promise!Next]_(Promise!vars)
  BY PromiseStep
<1> HIDE DEF I
<1> QED BY <1>1, <1>2, <1>3, TypeCorrect, PromiseInit, PTL
        DEF Spec, KeepsPromise, Promise!Spec
=============================================================================
