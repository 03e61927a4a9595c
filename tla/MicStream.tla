----------------------------- MODULE MicStream -----------------------------
(***************************************************************************)
(* The microphone stream of the recorder manager (managers/audio.rs): one  *)
(* device stream that takes, cancels, scheduled closes, the mute worker    *)
(* and settings changes open, use and close under five mutexes.            *)
(*                                                                         *)
(* Every thread is a program counter.  start_microphone_stream,            *)
(* stop_microphone_stream and apply_mute are subroutines: ret[t] says      *)
(* where t goes on.  A mutex is held for as long as its guard lives; one   *)
(* that is taken and dropped within a step only has to be free.            *)
(***************************************************************************)
EXTENDS Naturals, FiniteSets

CONSTANTS
  Closers,      \* close threads that may be pending or running at once
  Policies,     \* audio.microphoneRelease: subset of {"always", "immediate", "delayed"}
  Saves,        \* kinds of settings changes: subset of {"policy", "wake", "device"}
  MaxTakes,     \* bound: how often the hotkey starts a take
  MaxCancels,   \* bound: how often the recording is cancelled
  MaxSaves,     \* bound: how many settings changes
  MaxFaults,    \* bound: failed device opens and dead recorder workers
  Nobody

\* the coordinator with the thread it joins, a cancelling thread, the thread
\* that applies settings, the worker of the first frame, the close threads
Threads == {"coord", "cancel", "settings", "muter"} \cup Closers
Locks   == {"lifecycle", "state", "is_open", "did_mute", "recorder"}

ASSUME ClosersAssumption ==
  /\ Closers \cap {"coord", "cancel", "settings", "muter"} = {}
  /\ Nobody \notin Threads
ASSUME BoundsAssumption ==
  /\ {MaxTakes, MaxCancels, MaxSaves, MaxFaults} \subseteq Nat
  /\ Policies \subseteq {"always", "immediate", "delayed"}
  /\ Policies # {}

VARIABLES
  held,         \* the holder of each mutex
  state,        \* RecordingState
  mode,         \* MicrophoneMode
  isOpen,       \* the guarded is_open
  didMute,      \* the guarded did_mute
  osMuted,      \* the system output is muted
  streaming,    \* the recorder has its worker: the device delivers audio
  capturing,    \* the recorder's worker keeps what is delivered
  isRecording,  \* the guarded is_recording
  closeGen,     \* close_generation
  recGen,       \* recording_generation
  policy,       \* audio.microphoneRelease on disk
  wake,         \* general.recordingMode on disk is wakeword
  pc, ret,      \* per thread: the next step, where a subroutine returns
  gen,          \* per thread: the generation it was started for
  target,       \* the MicrophoneMode update_mode was called with
  live,         \* the first frame of the current capture has been reported
  left,         \* how much of each bound is left
  saved,        \* history: a settings change overlaps or follows the last take
  cancelled     \* history: a cancel overlaps the last take

audio == <<isOpen, streaming, capturing, isRecording>>
mute  == <<didMute, osMuted>>
cfg   == <<mode, policy, wake, target>>
ghost == <<saved, cancelled>>
gens  == <<closeGen, recGen, gen>>
vars  == <<held, state, audio, mute, gens, cfg, pc, ret, live, left, ghost>>

Init ==
  /\ held = [l \in Locks |-> Nobody]
  /\ state = "Idle"
  /\ policy \in Policies
  /\ mode = IF policy = "always" THEN "AlwaysOn" ELSE "OnDemand"
  /\ isOpen = (mode = "AlwaysOn")
  /\ streaming = isOpen
  /\ wake = FALSE
  /\ didMute = FALSE /\ osMuted = FALSE
  /\ capturing = FALSE /\ isRecording = FALSE
  /\ closeGen = 0 /\ recGen = 0
  /\ pc = [t \in Threads |-> "rest"]
  /\ ret = [t \in Threads |-> [ok |-> "rest", err |-> "rest"]]
  /\ gen = [t \in Threads |-> 0]
  /\ target = mode
  /\ live = TRUE
  /\ left = [takes |-> MaxTakes, cancels |-> MaxCancels, saves |-> MaxSaves,
             faults |-> MaxFaults]
  /\ saved = FALSE /\ cancelled = FALSE

-----------------------------------------------------------------------------
Free(l)    == held[l] = Nobody
At(t, l)   == pc[t] = l
Goto(t, l) == pc' = [pc EXCEPT ![t] = l]
Call(t, sub, ok, err) ==
  /\ Goto(t, sub)
  /\ ret' = [ret EXCEPT ![t] = [ok |-> ok, err |-> err]]
Return(t, way) ==
  /\ Goto(t, ret[t][way])
  /\ ret' = [ret EXCEPT ![t] = [ok |-> "rest", err |-> "rest"]]
Lock(t, l)     == Free(l) /\ held' = [held EXCEPT ![l] = t]
Unlock(ls)     == held' = [l \in Locks |-> IF l \in ls THEN Nobody ELSE held[l]]
Spend(kind)    == left[kind] > 0 /\ left' = [left EXCEPT ![kind] = @ - 1]
OnDemand       == mode = "OnDemand"

-----------------------------------------------------------------------------
\* stop_microphone_stream

\* A closed stream is left alone.
StopLocksOpen(t) ==
  /\ At(t, "stop1") /\ Free("is_open")
  /\ IF isOpen THEN Lock(t, "is_open") /\ Goto(t, "stop2") /\ UNCHANGED ret
               ELSE Return(t, "ok") /\ UNCHANGED held
  /\ UNCHANGED <<state, audio, mute, gens, cfg, live, left, ghost>>

StopUnmutes(t) ==
  /\ At(t, "stop2") /\ Lock(t, "did_mute")
  /\ osMuted' = (osMuted /\ ~didMute) /\ didMute' = FALSE
  /\ Goto(t, "stop3")
  /\ UNCHANGED <<state, audio, gens, cfg, ret, live, left, ghost>>

\* A recording the flag still shows is stopped, its audio dropped.
StopEndsCapture(t) ==
  /\ At(t, "stop3") /\ Free("recorder")
  /\ capturing' = (capturing /\ ~isRecording) /\ isRecording' = FALSE
  /\ Goto(t, "stop4")
  /\ UNCHANGED <<held, state, isOpen, streaming, mute, gens, cfg, ret, live, left, ghost>>

StopClosesDevice(t) ==
  /\ At(t, "stop4") /\ Free("recorder")
  /\ streaming' = FALSE /\ capturing' = FALSE /\ isOpen' = FALSE
  /\ Unlock({"is_open", "did_mute"}) /\ Return(t, "ok")
  /\ UNCHANGED <<state, isRecording, mute, gens, cfg, live, left, ghost>>

-----------------------------------------------------------------------------
\* start_microphone_stream

OpenLocksOpen(t) ==
  /\ At(t, "open1") /\ Free("is_open")
  /\ IF isOpen THEN Return(t, "ok") /\ UNCHANGED held
               ELSE Lock(t, "is_open") /\ Goto(t, "open2") /\ UNCHANGED ret
  /\ UNCHANGED <<state, audio, mute, gens, cfg, live, left, ghost>>

OpenForgetsMute(t) ==
  /\ At(t, "open2") /\ Lock(t, "did_mute")
  /\ didMute' = FALSE
  /\ Goto(t, "open3")
  /\ UNCHANGED <<state, audio, osMuted, gens, cfg, ret, live, left, ghost>>

\* The device opens, or there is none, or the driver refuses or times out.
OpenOpensDevice(t) ==
  /\ At(t, "open3") /\ Free("recorder")
  /\ Unlock({"is_open", "did_mute"})
  /\ \/ isOpen' = TRUE /\ streaming' = TRUE /\ Return(t, "ok") /\ UNCHANGED left
     \/ Spend("faults") /\ Return(t, "err") /\ UNCHANGED <<isOpen, streaming>>
  /\ UNCHANGED <<state, capturing, isRecording, mute, gens, cfg, live, ghost>>

-----------------------------------------------------------------------------
\* apply_mute, with mute_while_recording set, and remove_mute

\* Mutant of MuteOrder: the order apply_mute once had.
MuteOrderReversed == <<"did_mute", "is_open">>

\* the order in which it takes its two locks
MuteOrder == <<"is_open", "did_mute">>

MuteLocks(t) ==
  /\ At(t, "mute1") /\ Lock(t, MuteOrder[1])
  /\ Goto(t, "mute2")
  /\ UNCHANGED <<state, audio, mute, gens, cfg, ret, live, left, ghost>>

\* Mutant of MuteApplies: apply_mute does not look whether the stream is open.
MuteAppliesClosed(t) ==
  /\ At(t, "mute2") /\ Free(MuteOrder[2])
  /\ osMuted' = TRUE /\ didMute' = TRUE
  /\ Unlock({MuteOrder[1]}) /\ Return(t, "ok")
  /\ UNCHANGED <<state, audio, gens, cfg, live, left, ghost>>

\* A closed stream mutes nothing.
MuteApplies(t) ==
  /\ At(t, "mute2") /\ Free(MuteOrder[2])
  /\ osMuted' = (osMuted \/ isOpen) /\ didMute' = (didMute \/ isOpen)
  /\ Unlock({MuteOrder[1]}) /\ Return(t, "ok")
  /\ UNCHANGED <<state, audio, gens, cfg, live, left, ghost>>

RemoveMute(t) ==
  /\ At(t, "unmute") /\ Free("did_mute")
  /\ osMuted' = (osMuted /\ ~didMute) /\ didMute' = FALSE
  /\ Goto(t, "rest")
  /\ UNCHANGED <<held, state, audio, gens, cfg, ret, live, left, ghost>>

-----------------------------------------------------------------------------
\* schedule_close_when_idle: the caller t hands the stream to a sleeping thread

ScheduleClose(t, next) ==
  \E k \in Closers :
    /\ At(k, "rest")
    /\ closeGen' = closeGen + 1
    /\ gen' = [gen EXCEPT ![k] = closeGen + 1]
    /\ pc' = [pc EXCEPT ![k] = "close1", ![t] = next]

\* Mutant of CloserLocks: the close thread relies on the state alone.
CloserLocksNothing(k) ==
  /\ At(k, "close1") /\ Goto(k, "close2")
  /\ UNCHANGED <<held, state, audio, mute, gens, cfg, ret, live, left, ghost>>

CloserLocks(k) ==
  /\ At(k, "close1") /\ Lock(k, "lifecycle")
  /\ Goto(k, "close2")
  /\ UNCHANGED <<state, audio, mute, gens, cfg, ret, live, left, ghost>>

\* Only the newest schedule of an idle recorder closes, and never while a
\* wakeword listens.
CloserDecides(k) ==
  /\ At(k, "close2") /\ Free("state")
  /\ IF closeGen = gen[k] /\ state = "Idle" /\ ~wake
       THEN Call(k, "stop1", "close3", "close3")
       ELSE Goto(k, "close3") /\ UNCHANGED ret
  /\ UNCHANGED <<held, state, audio, mute, gens, cfg, live, left, ghost>>

CloserUnlocks(k) ==
  /\ At(k, "close3") /\ Unlock({"lifecycle"})
  /\ Goto(k, "rest")
  /\ UNCHANGED <<state, audio, mute, gens, cfg, ret, live, left, ghost>>

-----------------------------------------------------------------------------
\* A take begins: the microphone thread, which the coordinator joins

Press ==
  /\ At("coord", "rest") /\ Spend("takes")
  /\ IF policy = "always" THEN Call("coord", "mute1", "try1", "try1")
                          ELSE Goto("coord", "try1") /\ UNCHANGED ret
  /\ UNCHANGED <<held, state, audio, mute, gens, cfg, live, ghost>>

TryLocks ==
  /\ At("coord", "try1") /\ Lock("coord", "lifecycle")
  /\ Goto("coord", "try2")
  /\ UNCHANGED <<state, audio, mute, gens, cfg, ret, live, left, ghost>>

TryRefused ==
  /\ At("coord", "try2") /\ Free("state") /\ state # "Idle"
  /\ Unlock({"lifecycle"}) /\ Goto("coord", "rest")
  /\ UNCHANGED <<state, audio, mute, gens, cfg, ret, live, left, ghost>>

\* On demand the stream opens and a pending close is called off; an always-on
\* stream is taken to be open.
TryOpens ==
  /\ At("coord", "try2") /\ Free("state") /\ state = "Idle"
  /\ IF OnDemand
       THEN closeGen' = closeGen + 1 /\ Call("coord", "open1", "try3", "tryErr")
       ELSE Goto("coord", "try3") /\ UNCHANGED <<closeGen, ret>>
  /\ saved' = (~At("settings", "rest") \/ (~OnDemand /\ ~isOpen))
  /\ cancelled' = ~At("cancel", "rest")
  /\ UNCHANGED <<held, state, audio, mute, recGen, gen, cfg, live, left>>

\* start() with no worker to tell returns Ok as well.
TryStarts ==
  /\ At("coord", "try3") /\ Lock("coord", "recorder")
  /\ capturing' = streaming /\ live' = ~streaming
  /\ isRecording' = TRUE
  /\ recGen' = recGen + 1
  /\ Goto("coord", "try4")
  /\ UNCHANGED <<state, isOpen, streaming, mute, closeGen, gen, cfg, ret, left, ghost>>

\* Mutant of TryCannotStart: a start that fails leaves the stream it opened.
TryCannotStartOpen ==
  /\ At("coord", "try3") /\ Free("recorder") /\ Spend("faults")
  /\ Goto("coord", "tryErr")
  /\ UNCHANGED <<held, state, audio, mute, gens, cfg, ret, live, ghost>>

\* The worker is dead, or no recorder was ever made.
TryCannotStart ==
  /\ At("coord", "try3") /\ Free("recorder") /\ Spend("faults")
  /\ IF OnDemand THEN Call("coord", "stop1", "tryErr", "tryErr")
                 ELSE Goto("coord", "tryErr") /\ UNCHANGED ret
  /\ UNCHANGED <<held, state, audio, mute, gens, cfg, live, ghost>>

\* It publishes the take; a session cancelled during the start is cancelled
\* once more after the join.
TryPublishes ==
  /\ At("coord", "try4") /\ Free("state")
  /\ state' = "Recording"
  /\ Unlock({"recorder", "lifecycle"})
  /\ \E l \in {"rest", "cancel1"} : Goto("coord", l)
  /\ UNCHANGED <<audio, mute, gens, cfg, ret, live, left, ghost>>

TryFails ==
  /\ At("coord", "tryErr") /\ Unlock({"lifecycle"}) /\ Goto("coord", "rest")
  /\ UNCHANGED <<state, audio, mute, gens, cfg, ret, live, left, ghost>>

-----------------------------------------------------------------------------
\* The first frame of a take is delivered: on demand a worker applies the mute.

FirstFrame ==
  /\ capturing /\ ~live /\ At("muter", "rest")
  /\ live' = TRUE
  /\ IF OnDemand
       THEN gen' = [gen EXCEPT !["muter"] = recGen] /\ Goto("muter", "muter1")
       ELSE UNCHANGED <<gen, pc>>
  /\ UNCHANGED <<held, state, audio, mute, closeGen, recGen, cfg, ret, left, ghost>>

MuterDecides ==
  /\ At("muter", "muter1") /\ Free("state")
  /\ IF state = "Recording" /\ recGen = gen["muter"]
       THEN Call("muter", "mute1", "rest", "rest")
       ELSE Goto("muter", "rest") /\ UNCHANGED ret
  /\ UNCHANGED <<held, state, audio, mute, gens, cfg, live, left, ghost>>

-----------------------------------------------------------------------------
\* A take ends: stop_recording and the remove_mute after it

Release ==
  /\ At("coord", "rest")
  /\ Goto("coord", "end1")
  /\ UNCHANGED <<held, state, audio, mute, gens, cfg, ret, live, left, ghost>>

EndClaims ==
  /\ At("coord", "end1") /\ Free("state")
  /\ IF state = "Recording"
       THEN state' = "Stopping" /\ Lock("coord", "state") /\ Goto("coord", "end2")
       ELSE Goto("coord", "unmute") /\ UNCHANGED <<state, held>>
  /\ UNCHANGED <<audio, mute, gens, cfg, ret, live, left, ghost>>

\* set_realtime_enabled takes the recorder while the state is held.
EndStopsPreview ==
  /\ At("coord", "end2") /\ Free("recorder")
  /\ Unlock({"state"}) /\ Goto("coord", "end3")
  /\ UNCHANGED <<state, audio, mute, gens, cfg, ret, live, left, ghost>>

EndStopsCapture ==
  /\ At("coord", "end3") /\ Free("recorder")
  /\ capturing' = FALSE
  /\ Goto("coord", "end4")
  /\ UNCHANGED <<held, state, isOpen, streaming, isRecording, mute, gens, cfg, ret, live,
                 left, ghost>>

EndReleases ==
  /\ At("coord", "end4") /\ Free("state")
  /\ isRecording' = FALSE /\ state' = "Idle"
  /\ IF OnDemand /\ ~wake THEN ScheduleClose("coord", "unmute")
                          ELSE Goto("coord", "unmute") /\ UNCHANGED <<closeGen, gen>>
  /\ UNCHANGED <<held, isOpen, streaming, capturing, mute, recGen, cfg, ret, live, left, ghost>>

-----------------------------------------------------------------------------
\* cancel_recording, called by any cancelling thread (a cancel request, the
\* watchdog of a silent take) and by the coordinator after the join

\* A cancel that finds no take changes nothing here.
Cancel ==
  /\ At("cancel", "rest") /\ state = "Recording" /\ Spend("cancels")
  /\ cancelled' = TRUE
  /\ Goto("cancel", "cancel1")
  /\ UNCHANGED <<held, state, audio, mute, gens, cfg, ret, live, saved>>

\* Mutant of CancelClaims: a take that is being stopped is cancelled as well.
CancelClaimsStopping(t) ==
  /\ At(t, "cancel1") /\ Free("state")
  /\ IF state # "Idle" THEN state' = "Idle" /\ Goto(t, "cancel2")
                       ELSE Goto(t, "rest") /\ UNCHANGED state
  /\ UNCHANGED <<held, audio, mute, gens, cfg, ret, live, left, ghost>>

CancelClaims(t) ==
  /\ At(t, "cancel1") /\ Free("state")
  /\ IF state = "Recording" THEN state' = "Idle" /\ Goto(t, "cancel2")
                            ELSE Goto(t, "rest") /\ UNCHANGED state
  /\ UNCHANGED <<held, audio, mute, gens, cfg, ret, live, left, ghost>>

CancelStopsCapture(t) ==
  /\ At(t, "cancel2") /\ Free("recorder")
  /\ capturing' = FALSE
  /\ Goto(t, "cancel3")
  /\ UNCHANGED <<held, state, isOpen, streaming, isRecording, mute, gens, cfg, ret, live,
                 left, ghost>>

\* The stream closes by policy: later, or here and now without the lifecycle lock.
CancelReleases(t) ==
  /\ At(t, "cancel3")
  /\ isRecording' = FALSE
  /\ \/ (~OnDemand \/ wake) /\ Goto(t, "rest") /\ UNCHANGED <<closeGen, gen, ret>>
     \/ /\ OnDemand /\ ~wake /\ policy = "delayed"
        /\ ScheduleClose(t, "rest") /\ UNCHANGED ret
     \/ /\ OnDemand /\ ~wake /\ policy # "delayed"
        /\ Call(t, "stop1", "rest", "rest") /\ UNCHANGED <<closeGen, gen>>
  /\ UNCHANGED <<held, state, isOpen, streaming, capturing, mute, recGen, cfg, live, left, ghost>>

-----------------------------------------------------------------------------
\* Settings changes, applied one after another

Save(l) ==
  /\ At("settings", "rest") /\ Spend("saves")
  /\ saved' = TRUE
  /\ Goto("settings", l)
  /\ UNCHANGED <<held, state, audio, mute, gens, mode, ret, live, cancelled>>

SavePolicy ==
  /\ "policy" \in Saves
  /\ \E p \in Policies \ {policy} :
       /\ policy' = p
       /\ target' = IF p = "always" THEN "AlwaysOn" ELSE "OnDemand"
  /\ Save("mode1") /\ UNCHANGED wake

SaveWake ==
  /\ "wake" \in Saves
  /\ wake' = ~wake
  /\ Save(IF wake THEN "disarm" ELSE "arm") /\ UNCHANGED <<policy, target>>

SaveDevice ==
  /\ "device" \in Saves
  /\ Save("device1") /\ UNCHANGED <<policy, target, wake>>

SupersedeAndCall(sub, ok, err) ==
  /\ closeGen' = closeGen + 1
  /\ Call("settings", sub, ok, err)

\* update_mode: what it reads of the state and the disk is old when it acts.
UpdateMode ==
  /\ At("settings", "mode1")
  /\ \/ /\ ~OnDemand /\ target = "OnDemand" /\ Free("state")
        /\ IF state = "Idle" /\ ~wake
             THEN SupersedeAndCall("stop1", "mode2", "mode2")
             ELSE Goto("settings", "mode2") /\ UNCHANGED <<closeGen, ret>>
     \/ /\ OnDemand /\ target = "AlwaysOn"
        /\ SupersedeAndCall("open1", "mode2", "rest")
     \/ /\ mode = target
        /\ Goto("settings", "mode2") /\ UNCHANGED <<closeGen, ret>>
  /\ UNCHANGED <<held, state, audio, mute, recGen, gen, cfg, live, left, ghost>>

ModeIsSet ==
  /\ At("settings", "mode2")
  /\ mode' = target
  /\ Goto("settings", "rest")
  /\ UNCHANGED <<held, state, audio, mute, gens, policy, wake, target, ret, live, left, ghost>>

\* arm_wakeword_runtime; a running take delays it
Arm ==
  /\ At("settings", "arm") /\ Free("state")
  /\ IF state = "Recording" THEN Goto("settings", "rest") /\ UNCHANGED <<closeGen, ret>>
                            ELSE SupersedeAndCall("open1", "rest", "rest")
  /\ UNCHANGED <<held, state, audio, mute, recGen, gen, cfg, live, left, ghost>>

\* stop_wakeword_listening_stream_if_idle
Disarm ==
  /\ At("settings", "disarm") /\ Free("state")
  /\ IF state # "Recording" /\ OnDemand
       THEN SupersedeAndCall("stop1", "rest", "rest")
       ELSE Goto("settings", "rest") /\ UNCHANGED <<closeGen, ret>>
  /\ UNCHANGED <<held, state, audio, mute, recGen, gen, cfg, live, left, ghost>>

\* update_selected_device: an open stream is reopened with the new device.
ReopenDevice ==
  /\ At("settings", "device1") /\ Free("is_open")
  /\ IF isOpen THEN SupersedeAndCall("stop1", "device2", "device2")
               ELSE Goto("settings", "rest") /\ UNCHANGED <<closeGen, ret>>
  /\ UNCHANGED <<held, state, audio, mute, recGen, gen, cfg, live, left, ghost>>

DeviceClosed ==
  /\ At("settings", "device2") /\ Call("settings", "open1", "rest", "rest")
  /\ UNCHANGED <<held, state, audio, mute, gens, cfg, live, left, ghost>>

-----------------------------------------------------------------------------
Stop(t)   == StopLocksOpen(t) \/ StopUnmutes(t) \/ StopEndsCapture(t) \/ StopClosesDevice(t)
Open(t)   == OpenLocksOpen(t) \/ OpenForgetsMute(t) \/ OpenOpensDevice(t)
Mute(t)   == MuteLocks(t) \/ MuteApplies(t)
Cancels(t) == CancelClaims(t) \/ CancelStopsCapture(t) \/ CancelReleases(t)
Closes(k) == CloserLocks(k) \/ CloserDecides(k) \/ CloserUnlocks(k)
Try       == \/ TryLocks \/ TryRefused \/ TryOpens \/ TryStarts \/ TryCannotStart
             \/ TryPublishes \/ TryFails
End       == EndClaims \/ EndStopsPreview \/ EndStopsCapture \/ EndReleases
Settings  == UpdateMode \/ ModeIsSet \/ Arm \/ Disarm \/ ReopenDevice \/ DeviceClosed

\* what a thread does once it has work
Step(t) ==
  \/ Stop(t) \/ Open(t) \/ Mute(t) \/ Cancels(t)
  \/ t \in Closers /\ Closes(t)
  \/ t = "coord" /\ (Try \/ End \/ RemoveMute(t))
  \/ t = "settings" /\ Settings
  \/ t = "muter" /\ MuterDecides

\* what the user and the device do
Environment == \/ Press \/ Release \/ Cancel \/ FirstFrame
               \/ SavePolicy \/ SaveWake \/ SaveDevice

Next == Environment \/ \E t \in Threads : Step(t)

Spec == Init /\ [][Next]_vars
-----------------------------------------------------------------------------
Returns == {"rest", "close3", "try1", "try3", "tryErr", "mode2", "device2"}
Labels  == Returns \cup
  {"stop1", "stop2", "stop3", "stop4", "open1", "open2", "open3", "mute1", "mute2", "unmute",
   "close1", "close2", "try2", "try4", "muter1", "end1", "end2", "end3", "end4", "cancel1",
   "cancel2", "cancel3", "mode1", "arm", "disarm", "device1"}

\* Every variable of the recorder manager and every thread of it has its type.
TypeOK ==
  /\ held \in [Locks -> Threads \cup {Nobody}]
  /\ state \in {"Idle", "Recording", "Stopping"}
  /\ mode \in {"AlwaysOn", "OnDemand"} /\ target \in {"AlwaysOn", "OnDemand"}
  /\ isOpen \in BOOLEAN /\ streaming \in BOOLEAN
  /\ capturing \in BOOLEAN /\ isRecording \in BOOLEAN
  /\ didMute \in BOOLEAN /\ osMuted \in BOOLEAN
  /\ live \in BOOLEAN /\ wake \in BOOLEAN
  /\ saved \in BOOLEAN /\ cancelled \in BOOLEAN
  /\ closeGen \in Nat /\ recGen \in Nat /\ gen \in [Threads -> Nat]
  /\ policy \in Policies
  /\ pc \in [Threads -> Labels]
  /\ ret \in [Threads -> [ok : Returns, err : Returns]]
  /\ left \in [{"takes", "cancels", "saves", "faults"} -> Nat]

\* The output that the recorder muted is muted only while did_mute remembers
\* it, so that some unmute can undo it, and never while the stream is closed
\* (stop_microphone_stream, start_microphone_stream, apply_mute, remove_mute).
MuteIsRemembered ==
  /\ osMuted => didMute
  /\ ~isOpen => ~osMuted

\* A take that no cancel and no settings change disturbs records from the
\* moment it is published until it is claimed by its stop: no scheduled close
\* and no failed or earlier take closes its stream or stops its capture
\* (try_start_recording and schedule_close_when_idle).
UndisturbedTakeRecords ==
  state = "Recording" /\ ~saved /\ ~cancelled => isOpen /\ streaming /\ capturing

AllRest == \A t \in Threads : At(t, "rest")

\* When nothing runs and no take is on, a microphone on demand is closed,
\* unless a settings change came after the last take: whatever schedules,
\* supersedes or calls off a close, the last take leaves one that closes.
MicComesHome ==
  AllRest /\ state = "Idle" /\ OnDemand /\ ~wake /\ ~saved => ~isOpen

\* The mutexes that the next step of t has to find free.
Needs(t) ==
  {l \in Locks :
     \/ l = "is_open"   /\ pc[t] \in {"stop1", "open1", "device1"}
     \/ l = "did_mute"  /\ pc[t] \in {"stop2", "open2", "unmute"}
     \/ l = "recorder"  /\ pc[t] \in {"stop3", "stop4", "open3", "try3", "end2", "end3",
                                      "cancel2"}
     \/ l = "lifecycle" /\ pc[t] \in {"close1", "try1"}
     \/ l = "state"     /\ pc[t] \in {"close2", "try2", "try4", "muter1", "end1", "end4",
                                      "cancel1", "arm", "disarm"}
     \/ l = "state"     /\ At(t, "mode1") /\ ~OnDemand /\ target = "OnDemand"
     \/ l = MuteOrder[1] /\ At(t, "mute1")
     \/ l = MuteOrder[2] /\ At(t, "mute2")}

\* A scheduled close needs one of the threads that Closers bounds.
NeedsCloser(t) ==
  /\ At(t, "end4") \/ (At(t, "cancel3") /\ policy = "delayed")
  /\ OnDemand /\ ~wake

Ready(t) ==
  /\ ~At(t, "rest")
  /\ \A l \in Needs(t) : Free(l)
  /\ NeedsCloser(t) => \E k \in Closers : At(k, "rest")

SomebodyIsReady == AllRest \/ \E t \in Threads : Ready(t)

\* Whoever waits for one of the five mutexes waits for a thread that can go
\* on: no two of them ever wait for each other (the lock order that apply_mute
\* states, and stop_recording, which takes the recorder while it holds the
\* state).  That the thread which is Ready has a step is part of the property.
NoDeadlock == AllRest \/ \E t \in Threads : Ready(t) /\ ENABLED Step(t)

\* try_start_recording counts the take before it publishes it.
Published == IF At("coord", "try4") THEN recGen - 1 ELSE recGen

Life == INSTANCE TakeLife WITH state <- state, generation <- Published,
                               stopping <- pc["coord"] \in {"end2", "end3", "end4"}

\* Whatever starts, stops, cancels and closes run at once, the recorder manager
\* lives its takes as TakeLife says: the state that try_start_recording found Idle
\* is Idle still when it publishes, long after it dropped that lock (the comment on
\* its last step), and a take that a stop has claimed ends with that stop.
KeepsTakeLife == Life!Spec

\* audio.microphoneRelease promises when the stream closes after a recording;
\* a settings change after it makes no difference to that promise.
MicIsReleased ==
  AllRest /\ state = "Idle" /\ OnDemand /\ ~wake => ~isOpen
=============================================================================
