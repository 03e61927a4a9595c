-------------------------- MODULE MicStreamProofs --------------------------
(***************************************************************************)
(* For any number of close threads, any policies and any bounds of         *)
(* MicStream: its types; that a mute is never lost; that an undisturbed    *)
(* take records; that the microphone comes home; that it implements        *)
(* TakeLife; and that no threads wait for each other.  A step is first     *)
(* split into what it does to the control of its thread, to the locks and  *)
(* to the flags.                                                           *)
(***************************************************************************)
EXTENDS MicStream, TLAPS

PcType   == pc \in [Threads -> Labels]
RetType  == ret \in [Threads -> [ok : Returns, err : Returns]]
HeldType == held \in [Locks -> Threads \cup {Nobody}]
LeftType == left \in [{"takes", "cancels", "saves", "faults"} -> Nat]
GenType  == closeGen \in Nat /\ recGen \in Nat /\ gen \in [Threads -> Nat]
Flags ==
  /\ isOpen \in BOOLEAN /\ streaming \in BOOLEAN
  /\ capturing \in BOOLEAN /\ isRecording \in BOOLEAN
  /\ didMute \in BOOLEAN /\ osMuted \in BOOLEAN
  /\ live \in BOOLEAN /\ wake \in BOOLEAN
  /\ saved \in BOOLEAN /\ cancelled \in BOOLEAN

LEMMA ThreadNames == {"coord", "cancel", "settings", "muter"} \subseteq Threads
  BY DEF Threads

LEMMA LockNames == Locks = {"lifecycle", "state", "is_open", "did_mute", "recorder"}
  BY DEF Locks

LEMMA ReturnNames ==
  {"rest", "close3", "try1", "try3", "tryErr", "mode2", "device2"} \subseteq Returns
  BY DEF Returns

LEMMA LabelNames ==
  {"rest", "stop1", "stop2", "stop3", "stop4", "open1", "open2", "open3", "mute1", "mute2",
   "unmute", "close1", "close2", "close3", "try1", "try2", "try3", "try4", "tryErr", "muter1",
   "end1", "end2", "end3", "end4", "cancel1", "cancel2", "cancel3", "mode1", "mode2", "arm",
   "disarm", "device1", "device2"} \subseteq Labels
  BY DEF Labels, Returns

-----------------------------------------------------------------------------
\* What the helpers of the specification do to the types.

LEMMA GotoTypes ==
  ASSUME TypeOK, NEW t \in Threads, NEW l \in Labels, Goto(t, l)
  PROVE  PcType'
  BY DEF Goto, TypeOK, PcType

LEMMA CallTypes ==
  ASSUME TypeOK, NEW t \in Threads, NEW l \in Labels, NEW ok \in Returns,
         NEW err \in Returns, Call(t, l, ok, err)
  PROVE  PcType' /\ RetType'
  BY DEF Call, Goto, TypeOK, PcType, RetType

LEMMA ReturnTypes ==
  ASSUME TypeOK, NEW t \in Threads, NEW way \in {"ok", "err"}, Return(t, way)
  PROVE  PcType' /\ RetType'
<1>1. ret[t][way] \in Labels
  BY DEF TypeOK, Labels
<1>2. PcType'
  BY <1>1, GotoTypes DEF Return
<1>3. RetType'
  BY ReturnNames DEF Return, TypeOK, RetType
<1> QED BY <1>2, <1>3

LEMMA LockTypes ==
  ASSUME TypeOK, NEW t \in Threads, NEW l \in Locks, Lock(t, l)
  PROVE  HeldType'
  BY DEF Lock, TypeOK, HeldType

LEMMA UnlockTypes ==
  ASSUME TypeOK, NEW ls, Unlock(ls)
  PROVE  HeldType'
  BY DEF Unlock, TypeOK, HeldType

LEMMA SpendTypes ==
  ASSUME TypeOK, NEW k \in {"takes", "cancels", "saves", "faults"}, Spend(k)
  PROVE  LeftType'
  BY DEF Spend, TypeOK, LeftType

LEMMA ScheduleTypes ==
  ASSUME TypeOK, NEW t \in Threads, NEW next \in Labels, ScheduleClose(t, next)
  PROVE  PcType' /\ closeGen' \in Nat /\ gen' \in [Threads -> Nat]
<1>1. PICK k \in Closers :
        /\ closeGen' = closeGen + 1
        /\ gen' = [gen EXCEPT ![k] = closeGen + 1]
        /\ pc' = [pc EXCEPT ![k] = "close1", ![t] = next]
  BY DEF ScheduleClose
<1>2. k \in Threads
  BY DEF Threads
<1> QED BY <1>1, <1>2, LabelNames DEF TypeOK, PcType

-----------------------------------------------------------------------------
\* Type correctness, one lemma per subroutine or group of steps.

LEMMA StopTypes ==
  ASSUME TypeOK, NEW t \in Threads, Stop(t)
  PROVE  TypeOK'
<1> USE DEF audio, mute, gens, cfg, ghost
<1>1. PcType' /\ RetType'
  BY LabelNames, ReturnNames, GotoTypes, CallTypes, ReturnTypes
     DEF Stop, StopLocksOpen, StopUnmutes, StopEndsCapture, StopClosesDevice, TypeOK,
     PcType, RetType
<1>2. HeldType'
  BY LockNames, LockTypes, UnlockTypes
     DEF Stop, StopLocksOpen, StopUnmutes, StopEndsCapture, StopClosesDevice, TypeOK,
     HeldType
<1>3. LeftType'
  BY SpendTypes
     DEF Stop, StopLocksOpen, StopUnmutes, StopEndsCapture, StopClosesDevice, TypeOK,
     LeftType
<1>4. GenType'
  BY SMT
     DEF Stop, StopLocksOpen, StopUnmutes, StopEndsCapture, StopClosesDevice, TypeOK,
     GenType
<1>5. Flags'
  BY ZenonT(60)
     DEF Stop, StopLocksOpen, StopUnmutes, StopEndsCapture, StopClosesDevice, TypeOK,
     Flags
<1> QED
  BY <1>1, <1>2, <1>3, <1>4, <1>5
     DEF Stop, StopLocksOpen, StopUnmutes, StopEndsCapture, StopClosesDevice, TypeOK,
     PcType, RetType, HeldType, LeftType, GenType, Flags

LEMMA OpenTypes ==
  ASSUME TypeOK, NEW t \in Threads, Open(t)
  PROVE  TypeOK'
<1> USE DEF audio, mute, gens, cfg, ghost
<1>1. PcType' /\ RetType'
  BY LabelNames, ReturnNames, GotoTypes, CallTypes, ReturnTypes
     DEF Open, OpenLocksOpen, OpenForgetsMute, OpenOpensDevice, TypeOK, PcType, RetType
<1>2. HeldType'
  BY LockNames, LockTypes, UnlockTypes
     DEF Open, OpenLocksOpen, OpenForgetsMute, OpenOpensDevice, TypeOK, HeldType
<1>3. LeftType'
  BY SpendTypes
     DEF Open, OpenLocksOpen, OpenForgetsMute, OpenOpensDevice, TypeOK, LeftType
<1>4. GenType'
  BY SMT
     DEF Open, OpenLocksOpen, OpenForgetsMute, OpenOpensDevice, TypeOK, GenType
<1>5. Flags'
  BY ZenonT(60)
     DEF Open, OpenLocksOpen, OpenForgetsMute, OpenOpensDevice, TypeOK, Flags
<1> QED
  BY <1>1, <1>2, <1>3, <1>4, <1>5
     DEF Open, OpenLocksOpen, OpenForgetsMute, OpenOpensDevice, TypeOK, PcType, RetType,
     HeldType, LeftType, GenType, Flags

LEMMA MuteTypes ==
  ASSUME TypeOK, NEW t \in Threads, Mute(t) \/ RemoveMute(t)
  PROVE  TypeOK'
<1> USE DEF audio, mute, gens, cfg, ghost
<1>1. PcType' /\ RetType'
  BY LabelNames, ReturnNames, GotoTypes, CallTypes, ReturnTypes
     DEF Mute, MuteLocks, MuteApplies, RemoveMute, TypeOK, PcType, RetType
<1>2. HeldType'
  BY LockNames, LockTypes, UnlockTypes
     DEF Mute, MuteLocks, MuteApplies, RemoveMute, TypeOK, HeldType, MuteOrder
<1>3. LeftType'
  BY SpendTypes
     DEF Mute, MuteLocks, MuteApplies, RemoveMute, TypeOK, LeftType
<1>4. GenType'
  BY SMT
     DEF Mute, MuteLocks, MuteApplies, RemoveMute, TypeOK, GenType
<1>5. Flags'
  BY ZenonT(60)
     DEF Mute, MuteLocks, MuteApplies, RemoveMute, TypeOK, Flags
<1> QED
  BY <1>1, <1>2, <1>3, <1>4, <1>5
     DEF Mute, MuteLocks, MuteApplies, RemoveMute, TypeOK, PcType, RetType, HeldType,
     LeftType, GenType, Flags

LEMMA CancelTypes ==
  ASSUME TypeOK, NEW t \in Threads, Cancels(t)
  PROVE  TypeOK'
<1> USE DEF audio, mute, gens, cfg, ghost
<1>1. PcType' /\ RetType'
  BY LabelNames, ReturnNames, GotoTypes, CallTypes, ReturnTypes, ScheduleTypes
     DEF Cancels, CancelClaims, CancelStopsCapture, CancelReleases, TypeOK, PcType,
     RetType
<1>2. HeldType'
  BY LockNames, LockTypes, UnlockTypes
     DEF Cancels, CancelClaims, CancelStopsCapture, CancelReleases, TypeOK, HeldType
<1>3. LeftType'
  BY SpendTypes
     DEF Cancels, CancelClaims, CancelStopsCapture, CancelReleases, TypeOK, LeftType
<1>4. GenType'
  BY ScheduleTypes, LabelNames, SMT
     DEF Cancels, CancelClaims, CancelStopsCapture, CancelReleases, TypeOK, GenType
<1>5. Flags'
  BY ZenonT(60)
     DEF Cancels, CancelClaims, CancelStopsCapture, CancelReleases, TypeOK, Flags
<1> QED
  BY <1>1, <1>2, <1>3, <1>4, <1>5
     DEF Cancels, CancelClaims, CancelStopsCapture, CancelReleases, TypeOK, PcType,
     RetType, HeldType, LeftType, GenType, Flags

LEMMA CloseTypes ==
  ASSUME TypeOK, NEW k \in Closers, k \in Threads, Closes(k)
  PROVE  TypeOK'
<1> USE DEF audio, mute, gens, cfg, ghost
<1>1. PcType' /\ RetType'
  BY LabelNames, ReturnNames, GotoTypes, CallTypes, ReturnTypes
     DEF Closes, CloserLocks, CloserDecides, CloserUnlocks, TypeOK, PcType, RetType
<1>2. HeldType'
  BY LockNames, LockTypes, UnlockTypes
     DEF Closes, CloserLocks, CloserDecides, CloserUnlocks, TypeOK, HeldType
<1>3. LeftType'
  BY SpendTypes
     DEF Closes, CloserLocks, CloserDecides, CloserUnlocks, TypeOK, LeftType
<1>4. GenType'
  BY SMT
     DEF Closes, CloserLocks, CloserDecides, CloserUnlocks, TypeOK, GenType
<1>5. Flags'
  BY ZenonT(60)
     DEF Closes, CloserLocks, CloserDecides, CloserUnlocks, TypeOK, Flags
<1> QED
  BY <1>1, <1>2, <1>3, <1>4, <1>5
     DEF Closes, CloserLocks, CloserDecides, CloserUnlocks, TypeOK, PcType, RetType,
     HeldType, LeftType, GenType, Flags

LEMMA TryTypes ==
  ASSUME TypeOK, Try
  PROVE  TypeOK'
<1> USE DEF audio, mute, gens, cfg, ghost
<1>1. PcType' /\ RetType'
  BY LabelNames, ReturnNames, GotoTypes, CallTypes, ReturnTypes, ThreadNames
     DEF Try, TryLocks, TryRefused, TryOpens, TryStarts, TryCannotStart, TryPublishes,
     TryFails, TypeOK, PcType, RetType
<1>2. HeldType'
  BY LockNames, LockTypes, UnlockTypes, ThreadNames
     DEF Try, TryLocks, TryRefused, TryOpens, TryStarts, TryCannotStart, TryPublishes,
     TryFails, TypeOK, HeldType
<1>3. LeftType'
  BY SpendTypes
     DEF Try, TryLocks, TryRefused, TryOpens, TryStarts, TryCannotStart, TryPublishes,
     TryFails, TypeOK, LeftType
<1>4. GenType'
  BY SMT, ThreadNames
     DEF Try, TryLocks, TryRefused, TryOpens, TryStarts, TryCannotStart, TryPublishes,
     TryFails, TypeOK, GenType
<1>5. Flags'
  <2>1. CASE TryOpens
    BY <2>1, ZenonT(60) DEF TryOpens, TypeOK, Flags
  <2>2. CASE TryStarts
    BY <2>2, ZenonT(60) DEF TryStarts, TypeOK, Flags
  <2>3. CASE ~TryOpens /\ ~TryStarts
    <3>1. UNCHANGED <<audio, mute, live, wake, ghost>>
      BY <2>3 DEF Try, TryLocks, TryRefused, TryCannotStart, TryPublishes, TryFails
    <3> QED BY <3>1 DEF TypeOK, Flags
  <2> QED BY <2>1, <2>2, <2>3
<1> QED
  BY <1>1, <1>2, <1>3, <1>4, <1>5
     DEF Try, TryLocks, TryRefused, TryOpens, TryStarts, TryCannotStart, TryPublishes,
     TryFails, TypeOK, PcType, RetType, HeldType, LeftType, GenType, Flags

LEMMA EndTypes ==
  ASSUME TypeOK, End
  PROVE  TypeOK'
<1> USE DEF audio, mute, gens, cfg, ghost
<1>1. PcType' /\ RetType'
  BY LabelNames, ReturnNames, GotoTypes, CallTypes, ReturnTypes, ScheduleTypes, ThreadNames
     DEF End, EndClaims, EndStopsPreview, EndStopsCapture, EndReleases, TypeOK, PcType,
     RetType
<1>2. HeldType'
  BY LockNames, LockTypes, UnlockTypes, ThreadNames
     DEF End, EndClaims, EndStopsPreview, EndStopsCapture, EndReleases, TypeOK, HeldType
<1>3. LeftType'
  BY SpendTypes
     DEF End, EndClaims, EndStopsPreview, EndStopsCapture, EndReleases, TypeOK, LeftType
<1>4. GenType'
  BY ScheduleTypes, LabelNames, SMT, ThreadNames
     DEF End, EndClaims, EndStopsPreview, EndStopsCapture, EndReleases, TypeOK, GenType
<1>5. Flags'
  BY ZenonT(60)
     DEF End, EndClaims, EndStopsPreview, EndStopsCapture, EndReleases, TypeOK, Flags
<1> QED
  BY <1>1, <1>2, <1>3, <1>4, <1>5
     DEF End, EndClaims, EndStopsPreview, EndStopsCapture, EndReleases, TypeOK, PcType,
     RetType, HeldType, LeftType, GenType, Flags

LEMMA SettingsTypes ==
  ASSUME TypeOK, Settings
  PROVE  TypeOK'
<1> USE DEF audio, mute, gens, cfg, ghost
<1>1. PcType' /\ RetType'
  BY LabelNames, ReturnNames, GotoTypes, CallTypes, ReturnTypes, ThreadNames
     DEF Settings, SupersedeAndCall, UpdateMode, ModeIsSet, Arm, Disarm, ReopenDevice,
     DeviceClosed, TypeOK, PcType, RetType
<1>2. HeldType'
  BY LockNames, LockTypes, UnlockTypes, ThreadNames
     DEF Settings, SupersedeAndCall, UpdateMode, ModeIsSet, Arm, Disarm, ReopenDevice,
     DeviceClosed, TypeOK, HeldType
<1>3. LeftType'
  BY SpendTypes
     DEF Settings, SupersedeAndCall, UpdateMode, ModeIsSet, Arm, Disarm, ReopenDevice,
     DeviceClosed, TypeOK, LeftType
<1>4. GenType'
  BY SMT, ThreadNames
     DEF Settings, SupersedeAndCall, UpdateMode, ModeIsSet, Arm, Disarm, ReopenDevice,
     DeviceClosed, TypeOK, GenType
<1>5. Flags'
  <2>1. UNCHANGED <<audio, mute, live, wake, ghost>>
    BY DEF Settings, UpdateMode, ModeIsSet, Arm, Disarm, ReopenDevice, DeviceClosed
  <2> QED BY <2>1 DEF TypeOK, Flags
<1> QED
  BY <1>1, <1>2, <1>3, <1>4, <1>5
     DEF Settings, SupersedeAndCall, UpdateMode, ModeIsSet, Arm, Disarm, ReopenDevice,
     DeviceClosed, TypeOK, PcType, RetType, HeldType, LeftType, GenType, Flags

LEMMA EnvironmentTypes ==
  ASSUME TypeOK, Environment \/ MuterDecides
  PROVE  TypeOK'
<1> USE DEF audio, mute, gens, cfg, ghost
<1>1. PcType' /\ RetType'
  BY LabelNames, ReturnNames, GotoTypes, CallTypes, ReturnTypes, ThreadNames
     DEF Environment, MuterDecides, Press, Release, Cancel, FirstFrame, Save, SavePolicy,
     SaveWake, SaveDevice, TypeOK, PcType, RetType
<1>2. HeldType'
  BY LockNames, LockTypes, UnlockTypes, ThreadNames
     DEF Environment, MuterDecides, Press, Release, Cancel, FirstFrame, Save, SavePolicy,
     SaveWake, SaveDevice, TypeOK, HeldType
<1>3. LeftType'
  BY SpendTypes
     DEF Environment, MuterDecides, Press, Release, Cancel, FirstFrame, Save, SavePolicy,
     SaveWake, SaveDevice, TypeOK, LeftType
<1>4. GenType'
  BY SMT, ThreadNames
     DEF Environment, MuterDecides, Press, Release, Cancel, FirstFrame, Save, SavePolicy,
     SaveWake, SaveDevice, TypeOK, GenType
<1>5. Flags'
  <2>1. CASE SaveWake
    BY <2>1, ZenonT(60) DEF SaveWake, Save, TypeOK, Flags
  <2>2. CASE ~SaveWake
    <3>1. /\ UNCHANGED <<audio, mute, wake>>
          /\ live' = live \/ live' = TRUE
          /\ saved' = saved \/ saved' = TRUE
          /\ cancelled' = cancelled \/ cancelled' = TRUE
      BY <2>2 DEF Environment, MuterDecides, Press, Release, Cancel, FirstFrame, Save,
         SavePolicy, SaveDevice
    <3> QED BY <3>1 DEF TypeOK, Flags
  <2> QED BY <2>1, <2>2
<1> QED
  BY <1>1, <1>2, <1>3, <1>4, <1>5
     DEF Environment, MuterDecides, Press, Release, Cancel, FirstFrame, Save, SavePolicy,
     SaveWake, SaveDevice, TypeOK, PcType, RetType, HeldType, LeftType, GenType, Flags

LEMMA TypesHold == TypeOK /\ [Next]_vars => TypeOK'
<1> SUFFICES ASSUME TypeOK, [Next]_vars
             PROVE  TypeOK'
  OBVIOUS
<1>1. CASE \E t \in Threads : Step(t)
  <2>1. PICK t \in Threads : Step(t)
    BY <1>1
  <2>2. CASE Stop(t) \/ Open(t) \/ Mute(t) \/ Cancels(t) \/ RemoveMute(t)
    BY <2>2, StopTypes, OpenTypes, MuteTypes, CancelTypes
  <2>3. CASE t \in Closers /\ Closes(t)
    BY <2>3, CloseTypes
  <2>4. CASE Try \/ End \/ Settings \/ MuterDecides
    BY <2>4, TryTypes, EndTypes, SettingsTypes, EnvironmentTypes
  <2> QED BY <2>1, <2>2, <2>3, <2>4 DEF Step
<1>2. CASE Environment
  BY <1>2, EnvironmentTypes
<1>3. CASE UNCHANGED vars
  BY <1>3 DEF vars, audio, mute, gens, cfg, ghost, TypeOK
<1> QED BY <1>1, <1>2, <1>3 DEF Next

LEMMA InitTypes == Init => TypeOK
<1> SUFFICES ASSUME Init
             PROVE  TypeOK
  OBVIOUS
<1>1. /\ "rest" \in Labels /\ "rest" \in Returns
  BY LabelNames, ReturnNames
<1>2. isOpen \in BOOLEAN /\ streaming \in BOOLEAN
  BY ZenonT(60) DEF Init
<1>3. left \in [{"takes", "cancels", "saves", "faults"} -> Nat]
  BY BoundsAssumption DEF Init
<1> QED BY <1>1, <1>2, <1>3 DEF Init, TypeOK

\* Type correctness of the microphone stream (TypeOK), whatever the threads,
\* the policies and the bounds.
THEOREM MicTypes == Spec => []TypeOK
  BY InitTypes, TypesHold, PTL DEF Spec

-----------------------------------------------------------------------------
(***************************************************************************)
(* The mute.  MuteIsRemembered is not inductive: that a mute never meets a *)
(* closed stream needs who holds is_open and did_mute at which step.       *)
(***************************************************************************)

HoldsOpen == {"stop2", "stop3", "stop4", "open2", "open3", "mute2"}
HoldsMute == {"stop3", "stop4", "open3"}

\* A thread at a step between the lock and the unlock holds the lock.
LocksHeld ==
  \A t \in Threads :
    /\ pc[t] \in HoldsOpen => held["is_open"] = t
    /\ pc[t] \in HoldsMute => held["did_mute"] = t

\* What each of those steps knows of the stream and the mute.
KnownAtSteps ==
  \A t \in Threads :
    /\ pc[t] \in {"stop3", "stop4"} => ~osMuted
    /\ pc[t] \in {"open2", "open3"} => ~isOpen

MuteInv == LocksHeld /\ KnownAtSteps /\ MuteIsRemembered

\* A step that leaves stream, mute and both locks alone and takes no thread
\* between lock and unlock.
LEMMA MuteFrame ==
  ASSUME TypeOK, MuteInv, UNCHANGED <<isOpen, mute>>,
         held'["is_open"] = held["is_open"], held'["did_mute"] = held["did_mute"],
         \A t \in Threads : pc'[t] = pc[t] \/ pc'[t] \notin HoldsOpen
  PROVE  MuteInv'
  BY DEF MuteInv, LocksHeld, KnownAtSteps, MuteIsRemembered, HoldsOpen, HoldsMute, mute

LEMMA GotoOutside ==
  ASSUME TypeOK, NEW t \in Threads, NEW l, l \notin HoldsOpen,
         Goto(t, l) \/ ScheduleClose(t, l)
  PROVE  \A u \in Threads : pc'[u] = pc[u] \/ pc'[u] \notin HoldsOpen
  BY DEF TypeOK, Goto, ScheduleClose, HoldsOpen

LEMMA CallOutside ==
  ASSUME TypeOK, NEW t \in Threads, NEW l, NEW ok, NEW err, l \notin HoldsOpen,
         Call(t, l, ok, err)
  PROVE  \A u \in Threads : pc'[u] = pc[u] \/ pc'[u] \notin HoldsOpen
  BY DEF TypeOK, Goto, Call, HoldsOpen

LEMMA OtherLocks ==
  ASSUME TypeOK,
         \/ \E t \in Threads, l \in {"lifecycle", "state", "recorder"} : Lock(t, l)
         \/ \E ls \in SUBSET {"lifecycle", "state", "recorder"} : Unlock(ls)
  PROVE  held'["is_open"] = held["is_open"] /\ held'["did_mute"] = held["did_mute"]
  BY LockNames DEF TypeOK, Lock, Unlock

LEMMA CancelKeepsMute ==
  ASSUME TypeOK, MuteInv, NEW t \in Threads, Cancels(t)
  PROVE  MuteInv'
<1>1. UNCHANGED <<isOpen, mute>>
  BY DEF Cancels, CancelClaims, CancelStopsCapture, CancelReleases, audio, mute
<1>2. \A u \in Threads : pc'[u] = pc[u] \/ pc'[u] \notin HoldsOpen
  BY GotoOutside, CallOutside, ThreadNames
     DEF Cancels, CancelClaims, CancelStopsCapture, CancelReleases, HoldsOpen
<1>3. held'["is_open"] = held["is_open"] /\ held'["did_mute"] = held["did_mute"]
  BY OtherLocks, ThreadNames
     DEF Cancels, CancelClaims, CancelStopsCapture, CancelReleases, TypeOK
<1> QED BY <1>1, <1>2, <1>3, MuteFrame

LEMMA CloseKeepsMute ==
  ASSUME TypeOK, MuteInv, NEW k \in Threads, Closes(k)
  PROVE  MuteInv'
<1>1. UNCHANGED <<isOpen, mute>>
  BY DEF Closes, CloserLocks, CloserDecides, CloserUnlocks, audio, mute
<1>2. \A u \in Threads : pc'[u] = pc[u] \/ pc'[u] \notin HoldsOpen
  BY GotoOutside, CallOutside, ThreadNames
     DEF Closes, CloserLocks, CloserDecides, CloserUnlocks, HoldsOpen
<1>3. held'["is_open"] = held["is_open"] /\ held'["did_mute"] = held["did_mute"]
  BY OtherLocks, ThreadNames
     DEF Closes, CloserLocks, CloserDecides, CloserUnlocks, TypeOK
<1> QED BY <1>1, <1>2, <1>3, MuteFrame

LEMMA TryKeepsMute ==
  ASSUME TypeOK, MuteInv, Try
  PROVE  MuteInv'
<1>1. UNCHANGED <<isOpen, mute>>
  BY DEF Try, TryLocks, TryRefused, TryOpens, TryStarts, TryCannotStart, TryPublishes,
     TryFails, audio, mute
<1>2. \A u \in Threads : pc'[u] = pc[u] \/ pc'[u] \notin HoldsOpen
  BY GotoOutside, CallOutside, ThreadNames
     DEF Try, TryLocks, TryRefused, TryOpens, TryStarts, TryCannotStart, TryPublishes,
     TryFails, HoldsOpen
<1>3. held'["is_open"] = held["is_open"] /\ held'["did_mute"] = held["did_mute"]
  BY OtherLocks, ThreadNames
     DEF Try, TryLocks, TryRefused, TryOpens, TryStarts, TryCannotStart, TryPublishes,
     TryFails, TypeOK
<1> QED BY <1>1, <1>2, <1>3, MuteFrame

LEMMA EndKeepsMute ==
  ASSUME TypeOK, MuteInv, End
  PROVE  MuteInv'
<1>1. UNCHANGED <<isOpen, mute>>
  BY DEF End, EndClaims, EndStopsPreview, EndStopsCapture, EndReleases, audio, mute
<1>2. \A u \in Threads : pc'[u] = pc[u] \/ pc'[u] \notin HoldsOpen
  BY GotoOutside, CallOutside, ThreadNames
     DEF End, EndClaims, EndStopsPreview, EndStopsCapture, EndReleases, HoldsOpen
<1>3. held'["is_open"] = held["is_open"] /\ held'["did_mute"] = held["did_mute"]
  BY OtherLocks, ThreadNames
     DEF End, EndClaims, EndStopsPreview, EndStopsCapture, EndReleases, TypeOK
<1> QED BY <1>1, <1>2, <1>3, MuteFrame

LEMMA SettingsKeepMute ==
  ASSUME TypeOK, MuteInv, Settings
  PROVE  MuteInv'
<1>1. UNCHANGED <<isOpen, mute>>
  BY DEF Settings, SupersedeAndCall, UpdateMode, ModeIsSet, Arm, Disarm, ReopenDevice,
     DeviceClosed, audio, mute
<1>2. \A u \in Threads : pc'[u] = pc[u] \/ pc'[u] \notin HoldsOpen
  BY GotoOutside, CallOutside, ThreadNames
     DEF Settings, SupersedeAndCall, UpdateMode, ModeIsSet, Arm, Disarm, ReopenDevice,
     DeviceClosed, HoldsOpen
<1>3. held'["is_open"] = held["is_open"] /\ held'["did_mute"] = held["did_mute"]
  BY OtherLocks, ThreadNames
     DEF Settings, SupersedeAndCall, UpdateMode, ModeIsSet, Arm, Disarm, ReopenDevice,
     DeviceClosed, TypeOK
<1> QED BY <1>1, <1>2, <1>3, MuteFrame

LEMMA EnvironmentKeepsMute ==
  ASSUME TypeOK, MuteInv, Environment \/ MuterDecides
  PROVE  MuteInv'
<1>1. UNCHANGED <<isOpen, mute>>
  BY DEF Environment, MuterDecides, Press, Release, Cancel, FirstFrame, Save, SavePolicy,
     SaveWake, SaveDevice, audio, mute
<1>2. \A u \in Threads : pc'[u] = pc[u] \/ pc'[u] \notin HoldsOpen
  BY GotoOutside, CallOutside, ThreadNames
     DEF Environment, MuterDecides, Press, Release, Cancel, FirstFrame, Save, SavePolicy,
     SaveWake, SaveDevice, HoldsOpen
<1>3. held'["is_open"] = held["is_open"] /\ held'["did_mute"] = held["did_mute"]
  BY OtherLocks, ThreadNames
     DEF Environment, MuterDecides, Press, Release, Cancel, FirstFrame, Save, SavePolicy,
     SaveWake, SaveDevice, TypeOK
<1> QED BY <1>1, <1>2, <1>3, MuteFrame

LEMMA StopKeepsMute ==
  ASSUME TypeOK, MuteInv, NEW t \in Threads, Stop(t)
  PROVE  MuteInv'
<1> USE LockNames, ClosersAssumption DEF MuteInv, LocksHeld, KnownAtSteps,
      MuteIsRemembered, HoldsOpen, HoldsMute, TypeOK, At, Free, Goto, Return, Lock, Unlock,
      Returns, audio, mute
<1>1. CASE StopLocksOpen(t)
  BY <1>1 DEF StopLocksOpen
<1>2. CASE StopUnmutes(t)
  BY <1>2 DEF StopUnmutes
<1>3. CASE StopEndsCapture(t)
  BY <1>3 DEF StopEndsCapture
<1>4. CASE StopClosesDevice(t)
  BY <1>4 DEF StopClosesDevice
<1> QED BY <1>1, <1>2, <1>3, <1>4 DEF Stop

LEMMA OpenKeepsMute ==
  ASSUME TypeOK, MuteInv, NEW t \in Threads, Open(t)
  PROVE  MuteInv'
<1> USE LockNames, ClosersAssumption DEF MuteInv, LocksHeld, KnownAtSteps,
      MuteIsRemembered, HoldsOpen, HoldsMute, TypeOK, At, Free, Goto, Return, Lock, Unlock,
      Returns, audio, mute
<1>1. CASE OpenLocksOpen(t)
  BY <1>1 DEF OpenLocksOpen
<1>2. CASE OpenForgetsMute(t)
  BY <1>2 DEF OpenForgetsMute
<1>3. CASE OpenOpensDevice(t)
  <2>1. LocksHeld'
    BY <1>3 DEF OpenOpensDevice
  <2>2. KnownAtSteps'
    BY <1>3 DEF OpenOpensDevice
  <2>3. MuteIsRemembered'
    BY <1>3 DEF OpenOpensDevice
  <2> QED BY <2>1, <2>2, <2>3
<1> QED BY <1>1, <1>2, <1>3 DEF Open

LEMMA ApplyKeepsMute ==
  ASSUME TypeOK, MuteInv, NEW t \in Threads, Mute(t) \/ RemoveMute(t)
  PROVE  MuteInv'
<1> USE LockNames, ClosersAssumption DEF MuteInv, LocksHeld, KnownAtSteps,
      MuteIsRemembered, HoldsOpen, HoldsMute, TypeOK, At, Free, Goto, Return, Lock, Unlock,
      Returns, MuteOrder, audio, mute
<1>1. CASE MuteLocks(t)
  BY <1>1 DEF MuteLocks
<1>2. CASE MuteApplies(t)
  BY <1>2 DEF MuteApplies
<1>3. CASE RemoveMute(t)
  BY <1>3 DEF RemoveMute
<1> QED BY <1>1, <1>2, <1>3 DEF Mute

LEMMA MuteInvHolds == TypeOK /\ MuteInv /\ [Next]_vars => MuteInv'
<1> SUFFICES ASSUME TypeOK, MuteInv, [Next]_vars
             PROVE  MuteInv'
  OBVIOUS
<1>1. CASE \E t \in Threads : Step(t)
  <2>1. PICK t \in Threads : Step(t)
    BY <1>1
  <2>2. CASE Stop(t) \/ Open(t) \/ Mute(t) \/ Cancels(t) \/ RemoveMute(t)
    BY <2>2, StopKeepsMute, OpenKeepsMute, ApplyKeepsMute, CancelKeepsMute
  <2>3. CASE t \in Closers /\ Closes(t)
    BY <2>3, CloseKeepsMute
  <2>4. CASE Try \/ End \/ Settings \/ MuterDecides
    BY <2>4, TryKeepsMute, EndKeepsMute, SettingsKeepMute, EnvironmentKeepsMute
  <2> QED BY <2>1, <2>2, <2>3, <2>4 DEF Step
<1>2. CASE Environment
  BY <1>2, EnvironmentKeepsMute
<1>3. CASE UNCHANGED vars
  BY <1>3 DEF vars, audio, mute, MuteInv, LocksHeld, KnownAtSteps, MuteIsRemembered
<1> QED BY <1>1, <1>2, <1>3 DEF Next

LEMMA InitMute == Init => MuteInv
  BY DEF Init, MuteInv, LocksHeld, KnownAtSteps, MuteIsRemembered, HoldsOpen, HoldsMute

\* The output the recorder muted stays remembered by did_mute, and is never
\* muted while the stream is closed (MuteIsRemembered), however starts, stops,
\* closes, cancels and settings changes interleave.
THEOREM MuteNeverLost == Spec => []MuteIsRemembered
<1>1. TypeOK /\ MuteInv /\ [Next]_vars => (TypeOK /\ MuteInv)'
  BY TypesHold, MuteInvHolds
<1>2. MuteInv => MuteIsRemembered
  BY DEF MuteInv
<1> QED BY <1>1, <1>2, InitTypes, InitMute, PTL DEF Spec

-----------------------------------------------------------------------------
(***************************************************************************)
(* The take and the stream.  What a thread may do to the stream follows    *)
(* from where it is in its program and from who holds the lifecycle lock.  *)
(***************************************************************************)

Stops == {"stop1", "stop2", "stop3", "stop4"}
Opens == {"open1", "open2", "open3"}

\* A close thread closes under the lifecycle lock, and no published take.
ClosersWork ==
  \A k \in Closers :
    /\ pc[k] \in {"rest", "close1", "close2", "close3"} \cup Stops
    /\ pc[k] \in Stops => ret[k].ok = "close3" /\ state # "Recording"
    /\ pc[k] \in {"close2", "close3"} \cup Stops => held["lifecycle"] = k

\* The cancelling thread and the mute worker keep to their programs.
HelpersWork ==
  /\ pc["cancel"] \in {"rest", "cancel1", "cancel2", "cancel3"} \cup Stops
  /\ pc["cancel"] \in Stops => ret["cancel"].ok = "rest"
  /\ pc["muter"] \in {"rest", "muter1", "mute1", "mute2"}
  /\ pc["muter"] \in {"mute1", "mute2"} => ret["muter"].ok = "rest"

\* The coordinator prepares a take under the lifecycle lock, and while a take
\* is published it is at no step that ends one.
CoordWorks ==
  /\ pc["coord"] \in {"mute1", "mute2"} => ret["coord"].ok = "try1"
  /\ pc["coord"] \in Opens => ret["coord"].ok = "try3" /\ ret["coord"].err = "tryErr"
  /\ pc["coord"] \in Stops => ret["coord"].ok \in {"rest", "tryErr"}
  /\ \/ pc["coord"] \in {"try2", "try3", "try4", "tryErr"} \cup Opens
     \/ pc["coord"] \in Stops /\ ret["coord"].ok = "tryErr"
     => held["lifecycle"] = "coord"
  /\ state = "Recording" =>
       pc["coord"] \in {"rest", "mute1", "mute2", "try1", "try2", "cancel1", "end1"}

\* What a clear history says of the two threads that disturb a take.
HistoryIsTrue ==
  /\ ~saved => pc["settings"] = "rest"
  /\ ~cancelled => pc["cancel"] = "rest"

\* The stream is open from the start of an undisturbed take on, and recorded
\* from before it is published.
TakeHasStream ==
  /\ streaming = isOpen
  /\ ~saved /\ ~cancelled =>
       /\ state = "Recording" \/ pc["coord"] \in {"try3", "try4"} => isOpen
       /\ state = "Recording" \/ pc["coord"] = "try4" => capturing

\* A thread that is going to close the stream if it finds it open.
WillClose(t) ==
  \/ pc[t] \in Stops \cup {"cancel2", "cancel3"}
  \/ t \in Closers /\ pc[t] \in {"close1", "close2"} /\ gen[t] = closeGen

\* A stream that only takes open is in use, or somebody will close it.
StreamIsOwned ==
  ~saved /\ OnDemand /\ ~wake /\ isOpen =>
    \/ state # "Idle"
    \/ pc["coord"] \in Opens \cup {"try3", "try4"}
    \/ \E t \in Threads : WillClose(t)

TakeInv ==
  /\ ClosersWork /\ HelpersWork /\ CoordWorks
  /\ HistoryIsTrue /\ TakeHasStream /\ StreamIsOwned
LEMMA InitTake == Init => TakeInv
  BY ThreadNames, ClosersAssumption
     DEF Init, TakeInv, ClosersWork, HelpersWork, CoordWorks, HistoryIsTrue, TakeHasStream,
     StreamIsOwned, Stops, Opens, OnDemand, Threads

\* Who is who: the close threads and the four named threads are different.
LEMMA ThreadsDiffer ==
  /\ \A k \in Closers : k \in Threads /\ k \notin {"coord", "cancel", "settings", "muter"}
  /\ \A t \in Threads : t \in Closers \/ t \in {"coord", "cancel", "settings", "muter"}
  /\ {"coord", "cancel", "settings", "muter"} \subseteq Threads
  /\ Nobody \notin Threads
  BY ClosersAssumption DEF Threads

\* Who closes the stream spares an undisturbed take.
LEMMA StopsSpareTake ==
  ASSUME TypeOK, TakeInv, NEW t \in Threads, pc[t] \in Stops, ~saved, ~cancelled
  PROVE  state # "Recording" /\ pc["coord"] \notin {"try3", "try4"}
<1>1. t \in Closers \/ t = "coord"
  BY ThreadsDiffer DEF TakeInv, HelpersWork, HistoryIsTrue, Stops
<1>2. CASE t \in Closers
  BY <1>2, ThreadsDiffer DEF TakeInv, ClosersWork, CoordWorks
<1>3. CASE t = "coord"
  BY <1>3 DEF TakeInv, CoordWorks, Stops
<1> QED BY <1>1, <1>2, <1>3

LEMMA StopKeepsTake ==
  ASSUME TypeOK, TakeInv, NEW t \in Threads, Stop(t)
  PROVE  TakeInv'
<1> USE LockNames, ThreadsDiffer DEF TakeInv, ClosersWork, HelpersWork, CoordWorks,
      HistoryIsTrue, TakeHasStream, StreamIsOwned, WillClose, Stops, Opens, OnDemand, TypeOK,
      At, Free, Goto, Return, Lock, Unlock, Returns, audio, mute, gens, cfg, ghost
<1>1. CASE StopLocksOpen(t)
  <2>1. ClosersWork'
    BY <1>1 DEF StopLocksOpen
  <2>2. HelpersWork'
    BY <1>1 DEF StopLocksOpen
  <2>3. CoordWorks'
    BY <1>1 DEF StopLocksOpen
  <2>4. HistoryIsTrue'
    BY <1>1 DEF StopLocksOpen
  <2>5. TakeHasStream'
    BY <1>1 DEF StopLocksOpen
  <2>6. StreamIsOwned'
    BY <1>1 DEF StopLocksOpen
  <2> QED BY <2>1, <2>2, <2>3, <2>4, <2>5, <2>6
<1>2. CASE StopUnmutes(t)
  BY <1>2 DEF StopUnmutes
<1>3. CASE StopEndsCapture(t)
  BY <1>3 DEF StopEndsCapture
<1>4. CASE StopClosesDevice(t)
  <2>1. ClosersWork'
    BY <1>4 DEF StopClosesDevice
  <2>2. HelpersWork'
    BY <1>4 DEF StopClosesDevice
  <2>3. CoordWorks'
    BY <1>4 DEF StopClosesDevice
  <2>4. HistoryIsTrue'
    BY <1>4 DEF StopClosesDevice
  <2>5. TakeHasStream'
    <3>1. streaming' = isOpen'
      BY <1>4 DEF StopClosesDevice
    <3>2. ~saved /\ ~cancelled => state # "Recording" /\ pc["coord"] \notin {"try3", "try4"}
      BY <1>4, StopsSpareTake DEF StopClosesDevice
    <3>3. UNCHANGED <<saved, cancelled, state>>
      BY <1>4 DEF StopClosesDevice
    <3>4. pc'["coord"] = pc["coord"] \/ pc'["coord"] \notin {"try3", "try4"}
      BY <1>4 DEF StopClosesDevice
    <3> QED BY <3>1, <3>2, <3>3, <3>4
  <2>6. StreamIsOwned'
    BY <1>4 DEF StopClosesDevice
  <2> QED BY <2>1, <2>2, <2>3, <2>4, <2>5, <2>6
<1> QED BY <1>1, <1>2, <1>3, <1>4 DEF Stop
LEMMA OpenKeepsTake ==
  ASSUME TypeOK, TakeInv, MuteInv, NEW t \in Threads, Open(t)
  PROVE  TakeInv'
<1> USE LockNames, ThreadsDiffer DEF TakeInv, ClosersWork, HelpersWork, CoordWorks,
      HistoryIsTrue, TakeHasStream, StreamIsOwned, WillClose, Stops, Opens, OnDemand, TypeOK,
      At, Free, Goto, Call, Return, Lock, Unlock, Returns, audio, mute, gens, cfg, ghost,
      MuteInv, KnownAtSteps
<1>1. CASE OpenLocksOpen(t)
  <2>1. ClosersWork'
    BY <1>1 DEF OpenLocksOpen
  <2>2. HelpersWork'
    BY <1>1 DEF OpenLocksOpen
  <2>3. CoordWorks'
    BY <1>1 DEF OpenLocksOpen
  <2>4. HistoryIsTrue'
    BY <1>1 DEF OpenLocksOpen
  <2>5. TakeHasStream'
    BY <1>1 DEF OpenLocksOpen
  <2>6. StreamIsOwned'
    BY <1>1 DEF OpenLocksOpen
  <2> QED BY <2>1, <2>2, <2>3, <2>4, <2>5, <2>6
<1>2. CASE OpenForgetsMute(t)
  <2>1. ClosersWork'
    BY <1>2 DEF OpenForgetsMute
  <2>2. HelpersWork'
    BY <1>2 DEF OpenForgetsMute
  <2>3. CoordWorks'
    BY <1>2 DEF OpenForgetsMute
  <2>4. HistoryIsTrue'
    BY <1>2 DEF OpenForgetsMute
  <2>5. TakeHasStream'
    BY <1>2 DEF OpenForgetsMute
  <2>6. StreamIsOwned'
    BY <1>2 DEF OpenForgetsMute
  <2> QED BY <2>1, <2>2, <2>3, <2>4, <2>5, <2>6
<1>3. CASE OpenOpensDevice(t)
  <2>1. ClosersWork'
    BY <1>3 DEF OpenOpensDevice
  <2>2. HelpersWork'
    BY <1>3 DEF OpenOpensDevice
  <2>3. CoordWorks'
    BY <1>3 DEF OpenOpensDevice
  <2>4. HistoryIsTrue'
    BY <1>3 DEF OpenOpensDevice
  <2>5. ~isOpen /\ (t = "coord" \/ saved)
    BY <1>3 DEF OpenOpensDevice
  <2>6. CASE isOpen' = TRUE /\ streaming' = TRUE /\ Return(t, "ok")
    <3>1. UNCHANGED <<state, capturing, saved, cancelled>>
      BY <1>3 DEF OpenOpensDevice
    <3>2. t = "coord" => pc'["coord"] = "try3" /\ state # "Recording"
      BY <1>3, <2>6 DEF OpenOpensDevice
    <3>3. TakeHasStream'
      BY <2>5, <2>6, <3>1, <3>2
    <3>4. StreamIsOwned'
      BY <2>5, <3>1, <3>2
    <3> QED BY <2>1, <2>2, <2>3, <2>4, <3>3, <3>4
  <2>7. CASE UNCHANGED <<isOpen, streaming>> /\ Return(t, "err")
    <3>1. UNCHANGED <<state, capturing, saved, cancelled>>
      BY <1>3 DEF OpenOpensDevice
    <3>2. pc'["coord"] = pc["coord"] \/ pc'["coord"] \notin {"try3", "try4"}
      BY <1>3, <2>5, <2>7 DEF OpenOpensDevice
    <3>3. TakeHasStream' /\ StreamIsOwned'
      BY <2>5, <2>7, <3>1, <3>2
    <3> QED BY <2>1, <2>2, <2>3, <2>4, <3>3
  <2> QED BY <1>3, <2>6, <2>7 DEF OpenOpensDevice
<1> QED BY <1>1, <1>2, <1>3 DEF Open

LEMMA MuteKeepsTake ==
  ASSUME TypeOK, TakeInv, NEW t \in Threads, Mute(t) \/ (t = "coord" /\ RemoveMute(t))
  PROVE  TakeInv'
<1> USE LockNames, ThreadsDiffer DEF TakeInv, ClosersWork, HelpersWork, CoordWorks,
      HistoryIsTrue, TakeHasStream, StreamIsOwned, WillClose, Stops, Opens, OnDemand, TypeOK,
      At, Free, Goto, Call, Return, Lock, Unlock, Returns, audio, mute, gens, cfg, ghost, MuteOrder
<1>1. CASE MuteLocks(t)
  <2>1. ClosersWork'
    BY <1>1 DEF MuteLocks
  <2>2. HelpersWork'
    BY <1>1 DEF MuteLocks
  <2>3. CoordWorks'
    BY <1>1 DEF MuteLocks
  <2>4. HistoryIsTrue'
    BY <1>1 DEF MuteLocks
  <2>5. TakeHasStream'
    BY <1>1 DEF MuteLocks
  <2>6. StreamIsOwned'
    BY <1>1 DEF MuteLocks
  <2> QED BY <2>1, <2>2, <2>3, <2>4, <2>5, <2>6
<1>2. CASE MuteApplies(t)
  <2>1. ClosersWork'
    BY <1>2 DEF MuteApplies
  <2>2. HelpersWork'
    BY <1>2 DEF MuteApplies
  <2>3. CoordWorks'
    BY <1>2 DEF MuteApplies
  <2>4. HistoryIsTrue'
    BY <1>2 DEF MuteApplies
  <2>5. TakeHasStream'
    BY <1>2 DEF MuteApplies
  <2>6. StreamIsOwned'
    BY <1>2 DEF MuteApplies
  <2> QED BY <2>1, <2>2, <2>3, <2>4, <2>5, <2>6
<1>3. CASE t = "coord" /\ RemoveMute(t)
  <2>1. ClosersWork'
    BY <1>3 DEF RemoveMute
  <2>2. HelpersWork'
    BY <1>3 DEF RemoveMute
  <2>3. CoordWorks'
    BY <1>3 DEF RemoveMute
  <2>4. HistoryIsTrue'
    BY <1>3 DEF RemoveMute
  <2>5. TakeHasStream'
    BY <1>3 DEF RemoveMute
  <2>6. StreamIsOwned'
    BY <1>3 DEF RemoveMute
  <2> QED BY <2>1, <2>2, <2>3, <2>4, <2>5, <2>6
<1> QED BY <1>1, <1>2, <1>3 DEF Mute

LEMMA CancelKeepsTake ==
  ASSUME TypeOK, TakeInv, NEW t \in Threads, Cancels(t)
  PROVE  TakeInv'
<1> USE LockNames, ThreadsDiffer DEF TakeInv, ClosersWork, HelpersWork, CoordWorks,
      HistoryIsTrue, TakeHasStream, StreamIsOwned, WillClose, Stops, Opens, OnDemand, TypeOK,
      At, Free, Goto, Call, Return, Lock, Unlock, Returns, audio, mute, gens, cfg, ghost,
      ScheduleClose
<1>1. CASE CancelClaims(t)
  <2>1. ClosersWork'
    BY <1>1 DEF CancelClaims
  <2>2. HelpersWork'
    BY <1>1 DEF CancelClaims
  <2>3. CoordWorks'
    BY <1>1 DEF CancelClaims
  <2>4. HistoryIsTrue'
    BY <1>1 DEF CancelClaims
  <2>5. TakeHasStream'
    BY <1>1 DEF CancelClaims
  <2>6. StreamIsOwned'
    BY <1>1 DEF CancelClaims
  <2> QED BY <2>1, <2>2, <2>3, <2>4, <2>5, <2>6
<1>2. CASE CancelStopsCapture(t)
  <2>1. ClosersWork'
    BY <1>2 DEF CancelStopsCapture
  <2>2. HelpersWork'
    BY <1>2 DEF CancelStopsCapture
  <2>3. CoordWorks'
    BY <1>2 DEF CancelStopsCapture
  <2>4. HistoryIsTrue'
    BY <1>2 DEF CancelStopsCapture
  <2>5. TakeHasStream'
    BY <1>2 DEF CancelStopsCapture
  <2>6. StreamIsOwned'
    BY <1>2 DEF CancelStopsCapture
  <2> QED BY <2>1, <2>2, <2>3, <2>4, <2>5, <2>6
<1>3. CASE CancelReleases(t)
  <2>1. ClosersWork'
    BY <1>3 DEF CancelReleases
  <2>2. HelpersWork'
    BY <1>3 DEF CancelReleases
  <2>3. CoordWorks'
    BY <1>3 DEF CancelReleases
  <2>4. HistoryIsTrue'
    BY <1>3 DEF CancelReleases
  <2>5. TakeHasStream'
    BY <1>3 DEF CancelReleases
  <2>6. StreamIsOwned'
    BY <1>3 DEF CancelReleases
  <2> QED BY <2>1, <2>2, <2>3, <2>4, <2>5, <2>6
<1> QED BY <1>1, <1>2, <1>3 DEF Cancels

LEMMA CloseKeepsTake ==
  ASSUME TypeOK, TakeInv, NEW k \in Closers, Closes(k)
  PROVE  TakeInv'
<1> USE LockNames, ThreadsDiffer DEF TakeInv, ClosersWork, HelpersWork, CoordWorks,
      HistoryIsTrue, TakeHasStream, StreamIsOwned, WillClose, Stops, Opens, OnDemand, TypeOK,
      At, Free, Goto, Call, Return, Lock, Unlock, Returns, audio, mute, gens, cfg, ghost
<1>1. CASE CloserLocks(k)
  <2>1. ClosersWork'
    BY <1>1 DEF CloserLocks
  <2>2. HelpersWork'
    BY <1>1 DEF CloserLocks
  <2>3. CoordWorks'
    BY <1>1 DEF CloserLocks
  <2>4. HistoryIsTrue'
    BY <1>1 DEF CloserLocks
  <2>5. TakeHasStream'
    BY <1>1 DEF CloserLocks
  <2>6. StreamIsOwned'
    BY <1>1 DEF CloserLocks
  <2> QED BY <2>1, <2>2, <2>3, <2>4, <2>5, <2>6
<1>2. CASE CloserDecides(k)
  <2>1. ClosersWork'
    BY <1>2 DEF CloserDecides
  <2>2. HelpersWork'
    BY <1>2 DEF CloserDecides
  <2>3. CoordWorks'
    BY <1>2 DEF CloserDecides
  <2>4. HistoryIsTrue'
    BY <1>2 DEF CloserDecides
  <2>5. TakeHasStream'
    BY <1>2 DEF CloserDecides
  <2>6. StreamIsOwned'
    BY <1>2 DEF CloserDecides
  <2> QED BY <2>1, <2>2, <2>3, <2>4, <2>5, <2>6
<1>3. CASE CloserUnlocks(k)
  <2>1. ClosersWork'
    BY <1>3 DEF CloserUnlocks
  <2>2. HelpersWork'
    BY <1>3 DEF CloserUnlocks
  <2>3. CoordWorks'
    BY <1>3 DEF CloserUnlocks
  <2>4. HistoryIsTrue'
    BY <1>3 DEF CloserUnlocks
  <2>5. TakeHasStream'
    BY <1>3 DEF CloserUnlocks
  <2>6. StreamIsOwned'
    BY <1>3 DEF CloserUnlocks
  <2> QED BY <2>1, <2>2, <2>3, <2>4, <2>5, <2>6
<1> QED BY <1>1, <1>2, <1>3 DEF Closes
LEMMA TryKeepsTake ==
  ASSUME TypeOK, TakeInv, Try
  PROVE  TakeInv'
<1> USE LockNames, ThreadsDiffer DEF TakeInv, ClosersWork, HelpersWork, CoordWorks,
      HistoryIsTrue, TakeHasStream, StreamIsOwned, WillClose, Stops, Opens, OnDemand, TypeOK,
      At, Free, Goto, Call, Return, Lock, Unlock, Returns, audio, mute, gens, cfg, ghost
<1>1. CASE TryLocks
  <2>1. ClosersWork'
    BY <1>1 DEF TryLocks
  <2>2. HelpersWork'
    BY <1>1 DEF TryLocks
  <2>3. CoordWorks'
    BY <1>1 DEF TryLocks
  <2>4. HistoryIsTrue'
    BY <1>1 DEF TryLocks
  <2>5. TakeHasStream'
    BY <1>1 DEF TryLocks
  <2>6. StreamIsOwned'
    BY <1>1 DEF TryLocks
  <2> QED BY <2>1, <2>2, <2>3, <2>4, <2>5, <2>6
<1>2. CASE TryRefused
  <2>1. ClosersWork'
    BY <1>2 DEF TryRefused
  <2>2. HelpersWork'
    BY <1>2 DEF TryRefused
  <2>3. CoordWorks'
    BY <1>2 DEF TryRefused
  <2>4. HistoryIsTrue'
    BY <1>2 DEF TryRefused
  <2>5. TakeHasStream'
    BY <1>2 DEF TryRefused
  <2>6. StreamIsOwned'
    BY <1>2 DEF TryRefused
  <2> QED BY <2>1, <2>2, <2>3, <2>4, <2>5, <2>6
<1>3. CASE TryOpens
  <2>1. ClosersWork'
    BY <1>3 DEF TryOpens
  <2>2. HelpersWork'
    BY <1>3 DEF TryOpens
  <2>3. CoordWorks'
    BY <1>3 DEF TryOpens
  <2>4. HistoryIsTrue'
    BY <1>3 DEF TryOpens
  <2>5. TakeHasStream'
    <3>1. UNCHANGED <<state, isOpen, streaming, capturing>> /\ state = "Idle"
      BY <1>3 DEF TryOpens
    <3>2. pc'["coord"] = "open1" \/ (pc'["coord"] = "try3" /\ ~OnDemand)
      BY <1>3 DEF TryOpens
    <3>3. ~OnDemand /\ ~isOpen => saved'
      BY <1>3, Zenon DEF TryOpens
    <3> QED BY <3>1, <3>2, <3>3
  <2>6. StreamIsOwned'
    BY <1>3 DEF TryOpens
  <2> QED BY <2>1, <2>2, <2>3, <2>4, <2>5, <2>6
<1>4. CASE TryStarts
  <2>1. ClosersWork'
    BY <1>4 DEF TryStarts
  <2>2. HelpersWork'
    BY <1>4 DEF TryStarts
  <2>3. CoordWorks'
    BY <1>4 DEF TryStarts
  <2>4. HistoryIsTrue'
    BY <1>4 DEF TryStarts
  <2>5. TakeHasStream'
    BY <1>4 DEF TryStarts
  <2>6. StreamIsOwned'
    BY <1>4 DEF TryStarts
  <2> QED BY <2>1, <2>2, <2>3, <2>4, <2>5, <2>6
<1>5. CASE TryCannotStart
  <2>1. ClosersWork'
    BY <1>5 DEF TryCannotStart
  <2>2. HelpersWork'
    BY <1>5 DEF TryCannotStart
  <2>3. CoordWorks'
    BY <1>5 DEF TryCannotStart
  <2>4. HistoryIsTrue'
    BY <1>5 DEF TryCannotStart
  <2>5. TakeHasStream'
    BY <1>5 DEF TryCannotStart
  <2>6. StreamIsOwned'
    BY <1>5 DEF TryCannotStart
  <2> QED BY <2>1, <2>2, <2>3, <2>4, <2>5, <2>6
<1>6. CASE TryPublishes
  <2>1. ClosersWork'
    BY <1>6 DEF TryPublishes
  <2>2. HelpersWork'
    BY <1>6 DEF TryPublishes
  <2>3. CoordWorks'
    BY <1>6 DEF TryPublishes
  <2>4. HistoryIsTrue'
    BY <1>6 DEF TryPublishes
  <2>5. TakeHasStream'
    BY <1>6 DEF TryPublishes
  <2>6. StreamIsOwned'
    BY <1>6 DEF TryPublishes
  <2> QED BY <2>1, <2>2, <2>3, <2>4, <2>5, <2>6
<1>7. CASE TryFails
  <2>1. ClosersWork'
    BY <1>7 DEF TryFails
  <2>2. HelpersWork'
    BY <1>7 DEF TryFails
  <2>3. CoordWorks'
    BY <1>7 DEF TryFails
  <2>4. HistoryIsTrue'
    BY <1>7 DEF TryFails
  <2>5. TakeHasStream'
    BY <1>7 DEF TryFails
  <2>6. StreamIsOwned'
    BY <1>7 DEF TryFails
  <2> QED BY <2>1, <2>2, <2>3, <2>4, <2>5, <2>6
<1> QED BY <1>1, <1>2, <1>3, <1>4, <1>5, <1>6, <1>7 DEF Try

LEMMA EndKeepsTake ==
  ASSUME TypeOK, TakeInv, End
  PROVE  TakeInv'
<1> USE LockNames, ThreadsDiffer DEF TakeInv, ClosersWork, HelpersWork, CoordWorks,
      HistoryIsTrue, TakeHasStream, StreamIsOwned, WillClose, Stops, Opens, OnDemand, TypeOK,
      At, Free, Goto, Call, Return, Lock, Unlock, Returns, audio, mute, gens, cfg, ghost,
      ScheduleClose
<1>1. CASE EndClaims
  <2>1. ClosersWork'
    BY <1>1 DEF EndClaims
  <2>2. HelpersWork'
    BY <1>1 DEF EndClaims
  <2>3. CoordWorks'
    BY <1>1 DEF EndClaims
  <2>4. HistoryIsTrue'
    BY <1>1 DEF EndClaims
  <2>5. TakeHasStream'
    BY <1>1 DEF EndClaims
  <2>6. StreamIsOwned'
    BY <1>1 DEF EndClaims
  <2> QED BY <2>1, <2>2, <2>3, <2>4, <2>5, <2>6
<1>2. CASE EndStopsPreview
  <2>1. ClosersWork'
    BY <1>2 DEF EndStopsPreview
  <2>2. HelpersWork'
    BY <1>2 DEF EndStopsPreview
  <2>3. CoordWorks'
    BY <1>2 DEF EndStopsPreview
  <2>4. HistoryIsTrue'
    BY <1>2 DEF EndStopsPreview
  <2>5. TakeHasStream'
    BY <1>2 DEF EndStopsPreview
  <2>6. StreamIsOwned'
    BY <1>2 DEF EndStopsPreview
  <2> QED BY <2>1, <2>2, <2>3, <2>4, <2>5, <2>6
<1>3. CASE EndStopsCapture
  <2>1. ClosersWork'
    BY <1>3 DEF EndStopsCapture
  <2>2. HelpersWork'
    BY <1>3 DEF EndStopsCapture
  <2>3. CoordWorks'
    BY <1>3 DEF EndStopsCapture
  <2>4. HistoryIsTrue'
    BY <1>3 DEF EndStopsCapture
  <2>5. TakeHasStream'
    BY <1>3 DEF EndStopsCapture
  <2>6. StreamIsOwned'
    BY <1>3 DEF EndStopsCapture
  <2> QED BY <2>1, <2>2, <2>3, <2>4, <2>5, <2>6
<1>4. CASE EndReleases
  <2>1. ClosersWork'
    BY <1>4 DEF EndReleases
  <2>2. HelpersWork'
    BY <1>4 DEF EndReleases
  <2>3. CoordWorks'
    BY <1>4 DEF EndReleases
  <2>4. HistoryIsTrue'
    BY <1>4 DEF EndReleases
  <2>5. TakeHasStream'
    BY <1>4 DEF EndReleases
  <2>6. StreamIsOwned'
    BY <1>4 DEF EndReleases
  <2> QED BY <2>1, <2>2, <2>3, <2>4, <2>5, <2>6
<1> QED BY <1>1, <1>2, <1>3, <1>4 DEF End

LEMMA SettingsKeepTake ==
  ASSUME TypeOK, TakeInv, Settings
  PROVE  TakeInv'
<1> USE LockNames, ThreadsDiffer DEF TakeInv, ClosersWork, HelpersWork, CoordWorks,
      HistoryIsTrue, TakeHasStream, StreamIsOwned, WillClose, Stops, Opens, OnDemand, TypeOK,
      At, Free, Goto, Call, Return, Lock, Unlock, Returns, audio, mute, gens, cfg, ghost,
      SupersedeAndCall
<1>1. CASE UpdateMode
  <2>1. ClosersWork'
    BY <1>1 DEF UpdateMode
  <2>2. HelpersWork'
    BY <1>1 DEF UpdateMode
  <2>3. CoordWorks'
    BY <1>1 DEF UpdateMode
  <2>4. HistoryIsTrue'
    BY <1>1 DEF UpdateMode
  <2>5. TakeHasStream'
    BY <1>1 DEF UpdateMode
  <2>6. StreamIsOwned'
    BY <1>1 DEF UpdateMode
  <2> QED BY <2>1, <2>2, <2>3, <2>4, <2>5, <2>6
<1>2. CASE ModeIsSet
  <2>1. ClosersWork'
    BY <1>2 DEF ModeIsSet
  <2>2. HelpersWork'
    BY <1>2 DEF ModeIsSet
  <2>3. CoordWorks'
    BY <1>2 DEF ModeIsSet
  <2>4. HistoryIsTrue'
    BY <1>2 DEF ModeIsSet
  <2>5. TakeHasStream'
    BY <1>2 DEF ModeIsSet
  <2>6. StreamIsOwned'
    BY <1>2 DEF ModeIsSet
  <2> QED BY <2>1, <2>2, <2>3, <2>4, <2>5, <2>6
<1>3. CASE Arm
  <2>1. ClosersWork'
    BY <1>3 DEF Arm
  <2>2. HelpersWork'
    BY <1>3 DEF Arm
  <2>3. CoordWorks'
    BY <1>3 DEF Arm
  <2>4. HistoryIsTrue'
    BY <1>3 DEF Arm
  <2>5. TakeHasStream'
    BY <1>3 DEF Arm
  <2>6. StreamIsOwned'
    BY <1>3 DEF Arm
  <2> QED BY <2>1, <2>2, <2>3, <2>4, <2>5, <2>6
<1>4. CASE Disarm
  <2>1. ClosersWork'
    BY <1>4 DEF Disarm
  <2>2. HelpersWork'
    BY <1>4 DEF Disarm
  <2>3. CoordWorks'
    BY <1>4 DEF Disarm
  <2>4. HistoryIsTrue'
    BY <1>4 DEF Disarm
  <2>5. TakeHasStream'
    BY <1>4 DEF Disarm
  <2>6. StreamIsOwned'
    BY <1>4 DEF Disarm
  <2> QED BY <2>1, <2>2, <2>3, <2>4, <2>5, <2>6
<1>5. CASE ReopenDevice
  <2>1. ClosersWork'
    BY <1>5 DEF ReopenDevice
  <2>2. HelpersWork'
    BY <1>5 DEF ReopenDevice
  <2>3. CoordWorks'
    BY <1>5 DEF ReopenDevice
  <2>4. HistoryIsTrue'
    BY <1>5 DEF ReopenDevice
  <2>5. TakeHasStream'
    BY <1>5 DEF ReopenDevice
  <2>6. StreamIsOwned'
    BY <1>5 DEF ReopenDevice
  <2> QED BY <2>1, <2>2, <2>3, <2>4, <2>5, <2>6
<1>6. CASE DeviceClosed
  <2>1. ClosersWork'
    BY <1>6 DEF DeviceClosed
  <2>2. HelpersWork'
    BY <1>6 DEF DeviceClosed
  <2>3. CoordWorks'
    BY <1>6 DEF DeviceClosed
  <2>4. HistoryIsTrue'
    BY <1>6 DEF DeviceClosed
  <2>5. TakeHasStream'
    BY <1>6 DEF DeviceClosed
  <2>6. StreamIsOwned'
    BY <1>6 DEF DeviceClosed
  <2> QED BY <2>1, <2>2, <2>3, <2>4, <2>5, <2>6
<1> QED BY <1>1, <1>2, <1>3, <1>4, <1>5, <1>6 DEF Settings

LEMMA EnvironmentKeepsTake ==
  ASSUME TypeOK, TakeInv, Environment \/ MuterDecides
  PROVE  TakeInv'
<1> USE LockNames, ThreadsDiffer DEF TakeInv, ClosersWork, HelpersWork, CoordWorks,
      HistoryIsTrue, TakeHasStream, StreamIsOwned, WillClose, Stops, Opens, OnDemand, TypeOK,
      At, Free, Goto, Call, Return, Lock, Unlock, Returns, audio, mute, gens, cfg, ghost
<1>1. CASE Press
  <2>1. ClosersWork'
    BY <1>1 DEF Press
  <2>2. HelpersWork'
    BY <1>1 DEF Press
  <2>3. CoordWorks'
    BY <1>1 DEF Press
  <2>4. HistoryIsTrue'
    BY <1>1 DEF Press
  <2>5. TakeHasStream'
    BY <1>1 DEF Press
  <2>6. StreamIsOwned'
    BY <1>1 DEF Press
  <2> QED BY <2>1, <2>2, <2>3, <2>4, <2>5, <2>6
<1>2. CASE Release
  <2>1. ClosersWork'
    BY <1>2 DEF Release
  <2>2. HelpersWork'
    BY <1>2 DEF Release
  <2>3. CoordWorks'
    BY <1>2 DEF Release
  <2>4. HistoryIsTrue'
    BY <1>2 DEF Release
  <2>5. TakeHasStream'
    BY <1>2 DEF Release
  <2>6. StreamIsOwned'
    BY <1>2 DEF Release
  <2> QED BY <2>1, <2>2, <2>3, <2>4, <2>5, <2>6
<1>3. CASE Cancel
  <2>1. ClosersWork'
    BY <1>3 DEF Cancel
  <2>2. HelpersWork'
    BY <1>3 DEF Cancel
  <2>3. CoordWorks'
    BY <1>3 DEF Cancel
  <2>4. HistoryIsTrue'
    BY <1>3 DEF Cancel
  <2>5. TakeHasStream'
    BY <1>3 DEF Cancel
  <2>6. StreamIsOwned'
    BY <1>3 DEF Cancel
  <2> QED BY <2>1, <2>2, <2>3, <2>4, <2>5, <2>6
<1>4. CASE FirstFrame
  <2>1. ClosersWork'
    BY <1>4 DEF FirstFrame
  <2>2. HelpersWork'
    BY <1>4 DEF FirstFrame
  <2>3. CoordWorks'
    BY <1>4 DEF FirstFrame
  <2>4. HistoryIsTrue'
    BY <1>4 DEF FirstFrame
  <2>5. TakeHasStream'
    BY <1>4 DEF FirstFrame
  <2>6. StreamIsOwned'
    BY <1>4 DEF FirstFrame
  <2> QED BY <2>1, <2>2, <2>3, <2>4, <2>5, <2>6
<1>5. CASE SavePolicy
  <2>1. ClosersWork'
    BY <1>5 DEF SavePolicy, Save
  <2>2. HelpersWork'
    BY <1>5 DEF SavePolicy, Save
  <2>3. CoordWorks'
    BY <1>5 DEF SavePolicy, Save
  <2>4. HistoryIsTrue'
    BY <1>5 DEF SavePolicy, Save
  <2>5. TakeHasStream'
    BY <1>5 DEF SavePolicy, Save
  <2>6. StreamIsOwned'
    BY <1>5 DEF SavePolicy, Save
  <2> QED BY <2>1, <2>2, <2>3, <2>4, <2>5, <2>6
<1>6. CASE SaveWake
  <2>1. ClosersWork'
    BY <1>6 DEF SaveWake, Save
  <2>2. HelpersWork'
    BY <1>6 DEF SaveWake, Save
  <2>3. CoordWorks'
    BY <1>6 DEF SaveWake, Save
  <2>4. HistoryIsTrue'
    BY <1>6 DEF SaveWake, Save
  <2>5. TakeHasStream'
    BY <1>6 DEF SaveWake, Save
  <2>6. StreamIsOwned'
    BY <1>6 DEF SaveWake, Save
  <2> QED BY <2>1, <2>2, <2>3, <2>4, <2>5, <2>6
<1>7. CASE SaveDevice
  <2>1. ClosersWork'
    BY <1>7 DEF SaveDevice, Save
  <2>2. HelpersWork'
    BY <1>7 DEF SaveDevice, Save
  <2>3. CoordWorks'
    BY <1>7 DEF SaveDevice, Save
  <2>4. HistoryIsTrue'
    BY <1>7 DEF SaveDevice, Save
  <2>5. TakeHasStream'
    BY <1>7 DEF SaveDevice, Save
  <2>6. StreamIsOwned'
    BY <1>7 DEF SaveDevice, Save
  <2> QED BY <2>1, <2>2, <2>3, <2>4, <2>5, <2>6
<1>8. CASE MuterDecides
  <2>1. ClosersWork'
    BY <1>8 DEF MuterDecides
  <2>2. HelpersWork'
    BY <1>8 DEF MuterDecides
  <2>3. CoordWorks'
    BY <1>8 DEF MuterDecides
  <2>4. HistoryIsTrue'
    BY <1>8 DEF MuterDecides
  <2>5. TakeHasStream'
    BY <1>8 DEF MuterDecides
  <2>6. StreamIsOwned'
    BY <1>8 DEF MuterDecides
  <2> QED BY <2>1, <2>2, <2>3, <2>4, <2>5, <2>6
<1> QED BY <1>1, <1>2, <1>3, <1>4, <1>5, <1>6, <1>7, <1>8 DEF Environment
LEMMA TakeInvHolds == TypeOK /\ MuteInv /\ TakeInv /\ [Next]_vars => TakeInv'
<1> SUFFICES ASSUME TypeOK, MuteInv, TakeInv, [Next]_vars
             PROVE  TakeInv'
  OBVIOUS
<1>1. CASE \E t \in Threads : Step(t)
  <2>1. PICK t \in Threads : Step(t)
    BY <1>1
  <2>2. CASE Stop(t) \/ Open(t) \/ Mute(t) \/ Cancels(t) \/ (t = "coord" /\ RemoveMute(t))
    BY <2>2, StopKeepsTake, OpenKeepsTake, MuteKeepsTake, CancelKeepsTake
  <2>3. CASE t \in Closers /\ Closes(t)
    BY <2>3, CloseKeepsTake
  <2>4. CASE Try \/ End \/ Settings \/ MuterDecides
    BY <2>4, TryKeepsTake, EndKeepsTake, SettingsKeepTake, EnvironmentKeepsTake
  <2> QED BY <2>1, <2>2, <2>3, <2>4 DEF Step
<1>2. CASE Environment
  BY <1>2, EnvironmentKeepsTake
<1>3. CASE UNCHANGED vars
  BY <1>3 DEF vars, audio, mute, gens, cfg, ghost, TakeInv, ClosersWork, HelpersWork,
     CoordWorks, HistoryIsTrue, TakeHasStream, StreamIsOwned, WillClose, OnDemand
<1> QED BY <1>1, <1>2, <1>3 DEF Next

LEMMA AllInvHolds ==
  TypeOK /\ MuteInv /\ TakeInv /\ [Next]_vars => (TypeOK /\ MuteInv /\ TakeInv)'
  BY TypesHold, MuteInvHolds, TakeInvHolds

\* A take that no cancel and no settings change disturbs has its stream open
\* and its audio recorded from the moment try_start_recording publishes it,
\* whatever close threads are still pending (UndisturbedTakeRecords).
THEOREM TakeRecords == Spec => []UndisturbedTakeRecords
<1>1. TakeInv => UndisturbedTakeRecords
  BY DEF TakeInv, TakeHasStream, UndisturbedTakeRecords
<1> QED BY <1>1, AllInvHolds, InitTypes, InitMute, InitTake, PTL DEF Spec

\* When every thread rests, the stream that the last take opened is closed:
\* no close is superseded, called off or passed over without another thread
\* that closes (schedule_close_when_idle, cancel_recording; MicComesHome).
THEOREM MicReturns == Spec => []MicComesHome
<1>1. TakeInv => MicComesHome
  BY DEF TakeInv, StreamIsOwned, WillClose, MicComesHome, AllRest, At, Stops, Opens, Threads
<1> QED BY <1>1, AllInvHolds, InitTypes, InitMute, InitTake, PTL DEF Spec

-----------------------------------------------------------------------------
(***************************************************************************)
(* The recorder manager implements TakeLife.  Only the coordinator begins  *)
(* and claims takes, so between its test of the state and its write of it  *)
(* nobody else can write more than Idle; and the stop that has claimed a   *)
(* take is the only step that finds it Stopping.                           *)
(***************************************************************************)
Stoppings == {"end2", "end3", "end4"}

\* A take is Stopping just while its stop is under way, and one that is about to
\* be published has been counted.
StopHasTake ==
  /\ pc["coord"] \in Stoppings <=> state = "Stopping"
  /\ pc["coord"] = "try4" => recGen > 0

\* The steps that leave the take alone, and the coordinator where it is or away
\* from the steps at which it has the take in hand.
Elsewhere ==
  /\ UNCHANGED <<state, recGen>>
  /\ \/ pc'["coord"] = pc["coord"]
     \/ {pc["coord"], pc'["coord"]} \cap (Stoppings \cup {"try4"}) = {}
     \/ pc["coord"] \in Stoppings /\ pc'["coord"] \in Stoppings

LEMMA ElsewhereStutters ==
  ASSUME StopHasTake, Elsewhere
  PROVE  StopHasTake' /\ UNCHANGED Life!vars
<1>1. pc'["coord"] \in Stoppings <=> pc["coord"] \in Stoppings
  BY DEF Elsewhere, Stoppings
<1>2. At("coord", "try4")' <=> At("coord", "try4")
  BY DEF Elsewhere, Stoppings, At
<1>3. Published' = Published
  BY <1>2 DEF Elsewhere, Published
<1>4. pc'["coord"] = "try4" <=> pc["coord"] = "try4"
  BY <1>2 DEF At
<1>5. StopHasTake'
  BY <1>1, <1>4 DEF Elsewhere, StopHasTake
<1>6. UNCHANGED Life!vars
  BY <1>1, <1>3 DEF Elsewhere, Life!vars, Stoppings
<1> QED BY <1>5, <1>6

\* Everybody but the take's own begin, stop and cancel.
LEMMA OthersStayElsewhere ==
  ASSUME TypeOK, NEW t \in Threads,
         \/ Stop(t) \/ Open(t) \/ Mute(t)
         \/ t \in Closers /\ Closes(t)
         \/ t = "coord" /\ RemoveMute(t)
         \/ Settings \/ MuterDecides
  PROVE  Elsewhere
<1> USE ThreadNames, ThreadsDiffer
    DEF Elsewhere, Stoppings, TypeOK, At, Goto, Call, Return, Returns, gens, SupersedeAndCall
<1>1. CASE Stop(t)
  BY <1>1 DEF Stop, StopLocksOpen, StopUnmutes, StopEndsCapture, StopClosesDevice
<1>2. CASE Open(t)
  BY <1>2 DEF Open, OpenLocksOpen, OpenForgetsMute, OpenOpensDevice
<1>3. CASE Mute(t)
  BY <1>3 DEF Mute, MuteLocks, MuteApplies
<1>4. CASE t \in Closers /\ Closes(t)
  BY <1>4 DEF Closes, CloserLocks, CloserDecides, CloserUnlocks
<1>5. CASE t = "coord" /\ RemoveMute(t)
  BY <1>5 DEF RemoveMute
<1>6. CASE Settings
  BY <1>6 DEF Settings, UpdateMode, ModeIsSet, Arm, Disarm, ReopenDevice, DeviceClosed
<1>7. CASE MuterDecides
  BY <1>7 DEF MuterDecides
<1> QED BY <1>1, <1>2, <1>3, <1>4, <1>5, <1>6, <1>7

LEMMA EnvironmentStaysElsewhere ==
  ASSUME TypeOK, Environment
  PROVE  Elsewhere
BY ThreadNames
   DEF Elsewhere, Stoppings, TypeOK, At, Goto, Call, Spend, gens, Environment, Press, Release,
   Cancel, FirstFrame, Save, SavePolicy, SaveWake, SaveDevice

LEMMA TryLives ==
  ASSUME TypeOK, CoordWorks, StopHasTake, Try
  PROVE  StopHasTake' /\ [Life!Next]_(Life!vars)
<1> USE ThreadNames DEF TypeOK, At, Goto, Call, Returns, gens, Stoppings
<1>1. CASE TryLocks \/ TryRefused \/ TryOpens \/ TryCannotStart \/ TryFails
  <2>1. Elsewhere
    BY <1>1 DEF TryLocks, TryRefused, TryOpens, TryCannotStart, TryFails, Elsewhere
  <2> QED BY <2>1, ElsewhereStutters
<1>2. CASE TryStarts
  <2>1. UNCHANGED <<state, Published>> /\ pc'["coord"] = "try4"
    BY <1>2 DEF TryStarts, Published
  <2>2. pc["coord"] = "try3"
    BY <1>2 DEF TryStarts
  <2>3. recGen' > 0
    BY <1>2 DEF TryStarts
  <2> QED BY <2>1, <2>2, <2>3 DEF StopHasTake, Life!vars
<1>3. CASE TryPublishes
  <2>1. state = "Idle"
    BY <1>3 DEF TryPublishes, CoordWorks, StopHasTake
  <2>2. state' = "Recording" /\ pc'["coord"] \in {"rest", "cancel1"}
    BY <1>3 DEF TryPublishes
  <2>3. Published' = Published + 1
    BY <1>3 DEF TryPublishes, Published
  <2>4. pc["coord"] = "try4"
    BY <1>3 DEF TryPublishes
  <2> QED BY <2>1, <2>2, <2>3, <2>4 DEF StopHasTake, Life!Next, Life!Begin
<1> QED BY <1>1, <1>2, <1>3 DEF Try

LEMMA EndLives ==
  ASSUME TypeOK, StopHasTake, End
  PROVE  StopHasTake' /\ [Life!Next]_(Life!vars)
<1> USE ThreadNames, ThreadsDiffer
    DEF TypeOK, At, Goto, Call, Returns, gens, Stoppings, ScheduleClose
<1>1. CASE EndStopsPreview \/ EndStopsCapture
  <2>1. Elsewhere
    BY <1>1 DEF EndStopsPreview, EndStopsCapture, Elsewhere
  <2> QED BY <2>1, ElsewhereStutters
<1>2. CASE EndClaims /\ state # "Recording"
  <2>1. Elsewhere
    BY <1>2 DEF EndClaims, Elsewhere
  <2> QED BY <2>1, ElsewhereStutters
<1>3. CASE EndClaims /\ state = "Recording"
  <2>1. state' = "Stopping" /\ pc["coord"] = "end1" /\ pc'["coord"] = "end2"
    BY <1>3 DEF EndClaims
  <2>2. Published' = Published
    BY <1>3 DEF EndClaims, Published
  <2> QED BY <1>3, <2>1, <2>2 DEF StopHasTake, Life!Next, Life!Claim
<1>4. CASE EndReleases
  <2>1. state = "Stopping" /\ state' = "Idle"
    BY <1>4 DEF EndReleases, StopHasTake
  <2>2. pc["coord"] = "end4" /\ pc'["coord"] = "unmute"
    BY <1>4 DEF EndReleases
  <2>3. Published' = Published
    BY <1>4, <2>2 DEF EndReleases, Published
  <2> QED BY <2>1, <2>2, <2>3 DEF StopHasTake, Life!Next, Life!Finish
<1> QED BY <1>1, <1>2, <1>3, <1>4 DEF End

LEMMA CancelLives ==
  ASSUME TypeOK, CoordWorks, StopHasTake, NEW t \in Threads, Cancels(t)
  PROVE  StopHasTake' /\ [Life!Next]_(Life!vars)
<1> USE ThreadNames, ThreadsDiffer
    DEF TypeOK, At, Goto, Call, Returns, gens, Stoppings, ScheduleClose
<1>1. CASE CancelClaims(t) /\ state = "Recording"
  <2>1. state' = "Idle" /\ recGen' = recGen
    BY <1>1 DEF CancelClaims
  <2>2. /\ pc["coord"] \notin Stoppings \cup {"try4"}
        /\ pc'["coord"] \notin Stoppings \cup {"try4"}
    BY <1>1 DEF CancelClaims, CoordWorks
  <2>3. Published' = Published
    BY <2>1, <2>2 DEF Published
  <2> QED BY <1>1, <2>1, <2>2, <2>3 DEF StopHasTake, Life!Next, Life!Discard
<1>2. CASE \/ CancelClaims(t) /\ state # "Recording"
           \/ CancelStopsCapture(t) \/ CancelReleases(t)
  <2>1. Elsewhere
    BY <1>2 DEF CancelClaims, CancelStopsCapture, CancelReleases, Elsewhere
  <2> QED BY <2>1, ElsewhereStutters
<1> QED BY <1>1, <1>2 DEF Cancels

LEMMA StepLives ==
  TypeOK /\ TakeInv /\ StopHasTake /\ [Next]_vars =>
    StopHasTake' /\ [Life!Next]_(Life!vars)
<1> SUFFICES ASSUME TypeOK, TakeInv, StopHasTake, [Next]_vars
             PROVE  StopHasTake' /\ [Life!Next]_(Life!vars)
  OBVIOUS
<1>1. CoordWorks
  BY DEF TakeInv
<1>2. CASE \E t \in Threads : Step(t)
  <2>1. PICK t \in Threads : Step(t)
    BY <1>2
  <2>2. CASE Cancels(t) \/ Try \/ End
    BY <1>1, <2>2, TryLives, EndLives, CancelLives
  <2>3. CASE \/ Stop(t) \/ Open(t) \/ Mute(t)
             \/ t \in Closers /\ Closes(t)
             \/ t = "coord" /\ RemoveMute(t)
             \/ Settings \/ MuterDecides
    BY <2>3, OthersStayElsewhere, ElsewhereStutters
  <2> QED BY <2>1, <2>2, <2>3 DEF Step
<1>3. CASE Environment
  BY <1>3, EnvironmentStaysElsewhere, ElsewhereStutters
<1>4. CASE UNCHANGED vars
  <2>1. Elsewhere
    BY <1>4 DEF vars, gens, Elsewhere
  <2> QED BY <2>1, ElsewhereStutters
<1> QED BY <1>2, <1>3, <1>4 DEF Next

LEMMA LifeBegins == Init => StopHasTake /\ Life!Init
<1> SUFFICES ASSUME Init PROVE StopHasTake /\ Life!Init
  OBVIOUS
<1>1. pc["coord"] = "rest" /\ state = "Idle" /\ recGen = 0
  BY ThreadNames DEF Init
<1> QED BY <1>1 DEF StopHasTake, Stoppings, Life!Init, Published, At

\* The recorder manager lives its takes as TakeLife says, for any number of
\* close threads, any policies and bounds: a take begins only when the one before
\* it has ended, and one end is all it gets (try_start_recording, stop_recording,
\* cancel_recording; KeepsTakeLife).
THEOREM MicLivesTakes == Spec => KeepsTakeLife
<1>1. TypeOK /\ MuteInv /\ TakeInv /\ StopHasTake /\ [Next]_vars =>
        /\ (TypeOK /\ MuteInv /\ TakeInv /\ StopHasTake)'
        /\ [Life!Next]_(Life!vars)
  BY AllInvHolds, StepLives
<1> QED
  BY <1>1, InitTypes, InitMute, InitTake, LifeBegins, PTL DEF Spec, KeepsTakeLife, Life!Spec

\* A take that has ended never records again, so that the mute worker and the
\* probes need to find their generation inactive only once
\* (is_active_recording_generation; EndsForGood of TakeLife).
THEOREM MicTakesEnd == Spec => Life!EndsForGood
<1>1. TypeOK /\ StopHasTake => Published \in Nat
  BY DEF TypeOK, StopHasTake, Published, At
<1>2. Published \in Nat /\ [Life!Next]_(Life!vars) =>
        [\A g \in 0 .. Published : ~ Life!Active(g) => ~ Life!Active(g)']_(Life!vars)
  BY DEF Life!Next, Life!Begin, Life!Claim, Life!Finish, Life!Abort, Life!Discard,
     Life!Active, Life!vars
<1>3. TypeOK /\ MuteInv /\ TakeInv /\ StopHasTake /\ [Next]_vars =>
        (TypeOK /\ MuteInv /\ TakeInv /\ StopHasTake)'
  BY AllInvHolds, StepLives
<1> QED
  BY <1>1, <1>2, <1>3, InitTypes, InitMute, InitTake, LifeBegins, MicLivesTakes, PTL
     DEF Spec, KeepsTakeLife, Life!Spec, Life!EndsForGood

-----------------------------------------------------------------------------
(***************************************************************************)
(* No deadlock.  LocksHeld says that a thread between lock and unlock has  *)
(* the lock; the converse, who can have a lock at all, is what makes every *)
(* wait end: recorder and state are taken in both orders, but only by the  *)
(* coordinator.                                                            *)
(***************************************************************************)

\* Who has a lock, and at which of its steps.
LifecycleHolder ==
  \/ held["lifecycle"] = Nobody
  \/ /\ held["lifecycle"] \in Closers
     /\ pc[held["lifecycle"]] \in {"close2", "close3"} \cup Stops
  \/ /\ held["lifecycle"] = "coord"
     /\ \/ pc["coord"] \in {"try2", "try3", "try4", "tryErr"} \cup Opens
        \/ pc["coord"] \in Stops /\ ret["coord"].ok = "tryErr"
StateHolder ==
  held["state"] = Nobody \/ (held["state"] = "coord" /\ pc["coord"] = "end2")
RecorderHolder ==
  held["recorder"] = Nobody \/ (held["recorder"] = "coord" /\ pc["coord"] = "try4")
StreamHolders ==
  /\ held["is_open"] = Nobody \/ pc[held["is_open"]] \in HoldsOpen
  /\ held["did_mute"] = Nobody \/ pc[held["did_mute"]] \in HoldsMute

HolderInv == LifecycleHolder /\ StateHolder /\ RecorderHolder /\ StreamHolders

LEMMA StopKeepsHolders ==
  ASSUME TypeOK, MuteInv, TakeInv, HolderInv, NEW t \in Threads, Stop(t)
  PROVE  HolderInv'
<1> USE LockNames, ThreadsDiffer DEF HolderInv, LifecycleHolder, StateHolder, RecorderHolder,
      StreamHolders, MuteInv, LocksHeld, TakeInv, ClosersWork, HelpersWork, CoordWorks,
      Stops, Opens, HoldsOpen, HoldsMute, TypeOK, At, Free, Goto, Call, Return, Lock, Unlock
<1>1. CASE StopLocksOpen(t)
  <2>1. LifecycleHolder'
    BY <1>1 DEF StopLocksOpen
  <2>2. StateHolder'
    BY <1>1 DEF StopLocksOpen
  <2>3. RecorderHolder'
    BY <1>1 DEF StopLocksOpen
  <2>4. StreamHolders'
    BY <1>1 DEF StopLocksOpen
  <2> QED BY <2>1, <2>2, <2>3, <2>4
<1>2. CASE StopUnmutes(t)
  <2>1. LifecycleHolder'
    BY <1>2 DEF StopUnmutes
  <2>2. StateHolder'
    BY <1>2 DEF StopUnmutes
  <2>3. RecorderHolder'
    BY <1>2 DEF StopUnmutes
  <2>4. StreamHolders'
    BY <1>2 DEF StopUnmutes
  <2> QED BY <2>1, <2>2, <2>3, <2>4
<1>3. CASE StopEndsCapture(t)
  <2>1. LifecycleHolder'
    BY <1>3 DEF StopEndsCapture
  <2>2. StateHolder'
    BY <1>3 DEF StopEndsCapture
  <2>3. RecorderHolder'
    BY <1>3 DEF StopEndsCapture
  <2>4. StreamHolders'
    BY <1>3 DEF StopEndsCapture
  <2> QED BY <2>1, <2>2, <2>3, <2>4
<1>4. CASE StopClosesDevice(t)
  <2>1. LifecycleHolder'
    BY <1>4 DEF StopClosesDevice
  <2>2. StateHolder'
    BY <1>4 DEF StopClosesDevice
  <2>3. RecorderHolder'
    BY <1>4 DEF StopClosesDevice
  <2>4. StreamHolders'
    BY <1>4 DEF StopClosesDevice
  <2> QED BY <2>1, <2>2, <2>3, <2>4
<1> QED BY <1>1, <1>2, <1>3, <1>4 DEF Stop

LEMMA OpenKeepsHolders ==
  ASSUME TypeOK, MuteInv, TakeInv, HolderInv, NEW t \in Threads, Open(t)
  PROVE  HolderInv'
<1> USE LockNames, ThreadsDiffer DEF HolderInv, LifecycleHolder, StateHolder, RecorderHolder,
      StreamHolders, MuteInv, LocksHeld, TakeInv, ClosersWork, HelpersWork, CoordWorks,
      Stops, Opens, HoldsOpen, HoldsMute, TypeOK, At, Free, Goto, Call, Return, Lock, Unlock
<1>1. CASE OpenLocksOpen(t)
  <2>1. LifecycleHolder'
    BY <1>1 DEF OpenLocksOpen
  <2>2. StateHolder'
    BY <1>1 DEF OpenLocksOpen
  <2>3. RecorderHolder'
    BY <1>1 DEF OpenLocksOpen
  <2>4. StreamHolders'
    BY <1>1 DEF OpenLocksOpen
  <2> QED BY <2>1, <2>2, <2>3, <2>4
<1>2. CASE OpenForgetsMute(t)
  <2>1. LifecycleHolder'
    BY <1>2 DEF OpenForgetsMute
  <2>2. StateHolder'
    BY <1>2 DEF OpenForgetsMute
  <2>3. RecorderHolder'
    BY <1>2 DEF OpenForgetsMute
  <2>4. StreamHolders'
    BY <1>2 DEF OpenForgetsMute
  <2> QED BY <2>1, <2>2, <2>3, <2>4
<1>3. CASE OpenOpensDevice(t)
  <2>1. LifecycleHolder'
    BY <1>3 DEF OpenOpensDevice
  <2>2. StateHolder'
    BY <1>3 DEF OpenOpensDevice
  <2>3. RecorderHolder'
    BY <1>3 DEF OpenOpensDevice
  <2>4. StreamHolders'
    BY <1>3 DEF OpenOpensDevice
  <2> QED BY <2>1, <2>2, <2>3, <2>4
<1> QED BY <1>1, <1>2, <1>3 DEF Open

LEMMA MuteKeepsHolders ==
  ASSUME TypeOK, MuteInv, TakeInv, HolderInv, NEW t \in Threads, Mute(t) \/ (t = "coord" /\ RemoveMute(t))
  PROVE  HolderInv'
<1> USE LockNames, ThreadsDiffer DEF HolderInv, LifecycleHolder, StateHolder, RecorderHolder,
      StreamHolders, MuteInv, LocksHeld, TakeInv, ClosersWork, HelpersWork, CoordWorks,
      Stops, Opens, HoldsOpen, HoldsMute, TypeOK, At, Free, Goto, Call, Return, Lock, Unlock
<1>1. CASE MuteLocks(t)
  <2>1. LifecycleHolder'
    BY <1>1 DEF MuteLocks, MuteOrder
  <2>2. StateHolder'
    BY <1>1 DEF MuteLocks, MuteOrder
  <2>3. RecorderHolder'
    BY <1>1 DEF MuteLocks, MuteOrder
  <2>4. StreamHolders'
    BY <1>1 DEF MuteLocks, MuteOrder
  <2> QED BY <2>1, <2>2, <2>3, <2>4
<1>2. CASE MuteApplies(t)
  <2>1. LifecycleHolder'
    BY <1>2 DEF MuteApplies, MuteOrder
  <2>2. StateHolder'
    BY <1>2 DEF MuteApplies, MuteOrder
  <2>3. RecorderHolder'
    BY <1>2 DEF MuteApplies, MuteOrder
  <2>4. StreamHolders'
    BY <1>2 DEF MuteApplies, MuteOrder
  <2> QED BY <2>1, <2>2, <2>3, <2>4
<1>3. CASE t = "coord" /\ RemoveMute(t)
  <2>1. LifecycleHolder'
    BY <1>3 DEF RemoveMute
  <2>2. StateHolder'
    BY <1>3 DEF RemoveMute
  <2>3. RecorderHolder'
    BY <1>3 DEF RemoveMute
  <2>4. StreamHolders'
    BY <1>3 DEF RemoveMute
  <2> QED BY <2>1, <2>2, <2>3, <2>4
<1> QED BY <1>1, <1>2, <1>3 DEF Mute

LEMMA CancelKeepsHolders ==
  ASSUME TypeOK, MuteInv, TakeInv, HolderInv, NEW t \in Threads, Cancels(t)
  PROVE  HolderInv'
<1> USE LockNames, ThreadsDiffer DEF HolderInv, LifecycleHolder, StateHolder, RecorderHolder,
      StreamHolders, MuteInv, LocksHeld, TakeInv, ClosersWork, HelpersWork, CoordWorks,
      Stops, Opens, HoldsOpen, HoldsMute, TypeOK, At, Free, Goto, Call, Return, Lock, Unlock
<1>1. CASE CancelClaims(t)
  <2>1. LifecycleHolder'
    BY <1>1 DEF CancelClaims
  <2>2. StateHolder'
    BY <1>1 DEF CancelClaims
  <2>3. RecorderHolder'
    BY <1>1 DEF CancelClaims
  <2>4. StreamHolders'
    BY <1>1 DEF CancelClaims
  <2> QED BY <2>1, <2>2, <2>3, <2>4
<1>2. CASE CancelStopsCapture(t)
  <2>1. LifecycleHolder'
    BY <1>2 DEF CancelStopsCapture
  <2>2. StateHolder'
    BY <1>2 DEF CancelStopsCapture
  <2>3. RecorderHolder'
    BY <1>2 DEF CancelStopsCapture
  <2>4. StreamHolders'
    BY <1>2 DEF CancelStopsCapture
  <2> QED BY <2>1, <2>2, <2>3, <2>4
<1>3. CASE CancelReleases(t)
  <2>1. LifecycleHolder'
    BY <1>3 DEF CancelReleases, ScheduleClose
  <2>2. StateHolder'
    BY <1>3 DEF CancelReleases, ScheduleClose
  <2>3. RecorderHolder'
    BY <1>3 DEF CancelReleases, ScheduleClose
  <2>4. StreamHolders'
    BY <1>3 DEF CancelReleases, ScheduleClose
  <2> QED BY <2>1, <2>2, <2>3, <2>4
<1> QED BY <1>1, <1>2, <1>3 DEF Cancels

LEMMA CloseKeepsHolders ==
  ASSUME TypeOK, MuteInv, TakeInv, HolderInv, NEW t \in Closers, Closes(t)
  PROVE  HolderInv'
<1> USE LockNames, ThreadsDiffer DEF HolderInv, LifecycleHolder, StateHolder, RecorderHolder,
      StreamHolders, MuteInv, LocksHeld, TakeInv, ClosersWork, HelpersWork, CoordWorks,
      Stops, Opens, HoldsOpen, HoldsMute, TypeOK, At, Free, Goto, Call, Return, Lock, Unlock
<1>1. CASE CloserLocks(t)
  <2>1. LifecycleHolder'
    BY <1>1 DEF CloserLocks
  <2>2. StateHolder'
    BY <1>1 DEF CloserLocks
  <2>3. RecorderHolder'
    BY <1>1 DEF CloserLocks
  <2>4. StreamHolders'
    BY <1>1 DEF CloserLocks
  <2> QED BY <2>1, <2>2, <2>3, <2>4
<1>2. CASE CloserDecides(t)
  <2>1. LifecycleHolder'
    BY <1>2 DEF CloserDecides
  <2>2. StateHolder'
    BY <1>2 DEF CloserDecides
  <2>3. RecorderHolder'
    BY <1>2 DEF CloserDecides
  <2>4. StreamHolders'
    BY <1>2 DEF CloserDecides
  <2> QED BY <2>1, <2>2, <2>3, <2>4
<1>3. CASE CloserUnlocks(t)
  <2>1. LifecycleHolder'
    BY <1>3 DEF CloserUnlocks
  <2>2. StateHolder'
    BY <1>3 DEF CloserUnlocks
  <2>3. RecorderHolder'
    BY <1>3 DEF CloserUnlocks
  <2>4. StreamHolders'
    BY <1>3 DEF CloserUnlocks
  <2> QED BY <2>1, <2>2, <2>3, <2>4
<1> QED BY <1>1, <1>2, <1>3 DEF Closes

LEMMA TryKeepsHolders ==
  ASSUME TypeOK, MuteInv, TakeInv, HolderInv, Try
  PROVE  HolderInv'
<1> USE LockNames, ThreadsDiffer DEF HolderInv, LifecycleHolder, StateHolder, RecorderHolder,
      StreamHolders, MuteInv, LocksHeld, TakeInv, ClosersWork, HelpersWork, CoordWorks,
      Stops, Opens, HoldsOpen, HoldsMute, TypeOK, At, Free, Goto, Call, Return, Lock, Unlock
<1>1. CASE TryLocks
  <2>1. LifecycleHolder'
    BY <1>1 DEF TryLocks
  <2>2. StateHolder'
    BY <1>1 DEF TryLocks
  <2>3. RecorderHolder'
    BY <1>1 DEF TryLocks
  <2>4. StreamHolders'
    BY <1>1 DEF TryLocks
  <2> QED BY <2>1, <2>2, <2>3, <2>4
<1>2. CASE TryRefused
  <2>1. LifecycleHolder'
    BY <1>2 DEF TryRefused
  <2>2. StateHolder'
    BY <1>2 DEF TryRefused
  <2>3. RecorderHolder'
    BY <1>2 DEF TryRefused
  <2>4. StreamHolders'
    BY <1>2 DEF TryRefused
  <2> QED BY <2>1, <2>2, <2>3, <2>4
<1>3. CASE TryOpens
  <2>1. LifecycleHolder'
    BY <1>3 DEF TryOpens
  <2>2. StateHolder'
    BY <1>3 DEF TryOpens
  <2>3. RecorderHolder'
    BY <1>3 DEF TryOpens
  <2>4. StreamHolders'
    BY <1>3 DEF TryOpens
  <2> QED BY <2>1, <2>2, <2>3, <2>4
<1>4. CASE TryStarts
  <2>1. LifecycleHolder'
    BY <1>4 DEF TryStarts
  <2>2. StateHolder'
    BY <1>4 DEF TryStarts
  <2>3. RecorderHolder'
    BY <1>4 DEF TryStarts
  <2>4. StreamHolders'
    BY <1>4 DEF TryStarts
  <2> QED BY <2>1, <2>2, <2>3, <2>4
<1>5. CASE TryCannotStart
  <2>1. LifecycleHolder'
    BY <1>5 DEF TryCannotStart
  <2>2. StateHolder'
    BY <1>5 DEF TryCannotStart
  <2>3. RecorderHolder'
    BY <1>5 DEF TryCannotStart
  <2>4. StreamHolders'
    BY <1>5 DEF TryCannotStart
  <2> QED BY <2>1, <2>2, <2>3, <2>4
<1>6. CASE TryPublishes
  <2>1. LifecycleHolder'
    BY <1>6 DEF TryPublishes
  <2>2. StateHolder'
    BY <1>6 DEF TryPublishes
  <2>3. RecorderHolder'
    BY <1>6 DEF TryPublishes
  <2>4. StreamHolders'
    BY <1>6 DEF TryPublishes
  <2> QED BY <2>1, <2>2, <2>3, <2>4
<1>7. CASE TryFails
  <2>1. LifecycleHolder'
    BY <1>7 DEF TryFails
  <2>2. StateHolder'
    BY <1>7 DEF TryFails
  <2>3. RecorderHolder'
    BY <1>7 DEF TryFails
  <2>4. StreamHolders'
    BY <1>7 DEF TryFails
  <2> QED BY <2>1, <2>2, <2>3, <2>4
<1> QED BY <1>1, <1>2, <1>3, <1>4, <1>5, <1>6, <1>7 DEF Try

LEMMA EndKeepsHolders ==
  ASSUME TypeOK, MuteInv, TakeInv, HolderInv, End
  PROVE  HolderInv'
<1> USE LockNames, ThreadsDiffer DEF HolderInv, LifecycleHolder, StateHolder, RecorderHolder,
      StreamHolders, MuteInv, LocksHeld, TakeInv, ClosersWork, HelpersWork, CoordWorks,
      Stops, Opens, HoldsOpen, HoldsMute, TypeOK, At, Free, Goto, Call, Return, Lock, Unlock
<1>1. CASE EndClaims
  <2>1. LifecycleHolder'
    BY <1>1 DEF EndClaims
  <2>2. StateHolder'
    BY <1>1 DEF EndClaims
  <2>3. RecorderHolder'
    BY <1>1 DEF EndClaims
  <2>4. StreamHolders'
    BY <1>1 DEF EndClaims
  <2> QED BY <2>1, <2>2, <2>3, <2>4
<1>2. CASE EndStopsPreview
  <2>1. LifecycleHolder'
    BY <1>2 DEF EndStopsPreview
  <2>2. StateHolder'
    BY <1>2 DEF EndStopsPreview
  <2>3. RecorderHolder'
    BY <1>2 DEF EndStopsPreview
  <2>4. StreamHolders'
    BY <1>2 DEF EndStopsPreview
  <2> QED BY <2>1, <2>2, <2>3, <2>4
<1>3. CASE EndStopsCapture
  <2>1. LifecycleHolder'
    BY <1>3 DEF EndStopsCapture
  <2>2. StateHolder'
    BY <1>3 DEF EndStopsCapture
  <2>3. RecorderHolder'
    BY <1>3 DEF EndStopsCapture
  <2>4. StreamHolders'
    BY <1>3 DEF EndStopsCapture
  <2> QED BY <2>1, <2>2, <2>3, <2>4
<1>4. CASE EndReleases
  <2>1. LifecycleHolder'
    BY <1>4 DEF EndReleases, ScheduleClose
  <2>2. StateHolder'
    BY <1>4 DEF EndReleases, ScheduleClose
  <2>3. RecorderHolder'
    BY <1>4 DEF EndReleases, ScheduleClose
  <2>4. StreamHolders'
    BY <1>4 DEF EndReleases, ScheduleClose
  <2> QED BY <2>1, <2>2, <2>3, <2>4
<1> QED BY <1>1, <1>2, <1>3, <1>4 DEF End

LEMMA SettingsKeepHolders ==
  ASSUME TypeOK, MuteInv, TakeInv, HolderInv, Settings
  PROVE  HolderInv'
<1> USE LockNames, ThreadsDiffer DEF HolderInv, LifecycleHolder, StateHolder, RecorderHolder,
      StreamHolders, MuteInv, LocksHeld, TakeInv, ClosersWork, HelpersWork, CoordWorks,
      Stops, Opens, HoldsOpen, HoldsMute, TypeOK, At, Free, Goto, Call, Return, Lock, Unlock
<1>1. CASE UpdateMode
  <2>1. LifecycleHolder'
    BY <1>1 DEF UpdateMode, SupersedeAndCall
  <2>2. StateHolder'
    BY <1>1 DEF UpdateMode, SupersedeAndCall
  <2>3. RecorderHolder'
    BY <1>1 DEF UpdateMode, SupersedeAndCall
  <2>4. StreamHolders'
    BY <1>1 DEF UpdateMode, SupersedeAndCall
  <2> QED BY <2>1, <2>2, <2>3, <2>4
<1>2. CASE ModeIsSet
  <2>1. LifecycleHolder'
    BY <1>2 DEF ModeIsSet
  <2>2. StateHolder'
    BY <1>2 DEF ModeIsSet
  <2>3. RecorderHolder'
    BY <1>2 DEF ModeIsSet
  <2>4. StreamHolders'
    BY <1>2 DEF ModeIsSet
  <2> QED BY <2>1, <2>2, <2>3, <2>4
<1>3. CASE Arm
  <2>1. LifecycleHolder'
    BY <1>3 DEF Arm, SupersedeAndCall
  <2>2. StateHolder'
    BY <1>3 DEF Arm, SupersedeAndCall
  <2>3. RecorderHolder'
    BY <1>3 DEF Arm, SupersedeAndCall
  <2>4. StreamHolders'
    BY <1>3 DEF Arm, SupersedeAndCall
  <2> QED BY <2>1, <2>2, <2>3, <2>4
<1>4. CASE Disarm
  <2>1. LifecycleHolder'
    BY <1>4 DEF Disarm, SupersedeAndCall
  <2>2. StateHolder'
    BY <1>4 DEF Disarm, SupersedeAndCall
  <2>3. RecorderHolder'
    BY <1>4 DEF Disarm, SupersedeAndCall
  <2>4. StreamHolders'
    BY <1>4 DEF Disarm, SupersedeAndCall
  <2> QED BY <2>1, <2>2, <2>3, <2>4
<1>5. CASE ReopenDevice
  <2>1. LifecycleHolder'
    BY <1>5 DEF ReopenDevice, SupersedeAndCall
  <2>2. StateHolder'
    BY <1>5 DEF ReopenDevice, SupersedeAndCall
  <2>3. RecorderHolder'
    BY <1>5 DEF ReopenDevice, SupersedeAndCall
  <2>4. StreamHolders'
    BY <1>5 DEF ReopenDevice, SupersedeAndCall
  <2> QED BY <2>1, <2>2, <2>3, <2>4
<1>6. CASE DeviceClosed
  <2>1. LifecycleHolder'
    BY <1>6 DEF DeviceClosed
  <2>2. StateHolder'
    BY <1>6 DEF DeviceClosed
  <2>3. RecorderHolder'
    BY <1>6 DEF DeviceClosed
  <2>4. StreamHolders'
    BY <1>6 DEF DeviceClosed
  <2> QED BY <2>1, <2>2, <2>3, <2>4
<1> QED BY <1>1, <1>2, <1>3, <1>4, <1>5, <1>6 DEF Settings

LEMMA EnvironmentKeepsHolders ==
  ASSUME TypeOK, MuteInv, TakeInv, HolderInv, Environment \/ MuterDecides
  PROVE  HolderInv'
<1> USE LockNames, ThreadsDiffer DEF HolderInv, LifecycleHolder, StateHolder, RecorderHolder,
      StreamHolders, MuteInv, LocksHeld, TakeInv, ClosersWork, HelpersWork, CoordWorks,
      Stops, Opens, HoldsOpen, HoldsMute, TypeOK, At, Free, Goto, Call, Return, Lock, Unlock
<1>1. CASE Press
  <2>1. LifecycleHolder'
    BY <1>1 DEF Press
  <2>2. StateHolder'
    BY <1>1 DEF Press
  <2>3. RecorderHolder'
    BY <1>1 DEF Press
  <2>4. StreamHolders'
    BY <1>1 DEF Press
  <2> QED BY <2>1, <2>2, <2>3, <2>4
<1>2. CASE Release
  <2>1. LifecycleHolder'
    BY <1>2 DEF Release
  <2>2. StateHolder'
    BY <1>2 DEF Release
  <2>3. RecorderHolder'
    BY <1>2 DEF Release
  <2>4. StreamHolders'
    BY <1>2 DEF Release
  <2> QED BY <2>1, <2>2, <2>3, <2>4
<1>3. CASE Cancel
  <2>1. LifecycleHolder'
    BY <1>3 DEF Cancel
  <2>2. StateHolder'
    BY <1>3 DEF Cancel
  <2>3. RecorderHolder'
    BY <1>3 DEF Cancel
  <2>4. StreamHolders'
    BY <1>3 DEF Cancel
  <2> QED BY <2>1, <2>2, <2>3, <2>4
<1>4. CASE FirstFrame
  <2>1. LifecycleHolder'
    BY <1>4 DEF FirstFrame
  <2>2. StateHolder'
    BY <1>4 DEF FirstFrame
  <2>3. RecorderHolder'
    BY <1>4 DEF FirstFrame
  <2>4. StreamHolders'
    BY <1>4 DEF FirstFrame
  <2> QED BY <2>1, <2>2, <2>3, <2>4
<1>5. CASE SavePolicy
  <2>1. LifecycleHolder'
    BY <1>5 DEF SavePolicy, Save
  <2>2. StateHolder'
    BY <1>5 DEF SavePolicy, Save
  <2>3. RecorderHolder'
    BY <1>5 DEF SavePolicy, Save
  <2>4. StreamHolders'
    BY <1>5 DEF SavePolicy, Save
  <2> QED BY <2>1, <2>2, <2>3, <2>4
<1>6. CASE SaveWake
  <2>1. LifecycleHolder'
    BY <1>6 DEF SaveWake, Save
  <2>2. StateHolder'
    BY <1>6 DEF SaveWake, Save
  <2>3. RecorderHolder'
    BY <1>6 DEF SaveWake, Save
  <2>4. StreamHolders'
    BY <1>6 DEF SaveWake, Save
  <2> QED BY <2>1, <2>2, <2>3, <2>4
<1>7. CASE SaveDevice
  <2>1. LifecycleHolder'
    BY <1>7 DEF SaveDevice, Save
  <2>2. StateHolder'
    BY <1>7 DEF SaveDevice, Save
  <2>3. RecorderHolder'
    BY <1>7 DEF SaveDevice, Save
  <2>4. StreamHolders'
    BY <1>7 DEF SaveDevice, Save
  <2> QED BY <2>1, <2>2, <2>3, <2>4
<1>8. CASE MuterDecides
  <2>1. LifecycleHolder'
    BY <1>8 DEF MuterDecides
  <2>2. StateHolder'
    BY <1>8 DEF MuterDecides
  <2>3. RecorderHolder'
    BY <1>8 DEF MuterDecides
  <2>4. StreamHolders'
    BY <1>8 DEF MuterDecides
  <2> QED BY <2>1, <2>2, <2>3, <2>4
<1> QED BY <1>1, <1>2, <1>3, <1>4, <1>5, <1>6, <1>7, <1>8 DEF Environment

LEMMA HolderInvHolds ==
  TypeOK /\ MuteInv /\ TakeInv /\ HolderInv /\ [Next]_vars => HolderInv'
<1> SUFFICES ASSUME TypeOK, MuteInv, TakeInv, HolderInv, [Next]_vars
             PROVE  HolderInv'
  OBVIOUS
<1>1. CASE \E t \in Threads : Step(t)
  <2>1. PICK t \in Threads : Step(t)
    BY <1>1
  <2>2. CASE Stop(t) \/ Open(t) \/ Mute(t) \/ Cancels(t) \/ (t = "coord" /\ RemoveMute(t))
    BY <2>2, StopKeepsHolders, OpenKeepsHolders, MuteKeepsHolders, CancelKeepsHolders
  <2>3. CASE t \in Closers /\ Closes(t)
    BY <2>3, CloseKeepsHolders
  <2>4. CASE Try \/ End \/ Settings \/ MuterDecides
    BY <2>4, TryKeepsHolders, EndKeepsHolders, SettingsKeepHolders, EnvironmentKeepsHolders
  <2> QED BY <2>1, <2>2, <2>3, <2>4 DEF Step
<1>2. CASE Environment
  BY <1>2, EnvironmentKeepsHolders
<1>3. CASE UNCHANGED vars
  BY <1>3 DEF vars, HolderInv, LifecycleHolder, StateHolder, RecorderHolder, StreamHolders
<1> QED BY <1>1, <1>2, <1>3 DEF Next

LEMMA InitHolders == Init => HolderInv
  BY LockNames
     DEF Init, HolderInv, LifecycleHolder, StateHolder, RecorderHolder, StreamHolders

\* A thread at one of the steps that take no lock, or whose locks are free, is
\* ready unless it has to schedule a close.
LEMMA FreeIsReady ==
  ASSUME NEW t \in Threads, ~At(t, "rest"), \A l \in Needs(t) : Free(l),
         pc[t] \notin {"end4", "cancel3"}
  PROVE  Ready(t)
  BY DEF Ready, NeedsCloser, At

\* Whoever has a lock leads to a thread that is ready.
LEMMA RecorderFrees ==
  ASSUME TypeOK, HolderInv, ~SomebodyIsReady
  PROVE  Free("recorder") /\ Free("state")
<1> USE LockNames, ThreadsDiffer DEF Free
<1>1. CASE held["recorder"] # Nobody
  <2>1. pc["coord"] = "try4" /\ Free("state")
    BY <1>1 DEF HolderInv, RecorderHolder, StateHolder
  <2>2. \A l \in Needs("coord") : Free(l)
    BY <2>1 DEF Needs, At
  <2> QED BY <2>1, <2>2, FreeIsReady DEF SomebodyIsReady, At
<1>2. CASE held["recorder"] = Nobody /\ held["state"] # Nobody
  <2>1. pc["coord"] = "end2"
    BY <1>2 DEF HolderInv, StateHolder
  <2>2. \A l \in Needs("coord") : Free(l)
    BY <1>2, <2>1 DEF Needs, At
  <2> QED BY <2>1, <2>2, FreeIsReady DEF SomebodyIsReady, At
<1> QED BY <1>1, <1>2

LEMMA StreamFrees ==
  ASSUME TypeOK, HolderInv, ~SomebodyIsReady
  PROVE  Free("did_mute") /\ Free("is_open")
<1> USE LockNames, ThreadsDiffer DEF Free
<1>1. Free("recorder") /\ Free("state")
  BY RecorderFrees
<1>2. CASE held["did_mute"] # Nobody
  <2> DEFINE t == held["did_mute"]
  <2>1. t \in Threads /\ pc[t] \in HoldsMute
    BY <1>2 DEF HolderInv, StreamHolders, TypeOK
  <2>2. \A l \in Needs(t) : Free(l)
    BY <1>1, <2>1 DEF Needs, At, HoldsMute
  <2> QED BY <2>1, <2>2, FreeIsReady DEF SomebodyIsReady, At, HoldsMute
<1>3. CASE held["did_mute"] = Nobody /\ held["is_open"] # Nobody
  <2> DEFINE t == held["is_open"]
  <2>1. t \in Threads /\ pc[t] \in HoldsOpen
    BY <1>3 DEF HolderInv, StreamHolders, TypeOK
  <2>2. \A l \in Needs(t) : Free(l)
    BY <1>1, <1>3, <2>1 DEF Needs, At, HoldsOpen, MuteOrder
  <2> QED BY <2>1, <2>2, FreeIsReady DEF SomebodyIsReady, At, HoldsOpen
<1> QED BY <1>2, <1>3

LEMMA AllFree ==
  ASSUME TypeOK, HolderInv, ~SomebodyIsReady
  PROVE  \A l \in Locks : Free(l)
<1> USE LockNames, ThreadsDiffer DEF Free
<1>1. Free("recorder") /\ Free("state") /\ Free("did_mute") /\ Free("is_open")
  BY RecorderFrees, StreamFrees
<1>2. CASE held["lifecycle"] # Nobody
  <2> DEFINE t == held["lifecycle"]
  <2>1. /\ t \in Threads
        /\ pc[t] \in {"close2", "close3", "try2", "try3", "try4", "tryErr"}
             \cup Stops \cup Opens
    BY <1>2 DEF HolderInv, LifecycleHolder
  <2>2. \A l \in Needs(t) : Free(l)
    BY <1>1, <2>1 DEF Needs, At, Stops, Opens
  <2> QED BY <2>1, <2>2, FreeIsReady DEF SomebodyIsReady, At, Stops, Opens
<1> QED BY <1>1, <1>2

LEMMA NobodyWaits ==
  ASSUME TypeOK, TakeInv, HolderInv, Closers # {}
  PROVE  SomebodyIsReady
<1> SUFFICES ASSUME ~SomebodyIsReady
             PROVE  FALSE
  OBVIOUS
<1>1. \A t \in Threads : \A l \in Needs(t) : Free(l)
  BY AllFree DEF Needs
<1>2. \A k \in Closers : At(k, "rest")
  <2> SUFFICES ASSUME NEW k \in Closers, ~At(k, "rest")
               PROVE  FALSE
    OBVIOUS
  <2>1. k \in Threads /\ pc[k] \notin {"end4", "cancel3"}
    BY ThreadsDiffer DEF TakeInv, ClosersWork, Stops
  <2> QED BY <1>1, <2>1, FreeIsReady DEF SomebodyIsReady
<1>3. PICK t \in Threads : ~At(t, "rest")
  BY DEF SomebodyIsReady, AllRest
<1>4. Ready(t)
  BY <1>1, <1>2, <1>3 DEF Ready
<1> QED BY <1>4 DEF SomebodyIsReady

\* As long as a thread is under way, some thread finds every mutex free that
\* its next step takes: no starts, stops, closes, mutes, cancels and settings
\* changes ever wait for each other (apply_mute, stop_recording,
\* try_start_recording).  A scheduled close needs a thread to sleep on.
THEOREM SomebodyGoesOn ==
  ASSUME Closers # {}
  PROVE  Spec => []SomebodyIsReady
<1>1. TypeOK /\ MuteInv /\ TakeInv /\ HolderInv /\ [Next]_vars =>
        (TypeOK /\ MuteInv /\ TakeInv /\ HolderInv)'
  BY AllInvHolds, HolderInvHolds
<1>2. TypeOK /\ TakeInv /\ HolderInv => SomebodyIsReady
  BY NobodyWaits
<1> QED BY <1>1, <1>2, InitTypes, InitMute, InitTake, InitHolders, PTL DEF Spec
=============================================================================
