------------------------------ MODULE Ducking ------------------------------
(***************************************************************************)
(* Ducking of the audio sessions of other applications while a take        *)
(* records or a text is read aloud (winstt/ducking.rs): the ledger of the  *)
(* single worker thread, its jobs, the watchdog, the journal on disk, and  *)
(* a mixer that remembers what was written to it.                          *)
(*                                                                         *)
(* A job is a list of stages (todo); each stage is one attempt on the      *)
(* sessions, or one write of the journal, and a crash may come between.    *)
(***************************************************************************)
EXTENDS Naturals, Sequences

CONSTANTS
  Sessions,     \* audio sessions; one that its application re-creates stays itself
  App,          \* the application of each session
  UserLevels,   \* volumes the user chooses
  Cuts,         \* values of systemAudioReductionWhileDictating but 0, in percent
  MaxAsks,      \* bound: how many takes and texts read aloud
  MaxTrouble    \* bound: user moves, outages, failed attempts, lost events, exits

Levels  == 0..8
Reasons == {"Dictation", "ReadAloud"}
None    == "none"

\* Mutant of Target: the reduction is added.
TargetAdds(volume, pct) == (volume * (100 + pct)) \div 100

\* reduction_target; the levels stand for the continuous scale 0..1
Target(volume, pct) == (volume * (100 - pct)) \div 100

ASSUME SessionsAssumption ==
  /\ None \notin Sessions
  /\ \A s \in Sessions : App[s] = App[s]
ASSUME LevelsAssumption ==
  /\ UserLevels \subseteq Levels
  /\ Cuts \subseteq 1..100
\* Every session is the only one of its application.
OwnApplications == \A s, t \in Sessions : App[s] = App[t] => s = t

ASSUME BoundsAssumption == {MaxAsks, MaxTrouble} \subseteq Nat

VARIABLES
  level,        \* the volume of each session, also while it is gone
  want,         \* history: the volume its user last chose
  there,        \* the session can be enumerated
  key,          \* its instance identifier: changes when it is re-created
  journal,      \* ducked-sessions.json
  up,           \* the program runs
  active,       \* reasons that hold the duck, each with its liveness probe
  ducked, snapshots, pending,   \* WorkerState
  queue,        \* the jobs sent to the worker
  todo, cut,    \* what is left of the job at hand, and its reduction
  dict, take,   \* the dictation and its recording generation
  chimes,       \* takes whose chime thread has not asked yet
  reading,      \* the read-aloud island
  exiting,      \* the exit hook has run
  asks, left,   \* what is left of the bounds
  granted,      \* history: the last take whose duck request was accepted
  spoiled       \* history: sessions captured while pending, or lost with the journal

mixer  == <<level, want, there, key>>
ledger == <<active, ducked, snapshots, pending>>
work   == <<queue, todo, cut>>
users  == <<dict, take, chimes, reading, exiting>>
bounds == <<asks, left>>
ghost  == <<granted, spoiled>>
vars   == <<mixer, journal, up, ledger, work, users, bounds, ghost>>

Snapshot == [session : Sessions, key : Nat, previous : Levels, ducked_to : Levels]
Holder   == [reason : Reasons, take : Nat]
Job      == [kind : {"duck"}, reason : Reasons, take : Nat, cut : Cuts]
       \cup [kind : {"restore"}, reason : Reasons]
       \cup [kind : {"all"}]
       \cup [kind : {"orphaned"}, snapshots : SUBSET Snapshot]

Init ==
  /\ want \in [Sessions -> UserLevels] /\ level = want
  /\ there = [s \in Sessions |-> TRUE]
  /\ key = [s \in Sessions |-> 0]
  /\ journal = {} /\ up = TRUE
  /\ active = {} /\ ducked = FALSE /\ snapshots = {} /\ pending = {}
  /\ queue = <<>> /\ todo = <<>> /\ cut = 0
  /\ dict = "idle" /\ take = 0 /\ chimes = {} /\ reading = "off" /\ exiting = FALSE
  /\ asks = MaxAsks /\ left = MaxTrouble
  /\ granted = 0 /\ spoiled = {}

Asks    == asks > 0 /\ asks' = asks - 1
Trouble == left > 0 /\ left' = left - 1
Send(job) == queue' = Append(queue, job)

-----------------------------------------------------------------------------
\* The mixer.

Outstanding == snapshots \cup pending \cup journal
\* RESTORE_TOLERANCE: a user's volume is told apart from one that was written
UserMoves(s, v) ==
  /\ Trouble
  /\ there[s] /\ v # level[s]
  /\ \A n \in Outstanding : n.session = s => n.ducked_to # v
  /\ level' = [level EXCEPT ![s] = v]
  /\ want' = [want EXCEPT ![s] = v]
  /\ UNCHANGED <<there, key, journal, up, ledger, work, users, asks, ghost>>

\* an expired session, a device that is unplugged
SessionGoes(s) ==
  /\ Trouble
  /\ there[s]
  /\ there' = [there EXCEPT ![s] = FALSE]
  /\ UNCHANGED <<level, want, key, journal, up, ledger, work, users, asks, ghost>>

\* It comes back, or its application makes a new one; Windows remembers the volume.
SessionComes(s) ==
  /\ ~ there[s]
  /\ there' = [there EXCEPT ![s] = TRUE]
  /\ key' \in {key, [key EXCEPT ![s] = @ + 1]}
  /\ UNCHANGED <<level, want, journal, up, ledger, work, users, bounds, ghost>>

-----------------------------------------------------------------------------
\* Who asks for the duck.

Recording == dict = "live"
\* the probes: is_active_recording_generation, tts_overlay_is_active
Alive(h) == IF h.reason = "Dictation" THEN Recording /\ take = h.take
                                      ELSE reading = "shown"

\* try_start_recording, and the chime thread that its first frame spawns
TakeStarts ==
  /\ up /\ dict = "idle" /\ Asks
  /\ dict' = "live" /\ take' = take + 1
  /\ chimes' = chimes \cup {take'}
  /\ UNCHANGED <<mixer, journal, up, ledger, work, reading, exiting, left, ghost>>

\* The chime thread checks the take, then sends: the check may be stale.
ChimeAsks(k) ==
  /\ k \in chimes
  /\ chimes' = chimes \ {k}
  /\ \E pct \in Cuts : Send([kind |-> "duck", reason |-> "Dictation", take |-> k, cut |-> pct])
  /\ UNCHANGED <<mixer, journal, up, ledger, todo, cut, dict, take, reading, exiting, bounds, ghost>>

\* No frame came, its check finds the take over, or the setting is 0.
ChimeDoesNotAsk(k) ==
  /\ k \in chimes
  /\ chimes' = chimes \ {k}
  /\ UNCHANGED <<mixer, journal, up, ledger, work, dict, take, reading, exiting, bounds, ghost>>

TakeStops ==
  /\ Recording
  /\ dict' = "stopped"
  /\ UNCHANGED <<mixer, journal, up, ledger, work, take, chimes, reading, exiting, bounds, ghost>>

SendRestore(reason) == Send([kind |-> "restore", reason |-> reason])

\* recording_stop or session_aborted, after the recorder has stopped
StopIsReported ==
  /\ dict = "stopped"
  /\ dict' = "processing"
  /\ SendRestore("Dictation")
  /\ UNCHANGED <<mixer, journal, up, ledger, todo, cut, take, chimes, reading, exiting, bounds, ghost>>

\* a panic, a dropped event
StopIsLost ==
  /\ dict = "stopped" /\ Trouble
  /\ dict' = "processing"
  /\ UNCHANGED <<mixer, journal, up, ledger, work, take, chimes, reading, exiting, asks, ghost>>

\* no_audio_detected and transcription_failed restore once more
TakeEnds ==
  /\ dict = "processing"
  /\ dict' = "idle"
  /\ SendRestore("Dictation") \/ UNCHANGED queue
  /\ UNCHANGED <<mixer, journal, up, ledger, todo, cut, take, chimes, reading, exiting, bounds, ghost>>

\* tts_report_playback_started: the duck first, a beat later the island
ReadStarts ==
  /\ up /\ reading = "off" /\ Asks
  /\ reading' = "asked"
  /\ \E pct \in Cuts : Send([kind |-> "duck", reason |-> "ReadAloud", take |-> 0, cut |-> pct])
  /\ UNCHANGED <<mixer, journal, up, ledger, todo, cut, dict, take, chimes, exiting, left, ghost>>

IslandShows ==
  /\ reading = "asked"
  /\ reading' = "shown"
  /\ UNCHANGED <<mixer, journal, up, ledger, work, dict, take, chimes, exiting, bounds, ghost>>

ReadEnds ==
  /\ reading = "shown"
  /\ reading' = "off"
  /\ SendRestore("ReadAloud")
  /\ UNCHANGED <<mixer, journal, up, ledger, todo, cut, dict, take, chimes, exiting, bounds, ghost>>

\* the island is hidden and the playback report never comes
ReadIsLost ==
  /\ reading = "shown" /\ Trouble
  /\ reading' = "off"
  /\ UNCHANGED <<mixer, journal, up, ledger, work, dict, take, chimes, exiting, asks, ghost>>

Exits ==
  /\ up /\ ~ exiting /\ Trouble
  /\ exiting' = TRUE
  /\ Send([kind |-> "all"])
  /\ UNCHANGED <<mixer, journal, up, ledger, todo, cut, dict, take, chimes, reading, asks, ghost>>

-----------------------------------------------------------------------------
\* Restoring: which session a snapshot is matched with, and what becomes of it.

Belongs(n, s) == App[n.session] = App[s]
Exact(n, s)   == n.session = s /\ n.key = key[s]

\* find_session_for_snapshot for every snapshot of N in some order: the exact
\* instance first, then another session of the application nobody has claimed.
Matchings(N, seen) ==
  {m \in [N -> seen \cup {None}] :
     /\ \A n \in N : m[n] # None => Belongs(n, m[n])
     /\ \A n, o \in N : m[n] = m[o] /\ m[n] # None => n = o
     /\ \A n \in N : m[n] = None => \A s \in seen : Belongs(n, s) => \E o \in N : m[o] = s
     /\ \A n \in N, s \in seen : Exact(n, s) /\ m[n] # s =>
          \E o \in N : m[o] = s /\ \A t \in seen : ~ Exact(o, t)}

\* Mutant of Ours: every restore writes.
OursAlways(n, s) == TRUE

\* volume_still_ours
Ours(n, s) == level[s] = n.ducked_to
Writes(m, n) == m[n] # None /\ Ours(n, m[n])

\* apply_verified_session_restore: sessions in blind cannot be read back
Outcome(N, m, blind, clean) ==
  [level   |-> [s \in Sessions |->
                  IF \E n \in N : m[n] = s /\ Ours(n, s)
                  THEN (CHOOSE n \in N : m[n] = s).previous ELSE level[s]],
   settled |-> {n \in N : m[n] # None /\ ~ (Writes(m, n) /\ m[n] \in blind)},
   clean   |-> clean]

There == {s \in Sessions : there[s]}
\* A session that cannot be read or written counts as not enumerated.
Attempts(N) ==
  UNION {{Outcome(N, m, blind, seen = There /\ blind = {}) :
             m \in Matchings(N, seen), blind \in SUBSET seen} : seen \in SUBSET There}

Costs(clean) == IF clean THEN UNCHANGED left ELSE Trouble

\* push_pending: a key that is pending keeps its entry.  Which of two new
\* entries with one key comes first is left open.
SameKey(n, o) == n.session = o.session /\ n.key = o.key
Pushed(P, N) ==
  {Q \in SUBSET (P \cup N) :
     /\ P \subseteq Q
     /\ \A n \in N : \E q \in Q : SameKey(n, q)
     /\ \A q \in Q \ P, r \in Q : SameKey(q, r) => q = r}

-----------------------------------------------------------------------------
\* The worker: the next job.

Idle      == up /\ todo = <<>>
Job1      == Head(queue)
NextJob(k) == /\ Idle /\ queue # <<>> /\ Job1.kind = k
              /\ queue' = Tail(queue)
Asker     == [reason |-> Job1.reason, take |-> Job1.take]
Others(r) == {h \in active : h.reason # r}
Held(r)   == \E h \in active : h.reason = r
\* only a dictation is gated
Wanted    == Job1.reason = "Dictation" => Alive(Asker)
Grant     == granted' = IF Job1.reason = "Dictation" THEN Job1.take ELSE granted

DuckIsSkipped ==
  /\ NextJob("duck") /\ ~ Wanted
  /\ UNCHANGED <<mixer, journal, up, ledger, todo, cut, users, bounds, ghost>>

\* Mutant of DuckRefreshes: the first probe is kept.
DuckKeepsProbe ==
  /\ NextJob("duck") /\ Wanted /\ Held(Job1.reason)
  /\ Grant
  /\ UNCHANGED <<mixer, journal, up, ledger, todo, cut, users, bounds, spoiled>>

DuckRefreshes ==
  /\ NextJob("duck") /\ Wanted /\ Held(Job1.reason)
  /\ active' = Others(Job1.reason) \cup {Asker}
  /\ Grant
  /\ UNCHANGED <<mixer, journal, up, ducked, snapshots, pending, todo, cut, users, bounds, spoiled>>

\* The second reason piggybacks, the first one heals and ducks.
DuckIsTaken ==
  /\ NextJob("duck") /\ Wanted /\ ~ Held(Job1.reason)
  /\ active' = active \cup {Asker}
  /\ Grant
  /\ IF ducked THEN UNCHANGED <<todo, cut>>
               ELSE todo' = <<"heal", "duck">> /\ cut' = Job1.cut
  /\ UNCHANGED <<mixer, journal, up, ducked, snapshots, pending, users, bounds, spoiled>>

RestoreIsTaken ==
  /\ NextJob("restore")
  /\ active' = Others(Job1.reason)
  /\ todo' = <<"restore">>
  /\ UNCHANGED <<mixer, journal, up, ducked, snapshots, pending, cut, users, bounds, ghost>>

RestoreAllIsTaken ==
  /\ NextJob("all")
  /\ active' = {}
  /\ todo' = <<"restore", "heal">>
  /\ UNCHANGED <<mixer, journal, up, ducked, snapshots, pending, cut, users, bounds, ghost>>

OrphansAreTaken ==
  /\ NextJob("orphaned")
  /\ pending' \in Pushed(pending, Job1.snapshots)
  /\ todo' = <<"heal", "save">>
  /\ UNCHANGED <<mixer, journal, up, active, ducked, snapshots, cut, users, bounds, ghost>>

\* Mutant of WatchdogTicks: lost restores are never found.
WatchdogOnlyHeals ==
  /\ Idle /\ queue = <<>> /\ pending # {}
  /\ todo' = <<"restore", "heal">>
  /\ UNCHANGED <<mixer, journal, up, ledger, queue, cut, users, bounds, ghost>>

\* watchdog_tick: reasons past their grace whose probe is dead; within the grace
\* a read-aloud island has come up.  Pending retries have a rhythm of their own.
WatchdogTicks ==
  /\ Idle /\ queue = <<>>
  /\ \E reaped \in SUBSET {h \in active : ~ Alive(h) /\ reading # "asked"} :
       /\ active' = active \ reaped
       /\ \/ todo' = <<"restore">> /\ (reaped # {} \/ (active = {} /\ ducked))
          \/ todo' = <<"restore", "heal">> /\ pending # {}
  /\ UNCHANGED <<mixer, journal, up, ducked, snapshots, pending, queue, cut, users, bounds, ghost>>

-----------------------------------------------------------------------------
\* The worker: the stages of a job.

Stage(x)   == up /\ todo # <<>> /\ Head(todo) = x
Done       == todo' = Tail(todo)
DoneAndSave == todo' = [todo EXCEPT ![1] = "save"]

NothingToDo ==
  /\ \/ Stage("heal") /\ pending = {}
     \/ Stage("restore") /\ (active # {} \/ ~ ducked)
  /\ Done
  /\ UNCHANGED <<mixer, journal, up, ledger, queue, cut, users, bounds, ghost>>

EnumerationFails ==
  /\ \/ Stage("heal") /\ pending # {}
     \/ Stage("restore") /\ active = {} /\ ducked /\ snapshots # {}
     \/ Stage("duck")
  /\ Trouble
  /\ Done
  /\ UNCHANGED <<mixer, journal, up, ledger, queue, cut, users, asks, ghost>>

Heal ==
  /\ Stage("heal") /\ pending # {}
  /\ \E o \in Attempts(pending) :
       /\ Costs(o.clean)
       /\ level' = o.level
       /\ pending' = pending \ o.settled
       /\ IF o.settled = {} THEN Done ELSE DoneAndSave
  /\ UNCHANGED <<want, there, key, journal, up, active, ducked, snapshots, queue, cut, users, asks, ghost>>

\* Mutant of RestoreIfIdle: an enumeration that succeeds settles everything.
RestoreForgetsMissing ==
  /\ Stage("restore") /\ active = {} /\ ducked
  /\ \E o \in Attempts(snapshots) : Costs(o.clean) /\ level' = o.level
  /\ snapshots' = {} /\ ducked' = FALSE
  /\ DoneAndSave
  /\ UNCHANGED <<want, there, key, journal, up, active, pending, queue, cut, users, asks, ghost>>

RestoreIfIdle ==
  /\ Stage("restore") /\ active = {} /\ ducked
  /\ \E o \in Attempts(snapshots) :
       /\ Costs(o.clean)
       /\ level' = o.level
       /\ pending' \in Pushed(pending, snapshots \ o.settled)
  /\ snapshots' = {} /\ ducked' = FALSE
  /\ DoneAndSave
  /\ UNCHANGED <<want, there, key, journal, up, active, queue, cut, users, asks, ghost>>

\* perform_session_duck, on the sessions of the default device it can change
Duck ==
  /\ Stage("duck")
  /\ \E seen \in SUBSET There :
       LET new == {s \in seen : Target(level[s], cut) # level[s]} IN
       /\ Costs(seen = There)
       /\ snapshots' = {[session |-> s, key |-> key[s], previous |-> level[s],
                         ducked_to |-> Target(level[s], cut)] : s \in new}
       /\ level' = [s \in Sessions |-> IF s \in new THEN Target(level[s], cut) ELSE level[s]]
       /\ spoiled' = spoiled \cup {s \in new : \E n \in pending : Belongs(n, s)}
  /\ ducked' = TRUE
  /\ DoneAndSave
  /\ UNCHANGED <<want, there, key, journal, up, active, pending, queue, cut, users, asks, granted>>

\* persist_ledger
Save ==
  /\ Stage("save")
  /\ journal' = snapshots \cup pending
  /\ Done
  /\ UNCHANGED <<mixer, up, ledger, queue, cut, users, bounds, ghost>>

-----------------------------------------------------------------------------
\* The program ends (killed, or after its exit hook), in the middle of a job too.
\* A journal that was being written is the old one, or cut short: unreadable.
Dies ==
  /\ up
  /\ IF exiting THEN UNCHANGED left ELSE Trouble
  /\ up' = FALSE
  /\ IF Stage("save")
     THEN /\ journal' \in {journal, {}}
          /\ spoiled' = spoiled \cup
               {n.session : n \in (snapshots \cup pending) \ journal'}
     ELSE UNCHANGED <<journal, spoiled>>
  /\ active' = {} /\ ducked' = FALSE /\ snapshots' = {} /\ pending' = {}
  /\ queue' = <<>> /\ todo' = <<>> /\ cut' = 0
  /\ dict' = "idle" /\ chimes' = {} /\ reading' = "off" /\ exiting' = FALSE
  /\ UNCHANGED <<mixer, take, asks, granted>>

\* init
Launches ==
  /\ ~ up
  /\ up' = TRUE
  /\ queue' = IF journal = {} THEN <<>>
              ELSE <<[kind |-> "orphaned", snapshots |-> journal]>>
  /\ UNCHANGED <<mixer, journal, ledger, todo, cut, users, bounds, ghost>>

-----------------------------------------------------------------------------
Worker ==
  \/ DuckIsSkipped \/ DuckRefreshes \/ DuckIsTaken
  \/ RestoreIsTaken \/ RestoreAllIsTaken \/ OrphansAreTaken
  \/ NothingToDo \/ EnumerationFails \/ Heal \/ RestoreIfIdle \/ Duck \/ Save

Environment ==
  \/ \E s \in Sessions : SessionGoes(s) \/ SessionComes(s)
  \/ \E s \in Sessions, v \in UserLevels : UserMoves(s, v)
  \/ TakeStarts \/ TakeStops \/ StopIsReported \/ StopIsLost \/ TakeEnds
  \/ \E k \in chimes : ChimeAsks(k) \/ ChimeDoesNotAsk(k)
  \/ ReadStarts \/ IslandShows \/ ReadEnds \/ ReadIsLost
  \/ Exits \/ Dies \/ Launches

Next == Worker \/ WatchdogTicks \/ Environment
Spec == Init /\ [][Next]_vars

\* The worker thread runs, and its receive times out when there is recovery work.
FairSpec == Spec /\ WF_vars(Worker) /\ WF_vars(WatchdogTicks)
                 /\ WF_vars(\E k \in chimes : ChimeAsks(k) \/ ChimeDoesNotAsk(k))
                 /\ WF_vars(IslandShows)

-----------------------------------------------------------------------------
Programs == {<<>>, <<"heal", "duck">>, <<"save", "duck">>, <<"duck">>, <<"save">>,
             <<"restore">>, <<"restore", "heal">>, <<"save", "heal">>, <<"heal">>,
             <<"heal", "save">>, <<"save", "save">>}

\* Type correctness of the ledger, the jobs and the mixer.
TypeOK ==
  /\ level \in [Sessions -> Levels] /\ want \in [Sessions -> Levels]
  /\ there \in [Sessions -> BOOLEAN] /\ key \in [Sessions -> Nat]
  /\ journal \subseteq Snapshot /\ up \in BOOLEAN
  /\ active \subseteq Holder /\ ducked \in BOOLEAN
  /\ snapshots \subseteq Snapshot /\ pending \subseteq Snapshot
  /\ queue \in Seq(Job) /\ todo \in Programs /\ cut \in 0..100
  /\ dict \in {"idle", "live", "stopped", "processing"}
  /\ take \in Nat /\ chimes \subseteq Nat
  /\ reading \in {"off", "asked", "shown"} /\ exiting \in BOOLEAN
  /\ asks \in Nat /\ left \in Nat
  /\ granted \in Nat /\ spoiled \subseteq Sessions

\* init runs before anything else is sent: the orphans come first
Orphans == IF queue # <<>> /\ Head(queue).kind = "orphaned" THEN Head(queue).snapshots ELSE {}
Known   == IF up THEN snapshots \cup pending \cup Orphans ELSE journal

\* A session that is not at its user's volume is never forgotten: the ledger, the
\* jobs or, when the program is down, the journal hold an entry with that volume and
\* with the level the session sits at, so that a restore will take it home (rules 5
\* and 6).  Excepted are sessions captured while an older entry was pending, and
\* those the journal had not got when the program died in the middle of writing it.
NothingForgotten ==
  \A s \in Sessions \ spoiled :
    level[s] # want[s] =>
      \E n \in Known : n.session = s /\ n.previous = want[s] /\ n.ducked_to = level[s]

\* "Only undo what we did" (rule 3): whatever the order of restores, retries and
\* relaunches, a session only ever goes to the volume its user chose, or is lowered
\* by a duck that records what it was.
OnlyUndoesItsOwn ==
  [][\A s \in Sessions \ spoiled' : level'[s] # level[s] =>
       \/ level'[s] = want'[s]
       \/ \E n \in snapshots' : n.session = s /\ n.previous = level[s]
                                 /\ n.ducked_to = level'[s]]_vars

\* A live take whose request was accepted keeps its hold on the duck: neither the
\* late restore of an earlier take nor the watchdog with an old probe takes it away.
LiveTakeKeepsItsDuck ==
  Recording /\ granted = take /\ ~ exiting =>
    [reason |-> "Dictation", take |-> take] \in active

\* Whenever nothing wants the duck any more, every session that is there goes back
\* to its user's volume, also when the event that should have restored it was lost.
MixerComesHome ==
  []<>(\/ ~ up \/ Recording \/ reading # "off"
       \/ \A s \in There \ spoiled : level[s] = want[s])
=============================================================================
