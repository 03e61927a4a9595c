--------------------------- MODULE DuckingProofs ---------------------------
(***************************************************************************)
(* Proofs about Ducking: its types; that no lowered session is forgotten   *)
(* and that only what was lowered is put back, for any sessions each of    *)
(* which is the only one of its application, and that the worker does not  *)
(* sleep over it; that a live take keeps its hold on the duck; and that a  *)
(* hold whose take has ended never comes to life again.                    *)
(***************************************************************************)
EXTENDS Ducking, TLAPS

-----------------------------------------------------------------------------
\* Lists of stages.

LEMMA OneStage ==
  ASSUME NEW a, NEW b
  PROVE  /\ Tail(<<a>>) = <<>> /\ Head(<<a>>) = a /\ <<a>> # <<>>
         /\ [<<a>> EXCEPT ![1] = b] = <<b>>
  OBVIOUS

LEMMA TwoStages ==
  ASSUME NEW a, NEW b, NEW c
  PROVE  /\ Tail(<<a, b>>) = <<b>> /\ Head(<<a, b>>) = a /\ <<a, b>> # <<>>
         /\ [<<a, b>> EXCEPT ![1] = c] = <<c, b>>
<1>1. Tail(<<a, b>>) = <<b>> /\ Head(<<a, b>>) = a /\ <<a, b>> # <<>>
  OBVIOUS
<1>2. [<<a, b>> EXCEPT ![1] = c] = <<c, b>>
  OBVIOUS
<1>. QED BY <1>1, <1>2

Short == {<<"duck">>, <<"save">>, <<"restore">>, <<"heal">>}
Long  == {<<"heal", "duck">>, <<"save", "duck">>, <<"restore", "heal">>,
          <<"save", "heal">>, <<"heal", "save">>, <<"save", "save">>}

\* What is left after a stage, and after a stage whose result is to be saved.
LEMMA StageDone ==
  ASSUME NEW t \in Programs, t # <<>>
  PROVE  Tail(t) \in Programs
<1>1. t \in Short \/ t \in Long
  BY DEF Programs, Short, Long
<1>2. CASE t \in Short
  <2>1. Tail(t) = <<>>
    BY <1>2, OneStage DEF Short
  <2>. QED BY <2>1 DEF Programs
<1>3. CASE t \in Long
  <2>1. PICK a \in {"heal", "restore", "save"}, b \in {"duck", "heal", "save"} : t = <<a, b>>
    BY <1>3 DEF Long
  <2>2. Tail(t) = <<b>>
    BY <2>1, TwoStages
  <2>. QED BY <2>2 DEF Programs
<1>. QED BY <1>1, <1>2, <1>3

LEMMA StageSaves ==
  ASSUME NEW t \in Programs, t # <<>>, Head(t) # "save"
  PROVE  LET p == [t EXCEPT ![1] = "save"]
         IN  p \in Programs /\ p # <<>> /\ Head(p) = "save" /\ Tail(p) = Tail(t)
<1>. DEFINE p == [t EXCEPT ![1] = "save"]
<1>1. t \in Short \/ t \in Long
  BY DEF Programs, Short, Long
<1>2. CASE t \in Short
  <2>1. p = <<"save">>
    BY <1>2, OneStage DEF Short
  <2>2. Tail(t) = <<>>
    BY <1>2, OneStage DEF Short
  <2>. QED BY <2>1, <2>2, OneStage DEF Programs
<1>3. CASE t \in Long
  <2>1. p \in {<<"save", "duck">>, <<"save", "heal">>, <<"save", "save">>} /\ Tail(p) = Tail(t)
    BY <1>3, TwoStages DEF Long
  <2>. QED BY <2>1, TwoStages DEF Programs
<1>. QED BY <1>1, <1>2, <1>3

\* A duck leaves the volume on the scale.
LEMMA TargetType ==
  ASSUME NEW v \in Levels, NEW pct \in 0..100
  PROVE  Target(v, pct) \in Levels
<1>1. v \in {0, 1, 2, 3, 4, 5, 6, 7, 8}
  BY DEF Levels
<1>. QED BY <1>1 DEF Target, Levels

-----------------------------------------------------------------------------
\* An attempt to restore changes no session but those at the level of an entry,
\* and settles only entries it was asked about.
LEMMA AttemptTypes ==
  ASSUME TypeOK, NEW N \in SUBSET Snapshot, NEW o \in Attempts(N)
  PROVE  /\ o.level \in [Sessions -> Levels]
         /\ o.settled \subseteq N
         /\ o.clean \in BOOLEAN
<1>1. PICK seen \in SUBSET There :
        \E m \in Matchings(N, seen), blind \in SUBSET seen :
          o = Outcome(N, m, blind, seen = There /\ blind = {})
  BY DEF Attempts
<1>4. PICK m \in Matchings(N, seen), blind \in SUBSET seen :
        o = Outcome(N, m, blind, seen = There /\ blind = {})
  BY <1>1
<1>2. ASSUME NEW s \in Sessions, \E n \in N : m[n] = s /\ Ours(n, s)
      PROVE  (CHOOSE n \in N : m[n] = s).previous \in Levels
  BY <1>2 DEF Snapshot
<1>3. level \in [Sessions -> Levels]
  BY DEF TypeOK
<1>. QED BY <1>4, <1>2, <1>3 DEF Outcome
-----------------------------------------------------------------------------
\* Types.

LEMMA JobTypes ==
  ASSUME TypeOK, queue # <<>>
  PROVE  /\ Job1 \in Job /\ Tail(queue) \in Seq(Job)
         /\ Job1.kind = "duck" => Job1.reason \in Reasons /\ Job1.take \in Nat /\ Job1.cut \in Cuts
         /\ Job1.kind = "restore" => Job1.reason \in Reasons
         /\ Job1.kind = "orphaned" => Job1.snapshots \subseteq Snapshot
<1>1. Job1 \in Job /\ Tail(queue) \in Seq(Job)
  BY DEF TypeOK, Job1
<1>. QED BY <1>1 DEF Job

LEMMA SendTypes ==
  ASSUME TypeOK, NEW j \in Job, Send(j)
  PROVE  queue' \in Seq(Job)
  BY DEF TypeOK, Send

LEMMA TroubleTypes ==
  ASSUME TypeOK, Trouble
  PROVE  left' \in Nat
  BY DEF TypeOK, Trouble

LEMMA InitTypes == Init => TypeOK
<1>. SUFFICES ASSUME Init PROVE TypeOK
  OBVIOUS
<1>1. want \in [Sessions -> Levels]
  BY LevelsAssumption DEF Init
<1>2. queue \in Seq(Job) /\ todo \in Programs
  BY DEF Init, Programs
<1>3. /\ there \in [Sessions -> BOOLEAN] /\ key \in [Sessions -> Nat]
      /\ asks \in Nat /\ left \in Nat /\ level = want
  BY BoundsAssumption DEF Init
<1>4. up \in BOOLEAN /\ ducked \in BOOLEAN /\ exiting \in BOOLEAN
  BY Zenon DEF Init
<1>5. /\ journal = {} /\ active = {} /\ snapshots = {} /\ pending = {}
      /\ chimes = {} /\ spoiled = {} /\ dict = "idle" /\ reading = "off"
  BY Zenon DEF Init
<1>6. cut = 0 /\ take = 0 /\ granted = 0
  BY Zenon DEF Init
<1>. QED BY <1>1, <1>2, <1>3, <1>4, <1>5, <1>6 DEF TypeOK

LEMMA MixerTypes ==
  ASSUME TypeOK, NEW s \in Sessions,
         SessionGoes(s) \/ SessionComes(s) \/ \E v \in UserLevels : UserMoves(s, v)
  PROVE  TypeOK'
<1>. USE DEF TypeOK, mixer, ledger, work, users, bounds, ghost
<1>1. CASE SessionGoes(s)
  BY <1>1, TroubleTypes DEF SessionGoes
<1>2. CASE SessionComes(s)
  BY <1>2 DEF SessionComes
<1>3. CASE \E v \in UserLevels : UserMoves(s, v)
  BY <1>3, TroubleTypes, LevelsAssumption DEF UserMoves
<1>. QED BY <1>1, <1>2, <1>3

LEMMA UserTypes ==
  ASSUME TypeOK,
         \/ TakeStarts \/ TakeStops \/ StopIsReported \/ StopIsLost \/ TakeEnds
         \/ \E k \in chimes : ChimeAsks(k) \/ ChimeDoesNotAsk(k)
         \/ ReadStarts \/ IslandShows \/ ReadEnds \/ ReadIsLost \/ Exits
  PROVE  TypeOK'
<1>. USE DEF mixer, ledger, work, users, bounds, ghost
<1>. DEFINE Calm == TypeOK /\ queue' \in Seq(Job)
<1>1. \A r \in Reasons : SendRestore(r) => queue' \in Seq(Job)
  <2>. SUFFICES ASSUME NEW r \in Reasons, SendRestore(r) PROVE queue' \in Seq(Job)
    OBVIOUS
  <2>. DEFINE j == [kind |-> "restore", reason |-> r]
  <2>1. j \in Job
    BY DEF Job
  <2>. QED BY <2>1, SendTypes DEF SendRestore
<1>2. ASSUME NEW r \in Reasons, NEW k \in Nat, NEW c \in Cuts,
             Send([kind |-> "duck", reason |-> r, take |-> k, cut |-> c])
      PROVE  queue' \in Seq(Job)
  <2>. DEFINE j == [kind |-> "duck", reason |-> r, take |-> k, cut |-> c]
  <2>1. j \in Job
    BY DEF Job
  <2>. QED BY <1>2, <2>1, SendTypes
<1>3. CASE TakeStarts
  <2>1. take' \in Nat /\ chimes' \subseteq Nat /\ asks' \in Nat
    BY <1>3 DEF TypeOK, TakeStarts, Asks
  <2>. QED BY <1>3, <2>1 DEF TypeOK, TakeStarts
<1>11. CASE TakeStops
  BY <1>11 DEF TypeOK, TakeStops
<1>4. CASE StopIsReported \/ TakeEnds \/ ReadEnds
  BY <1>4, <1>1 DEF TypeOK, StopIsReported, TakeEnds, ReadEnds, Reasons
<1>5. CASE StopIsLost \/ ReadIsLost
  BY <1>5, TroubleTypes DEF TypeOK, StopIsLost, ReadIsLost
<1>6. CASE \E k \in chimes : ChimeAsks(k)
  <2>1. PICK k \in chimes : ChimeAsks(k)
    BY <1>6
  <2>2. queue' \in Seq(Job)
    BY <2>1, <1>2 DEF ChimeAsks, TypeOK, Reasons
  <2>. QED BY <2>1, <2>2 DEF TypeOK, ChimeAsks
<1>7. CASE \E k \in chimes : ChimeDoesNotAsk(k)
  BY <1>7 DEF TypeOK, ChimeDoesNotAsk
<1>8. CASE ReadStarts
  <2>1. queue' \in Seq(Job)
    BY <1>8, <1>2 DEF ReadStarts, Reasons
  <2>. QED BY <1>8, <2>1 DEF TypeOK, ReadStarts, Asks
<1>9. CASE IslandShows
  BY <1>9 DEF TypeOK, IslandShows
<1>10. CASE Exits
  <2>. DEFINE j == [kind |-> "all"]
  <2>1. j \in Job
    BY DEF Job
  <2>2. queue' \in Seq(Job)
    BY <1>10, <2>1, SendTypes DEF Exits
  <2>. QED BY <1>10, <2>2, TroubleTypes DEF TypeOK, Exits
<1>. QED BY <1>3, <1>4, <1>5, <1>6, <1>7, <1>8, <1>9, <1>10, <1>11

LEMMA TakenTypes ==
  ASSUME TypeOK,
         \/ DuckIsSkipped \/ DuckRefreshes \/ DuckIsTaken
         \/ RestoreIsTaken \/ RestoreAllIsTaken \/ OrphansAreTaken \/ WatchdogTicks
  PROVE  TypeOK'
<1>. USE DEF mixer, ledger, work, users, bounds, ghost
<1>1. \A k : NextJob(k) => queue' \in Seq(Job)
  BY JobTypes DEF NextJob
<1>2. ASSUME NextJob("duck")
      PROVE  Asker \in Holder /\ Job1.cut \in 0..100 /\ (Grant => granted' \in Nat)
  <2>1. Job1.reason \in Reasons /\ Job1.take \in Nat /\ Job1.cut \in Cuts
    BY <1>2, JobTypes DEF NextJob
  <2>2. \A c \in Cuts : c \in 0..100
    BY LevelsAssumption
  <2>3. Asker \in Holder
    BY <2>1 DEF Asker, Holder
  <2>4. Grant => granted' \in Nat
    BY <2>1 DEF Grant, TypeOK
  <2>. QED BY <2>1, <2>2, <2>3, <2>4
<1>3. CASE DuckIsSkipped
  BY <1>1, <1>3 DEF DuckIsSkipped, TypeOK
<1>4. CASE DuckRefreshes
  <2>1. active' \subseteq Holder
    BY <1>2, <1>4 DEF DuckRefreshes, Others, TypeOK
  <2>. QED BY <1>1, <1>2, <1>4, <2>1 DEF DuckRefreshes, TypeOK
<1>5. CASE DuckIsTaken
  <2>1. active' \subseteq Holder
    BY <1>2, <1>5 DEF DuckIsTaken, TypeOK
  <2>2. todo' \in Programs /\ cut' \in 0..100
    BY <1>2, <1>5 DEF DuckIsTaken, TypeOK, Programs
  <2>. QED BY <1>1, <1>2, <1>5, <2>1, <2>2 DEF DuckIsTaken, TypeOK
<1>6. CASE RestoreIsTaken \/ RestoreAllIsTaken
  <2>1. todo' \in Programs /\ active' \subseteq Holder
    BY <1>6 DEF RestoreIsTaken, RestoreAllIsTaken, Programs, Others, TypeOK
  <2>2. CASE RestoreIsTaken
    BY <1>1, <2>1, <2>2 DEF RestoreIsTaken, TypeOK
  <2>3. CASE RestoreAllIsTaken
    BY <1>1, <2>1, <2>3 DEF RestoreAllIsTaken, TypeOK
  <2>. QED BY <1>6, <2>2, <2>3
<1>7. CASE OrphansAreTaken
  <2>1. pending' \subseteq Snapshot
    BY <1>7, JobTypes DEF OrphansAreTaken, NextJob, Pushed, TypeOK
  <2>2. todo' \in Programs
    BY <1>7 DEF OrphansAreTaken, Programs
  <2>. QED BY <1>1, <1>7, <2>1, <2>2 DEF OrphansAreTaken, TypeOK
<1>8. CASE WatchdogTicks
  <2>1. todo' \in Programs /\ active' \subseteq Holder
    BY <1>8 DEF WatchdogTicks, Programs, TypeOK
  <2>. QED BY <1>8, <2>1 DEF WatchdogTicks, TypeOK
<1>. QED BY <1>3, <1>4, <1>5, <1>6, <1>7, <1>8

LEMMA StageTypes ==
  ASSUME TypeOK, NothingToDo \/ EnumerationFails \/ Heal \/ RestoreIfIdle \/ Duck \/ Save
  PROVE  TypeOK'
<1>. USE DEF mixer, ledger, work, users, bounds, ghost
<1>1. \A x : Stage(x) /\ Done => todo' \in Programs
  BY StageDone DEF Stage, Done, TypeOK
<1>2. \A x : Stage(x) /\ x # "save" /\ DoneAndSave => todo' \in Programs
  BY StageSaves DEF Stage, DoneAndSave, TypeOK
<1>3. ASSUME NEW N \in SUBSET Snapshot, NEW o \in Attempts(N), Costs(o.clean)
      PROVE  left' \in Nat
  BY <1>3, TroubleTypes DEF Costs, TypeOK
<1>4. CASE NothingToDo
  BY <1>1, <1>4 DEF NothingToDo, TypeOK
<1>5. CASE EnumerationFails
  <2>1. todo' \in Programs
    BY <1>1, <1>5 DEF EnumerationFails
  <2>. QED BY <1>5, <2>1, TroubleTypes DEF EnumerationFails, TypeOK
<1>6. CASE Heal
  <2>1. PICK o \in Attempts(pending) :
          /\ Costs(o.clean) /\ level' = o.level /\ pending' = pending \ o.settled
          /\ IF o.settled = {} THEN Done ELSE DoneAndSave
    BY <1>6 DEF Heal
  <2>2. pending \subseteq Snapshot
    BY DEF TypeOK
  <2>3. level' \in [Sessions -> Levels] /\ pending' \subseteq Snapshot /\ left' \in Nat
    BY <2>1, <2>2, <1>3, AttemptTypes
  <2>4. todo' \in Programs
    BY <1>6, <1>1, <1>2, <2>1 DEF Heal
  <2>. QED BY <1>6, <2>3, <2>4 DEF Heal, TypeOK
<1>7. CASE RestoreIfIdle
  <2>1. PICK o \in Attempts(snapshots) :
          /\ Costs(o.clean) /\ level' = o.level
          /\ pending' \in Pushed(pending, snapshots \ o.settled)
    BY <1>7 DEF RestoreIfIdle
  <2>2. snapshots \subseteq Snapshot /\ pending \subseteq Snapshot
    BY DEF TypeOK
  <2>3. level' \in [Sessions -> Levels] /\ pending' \subseteq Snapshot /\ left' \in Nat
    BY <2>1, <2>2, <1>3, AttemptTypes DEF Pushed
  <2>4. todo' \in Programs
    BY <1>7, <1>2 DEF RestoreIfIdle
  <2>. QED BY <1>7, <2>3, <2>4 DEF RestoreIfIdle, TypeOK
<1>8. CASE Duck
  <2>1. PICK seen \in SUBSET There :
          LET new == {s \in seen : Target(level[s], cut) # level[s]} IN
          /\ Costs(seen = There)
          /\ snapshots' = {[session |-> s, key |-> key[s], previous |-> level[s],
                            ducked_to |-> Target(level[s], cut)] : s \in new}
          /\ level' = [s \in Sessions |-> IF s \in new THEN Target(level[s], cut) ELSE level[s]]
          /\ spoiled' = spoiled \cup {s \in new : \E n \in pending : Belongs(n, s)}
    BY <1>8 DEF Duck
  <2>2. \A s \in Sessions : level[s] \in Levels /\ key[s] \in Nat
                           /\ Target(level[s], cut) \in Levels
    BY TargetType DEF TypeOK
  <2>3. seen \subseteq Sessions
    BY <2>1 DEF There
  <2>4. snapshots' \subseteq Snapshot
    BY <2>1, <2>2, <2>3 DEF Snapshot
  <2>5. level' \in [Sessions -> Levels] /\ spoiled' \subseteq Sessions
    BY <2>1, <2>2, <2>3 DEF TypeOK
  <2>6. left' \in Nat
    BY <2>1, TroubleTypes DEF Costs, TypeOK
  <2>7. todo' \in Programs
    BY <1>8, <1>2 DEF Duck
  <2>. QED BY <1>8, <2>4, <2>5, <2>6, <2>7 DEF Duck, TypeOK
<1>9. CASE Save
  <2>1. todo' \in Programs
    BY <1>1, <1>9 DEF Save
  <2>. QED BY <1>9, <2>1 DEF Save, TypeOK
<1>. QED BY <1>4, <1>5, <1>6, <1>7, <1>8, <1>9

LEMMA LifeTypes ==
  ASSUME TypeOK, Dies \/ Launches
  PROVE  TypeOK'
<1>. USE DEF mixer, ledger, work, users, bounds, ghost
<1>1. CASE Dies
  <2>1. left' \in Nat /\ journal' \subseteq Snapshot /\ spoiled' \subseteq Sessions
    BY <1>1, TroubleTypes DEF Dies, TypeOK, Snapshot
  <2>2. queue' \in Seq(Job) /\ todo' \in Programs
    BY <1>1 DEF Dies, Programs
  <2>3. up' \in BOOLEAN /\ ducked' \in BOOLEAN /\ exiting' \in BOOLEAN
    BY <1>1, Zenon DEF Dies
  <2>4. /\ active' = {} /\ snapshots' = {} /\ pending' = {} /\ chimes' = {}
        /\ dict' = "idle" /\ reading' = "off" /\ cut' = 0
        /\ UNCHANGED <<level, want, there, key, take, asks, granted>>
    BY <1>1, Zenon DEF Dies, mixer
  <2>. QED BY <2>1, <2>2, <2>3, <2>4 DEF TypeOK
<1>2. CASE Launches
  <2>1. queue' \in Seq(Job)
    <3>. DEFINE j == [kind |-> "orphaned", snapshots |-> journal]
    <3>1. j \in Job
      BY DEF Job, TypeOK
    <3>2. <<j>> \in Seq(Job) /\ <<>> \in Seq(Job)
      BY <3>1
    <3>. QED BY <1>2, <3>2 DEF Launches
  <2>. QED BY <1>2, <2>1 DEF Launches, TypeOK
<1>. QED BY <1>1, <1>2

\* Type correctness of Ducking for any sessions, applications and bounds.
THEOREM DuckTypes == Spec => []TypeOK
<1>1. TypeOK /\ [Next]_vars => TypeOK'
  <2>. SUFFICES ASSUME TypeOK, [Next]_vars PROVE TypeOK'
    OBVIOUS
  <2>1. CASE Worker
    BY <2>1, TakenTypes, StageTypes DEF Worker
  <2>2. CASE WatchdogTicks
    BY <2>2, TakenTypes
  <2>3. CASE Environment
    BY <2>3, MixerTypes, UserTypes, LifeTypes DEF Environment
  <2>4. CASE UNCHANGED vars
    BY <2>4 DEF TypeOK, vars, mixer, ledger, work, users, bounds, ghost
  <2>. QED BY <2>1, <2>2, <2>3, <2>4 DEF Next
<1>. QED BY <1>1, InitTypes, PTL DEF Spec

-----------------------------------------------------------------------------
\* The invariant.

DuckPrograms == {<<"heal", "duck">>, <<"save", "duck">>, <<"duck">>}
Saving  == todo # <<>> /\ Head(todo) = "save"
Entries == snapshots \cup pending \cup Orphans \cup journal

\* Snapshots are those of a live duck; a job that is to duck finds none.
DuckShape ==
  /\ ~ ducked => snapshots = {}
  /\ todo \in DuckPrograms => ~ ducked
  /\ ~ up => /\ snapshots = {} /\ pending = {} /\ queue = <<>> /\ todo = <<>>
            /\ dict = "idle" /\ chimes = {} /\ reading = "off"

\* What an earlier run left is taken before anything else happens.
OrphansFirst ==
  /\ \A i \in 2..Len(queue) : queue[i].kind # "orphaned"
  /\ queue # <<>> /\ Head(queue).kind = "orphaned" =>
       todo = <<>> /\ snapshots = {} /\ pending = {}

\* A session has one entry,
Unique == \A n, o \in Entries :
            n.session = o.session /\ n.session \notin spoiled => n = o

\* whose restore, if it writes, goes to the user's volume;
Faithful == \A n \in Entries :
              n.session \notin spoiled /\ n.ducked_to = level[n.session] =>
                n.previous = want[n.session]

\* and ledger and journal agree on it, but when a change is yet to be written.
Saved == ~ Saving =>
           \A n \in Entries : n.session \notin spoiled => n \in Known /\ n \in journal

Accounts == Unique /\ Faithful /\ Saved /\ NothingForgotten
Inv == DuckShape /\ OrphansFirst /\ Accounts

LEMMA DuckLists ==
  ASSUME NEW t \in Programs, t # <<>>
  PROVE  /\ Tail(t) \in DuckPrograms => t \in DuckPrograms
         /\ Head(t) # "save" /\ [t EXCEPT ![1] = "save"] \in DuckPrograms => t \in DuckPrograms
         /\ Head(t) = "duck" => t = <<"duck">>
         /\ Tail(<<"duck">>) \notin DuckPrograms
         /\ [<<"duck">> EXCEPT ![1] = "save"] \notin DuckPrograms
<1>1. Tail(<<"duck">>) \notin DuckPrograms /\ [<<"duck">> EXCEPT ![1] = "save"] \notin DuckPrograms
  <2>1. Tail(<<"duck">>) = <<>> /\ [<<"duck">> EXCEPT ![1] = "save"] = <<"save">>
    BY OneStage
  <2>. QED BY <2>1 DEF DuckPrograms
<1>2. t \in Short \/ t \in Long
  BY DEF Programs, Short, Long
<1>3. CASE t \in Short
  <2>1. PICK a \in {"duck", "save", "restore", "heal"} : t = <<a>>
    BY <1>3 DEF Short
  <2>2. Tail(t) = <<>> /\ Head(t) = a /\ [t EXCEPT ![1] = "save"] = <<"save">>
    BY <2>1, OneStage
  <2>3. <<>> \notin DuckPrograms /\ <<"save">> \notin DuckPrograms
    BY DEF DuckPrograms
  <2>. QED BY <1>1, <2>1, <2>2, <2>3
<1>4. CASE t \in Long
  <2>1. PICK a \in {"heal", "restore", "save"}, b \in {"duck", "heal", "save"} :
          t = <<a, b>> /\ (b = "duck" => t \in DuckPrograms)
    BY <1>4 DEF Long, DuckPrograms
  <2>2. Tail(t) = <<b>> /\ Head(t) = a /\ [t EXCEPT ![1] = "save"] = <<"save", b>>
    BY <2>1, TwoStages
  <2>3. (<<b>> \in DuckPrograms => b = "duck") /\ (<<"save", b>> \in DuckPrograms => b = "duck")
    BY DEF DuckPrograms
  <2>. QED BY <1>1, <2>1, <2>2, <2>3
<1>. QED BY <1>2, <1>3, <1>4

\* An attempt moves a session only to the volume of an entry at whose level it sits,
\* and settles such an entry only if it did.
LEMMA AttemptFacts ==
  ASSUME TypeOK, OwnApplications, NEW N \in SUBSET Snapshot, NEW o \in Attempts(N)
  PROVE  /\ \A s \in Sessions :
              \/ o.level[s] = level[s]
              \/ \E n \in N : n.session = s /\ n.ducked_to = level[s] /\ o.level[s] = n.previous
         /\ \A n \in o.settled :
              n.ducked_to = level[n.session] => o.level[n.session] = n.previous
<1>1. PICK seen \in SUBSET There :
        \E m \in Matchings(N, seen), blind \in SUBSET seen :
          o = Outcome(N, m, blind, seen = There /\ blind = {})
  BY DEF Attempts
<1>2. PICK m \in Matchings(N, seen), blind \in SUBSET seen :
        o = Outcome(N, m, blind, seen = There /\ blind = {})
  BY <1>1
<1>3. /\ m \in [N -> seen \cup {None}]
      /\ \A n \in N : m[n] # None => Belongs(n, m[n])
      /\ \A n, p \in N : m[n] = m[p] /\ m[n] # None => n = p
  BY DEF Matchings
<1>4. \A n \in N : n.session \in Sessions
  BY DEF Snapshot
<1>5. \A n \in N : m[n] # None => m[n] = n.session
  BY <1>3, <1>4 DEF Belongs, OwnApplications, There
<1>6. ASSUME NEW n \in N, NEW s \in Sessions, m[n] = s
      PROVE  (CHOOSE p \in N : m[p] = s) = n
  BY <1>3, <1>6, SessionsAssumption
<1>7. \A s \in Sessions :
        o.level[s] = IF \E n \in N : m[n] = s /\ Ours(n, s)
                     THEN (CHOOSE p \in N : m[p] = s).previous ELSE level[s]
  BY <1>2 DEF Outcome
<1>8. ASSUME NEW s \in Sessions, o.level[s] # level[s]
      PROVE  \E n \in N : n.session = s /\ n.ducked_to = level[s] /\ o.level[s] = n.previous
  <2>1. PICK n \in N : m[n] = s /\ Ours(n, s)
    BY <1>7, <1>8
  <2>2. o.level[s] = n.previous
    BY <1>6, <1>7, <2>1
  <2>3. n.session = s
    BY <1>5, <2>1, SessionsAssumption
  <2>. QED BY <2>1, <2>2, <2>3 DEF Ours
<1>9. ASSUME NEW n \in o.settled, n.ducked_to = level[n.session]
      PROVE  o.level[n.session] = n.previous
  <2>1. n \in N /\ m[n] # None
    BY <1>2 DEF Outcome
  <2>2. m[n] = n.session /\ n.session \in Sessions
    BY <1>4, <1>5, <2>1
  <2>3. Ours(n, n.session)
    BY <1>9 DEF Ours
  <2>. QED BY <1>6, <1>7, <2>1, <2>2, <2>3
<1>. QED BY <1>8, <1>9

\* A step that leaves volumes, entries and journal alone keeps the accounts.
LEMMA SameAccounts ==
  ASSUME Accounts, UNCHANGED <<level, want, journal, up, snapshots, pending, spoiled>>,
         Orphans' = Orphans, Saving => Saving'
  PROVE  Accounts'
  BY DEF Accounts, Unique, Faithful, Saved, NothingForgotten, Entries, Known

LEMMA InitInv == Init => Inv
<1>. SUFFICES ASSUME Init PROVE Inv
  OBVIOUS
<1>1. /\ journal = {} /\ up /\ ~ ducked /\ snapshots = {} /\ pending = {}
      /\ queue = <<>> /\ todo = <<>> /\ level = want
  BY DEF Init
<1>2. Orphans = {} /\ Entries = {}
  BY <1>1 DEF Orphans, Entries
<1>3. DuckShape
  BY <1>1 DEF DuckShape, DuckPrograms
<1>4. OrphansFirst
  BY <1>1 DEF OrphansFirst
<1>. QED BY <1>1, <1>2, <1>3, <1>4
         DEF Inv, Accounts, Unique, Faithful, Saved, NothingForgotten

LEMMA MixerInv ==
  ASSUME TypeOK, Inv, NEW s \in Sessions,
         SessionGoes(s) \/ SessionComes(s) \/ \E v \in UserLevels : UserMoves(s, v)
  PROVE  Inv'
<1>. USE DEF mixer, ledger, work, users, bounds, ghost
<1>1. /\ UNCHANGED <<journal, up, ducked, snapshots, pending, queue, todo, dict, chimes, reading>>
      /\ UNCHANGED spoiled
  BY DEF SessionGoes, SessionComes, UserMoves
<1>2. Orphans' = Orphans /\ Saving' = Saving
  BY <1>1 DEF Orphans, Saving
<1>3. DuckShape' /\ OrphansFirst'
  BY <1>1 DEF Inv, DuckShape, OrphansFirst
<1>4. CASE SessionGoes(s) \/ SessionComes(s)
  <2>1. UNCHANGED <<level, want>>
    BY <1>4 DEF SessionGoes, SessionComes
  <2>. QED BY <1>1, <1>2, <1>3, <2>1, SameAccounts DEF Inv
<1>5. CASE \E v \in UserLevels : UserMoves(s, v)
  <2>1. PICK v \in UserLevels : UserMoves(s, v)
    BY <1>5
  <2>2. /\ level' = [level EXCEPT ![s] = v] /\ want' = [want EXCEPT ![s] = v]
        /\ \A n \in Outstanding : n.session = s => n.ducked_to # v
    BY <2>1 DEF UserMoves
  <2>3. \A t \in Sessions : \/ t = s /\ level'[t] = v /\ want'[t] = v
                            \/ t # s /\ level'[t] = level[t] /\ want'[t] = want[t]
    BY <2>2 DEF TypeOK
  <2>4. Entries' = Entries /\ Known' = Known
    BY <1>1, <1>2 DEF Entries, Known
  <2>5. Unique' /\ Saved'
    BY <1>1, <1>2, <2>4 DEF Inv, Accounts, Unique, Saved
  <2>6. \A n \in Entries : n.session \in Sessions
    BY JobTypes DEF TypeOK, Entries, Orphans, Snapshot, Job1
  <2>7. ASSUME NEW n \in Entries, n.session \notin spoiled, n.ducked_to = level'[n.session]
        PROVE  n.previous = want'[n.session]
    <3>1. CASE n.session = s
      <4>1. n \in Orphans => n \in journal
        BY <2>7 DEF Inv, OrphansFirst, Orphans, Saving, Accounts, Saved
      <4>. QED BY <2>2, <2>3, <2>7, <3>1, <4>1 DEF Entries, Outstanding
    <3>2. CASE n.session # s
      BY <2>3, <2>6, <2>7, <3>2 DEF Inv, Accounts, Faithful
    <3>. QED BY <3>1, <3>2
  <2>8. Faithful'
    BY <1>1, <2>4, <2>7 DEF Faithful
  <2>9. NothingForgotten'
    BY <1>1, <2>3, <2>4 DEF Inv, Accounts, NothingForgotten
  <2>. QED BY <1>3, <2>5, <2>8, <2>9 DEF Inv, Accounts
<1>. QED BY <1>4, <1>5

\* A job that is sent comes after the orphans of an earlier run.
LEMMA SentLast ==
  ASSUME TypeOK, OrphansFirst, NEW j \in Job, j.kind # "orphaned", Send(j),
         UNCHANGED <<todo, snapshots, pending>>
  PROVE  OrphansFirst' /\ Orphans' = Orphans
<1>1. queue \in Seq(Job) /\ queue' = Append(queue, j)
  BY DEF TypeOK, Send
<1>2. CASE queue = <<>>
  <2>1. queue' = <<j>> /\ Len(queue') = 1 /\ Head(queue') = j
    BY <1>1, <1>2
  <2>. QED BY <1>2, <2>1 DEF OrphansFirst, Orphans
<1>3. CASE queue # <<>>
  <2>1. /\ Len(queue') = Len(queue) + 1 /\ Head(queue') = Head(queue) /\ queue' # <<>>
        /\ \A i \in 1..Len(queue) : queue'[i] = queue[i]
        /\ queue'[Len(queue) + 1] = j
    BY <1>1, <1>3
  <2>2. \A i \in 2..Len(queue') : i \in 2..Len(queue) \/ i = Len(queue) + 1
    BY <1>1, <2>1
  <2>3. Len(queue) \in Nat
    BY <1>1
  <2>. QED BY <1>3, <2>1, <2>2, <2>3 DEF OrphansFirst, Orphans
<1>. QED BY <1>2, <1>3

LEMMA UserInv ==
  ASSUME TypeOK, Inv,
         \/ TakeStarts \/ TakeStops \/ StopIsReported \/ StopIsLost \/ TakeEnds
         \/ \E k \in chimes : ChimeAsks(k) \/ ChimeDoesNotAsk(k)
         \/ ReadStarts \/ IslandShows \/ ReadEnds \/ ReadIsLost \/ Exits
  PROVE  Inv'
<1>. USE DEF mixer, ledger, work, users, bounds, ghost
<1>1. UNCHANGED <<level, want, journal, up, ducked, snapshots, pending, todo, spoiled>>
  BY DEF TakeStarts, TakeStops, StopIsReported, StopIsLost, TakeEnds, ChimeAsks,
         ChimeDoesNotAsk, ReadStarts, IslandShows, ReadEnds, ReadIsLost, Exits
<1>2. up
  <2>1. \/ up \/ chimes # {} \/ dict \in {"live", "stopped", "processing"}
        \/ reading \in {"asked", "shown"}
    BY DEF TakeStarts, TakeStops, StopIsReported, StopIsLost, TakeEnds, Recording,
           ReadStarts, IslandShows, ReadEnds, ReadIsLost, Exits
  <2>. QED BY <2>1 DEF Inv, DuckShape
<1>3. queue' = queue \/ \E j \in Job : j.kind # "orphaned" /\ Send(j)
  <2>1. \A r \in Reasons : SendRestore(r) => \E j \in Job : j.kind # "orphaned" /\ Send(j)
    BY DEF SendRestore, Job
  <2>2. \A r \in Reasons, k \in Nat, c \in Cuts :
          Send([kind |-> "duck", reason |-> r, take |-> k, cut |-> c]) =>
            \E j \in Job : j.kind # "orphaned" /\ Send(j)
    BY DEF Job
  <2>3. Send([kind |-> "all"]) => \E j \in Job : j.kind # "orphaned" /\ Send(j)
    BY DEF Job
  <2>4. CASE TakeStarts \/ TakeStops \/ StopIsLost \/ IslandShows \/ ReadIsLost
    BY <2>4 DEF TakeStarts, TakeStops, StopIsLost, IslandShows, ReadIsLost
  <2>5. CASE StopIsReported \/ TakeEnds \/ ReadEnds
    BY <2>1, <2>5 DEF StopIsReported, TakeEnds, ReadEnds, Reasons
  <2>6. CASE \E k \in chimes : ChimeAsks(k) \/ ChimeDoesNotAsk(k)
    BY <2>2, <2>6 DEF ChimeAsks, ChimeDoesNotAsk, Reasons, TypeOK
  <2>7. CASE ReadStarts
    BY <2>2, <2>7 DEF ReadStarts, Reasons
  <2>8. CASE Exits
    BY <2>3, <2>8 DEF Exits
  <2>. QED BY <2>4, <2>5, <2>6, <2>7, <2>8
<1>4. OrphansFirst' /\ Orphans' = Orphans
  <2>1. CASE queue' = queue
    BY <1>1, <2>1 DEF Inv, OrphansFirst, Orphans
  <2>2. CASE \E j \in Job : j.kind # "orphaned" /\ Send(j)
    BY <1>1, <2>2, SentLast DEF Inv
  <2>. QED BY <1>3, <2>1, <2>2
<1>5. DuckShape'
  BY <1>1, <1>2 DEF Inv, DuckShape
<1>6. Saving' = Saving
  BY <1>1 DEF Saving
<1>. QED BY <1>1, <1>4, <1>5, <1>6, SameAccounts DEF Inv

\* Taking any other job leaves no orphans behind it.
LEMMA TakenFirst ==
  ASSUME TypeOK, OrphansFirst, queue # <<>>, queue' = Tail(queue)
  PROVE  OrphansFirst' /\ Orphans' = {}
<1>1. queue \in Seq(Job) /\ Len(queue) \in Nat
  BY DEF TypeOK
<1>2. /\ Len(queue') = Len(queue) - 1
      /\ \A i \in 1..Len(queue') : queue'[i] = queue[i + 1]
      /\ queue' # <<>> => Head(queue') = queue[2] /\ Len(queue) >= 2
  BY <1>1
<1>3. \A i \in 1..Len(queue') : queue'[i].kind # "orphaned"
  BY <1>1, <1>2 DEF OrphansFirst
<1>4. queue' # <<>> => Head(queue').kind # "orphaned"
  BY <1>1, <1>2 DEF OrphansFirst
<1>. QED BY <1>1, <1>2, <1>3, <1>4 DEF OrphansFirst, Orphans

LEMMA TakenInv ==
  ASSUME TypeOK, Inv,
         \/ DuckIsSkipped \/ DuckRefreshes \/ DuckIsTaken
         \/ RestoreIsTaken \/ RestoreAllIsTaken \/ WatchdogTicks
  PROVE  Inv'
<1>. USE DEF mixer, ledger, work, users, bounds, ghost
<1>1. /\ UNCHANGED <<level, want, journal, up, ducked, snapshots, pending, spoiled>>
      /\ up /\ todo = <<>>
  BY DEF DuckIsSkipped, DuckRefreshes, DuckIsTaken, RestoreIsTaken, RestoreAllIsTaken,
         WatchdogTicks, NextJob, Idle
<1>2. OrphansFirst' /\ Orphans' = Orphans
  <2>1. CASE WatchdogTicks
    BY <2>1 DEF WatchdogTicks, Inv, OrphansFirst, Orphans
  <2>2. CASE ~ WatchdogTicks
    <3>1. queue # <<>> /\ queue' = Tail(queue) /\ Job1.kind # "orphaned"
      BY <2>2 DEF DuckIsSkipped, DuckRefreshes, DuckIsTaken, RestoreIsTaken,
                  RestoreAllIsTaken, NextJob
    <3>2. Orphans = {}
      BY <3>1 DEF Orphans, Job1
    <3>. QED BY <3>1, <3>2, TakenFirst DEF Inv
  <2>. QED BY <2>1, <2>2
<1>3. \/ todo' \in {<<>>, <<"restore">>, <<"restore", "heal">>}
      \/ todo' = <<"heal", "duck">> /\ ~ ducked
  BY <1>1 DEF DuckIsSkipped, DuckRefreshes, DuckIsTaken, RestoreIsTaken,
              RestoreAllIsTaken, WatchdogTicks
<1>4. DuckShape'
  <2>1. {<<>>, <<"restore">>, <<"restore", "heal">>} \cap DuckPrograms = {}
    BY DEF DuckPrograms
  <2>. QED BY <1>1, <1>3, <2>1 DEF Inv, DuckShape
<1>5. ~ Saving
  BY <1>1 DEF Saving
<1>. QED BY <1>1, <1>2, <1>4, <1>5, SameAccounts DEF Inv

LEMMA OrphansInv ==
  ASSUME TypeOK, Inv, OrphansAreTaken
  PROVE  Inv'
<1>. USE DEF mixer, ledger, work, users, bounds, ghost
<1>1. /\ UNCHANGED <<level, want, journal, up, ducked, snapshots, spoiled>>
      /\ up /\ todo = <<>> /\ todo' = <<"heal", "save">>
      /\ queue # <<>> /\ queue' = Tail(queue) /\ Head(queue).kind = "orphaned"
      /\ pending' \in Pushed(pending, Head(queue).snapshots)
  BY DEF OrphansAreTaken, NextJob, Idle, Job1
<1>2. /\ snapshots = {} /\ pending = {} /\ Orphans = Head(queue).snapshots
      /\ OrphansFirst' /\ Orphans' = {}
  BY <1>1, TakenFirst DEF Inv, OrphansFirst, Orphans
<1>3. ~ Saving /\ ~ Saving'
  BY <1>1, TwoStages DEF Saving
<1>4. pending' \subseteq Orphans /\ \A n \in Orphans : \E q \in pending' : SameKey(n, q)
  BY <1>1, <1>2 DEF Pushed
<1>5. Entries' \subseteq Entries
  BY <1>1, <1>2, <1>4 DEF Entries
<1>6. Known' = pending' /\ Known = Orphans
  BY <1>1, <1>2 DEF Known
<1>7. DuckShape'
  <2>1. <<"heal", "save">> \notin DuckPrograms
    BY DEF DuckPrograms
  <2>. QED BY <1>1, <2>1 DEF Inv, DuckShape
<1>8. Unique' /\ Faithful'
  BY <1>1, <1>5 DEF Inv, Accounts, Unique, Faithful
<1>9. ASSUME NEW n \in Orphans, n.session \notin spoiled PROVE n \in pending'
  <2>1. PICK q \in pending' : SameKey(n, q)
    BY <1>4
  <2>. QED BY <1>4, <1>9, <2>1 DEF Inv, Accounts, Unique, Entries, SameKey
<1>10. Saved'
  <2>. SUFFICES ASSUME NEW n \in Entries', n.session \notin spoiled
                PROVE  n \in pending' /\ n \in journal
    BY <1>1, <1>6 DEF Saved
  <2>. QED BY <1>3, <1>5, <1>6, <1>9 DEF Inv, Accounts, Saved
<1>11. NothingForgotten'
  BY <1>1, <1>6, <1>9 DEF Inv, Accounts, NothingForgotten
<1>. QED BY <1>2, <1>7, <1>8, <1>10, <1>11 DEF Inv, Accounts

\* A stage runs on a ledger that the journal agrees with, once the orphans are taken.
LEMMA AtStage ==
  ASSUME TypeOK, Inv, NEW x, Stage(x)
  PROVE  /\ Orphans = {} /\ Known = snapshots \cup pending
         /\ Entries = snapshots \cup pending \cup journal
         /\ Saving <=> x = "save"
         /\ \A n \in Entries : n.session \in Sessions
<1>1. up /\ todo # <<>> /\ Head(todo) = x
  BY DEF Stage
<1>2. Orphans = {}
  BY <1>1 DEF Inv, OrphansFirst, Orphans
<1>. QED BY <1>1, <1>2 DEF Known, Entries, Saving, TypeOK, Snapshot

\* A stage that changes neither volumes nor entries.
LEMMA IdleStageInv ==
  ASSUME TypeOK, Inv, NothingToDo \/ EnumerationFails
  PROVE  Inv'
<1>. USE DEF mixer, ledger, work, users, bounds, ghost
<1>1. /\ UNCHANGED <<level, want, journal, up, ducked, snapshots, pending, queue, spoiled>>
      /\ Done
  BY DEF NothingToDo, EnumerationFails
<1>2. PICK x \in {"heal", "restore", "duck"} : Stage(x)
  BY DEF NothingToDo, EnumerationFails
<1>3. ~ Saving /\ Orphans = {} /\ up /\ todo # <<>>
  BY <1>2, AtStage DEF Stage
<1>4. Orphans' = Orphans
  BY <1>1 DEF Orphans
<1>5. OrphansFirst'
  BY <1>1, <1>3 DEF Inv, OrphansFirst
<1>6. DuckShape'
  BY <1>1, <1>3, DuckLists DEF Inv, DuckShape, Done, TypeOK
<1>. QED BY <1>1, <1>3, <1>4, <1>5, <1>6, SameAccounts DEF Inv

LEMMA NoOrphans ==
  ASSUME OrphansFirst, todo # <<>>, queue' = queue
  PROVE  OrphansFirst' /\ Orphans' = {}
  BY DEF OrphansFirst, Orphans

\* What a restore of entries may do to the accounts: sessions go home or stay, and
\* an entry that is given up is not needed.
LEMMA RestoredAccounts ==
  ASSUME TypeOK, Inv, OwnApplications, NEW N \in SUBSET Entries, N \subseteq Snapshot,
         NEW o \in Attempts(N), level' = o.level, want' = want, spoiled' = spoiled
  PROVE  /\ \A s \in Sessions \ spoiled : level'[s] = level[s] \/ level'[s] = want'[s]
         /\ \A n \in Entries : n.session \in Sessions \ spoiled /\ n.ducked_to = level'[n.session]
              => n.previous = want'[n.session]
         /\ \A n \in o.settled : n.session \in Sessions \ spoiled /\ n.ducked_to = level[n.session]
              => level'[n.session] = want'[n.session]
<1>1. ASSUME NEW s \in Sessions \ spoiled, level'[s] # level[s]
      PROVE  \E n \in N : n.session = s /\ n.previous = want[s] /\ level'[s] = n.previous
  <2>1. PICK n \in N : n.session = s /\ n.ducked_to = level[s] /\ level'[s] = n.previous
    BY <1>1, AttemptFacts
  <2>2. n.previous = want[s]
    BY <2>1 DEF Inv, Accounts, Faithful
  <2>. QED BY <2>1, <2>2
<1>2. \A s \in Sessions \ spoiled : level'[s] = level[s] \/ level'[s] = want'[s]
  BY <1>1
<1>3. ASSUME NEW n \in Entries, n.session \in Sessions \ spoiled, n.ducked_to = level'[n.session]
      PROVE  n.previous = want'[n.session]
  <2>1. CASE level'[n.session] = level[n.session]
    BY <1>3, <2>1 DEF Inv, Accounts, Faithful
  <2>2. CASE level'[n.session] # level[n.session]
    <3>1. PICK p \in N : p.session = n.session /\ p.previous = want[n.session]
      BY <1>1, <1>3, <2>2
    <3>2. n = p
      BY <1>3, <3>1 DEF Inv, Accounts, Unique
    <3>. QED BY <3>1, <3>2
  <2>. QED BY <2>1, <2>2
<1>4. ASSUME NEW n \in o.settled, n.session \in Sessions \ spoiled, n.ducked_to = level[n.session]
      PROVE  level'[n.session] = want'[n.session]
  <2>1. n \in Entries /\ level'[n.session] = n.previous
    BY <1>4, AttemptFacts, AttemptTypes
  <2>. QED BY <1>4, <2>1 DEF Inv, Accounts, Faithful
<1>. QED BY <1>2, <1>3, <1>4

LEMMA HealInv ==
  ASSUME TypeOK, Inv, OwnApplications, Heal
  PROVE  Inv'
<1>. USE DEF mixer, ledger, work, users, bounds, ghost
<1>1. PICK o \in Attempts(pending) :
        /\ level' = o.level /\ pending' = pending \ o.settled
        /\ IF o.settled = {} THEN Done ELSE DoneAndSave
  BY DEF Heal
<1>2. /\ UNCHANGED <<want, journal, up, ducked, snapshots, queue, spoiled>>
      /\ Stage("heal") /\ up /\ todo # <<>> /\ Head(todo) = "heal" /\ todo \in Programs
  BY DEF Heal, Stage, TypeOK
<1>3. /\ ~ Saving /\ Known = snapshots \cup pending
      /\ Entries = snapshots \cup pending \cup journal
      /\ \A n \in Entries : n.session \in Sessions
  BY <1>2, AtStage
<1>4. OrphansFirst' /\ Orphans' = {}
  BY <1>2, NoOrphans DEF Inv
<1>5. DuckShape'
  BY <1>1, <1>2, DuckLists DEF Inv, DuckShape, Done, DoneAndSave
<1>6. pending \in SUBSET Entries /\ pending \subseteq Snapshot
  BY <1>3 DEF TypeOK
<1>7. /\ \A s \in Sessions \ spoiled : level'[s] = level[s] \/ level'[s] = want'[s]
      /\ \A n \in Entries : n.session \in Sessions \ spoiled /\ n.ducked_to = level'[n.session]
              => n.previous = want'[n.session]
      /\ \A n \in o.settled : n.session \in Sessions \ spoiled /\ n.ducked_to = level[n.session]
              => level'[n.session] = want'[n.session]
  BY <1>1, <1>2, <1>6, RestoredAccounts
<1>8. Entries' \subseteq Entries /\ Known' = snapshots \cup (pending \ o.settled)
  BY <1>1, <1>2, <1>3, <1>4 DEF Entries, Known
<1>9. Unique' /\ Faithful'
  BY <1>2, <1>3, <1>7, <1>8 DEF Inv, Accounts, Unique, Faithful
<1>10. Saved'
  <2>1. CASE o.settled = {}
    BY <1>1, <1>2, <1>3, <1>8, <2>1 DEF Inv, Accounts, Saved
  <2>2. CASE o.settled # {}
    BY <1>1, <1>2, <2>2, StageSaves DEF DoneAndSave, Saved, Saving
  <2>. QED BY <2>1, <2>2
<1>11. NothingForgotten'
  <2>. SUFFICES ASSUME NEW s \in Sessions \ spoiled, level'[s] # want'[s]
                PROVE  \E n \in Known' : n.session = s /\ n.previous = want'[s]
                                       /\ n.ducked_to = level'[s]
    BY <1>2 DEF NothingForgotten
  <2>1. level'[s] = level[s]
    BY <1>7
  <2>2. PICK n \in Known : n.session = s /\ n.previous = want[s] /\ n.ducked_to = level[s]
    BY <1>2, <2>1 DEF Inv, Accounts, NothingForgotten
  <2>3. n \notin o.settled
    BY <1>7, <2>2
  <2>. QED BY <1>2, <1>3, <1>8, <2>1, <2>2, <2>3
<1>. QED BY <1>4, <1>5, <1>9, <1>10, <1>11 DEF Inv, Accounts

LEMMA RestoreInv ==
  ASSUME TypeOK, Inv, OwnApplications, RestoreIfIdle
  PROVE  Inv'
<1>. USE DEF mixer, ledger, work, users, bounds, ghost
<1>1. PICK o \in Attempts(snapshots) :
        level' = o.level /\ pending' \in Pushed(pending, snapshots \ o.settled)
  BY DEF RestoreIfIdle
<1>2. /\ UNCHANGED <<want, journal, up, queue, spoiled>>
      /\ snapshots' = {} /\ ~ ducked' /\ DoneAndSave
      /\ Stage("restore") /\ up /\ todo # <<>> /\ Head(todo) = "restore" /\ todo \in Programs
  BY DEF RestoreIfIdle, Stage, TypeOK
<1>3. /\ Known = snapshots \cup pending
      /\ Entries = snapshots \cup pending \cup journal
      /\ \A n \in Entries : n.session \in Sessions
  BY <1>2, AtStage
<1>4. OrphansFirst' /\ Orphans' = {}
  BY <1>2, NoOrphans DEF Inv
<1>5. DuckShape'
  BY <1>2 DEF Inv, DuckShape
<1>6. snapshots \in SUBSET Entries /\ snapshots \subseteq Snapshot
  BY <1>3 DEF TypeOK
<1>7. /\ \A s \in Sessions \ spoiled : level'[s] = level[s] \/ level'[s] = want'[s]
      /\ \A n \in Entries : n.session \in Sessions \ spoiled /\ n.ducked_to = level'[n.session]
              => n.previous = want'[n.session]
      /\ \A n \in o.settled : n.session \in Sessions \ spoiled /\ n.ducked_to = level[n.session]
              => level'[n.session] = want'[n.session]
  BY <1>1, <1>2, <1>6, RestoredAccounts
<1>8. /\ pending' \subseteq pending \cup snapshots /\ pending \subseteq pending'
      /\ \A n \in snapshots \ o.settled : \E q \in pending' : SameKey(n, q)
  BY <1>1 DEF Pushed
<1>9. Entries' \subseteq Entries /\ Known' = pending'
  BY <1>2, <1>3, <1>4, <1>8 DEF Entries, Known
<1>10. Unique' /\ Faithful'
  BY <1>2, <1>3, <1>7, <1>9 DEF Inv, Accounts, Unique, Faithful
<1>11. Saved'
  BY <1>2, StageSaves DEF DoneAndSave, Saved, Saving
<1>12. NothingForgotten'
  <2>. SUFFICES ASSUME NEW s \in Sessions \ spoiled, level'[s] # want'[s]
                PROVE  \E n \in Known' : n.session = s /\ n.previous = want'[s]
                                       /\ n.ducked_to = level'[s]
    BY <1>2 DEF NothingForgotten
  <2>1. level'[s] = level[s]
    BY <1>7
  <2>2. PICK n \in Known : n.session = s /\ n.previous = want[s] /\ n.ducked_to = level[s]
    BY <1>2, <2>1 DEF Inv, Accounts, NothingForgotten
  <2>3. n \notin o.settled
    BY <1>7, <2>2
  <2>4. n \in pending'
    <3>1. CASE n \in pending
      BY <1>8, <3>1
    <3>2. CASE n \in snapshots
      <4>1. PICK q \in pending' : SameKey(n, q)
        BY <1>8, <2>3, <3>2
      <4>2. q \in Entries /\ n \in Entries /\ q.session = n.session
        BY <1>3, <1>8, <3>2, <4>1 DEF SameKey
      <4>3. q = n
        BY <2>2, <4>2 DEF Inv, Accounts, Unique
      <4>. QED BY <4>3
    <3>. QED BY <1>3, <2>2, <3>1, <3>2
  <2>. QED BY <1>2, <1>9, <2>1, <2>2, <2>4
<1>. QED BY <1>4, <1>5, <1>10, <1>11, <1>12 DEF Inv, Accounts

\* A duck captures only sessions whose volume is the user's, or spoils them.
LEMMA DuckInv ==
  ASSUME TypeOK, Inv, Duck
  PROVE  Inv'
<1>. USE DEF mixer, ledger, work, users, bounds, ghost
<1>1. PICK seen \in SUBSET There :
        LET new == {s \in seen : Target(level[s], cut) # level[s]} IN
        /\ snapshots' = {[session |-> s, key |-> key[s], previous |-> level[s],
                          ducked_to |-> Target(level[s], cut)] : s \in new}
        /\ level' = [s \in Sessions |-> IF s \in new THEN Target(level[s], cut) ELSE level[s]]
        /\ spoiled' = spoiled \cup {s \in new : \E n \in pending : Belongs(n, s)}
  BY DEF Duck
<1>. DEFINE new == {s \in seen : Target(level[s], cut) # level[s]}
<1>2. /\ UNCHANGED <<want, journal, up, pending, queue>>
      /\ ducked' /\ DoneAndSave
      /\ Stage("duck") /\ up /\ todo # <<>> /\ Head(todo) = "duck" /\ todo \in Programs
  BY DEF Duck, Stage, TypeOK
<1>3. /\ ~ Saving /\ Known = snapshots \cup pending
      /\ Entries = snapshots \cup pending \cup journal
      /\ \A n \in Entries : n.session \in Sessions
  BY <1>2, AtStage
<1>4. OrphansFirst' /\ Orphans' = {}
  <2>1. ~ (queue # <<>> /\ Head(queue).kind = "orphaned")
    BY <1>2 DEF Inv, OrphansFirst
  <2>. QED BY <1>2, <2>1 DEF Inv, OrphansFirst, Orphans
<1>5. snapshots = {} /\ todo = <<"duck">>
  <2>1. todo = <<"duck">>
    BY <1>2, DuckLists
  <2>. QED BY <2>1 DEF Inv, DuckShape, DuckPrograms
<1>6. DuckShape'
  BY <1>2, <1>5, DuckLists DEF Inv, DuckShape, DoneAndSave
<1>7. /\ new \subseteq Sessions /\ spoiled \subseteq spoiled'
      /\ \A n \in snapshots' : /\ n.session \in new /\ n.previous = level[n.session]
                               /\ n.ducked_to = level'[n.session]
      /\ \A n, o \in snapshots' : n.session = o.session => n = o
      /\ \A s \in new : \E n \in snapshots' : n.session = s
      /\ \A s \in Sessions \ new : level'[s] = level[s]
  <2>1. /\ new \subseteq Sessions /\ spoiled \subseteq spoiled'
        /\ level' = [s \in Sessions |-> IF s \in new THEN Target(level[s], cut) ELSE level[s]]
        /\ snapshots' = {[session |-> s, key |-> key[s], previous |-> level[s],
                          ducked_to |-> Target(level[s], cut)] : s \in new}
    BY <1>1 DEF There
  <2>. HIDE DEF new
  <2>2. \A s \in Sessions : level'[s] = IF s \in new THEN Target(level[s], cut) ELSE level[s]
    BY <2>1
  <2>3. \A n \in snapshots' : \E s \in new :
          n = [session |-> s, key |-> key[s], previous |-> level[s],
               ducked_to |-> Target(level[s], cut)]
    BY <2>1
  <2>4. ASSUME NEW n \in snapshots'
        PROVE  /\ n.session \in new /\ n.previous = level[n.session]
               /\ n.ducked_to = level'[n.session]
    BY <2>1, <2>2, <2>3
  <2>5. ASSUME NEW n \in snapshots', NEW o \in snapshots', n.session = o.session
        PROVE  n = o
    BY <2>3, <2>5
  <2>6. ASSUME NEW s \in new PROVE \E n \in snapshots' : n.session = s
    <3>. DEFINE n == [session |-> s, key |-> key[s], previous |-> level[s],
                      ducked_to |-> Target(level[s], cut)]
    <3>1. n \in snapshots' /\ n.session = s
      BY <2>1
    <3>. QED BY <3>1
  <2>. QED BY <2>1, <2>2, <2>4, <2>5, <2>6
<1>8. ASSUME NEW n \in Entries, n.session \notin spoiled'
      PROVE  n \in pending /\ n.session \notin new
  <2>1. n \in pending
    BY <1>3, <1>5, <1>7, <1>8 DEF Inv, Accounts, Saved
  <2>2. n.session \in new => n.session \in spoiled'
    BY <1>1, <2>1 DEF Belongs
  <2>. QED BY <1>8, <2>1, <2>2
<1>9. ASSUME NEW s \in new, s \notin spoiled'
      PROVE  level[s] = want[s]
  <2>1. SUFFICES ASSUME level[s] # want[s] PROVE FALSE
    OBVIOUS
  <2>2. PICK n \in Known : n.session = s
    BY <1>7, <1>9, <2>1 DEF Inv, Accounts, NothingForgotten
  <2>3. n \in Entries
    BY <1>3, <2>2
  <2>. QED BY <1>8, <1>9, <2>2, <2>3
<1>10. /\ Entries' = snapshots' \cup pending \cup journal
       /\ Known' = snapshots' \cup pending
       /\ \A n \in Entries' : n \in snapshots' \/ n \in Entries
  BY <1>2, <1>3, <1>4 DEF Entries, Known
<1>11. Unique'
  BY <1>7, <1>8, <1>10 DEF Inv, Accounts, Unique
<1>12. Faithful'
  <2>. SUFFICES ASSUME NEW n \in Entries', n.session \notin spoiled',
                       n.ducked_to = level'[n.session]
                PROVE  n.previous = want[n.session]
    BY <1>2 DEF Faithful
  <2>1. CASE n \in snapshots'
    BY <1>7, <1>9, <2>1
  <2>2. CASE n \in Entries
    BY <1>3, <1>7, <1>8, <2>2 DEF Inv, Accounts, Faithful
  <2>. QED BY <1>10, <2>1, <2>2
<1>13. Saved'
  BY <1>2, StageSaves DEF DoneAndSave, Saved, Saving
<1>14. NothingForgotten'
  <2>. SUFFICES ASSUME NEW s \in Sessions \ spoiled', level'[s] # want[s]
                PROVE  \E n \in Known' : n.session = s /\ n.previous = want[s]
                                       /\ n.ducked_to = level'[s]
    BY <1>2 DEF NothingForgotten
  <2>1. CASE s \in new
    <3>1. PICK n \in snapshots' : n.session = s
      BY <1>7, <2>1
    <3>2. n.previous = want[s] /\ n.ducked_to = level'[s]
      BY <1>7, <1>9, <2>1, <3>1
    <3>. QED BY <1>10, <3>1, <3>2
  <2>2. CASE s \notin new
    <3>1. level'[s] = level[s]
      BY <1>7, <2>2
    <3>2. PICK n \in Known : n.session = s /\ n.previous = want[s] /\ n.ducked_to = level[s]
      BY <1>7, <3>1 DEF Inv, Accounts, NothingForgotten
    <3>3. n \in pending
      BY <1>3, <1>5, <3>2
    <3>. QED BY <1>10, <3>1, <3>2, <3>3
  <2>. QED BY <2>1, <2>2
<1>. QED BY <1>4, <1>6, <1>11, <1>12, <1>13, <1>14 DEF Inv, Accounts

\* The journal becomes what the worker knows.
LEMMA SaveInv ==
  ASSUME TypeOK, Inv, Save
  PROVE  Inv'
<1>. USE DEF mixer, ledger, work, users, bounds, ghost
<1>1. /\ UNCHANGED <<level, want, up, ducked, snapshots, pending, queue, spoiled>>
      /\ journal' = snapshots \cup pending /\ Done
      /\ Stage("save") /\ up /\ todo # <<>> /\ todo \in Programs
  BY DEF Save, Stage, TypeOK
<1>2. /\ Known = snapshots \cup pending
      /\ Entries = snapshots \cup pending \cup journal
  BY <1>1, AtStage
<1>3. OrphansFirst' /\ Orphans' = {}
  <2>1. ~ (queue # <<>> /\ Head(queue).kind = "orphaned")
    BY <1>1 DEF Inv, OrphansFirst
  <2>. QED BY <1>1, <2>1 DEF Inv, OrphansFirst, Orphans
<1>4. DuckShape'
  BY <1>1, DuckLists DEF Inv, DuckShape, Done
<1>5. Known' = Known /\ Entries' = Known /\ journal' = Known
  BY <1>1, <1>2, <1>3 DEF Known, Entries
<1>6. Unique' /\ Faithful'
  BY <1>1, <1>2, <1>5 DEF Inv, Accounts, Unique, Faithful
<1>7. Saved'
  BY <1>5 DEF Saved
<1>8. NothingForgotten'
  BY <1>1, <1>5 DEF Inv, Accounts, NothingForgotten
<1>. QED BY <1>3, <1>4, <1>6, <1>7, <1>8 DEF Inv, Accounts

\* Death leaves the journal, which the ledger agreed with unless it was being written.
LEMMA DiesInv ==
  ASSUME TypeOK, Inv, Dies
  PROVE  Inv'
<1>. USE DEF mixer, ledger, work, users, bounds, ghost
<1>1. /\ UNCHANGED <<level, want>> /\ up /\ ~ up' /\ spoiled \subseteq spoiled'
      /\ ~ ducked' /\ snapshots' = {} /\ pending' = {} /\ queue' = <<>> /\ todo' = <<>>
      /\ dict' = "idle" /\ chimes' = {} /\ reading' = "off"
      /\ journal' \subseteq journal
  BY DEF Dies
<1>2. OrphansFirst' /\ Orphans' = {}
  BY <1>1 DEF OrphansFirst, Orphans
<1>3. Known' = journal' /\ Entries' = journal' /\ journal' \subseteq Entries
  BY <1>1, <1>2 DEF Known, Entries
<1>4. DuckShape'
  BY <1>1 DEF DuckShape, DuckPrograms
<1>5. Unique' /\ Faithful'
  BY <1>1, <1>3 DEF Inv, Accounts, Unique, Faithful
<1>6. Saved'
  BY <1>3 DEF Saved
<1>7. ASSUME NEW n \in Known, n.session \notin spoiled'
      PROVE  n \in journal'
  <2>1. CASE Stage("save")
    <3>1. Known = snapshots \cup pending
      BY <2>1, AtStage
    <3>. QED BY <1>7, <2>1, <3>1 DEF Dies
  <2>2. CASE ~ Stage("save")
    <3>1. journal' = journal /\ ~ Saving /\ n \in Entries
      BY <1>1, <2>2 DEF Dies, Stage, Saving, Known, Entries
    <3>. QED BY <1>1, <1>7, <3>1 DEF Inv, Accounts, Saved
  <2>. QED BY <2>1, <2>2
<1>8. NothingForgotten'
  BY <1>1, <1>3, <1>7 DEF Inv, Accounts, NothingForgotten
<1>. QED BY <1>2, <1>4, <1>5, <1>6, <1>8 DEF Inv, Accounts

\* The next launch hands the journal to the worker as its first job.
LEMMA LaunchInv ==
  ASSUME TypeOK, Inv, Launches
  PROVE  Inv'
<1>. USE DEF mixer, ledger, work, users, bounds, ghost
<1>1. /\ UNCHANGED <<level, want, journal, ducked, snapshots, pending, todo, spoiled>>
      /\ ~ up /\ up' /\ snapshots = {} /\ pending = {} /\ queue = <<>> /\ todo = <<>>
      /\ queue' = IF journal = {} THEN <<>>
                  ELSE <<[kind |-> "orphaned", snapshots |-> journal]>>
  BY DEF Launches, Inv, DuckShape
<1>2. OrphansFirst' /\ Orphans' = journal /\ Orphans = {}
  BY <1>1 DEF OrphansFirst, Orphans
<1>3. Known' = journal /\ Known = journal /\ Entries' = journal /\ Entries = journal
  BY <1>1, <1>2 DEF Known, Entries
<1>4. DuckShape'
  BY <1>1 DEF Inv, DuckShape, DuckPrograms
<1>. QED BY <1>1, <1>2, <1>3, <1>4
         DEF Inv, Accounts, Unique, Faithful, Saved, NothingForgotten

LEMMA StepInv ==
  ASSUME TypeOK, Inv, OwnApplications, [Next]_vars
  PROVE  Inv'
<1>1. CASE Worker
  BY <1>1, TakenInv, OrphansInv, IdleStageInv, HealInv, RestoreInv, DuckInv, SaveInv DEF Worker
<1>2. CASE WatchdogTicks
  BY <1>2, TakenInv
<1>3. CASE Environment
  BY <1>3, MixerInv, UserInv, DiesInv, LaunchInv DEF Environment
<1>4. CASE UNCHANGED vars
  <2>1. UNCHANGED <<level, want, journal, up, ducked, snapshots, pending, queue, todo, dict,
                    chimes, reading, spoiled>>
    BY <1>4 DEF vars, mixer, ledger, work, users, ghost
  <2>2. Orphans' = Orphans /\ Saving' = Saving
    BY <2>1 DEF Orphans, Saving
  <2>3. DuckShape' /\ OrphansFirst'
    BY <2>1 DEF Inv, DuckShape, OrphansFirst
  <2>. QED BY <2>1, <2>2, <2>3, SameAccounts DEF Inv
<1>. QED BY <1>1, <1>2, <1>3, <1>4 DEF Next

LEMMA AlwaysInv == OwnApplications => (Spec => [](TypeOK /\ Inv))
<1>. SUFFICES ASSUME OwnApplications PROVE Spec => [](TypeOK /\ Inv)
  OBVIOUS
<1>1. Spec => []TypeOK
  BY DuckTypes
<1>2. TypeOK /\ Inv /\ [Next]_vars => Inv'
  BY StepInv
<1>. QED BY <1>1, <1>2, InitInv, PTL DEF Spec

\* Whatever the worker, the watchdog, the user and the mixer do, and whenever the
\* program dies and is launched again, a session that is not at its user's volume has
\* an entry that will take it home: the attempts, retries and journal of
\* winstt/ducking.rs lose none, for any sessions each alone in its application.
THEOREM NothingIsForgotten == OwnApplications => (Spec => []NothingForgotten)
<1>. SUFFICES ASSUME OwnApplications PROVE Spec => []NothingForgotten
  OBVIOUS
<1>1. Inv => NothingForgotten
  BY DEF Inv, Accounts
<1>. QED BY <1>1, AlwaysInv, PTL

\* The worker has something to do: a job, or a deadline (next_watchdog_deadline) by which
\* its receive times out.
WorkIsLeft ==
  \/ queue # <<>> \/ todo # <<>>
  \/ pending # {} \/ (active = {} /\ ducked)
  \/ \E h \in active : ~ Alive(h)

\* While nothing wants the duck, the worker does not sleep over a lowered session.
NobodySleepsOnIt ==
  up /\ ~ Recording /\ reading = "off" /\ (\E s \in Sessions \ spoiled : level[s] # want[s])
    => WorkIsLeft

\* A session that is not at its user's volume when neither a take nor the island wants the
\* duck keeps the worker awake: a job, an entry to retry, a holder whose probe is dead, or
\* a duck that nobody holds any more.  Lost events, reaped probes and failed attempts
\* never leave it to a receive without a timeout (next_watchdog_deadline, worker_loop).
THEOREM SomebodyRestores == OwnApplications => (Spec => []NobodySleepsOnIt)
<1>. SUFFICES ASSUME OwnApplications PROVE Spec => []NobodySleepsOnIt
  OBVIOUS
<1>1. TypeOK /\ Inv => NobodySleepsOnIt
  <2>. SUFFICES ASSUME TypeOK, Inv, up, ~ Recording, reading = "off", queue = <<>>,
                       active = {}, pending = {},
                       NEW s \in Sessions \ spoiled, level[s] # want[s]
                PROVE  ducked
    BY DEF NobodySleepsOnIt, WorkIsLeft, Alive
  <2>1. \E n \in snapshots : n.session = s
    BY DEF Inv, Accounts, NothingForgotten, Known, Orphans
  <2>. QED BY <2>1 DEF Inv, DuckShape
<1>. QED BY <1>1, AlwaysInv, PTL

\* What a step does to the volumes.
OwnMoves == \A s \in Sessions \ spoiled' : level'[s] # level[s] =>
              \/ level'[s] = want'[s]
              \/ \E n \in snapshots' : n.session = s /\ n.previous = level[s]
                                        /\ n.ducked_to = level'[s]

LEMMA RestoreMoves ==
  ASSUME TypeOK, Inv, OwnApplications, Heal \/ RestoreIfIdle
  PROVE  OwnMoves
<1>1. /\ UNCHANGED <<want, spoiled>>
      /\ \E N \in {pending, snapshots} : \E o \in Attempts(N) : level' = o.level
  BY DEF Heal, RestoreIfIdle, ghost
<1>2. PICK N \in {pending, snapshots} : \E o \in Attempts(N) : level' = o.level
  BY <1>1
<1>3. PICK o \in Attempts(N) : level' = o.level
  BY <1>2
<1>4. N \in SUBSET Entries /\ N \subseteq Snapshot
  BY DEF Entries, TypeOK
<1>5. \A s \in Sessions \ spoiled : level'[s] = level[s] \/ level'[s] = want'[s]
  BY <1>1, <1>3, <1>4, RestoredAccounts
<1>. QED BY <1>1, <1>5 DEF OwnMoves

LEMMA DuckMoves ==
  ASSUME TypeOK, Duck
  PROVE  OwnMoves
<1>1. PICK seen \in SUBSET There :
        LET new == {s \in seen : Target(level[s], cut) # level[s]} IN
        /\ snapshots' = {[session |-> s, key |-> key[s], previous |-> level[s],
                          ducked_to |-> Target(level[s], cut)] : s \in new}
        /\ level' = [s \in Sessions |-> IF s \in new THEN Target(level[s], cut) ELSE level[s]]
  BY DEF Duck
<1>. DEFINE new == {s \in seen : Target(level[s], cut) # level[s]}
<1>2. SUFFICES ASSUME NEW s \in Sessions \ spoiled', level'[s] # level[s]
               PROVE  \E n \in snapshots' : n.session = s /\ n.previous = level[s]
                                            /\ n.ducked_to = level'[s]
  BY DEF OwnMoves
<1>3. s \in new /\ level'[s] = Target(level[s], cut)
  BY <1>1, <1>2
<1>. DEFINE n == [session |-> s, key |-> key[s], previous |-> level[s],
                  ducked_to |-> Target(level[s], cut)]
<1>4. n \in snapshots' /\ n.session = s /\ n.previous = level[s] /\ n.ducked_to = level'[s]
  BY <1>1, <1>3
<1>. QED BY <1>4

\* No step takes a session anywhere but to its user's volume, or down to a level
\* that a new entry accounts for: a late, repeated or recovered restore never stomps
\* a volume, for any sessions each alone in its application (rule 3 of
\* winstt/ducking.rs).
THEOREM OnlyOwnIsUndone == OwnApplications => (Spec => OnlyUndoesItsOwn)
<1>. SUFFICES ASSUME OwnApplications PROVE Spec => OnlyUndoesItsOwn
  OBVIOUS
<1>1. TypeOK /\ Inv /\ [Next]_vars => [OwnMoves]_vars
  <2>. SUFFICES ASSUME TypeOK, Inv, Next PROVE OwnMoves
    OBVIOUS
  <2>1. CASE Heal \/ RestoreIfIdle
    BY <2>1, RestoreMoves
  <2>2. CASE Duck
    BY <2>2, DuckMoves
  <2>3. CASE \E s \in Sessions, v \in UserLevels : UserMoves(s, v)
    <3>1. PICK t \in Sessions, v \in UserLevels : UserMoves(t, v)
      BY <2>3
    <3>. QED BY <3>1 DEF UserMoves, OwnMoves, TypeOK
  <2>4. CASE /\ ~ (Heal \/ RestoreIfIdle \/ Duck)
             /\ ~ \E s \in Sessions, v \in UserLevels : UserMoves(s, v)
    <3>. USE DEF mixer, ledger, work, users, bounds, ghost
    <3>1. Worker => level' = level
      BY <2>4 DEF Worker, DuckIsSkipped, DuckRefreshes, DuckIsTaken, RestoreIsTaken,
         RestoreAllIsTaken, OrphansAreTaken, NothingToDo, EnumerationFails, Save
    <3>2. WatchdogTicks => level' = level
      BY DEF WatchdogTicks
    <3>3. Environment => level' = level
      BY <2>4 DEF Environment, SessionGoes, SessionComes, TakeStarts, TakeStops,
         StopIsReported, StopIsLost, TakeEnds, ChimeAsks, ChimeDoesNotAsk, ReadStarts,
         IslandShows, ReadEnds, ReadIsLost, Exits, Dies, Launches
    <3>. QED BY <3>1, <3>2, <3>3 DEF Next, OwnMoves
  <2>. QED BY <2>1, <2>2, <2>3, <2>4
<1>2. Spec => [][OwnMoves]_vars
  BY <1>1, AlwaysInv, PTL DEF Spec
<1>. QED BY <1>2 DEF OnlyUndoesItsOwn, OwnMoves
-----------------------------------------------------------------------------
\* A live take keeps its hold.  The worker's queue is in the order of sending, so that no
\* job that ends a hold is behind the request of the take that is live.

AsksFor(j, k) == j.kind = "duck" /\ j.reason = "Dictation" /\ j.take = k
EndsHold(j)   == j.kind = "restore" /\ j.reason = "Dictation"

\* Requests are those of takes there have been; an exit is announced by its hook.
RequestsArePast ==
  /\ granted <= take
  /\ \A k \in chimes : k <= take
  /\ \A i \in 1 .. Len(queue) :
       /\ queue[i].kind = "duck" /\ queue[i].reason = "Dictation" => queue[i].take <= take
       /\ queue[i].kind = "all" => exiting

\* While a take is live, what may still end a hold was sent before it asked.
RestoresComeFirst ==
  Recording =>
    \A i \in 1 .. Len(queue) : EndsHold(queue[i]) =>
      /\ granted # take
      /\ \A j \in 1 .. Len(queue) : AsksFor(queue[j], take) => i < j

HoldInv == RequestsArePast /\ RestoresComeFirst /\ LiveTakeKeepsItsDuck

LEMMA SendAppends ==
  ASSUME TypeOK, NEW j \in Job, Send(j)
  PROVE  /\ Len(queue') = Len(queue) + 1 /\ Len(queue) \in Nat
         /\ \A i \in 1 .. Len(queue') :
              queue'[i] = IF i = Len(queue) + 1 THEN j ELSE queue[i]
<1>1. queue \in Seq(Job) /\ queue' = Append(queue, j)
  BY DEF TypeOK, Send
<1>. QED BY <1>1

LEMMA NextJobShifts ==
  ASSUME TypeOK, NEW k, NextJob(k)
  PROVE  /\ Len(queue') = Len(queue) - 1 /\ Len(queue) \in Nat /\ Len(queue) >= 1
         /\ Job1 = queue[1] /\ Job1.kind = k
         /\ \A i \in 1 .. Len(queue') : i + 1 \in 1 .. Len(queue) /\ queue'[i] = queue[i + 1]
<1>1. queue \in Seq(Job) /\ queue # <<>> /\ queue' = Tail(queue) /\ Job1.kind = k
  BY DEF TypeOK, NextJob
<1>2. Job1 = queue[1]
  BY <1>1 DEF Job1
<1>. QED BY <1>1, <1>2

LEMMA TakesAreNat ==
  ASSUME TypeOK
  PROVE  take \in Nat /\ granted \in Nat /\ chimes \subseteq Nat
  BY DEF TypeOK

\* Steps that touch neither the takes, nor the jobs, nor the holders.
LEMMA HoldFrame ==
  ASSUME HoldInv, UNCHANGED <<queue, active, dict, take, granted, exiting>>, chimes' \subseteq chimes
  PROVE  HoldInv'
  BY DEF HoldInv, RequestsArePast, RestoresComeFirst, LiveTakeKeepsItsDuck, Recording

\* Sending a job that ends no hold of a live take.
LEMMA SendHolds ==
  ASSUME TypeOK, HoldInv, NEW j \in Job, Send(j),
         UNCHANGED <<active, take, granted>>, chimes' \subseteq chimes,
         Recording' => dict' = dict,
         exiting => exiting',
         ~ exiting' \/ j.kind = "all" \/ exiting' = exiting,
         j.kind = "duck" /\ j.reason = "Dictation" => j.take \in Nat /\ j.take <= take,
         j.kind = "all" => exiting',
         EndsHold(j) => ~ Recording'
  PROVE  HoldInv'
<1>1. RequestsArePast'
  BY SendAppends DEF HoldInv, RequestsArePast
<1>2. RestoresComeFirst'
  <2>1. SUFFICES ASSUME Recording', NEW i \in 1 .. Len(queue'), EndsHold(queue'[i])
                 PROVE  /\ granted' # take'
                        /\ \A n \in 1 .. Len(queue') : AsksFor(queue'[n], take') => i < n
    BY DEF RestoresComeFirst
  <2>2. Recording /\ ~ EndsHold(j)
    BY <2>1 DEF Recording
  <2>3. i \in 1 .. Len(queue) /\ queue'[i] = queue[i]
    BY <2>1, <2>2, SendAppends
  <2>4. /\ granted # take
        /\ \A n \in 1 .. Len(queue) : AsksFor(queue[n], take) => i < n
    BY <2>1, <2>2, <2>3 DEF HoldInv, RestoresComeFirst
  <2>5. ASSUME NEW n \in 1 .. Len(queue'), AsksFor(queue'[n], take)
        PROVE  i < n
    <3>1. CASE n = Len(queue) + 1
      BY <2>3, <3>1, SendAppends
    <3>2. CASE n # Len(queue) + 1
      <4>1. n \in 1 .. Len(queue) /\ queue'[n] = queue[n]
        BY <3>2, SendAppends
      <4>. QED BY <2>4, <2>5, <4>1
    <3>. QED BY <3>1, <3>2
  <2>6. take' = take /\ granted' = granted
    OBVIOUS
  <2>. QED BY <2>4, <2>5, <2>6 DEF AsksFor
<1>3. LiveTakeKeepsItsDuck'
  BY DEF HoldInv, LiveTakeKeepsItsDuck, Recording
<1>. QED BY <1>1, <1>2, <1>3 DEF HoldInv

\* Taking a job off the queue, whatever it does to the holders.
LEMMA NextHolds ==
  ASSUME TypeOK, HoldInv, NEW k, NextJob(k), UNCHANGED <<chimes, take, dict, exiting>>,
         granted' \in Nat, granted' <= take,
         Recording /\ granted' = take /\ granted # take => AsksFor(Job1, take)
  PROVE  RequestsArePast' /\ RestoresComeFirst'
<1>1. RequestsArePast'
  BY NextJobShifts DEF HoldInv, RequestsArePast
<1>2. SUFFICES ASSUME Recording, NEW i \in 1 .. Len(queue'), EndsHold(queue'[i])
               PROVE  /\ granted' # take
                      /\ \A n \in 1 .. Len(queue') : AsksFor(queue'[n], take) => i < n
  BY <1>1 DEF RestoresComeFirst, Recording
<1>3. i \in Nat /\ i + 1 \in 1 .. Len(queue) /\ EndsHold(queue[i + 1])
  BY <1>2, NextJobShifts
<1>4. /\ granted # take
      /\ \A n \in 1 .. Len(queue) : AsksFor(queue[n], take) => i + 1 < n
  BY <1>2, <1>3 DEF HoldInv, RestoresComeFirst
<1>5. ~ AsksFor(Job1, take)
  BY <1>3, <1>4, NextJobShifts
<1>6. granted' # take
  BY <1>2, <1>4, <1>5
<1>7. ASSUME NEW n \in 1 .. Len(queue'), AsksFor(queue'[n], take)
      PROVE  i < n
  <2>1. n \in Nat /\ n + 1 \in 1 .. Len(queue) /\ AsksFor(queue[n + 1], take)
    BY <1>7, NextJobShifts
  <2>2. i + 1 < n + 1
    BY <1>4, <2>1
  <2>. QED BY <1>3, <2>1, <2>2
<1>. QED BY <1>6, <1>7

LEMMA UserHolds ==
  ASSUME TypeOK, HoldInv,
         \/ TakeStarts \/ TakeStops \/ StopIsReported \/ StopIsLost \/ TakeEnds
         \/ \E k \in chimes : ChimeAsks(k) \/ ChimeDoesNotAsk(k)
         \/ ReadStarts \/ IslandShows \/ ReadEnds \/ ReadIsLost \/ Exits
  PROVE  HoldInv'
<1>. USE DEF ledger, work, ghost
<1>r. \A r \in Reasons : LET j == [kind |-> "restore", reason |-> r]
                         IN  j \in Job /\ (EndsHold(j) => r = "Dictation")
  BY DEF Job, EndsHold
<1>d. \A r \in Reasons, k \in Nat, c \in Cuts :
        LET j == [kind |-> "duck", reason |-> r, take |-> k, cut |-> c]
        IN  j \in Job /\ ~ EndsHold(j)
  BY DEF Job, EndsHold
<1>1. CASE TakeStarts
  <2>1. /\ UNCHANGED <<active, queue, granted, exiting>> /\ take' = take + 1
        /\ chimes' = chimes \cup {take'}
    BY <1>1 DEF TakeStarts
  <2>2. RequestsArePast'
    <3>1. \A i \in 1 .. Len(queue) : queue[i] \in Job
      BY DEF TypeOK
    <3>2. \A i \in 1 .. Len(queue) : queue[i].kind = "duck" => queue[i].take \in Nat
      BY <3>1 DEF Job
    <3>. QED BY <2>1, <3>2, TakesAreNat DEF HoldInv, RequestsArePast
  <2>3. granted' # take' /\ \A n \in 1 .. Len(queue) : ~ AsksFor(queue[n], take')
    BY <2>1, TakesAreNat DEF HoldInv, RequestsArePast, AsksFor
  <2>4. RestoresComeFirst' /\ LiveTakeKeepsItsDuck'
    BY <2>1, <2>3 DEF RestoresComeFirst, LiveTakeKeepsItsDuck
  <2>. QED BY <2>2, <2>4 DEF HoldInv
<1>2. CASE TakeStops \/ StopIsLost
  <2>1. ~ Recording' /\ UNCHANGED <<queue, take, granted, chimes, exiting>>
    BY <1>2 DEF TakeStops, StopIsLost, Recording
  <2>. QED BY <2>1 DEF HoldInv, RequestsArePast, RestoresComeFirst, LiveTakeKeepsItsDuck
<1>3. CASE StopIsReported \/ TakeEnds \/ ReadEnds
  <2>1. CASE UNCHANGED queue
    <3>1. ~ Recording' /\ UNCHANGED <<queue, take, granted, chimes, exiting>>
      BY <1>3, <2>1 DEF StopIsReported, TakeEnds, ReadEnds, Recording, SendRestore, Send, TypeOK
    <3>. QED BY <3>1 DEF HoldInv, RequestsArePast, RestoresComeFirst, LiveTakeKeepsItsDuck
  <2>2. CASE SendRestore("Dictation") /\ ~ Recording'
    <3>. DEFINE j == [kind |-> "restore", reason |-> "Dictation"]
    <3>1. j \in Job /\ j.kind = "restore" /\ Send(j)
      BY <1>r, <2>2 DEF Reasons, SendRestore
    <3>2. UNCHANGED <<active, take, granted, chimes, exiting>>
      BY <1>3 DEF StopIsReported, TakeEnds, ReadEnds
    <3>. HIDE DEF j
    <3>. QED BY <2>2, <3>1, <3>2, SendHolds
  <2>3. CASE ReadEnds
    <3>. DEFINE j == [kind |-> "restore", reason |-> "ReadAloud"]
    <3>1. j \in Job /\ j.kind = "restore" /\ ~ EndsHold(j) /\ Send(j)
      BY <1>r, <2>3 DEF Reasons, SendRestore, ReadEnds
    <3>2. UNCHANGED <<active, take, granted, chimes, exiting, dict>>
      BY <2>3 DEF ReadEnds
    <3>. HIDE DEF j
    <3>. QED BY <3>1, <3>2, SendHolds
  <2>. QED BY <1>3, <2>1, <2>2, <2>3 DEF StopIsReported, TakeEnds, Recording
<1>4. CASE \E k \in chimes : ChimeAsks(k)
  <2>1. PICK k \in chimes : ChimeAsks(k)
    BY <1>4
  <2>2. PICK c \in Cuts : Send([kind |-> "duck", reason |-> "Dictation", take |-> k, cut |-> c])
    BY <2>1 DEF ChimeAsks
  <2>. DEFINE j == [kind |-> "duck", reason |-> "Dictation", take |-> k, cut |-> c]
  <2>3. k \in Nat /\ k <= take
    BY TakesAreNat DEF HoldInv, RequestsArePast
  <2>4. j \in Job /\ ~ EndsHold(j) /\ j.kind = "duck" /\ j.take = k
    BY <1>d, <2>3 DEF Reasons
  <2>5. UNCHANGED <<active, take, granted, exiting, dict>> /\ chimes' \subseteq chimes
    BY <2>1 DEF ChimeAsks
  <2>6. Send(j)
    BY <2>2
  <2>. HIDE DEF j
  <2>. QED BY <2>3, <2>4, <2>5, <2>6, SendHolds
<1>5. CASE ReadStarts
  <2>1. PICK c \in Cuts : Send([kind |-> "duck", reason |-> "ReadAloud", take |-> 0, cut |-> c])
    BY <1>5 DEF ReadStarts
  <2>. DEFINE j == [kind |-> "duck", reason |-> "ReadAloud", take |-> 0, cut |-> c]
  <2>2. j \in Job /\ ~ EndsHold(j) /\ j.kind = "duck" /\ j.reason = "ReadAloud" /\ Send(j)
    BY <1>d, <2>1 DEF Reasons
  <2>3. UNCHANGED <<active, take, granted, exiting, dict, chimes>>
    BY <1>5 DEF ReadStarts
  <2>. HIDE DEF j
  <2>. QED BY <2>2, <2>3, SendHolds
<1>6. CASE Exits
  <2>. DEFINE j == [kind |-> "all"]
  <2>1. j \in Job /\ ~ EndsHold(j) /\ j.kind = "all" /\ Send(j)
    BY <1>6 DEF Exits, Job, EndsHold
  <2>2. UNCHANGED <<active, take, granted, dict, chimes>> /\ exiting'
    BY <1>6 DEF Exits
  <2>. HIDE DEF j
  <2>. QED BY <2>1, <2>2, SendHolds
<1>7. CASE (\E k \in chimes : ChimeDoesNotAsk(k)) \/ IslandShows \/ ReadIsLost
  <2>1. UNCHANGED <<queue, active, dict, take, granted, exiting>> /\ chimes' \subseteq chimes
    BY <1>7 DEF ChimeDoesNotAsk, IslandShows, ReadIsLost
  <2>. QED BY <2>1, HoldFrame
<1>. QED BY <1>1, <1>2, <1>3, <1>4, <1>5, <1>6, <1>7

LEMMA TakenHolds ==
  ASSUME TypeOK, TypeOK', HoldInv,
         \/ DuckIsSkipped \/ DuckRefreshes \/ DuckIsTaken
         \/ RestoreIsTaken \/ RestoreAllIsTaken \/ OrphansAreTaken \/ WatchdogTicks
  PROVE  HoldInv'
<1>. USE DEF ledger, users, ghost
<1>1. CASE DuckIsSkipped \/ OrphansAreTaken
  <2>1. (\E k : NextJob(k)) /\ UNCHANGED <<chimes, take, dict, exiting, granted, active>>
    BY <1>1 DEF DuckIsSkipped, OrphansAreTaken
  <2>2. granted' \in Nat /\ granted' <= take
    BY <2>1, TakesAreNat DEF HoldInv, RequestsArePast
  <2>3. RequestsArePast' /\ RestoresComeFirst'
    BY <2>1, <2>2, NextHolds
  <2>. QED BY <2>1, <2>3 DEF HoldInv, LiveTakeKeepsItsDuck, Recording
<1>2. CASE DuckRefreshes \/ DuckIsTaken
  <2>1. /\ NextJob("duck") /\ Wanted /\ Grant /\ UNCHANGED <<chimes, take, dict, exiting>>
        /\ active' \in {Others(Job1.reason) \cup {Asker}, active \cup {Asker}}
    BY <1>2 DEF DuckRefreshes, DuckIsTaken
  <2>2. Job1.reason = "Dictation" => Recording /\ take = Job1.take
    BY <2>1 DEF Wanted, Alive, Asker
  <2>3. granted' \in Nat /\ granted' <= take
    BY <2>1, <2>2, TakesAreNat DEF Grant, HoldInv, RequestsArePast
  <2>4. granted' # granted => AsksFor(Job1, take)
    BY <2>1, <2>2 DEF Grant, AsksFor, NextJob
  <2>5. RequestsArePast' /\ RestoresComeFirst'
    BY <2>1, <2>3, <2>4, NextHolds
  <2>6. LiveTakeKeepsItsDuck'
    <3>1. SUFFICES ASSUME Recording, granted' = take, ~ exiting
                   PROVE  [reason |-> "Dictation", take |-> take] \in active'
      BY <2>1 DEF LiveTakeKeepsItsDuck, Recording
    <3>2. CASE Job1.reason = "Dictation"
      <4>1. Asker = [reason |-> "Dictation", take |-> take]
        BY <2>2, <3>2 DEF Asker
      <4>. QED BY <2>1, <4>1
    <3>3. CASE Job1.reason # "Dictation"
      <4>1. [reason |-> "Dictation", take |-> take] \in active
        BY <2>1, <3>1, <3>3 DEF Grant, HoldInv, LiveTakeKeepsItsDuck
      <4>2. [reason |-> "Dictation", take |-> take].reason = "Dictation"
        OBVIOUS
      <4>3. [reason |-> "Dictation", take |-> take] \in Others(Job1.reason)
        BY <3>3, <4>1, <4>2 DEF Others
      <4>. QED BY <2>1, <4>1, <4>3
    <3>. QED BY <3>2, <3>3
  <2>. QED BY <2>5, <2>6 DEF HoldInv
<1>3. CASE RestoreIsTaken
  <2>1. /\ NextJob("restore") /\ UNCHANGED <<chimes, take, dict, exiting, granted>>
        /\ active' = Others(Job1.reason)
    BY <1>3 DEF RestoreIsTaken
  <2>2. granted' \in Nat /\ granted' <= take
    BY <2>1, TakesAreNat DEF HoldInv, RequestsArePast
  <2>3. RequestsArePast' /\ RestoresComeFirst'
    BY <2>1, <2>2, NextHolds
  <2>4. LiveTakeKeepsItsDuck'
    <3>1. SUFFICES ASSUME Recording, granted = take, ~ exiting
                   PROVE  [reason |-> "Dictation", take |-> take] \in active'
      BY <2>1 DEF LiveTakeKeepsItsDuck, Recording
    <3>2. 1 \in 1 .. Len(queue) /\ Job1 = queue[1] /\ Job1.kind = "restore"
      BY <2>1, NextJobShifts
    <3>3. Job1.reason # "Dictation"
      BY <3>1, <3>2 DEF HoldInv, RestoresComeFirst, EndsHold
    <3>4. [reason |-> "Dictation", take |-> take] \in active
      BY <3>1 DEF HoldInv, LiveTakeKeepsItsDuck
    <3>5. [reason |-> "Dictation", take |-> take].reason = "Dictation"
      OBVIOUS
    <3>. QED BY <2>1, <3>3, <3>4, <3>5 DEF Others
  <2>. QED BY <2>3, <2>4 DEF HoldInv
<1>4. CASE RestoreAllIsTaken
  <2>1. NextJob("all") /\ UNCHANGED <<chimes, take, dict, exiting, granted>>
    BY <1>4 DEF RestoreAllIsTaken
  <2>2. granted' \in Nat /\ granted' <= take
    BY <2>1, TakesAreNat DEF HoldInv, RequestsArePast
  <2>3. RequestsArePast' /\ RestoresComeFirst'
    BY <2>1, <2>2, NextHolds
  <2>4. exiting
    BY <2>1, NextJobShifts DEF HoldInv, RequestsArePast
  <2>. QED BY <2>1, <2>3, <2>4 DEF HoldInv, LiveTakeKeepsItsDuck
<1>5. CASE WatchdogTicks
  <2>1. PICK reaped \in SUBSET {h \in active : ~ Alive(h) /\ reading # "asked"} :
          active' = active \ reaped
    BY <1>5 DEF WatchdogTicks
  <2>2. UNCHANGED <<queue, chimes, take, dict, exiting, granted>>
    BY <1>5 DEF WatchdogTicks
  <2>3. LiveTakeKeepsItsDuck'
    <3>1. SUFFICES ASSUME Recording, granted = take, ~ exiting
                   PROVE  [reason |-> "Dictation", take |-> take] \in active'
      BY <2>2 DEF LiveTakeKeepsItsDuck, Recording
    <3>2. [reason |-> "Dictation", take |-> take] \in active
      BY <3>1 DEF HoldInv, LiveTakeKeepsItsDuck
    <3>3. Alive([reason |-> "Dictation", take |-> take])
      BY <3>1 DEF Alive
    <3>. QED BY <2>1, <3>2, <3>3
  <2>. QED BY <2>2, <2>3 DEF HoldInv, RequestsArePast, RestoresComeFirst, Recording
<1>. QED BY <1>1, <1>2, <1>3, <1>4, <1>5

LEMMA LifeHolds ==
  ASSUME TypeOK, HoldInv, Dies \/ Launches
  PROVE  HoldInv'
<1>1. CASE Dies
  <2>1. /\ queue' = <<>> /\ ~ Recording' /\ chimes' = {} /\ UNCHANGED <<take, granted>>
    BY <1>1 DEF Dies, Recording
  <2>. QED BY <2>1 DEF HoldInv, RequestsArePast, RestoresComeFirst, LiveTakeKeepsItsDuck
<1>2. CASE Launches
  <2>1. /\ UNCHANGED <<active, dict, take, granted, chimes, exiting>>
        /\ \A i \in 1 .. Len(queue') : queue'[i].kind = "orphaned"
    BY <1>2 DEF Launches, ledger, users, ghost
  <2>. QED BY <2>1 DEF HoldInv, RequestsArePast, RestoresComeFirst, LiveTakeKeepsItsDuck,
         Recording, EndsHold
<1>. QED BY <1>1, <1>2

LEMMA HoldNext ==
  ASSUME TypeOK, TypeOK', HoldInv, [Next]_vars
  PROVE  HoldInv'
<1>1. CASE \/ UNCHANGED vars
           \/ NothingToDo \/ EnumerationFails \/ Heal \/ RestoreIfIdle \/ Duck \/ Save
           \/ \E s \in Sessions : SessionGoes(s) \/ SessionComes(s)
           \/ \E s \in Sessions, v \in UserLevels : UserMoves(s, v)
  <2>1. UNCHANGED <<queue, active, dict, take, granted, exiting, chimes>>
    BY <1>1 DEF vars, mixer, ledger, work, users, bounds, ghost, NothingToDo,
       EnumerationFails, Heal, RestoreIfIdle, Duck, Save, SessionGoes, SessionComes, UserMoves
  <2>. QED BY <2>1, HoldFrame
<1>. QED BY <1>1, UserHolds, TakenHolds, LifeHolds DEF Next, Worker, Environment

\* A live take whose request was accepted keeps its hold on the duck until it stops or the
\* program exits: the queue of the worker is in the order of sending, and the watchdog
\* reaps only holders whose own take is over (winstt/ducking.rs).
THEOREM LiveTakeHolds == Spec => []LiveTakeKeepsItsDuck
<1>1. Init => HoldInv
  BY DEF Init, HoldInv, RequestsArePast, RestoresComeFirst, LiveTakeKeepsItsDuck, Recording
<1>2. TypeOK /\ TypeOK' /\ HoldInv /\ [Next]_vars => HoldInv'
  BY HoldNext
<1>3. HoldInv => LiveTakeKeepsItsDuck
  BY DEF HoldInv
<1>. QED BY <1>1, <1>2, <1>3, DuckTypes, PTL DEF Spec
-----------------------------------------------------------------------------
(***************************************************************************)
(* The dictation that holds the duck is one of TakeLife.  To the worker a  *)
(* stop and a cancel are the same: the recorder records no more.           *)
(***************************************************************************)
Life == INSTANCE TakeLife WITH state <- IF dict = "live" THEN "Recording" ELSE "Idle",
                               generation <- take, stopping <- FALSE

LEMMA DuckLives == Next => [Life!Next]_(Life!vars)
<1>. SUFFICES ASSUME Next PROVE [Life!Next]_(Life!vars)
  OBVIOUS
<1>. USE DEF mixer, ledger, work, users, bounds, ghost
<1>1. CASE TakeStarts
  <2>1. Life!Begin
    BY <1>1 DEF TakeStarts, Life!Begin
  <2>. QED BY <2>1 DEF Life!Next
<1>2. CASE TakeStops \/ Dies
  <2>1. take' = take /\ dict' # "live"
    BY <1>2 DEF TakeStops, Dies
  <2>2. CASE dict = "live"
    BY <2>1, <2>2 DEF Life!Next, Life!Discard
  <2>3. CASE dict # "live"
    BY <2>1, <2>3 DEF Life!vars
  <2>. QED BY <2>2, <2>3
<1>3. CASE StopIsReported \/ StopIsLost \/ TakeEnds
  <2>1. take' = take /\ dict # "live" /\ dict' # "live"
    BY <1>3 DEF StopIsReported, StopIsLost, TakeEnds
  <2>. QED BY <2>1 DEF Life!vars
<1>4. CASE ~ (TakeStarts \/ TakeStops \/ Dies \/ StopIsReported \/ StopIsLost \/ TakeEnds)
  <2>1. Worker => UNCHANGED <<dict, take>>
    BY DEF Worker, DuckIsSkipped, DuckRefreshes, DuckIsTaken, RestoreIsTaken,
       RestoreAllIsTaken, OrphansAreTaken, NothingToDo, EnumerationFails, Heal,
       RestoreIfIdle, Duck, Save
  <2>2. WatchdogTicks => UNCHANGED <<dict, take>>
    BY DEF WatchdogTicks
  <2>3. Environment => UNCHANGED <<dict, take>>
    BY <1>4 DEF Environment, SessionGoes, SessionComes, UserMoves, ChimeAsks,
       ChimeDoesNotAsk, ReadStarts, IslandShows, ReadEnds, ReadIsLost, Exits, Launches
  <2>. QED BY <2>1, <2>2, <2>3 DEF Next, Life!vars
<1>. QED BY <1>1, <1>2, <1>3, <1>4

\* The duck takes the dictation for what the recorder manager guarantees: its takes
\* are those of TakeLife (is_active_recording_generation, which its probes call).
THEOREM DuckLivesTakes == Spec => Life!Spec
<1>1. Init => Life!Init
  BY DEF Init, users, Life!Init
<1>2. [Next]_vars => [Life!Next]_(Life!vars)
  BY DuckLives DEF vars, users, Life!vars
<1>. QED BY <1>1, <1>2, PTL DEF Spec, Life!Spec

\* The dictation's holders were alive when they came.
HoldersArePast == \A h \in active : h.reason = "Dictation" => h.take <= take

LEMMA HoldersNext ==
  ASSUME TypeOK, HoldersArePast, [Next]_vars
  PROVE  HoldersArePast'
<1>. USE DEF mixer, ledger, work, users, bounds, ghost
<1>1. take \in Nat /\ take' \in {take, take + 1}
  <2>1. CASE TakeStarts
    BY <2>1 DEF TakeStarts, TypeOK
  <2>2. CASE ~ TakeStarts
    BY <2>2 DEF TypeOK, Next, Worker, DuckIsSkipped, DuckRefreshes, DuckIsTaken,
       RestoreIsTaken, RestoreAllIsTaken, OrphansAreTaken, NothingToDo, EnumerationFails,
       Heal, RestoreIfIdle, Duck, Save, WatchdogTicks, Environment, SessionGoes,
       SessionComes, UserMoves, TakeStops, StopIsReported, StopIsLost, TakeEnds, ChimeAsks,
       ChimeDoesNotAsk, ReadStarts, IslandShows, ReadEnds, ReadIsLost, Exits, Dies,
       Launches, vars
  <2>. QED BY <2>1, <2>2
<1>2. CASE DuckRefreshes \/ DuckIsTaken
  <2>1. /\ active' \subseteq active \cup {Asker} /\ take' = take
        /\ Asker.reason = "Dictation" => Asker.take = take
    BY <1>2 DEF DuckRefreshes, DuckIsTaken, Others, Wanted, Alive, Asker
  <2>. QED BY <1>1, <2>1 DEF HoldersArePast
<1>3. CASE ~ (DuckRefreshes \/ DuckIsTaken)
  <2>1. active' \subseteq active
    BY <1>3 DEF Next, Worker, DuckIsSkipped, RestoreIsTaken, RestoreAllIsTaken, Others,
       OrphansAreTaken, NothingToDo, EnumerationFails, Heal, RestoreIfIdle, Duck, Save,
       WatchdogTicks, Environment, SessionGoes, SessionComes, UserMoves, TakeStarts,
       TakeStops, StopIsReported, StopIsLost, TakeEnds, ChimeAsks, ChimeDoesNotAsk,
       ReadStarts, IslandShows, ReadEnds, ReadIsLost, Exits, Dies, Launches, vars
  <2>2. \A h \in active : h.reason = "Dictation" => h.take \in Nat /\ h.take <= take'
    BY <1>1 DEF TypeOK, Holder, HoldersArePast
  <2>. QED BY <2>1, <2>2 DEF HoldersArePast
<1>. QED BY <1>2, <1>3

\* A holder of the dictation whose probe is dead stays dead: no later take keeps an old
\* hold alive, so what the watchdog finds stale may be reaped at any later time
\* (the liveness probe of DuckReason::Dictation).
DeadProbesStayDead ==
  [][\A h \in active : h.reason = "Dictation" /\ ~ Alive(h) => ~ Alive(h)']_vars

THEOREM ProbesStayDead == Spec => DeadProbesStayDead
<1>1. TypeOK /\ HoldersArePast /\ [Next]_vars =>
        [\A h \in active : h.reason = "Dictation" /\ ~ Alive(h) => ~ Alive(h)']_vars
  <2>. SUFFICES ASSUME TypeOK, HoldersArePast, Next,
                       NEW h \in active, h.reason = "Dictation", ~ Alive(h)
                PROVE  ~ Alive(h)'
    OBVIOUS
  <2>1. take \in Nat /\ h.take \in Nat /\ h.take <= take
    BY DEF TypeOK, Holder, HoldersArePast
  <2>2. [Life!Next]_(Life!vars)
    BY DuckLives
  <2>3. \/ take' = take /\ (dict' = "live" <=> dict = "live")
        \/ take' = take + 1
        \/ dict' # "live"
    BY <2>2 DEF Life!Next, Life!vars, Life!Begin, Life!Claim, Life!Finish, Life!Abort,
       Life!Discard
  <2>. QED BY <2>1, <2>3 DEF Alive, Recording
<1>2. Init => HoldersArePast
  BY DEF Init, HoldersArePast
<1>3. TypeOK /\ HoldersArePast /\ [Next]_vars => HoldersArePast'
  BY HoldersNext
<1>. QED BY <1>1, <1>2, <1>3, DuckTypes, PTL DEF Spec, DeadProbesStayDead
=============================================================================
