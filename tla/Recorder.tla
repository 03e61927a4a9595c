------------------------------ MODULE Recorder ------------------------------
(***************************************************************************)
(* The capture worker (audio_toolkit/audio/recorder.rs) with its two       *)
(* producers, the device's input callback and the start/stop calls of the  *)
(* recorder manager, on one queue; and the smoothed speech detector        *)
(* (vad/smoothed.rs) that labels what is captured.                         *)
(*                                                                         *)
(* Frame f is the audio captured at time f.  The device hands frames over  *)
(* some time after it captured them, in chunks of its own choice.          *)
(***************************************************************************)
EXTENDS Integers, Sequences, FiniteSets, SequencesExt, FiniteSetsExt

CONSTANTS
  Sounds,       \* what a frame can hold: subset of {"silence", "quiet", "loud"}
  OnsetFrames,  \* SmoothedVad: voiced frames in a row that begin speech
  Hangover,     \* SmoothedVad: unvoiced frames that do not yet end it
  Prefill,      \* SmoothedVad: frames before the onset that count as speech
  RingFrames,   \* PREROLL_RING_FRAMES
  Budgets       \* bounds, of which a behaviour has one: frames captured (but for
                \* those a drain waits for), start, stop and close calls, stop calls
                \* that time out, stalls of the device

ASSUME FramesAssumption ==
  /\ Sounds \subseteq {"silence", "quiet", "loud"}
  /\ {OnsetFrames, RingFrames} \subseteq Nat \ {0}
  /\ {Hangover, Prefill} \subseteq Nat
  /\ Budgets \subseteq [frames: Nat, starts: Nat, stops: Nat, closes: Nat, giveUps: Nat,
                  stalls: Nat]

Unset == -1     \* stop_deadline = 0: no stop is pending

VARIABLES
  now,          \* the clock: the newest frame captured
  stamped,      \* the device reports usable capture times
  alive,        \* the device still delivers
  delivered,    \* the last frame the device handed to the callback
  callback,     \* the chunk the callback is working on, with the flag it loaded
  eosSent,      \* the callback's eos_sent latch
  stopFlag, deadline,
  queue,        \* worker_rx
  worker,       \* the worker's step and the stop it is serving
  pending,      \* pending_commands: commands that arrived during a drain
  recording,
  take,         \* processed_samples and speech_mask, with their history
  vad,          \* SmoothedVad
  speaking,     \* vad_speaking
  ring,         \* preroll_ring
  mirror,       \* live_audio
  seen,         \* the manager's speech_seen
  waits,        \* the stop whose answer the manager waits for, 0 for none
  open,         \* the manager has a worker_tx
  left,         \* how much of each bound is left
  reply,        \* the answer to a stop, until the worker has rearmed
  taken,        \* history: the frames of all answers
  asked,        \* history: per stop, how many starts were called before it
  begun         \* history: how many starts the worker has carried out

device == <<now, stamped, alive, delivered>>
shared == <<stopFlag, deadline>>
heard  == <<take, vad, speaking, seen>>
input  == <<callback, eosSent>>
history == <<reply, taken, begun>>
calls  == <<waits, open, left, asked>>
vars   == <<device, input, shared, queue, worker, pending, recording, heard, ring, mirror,
            calls, history>>

Idle      == [at |-> "idle"]
Resting   == [at |-> "recv", stop |-> 0, also |-> {}, raised |-> 0]
FreshVad  == [buffered |-> 0, onset |-> 0, hang |-> 0, inSpeech |-> FALSE]
\* heard, cut, seeded and since are history: what the detector was given since
\* its reset, how much of it was trimmed, how much came from the ring, and the
\* time the recording began
EmptyTake == [frames |-> <<>>, mask |-> <<>>, heard |-> <<>>, cut |-> 0, seeded |-> 0,
              since |-> 0]

Init ==
  /\ now = 0 /\ stamped \in BOOLEAN /\ alive = TRUE /\ delivered = 0
  /\ callback = Idle /\ eosSent = FALSE
  /\ stopFlag = FALSE /\ deadline = Unset
  /\ queue = <<>> /\ worker = Resting /\ pending = <<>>
  /\ recording = FALSE /\ take = EmptyTake /\ vad = FreshVad
  /\ speaking = FALSE /\ seen = FALSE
  /\ ring = <<>> /\ mirror = <<>>
  /\ waits = 0 /\ open = TRUE
  /\ left \in Budgets
  /\ reply = [of |-> {}] /\ taken = {} /\ asked = <<>> /\ begun = 0

Spend(kind) == left[kind] > 0 /\ left' = [left EXCEPT ![kind] = @ - 1]

-----------------------------------------------------------------------------
\* The speech detector

\* One frame through the smoothing automaton: its next state, whether the frame
\* is speech and how many frames before it become speech with it.
Advance(v, voiced) ==
  LET buffered == Min({v.buffered + 1, Prefill + 1})
      next == [v EXCEPT !.buffered = buffered]
  IN CASE ~v.inSpeech /\ voiced /\ v.onset + 1 >= OnsetFrames ->
            [vad |-> [next EXCEPT !.inSpeech = TRUE, !.hang = Hangover, !.onset = 0],
             speech |-> TRUE, retro |-> buffered - 1]
       [] ~v.inSpeech /\ voiced /\ v.onset + 1 < OnsetFrames ->
            [vad |-> [next EXCEPT !.onset = @ + 1], speech |-> FALSE, retro |-> 0]
       [] ~v.inSpeech /\ ~voiced ->
            [vad |-> [next EXCEPT !.onset = 0], speech |-> FALSE, retro |-> 0]
       [] v.inSpeech /\ voiced ->
            [vad |-> [next EXCEPT !.hang = Hangover], speech |-> TRUE, retro |-> 0]
       [] v.inSpeech /\ ~voiced /\ v.hang > 0 ->
            [vad |-> [next EXCEPT !.hang = @ - 1], speech |-> TRUE, retro |-> 0]
       [] v.inSpeech /\ ~voiced /\ v.hang = 0 ->
            [vad |-> [next EXCEPT !.inSpeech = FALSE], speech |-> FALSE, retro |-> 0]

\* Mutant of Marked: the onset does not reach back.
MarkedFrameOnly(mask, label) == Append(mask, label.speech)

\* push_speech_mask: the frame's own label, and the flips of an onset
Marked(mask, label) ==
  LET end == Len(mask)
  IN Append([i \in 1 .. end |-> mask[i] \/ i > end - label.retro], label.speech)

\* handle_frame: the detector labels a frame that is kept in any case.  h holds
\* the mask, the detector, its last verdict and the speech signal.
Kept(h, sound) ==
  LET label == Advance(h.vad, sound # "silence")
  IN [h EXCEPT !.mask = Marked(@, label), !.vad = label.vad, !.speech = label.speech]

\* The recording branch of the frame closure: a speech signal begins only with
\* a frame of real energy, and from then on follows the detector.
Signalled(h, sound) ==
  LET k == Kept(h, sound)
      speaks == k.speech /\ (h.speaking \/ sound = "loud")
  IN [k EXCEPT !.speaking = speaks, !.seen = @ \/ speaks]

\* Frame after frame, live or replayed.
Hears(h, sounds, live) ==
  LET run[n \in 0 .. Len(sounds)] ==
        IF n = 0 THEN h
        ELSE IF live THEN Signalled(run[n - 1], sounds[n])
        ELSE Kept(run[n - 1], sounds[n])
  IN run[Len(sounds)]

Hearing == [mask |-> take.mask, vad |-> vad, speech |-> FALSE, speaking |-> speaking,
            seen |-> seen]
Chunk(m) == [i \in 1 .. m.to - m.from + 1 |-> m.from + i - 1]

\* What frames turn out to hold: nothing looks at a sound before this.
Sounding(fs) == [1 .. Len(fs) -> Sounds]

\* Every frame is kept, whatever it sounds like.
Heard(fs, live) ==
  \E sounds \in Sounding(fs) :
    LET h == Hears(Hearing, sounds, live)
    IN /\ take' = [take EXCEPT !.frames = @ \o fs, !.mask = h.mask, !.heard = @ \o sounds]
       /\ vad' = h.vad /\ speaking' = h.speaking /\ seen' = h.seen

\* Mutant of Warmed: the ring evicts one frame too late.
WarmedOver(r, fs) ==
  LET all == r \o fs
  IN SubSeq(all, Max({1, Len(all) - RingFrames}), Len(all))

\* push_preroll_frame for each frame of a chunk
Warmed(r, fs) ==
  LET all == r \o fs
  IN SubSeq(all, Max({1, Len(all) - RingFrames + 1}), Len(all))

\* seed_preroll: the ring is replayed through a fresh detector, and its leading
\* non-speech trimmed.
Replayed(sounds) == Hears([Hearing EXCEPT !.mask = <<>>, !.vad = FreshVad], sounds, FALSE)

Seeded(mask, sounds) ==
  LET end  == Len(ring)
      lead == Max({n \in 0 .. end : \A i \in 1 .. n : ~mask[i]})
  IN [frames |-> SubSeq(ring, lead + 1, end), mask |-> SubSeq(mask, lead + 1, end),
      heard |-> sounds, cut |-> lead, seeded |-> end, since |-> now]

-----------------------------------------------------------------------------
\* The device and its input callback

\* A drain gets the one frame past its deadline that ends it.
Capture ==
  /\ worker.at # "gone" /\ alive
  /\ \/ Spend("frames")
     \/ worker.at = "drain" /\ now = deadline /\ UNCHANGED left
  /\ now' = now + 1
  /\ UNCHANGED <<stamped, alive, delivered, input, shared, queue, worker, pending,
                 recording, heard, ring, mirror, waits, open, asked, history>>

\* Unplugged, or stalled, perhaps in the middle of a callback
DeviceStalls ==
  /\ worker.at # "gone" /\ alive /\ Spend("stalls")
  /\ alive' = FALSE
  /\ UNCHANGED <<now, stamped, delivered, input, shared, queue, worker, pending, recording,
                 heard, ring, mirror, waits, open, asked, history>>

DeviceResumes ==
  /\ worker.at # "gone" /\ ~alive
  /\ alive' = TRUE
  /\ UNCHANGED <<now, stamped, delivered, input, shared, queue, worker, pending, recording,
                 heard, ring, mirror, calls, history>>

\* The callback loads stop_flag; after its end of stream it drops the chunk.  An
\* end of stream carries no identity: `of`, the stop the flag was raised for, is
\* history.
CallbackLoads ==
  /\ worker.at # "gone" /\ alive /\ callback = Idle
  /\ \E to \in delivered + 1 .. now :
       /\ delivered' = to
       /\ callback' = IF stopFlag /\ eosSent THEN Idle
                      ELSE [at |-> "holds", from |-> delivered + 1, to |-> to,
                            stopping |-> stopFlag, of |-> worker.stop]
  /\ UNCHANGED <<now, stamped, alive, eosSent, shared, queue, worker, pending, recording,
                 heard, ring, mirror, calls, history>>

\* Mutant of StopPlan: the frame captured exactly at the deadline is not counted.
StopPlanShort(from, to) ==
  LET cut == IF deadline = Unset THEN now ELSE deadline
  IN IF ~stamped THEN [keep |-> to, eos |-> TRUE]
     ELSE IF from > cut THEN [keep |-> from - 1, eos |-> TRUE]
     ELSE [keep |-> Min({to, cut - 1}), eos |-> cut - 1 < to]

\* plan_stop_chunk: what is kept of the chunk, and whether the stream ends in it
StopPlan(from, to) ==
  LET cut == IF deadline = Unset THEN now ELSE deadline
  IN IF ~stamped THEN [keep |-> to, eos |-> TRUE]
     ELSE IF from > cut THEN [keep |-> from - 1, eos |-> TRUE]
     ELSE [keep |-> Min({to, cut}), eos |-> cut < to]

\* send_input_callback_chunk
CallbackSends ==
  /\ alive /\ callback # Idle
  /\ LET plan == IF callback.stopping THEN StopPlan(callback.from, callback.to)
                 ELSE [keep |-> callback.to, eos |-> FALSE]
         audio == IF plan.keep < callback.from THEN <<>>
                  ELSE <<[is |-> "samples", from |-> callback.from, to |-> plan.keep]>>
         end   == IF plan.eos THEN <<[is |-> "eos", of |-> callback.of]>> ELSE <<>>
     IN /\ queue' = queue \o audio \o end
        /\ eosSent' = (plan.eos \/ (eosSent /\ callback.stopping))
  /\ callback' = Idle
  /\ UNCHANGED <<device, shared, worker, pending, recording, heard, ring, mirror, calls,
                 history>>

-----------------------------------------------------------------------------
\* The recorder manager's calls, one at a time under its recorder mutex

\* What waits for the worker, in the order it will be taken: deferred commands first.
Inbox == pending \o queue

Starts(messages) == Cardinality({i \in DOMAIN messages : messages[i].is = "start"})

\* How many starts have been called so far.
StartsCalled == begun + Starts(Inbox)

CallStart ==
  /\ open /\ waits = 0 /\ Spend("starts")
  /\ seen' = FALSE
  /\ queue' = Append(queue, [is |-> "start"])
  /\ UNCHANGED <<device, input, shared, worker, pending, recording, take, vad, speaking,
                 ring, mirror, waits, open, asked, history>>

CallStop ==
  /\ open /\ waits = 0 /\ Spend("stops")
  /\ waits' = Len(asked) + 1
  /\ asked' = Append(asked, StartsCalled)
  /\ queue' = Append(queue, [is |-> "stop", id |-> waits'])
  /\ UNCHANGED <<device, input, shared, worker, pending, recording, heard, ring, mirror,
                 open, history>>

\* recv_timeout of stop_captured: the worker is still busy with older messages
\* or waits for a dead device.
StopGivesUp ==
  /\ waits # 0 /\ Spend("giveUps")
  /\ waits' = 0
  /\ UNCHANGED <<device, input, shared, queue, worker, pending, recording, heard, ring,
                 mirror, open, asked, history>>

\* close, for which the manager stops a recording first, answered or not
CallClose ==
  /\ open /\ waits = 0 /\ Spend("closes")
  /\ StartsCalled = 0 \/ (asked # <<>> /\ Last(asked) = StartsCalled)
  /\ open' = FALSE
  /\ queue' = Append(queue, [is |-> "shutdown"])
  /\ UNCHANGED <<device, input, shared, worker, pending, recording, heard, ring, mirror,
                 waits, asked, history>>

\* open, once the old worker is gone: a new worker, a new stream
CallOpen ==
  /\ ~open /\ worker.at = "gone" /\ open' = TRUE
  /\ stamped' \in BOOLEAN /\ alive' = TRUE /\ delivered' = now
  /\ callback' = Idle /\ eosSent' = FALSE /\ stopFlag' = FALSE /\ deadline' = Unset
  /\ queue' = <<>> /\ pending' = <<>> /\ worker' = Resting
  /\ recording' = FALSE /\ take' = EmptyTake /\ speaking' = FALSE /\ ring' = <<>>
  /\ UNCHANGED <<now, vad, seen, mirror, waits, left, asked, history>>

-----------------------------------------------------------------------------
\* run_consumer

Ready(m) ==
  /\ worker.at = "recv"
  /\ IF pending # <<>>
       THEN m = Head(pending) /\ pending' = Tail(pending) /\ UNCHANGED queue
       ELSE queue # <<>> /\ m = Head(queue) /\ queue' = Tail(queue) /\ UNCHANGED pending
Messages == Range(queue) \cup Range(pending)

\* Idle audio warms the ring; a recording keeps, labels and mirrors it.
WorkerHears ==
  /\ \E m \in Messages :
       /\ Ready(m) /\ m.is = "samples"
       /\ IF recording
            THEN /\ Heard(Chunk(m), TRUE)
                 /\ mirror' = mirror \o SubSeq(take'.frames, Len(mirror) + 1, Len(take'.frames))
                 /\ UNCHANGED ring
            ELSE /\ ring' = Warmed(ring, Chunk(m))
                 /\ UNCHANGED <<heard, mirror>>
  /\ UNCHANGED <<device, input, shared, worker, recording, calls, history>>

\* An end of stream that comes outside a drain
WorkerSkips ==
  /\ \E m \in Messages : Ready(m) /\ m.is = "eos"
  /\ UNCHANGED <<device, input, shared, worker, recording, heard, ring, mirror, calls,
                 history>>

\* Mutant of SeedSignalled: the seeded state is taken over without the signal.
SilentSeed(speech) == speaking' = speech /\ UNCHANGED seen

\* seeded_onset_should_signal: the frames of the ring are silent one by one, but
\* a recording that begins in the middle of speech says so once.
SeedSignalled(speech) == speaking' = speech /\ seen' = (seen \/ speech)

\* Mutant of WorkerStarts: the ring is replayed without being drained.
WorkerStartsKeepingRing ==
  /\ \E m \in Messages : Ready(m) /\ m.is = "start"
  /\ deadline' = Unset /\ stopFlag' = FALSE
  /\ recording' = TRUE /\ mirror' = <<>>
  /\ \E sounds \in Sounding(ring) :
       LET h == Replayed(sounds)
       IN take' = Seeded(h.mask, sounds) /\ vad' = h.vad /\ SeedSignalled(h.speech)
  /\ begun' = begun + 1
  /\ UNCHANGED <<ring, device, input, worker, calls, reply, taken>>

WorkerStarts ==
  /\ \E m \in Messages : Ready(m) /\ m.is = "start"
  /\ deadline' = Unset /\ stopFlag' = FALSE
  /\ recording' = TRUE /\ mirror' = <<>>
  /\ \E sounds \in Sounding(ring) :
       LET h == Replayed(sounds)
       IN take' = Seeded(h.mask, sounds) /\ vad' = h.vad /\ SeedSignalled(h.speech)
  /\ ring' = <<>> /\ begun' = begun + 1
  /\ UNCHANGED <<device, input, worker, calls, reply, taken>>

\* Cmd::Stop: first the deadline ...
WorkerStamps ==
  /\ \E m \in Messages :
       Ready(m) /\ m.is = "stop" /\ worker' = [Resting EXCEPT !.at = "stamped", !.stop = m.id]
  /\ deadline' = now
  /\ UNCHANGED <<device, input, stopFlag, recording, heard, ring, mirror, calls, history>>

\* ... then the flag
WorkerRaises ==
  /\ worker.at = "stamped"
  /\ stopFlag' = TRUE
  /\ worker' = [worker EXCEPT !.at = "drain", !.raised = now]
  /\ UNCHANGED <<device, input, deadline, queue, pending, recording, heard, ring, mirror,
                 calls, history>>

\* Mutant of WorkerDrains: every stop joins the one under way, a start deferred
\* before it or not.
WorkerDrainsJoiningAll ==
  /\ worker.at = "drain" /\ queue # <<>> /\ Head(queue).is # "eos"
  /\ queue' = Tail(queue)
  /\ LET m == Head(queue)
     IN CASE m.is = "samples" ->
               /\ Heard(Chunk(m), FALSE)
               /\ UNCHANGED <<worker, pending>>
          [] m.is = "stop" ->
               /\ worker' = [worker EXCEPT !.also = @ \cup {m.id}]
               /\ UNCHANGED <<pending, heard>>
          [] OTHER ->
               /\ pending' = Append(pending, m)
               /\ UNCHANGED <<worker, heard>>
  /\ UNCHANGED <<device, input, shared, recording, ring, mirror, calls, history>>

\* drain_to_end_of_stream: audio is kept, commands wait their turn, but further
\* stops join this one as long as nothing else came between.
WorkerDrains ==
  /\ worker.at = "drain" /\ queue # <<>> /\ Head(queue).is # "eos"
  /\ queue' = Tail(queue)
  /\ LET m == Head(queue)
     IN CASE m.is = "samples" ->
               /\ Heard(Chunk(m), FALSE)
               /\ UNCHANGED <<worker, pending>>
          [] m.is = "stop" /\ pending = <<>> ->
               /\ worker' = [worker EXCEPT !.also = @ \cup {m.id}]
               /\ UNCHANGED <<pending, heard>>
          [] OTHER ->
               /\ pending' = Append(pending, m)
               /\ UNCHANGED <<worker, heard>>
  /\ UNCHANGED <<device, input, shared, recording, ring, mirror, calls, history>>

\* The capture is handed over; clean says the drain saw its own end of stream.
Answer(clean) ==
  /\ recording' = FALSE /\ speaking' = FALSE
  /\ reply' = [of |-> {worker.stop} \cup worker.also, take |-> take, clean |-> clean,
               started |-> recording, nth |-> begun, deadline |-> deadline, raised |-> worker.raised,
               stamped |-> stamped]
  /\ taken' = taken \cup Range(take.frames)
  /\ take' = EmptyTake
  /\ waits' = IF waits \in reply'.of THEN 0 ELSE waits
  /\ worker' = [Resting EXCEPT !.at = "answered"]
  /\ UNCHANGED <<device, input, shared, pending, vad, seen, ring, mirror, open, left, asked,
                 begun>>

DrainEnds ==
  /\ worker.at = "drain" /\ queue # <<>> /\ Head(queue).is = "eos"
  /\ queue' = Tail(queue) /\ Answer(Head(queue).of = worker.stop)

\* STOP_DRAIN_BUDGET: no end of stream comes from a stalled device, nor from a
\* callback whose latch is still set from the stop before.
DrainTimesOut ==
  /\ worker.at = "drain" /\ queue = <<>>
  /\ ~alive \/ (eosSent /\ callback = Idle)
  /\ Answer(FALSE) /\ UNCHANGED queue

\* Mutant of WorkerRearms: the mirror keeps the finished take until the next start.
WorkerRearmsKeepingMirror ==
  /\ worker.at = "answered"
  /\ deadline' = Unset /\ stopFlag' = FALSE
  /\ worker' = Resting /\ reply' = [of |-> {}]
  /\ UNCHANGED <<mirror, device, input, queue, pending, recording, heard, ring, calls, taken,
                 begun>>

\* The mirror is dropped and idle capture resumes.
WorkerRearms ==
  /\ worker.at = "answered"
  /\ mirror' = <<>> /\ deadline' = Unset /\ stopFlag' = FALSE
  /\ worker' = Resting /\ reply' = [of |-> {}]
  /\ UNCHANGED <<device, input, queue, pending, recording, heard, ring, calls, taken, begun>>

\* Cmd::Shutdown: the worker returns and its stream goes with it.
WorkerShutsDown ==
  /\ \E m \in Messages : Ready(m) /\ m.is = "shutdown"
  /\ deadline' = now /\ stopFlag' = TRUE
  /\ worker' = [Resting EXCEPT !.at = "gone"]
  /\ UNCHANGED <<device, input, recording, heard, ring, mirror, calls, history>>

-----------------------------------------------------------------------------
Manager == CallStart \/ CallStop \/ StopGivesUp \/ CallClose \/ CallOpen
Input   == CallbackLoads \/ CallbackSends
Worker  == \/ WorkerHears \/ WorkerSkips \/ WorkerStarts \/ WorkerStamps \/ WorkerRaises
           \/ WorkerDrains \/ DrainEnds \/ DrainTimesOut \/ WorkerRearms \/ WorkerShutsDown

Next == Capture \/ DeviceStalls \/ DeviceResumes \/ Input \/ Manager \/ Worker

Spec == Init /\ [][Next]_vars

-----------------------------------------------------------------------------
\* Properties

TypeOK ==
  /\ now \in Nat /\ {stamped, alive, eosSent, stopFlag} \subseteq BOOLEAN
  /\ delivered \in 0 .. now /\ deadline \in {Unset} \cup 0 .. now
  /\ callback = Idle \/ (callback.at = "holds" /\ callback.stopping \in BOOLEAN
                          /\ 1 <= callback.from /\ callback.from <= callback.to
                          /\ callback.to = delivered)
  /\ {m.is : m \in Messages} \subseteq {"samples", "eos", "start", "stop", "shutdown"}
  /\ {m.is : m \in Range(pending)} \cap {"samples", "eos"} = {}
  /\ worker.at \in {"recv", "stamped", "drain", "answered", "gone"}
  /\ {recording, speaking, seen, open} \subseteq BOOLEAN
  /\ Len(take.mask) = Len(take.frames)
  /\ vad.buffered \in 0 .. Prefill + 1 /\ vad.onset \in 0 .. OnsetFrames - 1
  /\ vad.hang \in 0 .. Hangover /\ vad.inSpeech \in BOOLEAN
  /\ Len(ring) <= RingFrames
  /\ waits \in 0 .. Len(asked)

\* No audio is transcribed twice or out of order: what the worker collects was
\* captured in the order it is kept in, and no earlier stop was answered with it,
\* whatever the ring, the queue and a drain that overran still held.
NothingTwice ==
  \A i \in 1 .. Len(take.frames) :
    /\ take.frames[i] \notin taken
    /\ i > 1 => take.frames[i] > take.frames[i - 1]

\* A stop whose drain saw its own end of the stream returns the take's whole audio:
\* every frame captured from the moment the recording began to the deadline the
\* stop was stamped with, however late the device delivered it, and none captured
\* after the stop was signalled (the timestamp-bounded drain).
CleanTakeIsWhole ==
  (reply.of # {} /\ reply.clean /\ reply.started /\ reply.stamped) =>
    /\ (reply.take.since + 1) .. reply.deadline \subseteq Range(reply.take.frames)
    /\ \A f \in Range(reply.take.frames) : f <= reply.raised

\* A stop is answered with the take that was begun before it, also when earlier
\* calls had timed out and their commands were deferred or joined by a drain.
AnswersItsOwnTake ==
  reply.of # {} => \A id \in reply.of : asked[id] = reply.nth

\* What the gating detector would have passed of these sounds: frame i is speech
\* when it follows an onset without too long a gap, or comes just before one.
SpeechOf(sounds) ==
  LET voiced(i) == sounds[i] # "silence"
      verdict(i) == \E o \in OnsetFrames .. i :
                      /\ \A j \in o - OnsetFrames + 1 .. o : voiced(j)
                      /\ \A j \in o .. i - Hangover - 1 :
                           \E k \in j + 1 .. j + Hangover + 1 : voiced(k)
      onset(i) == verdict(i) /\ (i > 1 => ~verdict(i - 1))
  IN [i \in 1 .. Len(sounds) |->
        verdict(i) \/ \E o \in i + 1 .. Min({i + Prefill, Len(sounds)}) : onset(o)]

\* The mask of a take is what the gating detector would have passed, across the
\* seeded frames, the live ones and those of the drain, with the onset's flips
\* where the trim has shortened the take.
MaskIsHonest ==
  recording =>
    take.mask = SubSeq(SpeechOf(take.heard), take.cut + 1, Len(take.heard))

\* The manager knows of speech: once a take has heard loud frames enough for an
\* onset, the last of them live or the end of the ring, speech_seen is set, and
\* the no-speech watchdog lets the take be.
SpeechIsSeen ==
  (recording /\ worker.at = "recv" /\ Starts(Inbox) = 0) =>
    ((\E e \in Max({take.seeded, OnsetFrames}) .. Len(take.heard) :
        \A i \in e - OnsetFrames + 1 .. e : take.heard[i] = "loud") => seen)

\* The live preview reads what the take in progress really holds, and nothing of
\* a take that is over: run_consumer drops the mirror once the take is answered, lest
\* a snapshot before the next start decode it again.  The comment of the field
\* live_audio (recorder.rs:324-325) is older than that: "the mirror keeps the last
\* recording until the next Start clears it".
MirrorFollows ==
  worker.at = "recv" => IF recording THEN IsPrefix(mirror, take.frames) ELSE mirror = <<>>

=============================================================================
