--------------------------- MODULE RecorderProofs ---------------------------
(***************************************************************************)
(* For any bounds of Recorder, any sizes of its ring and any thresholds of *)
(* its detector.  A step is first reduced to what it does to the Inbox,    *)
(* what waits for the worker in the order it will be taken: a message is   *)
(* taken out of it, messages are added at its end, or it stays as it is.   *)
(***************************************************************************)
EXTENDS Recorder, FiniteSetTheorems, SequenceTheorems, TLAPS

Message ==
  {m \in [is : {"samples"}, from : Nat \ {0}, to : Nat] : m.from <= m.to}
    \cup [is : {"eos"}, of : Nat] \cup [is : {"start", "shutdown"}] \cup [is : {"stop"}, id : Nat]
Command == {m \in Message : m.is \in {"start", "stop", "shutdown"}}

LEMMA MessageFields ==
  ASSUME NEW m \in Message
  PROVE  /\ m.is \in {"samples", "eos", "start", "stop", "shutdown"}
         /\ m.is = "samples" => m.from \in Nat \ {0} /\ m.to \in Nat /\ m.from <= m.to
         /\ m.is = "eos" => m.of \in Nat
         /\ m.is = "stop" => m.id \in Nat
  BY DEF Message

LEMMA MessagesMade ==
  /\ \A f \in Nat \ {0}, t \in Nat :
       f <= t => [is |-> "samples", from |-> f, to |-> t] \in Message
  /\ \A n \in Nat : [is |-> "eos", of |-> n] \in Message /\ [is |-> "stop", id |-> n] \in Message
  /\ [is |-> "start"] \in Message /\ [is |-> "shutdown"] \in Message
  BY DEF Message

LEMMA CommandFields ==
  ASSUME NEW m \in Command
  PROVE  m \in Message /\ m.is \in {"start", "stop", "shutdown"}
  BY DEF Command

-----------------------------------------------------------------------------
\* Counting the starts among the first n messages, and taking one message out.

Before(s, n) == Cardinality({i \in 1 .. n : s[i].is = "start"})
Drop(s, k)   == [i \in 1 .. Len(s) - 1 |-> IF i < k THEN s[i] ELSE s[i + 1]]

LEMMA BeforeType ==
  ASSUME NEW s, NEW n \in Nat
  PROVE  /\ Before(s, n) \in Nat
         /\ IsFiniteSet({i \in 1 .. n : s[i].is = "start"})
<1> DEFINE S == {i \in 1 .. n : s[i].is = "start"}
<1>1. IsFiniteSet(1 .. n) /\ S \in SUBSET (1 .. n)
  BY FS_Interval
<1>2. IsFiniteSet(S)
  BY <1>1, FS_Subset
<1> QED BY <1>2, FS_CardinalityType DEF Before

LEMMA BeforeNone ==
  ASSUME NEW s
  PROVE  Before(s, 0) = 0
<1>1. {i \in 1 .. 0 : s[i].is = "start"} = {}
  OBVIOUS
<1> QED BY <1>1, FS_EmptySet DEF Before

LEMMA BeforeNext ==
  ASSUME NEW s, NEW n \in Nat
  PROVE  Before(s, n + 1) = IF s[n + 1].is = "start" THEN Before(s, n) + 1 ELSE Before(s, n)
<1> DEFINE S == {i \in 1 .. n : s[i].is = "start"}
           T == {i \in 1 .. n + 1 : s[i].is = "start"}
<1>0. IsFiniteSet(S)
  BY BeforeType, Zenon
<1>1. n + 1 \notin S
  OBVIOUS
<1>2. CASE s[n + 1].is = "start"
  <2>1. T = S \cup {n + 1}
    BY <1>2
  <2> HIDE DEF S, T
  <2>2. Cardinality(T) = Cardinality(S) + 1
    BY <1>0, <1>1, <2>1, FS_AddElement
  <2> QED BY <1>2, <2>2 DEF S, T, Before
<1>3. CASE s[n + 1].is # "start"
  <2>1. T = S
    BY <1>3
  <2> QED BY <1>3, <2>1 DEF Before
<1> QED BY <1>2, <1>3

LEMMA BeforeSame ==
  ASSUME NEW s, NEW t, NEW n \in Nat, \A i \in 1 .. n : s[i] = t[i]
  PROVE  Before(s, n) = Before(t, n)
<1>1. {i \in 1 .. n : s[i].is = "start"} = {i \in 1 .. n : t[i].is = "start"}
  OBVIOUS
<1> QED BY <1>1 DEF Before

LEMMA BeforeGrows ==
  ASSUME NEW s, NEW m \in Nat, NEW n \in Nat, m <= n
  PROVE  /\ Before(s, m) <= Before(s, n)
         /\ (\A i \in m + 1 .. n : s[i].is # "start") => Before(s, m) = Before(s, n)
<1> DEFINE S == {i \in 1 .. m : s[i].is = "start"}
           T == {i \in 1 .. n : s[i].is = "start"}
<1>1. IsFiniteSet(T) /\ S \in SUBSET T
  BY BeforeType
<1>2. (\A i \in m + 1 .. n : s[i].is # "start") => S = T
  OBVIOUS
<1> HIDE DEF S, T
<1>3. Cardinality(S) <= Cardinality(T)
  BY <1>1, FS_Subset
<1> QED BY <1>2, <1>3 DEF S, T, Before

LEMMA DropBefore ==
  ASSUME NEW s, Len(s) \in Nat, NEW k \in 1 .. Len(s), NEW i \in 0 .. Len(s) - 1
  PROVE  Before(Drop(s, k), i) =
           IF i < k THEN Before(s, i)
           ELSE IF s[k].is = "start" THEN Before(s, i + 1) - 1 ELSE Before(s, i + 1)
<1>0. i \in Nat /\ \A j \in 1 .. i : Drop(s, k)[j] = IF j < k THEN s[j] ELSE s[j + 1]
  BY DEF Drop
<1>1. CASE i < k
  <2>1. \A j \in 1 .. i : Drop(s, k)[j] = s[j]
    BY <1>0, <1>1
  <2> QED BY <1>0, <1>1, <2>1, BeforeSame
<1>2. CASE i >= k
  <2> DEFINE A == {j \in 1 .. i : Drop(s, k)[j].is = "start"}
             B == {j \in 1 .. i + 1 : s[j].is = "start"}
             f == [j \in A |-> IF j < k THEN j ELSE j + 1]
  <2>0. i + 1 \in Nat
    OBVIOUS
  <2>1. IsFiniteSet(A) /\ IsFiniteSet(B)
    BY <1>0, <2>0, BeforeType, Zenon
  <2>2. \A j \in A : f[j] \in B \ {k} /\ f[j] = IF j < k THEN j ELSE j + 1
    BY <1>0
  <2>3. \A b \in B \ {k} : \E j \in A : f[j] = b
    <3>1. TAKE b \in B \ {k}
    <3>2. CASE b < k
      <4>1. b \in A /\ f[b] = b
        BY <1>0, <1>2, <3>2
      <4> QED BY <4>1
    <3>3. CASE b > k
      <4>1. b - 1 \in 1 .. i /\ ~(b - 1 < k) /\ b - 1 + 1 = b
        BY <3>3
      <4>2. Drop(s, k)[b - 1] = s[b]
        BY <1>0, <4>1
      <4>3. b - 1 \in A /\ f[b - 1] = b
        BY <4>1, <4>2
      <4> QED BY <4>3
    <3> QED BY <3>2, <3>3
  <2>4. f \in [A -> B \ {k}] /\ \A j, l \in A : f[j] = f[l] => j = l
    <3>1. A \subseteq Int /\ DOMAIN f = A
      OBVIOUS
    <3> HIDE DEF A, B
    <3>2. f \in [A -> B \ {k}]
      BY <2>2
    <3>3. \A j, l \in A : f[j] = f[l] => j = l
      <4> HIDE DEF f
      <4> QED BY <2>2, <3>1
    <3> QED BY <3>2, <3>3
  <2>5. ExistsBijection(A, B \ {k})
    <3> HIDE DEF f, A, B
    <3>1. f \in Bijection(A, B \ {k})
      BY <2>3, <2>4, Zenon DEF Bijection, Injection, Surjection, IsInjective
    <3> QED BY <3>1 DEF ExistsBijection
  <2>6. k \in B <=> s[k].is = "start"
    BY <1>2
  <2> HIDE DEF f, A, B
  <2>7. Cardinality(A) = Cardinality(B \ {k})
    BY <2>1, <2>5, FS_Bijection
  <2>8. Cardinality(B \ {k}) = IF k \in B THEN Cardinality(B) - 1 ELSE Cardinality(B)
    BY <2>1, FS_RemoveElement
  <2> QED BY <1>2, <2>6, <2>7, <2>8 DEF A, B, Before
<1> QED BY <1>0, <1>1, <1>2

LEMMA DropProperties ==
  ASSUME NEW S, NEW s \in Seq(S), NEW k \in 1 .. Len(s)
  PROVE  /\ Drop(s, k) \in Seq(S) /\ Len(Drop(s, k)) = Len(s) - 1
         /\ \A i \in 1 .. Len(s) - 1 : Drop(s, k)[i] = IF i < k THEN s[i] ELSE s[i + 1]
<1>1. Len(s) - 1 \in Nat /\ \A i \in 1 .. Len(s) - 1 : (IF i < k THEN s[i] ELSE s[i + 1]) \in S
  OBVIOUS
<1>2. Drop(s, k) \in [1 .. Len(s) - 1 -> S]
  BY <1>1 DEF Drop
<1>3. Drop(s, k) \in Seq(S) /\ Len(Drop(s, k)) = Len(s) - 1
  BY <1>1, <1>2
<1> QED BY <1>3 DEF Drop

-----------------------------------------------------------------------------
\* Least and greatest of two, and induction along a sequence.

LEMMA MinOfTwo ==
  ASSUME NEW a \in Int, NEW b \in Int
  PROVE  Min({a, b}) = IF a <= b THEN a ELSE b
<1> DEFINE m == IF a <= b THEN a ELSE b
<1>1. m \in {a, b} /\ \A y \in {a, b} : m <= y
  OBVIOUS
<1>2. \A x \in {a, b} : (\A y \in {a, b} : x <= y) => x = m
  OBVIOUS
<1> HIDE DEF m
<1>3. Min({a, b}) = m
  BY <1>1, <1>2 DEF Min
<1> QED BY <1>3 DEF m

LEMMA MaxOfTwo ==
  ASSUME NEW a \in Int, NEW b \in Int
  PROVE  Max({a, b}) = IF a >= b THEN a ELSE b
<1> DEFINE m == IF a >= b THEN a ELSE b
<1>1. m \in {a, b} /\ \A y \in {a, b} : m >= y
  OBVIOUS
<1>2. \A x \in {a, b} : (\A y \in {a, b} : x >= y) => x = m
  OBVIOUS
<1> HIDE DEF m
<1>3. Max({a, b}) = m
  BY <1>1, <1>2 DEF Max
<1> QED BY <1>3 DEF m

LEMMA Induct ==
  ASSUME NEW S \in SUBSET Nat, 0 \in S, \A n \in S : n + 1 \in S
  PROVE  S = Nat
<1> DEFINE R == {ss \in Nat \X Nat : ss[1] < ss[2]}
<1>1. IsWellFoundedOn(R, Nat)
  BY NatLessThanWellFounded DEF OpToRel
<1> HIDE DEF R
<1>2. SUFFICES ASSUME Nat \ S # {} PROVE FALSE
  OBVIOUS
<1>3. PICK x \in Nat \ S : \A y \in Nat \ S : <<y, x>> \notin R
  BY <1>1, <1>2, WFMin
<1>4. x # 0 /\ x - 1 \in Nat
  BY <1>3
<1>5. x - 1 \in Nat \ S
  <2>1. x - 1 + 1 = x
    BY <1>3
  <2> QED BY <1>3, <1>4, <2>1
<1>6. <<x - 1, x>> \in R
  BY <1>3, <1>4 DEF R
<1> QED BY <1>3, <1>5, <1>6

LEMMA InductTo ==
  ASSUME NEW n \in Nat, NEW S, 0 \in S, \A i \in 0 .. n - 1 : i \in S => i + 1 \in S
  PROVE  0 .. n \subseteq S
<1> DEFINE T == {i \in Nat : i <= n => i \in S}
<1>1. \A i \in T : i + 1 \in T
  OBVIOUS
<1>2. T = Nat
  BY <1>1, Induct
<1> QED BY <1>2

-----------------------------------------------------------------------------
\* The detector, frame after frame.

VadType == [buffered : 0 .. Prefill + 1, onset : 0 .. OnsetFrames - 1, hang : 0 .. Hangover,
            inSpeech : BOOLEAN]
HearingType == [mask : Seq(BOOLEAN), vad : VadType, speech : BOOLEAN, speaking : BOOLEAN,
                seen : BOOLEAN]

Step(h, sound, live) == IF live THEN Signalled(h, sound) ELSE Kept(h, sound)
Run(h, sounds, live) ==
  LET run[n \in 0 .. Len(sounds)] ==
        IF n = 0 THEN h ELSE Step(run[n - 1], sounds[n], live)
  IN run

LEMMA RunIsHears ==
  ASSUME NEW h, NEW sounds, NEW live
  PROVE  Hears(h, sounds, live) = Run(h, sounds, live)[Len(sounds)]
  BY Zenon DEF Hears, Run, Step

LEMMA RunStarts ==
  ASSUME NEW h, NEW sounds \in Seq(Sounds), NEW live \in BOOLEAN
  PROVE  /\ Run(h, sounds, live)[0] = h
         /\ \A i \in 1 .. Len(sounds) :
              Run(h, sounds, live)[i] = Step(Run(h, sounds, live)[i - 1], sounds[i], live)
<1> DEFINE Good(n, r) == r = [i \in 0 .. n |->
                                IF i = 0 THEN h ELSE Step(r[i - 1], sounds[i], live)]
           Ns == {n \in Nat : \E r : Good(n, r)}
<1>1. 0 \in Ns
  <2>1. Good(0, [i \in 0 .. 0 |-> h])
    OBVIOUS
  <2> QED BY <2>1
<1>2. ASSUME NEW n \in Ns PROVE n + 1 \in Ns
  <2>1. PICK r : Good(n, r)
    OBVIOUS
  <2> DEFINE q == [i \in 0 .. n + 1 |->
                     IF i = n + 1 THEN Step(r[n], sounds[n + 1], live) ELSE r[i]]
  <2>2. \A i \in 0 .. n : q[i] = r[i]
    OBVIOUS
  <2>3. \A i \in 0 .. n : r[i] = IF i = 0 THEN h ELSE Step(r[i - 1], sounds[i], live)
    BY <2>1
  <2>4. \A i \in 0 .. n + 1 : q[i] = IF i = 0 THEN h ELSE Step(q[i - 1], sounds[i], live)
    <3>1. SUFFICES ASSUME NEW i \in 0 .. n + 1
                   PROVE  q[i] = IF i = 0 THEN h ELSE Step(q[i - 1], sounds[i], live)
      OBVIOUS
    <3>2. CASE i = n + 1
      <4>1. n \in 0 .. n /\ i # 0 /\ i - 1 = n
        BY <3>2
      <4>2. q[i - 1] = r[n] /\ q[i] = Step(r[n], sounds[i], live)
        BY <2>2, <3>2, <4>1
      <4> QED BY <4>1, <4>2
    <3>3. CASE i # n + 1
      <4>1. i \in 0 .. n /\ (i # 0 => i - 1 \in 0 .. n)
        BY <3>3
      <4> QED BY <2>2, <2>3, <4>1
    <3> QED BY <3>2, <3>3
  <2>5. Good(n + 1, q)
    BY <2>4
  <2>6. n + 1 \in Nat
    OBVIOUS
  <2> HIDE DEF Good, q
  <2> QED BY <2>5, <2>6
<1>3. Len(sounds) \in Ns
  <2> HIDE DEF Good, Ns
  <2>1. Ns \in SUBSET Nat
    BY DEF Ns
  <2>2. Ns = Nat
    BY <1>1, <1>2, <2>1, Induct
  <2> QED BY <2>2
<1>4. Good(Len(sounds), Run(h, sounds, live))
  BY <1>3, Zenon DEF Run
<1> QED BY <1>4

LEMMA VadExcept ==
  ASSUME NEW v \in VadType
  PROVE  /\ \A o \in 0 .. OnsetFrames - 1 : [v EXCEPT !.onset = o] \in VadType
         /\ \A g \in 0 .. Hangover : [v EXCEPT !.hang = g] \in VadType
         /\ \A s \in BOOLEAN : [v EXCEPT !.inSpeech = s] \in VadType
         /\ \A o \in 0 .. OnsetFrames - 1, g \in 0 .. Hangover :
              [v EXCEPT !.inSpeech = TRUE, !.hang = g, !.onset = o] \in VadType
  BY DEF VadType

LEMMA AdvanceFields ==
  ASSUME NEW v \in VadType, NEW voiced \in BOOLEAN
  PROVE  /\ Advance(v, voiced).vad \in VadType
         /\ Advance(v, voiced).vad.buffered = Min({v.buffered + 1, Prefill + 1})
         /\ Advance(v, voiced).speech \in BOOLEAN
         /\ Advance(v, voiced).speech <=>
              IF v.inSpeech THEN voiced \/ v.hang > 0 ELSE voiced /\ v.onset + 1 >= OnsetFrames
         /\ Advance(v, voiced).vad.inSpeech = Advance(v, voiced).speech
         /\ Advance(v, voiced).speech =>
              Advance(v, voiced).vad.hang = IF voiced THEN Hangover ELSE v.hang - 1
         /\ Advance(v, voiced).vad.onset =
              IF v.inSpeech THEN v.onset
              ELSE IF voiced /\ v.onset + 1 < OnsetFrames THEN v.onset + 1 ELSE 0
         /\ Advance(v, voiced).retro =
              IF ~v.inSpeech /\ Advance(v, voiced).speech
              THEN Min({v.buffered + 1, Prefill + 1}) - 1 ELSE 0
<1> DEFINE b    == Min({v.buffered + 1, Prefill + 1})
           next == [v EXCEPT !.buffered = b]
           label == Advance(v, voiced)
<1>1. Prefill \in Nat /\ Hangover \in Nat /\ OnsetFrames \in Nat \ {0}
  BY FramesAssumption
<1>2. v.buffered \in 0 .. Prefill + 1 /\ v.onset \in 0 .. OnsetFrames - 1
      /\ v.hang \in 0 .. Hangover /\ v.inSpeech \in BOOLEAN
  BY DEF VadType
<1>3. b \in 1 .. Prefill + 1
  BY <1>1, <1>2, MinOfTwo
<1>4. next \in VadType /\ next.buffered = b /\ next.onset = v.onset /\ next.hang = v.hang
      /\ next.inSpeech = v.inSpeech
  BY <1>1, <1>2, <1>3 DEF VadType
<1>a. /\ 0 \in 0 .. OnsetFrames - 1 /\ Hangover \in 0 .. Hangover
      /\ v.onset + 1 < OnsetFrames => v.onset + 1 \in 0 .. OnsetFrames - 1
      /\ v.hang > 0 => v.hang - 1 \in 0 .. Hangover
  BY <1>1, <1>2
<1>5. CASE ~v.inSpeech /\ voiced /\ v.onset + 1 >= OnsetFrames
  <2>1. label.speech = TRUE /\ label.retro = b - 1
    BY <1>1, <1>2, <1>5, SMT DEF Advance
  <2>2. label.vad = [next EXCEPT !.inSpeech = TRUE, !.hang = Hangover, !.onset = 0]
    BY <1>1, <1>2, <1>5, SMT DEF Advance
  <2> HIDE DEF label, b, next
  <2>3. label.vad \in VadType
    <3>1. [next EXCEPT !.inSpeech = TRUE, !.hang = Hangover, !.onset = 0] \in VadType
      BY <1>4, <1>a, VadExcept, Zenon
    <3> QED BY <2>2, <3>1, Zenon
  <2>4. /\ label.vad.buffered = b /\ label.vad.onset = 0
        /\ label.vad.hang = Hangover /\ label.vad.inSpeech = TRUE
    BY <1>4, <2>2 DEF VadType
  <2>5. label.speech \in BOOLEAN /\ label.vad.inSpeech = label.speech
    BY <1>2, <1>5, <2>1, <2>4
  <2>6. label.speech <=>
          IF v.inSpeech THEN voiced \/ v.hang > 0 ELSE voiced /\ v.onset + 1 >= OnsetFrames
    BY <1>1, <1>2, <1>5, <2>1
  <2>7. label.speech => label.vad.hang = IF voiced THEN Hangover ELSE v.hang - 1
    BY <1>5, <2>1, <2>4
  <2>8. label.vad.onset = IF v.inSpeech THEN v.onset
                          ELSE IF voiced /\ v.onset + 1 < OnsetFrames THEN v.onset + 1 ELSE 0
    BY <1>1, <1>2, <1>5, <2>4
  <2>9. label.retro = IF ~v.inSpeech /\ label.speech THEN b - 1 ELSE 0
    BY <1>5, <2>1
  <2> QED BY <2>3, <2>4, <2>5, <2>6, <2>7, <2>8, <2>9 DEF label, b
<1>6. CASE ~v.inSpeech /\ voiced /\ v.onset + 1 < OnsetFrames
  <2>1. label.speech = FALSE /\ label.retro = 0
    BY <1>1, <1>2, <1>6, SMT DEF Advance
  <2>2. label.vad = [next EXCEPT !.onset = v.onset + 1]
    BY <1>1, <1>2, <1>6, SMT DEF Advance
  <2> HIDE DEF label, b, next
  <2>3. label.vad \in VadType
    BY <1>4, <1>a, <1>6, <2>2, VadExcept
  <2>4. /\ label.vad.buffered = b /\ label.vad.onset = v.onset + 1
        /\ label.vad.hang = v.hang /\ label.vad.inSpeech = v.inSpeech
    BY <1>4, <2>2 DEF VadType
  <2>5. label.speech \in BOOLEAN /\ label.vad.inSpeech = label.speech
    BY <1>2, <1>6, <2>1, <2>4
  <2>6. label.speech <=>
          IF v.inSpeech THEN voiced \/ v.hang > 0 ELSE voiced /\ v.onset + 1 >= OnsetFrames
    BY <1>1, <1>2, <1>6, <2>1
  <2>7. label.speech => label.vad.hang = IF voiced THEN Hangover ELSE v.hang - 1
    BY <1>6, <2>1, <2>4
  <2>8. label.vad.onset = IF v.inSpeech THEN v.onset
                          ELSE IF voiced /\ v.onset + 1 < OnsetFrames THEN v.onset + 1 ELSE 0
    BY <1>1, <1>2, <1>6, <2>4
  <2>9. label.retro = IF ~v.inSpeech /\ label.speech THEN b - 1 ELSE 0
    BY <1>6, <2>1
  <2> QED BY <2>3, <2>4, <2>5, <2>6, <2>7, <2>8, <2>9 DEF label, b
<1>7. CASE ~v.inSpeech /\ ~voiced
  <2>1. label.speech = FALSE /\ label.retro = 0
    BY <1>1, <1>2, <1>7, SMT DEF Advance
  <2>2. label.vad = [next EXCEPT !.onset = 0]
    BY <1>1, <1>2, <1>7, SMT DEF Advance
  <2> HIDE DEF label, b, next
  <2>3. label.vad \in VadType
    BY <1>4, <1>a, <1>7, <2>2, VadExcept
  <2>4. /\ label.vad.buffered = b /\ label.vad.onset = 0
        /\ label.vad.hang = v.hang /\ label.vad.inSpeech = v.inSpeech
    BY <1>4, <2>2 DEF VadType
  <2>5. label.speech \in BOOLEAN /\ label.vad.inSpeech = label.speech
    BY <1>2, <1>7, <2>1, <2>4
  <2>6. label.speech <=>
          IF v.inSpeech THEN voiced \/ v.hang > 0 ELSE voiced /\ v.onset + 1 >= OnsetFrames
    BY <1>1, <1>2, <1>7, <2>1
  <2>7. label.speech => label.vad.hang = IF voiced THEN Hangover ELSE v.hang - 1
    BY <1>7, <2>1, <2>4
  <2>8. label.vad.onset = IF v.inSpeech THEN v.onset
                          ELSE IF voiced /\ v.onset + 1 < OnsetFrames THEN v.onset + 1 ELSE 0
    BY <1>1, <1>2, <1>7, <2>4
  <2>9. label.retro = IF ~v.inSpeech /\ label.speech THEN b - 1 ELSE 0
    BY <1>7, <2>1
  <2> QED BY <2>3, <2>4, <2>5, <2>6, <2>7, <2>8, <2>9 DEF label, b
<1>8. CASE v.inSpeech /\ voiced
  <2>1. label.speech = TRUE /\ label.retro = 0
    BY <1>1, <1>2, <1>8, SMT DEF Advance
  <2>2. label.vad = [next EXCEPT !.hang = Hangover]
    BY <1>1, <1>2, <1>8, SMT DEF Advance
  <2> HIDE DEF label, b, next
  <2>3. label.vad \in VadType
    BY <1>4, <1>a, <1>8, <2>2, VadExcept
  <2>4. /\ label.vad.buffered = b /\ label.vad.onset = v.onset
        /\ label.vad.hang = Hangover /\ label.vad.inSpeech = v.inSpeech
    BY <1>4, <2>2 DEF VadType
  <2>5. label.speech \in BOOLEAN /\ label.vad.inSpeech = label.speech
    BY <1>2, <1>8, <2>1, <2>4
  <2>6. label.speech <=>
          IF v.inSpeech THEN voiced \/ v.hang > 0 ELSE voiced /\ v.onset + 1 >= OnsetFrames
    BY <1>1, <1>2, <1>8, <2>1
  <2>7. label.speech => label.vad.hang = IF voiced THEN Hangover ELSE v.hang - 1
    BY <1>8, <2>1, <2>4
  <2>8. label.vad.onset = IF v.inSpeech THEN v.onset
                          ELSE IF voiced /\ v.onset + 1 < OnsetFrames THEN v.onset + 1 ELSE 0
    BY <1>1, <1>2, <1>8, <2>4
  <2>9. label.retro = IF ~v.inSpeech /\ label.speech THEN b - 1 ELSE 0
    BY <1>8, <2>1
  <2> QED BY <2>3, <2>4, <2>5, <2>6, <2>7, <2>8, <2>9 DEF label, b
<1>9. CASE v.inSpeech /\ ~voiced /\ v.hang > 0
  <2>1. label.speech = TRUE /\ label.retro = 0
    BY <1>1, <1>2, <1>9, SMT DEF Advance
  <2>2. label.vad = [next EXCEPT !.hang = v.hang - 1]
    BY <1>1, <1>2, <1>9, SMT DEF Advance
  <2> HIDE DEF label, b, next
  <2>3. label.vad \in VadType
    BY <1>4, <1>a, <1>9, <2>2, VadExcept
  <2>4. /\ label.vad.buffered = b /\ label.vad.onset = v.onset
        /\ label.vad.hang = v.hang - 1 /\ label.vad.inSpeech = v.inSpeech
    BY <1>4, <2>2 DEF VadType
  <2>5. label.speech \in BOOLEAN /\ label.vad.inSpeech = label.speech
    BY <1>2, <1>9, <2>1, <2>4
  <2>6. label.speech <=>
          IF v.inSpeech THEN voiced \/ v.hang > 0 ELSE voiced /\ v.onset + 1 >= OnsetFrames
    BY <1>1, <1>2, <1>9, <2>1
  <2>7. label.speech => label.vad.hang = IF voiced THEN Hangover ELSE v.hang - 1
    BY <1>9, <2>1, <2>4
  <2>8. label.vad.onset = IF v.inSpeech THEN v.onset
                          ELSE IF voiced /\ v.onset + 1 < OnsetFrames THEN v.onset + 1 ELSE 0
    BY <1>1, <1>2, <1>9, <2>4
  <2>9. label.retro = IF ~v.inSpeech /\ label.speech THEN b - 1 ELSE 0
    BY <1>9, <2>1
  <2> QED BY <2>3, <2>4, <2>5, <2>6, <2>7, <2>8, <2>9 DEF label, b
<1>10. CASE v.inSpeech /\ ~voiced /\ v.hang = 0
  <2>1. label.speech = FALSE /\ label.retro = 0
    BY <1>1, <1>2, <1>10, SMT DEF Advance
  <2>2. label.vad = [next EXCEPT !.inSpeech = FALSE]
    BY <1>1, <1>2, <1>10, SMT DEF Advance
  <2> HIDE DEF label, b, next
  <2>3. label.vad \in VadType
    BY <1>4, <1>a, <1>10, <2>2, VadExcept
  <2>4. /\ label.vad.buffered = b /\ label.vad.onset = v.onset
        /\ label.vad.hang = v.hang /\ label.vad.inSpeech = FALSE
    BY <1>4, <2>2 DEF VadType
  <2>5. label.speech \in BOOLEAN /\ label.vad.inSpeech = label.speech
    BY <1>2, <1>10, <2>1, <2>4
  <2>6. label.speech <=>
          IF v.inSpeech THEN voiced \/ v.hang > 0 ELSE voiced /\ v.onset + 1 >= OnsetFrames
    BY <1>1, <1>2, <1>10, <2>1
  <2>7. label.speech => label.vad.hang = IF voiced THEN Hangover ELSE v.hang - 1
    BY <1>10, <2>1, <2>4
  <2>8. label.vad.onset = IF v.inSpeech THEN v.onset
                          ELSE IF voiced /\ v.onset + 1 < OnsetFrames THEN v.onset + 1 ELSE 0
    BY <1>1, <1>2, <1>10, <2>4
  <2>9. label.retro = IF ~v.inSpeech /\ label.speech THEN b - 1 ELSE 0
    BY <1>10, <2>1
  <2> QED BY <2>3, <2>4, <2>5, <2>6, <2>7, <2>8, <2>9 DEF label, b
<1> QED BY <1>1, <1>2, <1>5, <1>6, <1>7, <1>8, <1>9, <1>10

LEMMA AdvanceTypes ==
  ASSUME NEW v \in VadType, NEW voiced \in BOOLEAN
  PROVE  /\ Advance(v, voiced).vad \in VadType
         /\ Advance(v, voiced).speech \in BOOLEAN
         /\ Advance(v, voiced).retro \in 0 .. Prefill
<1>1. Prefill \in Nat /\ v.buffered \in Nat
  BY FramesAssumption DEF VadType
<1>2. Min({v.buffered + 1, Prefill + 1}) \in 1 .. Prefill + 1
  BY <1>1, MinOfTwo
<1> QED BY <1>1, <1>2, AdvanceFields

LEMMA KeptTypes ==
  ASSUME NEW h \in HearingType, NEW sound
  PROVE  /\ Kept(h, sound) \in HearingType
         /\ Len(Kept(h, sound).mask) = Len(h.mask) + 1
<1> DEFINE label == Advance(h.vad, sound # "silence")
<1>1. label.vad \in VadType /\ label.speech \in BOOLEAN /\ label.retro \in 0 .. Prefill
  BY AdvanceTypes DEF HearingType
<1> HIDE DEF label
<1>2. Len(h.mask) \in Nat /\ h.mask \in Seq(BOOLEAN)
  BY DEF HearingType
<1> DEFINE flipped == [i \in 1 .. Len(h.mask) |-> h.mask[i] \/ i > Len(h.mask) - label.retro]
<1>3. flipped \in Seq(BOOLEAN) /\ Len(flipped) = Len(h.mask)
  <2>1. flipped \in [1 .. Len(h.mask) -> BOOLEAN]
    OBVIOUS
  <2> QED BY <1>2, <2>1
<1>4. Marked(h.mask, label) = Append(flipped, label.speech)
  BY DEF Marked
<1> HIDE DEF flipped
<1>5. Marked(h.mask, label) \in Seq(BOOLEAN) /\ Len(Marked(h.mask, label)) = Len(h.mask) + 1
  BY <1>1, <1>2, <1>3, <1>4
<1>6. Kept(h, sound) = [h EXCEPT !.mask = Marked(h.mask, label), !.vad = label.vad,
                                 !.speech = label.speech]
  BY DEF Kept, label
<1> QED BY <1>1, <1>5, <1>6 DEF HearingType

LEMMA StepTypes ==
  ASSUME NEW h \in HearingType, NEW sound, NEW live \in BOOLEAN
  PROVE  /\ Step(h, sound, live) \in HearingType
         /\ Len(Step(h, sound, live).mask) = Len(h.mask) + 1
<1>1. CASE ~live
  BY <1>1, KeptTypes DEF Step
<1>2. CASE live
  <2> DEFINE k == Kept(h, sound)
             speaks == k.speech /\ (h.speaking \/ sound = "loud")
  <2>1. k \in HearingType /\ Len(k.mask) = Len(h.mask) + 1
    BY KeptTypes
  <2>2. Signalled(h, sound) = [k EXCEPT !.speaking = speaks, !.seen = k.seen \/ speaks]
    BY DEF Signalled
  <2> HIDE DEF k
  <2>3. speaks \in BOOLEAN /\ (k.seen \/ speaks) \in BOOLEAN
    BY <2>1 DEF HearingType
  <2> HIDE DEF speaks
  <2> QED BY <1>2, <2>1, <2>2, <2>3 DEF Step, HearingType
<1> QED BY <1>1, <1>2

LEMMA RunTypes ==
  ASSUME NEW h \in HearingType, NEW sounds \in Seq(Sounds), NEW live \in BOOLEAN
  PROVE  \A i \in 0 .. Len(sounds) : /\ Run(h, sounds, live)[i] \in HearingType
                                     /\ Len(Run(h, sounds, live)[i].mask) = Len(h.mask) + i
<1> DEFINE r == Run(h, sounds, live)
           S == {i \in 0 .. Len(sounds) : r[i] \in HearingType
                                          /\ Len(r[i].mask) = Len(h.mask) + i}
<1>1. r[0] = h /\ \A i \in 1 .. Len(sounds) : r[i] = Step(r[i - 1], sounds[i], live)
  BY RunStarts
<1>2. Len(sounds) \in Nat /\ Len(h.mask) \in Nat
  BY DEF HearingType
<1> HIDE DEF r
<1>3. 0 \in S
  BY <1>1, <1>2
<1>4. ASSUME NEW i \in 0 .. Len(sounds) - 1, i \in S PROVE i + 1 \in S
  <2>1. i + 1 \in 1 .. Len(sounds) /\ i + 1 - 1 = i
    BY <1>2
  <2>2. r[i + 1] = Step(r[i], sounds[i + 1], live)
    BY <1>1, <2>1
  <2>3. r[i] \in HearingType /\ Len(r[i].mask) = Len(h.mask) + i
    BY <1>4
  <2>4. r[i + 1] \in HearingType /\ Len(r[i + 1].mask) = Len(r[i].mask) + 1
    BY <2>2, <2>3, StepTypes
  <2> QED BY <1>2, <2>1, <2>3, <2>4
<1>5. 0 .. Len(sounds) \subseteq S
  <2> HIDE DEF S
  <2> QED BY <1>2, <1>3, <1>4, InductTo
<1> QED BY <1>5 DEF r

LEMMA HearsTypes ==
  ASSUME NEW h \in HearingType, NEW sounds \in Seq(Sounds), NEW live \in BOOLEAN
  PROVE  /\ Hears(h, sounds, live) \in HearingType
         /\ Len(Hears(h, sounds, live).mask) = Len(h.mask) + Len(sounds)
<1>1. Len(sounds) \in 0 .. Len(sounds)
  OBVIOUS
<1> QED BY <1>1, RunTypes, RunIsHears

LEMMA MaxOfBounded ==
  ASSUME NEW n \in Nat, NEW S \in SUBSET (0 .. n), S # {}
  PROVE  Max(S) \in S /\ \A x \in S : x <= Max(S)
<1> DEFINE Top(i) == (\A x \in S : x <= i) => \E m \in S : \A x \in S : x <= m
           V == {i \in Nat : Top(i)}
<1>1. 0 \in V
  <2>1. PICK m : m \in S
    BY Zenon
  <2>2. (\A x \in S : x <= 0) => \A x \in S : x <= m
    BY <2>1
  <2> QED BY <2>1, <2>2
<1>2. ASSUME NEW i \in V PROVE i + 1 \in V
  <2>1. CASE i + 1 \in S
    BY <2>1
  <2>2. CASE i + 1 \notin S
    BY <2>2
  <2> QED BY <2>1, <2>2
<1>3. V = Nat
  <2> HIDE DEF V
  <2>1. V \in SUBSET Nat
    BY DEF V
  <2> QED BY <1>1, <1>2, <2>1, Induct
<1>4. \E m \in S : \A x \in S : x <= m
  <2>1. n \in V /\ \A x \in S : x <= n
    BY <1>3
  <2> QED BY <2>1
<1>5. \E m \in S : \A x \in S : m >= x
  BY <1>4
<1>6. Max(S) \in S /\ \A x \in S : Max(S) >= x
  BY <1>5, Zenon DEF Max
<1> QED BY <1>6

-----------------------------------------------------------------------------
\* Types

Clock ==
  /\ now \in Nat /\ delivered \in 0 .. now /\ deadline \in {Unset} \cup 0 .. now
  /\ stamped \in BOOLEAN /\ alive \in BOOLEAN /\ eosSent \in BOOLEAN /\ stopFlag \in BOOLEAN
CallbackType ==
  callback = Idle \/ ( /\ callback.at = "holds" /\ callback.stopping \in BOOLEAN
                      /\ callback.from \in 1 .. callback.to /\ callback.to = delivered
                      /\ callback.of \in Nat )
WorkerType ==
  worker \in [at : {"recv", "stamped", "drain", "answered", "gone"}, stop : Nat,
              also : SUBSET Nat, raised : Nat]
InboxType == pending \in Seq(Command) /\ queue \in Seq(Message)
CallType  == asked \in Seq(Nat) /\ begun \in Nat /\ waits \in 0 .. Len(asked) /\ open \in BOOLEAN
TakeType  == [frames : Seq(Nat), mask : Seq(BOOLEAN), heard : Seq(Sounds), cut : Nat,
              seeded : Nat, since : Nat]
AudioType ==
  /\ take \in TakeType /\ Len(take.mask) = Len(take.frames)
  /\ vad \in VadType /\ speaking \in BOOLEAN /\ seen \in BOOLEAN /\ recording \in BOOLEAN
  /\ ring \in Seq(Nat) /\ Len(ring) <= RingFrames /\ mirror \in Seq(Nat)
ReplyType == reply.of \in SUBSET Nat /\ taken \in SUBSET Nat

Types == /\ Clock /\ CallbackType /\ WorkerType /\ InboxType /\ CallType /\ AudioType
         /\ ReplyType

LEMMA ChunkSeq ==
  ASSUME NEW m \in Message, m.is = "samples"
  PROVE  /\ Chunk(m) \in Seq(Nat) /\ Len(Chunk(m)) = m.to - m.from + 1
         /\ \A i \in 1 .. Len(Chunk(m)) : Chunk(m)[i] = m.from + i - 1
<1>1. m.from \in Nat \ {0} /\ m.to \in Nat /\ m.from <= m.to
  BY MessageFields
<1>2. m.to - m.from + 1 \in Nat
  BY <1>1
<1>3. Chunk(m) \in [1 .. m.to - m.from + 1 -> Nat]
  BY <1>1 DEF Chunk
<1> QED BY <1>1, <1>2, <1>3 DEF Chunk

LEMMA SoundingSeq ==
  ASSUME NEW fs, Len(fs) \in Nat, NEW sounds \in Sounding(fs)
  PROVE  sounds \in Seq(Sounds) /\ Len(sounds) = Len(fs)
  BY DEF Sounding

\* A frame that is kept is kept with its label; nothing else of the take changes.
LEMMA HeardTypes ==
  ASSUME AudioType, NEW fs \in Seq(Nat), NEW live \in BOOLEAN, Heard(fs, live)
  PROVE  /\ take' \in TakeType /\ Len(take'.mask) = Len(take'.frames)
         /\ take'.frames = take.frames \o fs /\ take'.cut = take.cut
         /\ take'.seeded = take.seeded /\ take'.since = take.since
         /\ vad' \in VadType /\ speaking' \in BOOLEAN /\ seen' \in BOOLEAN
<1>1. PICK sounds \in Sounding(fs) :
        LET h == Hears(Hearing, sounds, live)
        IN /\ take' = [take EXCEPT !.frames = @ \o fs, !.mask = h.mask, !.heard = @ \o sounds]
           /\ vad' = h.vad /\ speaking' = h.speaking /\ seen' = h.seen
  BY DEF Heard
<1> DEFINE h == Hears(Hearing, sounds, live)
<1>2. sounds \in Seq(Sounds) /\ Len(sounds) = Len(fs) /\ Len(fs) \in Nat
  BY SoundingSeq
<1>3. take.frames \in Seq(Nat) /\ take.mask \in Seq(BOOLEAN) /\ take.heard \in Seq(Sounds)
  BY DEF AudioType, TakeType
<1>4. Hearing \in HearingType /\ Hearing.mask = take.mask
  BY <1>3 DEF Hearing, HearingType, AudioType
<1>5. h \in HearingType /\ Len(h.mask) = Len(take.mask) + Len(fs)
  BY <1>2, <1>4, HearsTypes
<1>6. take' = [take EXCEPT !.frames = take.frames \o fs, !.mask = h.mask,
                           !.heard = take.heard \o sounds]
      /\ vad' = h.vad /\ speaking' = h.speaking /\ seen' = h.seen
  BY <1>1
<1> HIDE DEF h
<1>7. h.mask \in Seq(BOOLEAN) /\ h.vad \in VadType /\ h.speaking \in BOOLEAN
      /\ h.seen \in BOOLEAN
  BY <1>5 DEF HearingType
<1>8. take.frames \o fs \in Seq(Nat) /\ take.heard \o sounds \in Seq(Sounds)
      /\ Len(take.frames \o fs) = Len(take.frames) + Len(fs)
  BY <1>2, <1>3
<1>9. take' \in TakeType /\ take'.frames = take.frames \o fs /\ take'.mask = h.mask
      /\ take'.cut = take.cut /\ take'.seeded = take.seeded /\ take'.since = take.since
  BY <1>6, <1>7, <1>8 DEF AudioType, TakeType
<1> QED BY <1>5, <1>6, <1>7, <1>8, <1>9 DEF AudioType

LEMMA SeededFields ==
  ASSUME ring \in Seq(Nat), now \in Nat, NEW mask \in Seq(BOOLEAN), Len(mask) = Len(ring),
         NEW sounds \in Seq(Sounds)
  PROVE  LET end  == Len(ring)
             lead == Seeded(mask, sounds).cut
         IN /\ Seeded(mask, sounds) \in TakeType
            /\ Len(Seeded(mask, sounds).mask) = Len(Seeded(mask, sounds).frames)
            /\ Seeded(mask, sounds).frames = SubSeq(ring, lead + 1, end)
            /\ Seeded(mask, sounds).mask = SubSeq(mask, lead + 1, end)
            /\ Seeded(mask, sounds).heard = sounds
            /\ Seeded(mask, sounds).seeded = end /\ Seeded(mask, sounds).since = now
            /\ lead \in 0 .. end
            /\ \A i \in 1 .. lead : ~mask[i]
            /\ lead < end => mask[lead + 1]
<1> DEFINE end  == Len(ring)
           S    == {n \in 0 .. end : \A i \in 1 .. n : ~mask[i]}
           lead == Max(S)
           t    == [frames |-> SubSeq(ring, lead + 1, end), mask |-> SubSeq(mask, lead + 1, end),
                    heard |-> sounds, cut |-> lead, seeded |-> end, since |-> now]
<1>1. end \in Nat
  OBVIOUS
<1>2. 0 \in S /\ S \in SUBSET (0 .. end) /\ S # {}
  BY <1>1
<1>3. lead \in S /\ \A n \in S : n <= lead
  <2> HIDE DEF S
  <2> QED BY <1>1, <1>2, MaxOfBounded
<1>4. lead \in 0 .. end /\ \A i \in 1 .. lead : ~mask[i]
  BY <1>3
<1>5. lead < end => mask[lead + 1]
  <2>1. SUFFICES ASSUME lead < end, ~mask[lead + 1] PROVE FALSE
    OBVIOUS
  <2> DEFINE l == lead
  <2>2. l \in 0 .. end /\ (\A i \in 1 .. l : ~mask[i]) /\ l < end /\ ~mask[l + 1]
    BY <1>4, <2>1
  <2>3. \A n \in S : n <= l
    BY <1>3
  <2> HIDE DEF l
  <2>4. l + 1 \in S
    BY <1>1, <2>2
  <2> QED BY <2>2, <2>3, <2>4
<1>6. Seeded(mask, sounds) = t
  BY DEF Seeded
<1> HIDE DEF S, lead
<1>7. /\ SubSeq(ring, lead + 1, end) \in Seq(Nat) /\ SubSeq(mask, lead + 1, end) \in Seq(BOOLEAN)
      /\ Len(SubSeq(ring, lead + 1, end)) = Len(SubSeq(mask, lead + 1, end))
  BY <1>1, <1>4
<1>8. /\ t \in TakeType /\ t.cut = lead /\ t.frames = SubSeq(ring, lead + 1, end)
      /\ t.mask = SubSeq(mask, lead + 1, end) /\ t.heard = sounds /\ t.seeded = end
      /\ t.since = now
  BY <1>1, <1>4, <1>7 DEF TakeType
<1> HIDE DEF t
<1> QED BY <1>4, <1>5, <1>6, <1>7, <1>8

\* A start makes a take of the ring, through a fresh detector.
LEMMA StartTypes ==
  ASSUME AudioType, now \in Nat, NEW sounds \in Sounding(ring)
  PROVE  LET h == Replayed(sounds)
         IN /\ sounds \in Seq(Sounds) /\ Len(sounds) = Len(ring)
            /\ h \in HearingType /\ Len(h.mask) = Len(ring)
            /\ Seeded(h.mask, sounds) \in TakeType
            /\ Len(Seeded(h.mask, sounds).mask) = Len(Seeded(h.mask, sounds).frames)
<1>1. ring \in Seq(Nat)
  BY DEF AudioType
<1>2. sounds \in Seq(Sounds) /\ Len(sounds) = Len(ring)
  BY <1>1, SoundingSeq
<1>3. FreshVad \in VadType
  BY FramesAssumption DEF FreshVad, VadType
<1> DEFINE fresh == [Hearing EXCEPT !.mask = <<>>, !.vad = FreshVad]
<1>4. fresh \in HearingType /\ Len(fresh.mask) = 0
  <2>1. Hearing \in HearingType
    BY DEF Hearing, HearingType, AudioType, TakeType
  <2>2. <<>> \in Seq(BOOLEAN) /\ Len(<<>>) = 0
    OBVIOUS
  <2> QED BY <1>3, <2>1, <2>2 DEF HearingType
<1> HIDE DEF fresh
<1>5. Hears(fresh, sounds, FALSE) \in HearingType
      /\ Len(Hears(fresh, sounds, FALSE).mask) = Len(fresh.mask) + Len(sounds)
  <2>1. FALSE \in BOOLEAN
    OBVIOUS
  <2> QED BY <1>2, <1>4, <2>1, HearsTypes, Zenon
<1>6. Replayed(sounds) \in HearingType /\ Len(Replayed(sounds).mask) = Len(ring)
  <2>1. Replayed(sounds) = Hears(fresh, sounds, FALSE)
    BY DEF Replayed, fresh
  <2>2. Len(fresh.mask) + Len(sounds) = Len(ring)
    BY <1>1, <1>2, <1>4
  <2> QED BY <1>5, <2>1, <2>2, Zenon
<1>7. Replayed(sounds).mask \in Seq(BOOLEAN)
  BY <1>6 DEF HearingType
<1> QED BY <1>1, <1>2, <1>6, <1>7, SeededFields

LEMMA WarmedFields ==
  ASSUME NEW r \in Seq(Nat), NEW fs \in Seq(Nat)
  PROVE  /\ Warmed(r, fs) \in Seq(Nat) /\ Len(Warmed(r, fs)) <= RingFrames
         /\ \E k \in Nat : /\ Len(Warmed(r, fs)) = Len(r \o fs) - k
                           /\ \A i \in 1 .. Len(Warmed(r, fs)) :
                                /\ i + k \in 1 .. Len(r \o fs)
                                /\ Warmed(r, fs)[i] = (r \o fs)[i + k]
<1> DEFINE all == r \o fs
           n   == Len(all) - RingFrames + 1
<1>1. all \in Seq(Nat) /\ RingFrames \in Nat \ {0} /\ Len(all) \in Nat
  BY FramesAssumption
<1>2. Max({1, n}) = IF n <= 1 THEN 1 ELSE n
  BY <1>1, MaxOfTwo
<1>3. Warmed(r, fs) = SubSeq(all, Max({1, n}), Len(all))
  BY DEF Warmed
<1> HIDE DEF all
<1> DEFINE first == IF n <= 1 THEN 1 ELSE n
<1>4. first \in 1 .. Len(all) + 1 /\ Len(all) - first + 1 <= RingFrames
  BY <1>1
<1>5. Warmed(r, fs) = SubSeq(all, first, Len(all))
  BY <1>2, <1>3
<1> HIDE DEF first
<1>6. /\ SubSeq(all, first, Len(all)) \in Seq(Nat)
      /\ Len(SubSeq(all, first, Len(all))) = Len(all) - first + 1
      /\ \A i \in 1 .. Len(all) - first + 1 : SubSeq(all, first, Len(all))[i] = all[first + i - 1]
  BY <1>1, <1>4
<1>7. first - 1 \in Nat
  BY <1>4
<1>8. \A i \in 1 .. Len(all) - first + 1 :
        i + (first - 1) \in 1 .. Len(all) /\ first + i - 1 = i + (first - 1)
  BY <1>1, <1>4
<1>9. /\ Len(Warmed(r, fs)) = Len(all) - (first - 1)
      /\ \A i \in 1 .. Len(Warmed(r, fs)) : /\ i + (first - 1) \in 1 .. Len(all)
                                            /\ Warmed(r, fs)[i] = all[i + (first - 1)]
  BY <1>1, <1>4, <1>5, <1>6, <1>8
<1> QED BY <1>4, <1>5, <1>6, <1>7, <1>9 DEF all

LEMMA StopPlanFields ==
  ASSUME Clock, NEW f \in Nat \ {0}, NEW t \in Nat, f <= t
  PROVE  LET cut == IF deadline = Unset THEN now ELSE deadline
         IN /\ StopPlan(f, t).keep \in f - 1 .. t /\ StopPlan(f, t).eos \in BOOLEAN
            /\ stamped => /\ \A x \in f .. t : x <= StopPlan(f, t).keep <=> x <= cut
                          /\ StopPlan(f, t).eos <=> cut < t
            /\ ~stamped => StopPlan(f, t).keep = t /\ StopPlan(f, t).eos
<1> DEFINE cut == IF deadline = Unset THEN now ELSE deadline
           keep == Min({t, cut})
<1>1. cut \in Nat
  BY DEF Clock, Unset
<1> HIDE DEF cut
<1>2. keep = IF t <= cut THEN t ELSE cut
  BY <1>1, MinOfTwo
<1>3. StopPlan(f, t) = IF ~stamped THEN [keep |-> t, eos |-> TRUE]
                       ELSE IF f > cut THEN [keep |-> f - 1, eos |-> TRUE]
                       ELSE [keep |-> keep, eos |-> cut < t]
  BY DEF StopPlan, cut
<1> HIDE DEF keep
<1>4. CASE ~stamped
  BY <1>3, <1>4 DEF cut
<1>5. CASE stamped /\ f > cut
  <2>1. StopPlan(f, t).keep = f - 1 /\ StopPlan(f, t).eos = TRUE
    BY <1>3, <1>5
  <2>2. f - 1 \in f - 1 .. t /\ cut < t /\ \A x \in f .. t : x <= f - 1 <=> x <= cut
    BY <1>1, <1>5
  <2> QED BY <1>5, <2>1, <2>2 DEF cut
<1>6. CASE stamped /\ ~(f > cut)
  <2>1. StopPlan(f, t).keep = keep /\ StopPlan(f, t).eos = (cut < t)
    BY <1>3, <1>6
  <2>2. keep \in f - 1 .. t /\ \A x \in f .. t : x <= keep <=> x <= cut
    BY <1>1, <1>2, <1>6
  <2>3. (cut < t) \in BOOLEAN
    BY <1>1
  <2> HIDE DEF keep
  <2> QED BY <1>6, <2>1, <2>2, <2>3 DEF cut
<1> QED BY <1>4, <1>5, <1>6 DEF Clock

-----------------------------------------------------------------------------
\* The Inbox, step by step.

Took(k, m) == k \in 1 .. Len(Inbox) /\ m = Inbox[k] /\ Inbox' = Drop(Inbox, k)

LEMMA InboxFields ==
  ASSUME InboxType
  PROVE  /\ pending \in Seq(Message) /\ queue \in Seq(Message) /\ Inbox \in Seq(Message)
         /\ Len(Inbox) = Len(pending) + Len(queue) /\ Len(pending) \in Nat /\ Len(queue) \in Nat
         /\ \A i \in 1 .. Len(Inbox) : /\ Inbox[i] = IF i <= Len(pending) THEN pending[i]
                                                     ELSE queue[i - Len(pending)]
                                       /\ Inbox[i] \in Message
                                       /\ i <= Len(pending) => Inbox[i] \in Command
         /\ Messages = {Inbox[i] : i \in 1 .. Len(Inbox)}
<1>1. Command \subseteq Message
  BY DEF Command
<1>2. pending \in Seq(Message)
  BY <1>1, SeqMonotonic DEF InboxType
<1>3. queue \in Seq(Message) /\ pending \in Seq(Command)
  BY DEF InboxType
<1>4. /\ Inbox \in Seq(Message)
      /\ Len(Inbox) = Len(pending) + Len(queue)
      /\ \A i \in 1 .. Len(pending) + Len(queue) :
           Inbox[i] = IF i <= Len(pending) THEN pending[i] ELSE queue[i - Len(pending)]
  BY <1>2, <1>3, ConcatProperties DEF Inbox
<1>5. Len(pending) \in Nat /\ Len(queue) \in Nat
  BY <1>2, <1>3
<1>6. \A i \in 1 .. Len(Inbox) : Inbox[i] \in Message
  BY <1>4, ElementOfSeq
<1>7. \A i \in 1 .. Len(Inbox) : i <= Len(pending) => Inbox[i] \in Command
  <2>1. \A i \in 1 .. Len(pending) : pending[i] \in Command
    BY <1>3, ElementOfSeq
  <2> QED BY <1>4, <1>5, <2>1
<1>8. Messages = {Inbox[i] : i \in 1 .. Len(Inbox)}
  <2>1. Range(queue) = {queue[i] : i \in 1 .. Len(queue)}
        /\ Range(pending) = {pending[i] : i \in 1 .. Len(pending)}
    BY <1>2, <1>3, RangeEquality
  <2>2. \A i \in 1 .. Len(queue) : i + Len(pending) \in 1 .. Len(Inbox)
                                   /\ Inbox[i + Len(pending)] = queue[i]
    BY <1>4, <1>5
  <2>3. \A i \in 1 .. Len(pending) : i \in 1 .. Len(Inbox) /\ Inbox[i] = pending[i]
    BY <1>4, <1>5
  <2>4. \A i \in 1 .. Len(Inbox) : \/ i \in 1 .. Len(pending) /\ Inbox[i] = pending[i]
                                   \/ /\ i - Len(pending) \in 1 .. Len(queue)
                                      /\ Inbox[i] = queue[i - Len(pending)]
    BY <1>4, <1>5
  <2> QED BY <2>1, <2>2, <2>3, <2>4 DEF Messages
<1> QED BY <1>2, <1>3, <1>4, <1>5, <1>6, <1>7, <1>8

\* The worker takes what has waited longest.
LEMMA ReadyTakes ==
  ASSUME InboxType, NEW m, Ready(m)
  PROVE  InboxType' /\ Took(1, m) /\ m \in Message
<1>0. /\ pending \in Seq(Message) /\ queue \in Seq(Message) /\ Inbox \in Seq(Message)
      /\ Len(Inbox) = Len(pending) + Len(queue) /\ Len(pending) \in Nat /\ Len(queue) \in Nat
      /\ \A i \in 1 .. Len(Inbox) : /\ Inbox[i] = IF i <= Len(pending) THEN pending[i]
                                                  ELSE queue[i - Len(pending)]
                                    /\ Inbox[i] \in Message
  BY InboxFields
<1>1. CASE pending # <<>>
  <2>1. m = Head(pending) /\ pending' = Tail(pending) /\ queue' = queue
    BY <1>1 DEF Ready
  <2>2. InboxType' /\ Len(pending) > 0
    BY <1>1, <2>1 DEF InboxType
  <2>3. /\ pending' \in Seq(Message) /\ Len(pending') = Len(pending) - 1
        /\ \A i \in 1 .. Len(pending) - 1 : pending'[i] = pending[i + 1]
    BY <1>0, <1>1, <2>1, HeadTailProperties
  <2>4. /\ Inbox' \in Seq(Message) /\ Len(Inbox') = Len(Inbox) - 1
        /\ \A i \in 1 .. Len(Inbox) - 1 :
             Inbox'[i] = IF i <= Len(pending) - 1 THEN pending'[i] ELSE queue[i - (Len(pending) - 1)]
    BY <1>0, <2>1, <2>3, ConcatProperties DEF Inbox
  <2>5. \A i \in 1 .. Len(Inbox) - 1 : Inbox'[i] = Inbox[i + 1]
    <3>1. TAKE i \in 1 .. Len(Inbox) - 1
    <3>2. CASE i <= Len(pending) - 1
      BY <1>0, <2>2, <2>3, <2>4, <3>2
    <3>3. CASE i > Len(pending) - 1
      <4>1. i - (Len(pending) - 1) = i + 1 - Len(pending)
        BY <1>0
      <4> QED BY <1>0, <2>4, <3>3, <4>1
    <3> QED BY <1>0, <3>2, <3>3
  <2>6. 1 \in 1 .. Len(Inbox) /\ m = Inbox[1]
    BY <1>0, <2>1, <2>2
  <2>7. /\ Drop(Inbox, 1) \in Seq(Message) /\ Len(Drop(Inbox, 1)) = Len(Inbox) - 1
        /\ \A i \in 1 .. Len(Inbox) - 1 : Drop(Inbox, 1)[i] = Inbox[i + 1]
    BY <1>0, <2>6, DropProperties
  <2>8. Inbox' = Drop(Inbox, 1)
    BY <2>4, <2>5, <2>7, SeqEqual
  <2> QED BY <1>0, <2>2, <2>6, <2>8 DEF Took
<1>2. CASE pending = <<>>
  <2>1. m = Head(queue) /\ queue' = Tail(queue) /\ queue # <<>> /\ pending' = <<>>
    BY <1>2 DEF Ready
  <2>2. InboxType' /\ Len(queue) > 0 /\ Len(pending) = 0
    BY <1>2, <2>1 DEF InboxType
  <2>3. /\ queue' \in Seq(Message) /\ Len(queue') = Len(queue) - 1
        /\ \A i \in 1 .. Len(queue) - 1 : queue'[i] = queue[i + 1]
    BY <1>0, <2>1, HeadTailProperties
  <2>4. Inbox' = queue' /\ Inbox = queue
    BY <1>0, <1>2, <2>1, <2>3, ConcatEmptySeq DEF Inbox
  <2>6. 1 \in 1 .. Len(Inbox) /\ m = Inbox[1]
    BY <1>0, <2>1, <2>2
  <2>7. /\ Drop(Inbox, 1) \in Seq(Message) /\ Len(Drop(Inbox, 1)) = Len(Inbox) - 1
        /\ \A i \in 1 .. Len(Inbox) - 1 : Drop(Inbox, 1)[i] = Inbox[i + 1]
    BY <1>0, <2>6, DropProperties
  <2>8. Inbox' = Drop(Inbox, 1)
    BY <2>3, <2>4, <2>7, SeqEqual
  <2> QED BY <1>0, <2>2, <2>6, <2>8 DEF Took
<1> QED BY <1>1, <1>2

\* A drain takes the first message that was not deferred ...
LEMMA DrainTakes ==
  ASSUME InboxType, queue # <<>>, queue' = Tail(queue), UNCHANGED pending
  PROVE  InboxType' /\ Took(Len(pending) + 1, Head(queue)) /\ Head(queue) \in Message
<1>0. /\ pending \in Seq(Message) /\ queue \in Seq(Message) /\ Inbox \in Seq(Message)
      /\ Len(Inbox) = Len(pending) + Len(queue) /\ Len(pending) \in Nat /\ Len(queue) \in Nat
      /\ \A i \in 1 .. Len(Inbox) : Inbox[i] = IF i <= Len(pending) THEN pending[i]
                                               ELSE queue[i - Len(pending)]
  BY InboxFields
<1> DEFINE k == Len(pending) + 1
<1>1. /\ queue' \in Seq(Message) /\ Len(queue') = Len(queue) - 1 /\ Len(queue) > 0
      /\ Head(queue) \in Message /\ Head(queue) = queue[1]
      /\ \A i \in 1 .. Len(queue) - 1 : queue'[i] = queue[i + 1]
  BY <1>0, HeadTailProperties
<1>2. InboxType'
  BY <1>1 DEF InboxType
<1>3. /\ Inbox' \in Seq(Message) /\ Len(Inbox') = Len(Inbox) - 1
      /\ \A i \in 1 .. Len(Inbox) - 1 :
           Inbox'[i] = IF i <= Len(pending) THEN pending[i] ELSE queue'[i - Len(pending)]
  BY <1>0, <1>1, ConcatProperties DEF Inbox
<1>4. \A i \in 1 .. Len(Inbox) - 1 : Inbox'[i] = IF i < k THEN Inbox[i] ELSE Inbox[i + 1]
  <2>1. TAKE i \in 1 .. Len(Inbox) - 1
  <2>2. CASE i < k
    <3>1. i <= Len(pending) /\ i \in 1 .. Len(Inbox)
      BY <1>0, <2>2
    <3>2. Inbox'[i] = pending[i] /\ Inbox[i] = pending[i]
      BY <1>0, <1>3, <3>1
    <3> QED BY <2>2, <3>2
  <2>3. CASE i >= k
    <3>1. i - Len(pending) \in 1 .. Len(queue) - 1
          /\ i - Len(pending) + 1 = i + 1 - Len(pending)
      BY <1>0, <2>3
    <3>2. Inbox'[i] = queue[i + 1 - Len(pending)]
      BY <1>0, <1>1, <1>3, <2>3, <3>1
    <3>3. i + 1 \in 1 .. Len(Inbox) /\ ~(i + 1 <= Len(pending)) /\ ~(i < k)
      BY <1>0, <2>3
    <3>4. Inbox[i + 1] = queue[i + 1 - Len(pending)]
      BY <1>0, <3>3
    <3> QED BY <3>2, <3>3, <3>4
  <2> QED BY <1>0, <2>2, <2>3
<1>5. k \in 1 .. Len(Inbox) /\ Head(queue) = Inbox[k]
  <2>1. k \in 1 .. Len(Inbox) /\ ~(k <= Len(pending)) /\ k - Len(pending) = 1
    BY <1>0, <1>1
  <2> QED BY <1>0, <1>1, <2>1
<1>6. /\ Drop(Inbox, k) \in Seq(Message) /\ Len(Drop(Inbox, k)) = Len(Inbox) - 1
      /\ \A i \in 1 .. Len(Inbox) - 1 :
           Drop(Inbox, k)[i] = IF i < k THEN Inbox[i] ELSE Inbox[i + 1]
  BY <1>0, <1>5, DropProperties
<1>7. Inbox' = Drop(Inbox, k)
  <2> HIDE DEF k
  <2> QED BY <1>3, <1>4, <1>6, SeqEqual
<1> QED BY <1>1, <1>2, <1>5, <1>7 DEF Took

\* ... and may put it behind the deferred ones: nothing changes places.
LEMMA DrainDefers ==
  ASSUME InboxType, queue # <<>>, queue' = Tail(queue), Head(queue) \in Command,
         pending' = Append(pending, Head(queue))
  PROVE  InboxType' /\ Inbox' = Inbox
<1>0. /\ pending \in Seq(Message) /\ queue \in Seq(Message) /\ Inbox \in Seq(Message)
      /\ Len(Inbox) = Len(pending) + Len(queue) /\ Len(pending) \in Nat /\ Len(queue) \in Nat
      /\ \A i \in 1 .. Len(Inbox) : Inbox[i] = IF i <= Len(pending) THEN pending[i]
                                               ELSE queue[i - Len(pending)]
  BY InboxFields
<1>1. /\ queue' \in Seq(Message) /\ Len(queue') = Len(queue) - 1 /\ Len(queue) > 0
      /\ Head(queue) \in Message /\ Head(queue) = queue[1]
      /\ \A i \in 1 .. Len(queue) - 1 : queue'[i] = queue[i + 1]
  BY <1>0, HeadTailProperties
<1>2. /\ pending' \in Seq(Message) /\ Len(pending') = Len(pending) + 1
      /\ \A i \in 1 .. Len(pending) : pending'[i] = pending[i]
      /\ pending'[Len(pending) + 1] = queue[1]
  BY <1>0, <1>1, AppendProperties
<1>3. InboxType'
  BY <1>1, AppendProperties DEF InboxType
<1>4. /\ Inbox' \in Seq(Message) /\ Len(Inbox') = Len(Inbox)
      /\ \A i \in 1 .. Len(Inbox) :
           Inbox'[i] = IF i <= Len(pending) + 1 THEN pending'[i] ELSE queue'[i - (Len(pending) + 1)]
  BY <1>0, <1>1, <1>2, ConcatProperties DEF Inbox
<1>5. \A i \in 1 .. Len(Inbox) : Inbox'[i] = Inbox[i]
  <2>1. TAKE i \in 1 .. Len(Inbox)
  <2>2. CASE i <= Len(pending)
    <3>1. i \in 1 .. Len(pending) /\ i <= Len(pending) + 1
      BY <1>0, <2>2
    <3>2. Inbox'[i] = pending'[i] /\ Inbox[i] = pending[i]
      BY <1>0, <1>4, <3>1
    <3> QED BY <1>2, <3>1, <3>2
  <2>3. CASE i = Len(pending) + 1
    BY <1>0, <1>2, <1>4, <2>3
  <2>4. CASE i > Len(pending) + 1
    <3>1. i - (Len(pending) + 1) \in 1 .. Len(queue) - 1
          /\ i - (Len(pending) + 1) + 1 = i - Len(pending)
      BY <1>0, <2>4
    <3>2. queue'[i - (Len(pending) + 1)] = queue[i - Len(pending)]
      BY <1>1, <3>1
    <3>3. Inbox'[i] = queue'[i - (Len(pending) + 1)] /\ Inbox[i] = queue[i - Len(pending)]
      BY <1>0, <1>4, <2>4
    <3> QED BY <3>2, <3>3
  <2> QED BY <1>0, <2>2, <2>3, <2>4
<1> QED BY <1>0, <1>3, <1>4, <1>5, SeqEqual

\* The callback and the manager add at the end.
LEMMA QueueGrows ==
  ASSUME InboxType, NEW s \in Seq(Message), queue' = queue \o s, UNCHANGED pending
  PROVE  InboxType' /\ Inbox' = Inbox \o s
<1>1. pending \in Seq(Message) /\ queue \in Seq(Message)
  BY InboxFields
<1>2. InboxType'
  BY <1>1, ConcatProperties DEF InboxType
<1>3. (pending \o queue) \o s = pending \o (queue \o s)
  BY <1>1, ConcatAssociative
<1> QED BY <1>2, <1>3 DEF Inbox

\* What the callback adds, when it keeps its chunk up to frame keep: that audio, and
\* then perhaps an end of stream.
Adds(s, keep, eos) ==
  /\ queue' = queue \o s /\ Inbox' = Inbox \o s
  /\ eosSent' = (eos \/ (eosSent /\ callback.stopping))
  /\ \A i \in 1 .. Len(s) :
       \/ /\ s[i].is = "samples" /\ i = 1 /\ s[i].from = callback.from /\ s[i].to = keep
          /\ callback.from <= keep
       \/ s[i].is = "eos" /\ i = Len(s) /\ s[i].of = callback.of /\ eos
  /\ callback.from <= keep => Len(s) >= 1 /\ s[1].is = "samples"

LEMMA CallbackPlan ==
  ASSUME Types, CallbackSends
  PROVE  /\ InboxType' /\ eosSent' \in BOOLEAN /\ UNCHANGED pending
         /\ callback.stopping \in BOOLEAN /\ callback.from \in Nat \ {0} /\ callback.to \in Nat
         /\ callback.from <= callback.to /\ callback.of \in Nat
         /\ \E s \in Seq(Message), keep \in callback.from - 1 .. callback.to, eos \in BOOLEAN :
              /\ Adds(s, keep, eos)
              /\ ~callback.stopping => keep = callback.to /\ ~eos
              /\ callback.stopping /\ stamped =>
                   LET cut == IF deadline = Unset THEN now ELSE deadline
                   IN /\ \A x \in callback.from .. callback.to : x <= keep <=> x <= cut
                      /\ eos <=> cut < callback.to
<1> DEFINE plan == IF callback.stopping THEN StopPlan(callback.from, callback.to)
                   ELSE [keep |-> callback.to, eos |-> FALSE]
           audio == IF plan.keep < callback.from THEN <<>>
                    ELSE <<[is |-> "samples", from |-> callback.from, to |-> plan.keep]>>
           end   == IF plan.eos THEN <<[is |-> "eos", of |-> callback.of]>> ELSE <<>>
<1>1. /\ queue' = queue \o audio \o end
      /\ eosSent' = (plan.eos \/ (eosSent /\ callback.stopping))
      /\ pending' = pending
  BY DEF CallbackSends, calls, device
<1>2. /\ callback.stopping \in BOOLEAN /\ callback.from \in Nat \ {0} /\ callback.to \in Nat
      /\ callback.from <= callback.to /\ callback.of \in Nat
  BY DEF Types, Clock, CallbackType, CallbackSends
<1>3. /\ plan.keep \in callback.from - 1 .. callback.to /\ plan.eos \in BOOLEAN
      /\ ~callback.stopping => plan.keep = callback.to /\ ~plan.eos
      /\ callback.stopping /\ stamped =>
           LET cut == IF deadline = Unset THEN now ELSE deadline
           IN /\ \A x \in callback.from .. callback.to : x <= plan.keep <=> x <= cut
              /\ plan.eos <=> cut < callback.to
  <2>1. CASE callback.stopping
    BY <1>2, <2>1, StopPlanFields DEF Types
  <2>2. CASE ~callback.stopping
    BY <1>2, <2>2
  <2> QED BY <2>1, <2>2
<1>4. eosSent' \in BOOLEAN
  BY <1>1, <1>2, <1>3 DEF Types, Clock
<1> HIDE DEF plan
<1>5. /\ audio \in Seq(Message) /\ Len(audio) <= 1
      /\ \A i \in 1 .. Len(audio) : /\ audio[i].is = "samples" /\ i = 1
                                    /\ audio[i].from = callback.from
                                    /\ audio[i].to = plan.keep /\ callback.from <= plan.keep
      /\ callback.from <= plan.keep => Len(audio) = 1 /\ audio[1].is = "samples"
  <2>1. CASE plan.keep < callback.from
    BY <1>2, <1>3, <2>1
  <2>2. CASE ~(plan.keep < callback.from)
    <3> DEFINE m == [is |-> "samples", from |-> callback.from, to |-> plan.keep]
    <3>1. plan.keep \in Nat /\ callback.from <= plan.keep /\ plan.keep <= callback.to
      BY <1>2, <1>3, <2>2
    <3>2. m \in Message
      BY <1>2, <3>1, MessagesMade
    <3>3. m.is = "samples" /\ m.from = callback.from /\ m.to = plan.keep
      BY <3>1
    <3> HIDE DEF m
    <3>4. audio = <<m>>
      BY <2>2 DEF m
    <3> HIDE DEF audio
    <3> QED BY <3>1, <3>2, <3>3, <3>4
  <2> QED BY <2>1, <2>2
<1>6. /\ end \in Seq(Message) /\ Len(end) <= 1
      /\ \A i \in 1 .. Len(end) : end[i].is = "eos" /\ end[i].of = callback.of /\ plan.eos
  <2>1. CASE plan.eos
    <3> DEFINE m == [is |-> "eos", of |-> callback.of]
    <3>1. m \in Message /\ m.is = "eos" /\ m.of = callback.of
      BY <1>2, MessagesMade
    <3> HIDE DEF m
    <3>2. end = <<m>>
      BY <2>1 DEF m
    <3> HIDE DEF end
    <3> QED BY <2>1, <3>1, <3>2
  <2>2. CASE ~plan.eos
    BY <2>2
  <2> QED BY <2>1, <2>2
<1> HIDE DEF audio, end
<1> DEFINE s == audio \o end
<1>7. queue \in Seq(Message)
  BY DEF Types, InboxType
<1>8. queue' = queue \o s
  BY <1>1, <1>5, <1>6, <1>7, ConcatAssociative
<1>9. /\ s \in Seq(Message) /\ Len(s) = Len(audio) + Len(end)
      /\ \A i \in 1 .. Len(audio) + Len(end) :
           s[i] = IF i <= Len(audio) THEN audio[i] ELSE end[i - Len(audio)]
  BY <1>5, <1>6, ConcatProperties
<1>10. Len(audio) \in Nat /\ Len(end) \in Nat
  BY <1>5, <1>6
<1> HIDE DEF s
<1>11. InboxType' /\ Inbox' = Inbox \o s
  BY <1>1, <1>8, <1>9, QueueGrows DEF Types
<1>12. \A i \in 1 .. Len(s) :
         \/ /\ s[i].is = "samples" /\ i = 1 /\ s[i].from = callback.from /\ s[i].to = plan.keep
            /\ callback.from <= plan.keep
         \/ s[i].is = "eos" /\ i = Len(s) /\ s[i].of = callback.of /\ plan.eos
  <2>1. TAKE i \in 1 .. Len(s)
  <2>2. CASE i <= Len(audio)
    <3>1. i \in 1 .. Len(audio) /\ s[i] = audio[i]
      BY <1>9, <1>10, <2>2
    <3> QED BY <1>5, <3>1
  <2>3. CASE i > Len(audio)
    <3>1. i - Len(audio) \in 1 .. Len(end) /\ s[i] = end[i - Len(audio)] /\ i = Len(s)
      BY <1>6, <1>9, <1>10, <2>3
    <3> QED BY <1>6, <3>1
  <2> QED BY <1>10, <2>2, <2>3
<1>13. callback.from <= plan.keep => Len(s) >= 1 /\ s[1].is = "samples"
  <2>1. SUFFICES ASSUME callback.from <= plan.keep PROVE Len(s) >= 1 /\ s[1].is = "samples"
    OBVIOUS
  <2>2. Len(audio) = 1 /\ audio[1].is = "samples"
    BY <1>5, <2>1
  <2>3. Len(s) >= 1 /\ 1 \in 1 .. Len(audio) + Len(end)
    BY <1>9, <1>10, <2>2
  <2>4. s[1] = audio[1]
    BY <1>9, <2>2, <2>3
  <2> QED BY <2>2, <2>3, <2>4
<1>14. Adds(s, plan.keep, plan.eos)
  BY <1>1, <1>8, <1>11, <1>12, <1>13 DEF Adds
<1> QED BY <1>1, <1>2, <1>3, <1>4, <1>9, <1>11, <1>14

LEMMA CallbackAdds ==
  ASSUME Types, CallbackSends
  PROVE  /\ InboxType' /\ eosSent' \in BOOLEAN /\ UNCHANGED pending
         /\ \E s \in Seq(Message) :
              /\ queue' = queue \o s /\ Inbox' = Inbox \o s
              /\ \A i \in 1 .. Len(s) :
                   \/ s[i].is = "samples" /\ i = 1 /\ s[i].from = callback.from
                      /\ s[i].to <= callback.to
                   \/ s[i].is = "eos" /\ i = Len(s)
<1>1. PICK s \in Seq(Message), keep \in callback.from - 1 .. callback.to, eos \in BOOLEAN :
        Adds(s, keep, eos)
  BY CallbackPlan
<1>2. keep <= callback.to
  BY CallbackPlan
<1>3. /\ queue' = queue \o s /\ Inbox' = Inbox \o s
      /\ \A i \in 1 .. Len(s) :
           \/ s[i].is = "samples" /\ i = 1 /\ s[i].from = callback.from /\ s[i].to = keep
           \/ s[i].is = "eos" /\ i = Len(s)
  BY <1>1 DEF Adds
<1> QED BY <1>2, <1>3, CallbackPlan

LEMMA EmptyTakeType ==
  EmptyTake \in TakeType /\ EmptyTake.frames = <<>> /\ EmptyTake.mask = <<>>
  BY DEF EmptyTake, TakeType

LEMMA InitTypes ==
  ASSUME Init
  PROVE  Types
<1>1. Clock /\ CallbackType
  <2>1. Clock
    <3>1. now \in Nat /\ delivered \in 0 .. now /\ deadline = Unset
      BY DEF Init
    <3>2. stamped \in BOOLEAN /\ alive \in BOOLEAN /\ eosSent \in BOOLEAN /\ stopFlag \in BOOLEAN
      BY DEF Init
    <3> QED BY <3>1, <3>2 DEF Clock
  <2> QED BY <2>1 DEF Init, CallbackType
<1>5. CallType
  BY DEF Init, CallType
<1>6. ReplyType
  BY DEF Init, ReplyType
<1>2. WorkerType
  BY DEF Init, WorkerType, Resting
<1>3. InboxType
  BY DEF Init, InboxType
<1>4. AudioType
  <2>1. FreshVad \in VadType
    BY FramesAssumption DEF VadType, FreshVad
  <2>2. take \in TakeType /\ Len(take.mask) = Len(take.frames)
    BY EmptyTakeType DEF Init
  <2>3. ring \in Seq(Nat) /\ Len(ring) <= RingFrames /\ mirror \in Seq(Nat)
    BY FramesAssumption DEF Init
  <2> QED BY <2>1, <2>2, <2>3 DEF Init, AudioType
<1> QED BY <1>1, <1>2, <1>3, <1>4, <1>5, <1>6 DEF Types

LEMMA NextTypes ==
  ASSUME Types, [Next]_vars
  PROVE  Types'
<1> USE DEF device, shared, heard, input, history, calls
<1>0. Clock /\ CallbackType /\ WorkerType /\ InboxType /\ CallType /\ AudioType /\ ReplyType
  BY DEF Types
<1> USE DEF Types
<1>1. CASE Capture
  BY <1>0, <1>1 DEF Capture, Clock, CallbackType, WorkerType, InboxType, CallType, AudioType, ReplyType
<1>2. CASE DeviceStalls
  <2>1. Clock' /\ CallbackType'
    BY <1>0, <1>2 DEF DeviceStalls, Clock, CallbackType
  <2>2. WorkerType' /\ InboxType' /\ CallType'
    BY <1>0, <1>2 DEF DeviceStalls, WorkerType, InboxType, CallType
  <2>3. AudioType' /\ ReplyType'
    BY <1>0, <1>2 DEF DeviceStalls, AudioType, ReplyType
  <2> QED BY <2>1, <2>2, <2>3
<1>3. CASE DeviceResumes
  BY <1>0, <1>3 DEF DeviceResumes, Clock, CallbackType, WorkerType, InboxType, CallType, AudioType,
                    ReplyType
<1>4. CASE CallbackLoads
  <2>1. Clock'
    BY <1>0, <1>4 DEF CallbackLoads, Clock
  <2>2. CallbackType'
    BY <1>0, <1>4 DEF CallbackLoads, Clock, CallbackType, WorkerType, Idle
  <2> QED BY <1>0, <1>4, <2>1, <2>2
          DEF CallbackLoads, WorkerType, InboxType, CallType, AudioType, ReplyType
<1>5. CASE CallbackSends
  <2>1. InboxType' /\ Clock'
    BY <1>0, <1>5, CallbackAdds DEF CallbackSends, Clock
  <2> QED BY <1>0, <1>5, <2>1
          DEF CallbackSends, CallbackType, WorkerType, CallType, AudioType, ReplyType
<1>6. CASE CallStart
  <2>1. InboxType'
    BY <1>0, <1>6, MessagesMade, AppendProperties DEF CallStart, InboxType
  <2>2. Clock' /\ CallbackType' /\ WorkerType'
    BY <1>0, <1>6 DEF CallStart, Clock, CallbackType, WorkerType
  <2>3. CallType' /\ ReplyType'
    BY <1>0, <1>6 DEF CallStart, CallType, ReplyType
  <2>4. AudioType'
    BY <1>0, <1>6 DEF CallStart, AudioType
  <2> QED BY <2>1, <2>2, <2>3, <2>4
<1>7. CASE CallStop
  <2>1. StartsCalled \in Nat
    <3>1. Starts(Inbox) = Before(Inbox, Len(Inbox)) /\ Len(Inbox) \in Nat
      <4>1. Inbox \in Seq(Message)
        BY <1>0, InboxFields
      <4>2. DOMAIN Inbox = 1 .. Len(Inbox) /\ Len(Inbox) \in Nat
        BY <4>1
      <4> QED BY <4>2 DEF Starts, Before
    <3>2. Before(Inbox, Len(Inbox)) \in Nat /\ begun \in Nat
      BY <1>0, <3>1, BeforeType DEF CallType
    <3> QED BY <3>1, <3>2 DEF StartsCalled
  <2>2. CallType'
    BY <1>0, <1>7, <2>1 DEF CallStop, CallType
  <2>3. waits' \in Nat
    BY <1>0, <1>7 DEF CallStop, CallType
  <2>4. InboxType'
    BY <1>0, <1>7, <2>3, MessagesMade, AppendProperties DEF CallStop, InboxType
  <2> QED BY <1>0, <1>7, <2>2, <2>4
          DEF CallStop, Clock, CallbackType, WorkerType, AudioType, ReplyType
<1>8. CASE StopGivesUp
  BY <1>0, <1>8 DEF StopGivesUp, Clock, CallbackType, WorkerType, InboxType, CallType, AudioType,
                    ReplyType
<1>9. CASE CallClose
  <2>1. InboxType'
    BY <1>0, <1>9, MessagesMade, AppendProperties DEF CallClose, InboxType
  <2>2. Clock' /\ CallbackType' /\ WorkerType'
    BY <1>0, <1>9 DEF CallClose, Clock, CallbackType, WorkerType
  <2>3. CallType' /\ ReplyType'
    BY <1>0, <1>9 DEF CallClose, CallType, ReplyType
  <2>4. AudioType'
    BY <1>0, <1>9 DEF CallClose, AudioType
  <2> QED BY <2>1, <2>2, <2>3, <2>4
<1>10. CASE CallOpen
  <2>1. AudioType'
    <3>1. take' \in TakeType /\ Len(take'.mask) = Len(take'.frames)
      BY <1>10, EmptyTakeType DEF CallOpen
    <3>2. ring' \in Seq(Nat) /\ Len(ring') <= RingFrames
      BY <1>10, FramesAssumption DEF CallOpen
    <3> QED BY <1>0, <1>10, <3>1, <3>2 DEF CallOpen, AudioType
  <2>2. WorkerType'
    BY <1>10 DEF CallOpen, WorkerType, Resting
  <2>3. InboxType'
    BY <1>10 DEF CallOpen, InboxType
  <2>4. Clock' /\ CallbackType'
    <3>1. Clock'
      <4>1. now' \in Nat /\ delivered' \in 0 .. now' /\ deadline' = Unset
        BY <1>0, <1>10 DEF CallOpen, Clock
      <4>2. stamped' \in BOOLEAN /\ alive' \in BOOLEAN /\ eosSent' \in BOOLEAN
            /\ stopFlag' \in BOOLEAN
        BY <1>10 DEF CallOpen
      <4> QED BY <4>1, <4>2 DEF Clock
    <3> QED BY <1>10, <3>1 DEF CallOpen, CallbackType
  <2>5. CallType' /\ ReplyType'
    BY <1>0, <1>10 DEF CallOpen, CallType, ReplyType
  <2> QED BY <2>1, <2>2, <2>3, <2>4, <2>5
<1>11. CASE WorkerHears
  <2>1. PICK m \in Messages : 
          /\ Ready(m) /\ m.is = "samples"
          /\ \/ /\ recording /\ Heard(Chunk(m), TRUE)
                /\ mirror' = mirror \o SubSeq(take'.frames, Len(mirror) + 1, Len(take'.frames))
                /\ UNCHANGED ring
             \/ ~recording /\ ring' = Warmed(ring, Chunk(m)) /\ UNCHANGED <<heard, mirror>>
    BY <1>11, Zenon DEF WorkerHears
  <2>2. InboxType' /\ m \in Message
    BY <1>0, <2>1, ReadyTakes
  <2>3. Chunk(m) \in Seq(Nat)
    BY <2>1, <2>2, ChunkSeq
  <2>4. recording' = recording
    BY <1>11 DEF WorkerHears
  <2>5. AudioType'
    <3>1. CASE recording /\ Heard(Chunk(m), TRUE) /\ UNCHANGED ring
               /\ mirror' = mirror \o SubSeq(take'.frames, Len(mirror) + 1, Len(take'.frames))
      <4>1. TRUE \in BOOLEAN
        OBVIOUS
      <4>2. take' \in TakeType /\ Len(take'.mask) = Len(take'.frames)
            /\ vad' \in VadType /\ speaking' \in BOOLEAN /\ seen' \in BOOLEAN
        BY <1>0, <2>3, <3>1, <4>1, HeardTypes, Zenon
      <4>3. take'.frames \in Seq(Nat) /\ mirror \in Seq(Nat)
        BY <1>0, <4>2 DEF TakeType, AudioType
      <4>4. mirror' \in Seq(Nat)
        BY <3>1, <4>3
      <4> QED BY <1>0, <2>4, <3>1, <4>2, <4>4 DEF AudioType
    <3>2. CASE ~recording /\ ring' = Warmed(ring, Chunk(m)) /\ UNCHANGED <<heard, mirror>>
      BY <1>0, <2>3, <2>4, <3>2, WarmedFields DEF AudioType
    <3> QED BY <2>1, <3>1, <3>2
  <2> QED BY <1>0, <1>11, <2>2, <2>5
          DEF WorkerHears, Clock, CallbackType, WorkerType, CallType, ReplyType
<1>12. CASE WorkerSkips
  <2>1. InboxType'
    BY <1>0, <1>12, ReadyTakes DEF WorkerSkips
  <2> QED BY <1>0, <1>12, <2>1
          DEF WorkerSkips, Clock, CallbackType, WorkerType, CallType, AudioType, ReplyType
<1>13. CASE WorkerStarts
  <2>1. InboxType'
    BY <1>0, <1>13, ReadyTakes DEF WorkerStarts
  <2>2. PICK sounds \in Sounding(ring) :
          LET h == Replayed(sounds)
          IN take' = Seeded(h.mask, sounds) /\ vad' = h.vad /\ SeedSignalled(h.speech)
    BY <1>13 DEF WorkerStarts
  <2> DEFINE h == Replayed(sounds)
  <2>3. h \in HearingType /\ take' \in TakeType /\ Len(take'.mask) = Len(take'.frames)
        /\ vad' = h.vad /\ speaking' = h.speech /\ seen' = (seen \/ h.speech)
    BY <1>0, <2>2, StartTypes DEF Clock, SeedSignalled
  <2> HIDE DEF h
  <2>4. h.vad \in VadType /\ h.speech \in BOOLEAN
    BY <2>3 DEF HearingType
  <2>5. seen' \in BOOLEAN
    BY <1>0, <2>3, <2>4 DEF AudioType
  <2>6. ring' = <<>> /\ mirror' = <<>> /\ recording' = TRUE
    BY <1>13 DEF WorkerStarts
  <2>7. AudioType'
    BY <2>3, <2>4, <2>5, <2>6, FramesAssumption DEF AudioType
  <2>8. Clock' /\ CallbackType' /\ WorkerType'
    BY <1>0, <1>13 DEF WorkerStarts, Clock, CallbackType, WorkerType
  <2>9. CallType' /\ ReplyType'
    BY <1>0, <1>13 DEF WorkerStarts, CallType, ReplyType
  <2> QED BY <2>1, <2>7, <2>8, <2>9
<1>14. CASE WorkerStamps
  <2>1. PICK m \in Messages :
          Ready(m) /\ m.is = "stop" /\ worker' = [Resting EXCEPT !.at = "stamped", !.stop = m.id]
    BY <1>14 DEF WorkerStamps
  <2>2. InboxType' /\ m \in Message
    BY <1>0, <2>1, ReadyTakes
  <2>3. WorkerType'
    BY <2>1, <2>2, MessageFields DEF WorkerType, Resting
  <2> QED BY <1>0, <1>14, <2>2, <2>3
          DEF WorkerStamps, Clock, CallbackType, CallType, AudioType, ReplyType
<1>15. CASE WorkerRaises
  <2>1. WorkerType'
    BY <1>0, <1>15 DEF WorkerRaises, WorkerType, Clock
  <2> QED BY <1>0, <1>15, <2>1
          DEF WorkerRaises, Clock, CallbackType, InboxType, CallType, AudioType, ReplyType
<1>16. CASE WorkerDrains
  <2> DEFINE m == Head(queue)
  <2>1. worker.at = "drain" /\ queue # <<>> /\ m.is # "eos" /\ queue' = Tail(queue)
    BY <1>16 DEF WorkerDrains
  <2>2. m \in Message
    BY <1>0, <2>1 DEF InboxType
  <2>3. Clock' /\ CallbackType' /\ CallType' /\ ReplyType'
        /\ ring' = ring /\ mirror' = mirror /\ recording' = recording
    BY <1>0, <1>16 DEF WorkerDrains, Clock, CallbackType, CallType, ReplyType
  <2>4. CASE m.is = "samples"
    <3>1. Heard(Chunk(m), FALSE) /\ worker' = worker /\ pending' = pending
      BY <1>16, <2>4, Zenon DEF WorkerDrains
    <3>2. InboxType' /\ WorkerType'
      BY <1>0, <2>1, <3>1, DrainTakes DEF WorkerType
    <3>3. FALSE \in BOOLEAN /\ Chunk(m) \in Seq(Nat)
      BY <2>2, <2>4, ChunkSeq
    <3>4. take' \in TakeType /\ Len(take'.mask) = Len(take'.frames)
          /\ vad' \in VadType /\ speaking' \in BOOLEAN /\ seen' \in BOOLEAN
      BY <1>0, <3>1, <3>3, HeardTypes, Zenon
    <3>5. AudioType'
      BY <1>0, <2>3, <3>4 DEF AudioType
    <3> QED BY <2>3, <3>2, <3>5
  <2>5. CASE m.is = "stop" /\ pending = <<>>
    <3>1. worker' = [worker EXCEPT !.also = worker.also \cup {m.id}] /\ UNCHANGED <<pending, heard>>
      BY <1>16, <2>5 DEF WorkerDrains
    <3>2. InboxType'
      BY <1>0, <2>1, <3>1, DrainTakes
    <3>3. m.id \in Nat
      BY <2>2, <2>5, MessageFields
    <3>4. WorkerType'
      BY <1>0, <3>1, <3>3 DEF WorkerType
    <3>5. AudioType'
      BY <1>0, <2>3, <3>1 DEF AudioType
    <3> QED BY <2>3, <3>2, <3>4, <3>5
  <2>6. CASE m.is # "samples" /\ ~(m.is = "stop" /\ pending = <<>>)
    <3>1. pending' = Append(pending, m) /\ UNCHANGED <<worker, heard>>
      BY <1>16, <2>6, Zenon DEF WorkerDrains
    <3>2. m \in Command
      BY <2>1, <2>2, <2>6, MessageFields DEF Command
    <3>3. InboxType' /\ WorkerType'
      BY <1>0, <2>1, <3>1, <3>2, DrainDefers DEF WorkerType
    <3>4. AudioType'
      BY <1>0, <2>3, <3>1 DEF AudioType
    <3> QED BY <2>3, <3>3, <3>4
  <2> QED BY <2>4, <2>5, <2>6
<1>17. CASE DrainEnds \/ DrainTimesOut
  <2>1. PICK clean : Answer(clean)
    BY <1>17 DEF DrainEnds, DrainTimesOut
  <2>2. InboxType'
    <3>1. pending' = pending
      BY <2>1 DEF Answer
    <3>2. CASE DrainEnds
      BY <1>0, <3>1, <3>2, DrainTakes DEF DrainEnds
    <3>3. CASE DrainTimesOut
      BY <1>0, <3>1, <3>3 DEF DrainTimesOut, InboxType
    <3> QED BY <1>17, <3>2, <3>3
  <2>3. Clock' /\ CallbackType'
    BY <1>0, <2>1 DEF Answer, Clock, CallbackType
  <2>4. WorkerType'
    BY <2>1 DEF Answer, WorkerType, Resting
  <2>5. CallType'
    BY <1>0, <2>1 DEF Answer, CallType
  <2>6. reply'.of = {worker.stop} \cup worker.also
    BY <2>1 DEF Answer
  <2>7. Range(take.frames) \in SUBSET Nat
    BY <1>0, RangeOfSeq DEF AudioType, TakeType
  <2>8. ReplyType'
    BY <1>0, <2>1, <2>6, <2>7 DEF Answer, ReplyType, WorkerType
  <2>9. AudioType'
    BY <1>0, <2>1, FramesAssumption, EmptyTakeType DEF Answer, AudioType
  <2> QED BY <2>2, <2>3, <2>4, <2>5, <2>8, <2>9
<1>18. CASE WorkerRearms
  <2>1. WorkerType' /\ ReplyType'
    <3>1. WorkerType'
      BY <1>18 DEF WorkerRearms, WorkerType, Resting
    <3>2. ReplyType'
      BY <1>0, <1>18 DEF WorkerRearms, ReplyType
    <3> QED BY <3>1, <3>2
  <2>2. Clock' /\ CallbackType' /\ InboxType'
    BY <1>0, <1>18 DEF WorkerRearms, Clock, CallbackType, InboxType
  <2>3. CallType' /\ AudioType'
    BY <1>0, <1>18 DEF WorkerRearms, CallType, AudioType
  <2> QED BY <2>1, <2>2, <2>3
<1>19. CASE WorkerShutsDown
  <2>1. InboxType'
    BY <1>0, <1>19, ReadyTakes DEF WorkerShutsDown
  <2>2. WorkerType'
    BY <1>19 DEF WorkerShutsDown, WorkerType, Resting
  <2> QED BY <1>0, <1>19, <2>1, <2>2
          DEF WorkerShutsDown, Clock, CallbackType, CallType, AudioType, ReplyType
<1>20. CASE UNCHANGED vars
  BY <1>0, <1>20 DEF vars, Clock, CallbackType, WorkerType, InboxType, CallType, AudioType, ReplyType
<1> QED
  BY <1>1, <1>2, <1>3, <1>4, <1>5, <1>6, <1>7, <1>8, <1>9, <1>10, <1>11, <1>12, <1>13, <1>14,
     <1>15, <1>16, <1>17, <1>18, <1>19, <1>20 DEF Next, Input, Manager, Worker

LEMMA Typed == Spec => []Types
<1>1. Init => Types
  BY InitTypes
<1>2. Types /\ [Next]_vars => Types'
  BY NextTypes
<1> QED BY <1>1, <1>2, PTL DEF Spec

\* The types of the recorder: the bounds of its detector and its ring, one label
\* per frame kept, only commands deferred.
THEOREM RecorderTypes == Spec => []TypeOK
<1>1. Types => TypeOK
  <2>1. SUFFICES ASSUME Types PROVE TypeOK
    OBVIOUS
  <2>2. {m.is : m \in Messages} \subseteq {"samples", "eos", "start", "stop", "shutdown"}
    <3>1. \A m \in Messages : m \in Message
      BY <2>1, InboxFields DEF Types
    <3> QED BY <3>1, MessageFields
  <2>3. {m.is : m \in Range(pending)} \cap {"samples", "eos"} = {}
    <3>1. Range(pending) \in SUBSET Command
      BY <2>1, RangeOfSeq DEF Types, InboxType
    <3> QED BY <3>1, CommandFields
  <2>4. callback = Idle \/ (callback.at = "holds" /\ callback.stopping \in BOOLEAN
                          /\ 1 <= callback.from /\ callback.from <= callback.to
                          /\ callback.to = delivered)
    BY <2>1 DEF Types, CallbackType
  <2>5. worker.at \in {"recv", "stamped", "drain", "answered", "gone"}
    BY <2>1 DEF Types, WorkerType
  <2>6. now \in Nat /\ {stamped, alive, eosSent, stopFlag} \subseteq BOOLEAN
        /\ delivered \in 0 .. now /\ deadline \in {Unset} \cup 0 .. now
    BY <2>1 DEF Types, Clock
  <2>7. {recording, speaking, seen, open} \subseteq BOOLEAN /\ waits \in 0 .. Len(asked)
    BY <2>1 DEF Types, CallType, AudioType
  <2>8. Len(take.mask) = Len(take.frames) /\ Len(ring) <= RingFrames
        /\ vad.buffered \in 0 .. Prefill + 1 /\ vad.onset \in 0 .. OnsetFrames - 1
        /\ vad.hang \in 0 .. Hangover /\ vad.inSpeech \in BOOLEAN
    BY <2>1 DEF Types, AudioType, VadType
  <2> QED BY <2>2, <2>3, <2>4, <2>5, <2>6, <2>7, <2>8 DEF TypeOK
<1> QED BY <1>1, Typed, PTL

-----------------------------------------------------------------------------
\* Which take a stop belongs to.

Device == {"samples", "eos"}
Outstanding(id) ==
  \/ \E i \in 1 .. Len(Inbox) : Inbox[i].is = "stop" /\ Inbox[i].id = id
  \/ worker.at \in {"stamped", "drain"} /\ id \in {worker.stop} \cup worker.also

\* A stop that waits was called after the starts before it in the Inbox, and no others.
Counted ==
  \A i \in 1 .. Len(Inbox) :
    Inbox[i].is = "stop" => /\ Inbox[i].id \in 1 .. Len(asked)
                            /\ asked[Inbox[i].id] = begun + Before(Inbox, i)
Serves ==
  worker.at \in {"stamped", "drain"} =>
    \A id \in {worker.stop} \cup worker.also : id \in 1 .. Len(asked) /\ asked[id] = begun
Replied == \A id \in reply.of : id \in 1 .. Len(asked) /\ asked[id] = reply.nth
\* A stop of the take under way, or of a later one, is still to be served.
Latest ==
  \A id \in 1 .. Len(asked) :
    asked[id] > begun \/ (recording /\ asked[id] = begun) => Outstanding(id)
\* A shutdown is the last command, and the stop of the last take comes before it.
ShutdownAt(k) ==
  /\ k \in 1 .. Len(Inbox) /\ Inbox[k].is = "shutdown"
  /\ \A i \in 1 .. Len(Inbox) : /\ i > k => Inbox[i].is \in Device
                                /\ Inbox[i].is = "shutdown" => i = k
Stopped == StartsCalled = 0 \/ (asked # <<>> /\ asked[Len(asked)] = StartsCalled)
Closed ==
  /\ open => worker.at # "gone" /\ \A i \in 1 .. Len(Inbox) : Inbox[i].is # "shutdown"
  /\ worker.at = "gone" => ~recording /\ \A i \in 1 .. Len(Inbox) : Inbox[i].is \in Device
  /\ ~open /\ worker.at # "gone" => Stopped /\ \E k \in 1 .. Len(Inbox) : ShutdownAt(k)
Mirrors ==
  /\ recording => IsPrefix(mirror, take.frames) /\ begun > 0
  /\ ~recording /\ worker.at # "answered" => mirror = <<>>
  /\ worker.at = "answered" => ~recording

Serving == Counted /\ Serves /\ Replied /\ Latest /\ Closed /\ Mirrors

LEMMA StartsBefore ==
  ASSUME NEW s \in Seq(Message)
  PROVE  Starts(s) = Before(s, Len(s)) /\ Len(s) \in Nat
<1>1. DOMAIN s = 1 .. Len(s) /\ Len(s) \in Nat
  OBVIOUS
<1> QED BY <1>1 DEF Starts, Before

\* What taking a message does to the counts: a message that is no start leaves them,
\* a start that is taken first is counted as begun.
LEMMA TookFields ==
  ASSUME InboxType, InboxType', NEW k, NEW m, Took(k, m)
  PROVE  /\ m \in Message /\ Len(Inbox) \in Nat /\ Len(Inbox') = Len(Inbox) - 1
         /\ \A i \in 1 .. Len(Inbox') : Inbox'[i] = IF i < k THEN Inbox[i] ELSE Inbox[i + 1]
         /\ \A i \in 1 .. Len(Inbox) : i # k => \E j \in 1 .. Len(Inbox') : Inbox'[j] = Inbox[i]
         /\ m.is # "start" =>
              /\ Starts(Inbox') = Starts(Inbox)
              /\ \A i \in 1 .. Len(Inbox') :
                   Before(Inbox', i) = Before(Inbox, IF i < k THEN i ELSE i + 1)
         /\ m.is = "start" /\ k = 1 =>
              /\ Starts(Inbox') = Starts(Inbox) - 1
              /\ \A i \in 1 .. Len(Inbox') : Before(Inbox', i) = Before(Inbox, i + 1) - 1
<1>1. Inbox \in Seq(Message) /\ Len(Inbox) \in Nat /\ k \in 1 .. Len(Inbox) /\ m = Inbox[k]
      /\ Inbox' = Drop(Inbox, k)
  BY InboxFields DEF Took
<1>2. /\ Len(Inbox') = Len(Inbox) - 1
      /\ \A i \in 1 .. Len(Inbox) - 1 : Inbox'[i] = IF i < k THEN Inbox[i] ELSE Inbox[i + 1]
  BY <1>1, DropProperties
<1>3. m \in Message
  BY <1>1, ElementOfSeq
<1>4. \A i \in 1 .. Len(Inbox) : i # k => \E j \in 1 .. Len(Inbox') : Inbox'[j] = Inbox[i]
  <2>1. SUFFICES ASSUME NEW i \in 1 .. Len(Inbox), i # k
                 PROVE  \E j \in 1 .. Len(Inbox') : Inbox'[j] = Inbox[i]
    OBVIOUS
  <2>2. CASE i < k
    <3>1. i \in 1 .. Len(Inbox')
      BY <1>1, <1>2, <2>2
    <3> QED BY <1>2, <2>2, <3>1
  <2>3. CASE i > k
    <3>1. i - 1 \in 1 .. Len(Inbox') /\ ~(i - 1 < k) /\ i - 1 + 1 = i
      BY <1>1, <1>2, <2>3
    <3>2. Inbox'[i - 1] = Inbox[i]
      BY <1>2, <3>1
    <3> QED BY <3>1, <3>2
  <2> QED BY <1>1, <2>1, <2>2, <2>3
<1>5. \A i \in 0 .. Len(Inbox) - 1 :
        Before(Inbox', i) = IF i < k THEN Before(Inbox, i)
                            ELSE IF m.is = "start" THEN Before(Inbox, i + 1) - 1
                            ELSE Before(Inbox, i + 1)
  BY <1>1, DropBefore
<1>6. Starts(Inbox) = Before(Inbox, Len(Inbox)) /\ Starts(Inbox') = Before(Inbox', Len(Inbox) - 1)
  <2>1. Inbox' \in Seq(Message)
    BY <1>1, DropProperties
  <2> QED BY <1>1, <1>2, <2>1, StartsBefore
<1>7. Before(Inbox', Len(Inbox) - 1) =
        IF m.is = "start" THEN Before(Inbox, Len(Inbox)) - 1 ELSE Before(Inbox, Len(Inbox))
  <2>1. Len(Inbox) - 1 \in 0 .. Len(Inbox) - 1 /\ Len(Inbox) - 1 + 1 = Len(Inbox)
    BY <1>1
  <2>2. CASE Len(Inbox) - 1 >= k
    BY <1>1, <1>5, <2>1, <2>2
  <2>3. CASE Len(Inbox) - 1 < k
    <3>1. k = Len(Inbox) /\ Len(Inbox) - 1 \in Nat
      BY <1>1, <2>3
    <3>2. Before(Inbox, Len(Inbox) - 1 + 1) =
            IF Inbox[Len(Inbox) - 1 + 1].is = "start" THEN Before(Inbox, Len(Inbox) - 1) + 1
            ELSE Before(Inbox, Len(Inbox) - 1)
      BY <3>1, BeforeNext
    <3>3. Before(Inbox', Len(Inbox) - 1) = Before(Inbox, Len(Inbox) - 1)
          /\ Before(Inbox, Len(Inbox) - 1) \in Nat
      BY <1>5, <2>1, <2>3, <3>1, BeforeType
    <3> QED BY <1>1, <2>1, <3>1, <3>2, <3>3
  <2> QED BY <1>1, <2>2, <2>3
<1>8. ASSUME m.is # "start", NEW i \in 1 .. Len(Inbox')
      PROVE  Before(Inbox', i) = Before(Inbox, IF i < k THEN i ELSE i + 1)
  BY <1>2, <1>5, <1>8
<1>9. ASSUME m.is = "start", k = 1, NEW i \in 1 .. Len(Inbox')
      PROVE  Before(Inbox', i) = Before(Inbox, i + 1) - 1
  BY <1>2, <1>5, <1>9
<1>10. \A i \in 1 .. Len(Inbox') : Inbox'[i] = IF i < k THEN Inbox[i] ELSE Inbox[i + 1]
  BY <1>2
<1> QED BY <1>1, <1>2, <1>3, <1>4, <1>6, <1>7, <1>8, <1>9, <1>10

LEMMA AddedFields ==
  ASSUME InboxType, InboxType', NEW s \in Seq(Message), Inbox' = Inbox \o s
  PROVE  /\ Len(Inbox) \in Nat /\ Len(s) \in Nat /\ Len(Inbox') = Len(Inbox) + Len(s)
         /\ \A i \in 1 .. Len(Inbox) : Inbox'[i] = Inbox[i] /\ Before(Inbox', i) = Before(Inbox, i)
         /\ \A i \in 1 .. Len(Inbox') : i > Len(Inbox) => /\ i - Len(Inbox) \in 1 .. Len(s)
                                                           /\ Inbox'[i] = s[i - Len(Inbox)]
         /\ (\A i \in 1 .. Len(s) : s[i].is # "start") => Starts(Inbox') = Starts(Inbox)
<1>1. Inbox \in Seq(Message) /\ Len(Inbox) \in Nat /\ Len(s) \in Nat
  BY InboxFields
<1>2. /\ Len(Inbox') = Len(Inbox) + Len(s)
      /\ \A i \in 1 .. Len(Inbox) + Len(s) :
           Inbox'[i] = IF i <= Len(Inbox) THEN Inbox[i] ELSE s[i - Len(Inbox)]
  BY <1>1, ConcatProperties
<1>3. \A i \in 1 .. Len(Inbox) : Inbox'[i] = Inbox[i]
  BY <1>1, <1>2
<1>4. ASSUME NEW i \in 0 .. Len(Inbox) PROVE Before(Inbox', i) = Before(Inbox, i)
  <2>1. i \in Nat /\ \A j \in 1 .. i : Inbox'[j] = Inbox[j]
    BY <1>1, <1>3
  <2> QED BY <2>1, BeforeSame
<1>5. \A i \in 1 .. Len(Inbox') : i > Len(Inbox) => /\ i - Len(Inbox) \in 1 .. Len(s)
                                                     /\ Inbox'[i] = s[i - Len(Inbox)]
  BY <1>1, <1>2
<1>6. Starts(Inbox') = Before(Inbox', Len(Inbox')) /\ Starts(Inbox) = Before(Inbox, Len(Inbox))
  <2>1. Inbox' \in Seq(Message)
    BY <1>1, ConcatProperties
  <2> QED BY <1>1, <2>1, StartsBefore
<1>7. ASSUME \A i \in 1 .. Len(s) : s[i].is # "start" PROVE Starts(Inbox') = Starts(Inbox)
  <2>1. \A i \in Len(Inbox) + 1 .. Len(Inbox') : Inbox'[i].is # "start"
    BY <1>1, <1>2, <1>5, <1>7
  <2>2. Len(Inbox') \in Nat /\ Len(Inbox) <= Len(Inbox')
    BY <1>1, <1>2
  <2>3. Before(Inbox', Len(Inbox)) = Before(Inbox', Len(Inbox'))
    BY <1>1, <2>1, <2>2, BeforeGrows
  <2>4. Before(Inbox', Len(Inbox)) = Before(Inbox, Len(Inbox))
    BY <1>1, <1>4
  <2> QED BY <1>6, <2>3, <2>4
<1> QED BY <1>1, <1>2, <1>3, <1>4, <1>5, <1>7

\* Only the worker's taking it removes a shutdown.
LEMMA TookShutdown ==
  ASSUME InboxType, InboxType', NEW k, NEW m, Took(k, m), m.is # "shutdown",
         NEW l \in 1 .. Len(Inbox), ShutdownAt(l)
  PROVE  \E n \in 1 .. Len(Inbox') : ShutdownAt(n)'
<1>a. /\ Len(Inbox) \in Nat /\ Len(Inbox') = Len(Inbox) - 1
      /\ \A i \in 1 .. Len(Inbox') : Inbox'[i] = IF i < k THEN Inbox[i] ELSE Inbox[i + 1]
      /\ k \in 1 .. Len(Inbox) /\ m = Inbox[k]
  BY TookFields DEF Took
<1>1. l # k /\ Inbox[l].is = "shutdown"
      /\ \A i \in 1 .. Len(Inbox) : /\ i > l => Inbox[i].is \in Device
                                    /\ Inbox[i].is = "shutdown" => i = l
  BY <1>a DEF ShutdownAt, Device
<1> DEFINE n == IF l < k THEN l ELSE l - 1
<1>2. n \in 1 .. Len(Inbox') /\ Inbox'[n].is = "shutdown"
  <2>1. CASE l < k
    <3>1. n = l /\ n \in 1 .. Len(Inbox')
      BY <1>a, <2>1
    <3> QED BY <1>a, <1>1, <2>1, <3>1
  <2>2. CASE l > k
    <3>1. n + 1 = l /\ n \in 1 .. Len(Inbox') /\ ~(n < k)
      BY <1>a, <2>2
    <3> QED BY <1>a, <1>1, <3>1
  <2> QED BY <1>a, <1>1, <2>1, <2>2
<1>3. ASSUME NEW i \in 1 .. Len(Inbox')
      PROVE  /\ i > n => Inbox'[i].is \in Device
             /\ Inbox'[i].is = "shutdown" => i = n
  <2> DEFINE j == IF i < k THEN i ELSE i + 1
  <2>1. j \in 1 .. Len(Inbox) /\ Inbox'[i] = Inbox[j] /\ (i > n => j > l) /\ (j = l => i = n)
    BY <1>a, <1>1
  <2> HIDE DEF j
  <2> QED BY <1>1, <2>1
<1> QED BY <1>2, <1>3 DEF ShutdownAt

\* A stop that is taken first, or first deferred, belongs to the take under way.
LEMMA StopTaken ==
  ASSUME InboxType, InboxType', CallType, NEW m, Took(1, m), m.is = "stop", Counted,
         UNCHANGED <<asked, begun>>, worker'.at \in {"stamped", "drain"},
         m.id \in {worker'.stop} \cup worker'.also,
         worker.at \in {"stamped", "drain"} =>
           {worker.stop} \cup worker.also \subseteq {worker'.stop} \cup worker'.also
  PROVE  /\ Counted' /\ m.id \in 1 .. Len(asked) /\ asked[m.id] = begun
         /\ \A id : Outstanding(id) => Outstanding(id)'
         /\ (\A i \in 1 .. Len(Inbox) : Inbox[i].is # "shutdown") =>
              \A i \in 1 .. Len(Inbox') : Inbox'[i].is # "shutdown"
         /\ (\E k \in 1 .. Len(Inbox) : ShutdownAt(k)) => \E k \in 1 .. Len(Inbox') : ShutdownAt(k)'
         /\ Stopped => Stopped'
<1>1. /\ Len(Inbox) \in Nat /\ Len(Inbox') = Len(Inbox) - 1
      /\ \A i \in 1 .. Len(Inbox') : Inbox'[i] = Inbox[i + 1]
      /\ \A i \in 1 .. Len(Inbox) : i # 1 => \E j \in 1 .. Len(Inbox') : Inbox'[j] = Inbox[i]
      /\ Starts(Inbox') = Starts(Inbox)
      /\ \A i \in 1 .. Len(Inbox') : Before(Inbox', i) = Before(Inbox, i + 1)
  BY TookFields
<1>2. 1 \in 1 .. Len(Inbox) /\ Inbox[1] = m
  BY DEF Took
<1>3. \A i \in 1 .. Len(Inbox') : i + 1 \in 1 .. Len(Inbox)
  BY <1>1
<1>4. Before(Inbox, 1) = 0
  <2>1. Before(Inbox, 0 + 1) = IF Inbox[0 + 1].is = "start" THEN Before(Inbox, 0) + 1
                               ELSE Before(Inbox, 0)
    BY BeforeNext
  <2> QED BY <1>2, <2>1, BeforeNone
<1>5. m.id \in 1 .. Len(asked) /\ asked[m.id] = begun
  <2>1. m.id \in 1 .. Len(asked) /\ asked[m.id] = begun + Before(Inbox, 1)
    BY <1>2 DEF Counted
  <2> QED BY <1>4, <2>1 DEF CallType
<1>6. Counted'
  BY <1>1, <1>3 DEF Counted
<1>7. \A id : Outstanding(id) => Outstanding(id)'
  BY <1>1, <1>2 DEF Outstanding
<1>8. (\A i \in 1 .. Len(Inbox) : Inbox[i].is # "shutdown") =>
        \A i \in 1 .. Len(Inbox') : Inbox'[i].is # "shutdown"
  BY <1>1, <1>3
<1>9. (\E k \in 1 .. Len(Inbox) : ShutdownAt(k)) => \E k \in 1 .. Len(Inbox') : ShutdownAt(k)'
  BY TookShutdown
<1>10. Stopped => Stopped'
  BY <1>1 DEF Stopped, StartsCalled
<1> QED BY <1>5, <1>6, <1>7, <1>8, <1>9, <1>10

\* The device's messages come and go without a trace.
Calm ==
  \/ Inbox' = Inbox
  \/ \E k, m : Took(k, m) /\ m.is \in Device
  \/ \E s \in Seq(Message) : Inbox' = Inbox \o s /\ \A i \in 1 .. Len(s) : s[i].is \in Device

LEMMA CalmFields ==
  ASSUME InboxType, InboxType', Calm
  PROVE  /\ Starts(Inbox') = Starts(Inbox)
         /\ \A i \in 1 .. Len(Inbox') : Inbox'[i].is \notin Device =>
              \E j \in 1 .. Len(Inbox) : /\ Inbox[j] = Inbox'[i]
                                         /\ Before(Inbox, j) = Before(Inbox', i)
         /\ \A j \in 1 .. Len(Inbox) : Inbox[j].is \notin Device =>
              \E i \in 1 .. Len(Inbox') : Inbox'[i] = Inbox[j]
         /\ (\E k \in 1 .. Len(Inbox) : ShutdownAt(k)) =>
              \E k \in 1 .. Len(Inbox') : ShutdownAt(k)'
<1>1. CASE Inbox' = Inbox
  BY <1>1 DEF ShutdownAt
<1>2. CASE \E k, m : Took(k, m) /\ m.is \in Device
  <2>1. PICK k, m : Took(k, m) /\ m.is \in Device
    BY <1>2
  <2>2. /\ m \in Message /\ Len(Inbox) \in Nat /\ Len(Inbox') = Len(Inbox) - 1
        /\ \A i \in 1 .. Len(Inbox') : Inbox'[i] = IF i < k THEN Inbox[i] ELSE Inbox[i + 1]
        /\ \A i \in 1 .. Len(Inbox) : i # k => \E j \in 1 .. Len(Inbox') : Inbox'[j] = Inbox[i]
        /\ Starts(Inbox') = Starts(Inbox)
        /\ \A i \in 1 .. Len(Inbox') :
             Before(Inbox', i) = Before(Inbox, IF i < k THEN i ELSE i + 1)
    <3>1. m.is # "start"
      BY <2>1 DEF Device
    <3> QED BY <2>1, <3>1, TookFields
  <2>3. k \in 1 .. Len(Inbox) /\ m = Inbox[k]
    BY <2>1 DEF Took
  <2>4. \A i \in 1 .. Len(Inbox') : \E j \in 1 .. Len(Inbox) :
           Inbox[j] = Inbox'[i] /\ Before(Inbox, j) = Before(Inbox', i)
    <3>1. TAKE i \in 1 .. Len(Inbox')
    <3> DEFINE j == IF i < k THEN i ELSE i + 1
    <3>2. j \in 1 .. Len(Inbox) /\ Inbox[j] = Inbox'[i] /\ Before(Inbox, j) = Before(Inbox', i)
      BY <2>2, <2>3
    <3> QED BY <3>2
  <2>5. \A j \in 1 .. Len(Inbox) : Inbox[j].is \notin Device =>
              \E i \in 1 .. Len(Inbox') : Inbox'[i] = Inbox[j]
    BY <2>1, <2>2, <2>3
  <2>6. ASSUME NEW l \in 1 .. Len(Inbox), ShutdownAt(l)
        PROVE  \E n \in 1 .. Len(Inbox') : ShutdownAt(n)'
    BY <2>1, <2>6, TookShutdown DEF Device
  <2> QED BY <2>2, <2>4, <2>5, <2>6
<1>3. CASE \E s \in Seq(Message) : Inbox' = Inbox \o s /\ \A i \in 1 .. Len(s) : s[i].is \in Device
  <2>1. PICK s \in Seq(Message) : Inbox' = Inbox \o s /\ \A i \in 1 .. Len(s) : s[i].is \in Device
    BY <1>3
  <2>2. /\ Len(Inbox) \in Nat /\ Len(s) \in Nat /\ Len(Inbox') = Len(Inbox) + Len(s)
        /\ \A i \in 1 .. Len(Inbox) : Inbox'[i] = Inbox[i] /\ Before(Inbox', i) = Before(Inbox, i)
        /\ \A i \in 1 .. Len(Inbox') : i > Len(Inbox) => /\ i - Len(Inbox) \in 1 .. Len(s)
                                                         /\ Inbox'[i] = s[i - Len(Inbox)]
        /\ Starts(Inbox') = Starts(Inbox)
    <3>1. \A i \in 1 .. Len(s) : s[i].is # "start"
      BY <2>1 DEF Device
    <3> QED BY <2>1, <3>1, AddedFields
  <2>3. \A i \in 1 .. Len(Inbox') : i > Len(Inbox) => Inbox'[i].is \in Device
    BY <2>1, <2>2
  <2>4. \A i \in 1 .. Len(Inbox') : Inbox'[i].is \notin Device =>
              \E j \in 1 .. Len(Inbox) : Inbox[j] = Inbox'[i] /\ Before(Inbox, j) = Before(Inbox', i)
    BY <2>2, <2>3
  <2>5. \A j \in 1 .. Len(Inbox) : \E i \in 1 .. Len(Inbox') : Inbox'[i] = Inbox[j]
    BY <2>2
  <2>6. ASSUME NEW l \in 1 .. Len(Inbox), ShutdownAt(l)
        PROVE  \E n \in 1 .. Len(Inbox') : ShutdownAt(n)'
    <3>1. l \in 1 .. Len(Inbox') /\ Inbox'[l].is = "shutdown"
      BY <2>2, <2>6 DEF ShutdownAt
    <3>2. ASSUME NEW i \in 1 .. Len(Inbox')
          PROVE  /\ i > l => Inbox'[i].is \in Device
                 /\ Inbox'[i].is = "shutdown" => i = l
      <4>1. CASE i <= Len(Inbox)
        BY <2>2, <2>6, <4>1 DEF ShutdownAt
      <4>2. CASE i > Len(Inbox)
        BY <2>3, <4>2 DEF Device
      <4> QED BY <2>2, <4>1, <4>2
    <3> QED BY <3>1, <3>2 DEF ShutdownAt
  <2> QED BY <2>2, <2>4, <2>5, <2>6
<1> QED BY <1>1, <1>2, <1>3 DEF Calm

\* A calm step that neither begins a take nor calls anything.
LEMMA CalmCounted ==
  ASSUME InboxType, InboxType', Calm, Counted, UNCHANGED <<asked, begun>>
  PROVE  Counted'
<1>1. \A i \in 1 .. Len(Inbox') : Inbox'[i].is \notin Device =>
        \E j \in 1 .. Len(Inbox) : /\ Inbox[j] = Inbox'[i]
                                   /\ Before(Inbox, j) = Before(Inbox', i)
  BY CalmFields
<1>2. SUFFICES ASSUME NEW i \in 1 .. Len(Inbox'), Inbox'[i].is = "stop"
               PROVE  /\ Inbox'[i].id \in 1 .. Len(asked)
                      /\ asked[Inbox'[i].id] = begun + Before(Inbox', i)
  BY DEF Counted
<1>3. PICK j \in 1 .. Len(Inbox) : Inbox[j] = Inbox'[i] /\ Before(Inbox, j) = Before(Inbox', i)
  BY <1>1, <1>2 DEF Device
<1> QED BY <1>2, <1>3 DEF Counted

LEMMA CalmClosed ==
  ASSUME InboxType, InboxType', Calm, Closed, UNCHANGED <<asked, begun, open>>,
         recording' => recording, worker'.at = "gone" <=> worker.at = "gone"
  PROVE  Closed'
<1>1. /\ Starts(Inbox') = Starts(Inbox)
      /\ \A i \in 1 .. Len(Inbox') : Inbox'[i].is \notin Device =>
           \E j \in 1 .. Len(Inbox) : /\ Inbox[j] = Inbox'[i]
                                      /\ Before(Inbox, j) = Before(Inbox', i)
      /\ (\E k \in 1 .. Len(Inbox) : ShutdownAt(k)) =>
           \E k \in 1 .. Len(Inbox') : ShutdownAt(k)'
  BY CalmFields
<1>2. Stopped => Stopped'
  BY <1>1 DEF Stopped, StartsCalled
<1>3. (\A i \in 1 .. Len(Inbox) : Inbox[i].is # "shutdown") =>
        \A i \in 1 .. Len(Inbox') : Inbox'[i].is # "shutdown"
  BY <1>1 DEF Device
<1>4. (\A i \in 1 .. Len(Inbox) : Inbox[i].is \in Device) =>
        \A i \in 1 .. Len(Inbox') : Inbox'[i].is \in Device
  BY <1>1
<1>5. open' => worker'.at # "gone" /\ \A i \in 1 .. Len(Inbox') : Inbox'[i].is # "shutdown"
  BY <1>3 DEF Closed
<1>6. worker'.at = "gone" => ~recording' /\ \A i \in 1 .. Len(Inbox') : Inbox'[i].is \in Device
  BY <1>4 DEF Closed
<1>7. ~open' /\ worker'.at # "gone" =>
        Stopped' /\ \E k \in 1 .. Len(Inbox') : ShutdownAt(k)'
  BY <1>1, <1>2 DEF Closed
<1> QED BY <1>5, <1>6, <1>7 DEF Closed

\* The mirror.
LEMMA PrefixFields ==
  ASSUME NEW s \in Seq(Nat), NEW t \in Seq(Nat), NEW u \in Seq(Nat), IsPrefix(s, t)
  PROVE  /\ IsPrefix(s, t \o u)
         /\ s \o SubSeq(t \o u, Len(s) + 1, Len(t \o u)) = t \o u
<1>1. Len(s) <= Len(t) /\ SubSeq(s, 1, Len(s)) = SubSeq(t, 1, Len(s)) /\ Len(s) \in Nat
      /\ Len(t) \in Nat /\ Len(u) \in Nat
  BY DEF IsPrefix
<1>2. t \o u \in Seq(Nat) /\ Len(t \o u) = Len(t) + Len(u)
      /\ \A i \in 1 .. Len(t) : (t \o u)[i] = t[i]
  BY <1>1, ConcatProperties
<1>3. SubSeq(t \o u, 1, Len(s)) = SubSeq(t, 1, Len(s))
  <2>1. /\ SubSeq(t, 1, Len(s)) \in Seq(Nat) /\ Len(SubSeq(t, 1, Len(s))) = Len(s)
        /\ \A i \in 1 .. Len(s) : SubSeq(t, 1, Len(s))[i] = t[i]
    BY <1>1
  <2>2. /\ SubSeq(t \o u, 1, Len(s)) \in Seq(Nat) /\ Len(SubSeq(t \o u, 1, Len(s))) = Len(s)
        /\ \A i \in 1 .. Len(s) : SubSeq(t \o u, 1, Len(s))[i] = (t \o u)[i]
    BY <1>1, <1>2
  <2> QED BY <1>1, <1>2, <2>1, <2>2, SeqEqual
<1>4. IsPrefix(s, t \o u)
  BY <1>1, <1>2, <1>3 DEF IsPrefix
<1>5. s = SubSeq(t \o u, 1, Len(s))
  BY <1>1, <1>3, SubSeqFull
<1>6. SubSeq(t \o u, 1, Len(s)) \o SubSeq(t \o u, Len(s) + 1, Len(t \o u))
        = SubSeq(t \o u, 1, Len(t \o u))
  <2> DEFINE tu == t \o u
  <2>1. tu \in Seq(Nat) /\ Len(tu) \in Nat /\ Len(s) \in 0 .. Len(tu)
    BY <1>1, <1>2
  <2> HIDE DEF tu
  <2>2. 1 \in 1 .. Len(tu) + 1 /\ Len(s) \in 1 - 1 .. Len(tu) /\ Len(tu) \in Len(s) .. Len(tu)
    BY <2>1
  <2>3. SubSeq(tu, 1, Len(s)) \o SubSeq(tu, Len(s) + 1, Len(tu)) = SubSeq(tu, 1, Len(tu))
    BY <2>1, <2>2, ConcatAdjacentSubSeq
  <2> QED BY <2>3 DEF tu
<1>7. SubSeq(t \o u, 1, Len(t \o u)) = t \o u
  BY <1>2, SubSeqFull
<1> QED BY <1>4, <1>5, <1>6, <1>7

LEMMA InitServing ==
  ASSUME Init
  PROVE  Serving
<1>1. Inbox = <<>>
  BY DEF Init, Inbox
<1>2. Counted /\ Serves /\ Replied /\ Latest
  BY <1>1 DEF Init, Counted, Serves, Replied, Latest, Resting
<1>3. Closed
  BY <1>1 DEF Init, Closed, Resting
<1>4. Mirrors
  BY DEF Init, Mirrors, Resting
<1> QED BY <1>2, <1>3, <1>4 DEF Serving

LEMMA NextServing ==
  ASSUME Types, Serving, [Next]_vars
  PROVE  Serving'
<1> USE DEF device, shared, heard, input, history, calls
<1>0. /\ Clock /\ CallbackType /\ WorkerType /\ InboxType /\ CallType /\ AudioType /\ ReplyType
      /\ Types' /\ InboxType' /\ CallType'
      /\ Counted /\ Serves /\ Replied /\ Latest /\ Closed /\ Mirrors
  BY NextTypes DEF Types, Serving
<1>a. begun \in Nat /\ Len(asked) \in Nat /\ \A id \in 1 .. Len(asked) : asked[id] \in Nat
  BY <1>0, ElementOfSeq DEF CallType
\* Nobody looks at the Inbox, and the worker does not move.
<1>1. ASSUME UNCHANGED <<queue, pending, worker, recording, take, mirror, open, asked, begun, reply>>
      PROVE  Serving'
  <2>1. Inbox' = Inbox
    BY <1>1 DEF Inbox
  <2>2. Calm /\ \A id : Outstanding(id) => Outstanding(id)'
    BY <1>1, <2>1 DEF Calm, Outstanding
  <2>3. Counted' /\ Latest' /\ Closed'
    <3>1. Counted'
      BY <1>0, <1>1, <2>2, CalmCounted
    <3>2. Latest'
      BY <1>0, <1>1, <2>2 DEF Latest
    <3>3. Closed'
      BY <1>0, <1>1, <2>2, CalmClosed
    <3> QED BY <3>1, <3>2, <3>3
  <2>4. Serves' /\ Replied' /\ Mirrors'
    BY <1>0, <1>1 DEF Serves, Replied, Mirrors
  <2> QED BY <2>3, <2>4 DEF Serving
<1>2. CASE Capture \/ DeviceStalls \/ DeviceResumes \/ CallbackLoads \/ StopGivesUp \/ UNCHANGED vars
  BY <1>1, <1>2 DEF Capture, DeviceStalls, DeviceResumes, CallbackLoads, StopGivesUp, vars
<1>5. CASE CallbackSends
  <2>1. Calm
    BY <1>0, <1>5, CallbackAdds DEF Calm, Device
  <2>2. UNCHANGED <<worker, recording, take, mirror, open, asked, begun, reply>>
    BY <1>5 DEF CallbackSends
  <2>3. \A id : Outstanding(id) => Outstanding(id)'
    BY <1>0, <2>1, <2>2, CalmFields DEF Outstanding, Device
  <2>4. Counted' /\ Latest' /\ Closed'
    <3>1. Counted'
      BY <1>0, <2>1, <2>2, <2>3, CalmCounted
    <3>2. Latest'
      BY <1>0, <2>1, <2>2, <2>3 DEF Latest
    <3>3. Closed'
      BY <1>0, <2>1, <2>2, <2>3, CalmClosed
    <3> QED BY <3>1, <3>2, <3>3
  <2>5. Serves' /\ Replied' /\ Mirrors'
    BY <1>0, <2>2 DEF Serves, Replied, Mirrors
  <2> QED BY <2>4, <2>5 DEF Serving
\* The manager's calls.
<1>6. CASE CallStart \/ CallStop \/ CallClose
  <2>1. PICK m \in Message :
          /\ queue' = Append(queue, m)
          /\ \/ CallStart /\ m = [is |-> "start"]
             \/ CallStop /\ m = [is |-> "stop", id |-> Len(asked) + 1]
             \/ CallClose /\ m = [is |-> "shutdown"]
    <3>1. CASE CallStart
      BY <3>1, MessagesMade DEF CallStart
    <3>2. CASE CallStop
      <4> DEFINE m == [is |-> "stop", id |-> Len(asked) + 1]
      <4>1. Len(asked) + 1 \in Nat
        BY <1>a
      <4>2. m \in Message
        BY <4>1, MessagesMade
      <4>3. queue' = Append(queue, m)
        BY <3>2 DEF CallStop
      <4> QED BY <3>2, <4>2, <4>3
    <3>3. CASE CallClose
      BY <3>3, MessagesMade DEF CallClose
    <3> QED BY <1>6, <3>1, <3>2, <3>3
  <2>2. UNCHANGED <<pending, worker, recording, take, mirror, begun, reply>> /\ open
    BY <1>6 DEF CallStart, CallStop, CallClose
  <2>3. queue' = queue \o <<m>> /\ <<m>> \in Seq(Message)
    BY <1>0, <2>1, AppendIsConcat DEF InboxType
  <2>4. Inbox' = Inbox \o <<m>>
    BY <1>0, <2>2, <2>3, QueueGrows
  <2>5. /\ Len(Inbox) \in Nat /\ Len(Inbox') = Len(Inbox) + 1
        /\ \A i \in 1 .. Len(Inbox) : Inbox'[i] = Inbox[i] /\ Before(Inbox', i) = Before(Inbox, i)
        /\ Inbox'[Len(Inbox) + 1] = m
        /\ m.is # "start" => Starts(Inbox') = Starts(Inbox)
    <3> DEFINE s == <<m>>
    <3>1. Len(s) = 1 /\ s[1] = m /\ s \in Seq(Message)
      BY <2>3
    <3> HIDE DEF s
    <3>2. /\ Len(Inbox) \in Nat /\ Len(Inbox') = Len(Inbox) + Len(s)
          /\ \A i \in 1 .. Len(Inbox) : Inbox'[i] = Inbox[i] /\ Before(Inbox', i) = Before(Inbox, i)
          /\ \A i \in 1 .. Len(Inbox') : i > Len(Inbox) => /\ i - Len(Inbox) \in 1 .. Len(s)
                                                           /\ Inbox'[i] = s[i - Len(Inbox)]
          /\ (\A i \in 1 .. Len(s) : s[i].is # "start") => Starts(Inbox') = Starts(Inbox)
      <4>1. Inbox' = Inbox \o s
        BY <2>4 DEF s
      <4> QED BY <1>0, <3>1, <4>1, AddedFields
    <3>3. Inbox'[Len(Inbox) + 1] = m
      <4>1. Len(Inbox) + 1 - Len(Inbox) = 1 /\ Len(Inbox) + 1 \in 1 .. Len(Inbox')
        BY <3>1, <3>2
      <4> QED BY <3>1, <3>2, <4>1
    <3> QED BY <3>1, <3>2, <3>3
  <2>6. \A i \in 1 .. Len(Inbox') : i \in 1 .. Len(Inbox) \/ i = Len(Inbox) + 1
    BY <2>5
  <2>7. Len(Inbox) + 1 \in 1 .. Len(Inbox')
    BY <2>5
  <2>8. \A id : Outstanding(id) => Outstanding(id)'
    BY <2>2, <2>5 DEF Outstanding
  <2>9. /\ \A i \in 1 .. Len(Inbox) : Inbox[i].is # "shutdown"
        /\ worker.at # "gone"
    BY <1>0, <2>2 DEF Closed
  <2>10. Serves' /\ Replied' /\ Mirrors'
    <3>1. Len(asked) <= Len(asked') /\ \A id \in 1 .. Len(asked) : asked'[id] = asked[id]
      <4>1. CASE CallStop
        BY <1>0, <4>1, AppendProperties DEF CallStop, CallType
      <4>2. CASE CallStart \/ CallClose
        BY <1>a, <4>2 DEF CallStart, CallClose
      <4> QED BY <1>6, <4>1, <4>2
    <3>2. \A id \in 1 .. Len(asked) : id \in 1 .. Len(asked')
      BY <1>0, <1>a, <3>1 DEF CallType
    <3> QED BY <1>0, <2>2, <3>1, <3>2 DEF Serves, Replied, Mirrors
  <2>11. CASE m.is = "start" /\ CallStart
    <3>1. UNCHANGED <<asked, open>>
      BY <2>11 DEF CallStart
    <3>2. Counted'
      BY <1>0, <2>2, <2>5, <2>6, <2>11, <3>1 DEF Counted
    <3>3. Latest'
      BY <1>0, <2>2, <2>8, <3>1 DEF Latest
    <3>4. Closed'
      BY <2>2, <2>5, <2>6, <2>9, <2>11, <3>1 DEF Closed
    <3> QED BY <2>10, <3>2, <3>3, <3>4 DEF Serving
  <2>12. CASE m.is = "stop" /\ m.id = Len(asked) + 1 /\ CallStop
    <3>1. asked' = Append(asked, StartsCalled) /\ open' = open
      BY <2>12 DEF CallStop
    <3>2. StartsCalled = begun + Before(Inbox, Len(Inbox)) /\ Before(Inbox, Len(Inbox)) \in Nat
      BY <1>0, <2>5, InboxFields, StartsBefore, BeforeType DEF StartsCalled
    <3>3. /\ Len(asked') = Len(asked) + 1 /\ asked'[Len(asked) + 1] = StartsCalled
          /\ \A id \in 1 .. Len(asked) : asked'[id] = asked[id]
      BY <1>0, <1>a, <3>1, <3>2, AppendProperties DEF CallType
    <3>4. Before(Inbox', Len(Inbox) + 1) = Before(Inbox, Len(Inbox))
      <4>1. Before(Inbox', Len(Inbox) + 1) = Before(Inbox', Len(Inbox))
        BY <2>5, <2>12, BeforeNext
      <4>2. Before(Inbox', Len(Inbox)) = Before(Inbox, Len(Inbox))
        BY <2>5, BeforeSame
      <4> QED BY <4>1, <4>2
    <3>5. Counted'
      <4>1. SUFFICES ASSUME NEW i \in 1 .. Len(Inbox'), Inbox'[i].is = "stop"
                     PROVE  /\ Inbox'[i].id \in 1 .. Len(asked')
                            /\ asked'[Inbox'[i].id] = begun' + Before(Inbox', i)
        BY DEF Counted
      <4>2. CASE i \in 1 .. Len(Inbox)
        BY <1>0, <1>a, <2>2, <2>5, <3>3, <4>1, <4>2 DEF Counted
      <4>3. CASE i = Len(Inbox) + 1
        BY <1>a, <2>2, <2>5, <2>12, <3>2, <3>3, <3>4, <4>3
      <4> QED BY <2>6, <4>2, <4>3
    <3>6. Latest'
      <4>1. SUFFICES ASSUME NEW id \in 1 .. Len(asked'),
                            asked'[id] > begun' \/ (recording' /\ asked'[id] = begun')
                     PROVE  Outstanding(id)'
        BY DEF Latest
      <4>2. CASE id \in 1 .. Len(asked)
        BY <1>0, <2>2, <2>8, <3>3, <4>1, <4>2 DEF Latest
      <4>3. CASE id = Len(asked) + 1
        BY <2>5, <2>7, <2>12, <4>3 DEF Outstanding
      <4> QED BY <1>a, <3>3, <4>2, <4>3
    <3>7. Closed'
      BY <2>2, <2>5, <2>6, <2>9, <2>12, <3>1 DEF Closed
    <3> QED BY <2>10, <3>5, <3>6, <3>7 DEF Serving
  <2>13. CASE m.is = "shutdown" /\ CallClose
    <3>1. /\ open' = FALSE /\ asked' = asked
          /\ StartsCalled = 0 \/ (asked # <<>> /\ Last(asked) = StartsCalled)
      BY <2>13 DEF CallClose
    <3>2. Counted'
      BY <1>0, <2>2, <2>5, <2>6, <2>13, <3>1 DEF Counted
    <3>3. Latest'
      BY <1>0, <2>2, <2>8, <3>1 DEF Latest
    <3>4. Stopped'
      BY <2>2, <2>5, <2>13, <3>1 DEF Stopped, StartsCalled, Last
    <3>5. ASSUME NEW k, k = Len(Inbox) + 1 PROVE ShutdownAt(k)'
      <4>1. k \in 1 .. Len(Inbox') /\ Inbox'[k].is = "shutdown"
        BY <2>5, <2>7, <2>13, <3>5
      <4>2. ASSUME NEW i \in 1 .. Len(Inbox')
            PROVE  /\ i > k => Inbox'[i].is \in Device
                   /\ Inbox'[i].is = "shutdown" => i = k
        <5>1. CASE i \in 1 .. Len(Inbox)
          BY <2>5, <2>9, <3>5, <5>1
        <5>2. CASE i = Len(Inbox) + 1
          BY <2>5, <3>5, <5>2
        <5> QED BY <2>6, <5>1, <5>2
      <4> QED BY <4>1, <4>2 DEF ShutdownAt
    <3>6. Closed'
      <4>1. \E k \in 1 .. Len(Inbox') : ShutdownAt(k)'
        BY <2>7, <3>5
      <4> QED BY <2>2, <2>9, <3>1, <3>4, <4>1 DEF Closed
    <3> QED BY <2>10, <3>2, <3>3, <3>6 DEF Serving
  <2> QED BY <2>1, <2>11, <2>12, <2>13
\* The new worker starts with nothing: the old one had nothing left to do.
<1>10. CASE CallOpen
  <2>1. /\ worker.at = "gone" /\ open' = TRUE /\ queue' = <<>> /\ pending' = <<>>
        /\ worker' = Resting /\ recording' = FALSE /\ UNCHANGED <<mirror, asked, begun, reply>>
    BY <1>10 DEF CallOpen
  <2>2. Inbox' = <<>>
    BY <2>1 DEF Inbox
  <2>3. Counted' /\ Serves' /\ Replied'
    BY <1>0, <2>1, <2>2 DEF Counted, Serves, Replied, Resting
  <2>4. Latest'
    <3>1. \A id : ~Outstanding(id)
      BY <1>0, <2>1 DEF Outstanding, Closed, Device
    <3> QED BY <1>0, <2>1, <3>1 DEF Latest
  <2>5. Closed' /\ Mirrors'
    BY <1>0, <2>1, <2>2 DEF Closed, Mirrors, Resting
  <2> QED BY <2>3, <2>4, <2>5 DEF Serving
\* The worker's steps.
<1>11. CASE WorkerHears
  <2>1. PICK m \in Messages :
          /\ Ready(m) /\ m.is = "samples"
          /\ \/ /\ recording /\ Heard(Chunk(m), TRUE)
                /\ mirror' = mirror \o SubSeq(take'.frames, Len(mirror) + 1, Len(take'.frames))
             \/ ~recording /\ UNCHANGED <<heard, mirror>>
    BY <1>11, Zenon DEF WorkerHears
  <2>2. Calm /\ m \in Message
    BY <1>0, <2>1, ReadyTakes DEF Calm, Device
  <2>3. UNCHANGED <<worker, recording, open, asked, begun, reply>> /\ worker.at = "recv"
    BY <1>11 DEF WorkerHears, Ready
  <2>4. \A id : Outstanding(id) => Outstanding(id)'
    BY <1>0, <2>2, <2>3, CalmFields DEF Outstanding, Device
  <2>5. Counted' /\ Latest' /\ Closed'
    <3>1. Counted'
      BY <1>0, <2>2, <2>3, <2>4, CalmCounted
    <3>2. Latest'
      BY <1>0, <2>2, <2>3, <2>4 DEF Latest
    <3>3. Closed'
      BY <1>0, <2>2, <2>3, <2>4, CalmClosed
    <3> QED BY <3>1, <3>2, <3>3
  <2>6. Serves' /\ Replied'
    BY <1>0, <2>3 DEF Serves, Replied
  <2>7. Mirrors'
    <3>1. CASE /\ recording /\ Heard(Chunk(m), TRUE)
               /\ mirror' = mirror \o SubSeq(take'.frames, Len(mirror) + 1, Len(take'.frames))
      <4>1. Chunk(m) \in Seq(Nat) /\ TRUE \in BOOLEAN
        BY <2>1, <2>2, ChunkSeq
      <4>2. take'.frames = take.frames \o Chunk(m)
        BY <1>0, <3>1, <4>1, HeardTypes, Zenon
      <4>3. mirror \in Seq(Nat) /\ take.frames \in Seq(Nat) /\ IsPrefix(mirror, take.frames)
        BY <1>0, <3>1 DEF AudioType, TakeType, Mirrors
      <4>4. mirror' = take'.frames
        <5> DEFINE frames == take.frames \o Chunk(m)
        <5>1. mirror \o SubSeq(frames, Len(mirror) + 1, Len(frames)) = frames
          BY <4>1, <4>3, PrefixFields
        <5> HIDE DEF frames
        <5>2. take'.frames = frames
          BY <4>2 DEF frames
        <5> QED BY <3>1, <5>1, <5>2
      <4>5. IsPrefix(mirror', take'.frames)
        BY <4>4, <1>0 DEF IsPrefix, Types, AudioType, TakeType
      <4> QED BY <1>0, <2>3, <3>1, <4>5 DEF Mirrors
    <3>2. CASE ~recording /\ UNCHANGED <<heard, mirror>>
      BY <1>0, <2>3, <3>2 DEF Mirrors
    <3> QED BY <2>1, <3>1, <3>2
  <2> QED BY <2>5, <2>6, <2>7 DEF Serving
<1>12. CASE WorkerSkips
  <2>1. Calm
    BY <1>0, <1>12, ReadyTakes DEF WorkerSkips, Calm, Device
  <2>2. UNCHANGED <<worker, recording, take, mirror, open, asked, begun, reply>>
    BY <1>12 DEF WorkerSkips
  <2>3. \A id : Outstanding(id) => Outstanding(id)'
    BY <1>0, <2>1, <2>2, CalmFields DEF Outstanding, Device
  <2>4. Counted' /\ Latest' /\ Closed'
    <3>1. Counted'
      BY <1>0, <2>1, <2>2, <2>3, CalmCounted
    <3>2. Latest'
      BY <1>0, <2>1, <2>2, <2>3 DEF Latest
    <3>3. Closed'
      BY <1>0, <2>1, <2>2, <2>3, CalmClosed
    <3> QED BY <3>1, <3>2, <3>3
  <2>5. Serves' /\ Replied' /\ Mirrors'
    BY <1>0, <2>2 DEF Serves, Replied, Mirrors
  <2> QED BY <2>4, <2>5 DEF Serving
<1>13. CASE WorkerStarts
  <2>1. PICK m : Took(1, m) /\ m.is = "start"
    BY <1>0, <1>13, ReadyTakes DEF WorkerStarts
  <2>2. /\ worker.at = "recv" /\ recording' = TRUE /\ mirror' = <<>> /\ begun' = begun + 1
        /\ UNCHANGED <<worker, open, asked, reply>>
    BY <1>13 DEF WorkerStarts, Ready
  <2>3. /\ Len(Inbox) \in Nat /\ Len(Inbox') = Len(Inbox) - 1
        /\ \A i \in 1 .. Len(Inbox') : Inbox'[i] = Inbox[i + 1]
        /\ \A i \in 1 .. Len(Inbox) : i # 1 => \E j \in 1 .. Len(Inbox') : Inbox'[j] = Inbox[i]
        /\ Starts(Inbox') = Starts(Inbox) - 1
        /\ \A i \in 1 .. Len(Inbox') : Before(Inbox', i) = Before(Inbox, i + 1) - 1
    <3>1. /\ Len(Inbox) \in Nat /\ Len(Inbox') = Len(Inbox) - 1
          /\ \A i \in 1 .. Len(Inbox') : Inbox'[i] = IF i < 1 THEN Inbox[i] ELSE Inbox[i + 1]
          /\ \A i \in 1 .. Len(Inbox) : i # 1 => \E j \in 1 .. Len(Inbox') : Inbox'[j] = Inbox[i]
      BY <1>0, <2>1, TookFields
    <3>2. m.is = "start" /\ 1 = 1 =>
            /\ Starts(Inbox') = Starts(Inbox) - 1
            /\ \A i \in 1 .. Len(Inbox') : Before(Inbox', i) = Before(Inbox, i + 1) - 1
      BY <1>0, <2>1, TookFields, Zenon
    <3>3. \A i \in 1 .. Len(Inbox') : Inbox'[i] = Inbox[i + 1]
      BY <3>1
    <3> QED BY <2>1, <3>1, <3>2, <3>3, Zenon
  <2>4. 1 \in 1 .. Len(Inbox) /\ Inbox[1].is = "start"
    BY <2>1 DEF Took
  <2>5. \A i \in 1 .. Len(Inbox') : i + 1 \in 1 .. Len(Inbox) /\ Before(Inbox, i + 1) \in Nat
    <3>1. TAKE i \in 1 .. Len(Inbox')
    <3>2. i + 1 \in 1 .. Len(Inbox) /\ i + 1 \in Nat
      BY <2>3
    <3>3. Before(Inbox, i + 1) \in Nat
      BY <3>2, BeforeType
    <3> QED BY <3>2, <3>3
  <2>6. Counted'
    <3>1. SUFFICES ASSUME NEW i \in 1 .. Len(Inbox'), Inbox'[i].is = "stop"
                   PROVE  /\ Inbox'[i].id \in 1 .. Len(asked)
                          /\ asked[Inbox'[i].id] = begun + 1 + Before(Inbox', i)
      BY <2>2 DEF Counted
    <3>2. /\ i + 1 \in 1 .. Len(Inbox) /\ Inbox'[i] = Inbox[i + 1]
          /\ Before(Inbox, i + 1) \in Nat /\ Before(Inbox', i) = Before(Inbox, i + 1) - 1
      BY <2>3, <2>5, <3>1
    <3>3. /\ Inbox[i + 1].id \in 1 .. Len(asked)
          /\ asked[Inbox[i + 1].id] = begun + Before(Inbox, i + 1)
      BY <1>0, <3>1, <3>2 DEF Counted
    <3>4. begun + 1 + Before(Inbox', i) = begun + Before(Inbox, i + 1)
      BY <1>a, <3>2
    <3> QED BY <3>2, <3>3, <3>4
  <2>7. Serves' /\ Replied'
    BY <1>0, <2>2 DEF Serves, Replied
  <2>8. Latest'
    <3>1. SUFFICES ASSUME NEW id \in 1 .. Len(asked), asked[id] > begun
                   PROVE  Outstanding(id)'
      BY <1>a, <2>2 DEF Latest
    <3>2. \E i \in 1 .. Len(Inbox) : Inbox[i].is = "stop" /\ Inbox[i].id = id
      BY <1>0, <2>2, <3>1 DEF Latest, Outstanding
    <3> QED BY <2>3, <2>4, <3>2 DEF Outstanding
  <2>9. Closed'
    <3>1. Stopped => Stopped'
      <4>1. Inbox \in Seq(Message) /\ Starts(Inbox) \in Nat
        BY <1>0, <2>3, InboxFields, StartsBefore, BeforeType
      <4>2. StartsCalled' = StartsCalled
        BY <1>a, <2>2, <2>3, <4>1 DEF StartsCalled
      <4> QED BY <2>2, <4>2 DEF Stopped
    <3>2. (\A i \in 1 .. Len(Inbox) : Inbox[i].is # "shutdown") =>
            \A i \in 1 .. Len(Inbox') : Inbox'[i].is # "shutdown"
      BY <2>3, <2>5
    <3>3. ASSUME NEW k \in 1 .. Len(Inbox), ShutdownAt(k) PROVE ShutdownAt(k - 1)'
      <4>1. k # 1 /\ k - 1 \in 1 .. Len(Inbox') /\ Inbox'[k - 1].is = "shutdown"
        <5>1. k # 1 /\ Inbox[k].is = "shutdown"
          BY <2>4, <3>3 DEF ShutdownAt
        <5>2. k - 1 \in 1 .. Len(Inbox') /\ k - 1 + 1 = k
          BY <2>3, <5>1
        <5>3. Inbox'[k - 1] = Inbox[k - 1 + 1]
          BY <2>3, <5>2
        <5> QED BY <5>1, <5>2, <5>3
      <4>2. ASSUME NEW i \in 1 .. Len(Inbox')
            PROVE  /\ i > k - 1 => Inbox'[i].is \in Device
                   /\ Inbox'[i].is = "shutdown" => i = k - 1
        <5>1. /\ i + 1 > k => Inbox[i + 1].is \in Device
              /\ Inbox[i + 1].is = "shutdown" => i + 1 = k
          BY <2>5, <3>3 DEF ShutdownAt
        <5> QED BY <2>3, <5>1
      <4> QED BY <4>1, <4>2 DEF ShutdownAt
    <3>4. (\E k \in 1 .. Len(Inbox) : ShutdownAt(k)) => \E k \in 1 .. Len(Inbox') : ShutdownAt(k)'
      <4>1. SUFFICES ASSUME NEW k \in 1 .. Len(Inbox), ShutdownAt(k)
                     PROVE  \E l \in 1 .. Len(Inbox') : ShutdownAt(l)'
        OBVIOUS
      <4>2. ShutdownAt(k - 1)'
        BY <3>3, <4>1
      <4>3. k - 1 \in 1 .. Len(Inbox')
        BY <4>2 DEF ShutdownAt
      <4> QED BY <4>2, <4>3
    <3> QED BY <1>0, <2>2, <3>1, <3>2, <3>4 DEF Closed
  <2>10. Mirrors'
    <3>1. take'.frames \in Seq(Nat)
      BY <1>0 DEF Types, AudioType, TakeType
    <3>2. IsPrefix(<<>>, take'.frames)
      BY <3>1 DEF IsPrefix
    <3> QED BY <1>a, <2>2, <3>2 DEF Mirrors
  <2> QED BY <2>6, <2>7, <2>8, <2>9, <2>10 DEF Serving
<1>14. CASE WorkerStamps
  <2>1. PICK m : /\ Ready(m) /\ m.is = "stop"
                 /\ worker' = [Resting EXCEPT !.at = "stamped", !.stop = m.id]
    BY <1>14 DEF WorkerStamps
  <2>2. Took(1, m)
    BY <1>0, <2>1, ReadyTakes
  <2>3. /\ worker.at = "recv"
        /\ worker'.at = "stamped" /\ worker'.stop = m.id /\ worker'.also = {}
        /\ UNCHANGED <<recording, take, mirror, open, asked, begun, reply>>
    BY <1>14, <2>1 DEF WorkerStamps, Ready, Resting
  <2>4. /\ Counted' /\ m.id \in 1 .. Len(asked) /\ asked[m.id] = begun
        /\ \A id : Outstanding(id) => Outstanding(id)'
        /\ (\A i \in 1 .. Len(Inbox) : Inbox[i].is # "shutdown") =>
             \A i \in 1 .. Len(Inbox') : Inbox'[i].is # "shutdown"
        /\ (\E k \in 1 .. Len(Inbox) : ShutdownAt(k)) => \E k \in 1 .. Len(Inbox') : ShutdownAt(k)'
        /\ Stopped => Stopped'
    BY <1>0, <2>1, <2>2, <2>3, StopTaken
  <2>5. Latest'
    BY <1>0, <2>3, <2>4 DEF Latest
  <2>6. Closed'
    BY <1>0, <2>3, <2>4 DEF Closed
  <2>7. Serves' /\ Replied' /\ Mirrors'
    BY <1>0, <2>3, <2>4 DEF Serves, Replied, Mirrors
  <2> QED BY <2>4, <2>5, <2>6, <2>7 DEF Serving
<1>15. CASE WorkerRaises
  <2>1. /\ worker.at = "stamped" /\ worker'.at = "drain"
        /\ worker'.stop = worker.stop /\ worker'.also = worker.also
        /\ UNCHANGED <<queue, pending, recording, take, mirror, open, asked, begun, reply>>
    BY <1>0, <1>15 DEF WorkerRaises, WorkerType
  <2>2. Inbox' = Inbox
    BY <2>1 DEF Inbox
  <2>3. Calm /\ \A id : Outstanding(id) => Outstanding(id)'
    BY <2>1, <2>2 DEF Calm, Outstanding
  <2>4. Counted' /\ Latest' /\ Closed'
    <3>1. Counted'
      BY <1>0, <2>1, <2>3, CalmCounted
    <3>2. Latest'
      BY <1>0, <2>1, <2>3 DEF Latest
    <3>3. Closed'
      BY <1>0, <2>1, <2>3, CalmClosed
    <3> QED BY <3>1, <3>2, <3>3
  <2>5. Serves' /\ Replied' /\ Mirrors'
    BY <1>0, <2>1 DEF Serves, Replied, Mirrors
  <2> QED BY <2>4, <2>5 DEF Serving
<1>16. CASE WorkerDrains
  <2> DEFINE m == Head(queue)
  <2>1. /\ worker.at = "drain" /\ queue # <<>> /\ m.is # "eos" /\ queue' = Tail(queue)
        /\ UNCHANGED <<recording, mirror, open, asked, begun, reply>>
    BY <1>16 DEF WorkerDrains
  <2>2. m \in Message
    BY <1>0, <2>1 DEF InboxType
  <2>3. CASE m.is = "samples"
    <3>1. Heard(Chunk(m), FALSE) /\ UNCHANGED <<worker, pending>>
      BY <1>16, <2>3, Zenon DEF WorkerDrains
    <3>2. Calm
      BY <1>0, <2>1, <2>3, <3>1, DrainTakes DEF Calm, Device
    <3>3. \A id : Outstanding(id) => Outstanding(id)'
      BY <1>0, <3>1, <3>2, CalmFields DEF Outstanding, Device
    <3>4. Counted' /\ Latest' /\ Closed'
      <4>1. Counted'
        BY <1>0, <2>1, <3>1, <3>2, <3>3, CalmCounted
      <4>2. Latest'
        BY <1>0, <2>1, <3>1, <3>2, <3>3 DEF Latest
      <4>3. Closed'
        BY <1>0, <2>1, <3>1, <3>2, <3>3, CalmClosed
      <4> QED BY <4>1, <4>2, <4>3
    <3>5. Serves' /\ Replied'
      BY <1>0, <2>1, <3>1 DEF Serves, Replied
    <3>6. Mirrors'
      <4>1. Chunk(m) \in Seq(Nat) /\ FALSE \in BOOLEAN
        BY <2>2, <2>3, ChunkSeq
      <4>2. take'.frames = take.frames \o Chunk(m)
        BY <1>0, <3>1, <4>1, HeardTypes, Zenon
      <4>3. mirror \in Seq(Nat) /\ take.frames \in Seq(Nat)
        BY <1>0 DEF AudioType, TakeType
      <4>4. IsPrefix(mirror, take.frames) => IsPrefix(mirror, take'.frames)
        BY <4>1, <4>2, <4>3, PrefixFields
      <4> QED BY <1>0, <2>1, <3>1, <4>4 DEF Mirrors
    <3> QED BY <3>4, <3>5, <3>6 DEF Serving
  <2>4. CASE m.is = "stop" /\ pending = <<>>
    <3>1. worker' = [worker EXCEPT !.also = worker.also \cup {m.id}] /\ UNCHANGED <<pending, heard>>
      BY <1>16, <2>4 DEF WorkerDrains
    <3>2. /\ worker'.at = "drain" /\ worker'.stop = worker.stop
          /\ worker'.also = worker.also \cup {m.id}
      BY <1>0, <2>1, <3>1 DEF WorkerType
    <3>3. Took(1, m)
      <4>1. Took(Len(pending) + 1, m)
        BY <1>0, <2>1, <3>1, DrainTakes
      <4>2. Len(pending) + 1 = 1
        BY <2>4
      <4> QED BY <4>1, <4>2
    <3>4. /\ Counted' /\ m.id \in 1 .. Len(asked) /\ asked[m.id] = begun
          /\ \A id : Outstanding(id) => Outstanding(id)'
          /\ (\A i \in 1 .. Len(Inbox) : Inbox[i].is # "shutdown") =>
               \A i \in 1 .. Len(Inbox') : Inbox'[i].is # "shutdown"
          /\ (\E k \in 1 .. Len(Inbox) : ShutdownAt(k)) => \E k \in 1 .. Len(Inbox') : ShutdownAt(k)'
          /\ Stopped => Stopped'
      BY <1>0, <2>1, <2>4, <3>2, <3>3, StopTaken
    <3>5. Latest'
      BY <1>0, <2>1, <3>4 DEF Latest
    <3>6. Closed'
      BY <1>0, <2>1, <3>2, <3>4 DEF Closed
    <3>7. Serves'
      BY <1>0, <2>1, <3>2, <3>4 DEF Serves
    <3>8. Replied' /\ Mirrors'
      BY <1>0, <2>1, <3>1, <3>2 DEF Replied, Mirrors
    <3> QED BY <3>4, <3>5, <3>6, <3>7, <3>8 DEF Serving
  <2>5. CASE m.is # "samples" /\ ~(m.is = "stop" /\ pending = <<>>)
    <3>1. pending' = Append(pending, m) /\ UNCHANGED <<worker, heard>>
      BY <1>16, <2>5, Zenon DEF WorkerDrains
    <3>2. m \in Command
      BY <2>1, <2>2, <2>5, MessageFields DEF Command
    <3>3. Inbox' = Inbox
      BY <1>0, <2>1, <3>1, <3>2, DrainDefers
    <3>4. Calm /\ \A id : Outstanding(id) => Outstanding(id)'
      BY <3>1, <3>3 DEF Calm, Outstanding
    <3>5. Counted' /\ Latest' /\ Closed'
      <4>1. Counted'
        BY <1>0, <2>1, <3>1, <3>4, CalmCounted
      <4>2. Latest'
        BY <1>0, <2>1, <3>1, <3>4 DEF Latest
      <4>3. Closed'
        BY <1>0, <2>1, <3>1, <3>4, CalmClosed
      <4> QED BY <4>1, <4>2, <4>3
    <3>6. Serves' /\ Replied' /\ Mirrors'
      BY <1>0, <2>1, <3>1 DEF Serves, Replied, Mirrors
    <3> QED BY <3>5, <3>6 DEF Serving
  <2> QED BY <2>3, <2>4, <2>5
<1>17. CASE DrainEnds \/ DrainTimesOut
  <2>1. PICK clean : worker.at = "drain" /\ Answer(clean)
    BY <1>17 DEF DrainEnds, DrainTimesOut
  <2>2. /\ recording' = FALSE /\ worker'.at = "answered"
        /\ reply'.of = {worker.stop} \cup worker.also /\ reply'.nth = begun
        /\ UNCHANGED <<pending, mirror, open, asked, begun>>
    BY <2>1 DEF Answer, Resting
  <2>3. Calm
    <3>1. CASE DrainEnds
      <4>1. Took(Len(pending) + 1, Head(queue)) /\ Head(queue).is \in Device
        BY <1>0, <2>2, <3>1, DrainTakes DEF DrainEnds, Device
      <4> QED BY <4>1 DEF Calm
    <3>2. CASE DrainTimesOut
      BY <2>2, <3>2 DEF DrainTimesOut, Calm, Inbox
    <3> QED BY <1>17, <3>1, <3>2
  <2>4. ASSUME NEW id, Outstanding(id)
        PROVE  Outstanding(id)' \/ (~recording' /\ asked[id] = begun)
    <3>1. \A j \in 1 .. Len(Inbox) : Inbox[j].is \notin Device =>
            \E i \in 1 .. Len(Inbox') : Inbox'[i] = Inbox[j]
      BY <1>0, <2>3, CalmFields
    <3>2. CASE id \in {worker.stop} \cup worker.also
      <4>1. asked[id] = begun /\ ~recording'
        BY <1>0, <2>1, <2>2, <3>2 DEF Serves
      <4> QED BY <4>1
    <3>3. CASE \E i \in 1 .. Len(Inbox) : Inbox[i].is = "stop" /\ Inbox[i].id = id
      <4>1. PICK j \in 1 .. Len(Inbox) : Inbox[j].is = "stop" /\ Inbox[j].id = id
        BY <3>3
      <4>2. \E i \in 1 .. Len(Inbox') : Inbox'[i] = Inbox[j]
        BY <3>1, <4>1 DEF Device
      <4>3. \E i \in 1 .. Len(Inbox') : Inbox'[i].is = "stop" /\ Inbox'[i].id = id
        BY <4>1, <4>2
      <4>4. Outstanding(id)'
        BY <4>3 DEF Outstanding
      <4> QED BY <4>4
    <3> QED BY <2>4, <3>2, <3>3 DEF Outstanding
  <2>5. Counted' /\ Latest' /\ Closed'
    <3>1. Counted'
      BY <1>0, <2>1, <2>2, <2>3, <2>4, CalmCounted
    <3>2. Latest'
      <4>1. SUFFICES ASSUME NEW id \in 1 .. Len(asked), asked[id] > begun PROVE Outstanding(id)'
        BY <2>2 DEF Latest
      <4>2. Outstanding(id) /\ asked[id] # begun
        BY <1>0, <1>a, <4>1 DEF Latest
      <4> QED BY <2>4, <4>2
    <3>3. Closed'
      BY <1>0, <2>1, <2>2, <2>3, <2>4, CalmClosed
    <3> QED BY <3>1, <3>2, <3>3
  <2>6. Serves' /\ Replied' /\ Mirrors'
    BY <1>0, <2>1, <2>2 DEF Serves, Replied, Mirrors
  <2> QED BY <2>5, <2>6 DEF Serving
<1>18. CASE WorkerRearms
  <2>1. /\ worker.at = "answered" /\ worker'.at = "recv" /\ mirror' = <<>> /\ reply'.of = {}
        /\ UNCHANGED <<queue, pending, recording, take, open, asked, begun>>
    BY <1>18 DEF WorkerRearms, Resting
  <2>2. Inbox' = Inbox
    BY <2>1 DEF Inbox
  <2>3. Calm /\ \A id : Outstanding(id) => Outstanding(id)'
    BY <2>1, <2>2 DEF Calm, Outstanding
  <2>4. Counted' /\ Latest' /\ Closed'
    <3>1. Counted'
      BY <1>0, <2>1, <2>3, CalmCounted
    <3>2. Latest'
      BY <1>0, <2>1, <2>3 DEF Latest
    <3>3. Closed'
      BY <1>0, <2>1, <2>3, CalmClosed
    <3> QED BY <3>1, <3>2, <3>3
  <2>5. Serves' /\ Replied' /\ Mirrors'
    BY <1>0, <2>1 DEF Serves, Replied, Mirrors
  <2> QED BY <2>4, <2>5 DEF Serving
\* By the time of the shutdown the last take has been stopped.
<1>19. CASE WorkerShutsDown
  <2>1. PICK m : Took(1, m) /\ m.is = "shutdown"
    BY <1>0, <1>19, ReadyTakes DEF WorkerShutsDown
  <2>2. /\ worker.at = "recv" /\ worker'.at = "gone"
        /\ UNCHANGED <<recording, take, mirror, open, asked, begun, reply>>
    BY <1>19 DEF WorkerShutsDown, Ready, Resting
  <2>3. 1 \in 1 .. Len(Inbox) /\ Inbox[1].is = "shutdown"
    BY <2>1 DEF Took
  <2>4. /\ ~open /\ Stopped
        /\ \A i \in 1 .. Len(Inbox) : i > 1 => Inbox[i].is \in Device
    BY <1>0, <2>2, <2>3 DEF Closed, ShutdownAt
  <2>5. /\ Len(Inbox) \in Nat /\ Len(Inbox') = Len(Inbox) - 1
        /\ \A i \in 1 .. Len(Inbox') : Inbox'[i] = Inbox[i + 1]
    BY <1>0, <2>1, TookFields
  <2>6. \A i \in 1 .. Len(Inbox') : Inbox'[i].is \in Device
    BY <2>4, <2>5
  <2>7. \A i \in 1 .. Len(Inbox) : Inbox[i].is # "start" /\ Inbox[i].is # "stop"
    BY <2>3, <2>4 DEF Device
  <2>8. StartsCalled = begun
    <3>1. \A i \in 0 + 1 .. Len(Inbox) : Inbox[i].is # "start"
      BY <2>7
    <3>2. 0 \in Nat /\ 0 <= Len(Inbox)
      BY <2>5
    <3>3. Before(Inbox, 0) = Before(Inbox, Len(Inbox))
      BY <2>5, <3>1, <3>2, BeforeGrows
    <3>4. Starts(Inbox) = 0
      BY <1>0, <3>3, BeforeNone, StartsBefore, InboxFields
    <3> QED BY <1>a, <3>4 DEF StartsCalled
  <2>9. \A id : ~Outstanding(id)
    BY <2>2, <2>7 DEF Outstanding
  <2>10. ~recording
    <3>1. CASE begun = 0
      BY <1>0, <3>1 DEF Mirrors
    <3>2. CASE asked # <<>> /\ asked[Len(asked)] = begun
      <4>1. Len(asked) \in 1 .. Len(asked)
        BY <1>0, <1>a, <3>2 DEF CallType
      <4> QED BY <1>0, <2>9, <3>2, <4>1 DEF Latest
    <3> QED BY <2>4, <2>8, <3>1, <3>2 DEF Stopped
  <2>11. Counted' /\ Closed'
    BY <2>2, <2>4, <2>6, <2>10 DEF Counted, Closed, Device
  <2>12. Latest'
    BY <1>0, <2>2, <2>9, <2>10 DEF Latest
  <2>13. Serves' /\ Replied' /\ Mirrors'
    BY <1>0, <2>2 DEF Serves, Replied, Mirrors
  <2> QED BY <2>11, <2>12, <2>13 DEF Serving
<1> QED
  BY <1>2, <1>5, <1>6, <1>10, <1>11, <1>12, <1>13, <1>14, <1>15, <1>16, <1>17, <1>18, <1>19
  DEF Next, Input, Manager, Worker

LEMMA Served == Spec => []Serving
<1>1. Init => Serving
  BY InitServing
<1>2. Types /\ Serving /\ [Next]_vars => Serving'
  BY NextServing
<1> QED BY <1>1, <1>2, Typed, PTL DEF Spec

\* A stop is answered with the take that was begun before it, however many calls had
\* timed out, were deferred or were joined by a drain (run_consumer, stop_captured).
THEOREM AnswerFitsTake == Spec => []AnswersItsOwnTake
<1>1. Serving => AnswersItsOwnTake
  BY DEF Serving, Replied, AnswersItsOwnTake
<1> QED BY <1>1, Served, PTL

\* The live preview reads a prefix of the take in progress, and nothing of one that is
\* over, also across a stream that is closed and opened again (live_audio).
THEOREM MirrorHolds == Spec => []MirrorFollows
<1>1. Serving => MirrorFollows
  BY DEF Serving, Mirrors, MirrorFollows
<1> QED BY <1>1, Served, PTL

-----------------------------------------------------------------------------
\* No frame is kept twice: what is held, what waits in the Inbox, what the callback
\* works on and what the device has yet to deliver follow one another.

Ascending(s) == \A i, j \in 1 .. Len(s) : i < j => s[i] < s[j]
\* All that is still to come lies after frame f.
Past(f) ==
  /\ f <= delivered /\ (callback # Idle => f < callback.from)
  /\ \A i \in 1 .. Len(Inbox) : Inbox[i].is = "samples" => f < Inbox[i].from
Lined ==
  \A i \in 1 .. Len(Inbox) : Inbox[i].is = "samples" =>
    /\ Inbox[i].to <= delivered /\ (callback # Idle => Inbox[i].to < callback.from)
    /\ \A j \in 1 .. Len(Inbox) : i < j /\ Inbox[j].is = "samples" => Inbox[i].to < Inbox[j].from
Owned == Range(take.frames) \cup Range(ring) \cup taken
Apart == /\ Range(take.frames) \cap taken = {}
         /\ Range(ring) \cap (taken \cup Range(take.frames)) = {}
Once  == /\ Lined /\ (\A f \in Owned : Past(f))
         /\ Ascending(take.frames) /\ Ascending(ring) /\ Apart

LEMMA RangeIs ==
  ASSUME NEW s \in Seq(Nat)
  PROVE  /\ \A f : f \in Range(s) <=> \E i \in 1 .. Len(s) : s[i] = f
         /\ Range(s) \in SUBSET Nat
  BY DEF Range

LEMMA NoneIs ==
  Ascending(<<>>) /\ Range(<<>>) = {}
  BY DEF Ascending, Range

\* A chunk is ascending, and holds the frames from its first to its last.
LEMMA ChunkRises ==
  ASSUME NEW m \in Message, m.is = "samples"
  PROVE  /\ Chunk(m) \in Seq(Nat) /\ Ascending(Chunk(m))
         /\ \A f : f \in Range(Chunk(m)) <=> f \in m.from .. m.to
<1>1. m.from \in Nat \ {0} /\ m.to \in Nat /\ m.from <= m.to
  BY MessageFields
<1>2. /\ Chunk(m) \in Seq(Nat) /\ Len(Chunk(m)) = m.to - m.from + 1
      /\ \A i \in 1 .. Len(Chunk(m)) : Chunk(m)[i] = m.from + i - 1
  BY ChunkSeq
<1>3. Ascending(Chunk(m))
  BY <1>1, <1>2 DEF Ascending
<1>4. ASSUME NEW f, f \in Range(Chunk(m)) PROVE f \in m.from .. m.to
  <2>1. PICK i \in 1 .. Len(Chunk(m)) : Chunk(m)[i] = f
    BY <1>2, <1>4, RangeIs
  <2>2. f = m.from + i - 1 /\ i \in Nat /\ 1 <= i /\ i <= m.to - m.from + 1
    BY <1>1, <1>2, <2>1
  <2> QED BY <1>1, <2>2
<1>5. ASSUME NEW f \in m.from .. m.to PROVE f \in Range(Chunk(m))
  <2>1. f - m.from + 1 \in 1 .. Len(Chunk(m)) /\ m.from + (f - m.from + 1) - 1 = f
    BY <1>1, <1>2
  <2>2. Chunk(m)[f - m.from + 1] = f
    BY <1>2, <2>1
  <2> QED BY <1>2, <2>1, <2>2, RangeIs
<1> QED BY <1>2, <1>3, <1>4, <1>5

LEMMA ConcatRises ==
  ASSUME NEW s \in Seq(Nat), NEW t \in Seq(Nat), Ascending(s), Ascending(t),
         \A f \in Range(s), g \in Range(t) : f < g
  PROVE  Ascending(s \o t) /\ Range(s \o t) = Range(s) \cup Range(t)
<1> DEFINE st == s \o t
<1>1. /\ st \in Seq(Nat) /\ Len(st) = Len(s) + Len(t) /\ Len(s) \in Nat /\ Len(t) \in Nat
      /\ \A i \in 1 .. Len(s) + Len(t) : st[i] = IF i <= Len(s) THEN s[i] ELSE t[i - Len(s)]
  BY ConcatProperties
<1> HIDE DEF st
<1>2. ASSUME NEW i \in 1 .. Len(st), NEW j \in 1 .. Len(st), i < j PROVE st[i] < st[j]
  <2>0. /\ i \in 1 .. Len(s) + Len(t) /\ j \in 1 .. Len(s) + Len(t)
        /\ Len(s) \in Nat /\ Len(t) \in Nat
    BY <1>1
  <2>1. CASE j <= Len(s)
    <3>1. i \in 1 .. Len(s) /\ j \in 1 .. Len(s) /\ st[i] = s[i] /\ st[j] = s[j]
      BY <1>1, <1>2, <2>1
    <3> QED BY <1>2, <3>1 DEF Ascending
  <2>2. CASE i > Len(s)
    <3>1. i - Len(s) \in 1 .. Len(t) /\ j - Len(s) \in 1 .. Len(t) /\ i - Len(s) < j - Len(s)
      BY <1>2, <2>0, <2>2
    <3>2. ~(i <= Len(s)) /\ ~(j <= Len(s)) /\ i \in 1 .. Len(s) + Len(t) /\ j \in 1 .. Len(s) + Len(t)
      BY <1>1, <1>2, <2>2
    <3>3. st[i] = t[i - Len(s)] /\ st[j] = t[j - Len(s)]
      BY <1>1, <3>2
    <3> QED BY <3>1, <3>3 DEF Ascending
  <2>3. CASE i <= Len(s) /\ j > Len(s)
    <3>0. /\ i \in 1 .. Len(s) /\ j - Len(s) \in 1 .. Len(t) /\ ~(j <= Len(s))
          /\ i \in 1 .. Len(s) + Len(t) /\ j \in 1 .. Len(s) + Len(t)
      BY <1>1, <2>3
    <3>1. st[i] = s[i] /\ st[j] = t[j - Len(s)]
      BY <1>1, <2>3, <3>0
    <3>2. st[i] \in Range(s) /\ st[j] \in Range(t)
      BY <3>0, <3>1, RangeIs
    <3> QED BY <3>2
  <2> QED BY <1>1, <2>1, <2>2, <2>3
<1>3. Range(st) = Range(s) \cup Range(t)
  BY RangeConcatenation DEF st
<1> QED BY <1>2, <1>3 DEF st, Ascending

\* A part of a sequence that begins after its first k elements.
LEMMA PartRises ==
  ASSUME NEW s \in Seq(Nat), NEW t \in Seq(Nat), NEW k \in Nat, Ascending(s),
         \A i \in 1 .. Len(t) : i + k \in 1 .. Len(s) /\ t[i] = s[i + k]
  PROVE  Ascending(t) /\ Range(t) \subseteq Range(s)
<1>1. Ascending(t)
  <2>1. SUFFICES ASSUME NEW i \in 1 .. Len(t), NEW j \in 1 .. Len(t), i < j
                 PROVE  t[i] < t[j]
    BY DEF Ascending
  <2>2. i + k < j + k /\ i + k \in 1 .. Len(s) /\ j + k \in 1 .. Len(s)
    BY <2>1
  <2>3. s[i + k] < s[j + k]
    BY <2>2 DEF Ascending
  <2> QED BY <2>3
<1>2. Range(t) \subseteq Range(s)
  BY RangeIs
<1> QED BY <1>1, <1>2

\* Steps that add no audio leave the line as it is, or shorten it.
LEMMA LineKeeps ==
  ASSUME InboxType, InboxType', Lined, UNCHANGED <<callback, delivered>>,
         \/ Inbox' = Inbox
         \/ \E k, m : Took(k, m)
         \/ \E s \in Seq(Message) : Inbox' = Inbox \o s /\ \A i \in 1 .. Len(s) : s[i].is # "samples"
  PROVE  Lined' /\ \A f : Past(f) => Past(f)'
<1>1. CASE Inbox' = Inbox
  BY <1>1 DEF Lined, Past
<1>2. CASE \E k, m : Took(k, m)
  <2>1. PICK k, m : Took(k, m)
    BY <1>2
  <2>2. /\ Len(Inbox) \in Nat /\ Len(Inbox') = Len(Inbox) - 1
        /\ \A i \in 1 .. Len(Inbox') : Inbox'[i] = IF i < k THEN Inbox[i] ELSE Inbox[i + 1]
    BY <2>1, TookFields
  <2>3. k \in 1 .. Len(Inbox)
    BY <2>1 DEF Took
  <2> DEFINE at(i) == IF i < k THEN i ELSE i + 1
  <2>4. /\ \A i \in 1 .. Len(Inbox') : at(i) \in 1 .. Len(Inbox) /\ Inbox'[i] = Inbox[at(i)]
        /\ \A i, j \in 1 .. Len(Inbox') : i < j => at(i) < at(j)
    BY <2>2, <2>3
  <2> HIDE DEF at
  <2>5. Lined'
    BY <2>4 DEF Lined
  <2>6. \A f : Past(f) => Past(f)'
    BY <2>4 DEF Past
  <2> QED BY <2>5, <2>6
<1>3. CASE \E s \in Seq(Message) : /\ Inbox' = Inbox \o s
                                   /\ \A i \in 1 .. Len(s) : s[i].is # "samples"
  <2>1. PICK s \in Seq(Message) : /\ Inbox' = Inbox \o s
                                  /\ \A i \in 1 .. Len(s) : s[i].is # "samples"
    BY <1>3
  <2>2. /\ Len(Inbox) \in Nat /\ Len(s) \in Nat /\ Len(Inbox') = Len(Inbox) + Len(s)
        /\ \A i \in 1 .. Len(Inbox) : Inbox'[i] = Inbox[i]
        /\ \A i \in 1 .. Len(Inbox') : i > Len(Inbox) => /\ i - Len(Inbox) \in 1 .. Len(s)
                                                         /\ Inbox'[i] = s[i - Len(Inbox)]
    BY <2>1, AddedFields
  <2>3. \A i \in 1 .. Len(Inbox') : Inbox'[i].is = "samples" =>
          i \in 1 .. Len(Inbox) /\ Inbox'[i] = Inbox[i]
    BY <2>1, <2>2
  <2>4. Lined'
    BY <2>3 DEF Lined
  <2>5. \A f : Past(f) => Past(f)'
    BY <2>3 DEF Past
  <2> QED BY <2>4, <2>5
<1> QED BY <1>1, <1>2, <1>3

\* The first chunk of the line is taken: what is held lies before it, the rest after it.
LEMMA LineMoves ==
  ASSUME Clock, CallbackType, InboxType, InboxType', Lined, UNCHANGED <<callback, delivered>>,
         NEW k, NEW m, Took(k, m), m.is = "samples",
         \A i \in 1 .. k - 1 : Inbox[i].is # "samples"
  PROVE  /\ Lined' /\ \A f : Past(f) => f < m.from /\ Past(f)'
         /\ \A f \in m.from .. m.to : Past(f)'
<1>1. /\ m \in Message /\ Len(Inbox) \in Nat /\ Len(Inbox') = Len(Inbox) - 1
      /\ \A i \in 1 .. Len(Inbox') : Inbox'[i] = IF i < k THEN Inbox[i] ELSE Inbox[i + 1]
  BY TookFields
<1>2. k \in 1 .. Len(Inbox) /\ m = Inbox[k]
  BY DEF Took
<1>3. Lined' /\ \A f : Past(f) => Past(f)'
  BY LineKeeps
<1>4. \A f : Past(f) => f < m.from
  BY <1>2 DEF Past
<1>5. ASSUME NEW f \in m.from .. m.to PROVE Past(f)'
  <2>1. m.from \in Nat /\ m.to \in Nat
    BY <1>1, MessageFields
  <2>2. m.to <= delivered /\ (callback # Idle => m.to < callback.from)
    BY <1>2 DEF Lined
  <2>3. ASSUME NEW i \in 1 .. Len(Inbox'), Inbox'[i].is = "samples"
        PROVE  f < Inbox'[i].from
    <3>1. ~(i < k)
      <4>1. SUFFICES ASSUME i < k PROVE FALSE
        OBVIOUS
      <4>2. i \in 1 .. k - 1 /\ Inbox'[i] = Inbox[i]
        BY <1>1, <1>2, <4>1
      <4> QED BY <2>3, <4>2
    <3>2. Inbox'[i] = Inbox[i + 1] /\ i + 1 \in 1 .. Len(Inbox) /\ k < i + 1
      BY <1>1, <1>2, <3>1
    <3>3. m.to < Inbox[i + 1].from
      BY <1>2, <2>3, <3>2 DEF Lined
    <3>4. Inbox[i + 1].from \in Nat
      BY <2>3, <3>2, InboxFields, MessageFields
    <3> QED BY <2>1, <3>2, <3>3, <3>4
  <2>4. f <= delivered /\ (callback # Idle => f < callback.from)
    BY <2>1, <2>2 DEF Clock, CallbackType
  <2> QED BY <2>3, <2>4 DEF Past
<1> QED BY <1>3, <1>4, <1>5

LEMMA InitOnce ==
  ASSUME Init
  PROVE  Once
<1>1. Inbox = <<>>
  BY DEF Init, Inbox
<1>2. take.frames = <<>> /\ ring = <<>> /\ taken = {}
  BY DEF Init, EmptyTake
<1>3. Range(take.frames) = {} /\ Range(ring) = {} /\ Ascending(take.frames) /\ Ascending(ring)
  BY <1>2, NoneIs
<1>4. Lined
  BY <1>1 DEF Lined
<1> QED BY <1>2, <1>3, <1>4 DEF Once, Owned, Apart

LEMMA NextOnce ==
  ASSUME Types, Once, [Next]_vars
  PROVE  Once'
<1> USE DEF device, shared, heard, input, history, calls
<1>0. /\ Clock /\ CallbackType /\ WorkerType /\ InboxType /\ CallType /\ AudioType /\ ReplyType
      /\ Types' /\ InboxType' /\ AudioType' /\ CallbackType' /\ Clock'
      /\ Lined /\ (\A f \in Owned : Past(f)) /\ Ascending(take.frames) /\ Ascending(ring) /\ Apart
  BY NextTypes DEF Types, Once
<1>a. /\ take.frames \in Seq(Nat) /\ ring \in Seq(Nat) /\ take'.frames \in Seq(Nat)
      /\ ring' \in Seq(Nat) /\ Owned \in SUBSET Nat
  <2>1. take.frames \in Seq(Nat) /\ ring \in Seq(Nat) /\ take'.frames \in Seq(Nat)
        /\ ring' \in Seq(Nat)
    BY <1>0 DEF AudioType, TakeType
  <2> QED BY <1>0, <2>1, RangeIs DEF Owned, ReplyType
\* The audio that is held stays where it is, and nothing joins the line.
<1>1. ASSUME UNCHANGED <<take, ring, taken>>, Lined', \A f : Past(f) => Past(f)'
      PROVE  Once'
  BY <1>0, <1>1 DEF Once, Owned, Apart
<1>2. ASSUME UNCHANGED <<take, ring, taken, queue, pending, callback, delivered>>
      PROVE  Once'
  <2>1. Inbox' = Inbox
    BY <1>2 DEF Inbox
  <2>2. Lined' /\ \A f : Past(f) => Past(f)'
    BY <1>0, <1>2, <2>1, LineKeeps
  <2> QED BY <1>1, <1>2, <2>2
<1>3. CASE \/ Capture \/ DeviceStalls \/ DeviceResumes \/ StopGivesUp \/ WorkerRaises \/ WorkerRearms
           \/ UNCHANGED vars
  BY <1>2, <1>3 DEF Capture, DeviceStalls, DeviceResumes, StopGivesUp, WorkerRaises, WorkerRearms,
                    vars
<1>4. CASE CallbackLoads
  <2>1. PICK to \in delivered + 1 .. now :
          /\ delivered' = to
          /\ callback' = Idle \/ callback'.from = delivered + 1
    BY <1>4 DEF CallbackLoads
  <2>2. UNCHANGED <<take, ring, taken, queue, pending>> /\ callback = Idle
    BY <1>4 DEF CallbackLoads
  <2>3. Inbox' = Inbox
    BY <2>2 DEF Inbox
  <2>4. delivered \in Nat /\ delivered' \in Nat /\ delivered < delivered'
    BY <1>0, <2>1 DEF Clock
  <2>5. \A i \in 1 .. Len(Inbox) : Inbox[i].is = "samples" => Inbox[i].to \in Nat
    BY <1>0, InboxFields, MessageFields
  <2>6. Lined'
    <3>1. SUFFICES ASSUME NEW i \in 1 .. Len(Inbox), Inbox[i].is = "samples"
                   PROVE  /\ Inbox[i].to <= delivered' /\ (callback' # Idle => Inbox[i].to < callback'.from)
                          /\ \A j \in 1 .. Len(Inbox) : i < j /\ Inbox[j].is = "samples" =>
                               Inbox[i].to < Inbox[j].from
      BY <2>3 DEF Lined
    <3>2. Inbox[i].to <= delivered /\ Inbox[i].to \in Nat
      BY <1>0, <2>5, <3>1 DEF Lined
    <3>3. \A j \in 1 .. Len(Inbox) : i < j /\ Inbox[j].is = "samples" => Inbox[i].to < Inbox[j].from
      BY <1>0, <3>1 DEF Lined
    <3> QED BY <2>1, <2>4, <3>2, <3>3
  <2>7. ASSUME NEW f \in Owned PROVE Past(f)'
    <3>1. f \in Nat /\ f <= delivered
      BY <1>0, <1>a DEF Past
    <3>2. \A i \in 1 .. Len(Inbox) : Inbox[i].is = "samples" => f < Inbox[i].from
      BY <1>0 DEF Past
    <3>3. f <= delivered' /\ (callback' # Idle => f < callback'.from)
      BY <2>1, <2>4, <3>1
    <3> QED BY <2>3, <3>2, <3>3 DEF Past
  <2> QED BY <1>0, <2>2, <2>6, <2>7 DEF Once, Owned, Apart
\* The chunk the callback holds is the next to come.
<1>5. CASE CallbackSends
  <2>1. PICK s \in Seq(Message) :
          /\ Inbox' = Inbox \o s
          /\ \A i \in 1 .. Len(s) : \/ /\ s[i].is = "samples" /\ i = 1
                                       /\ s[i].from = callback.from /\ s[i].to <= callback.to
                                    \/ s[i].is = "eos" /\ i = Len(s)
    BY <1>5, CallbackAdds
  <2>2. /\ UNCHANGED <<take, ring, taken, delivered>> /\ callback # Idle /\ callback' = Idle
        /\ callback.to = delivered
    BY <1>0, <1>5 DEF CallbackSends, CallbackType
  <2>3. /\ Len(Inbox) \in Nat /\ Len(s) \in Nat /\ Len(Inbox') = Len(Inbox) + Len(s)
        /\ \A i \in 1 .. Len(Inbox) : Inbox'[i] = Inbox[i]
        /\ \A i \in 1 .. Len(Inbox') : i > Len(Inbox) => /\ i - Len(Inbox) \in 1 .. Len(s)
                                                         /\ Inbox'[i] = s[i - Len(Inbox)]
    BY <1>0, <2>1, AddedFields
  <2>4. ASSUME NEW i \in 1 .. Len(Inbox'), Inbox'[i].is = "samples"
        PROVE  \/ i \in 1 .. Len(Inbox) /\ Inbox'[i] = Inbox[i]
               \/ /\ i = Len(Inbox) + 1 /\ Inbox'[i].from = callback.from
                  /\ Inbox'[i].to <= delivered
    <3>1. CASE i > Len(Inbox)
      <4>1. i - Len(Inbox) \in 1 .. Len(s) /\ Inbox'[i] = s[i - Len(Inbox)]
        BY <2>3, <3>1
      <4>2. i - Len(Inbox) = 1 /\ Inbox'[i].from = callback.from /\ Inbox'[i].to <= callback.to
        BY <2>1, <2>4, <4>1
      <4> QED BY <2>2, <2>3, <4>2
    <3>2. CASE i <= Len(Inbox)
      BY <2>3, <3>2
    <3> QED BY <2>3, <3>1, <3>2
  <2>5. Lined'
    <3>1. SUFFICES ASSUME NEW i \in 1 .. Len(Inbox'), Inbox'[i].is = "samples"
                   PROVE  /\ Inbox'[i].to <= delivered
                          /\ \A j \in 1 .. Len(Inbox') : i < j /\ Inbox'[j].is = "samples" =>
                               Inbox'[i].to < Inbox'[j].from
      BY <2>2 DEF Lined
    <3>2. Inbox'[i].to <= delivered
      BY <1>0, <2>4, <3>1 DEF Lined
    <3>3. ASSUME NEW j \in 1 .. Len(Inbox'), i < j, Inbox'[j].is = "samples"
          PROVE  Inbox'[i].to < Inbox'[j].from
      <4>1. i \in 1 .. Len(Inbox) /\ Inbox'[i] = Inbox[i]
        <5>1. i # Len(Inbox) + 1
          BY <2>3, <2>4, <3>3
        <5> QED BY <2>4, <3>1, <5>1
      <4> QED BY <1>0, <2>2, <2>4, <3>1, <3>3, <4>1 DEF Lined
    <3> QED BY <3>2, <3>3
  <2>6. ASSUME NEW f \in Owned PROVE Past(f)'
    <3>1. f <= delivered /\ f < callback.from
          /\ \A i \in 1 .. Len(Inbox) : Inbox[i].is = "samples" => f < Inbox[i].from
      BY <1>0, <2>2 DEF Past
    <3>2. \A i \in 1 .. Len(Inbox') : Inbox'[i].is = "samples" => f < Inbox'[i].from
      BY <2>4, <3>1
    <3> QED BY <2>2, <3>1, <3>2 DEF Past
  <2> QED BY <1>0, <2>2, <2>5, <2>6 DEF Once, Owned, Apart
<1>6. CASE CallStart \/ CallStop \/ CallClose
  <2>1. PICK m : queue' = Append(queue, m) /\ m \in Command
    <3>1. [is |-> "start"] \in Command /\ [is |-> "shutdown"] \in Command
          /\ \A n \in Nat : [is |-> "stop", id |-> n] \in Command
      BY MessagesMade DEF Command
    <3>2. Len(asked) + 1 \in Nat
      BY <1>0 DEF CallType
    <3>3. CASE CallStop
      BY <3>1, <3>2, <3>3 DEF CallStop
    <3>4. CASE CallStart \/ CallClose
      BY <3>1, <3>4 DEF CallStart, CallClose
    <3> QED BY <1>6, <3>3, <3>4
  <2>2. UNCHANGED <<take, ring, taken, pending, callback, delivered>>
    BY <1>6 DEF CallStart, CallStop, CallClose
  <2>3. queue' = queue \o <<m>> /\ <<m>> \in Seq(Message) /\ m.is # "samples"
    <3>1. m \in Message /\ m.is # "samples"
      BY <2>1, CommandFields
    <3> QED BY <1>0, <2>1, <3>1, AppendIsConcat DEF InboxType
  <2>4. \A i \in 1 .. Len(<<m>>) : <<m>>[i].is # "samples"
    BY <2>3
  <2>5. \E s \in Seq(Message) : Inbox' = Inbox \o s /\ \A i \in 1 .. Len(s) : s[i].is # "samples"
    <3> DEFINE s == <<m>>
    <3>1. s \in Seq(Message) /\ queue' = queue \o s /\ \A i \in 1 .. Len(s) : s[i].is # "samples"
      BY <2>3, <2>4
    <3> HIDE DEF s
    <3>2. Inbox' = Inbox \o s
      BY <1>0, <2>2, <3>1, QueueGrows
    <3> QED BY <3>1, <3>2
  <2>6. Lined' /\ \A f : Past(f) => Past(f)'
    BY <1>0, <2>2, <2>5, LineKeeps
  <2> QED BY <1>1, <2>2, <2>6
<1>7. CASE CallOpen
  <2>1. /\ queue' = <<>> /\ pending' = <<>> /\ callback' = Idle /\ delivered' = now
        /\ take'.frames = <<>> /\ ring' = <<>> /\ taken' = taken
    BY <1>7 DEF CallOpen, EmptyTake
  <2>2. Inbox' = <<>>
    BY <2>1 DEF Inbox
  <2>3. Range(take'.frames) = {} /\ Range(ring') = {}
        /\ Ascending(take'.frames) /\ Ascending(ring')
    BY <2>1, NoneIs
  <2>4. ASSUME NEW f \in taken PROVE Past(f)'
    <3>1. f \in Nat /\ f <= delivered /\ delivered <= now /\ delivered \in Nat /\ now \in Nat
      BY <1>0, <1>a DEF Owned, Past, Clock
    <3> QED BY <2>1, <2>2, <3>1 DEF Past
  <2> QED BY <2>1, <2>2, <2>3, <2>4 DEF Once, Owned, Apart, Lined
\* The worker takes the first chunk of the line, to the take or to the ring.
<1>8. ASSUME NEW k, NEW m, Took(k, m), m.is = "samples", \A i \in 1 .. k - 1 : Inbox[i].is # "samples",
             UNCHANGED <<callback, delivered, taken>>,
             \/ take'.frames = take.frames \o Chunk(m) /\ ring' = ring
             \/ take' = take /\ ring' = Warmed(ring, Chunk(m))
      PROVE  Once'
  <2>1. /\ Lined' /\ \A f : Past(f) => f < m.from /\ Past(f)'
        /\ \A f \in m.from .. m.to : Past(f)'
    BY <1>0, <1>8, LineMoves
  <2>2. m \in Message /\ m.from \in Nat
    BY <1>0, <1>8, TookFields, MessageFields
  <2>3. /\ Chunk(m) \in Seq(Nat) /\ Ascending(Chunk(m))
        /\ \A f : f \in Range(Chunk(m)) <=> f \in m.from .. m.to
    BY <1>8, <2>2, ChunkRises
  <2>4. /\ \A f \in Owned : f < m.from /\ Past(f)' /\ f \in Nat
        /\ \A f \in Range(Chunk(m)) : m.from <= f /\ Past(f)' /\ f \in Nat
    <3>1. ASSUME NEW f \in Owned PROVE f < m.from /\ Past(f)' /\ f \in Nat
      BY <1>0, <1>a, <2>1
    <3>2. ASSUME NEW f \in Range(Chunk(m)) PROVE m.from <= f /\ Past(f)' /\ f \in Nat
      <4>1. f \in m.from .. m.to /\ Past(f)'
        BY <2>1, <2>3
      <4> QED BY <2>2, <4>1
    <3> QED BY <3>1, <3>2
  <2>5. \A f \in Owned, g \in Range(Chunk(m)) : f < g
    BY <2>2, <2>4
  <2>6. CASE take'.frames = take.frames \o Chunk(m) /\ ring' = ring
    <3>1. \A f \in Range(take.frames), g \in Range(Chunk(m)) : f < g
      BY <2>5 DEF Owned
    <3>2. /\ Ascending(take.frames \o Chunk(m))
          /\ Range(take.frames \o Chunk(m)) = Range(take.frames) \cup Range(Chunk(m))
      BY <1>0, <1>a, <2>3, <3>1, ConcatRises
    <3>3. \A f \in Owned, g \in Range(Chunk(m)) : f # g
      BY <2>4, <2>5
    <3>4. /\ Owned' = Owned \cup Range(Chunk(m)) /\ Ascending(take'.frames) /\ Ascending(ring')
          /\ Range(take'.frames) = Range(take.frames) \cup Range(Chunk(m))
      BY <1>0, <1>8, <2>6, <3>2 DEF Owned
    <3>5. Apart'
      BY <1>0, <1>8, <2>6, <3>3, <3>4 DEF Apart, Owned
    <3> QED BY <2>1, <2>4, <3>4, <3>5 DEF Once
  <2>7. CASE take' = take /\ ring' = Warmed(ring, Chunk(m))
    <3> DEFINE all == ring \o Chunk(m)
    <3>1. \A f \in Range(ring), g \in Range(Chunk(m)) : f < g
      BY <2>5 DEF Owned
    <3>2. Ascending(all) /\ Range(all) = Range(ring) \cup Range(Chunk(m)) /\ all \in Seq(Nat)
      BY <1>0, <1>a, <2>3, <3>1, ConcatRises
    <3>3. PICK n \in Nat : \A i \in 1 .. Len(ring') : i + n \in 1 .. Len(all) /\ ring'[i] = all[i + n]
      <4> DEFINE w == Warmed(ring, Chunk(m))
      <4>1. \E n \in Nat : /\ Len(w) = Len(all) - n
                           /\ \A i \in 1 .. Len(w) : i + n \in 1 .. Len(all) /\ w[i] = all[i + n]
        BY <1>a, <2>3, WarmedFields
      <4> HIDE DEF w, all
      <4>2. ring' = w
        BY <2>7 DEF w
      <4> QED BY <4>1, <4>2
    <3> HIDE DEF all
    <3>4. Ascending(ring') /\ Range(ring') \subseteq Range(all)
      BY <1>a, <3>2, <3>3, PartRises
    <3>5. \A f \in Owned, g \in Range(Chunk(m)) : f # g
      BY <2>4, <2>5
    <3>6. Owned' \subseteq Owned \cup Range(Chunk(m)) /\ Ascending(take'.frames)
      BY <1>0, <1>8, <2>7, <3>2, <3>4 DEF Owned
    <3>7. Apart'
      BY <1>0, <1>8, <2>7, <3>2, <3>4, <3>5 DEF Apart, Owned
    <3> QED BY <2>1, <2>4, <3>4, <3>6, <3>7 DEF Once
  <2> QED BY <1>8, <2>6, <2>7
<1>9. CASE WorkerHears
  <2>1. PICK m \in Messages :
          /\ Ready(m) /\ m.is = "samples"
          /\ \/ Heard(Chunk(m), TRUE) /\ ring' = ring
             \/ UNCHANGED heard /\ ring' = Warmed(ring, Chunk(m))
    BY <1>9, Zenon DEF WorkerHears
  <2>2. Took(1, m) /\ m \in Message
    BY <1>0, <2>1, ReadyTakes
  <2>3. UNCHANGED <<callback, delivered, taken>>
    BY <1>9 DEF WorkerHears
  <2>4. Chunk(m) \in Seq(Nat) /\ TRUE \in BOOLEAN
    BY <2>1, <2>2, ChunkSeq
  <2>5. Heard(Chunk(m), TRUE) => take'.frames = take.frames \o Chunk(m)
    BY <1>0, <2>4, HeardTypes, Zenon
  <2>6. \/ take'.frames = take.frames \o Chunk(m) /\ ring' = ring
        \/ take' = take /\ ring' = Warmed(ring, Chunk(m))
    BY <2>1, <2>5
  <2>7. \A i \in 1 .. 1 - 1 : Inbox[i].is # "samples"
    OBVIOUS
  <2>8. m.is = "samples"
    BY <2>1
  <2> QED BY <1>8, <2>2, <2>3, <2>6, <2>7, <2>8
<1>10. CASE WorkerSkips
  <2>1. PICK m : Took(1, m)
    BY <1>0, <1>10, ReadyTakes DEF WorkerSkips
  <2>2. UNCHANGED <<take, ring, taken, callback, delivered>>
    BY <1>10 DEF WorkerSkips
  <2>3. Lined' /\ \A f : Past(f) => Past(f)'
    BY <1>0, <2>1, <2>2, LineKeeps
  <2> QED BY <1>1, <2>2, <2>3
<1>11. CASE WorkerStamps \/ WorkerShutsDown
  <2>1. PICK m : Took(1, m)
    BY <1>0, <1>11, ReadyTakes DEF WorkerStamps, WorkerShutsDown
  <2>2. UNCHANGED <<take, ring, taken, callback, delivered>>
    BY <1>11 DEF WorkerStamps, WorkerShutsDown
  <2>3. Lined' /\ \A f : Past(f) => Past(f)'
    BY <1>0, <2>1, <2>2, LineKeeps
  <2> QED BY <1>1, <2>2, <2>3
\* A start turns what is left of the ring into the take.
<1>12. CASE WorkerStarts
  <2>1. PICK m : Took(1, m)
    BY <1>0, <1>12, ReadyTakes DEF WorkerStarts
  <2>2. UNCHANGED <<taken, callback, delivered>> /\ ring' = <<>>
    BY <1>12 DEF WorkerStarts
  <2>3. Lined' /\ \A f : Past(f) => Past(f)'
    BY <1>0, <2>1, <2>2, LineKeeps
  <2>4. PICK sounds \in Sounding(ring) : take' = Seeded(Replayed(sounds).mask, sounds)
    BY <1>12 DEF WorkerStarts
  <2>5. /\ sounds \in Seq(Sounds) /\ Replayed(sounds).mask \in Seq(BOOLEAN)
        /\ Len(Replayed(sounds).mask) = Len(ring) /\ now \in Nat
    BY <1>0, StartTypes DEF HearingType, Clock
  <2>6. PICK lead \in 0 .. Len(ring) : take'.frames = SubSeq(ring, lead + 1, Len(ring))
    <3> DEFINE mask == Replayed(sounds).mask
    <3>1. mask \in Seq(BOOLEAN) /\ Len(mask) = Len(ring)
      BY <2>5
    <3> HIDE DEF mask
    <3>2. /\ Seeded(mask, sounds).frames = SubSeq(ring, Seeded(mask, sounds).cut + 1, Len(ring))
          /\ Seeded(mask, sounds).cut \in 0 .. Len(ring)
      BY <1>a, <2>5, <3>1, SeededFields
    <3>3. take' = Seeded(mask, sounds)
      BY <2>4 DEF mask
    <3> QED BY <3>2, <3>3
  <2>7. \A i \in 1 .. Len(take'.frames) :
          i + lead \in 1 .. Len(ring) /\ take'.frames[i] = ring[i + lead]
    BY <1>a, <2>6
  <2>8. Ascending(take'.frames) /\ Range(take'.frames) \subseteq Range(ring)
    <3>1. lead \in Nat
      BY <2>6
    <3> QED BY <1>0, <1>a, <2>7, <3>1, PartRises
  <2>9. Ascending(ring') /\ Range(ring') = {}
    BY <2>2, NoneIs
  <2>10. Owned' \subseteq Owned
    BY <2>2, <2>8, <2>9 DEF Owned
  <2>11. Apart'
    BY <1>0, <2>2, <2>8, <2>9 DEF Apart
  <2> QED BY <1>0, <2>3, <2>8, <2>9, <2>10, <2>11 DEF Once
<1>13. CASE WorkerDrains
  <2> DEFINE m == Head(queue)
  <2>1. /\ worker.at = "drain" /\ queue # <<>> /\ queue' = Tail(queue) /\ m.is # "eos"
        /\ UNCHANGED <<ring, taken, callback, delivered>>
    BY <1>13 DEF WorkerDrains
  <2>2. CASE m.is = "samples"
    <3>1. Heard(Chunk(m), FALSE) /\ pending' = pending
      BY <1>13, <2>2, Zenon DEF WorkerDrains
    <3>2. Took(Len(pending) + 1, m) /\ m \in Message
      BY <1>0, <2>1, <3>1, DrainTakes
    <3>3. Chunk(m) \in Seq(Nat) /\ FALSE \in BOOLEAN
      BY <2>2, <3>2, ChunkSeq
    <3>4. take'.frames = take.frames \o Chunk(m)
      BY <1>0, <3>1, <3>3, HeardTypes, Zenon
    <3>5. \A i \in 1 .. Len(pending) + 1 - 1 : Inbox[i].is # "samples"
      <4>1. TAKE i \in 1 .. Len(pending) + 1 - 1
      <4>2. i \in 1 .. Len(Inbox) /\ i <= Len(pending)
        BY <1>0, InboxFields
      <4>3. Inbox[i] \in Command
        BY <1>0, <4>2, InboxFields
      <4> QED BY <4>3, CommandFields
    <3> HIDE DEF m
    <3> QED BY <1>8, <2>1, <2>2, <3>2, <3>4, <3>5
  <2>3. CASE m.is # "samples"
    <3>1. UNCHANGED <<take, taken>>
      BY <1>13, <2>3, Zenon DEF WorkerDrains
    <3>2. CASE pending' = pending
      <4>1. Took(Len(pending) + 1, m)
        BY <1>0, <2>1, <3>2, DrainTakes
      <4>2. Lined' /\ \A f : Past(f) => Past(f)'
        <5>1. \E k, n : Took(k, n)
          BY <4>1
        <5> QED BY <1>0, <2>1, <5>1, LineKeeps
      <4> QED BY <1>1, <2>1, <3>1, <4>2
    <3>3. CASE pending' = Append(pending, m)
      <4>1. m \in Command
        <5>1. m \in Message
          BY <1>0, <2>1 DEF InboxType
        <5> QED BY <2>1, <2>3, <5>1, MessageFields DEF Command
      <4>2. Inbox' = Inbox
        BY <1>0, <2>1, <3>3, <4>1, DrainDefers
      <4>3. Lined' /\ \A f : Past(f) => Past(f)'
        BY <1>0, <2>1, <4>2, LineKeeps
      <4> QED BY <1>1, <2>1, <3>1, <4>3
    <3> QED BY <1>13, <2>3, <3>2, <3>3, Zenon DEF WorkerDrains
  <2> QED BY <2>2, <2>3
\* An answer takes the frames with it.
<1>14. CASE DrainEnds \/ DrainTimesOut
  <2>1. /\ taken' = taken \cup Range(take.frames) /\ take'.frames = <<>>
        /\ UNCHANGED <<ring, pending, callback, delivered>>
    BY <1>14 DEF DrainEnds, DrainTimesOut, Answer, EmptyTake
  <2>2. Inbox' = Inbox \/ \E k, m : Took(k, m)
    <3>1. CASE DrainEnds
      BY <1>0, <2>1, <3>1, DrainTakes DEF DrainEnds
    <3>2. CASE DrainTimesOut
      BY <2>1, <3>2 DEF DrainTimesOut, Inbox
    <3> QED BY <1>14, <3>1, <3>2
  <2>3. Lined' /\ \A f : Past(f) => Past(f)'
    BY <1>0, <2>1, <2>2, LineKeeps
  <2>4. Ascending(take'.frames) /\ Range(take'.frames) = {}
    BY <2>1, NoneIs
  <2>5. Owned' = Owned /\ Apart'
    BY <1>0, <2>1, <2>4 DEF Owned, Apart
  <2> QED BY <1>0, <2>1, <2>3, <2>4, <2>5 DEF Once
<1> QED
  BY <1>3, <1>4, <1>5, <1>6, <1>7, <1>9, <1>10, <1>11, <1>12, <1>13, <1>14
  DEF Next, Input, Manager, Worker

LEMMA Ordered == Spec => []Once
<1>1. Init => Once
  BY InitOnce
<1>2. Types /\ Once /\ [Next]_vars => Once'
  BY NextOnce
<1> QED BY <1>1, <1>2, Typed, PTL DEF Spec

\* No audio is kept twice or out of order: the frames of the take follow one another and
\* none of them was in an earlier answer, whatever ring, queue and callback still held
\* when the takes changed (run_consumer, seed_preroll, drain_to_end_of_stream).
THEOREM KeptOnce == Spec => []NothingTwice
<1>1. Types /\ Once => NothingTwice
  <2>1. SUFFICES ASSUME Types, Once, NEW i \in 1 .. Len(take.frames)
                 PROVE  /\ take.frames[i] \notin taken
                        /\ i > 1 => take.frames[i] > take.frames[i - 1]
    BY DEF NothingTwice
  <2>2. take.frames \in Seq(Nat)
    BY <2>1 DEF Types, AudioType, TakeType
  <2>3. take.frames[i] \in Range(take.frames)
    BY <2>2, RangeIs
  <2>4. i > 1 => i - 1 \in 1 .. Len(take.frames) /\ i - 1 < i
    BY <2>2
  <2>5. i > 1 => take.frames[i - 1] < take.frames[i]
    BY <2>1, <2>4 DEF Once, Ascending
  <2>6. take.frames[i] \in Nat
    BY <2>2, ElementOfSeq
  <2>7. i > 1 => take.frames[i - 1] \in Nat
    BY <2>2, <2>4, ElementOfSeq
  <2> QED BY <2>1, <2>3, <2>5, <2>6, <2>7 DEF Once, Apart
<1> QED BY <1>1, Typed, Ordered, PTL

-----------------------------------------------------------------------------
\* The mask: the detector's state after n frames says how SpeechOf continues.

Voiced(s, i) == s[i] # "silence"
Begins(s, o)      == \A j \in o - OnsetFrames + 1 .. o : Voiced(s, j)
Unbroken(s, o, i) == \A j \in o .. i - Hangover - 1 : \E k \in j + 1 .. j + Hangover + 1 : Voiced(s, k)
Verdict(s, i)     == \E o \in OnsetFrames .. i : Begins(s, o) /\ Unbroken(s, o, i)
Onset(s, i) == Verdict(s, i) /\ ~Verdict(s, i - 1)
\* Whether frame i is speech, as far as n frames show.
Speech(s, n, i) == Verdict(s, i) \/ \E o \in i + 1 .. n : o <= i + Prefill /\ Onset(s, o)

\* Within speech hang tells how long ago the last voiced frame was, outside it onset
\* counts the voiced frames at the end.
Fits(s, n, v) ==
  /\ v.buffered = IF n <= Prefill THEN n ELSE Prefill + 1
  /\ v.inSpeech <=> Verdict(s, n)
  /\ v.inSpeech => /\ v.onset = 0 /\ n - (Hangover - v.hang) >= 1
                   /\ Voiced(s, n - (Hangover - v.hang))
                   /\ \A i \in n - (Hangover - v.hang) + 1 .. n : ~Voiced(s, i)
  /\ ~v.inSpeech => /\ v.onset <= n /\ \A i \in n - v.onset + 1 .. n : Voiced(s, i)
                    /\ v.onset < n => ~Voiced(s, n - v.onset)
\* The mask of a take that has lost its first c frames.
Masked(s, n, c, mask) ==
  Len(mask) = n - c /\ \A i \in 1 .. n - c : mask[i] <=> Speech(s, n, i + c)

LEMMA Thresholds ==
  OnsetFrames \in Nat \ {0} /\ Hangover \in Nat /\ Prefill \in Nat /\ RingFrames \in Nat \ {0}
  BY FramesAssumption

LEMMA NoVerdict ==
  ASSUME NEW s
  PROVE  ~Verdict(s, 0)
  BY Thresholds DEF Verdict

\* A voiced frame continues speech, or begins it as the last of enough voiced frames.
LEMMA VerdictVoiced ==
  ASSUME NEW s, NEW n \in Nat, Voiced(s, n + 1)
  PROVE  Verdict(s, n + 1) <=>
           \/ Verdict(s, n)
           \/ /\ n + 1 >= OnsetFrames
              /\ \A j \in (n + 1) - OnsetFrames + 1 .. n + 1 : Voiced(s, j)
<1>1. ASSUME Verdict(s, n) PROVE Verdict(s, n + 1)
  <2>1. PICK o \in OnsetFrames .. n :
          Begins(s, o) /\ Unbroken(s, o, n)
    BY <1>1 DEF Verdict
  <2>2. ASSUME NEW j \in o .. (n + 1) - Hangover - 1
        PROVE  \E k \in j + 1 .. j + Hangover + 1 : Voiced(s, k)
    <3>1. CASE j \in o .. n - Hangover - 1
      BY <2>1, <3>1 DEF Unbroken
    <3>2. CASE j = n - Hangover
      <4>1. n + 1 \in j + 1 .. j + Hangover + 1
        BY Thresholds, <3>2
      <4> QED BY <4>1
    <3> QED BY Thresholds, <3>1, <3>2
  <2>3. o \in OnsetFrames .. n + 1
    BY Thresholds
  <2>4. Unbroken(s, o, n + 1)
    BY <2>2 DEF Unbroken
  <2> QED BY <2>1, <2>3, <2>4 DEF Verdict
<1>2. ASSUME n + 1 >= OnsetFrames, \A j \in (n + 1) - OnsetFrames + 1 .. n + 1 : Voiced(s, j)
      PROVE  Verdict(s, n + 1)
  <2>1. n + 1 \in OnsetFrames .. n + 1
    BY Thresholds, <1>2
  <2>2. Unbroken(s, n + 1, n + 1)
    BY Thresholds DEF Unbroken
  <2>3. Begins(s, n + 1)
    BY <1>2 DEF Begins
  <2> QED BY <2>1, <2>2, <2>3 DEF Verdict
<1>3. ASSUME Verdict(s, n + 1)
      PROVE  \/ Verdict(s, n)
             \/ /\ n + 1 >= OnsetFrames
                /\ \A j \in (n + 1) - OnsetFrames + 1 .. n + 1 : Voiced(s, j)
  <2>1. PICK o \in OnsetFrames .. n + 1 :
          Begins(s, o) /\ Unbroken(s, o, n + 1)
    BY <1>3 DEF Verdict
  <2>2. CASE o = n + 1
    BY Thresholds, <2>1, <2>2 DEF Begins
  <2>3. CASE o \in OnsetFrames .. n
    <3>1. \A j \in o .. n - Hangover - 1 : j \in o .. (n + 1) - Hangover - 1
      BY Thresholds
    <3>2. Unbroken(s, o, n)
      BY <2>1, <3>1 DEF Unbroken
    <3> QED BY <2>1, <2>3, <3>2 DEF Verdict
  <2> QED BY Thresholds, <2>2, <2>3
<1> QED BY <1>1, <1>2, <1>3

\* An unvoiced frame continues speech that was voiced not too long ago.
LEMMA VerdictUnvoiced ==
  ASSUME NEW s, NEW n \in Nat, ~Voiced(s, n + 1)
  PROVE  Verdict(s, n + 1) <=>
           Verdict(s, n) /\ \E k \in n - Hangover + 1 .. n : k >= 1 /\ Voiced(s, k)
<1>1. ASSUME Verdict(s, n), NEW l \in n - Hangover + 1 .. n, Voiced(s, l)
      PROVE  Verdict(s, n + 1)
  <2>1. PICK o \in OnsetFrames .. n :
          Begins(s, o) /\ Unbroken(s, o, n)
    BY <1>1 DEF Verdict
  <2>2. ASSUME NEW j \in o .. (n + 1) - Hangover - 1
        PROVE  \E k \in j + 1 .. j + Hangover + 1 : Voiced(s, k)
    <3>1. CASE j \in o .. n - Hangover - 1
      BY <2>1, <3>1 DEF Unbroken
    <3>2. CASE j = n - Hangover
      <4>1. l \in j + 1 .. j + Hangover + 1
        BY Thresholds, <3>2
      <4> QED BY <1>1, <4>1
    <3> QED BY Thresholds, <3>1, <3>2
  <2>3. o \in OnsetFrames .. n + 1
    BY Thresholds
  <2>4. Unbroken(s, o, n + 1)
    BY <2>2 DEF Unbroken
  <2> QED BY <2>1, <2>3, <2>4 DEF Verdict
<1>2. ASSUME Verdict(s, n + 1)
      PROVE  Verdict(s, n) /\ \E k \in n - Hangover + 1 .. n : k >= 1 /\ Voiced(s, k)
  <2>1. PICK o \in OnsetFrames .. n + 1 :
          Begins(s, o) /\ Unbroken(s, o, n + 1)
    BY <1>2 DEF Verdict
  <2>2. Voiced(s, o) /\ o \in OnsetFrames .. n
    <3>1. o \in o - OnsetFrames + 1 .. o
      BY Thresholds
    <3>2. Voiced(s, o)
      BY <2>1, <3>1 DEF Begins
    <3>3. o # n + 1
      BY <3>2
    <3> QED BY Thresholds, <3>2, <3>3
  <2>3. Verdict(s, n)
    <3>1. \A j \in o .. n - Hangover - 1 : j \in o .. (n + 1) - Hangover - 1
      BY Thresholds
    <3>2. Unbroken(s, o, n)
      BY <2>1, <3>1 DEF Unbroken
    <3> QED BY <2>1, <2>2, <3>2 DEF Verdict
  <2>4. CASE o >= n - Hangover + 1
    <3>1. o \in n - Hangover + 1 .. n /\ o >= 1
      BY Thresholds, <2>2, <2>4
    <3> QED BY <2>2, <2>3, <3>1
  <2>5. CASE o < n - Hangover + 1
    <3>1. n - Hangover \in o .. (n + 1) - Hangover - 1
      BY Thresholds, <2>5
    <3>2. PICK k \in n - Hangover + 1 .. n - Hangover + Hangover + 1 : Voiced(s, k)
      BY <2>1, <3>1 DEF Unbroken
    <3>3. k # n + 1
      BY <3>2
    <3>4. k \in n - Hangover + 1 .. n /\ k >= 1
      BY Thresholds, <2>5, <3>2, <3>3
    <3> QED BY <2>3, <3>2, <3>4
  <2> QED BY Thresholds, <2>4, <2>5
<1> QED BY <1>1, <1>2

LEMMA FitsNext ==
  ASSUME NEW s, NEW n \in Nat, NEW v \in VadType, Fits(s, n, v)
  PROVE  LET label == Advance(v, Voiced(s, n + 1))
         IN /\ Fits(s, n + 1, label.vad)
            /\ label.speech <=> Verdict(s, n + 1)
            /\ label.retro = IF Onset(s, n + 1) THEN (IF n <= Prefill THEN n ELSE Prefill) ELSE 0
<1> DEFINE voiced == Voiced(s, n + 1)
           label  == Advance(v, voiced)
           a      == label.vad
<1>0. voiced \in BOOLEAN
  BY DEF Voiced
<1>1. /\ v.buffered \in 0 .. Prefill + 1 /\ v.onset \in 0 .. OnsetFrames - 1
      /\ v.hang \in 0 .. Hangover /\ v.inSpeech \in BOOLEAN
  BY DEF VadType
<1>2. /\ a \in VadType /\ a.buffered = Min({v.buffered + 1, Prefill + 1})
      /\ label.speech \in BOOLEAN
      /\ label.speech <=>
           IF v.inSpeech THEN voiced \/ v.hang > 0 ELSE voiced /\ v.onset + 1 >= OnsetFrames
      /\ a.inSpeech = label.speech
      /\ label.speech => a.hang = IF voiced THEN Hangover ELSE v.hang - 1
      /\ a.onset = IF v.inSpeech THEN v.onset
                   ELSE IF voiced /\ v.onset + 1 < OnsetFrames THEN v.onset + 1 ELSE 0
      /\ label.retro = IF ~v.inSpeech /\ label.speech
                       THEN Min({v.buffered + 1, Prefill + 1}) - 1 ELSE 0
  <2> HIDE DEF voiced
  <2> QED BY <1>0, AdvanceFields
<1>3. /\ v.buffered = IF n <= Prefill THEN n ELSE Prefill + 1
      /\ v.inSpeech <=> Verdict(s, n)
      /\ v.inSpeech => /\ v.onset = 0 /\ n - (Hangover - v.hang) >= 1
                       /\ Voiced(s, n - (Hangover - v.hang))
                       /\ \A i \in n - (Hangover - v.hang) + 1 .. n : ~Voiced(s, i)
      /\ ~v.inSpeech => /\ v.onset <= n /\ \A i \in n - v.onset + 1 .. n : Voiced(s, i)
                        /\ v.onset < n => ~Voiced(s, n - v.onset)
  BY DEF Fits
<1>4. Min({v.buffered + 1, Prefill + 1}) = IF n <= Prefill THEN n + 1 ELSE Prefill + 1
  <2>1. Min({v.buffered + 1, Prefill + 1}) =
          IF v.buffered + 1 <= Prefill + 1 THEN v.buffered + 1 ELSE Prefill + 1
    BY Thresholds, <1>1, MinOfTwo
  <2> QED BY Thresholds, <1>1, <1>3, <2>1
<1>5. a.buffered = IF n + 1 <= Prefill THEN n + 1 ELSE Prefill + 1
  BY Thresholds, <1>2, <1>4
<1> HIDE DEF label
\* Fits, but for the count of frames.
<1> DEFINE Within  == /\ a.onset = 0 /\ (n + 1) - (Hangover - a.hang) >= 1
                      /\ Voiced(s, (n + 1) - (Hangover - a.hang))
                      /\ \A i \in (n + 1) - (Hangover - a.hang) + 1 .. n + 1 : ~Voiced(s, i)
           Outside == /\ a.onset <= n + 1
                      /\ \A i \in (n + 1) - a.onset + 1 .. n + 1 : Voiced(s, i)
                      /\ a.onset < n + 1 => ~Voiced(s, (n + 1) - a.onset)
           Rest    == \/ label.speech /\ Verdict(s, n + 1) /\ Within
                      \/ ~label.speech /\ ~Verdict(s, n + 1) /\ Outside
<1>6. ASSUME v.inSpeech /\ voiced PROVE Rest
  <2>1. label.speech /\ a.hang = Hangover /\ a.onset = 0
    BY <1>2, <1>3, <1>6
  <2>2. Verdict(s, n + 1)
    BY <1>3, <1>6, VerdictVoiced
  <2>3. (n + 1) - (Hangover - a.hang) = n + 1 /\ n + 1 + 1 .. n + 1 = {}
    BY Thresholds, <2>1
  <2>6. Within
    BY <1>6, <2>1, <2>3
  <2> QED BY <2>1, <2>2, <2>6
<1>7. ASSUME v.inSpeech /\ ~voiced /\ v.hang > 0 PROVE Rest
  <2>1. label.speech /\ a.hang = v.hang - 1 /\ a.onset = 0
    BY <1>2, <1>3, <1>7
  <2>2. n - (Hangover - v.hang) \in n - Hangover + 1 .. n /\ n - (Hangover - v.hang) >= 1
    BY Thresholds, <1>1, <1>3, <1>7
  <2>3. Verdict(s, n + 1)
    BY <1>3, <1>7, <2>2, VerdictUnvoiced
  <2>4. (n + 1) - (Hangover - a.hang) = n - (Hangover - v.hang)
    BY Thresholds, <1>1, <2>1
  <2>5. \A i \in n - (Hangover - v.hang) + 1 .. n + 1 : ~Voiced(s, i)
    <3>1. \A i \in n - (Hangover - v.hang) + 1 .. n + 1 :
            i \in n - (Hangover - v.hang) + 1 .. n \/ i = n + 1
      BY Thresholds, <1>1
    <3> QED BY <1>3, <1>7, <3>1
  <2>6. Within
    BY <1>3, <1>7, <2>1, <2>2, <2>4, <2>5
  <2> QED BY <2>1, <2>3, <2>6
<1>8. ASSUME v.inSpeech /\ ~voiced /\ v.hang = 0 PROVE Rest
  <2>1. ~label.speech /\ a.onset = 0
    BY <1>2, <1>3, <1>8
  <2>2. n - (Hangover - v.hang) = n - Hangover
    BY Thresholds, <1>8
  <2>3. ~Verdict(s, n + 1)
    BY <1>3, <1>8, <2>2, VerdictUnvoiced
  <2>4. (n + 1) - a.onset = n + 1 /\ n + 1 + 1 .. n + 1 = {} /\ 0 <= n + 1
    BY <2>1
  <2>6. Outside
    BY <1>8, <2>1, <2>4
  <2> QED BY <2>1, <2>3, <2>6
<1>9. ASSUME ~v.inSpeech /\ voiced /\ v.onset + 1 >= OnsetFrames PROVE Rest
  <2>1. label.speech /\ a.hang = Hangover /\ a.onset = 0
    BY Thresholds, <1>1, <1>2, <1>9
  <2>2. v.onset + 1 = OnsetFrames /\ n + 1 >= OnsetFrames
    BY Thresholds, <1>1, <1>3, <1>9
  <2>3. ASSUME NEW j \in (n + 1) - OnsetFrames + 1 .. n + 1 PROVE Voiced(s, j)
    <3>1. j \in n - v.onset + 1 .. n \/ j = n + 1
      BY Thresholds, <1>1, <2>2
    <3> QED BY <1>3, <1>9, <3>1
  <2>4. Verdict(s, n + 1)
    BY <1>9, <2>2, <2>3, VerdictVoiced
  <2>5. (n + 1) - (Hangover - a.hang) = n + 1 /\ n + 1 + 1 .. n + 1 = {}
    BY Thresholds, <2>1
  <2>6. Within
    BY <1>9, <2>1, <2>5
  <2> QED BY <2>1, <2>4, <2>6
<1>10. ASSUME ~v.inSpeech /\ voiced /\ v.onset + 1 < OnsetFrames PROVE Rest
  <2>1. ~label.speech /\ a.onset = v.onset + 1
    BY Thresholds, <1>1, <1>2, <1>10
  <2>2. ~(n + 1 >= OnsetFrames /\ \A j \in (n + 1) - OnsetFrames + 1 .. n + 1 : Voiced(s, j))
    <3>1. CASE v.onset < n
      <4>1. n - v.onset \in (n + 1) - OnsetFrames + 1 .. n + 1
        BY Thresholds, <1>1, <1>10, <3>1
      <4> QED BY <1>3, <1>10, <3>1, <4>1
    <3>2. CASE v.onset >= n
      BY Thresholds, <1>1, <1>3, <1>10, <3>2
    <3> QED BY <1>1, <3>1, <3>2
  <2>3. ~Verdict(s, n + 1)
    BY <1>3, <1>10, <2>2, VerdictVoiced
  <2>4. (n + 1) - a.onset = n - v.onset /\ a.onset <= n + 1 /\ (a.onset < n + 1 => v.onset < n)
    BY <1>1, <1>3, <1>10, <2>1
  <2>5. ASSUME NEW i \in (n + 1) - a.onset + 1 .. n + 1 PROVE Voiced(s, i)
    <3>1. i \in n - v.onset + 1 .. n \/ i = n + 1
      BY <1>1, <2>4
    <3> QED BY <1>3, <1>10, <3>1
  <2>6. Outside
    BY <1>3, <1>10, <2>1, <2>4, <2>5
  <2> QED BY <2>1, <2>3, <2>6
<1>11. ASSUME ~v.inSpeech /\ ~voiced PROVE Rest
  <2>1. ~label.speech /\ a.onset = 0
    BY <1>2, <1>11
  <2>2. ~Verdict(s, n + 1)
    BY <1>3, <1>11, VerdictUnvoiced
  <2>3. (n + 1) - a.onset = n + 1 /\ n + 1 + 1 .. n + 1 = {} /\ 0 <= n + 1
    BY <2>1
  <2>6. Outside
    BY <1>11, <2>1, <2>3
  <2> QED BY <2>1, <2>2, <2>6
<1>12. Rest
  <2>1. \/ v.inSpeech /\ voiced
        \/ v.inSpeech /\ ~voiced /\ v.hang > 0
        \/ v.inSpeech /\ ~voiced /\ v.hang = 0
        \/ ~v.inSpeech /\ voiced /\ v.onset + 1 >= OnsetFrames
        \/ ~v.inSpeech /\ voiced /\ v.onset + 1 < OnsetFrames
        \/ ~v.inSpeech /\ ~voiced
    BY Thresholds, <1>1
  <2> HIDE DEF Rest, voiced
  <2> QED BY <1>6, <1>7, <1>8, <1>9, <1>10, <1>11, <2>1
<1>13. Fits(s, n + 1, a)
  <2>1. a.inSpeech = label.speech
    BY <1>2
  <2> QED BY <1>5, <1>12, <2>1 DEF Fits
<1>14. label.retro = IF Onset(s, n + 1) THEN (IF n <= Prefill THEN n ELSE Prefill) ELSE 0
  <2>1. Onset(s, n + 1) <=> label.speech /\ ~v.inSpeech
    <3>1. (n + 1) - 1 = n
      OBVIOUS
    <3> QED BY <1>3, <1>12, <3>1 DEF Onset
  <2>2. CASE label.speech /\ ~v.inSpeech
    BY Thresholds, <1>2, <1>4, <2>1, <2>2
  <2>3. CASE ~(label.speech /\ ~v.inSpeech)
    BY <1>2, <2>1, <2>3
  <2> QED BY <2>2, <2>3
<1> QED BY <1>12, <1>13, <1>14 DEF label


\* Frames that come later change nothing of what earlier ones showed.
LEMMA VerdictLocal ==
  ASSUME NEW s, NEW t, NEW n \in Nat, \A i \in 1 .. n : s[i] = t[i], NEW i \in 0 .. n
  PROVE  Verdict(s, i) <=> Verdict(t, i)
<1>1. \A j \in 1 .. n : Voiced(s, j) <=> Voiced(t, j)
  BY DEF Voiced
<1>2. ASSUME NEW o \in OnsetFrames .. i PROVE Begins(s, o) <=> Begins(t, o)
  <2>1. \A j \in o - OnsetFrames + 1 .. o : j \in 1 .. n
    BY Thresholds
  <2> QED BY <1>1, <2>1 DEF Begins
<1>3. ASSUME NEW o \in OnsetFrames .. i PROVE Unbroken(s, o, i) <=> Unbroken(t, o, i)
  <2>1. \A j \in o .. i - Hangover - 1 : \A k \in j + 1 .. j + Hangover + 1 : k \in 1 .. n
    BY Thresholds
  <2> QED BY <1>1, <2>1 DEF Unbroken
<1> QED BY <1>2, <1>3 DEF Verdict

LEMMA FitsLocal ==
  ASSUME NEW s, NEW t, NEW n \in Nat, \A i \in 1 .. n : s[i] = t[i], NEW v \in VadType,
         Fits(s, n, v)
  PROVE  Fits(t, n, v)
<1>1. \A j \in 1 .. n : Voiced(s, j) <=> Voiced(t, j)
  BY DEF Voiced
<1>2. Verdict(s, n) <=> Verdict(t, n)
  BY VerdictLocal
<1>3. v.hang \in 0 .. Hangover /\ v.onset \in Nat
  BY Thresholds DEF VadType
<1>4. v.inSpeech => /\ v.onset = 0 /\ n - (Hangover - v.hang) >= 1
                    /\ Voiced(t, n - (Hangover - v.hang))
                    /\ \A i \in n - (Hangover - v.hang) + 1 .. n : ~Voiced(t, i)
  <2>1. SUFFICES ASSUME v.inSpeech
                 PROVE  /\ v.onset = 0 /\ n - (Hangover - v.hang) >= 1
                        /\ Voiced(t, n - (Hangover - v.hang))
                        /\ \A i \in n - (Hangover - v.hang) + 1 .. n : ~Voiced(t, i)
    OBVIOUS
  <2>2. /\ v.onset = 0 /\ n - (Hangover - v.hang) >= 1
        /\ Voiced(s, n - (Hangover - v.hang))
        /\ \A i \in n - (Hangover - v.hang) + 1 .. n : ~Voiced(s, i)
    BY <2>1 DEF Fits
  <2>3. n - (Hangover - v.hang) \in 1 .. n
        /\ \A i \in n - (Hangover - v.hang) + 1 .. n : i \in 1 .. n
    BY Thresholds, <1>3, <2>2
  <2> QED BY <1>1, <2>2, <2>3
<1>5. ~v.inSpeech => /\ v.onset <= n /\ \A i \in n - v.onset + 1 .. n : Voiced(t, i)
                     /\ v.onset < n => ~Voiced(t, n - v.onset)
  <2>1. SUFFICES ASSUME ~v.inSpeech
                 PROVE  /\ v.onset <= n /\ \A i \in n - v.onset + 1 .. n : Voiced(t, i)
                        /\ v.onset < n => ~Voiced(t, n - v.onset)
    OBVIOUS
  <2>2. /\ v.onset <= n /\ \A i \in n - v.onset + 1 .. n : Voiced(s, i)
        /\ v.onset < n => ~Voiced(s, n - v.onset)
    BY <2>1 DEF Fits
  <2>3. (v.onset < n => n - v.onset \in 1 .. n) /\ \A i \in n - v.onset + 1 .. n : i \in 1 .. n
    BY <1>3, <2>2
  <2> QED BY <1>1, <2>2, <2>3
<1>6. v.buffered = IF n <= Prefill THEN n ELSE Prefill + 1
  BY DEF Fits
<1>7. v.inSpeech <=> Verdict(t, n)
  BY <1>2 DEF Fits
<1> QED BY <1>4, <1>5, <1>6, <1>7 DEF Fits

LEMMA MaskedLocal ==
  ASSUME NEW s, NEW t, NEW n \in Nat, \A i \in 1 .. n : s[i] = t[i], NEW c \in 0 .. n, NEW mask,
         Masked(s, n, c, mask)
  PROVE  Masked(t, n, c, mask)
<1>1. \A i \in 0 .. n : Verdict(s, i) <=> Verdict(t, i)
  BY VerdictLocal
<1>2. \A i \in 1 .. n : Onset(s, i) <=> Onset(t, i)
  BY <1>1 DEF Onset
<1>3. ASSUME NEW i \in 1 .. n PROVE Speech(s, n, i) <=> Speech(t, n, i)
  <2>1. \A o \in i + 1 .. n : o \in 1 .. n
    OBVIOUS
  <2> QED BY <1>1, <1>2, <2>1 DEF Speech
<1>4. \A i \in 1 .. n - c : i + c \in 1 .. n
  OBVIOUS
<1> QED BY <1>3, <1>4 DEF Masked

\* What one frame does to the mask and the signal.
LEMMA StepFields ==
  ASSUME NEW h \in HearingType, NEW sound, NEW live \in BOOLEAN
  PROVE  LET label == Advance(h.vad, sound # "silence")
             next  == Step(h, sound, live)
         IN /\ next \in HearingType /\ Len(next.mask) = Len(h.mask) + 1
            /\ next.vad = label.vad /\ next.speech = label.speech
            /\ \A i \in 1 .. Len(h.mask) :
                 next.mask[i] <=> h.mask[i] \/ i > Len(h.mask) - label.retro
            /\ next.mask[Len(h.mask) + 1] = label.speech
            /\ h.seen => next.seen
            /\ live /\ label.speech /\ sound = "loud" => next.seen
<1> DEFINE label == Advance(h.vad, sound # "silence")
           next  == Step(h, sound, live)
           k     == Kept(h, sound)
<1>1. label.vad \in VadType /\ label.speech \in BOOLEAN /\ label.retro \in 0 .. Prefill
  BY AdvanceTypes DEF HearingType
<1>2. next \in HearingType /\ Len(next.mask) = Len(h.mask) + 1
  BY StepTypes
<1>3. Len(h.mask) \in Nat /\ h.mask \in Seq(BOOLEAN) /\ h.seen \in BOOLEAN
  BY DEF HearingType
<1> HIDE DEF label
<1> DEFINE flipped == [i \in 1 .. Len(h.mask) |-> h.mask[i] \/ i > Len(h.mask) - label.retro]
<1>4. Marked(h.mask, label) = Append(flipped, label.speech)
  BY DEF Marked
<1>5. flipped \in Seq(BOOLEAN) /\ Len(flipped) = Len(h.mask)
      /\ \A i \in 1 .. Len(h.mask) : flipped[i] <=> h.mask[i] \/ i > Len(h.mask) - label.retro
  <2>1. flipped \in [1 .. Len(h.mask) -> BOOLEAN]
    OBVIOUS
  <2>2. \A i \in 1 .. Len(h.mask) : flipped[i] <=> h.mask[i] \/ i > Len(h.mask) - label.retro
    OBVIOUS
  <2> HIDE DEF flipped
  <2> QED BY <1>3, <2>1, <2>2
<1> HIDE DEF flipped
<1>6. k = [h EXCEPT !.mask = Marked(h.mask, label), !.vad = label.vad, !.speech = label.speech]
  BY DEF Kept, label
<1>7. /\ k.mask = Append(flipped, label.speech) /\ k.vad = label.vad /\ k.speech = label.speech
      /\ k.seen = h.seen /\ k.speaking = h.speaking /\ k \in HearingType
  BY <1>4, <1>6, KeptTypes DEF HearingType
<1> HIDE DEF k
<1>8. /\ next.mask = k.mask /\ next.vad = k.vad /\ next.speech = k.speech
      /\ next.seen <=> k.seen \/ (live /\ k.speech /\ (k.speaking \/ sound = "loud"))
  <2>1. CASE ~live
    BY <1>2, <1>7, <2>1 DEF Step, k
  <2>2. CASE live
    <3> DEFINE speaks == k.speech /\ (h.speaking \/ sound = "loud")
    <3>1. next = [k EXCEPT !.speaking = speaks, !.seen = k.seen \/ speaks]
      BY <2>2 DEF Step, Signalled, k
    <3> HIDE DEF speaks
    <3>2. /\ next.mask = k.mask /\ next.vad = k.vad /\ next.speech = k.speech
          /\ next.seen = (k.seen \/ speaks)
      BY <1>7, <3>1 DEF HearingType
    <3>3. speaks <=> live /\ k.speech /\ (k.speaking \/ sound = "loud")
      BY <1>7, <2>2 DEF speaks
    <3> QED BY <3>2, <3>3, Zenon
  <2> QED BY <2>1, <2>2
<1>9. \A i \in 1 .. Len(h.mask) : next.mask[i] = flipped[i]
  BY <1>1, <1>3, <1>5, <1>7, <1>8, AppendProperties
<1>10. next.mask[Len(h.mask) + 1] = label.speech
  BY <1>1, <1>5, <1>7, <1>8, AppendProperties
<1>11. next.vad = label.vad /\ next.speech = label.speech
  BY <1>7, <1>8
<1>12. (h.seen => next.seen) /\ (live /\ label.speech /\ sound = "loud" => next.seen)
  BY <1>7, <1>8, Zenon
<1>13. \A i \in 1 .. Len(h.mask) : next.mask[i] <=> h.mask[i] \/ i > Len(h.mask) - label.retro
  BY <1>5, <1>9
<1> HIDE DEF next
<1> QED BY <1>2, <1>10, <1>11, <1>12, <1>13 DEF label, next


\* A frame's own label, and the flips of an onset, are what one more frame shows.
LEMMA MaskedNext ==
  ASSUME NEW s, NEW n \in Nat, NEW c \in 0 .. n, NEW h \in HearingType,
         Fits(s, n, h.vad), Masked(s, n, c, h.mask), NEW sound, sound = s[n + 1],
         NEW live \in BOOLEAN
  PROVE  LET next == Step(h, sound, live)
         IN /\ next \in HearingType /\ Fits(s, n + 1, next.vad)
            /\ Masked(s, n + 1, c, next.mask)
            /\ next.speech <=> Verdict(s, n + 1)
            /\ h.seen => next.seen
            /\ live /\ Verdict(s, n + 1) /\ sound = "loud" => next.seen
<1> DEFINE label == Advance(h.vad, sound # "silence")
           next  == Step(h, sound, live)
<1>1. /\ next \in HearingType /\ Len(next.mask) = Len(h.mask) + 1
      /\ next.vad = label.vad /\ next.speech = label.speech
      /\ \A i \in 1 .. Len(h.mask) : next.mask[i] <=> h.mask[i] \/ i > Len(h.mask) - label.retro
      /\ next.mask[Len(h.mask) + 1] = label.speech
      /\ h.seen => next.seen
      /\ live /\ label.speech /\ sound = "loud" => next.seen
  BY StepFields
<1>2. /\ Fits(s, n + 1, label.vad)
      /\ label.speech <=> Verdict(s, n + 1)
      /\ label.retro = IF Onset(s, n + 1) THEN (IF n <= Prefill THEN n ELSE Prefill) ELSE 0
  <2>1. label = Advance(h.vad, Voiced(s, n + 1))
    BY DEF Voiced
  <2>2. h.vad \in VadType
    BY DEF HearingType
  <2> HIDE DEF label
  <2> QED BY <2>1, <2>2, FitsNext
<1> HIDE DEF label, next
<1>3. Len(h.mask) = n - c /\ \A i \in 1 .. n - c : h.mask[i] <=> Speech(s, n, i + c)
  BY DEF Masked
<1>4. ASSUME NEW i \in 1 .. n - c PROVE next.mask[i] <=> Speech(s, n + 1, i + c)
  <2> DEFINE j == i + c
  <2>1. j \in 1 .. n /\ i = j - c
    OBVIOUS
  <2>2. i > n - c - label.retro <=> Onset(s, n + 1) /\ n + 1 <= j + Prefill
    <3>1. CASE Onset(s, n + 1)
      <4>1. label.retro = IF n <= Prefill THEN n ELSE Prefill
        BY <1>2, <3>1
      <4>2. i > n - c - label.retro <=> n + 1 <= j + Prefill
        BY Thresholds, <2>1, <4>1
      <4> QED BY <3>1, <4>2
    <3>2. CASE ~Onset(s, n + 1)
      <4>1. label.retro = 0
        BY <1>2, <3>2
      <4>2. ~(i > n - c - label.retro)
        BY <4>1
      <4> QED BY <3>2, <4>2
    <3> QED BY <3>1, <3>2
  <2> HIDE DEF j
  <2>3. Speech(s, n + 1, j) <=> Speech(s, n, j) \/ (Onset(s, n + 1) /\ n + 1 <= j + Prefill)
    <3>1. \A o : o \in j + 1 .. n + 1 <=> o \in j + 1 .. n \/ o = n + 1
      BY <2>1
    <3> QED BY <3>1 DEF Speech
  <2>4. h.mask[i] <=> Speech(s, n, j)
    BY <1>3 DEF j
  <2>5. next.mask[i] <=> h.mask[i] \/ i > n - c - label.retro
    BY <1>1, <1>3
  <2>6. next.mask[i] <=> Speech(s, n + 1, j)
    BY <2>2, <2>3, <2>4, <2>5
  <2> QED BY <2>6 DEF j
<1>5. next.mask[n - c + 1] <=> Speech(s, n + 1, n + 1)
  <2>1. n + 1 + 1 .. n + 1 = {}
    OBVIOUS
  <2>2. Speech(s, n + 1, n + 1) <=> Verdict(s, n + 1)
    BY <2>1 DEF Speech
  <2>3. next.mask[n - c + 1] = label.speech
    BY <1>1, <1>3
  <2> QED BY <1>2, <2>2, <2>3
<1>6. Masked(s, n + 1, c, next.mask)
  <2>1. Len(next.mask) = n + 1 - c
    BY <1>1, <1>3
  <2>2. ASSUME NEW i \in 1 .. n + 1 - c PROVE next.mask[i] <=> Speech(s, n + 1, i + c)
    <3>1. CASE i \in 1 .. n - c
      BY <1>4, <3>1
    <3>2. CASE i = n - c + 1
      <4>1. i + c = n + 1
        BY <3>2
      <4> QED BY <1>5, <3>2, <4>1
    <3> QED BY <3>1, <3>2
  <2> QED BY <2>1, <2>2 DEF Masked
<1> QED BY <1>1, <1>2, <1>6 DEF next

\* Loud speech after frame n.
LoudAfter(s, n, m) == \E i \in n + 1 .. m : Verdict(s, i) /\ s[i] = "loud"

\* Where l more frames of s lead from frame n.
Leads(s, n, l, c, live, h, end) ==
  /\ end \in HearingType /\ Fits(s, n + l, end.vad) /\ Masked(s, n + l, c, end.mask)
  /\ l > 0 => (end.speech <=> Verdict(s, n + l))
  /\ h.seen = TRUE => end.seen = TRUE
  /\ live = TRUE /\ LoudAfter(s, n, n + l) => end.seen = TRUE

\* Frame after frame: from frame n of s on, sounds is the rest of s.
LEMMA RunFits ==
  ASSUME NEW s, NEW n \in Nat, NEW c \in 0 .. n, NEW h \in HearingType,
         Fits(s, n, h.vad), Masked(s, n, c, h.mask), NEW sounds \in Seq(Sounds),
         \A i \in 1 .. Len(sounds) : s[n + i] = sounds[i], NEW live \in BOOLEAN,
         NEW end, end = Hears(h, sounds, live), NEW l, l = Len(sounds)
  PROVE  Leads(s, n, l, c, live, h, end)
<1> DEFINE r == Run(h, sounds, live)
           Good(i) == /\ r[i] \in HearingType /\ Fits(s, n + i, r[i].vad)
                      /\ Masked(s, n + i, c, r[i].mask)
                      /\ i > 0 => (r[i].speech <=> Verdict(s, n + i))
                      /\ h.seen => r[i].seen
                      /\ \A j \in 1 .. i :
                           live /\ Verdict(s, n + j) /\ sounds[j] = "loud" => r[i].seen
           S == {i \in 0 .. l : Good(i)}
<1>1. r[0] = h /\ \A i \in 1 .. l : r[i] = Step(r[i - 1], sounds[i], live)
  BY RunStarts
<1>2. l \in Nat
  OBVIOUS
<1> HIDE DEF r
<1>3. 0 \in S
  <2>1. n + 0 = n
    OBVIOUS
  <2> QED BY <1>1, <1>2, <2>1
<1>4. ASSUME NEW i \in 0 .. l - 1, i \in S PROVE i + 1 \in S
  <2>1. i + 1 \in 1 .. l /\ i + 1 - 1 = i /\ n + i \in Nat /\ c \in 0 .. n + i
        /\ n + i + 1 = n + (i + 1)
    BY <1>2
  <2>2. Good(i)
    BY <1>4
  <2>3. r[i + 1] = Step(r[i], sounds[i + 1], live)
    BY <1>1, <2>1
  <2>4. sounds[i + 1] = s[n + i + 1]
    BY <2>1
  <2> DEFINE next == Step(r[i], sounds[i + 1], live)
  <2>5. /\ next \in HearingType /\ Fits(s, n + i + 1, next.vad)
        /\ Masked(s, n + i + 1, c, next.mask)
        /\ next.speech <=> Verdict(s, n + i + 1)
        /\ r[i].seen => next.seen
        /\ live /\ Verdict(s, n + i + 1) /\ sounds[i + 1] = "loud" => next.seen
    BY <2>1, <2>2, <2>4, MaskedNext
  <2> HIDE DEF next
  <2>6. r[i + 1] = next
    BY <2>3 DEF next
  <2>7. \A j \in 1 .. i + 1 : j \in 1 .. i \/ j = i + 1
    OBVIOUS
  <2>8. ASSUME NEW j \in 1 .. i + 1, live, Verdict(s, n + j), sounds[j] = "loud" PROVE next.seen
    <3>1. CASE j \in 1 .. i
      BY <2>2, <2>5, <2>8, <3>1
    <3>2. CASE j = i + 1
      BY <2>1, <2>5, <2>8, <3>2
    <3> QED BY <2>7, <3>1, <3>2
  <2>9. /\ next \in HearingType /\ Fits(s, n + (i + 1), next.vad)
        /\ Masked(s, n + (i + 1), c, next.mask)
        /\ next.speech <=> Verdict(s, n + (i + 1))
    BY <2>1, <2>5
  <2>10. h.seen => next.seen
    BY <2>2, <2>5
  <2>11. Good(i + 1)
    BY <2>6, <2>8, <2>9, <2>10
  <2> QED BY <2>1, <2>11
<1>5. l \in S
  <2> HIDE DEF S
  <2>1. 0 .. l \subseteq S
    BY <1>2, <1>3, <1>4, InductTo
  <2> QED BY <1>2, <2>1
<1>6. end = r[l]
  BY RunIsHears DEF r
<1>7. Good(l)
  BY <1>5
<1>8. /\ end \in HearingType /\ Fits(s, n + l, end.vad) /\ Masked(s, n + l, c, end.mask)
      /\ l > 0 => (end.speech <=> Verdict(s, n + l))
  BY <1>6, <1>7, Zenon DEF Good
<1>9. end.seen \in BOOLEAN /\ h.seen \in BOOLEAN
  BY <1>8 DEF HearingType
<1>10. h.seen = TRUE => end.seen = TRUE
  BY <1>6, <1>7, <1>9, Zenon DEF Good
<1>11. ASSUME live = TRUE, NEW j \in n + 1 .. n + l, Verdict(s, j), s[j] = "loud"
       PROVE  end.seen = TRUE
  <2> DEFINE i == j - n
  <2>1. i \in 1 .. l /\ n + i = j
    BY <1>2
  <2> HIDE DEF i
  <2>2. sounds[i] = "loud"
    BY <1>11, <2>1
  <2>3. live /\ Verdict(s, n + i) /\ sounds[i] = "loud" => r[l].seen
    BY <1>7, <2>1 DEF Good
  <2> QED BY <1>6, <1>9, <1>11, <2>1, <2>2, <2>3
<1> QED BY <1>8, <1>10, <1>11 DEF LoudAfter, Leads

\* What the automaton says is what SpeechOf says of all the sounds.
LEMMA SpeechIs ==
  ASSUME NEW s \in Seq(Sounds)
  PROVE  /\ SpeechOf(s) \in Seq(BOOLEAN) /\ Len(SpeechOf(s)) = Len(s)
         /\ \A i \in 1 .. Len(s) : SpeechOf(s)[i] <=> Speech(s, Len(s), i)
<1> DEFINE voiced(i) == s[i] # "silence"
           verdict(i) == \E o \in OnsetFrames .. i :
                           /\ \A j \in o - OnsetFrames + 1 .. o : voiced(j)
                           /\ \A j \in o .. i - Hangover - 1 :
                                \E k \in j + 1 .. j + Hangover + 1 : voiced(k)
           onset(i) == verdict(i) /\ (i > 1 => ~verdict(i - 1))
           said(i) == verdict(i) \/ \E o \in i + 1 .. Min({i + Prefill, Len(s)}) : onset(o)
<1>1. SpeechOf(s) = [i \in 1 .. Len(s) |-> said(i)]
  BY DEF SpeechOf
<1>2. \A i : verdict(i) <=> Verdict(s, i)
  BY DEF Verdict, Begins, Unbroken, Voiced
<1> HIDE DEF verdict
<1>3. ASSUME NEW i \in 1 .. Len(s) PROVE said(i) <=> Speech(s, Len(s), i)
  <2>1. Min({i + Prefill, Len(s)}) = IF i + Prefill <= Len(s) THEN i + Prefill ELSE Len(s)
    BY Thresholds, MinOfTwo
  <2>2. \A o : o \in i + 1 .. Min({i + Prefill, Len(s)}) <=>
                 o \in i + 1 .. Len(s) /\ o <= i + Prefill
    BY Thresholds, <2>1
  <2>3. \A o \in i + 1 .. Len(s) : onset(o) <=> Onset(s, o)
    BY <1>2 DEF Onset
  <2> HIDE DEF onset
  <2> QED BY <1>2, <2>2, <2>3 DEF Speech
<1>4. \A i \in 1 .. Len(s) : said(i) \in BOOLEAN
  OBVIOUS
<1> HIDE DEF said
<1>5. SpeechOf(s) \in [1 .. Len(s) -> BOOLEAN]
  BY <1>1, <1>4
<1>6. SpeechOf(s) \in Seq(BOOLEAN) /\ Len(SpeechOf(s)) = Len(s)
  BY <1>5
<1>7. \A i \in 1 .. Len(s) : SpeechOf(s)[i] = said(i)
  BY <1>1
<1> QED BY <1>3, <1>6, <1>7

LEMMA MaskIs ==
  ASSUME NEW s \in Seq(Sounds), NEW mask \in Seq(BOOLEAN), NEW c \in 0 .. Len(s),
         Masked(s, Len(s), c, mask)
  PROVE  mask = SubSeq(SpeechOf(s), c + 1, Len(s))
<1> DEFINE sp == SpeechOf(s)
           n  == Len(s)
           t  == SubSeq(sp, c + 1, n)
<1>1. n \in Nat /\ c \in 0 .. n
  OBVIOUS
<1>2. sp \in Seq(BOOLEAN) /\ Len(sp) = n /\ \A i \in 1 .. n : sp[i] <=> Speech(s, n, i)
  BY SpeechIs
<1> HIDE DEF sp, n
<1>3. /\ t \in Seq(BOOLEAN) /\ Len(t) = n - c
      /\ \A i \in 1 .. n - c : t[i] = sp[i + c]
  <2>1. c + 1 \in 1 .. n + 1 /\ n \in c .. n
    BY <1>1
  <2>2. t \in Seq(BOOLEAN) /\ Len(t) = n - (c + 1) + 1
        /\ \A i \in 1 .. n - (c + 1) + 1 : t[i] = sp[c + 1 + i - 1]
    BY <1>1, <1>2, <2>1
  <2>3. \A i \in 1 .. n - c : c + 1 + i - 1 = i + c
    BY <1>1
  <2>4. n - (c + 1) + 1 = n - c
    BY <1>1
  <2> QED BY <2>2, <2>3, <2>4
<1> HIDE DEF t
<1>4. Len(mask) = n - c /\ \A i \in 1 .. n - c : mask[i] <=> Speech(s, n, i + c)
  BY DEF Masked, n
<1>5. ASSUME NEW i \in 1 .. n - c PROVE mask[i] = t[i]
  <2>1. i + c \in 1 .. n
    BY <1>1
  <2>2. mask[i] \in BOOLEAN /\ t[i] \in BOOLEAN
    BY <1>3, <1>4, ElementOfSeq
  <2>3. mask[i] <=> t[i]
    BY <1>2, <1>3, <1>4, <2>1
  <2> QED BY <2>2, <2>3
<1>6. mask = t
  BY <1>3, <1>4, <1>5, SeqEqual
<1> QED BY <1>6 DEF t, n, sp


Loud(s, e) == e >= OnsetFrames /\ \A i \in e - OnsetFrames + 1 .. e : s[i] = "loud"
\* The detector fits the sounds of the take, and so does the mask.
Fitted == /\ take.cut \in 0 .. Len(take.heard)
          /\ Fits(take.heard, Len(take.heard), vad)
          /\ Masked(take.heard, Len(take.heard), take.cut, take.mask)
Detected == recording => Fitted
\* Loud speech since the replay of the ring has been signalled.
Alerted ==
  recording /\ worker.at = "recv" /\ Starts(Inbox) = 0 =>
    \A e \in 1 .. Len(take.heard) : e >= take.seeded /\ Loud(take.heard, e) => seen

LEMMA LoudIsSpeech ==
  ASSUME NEW s, NEW e \in Nat, Loud(s, e)
  PROVE  Verdict(s, e) /\ s[e] = "loud"
<1>1. e \in OnsetFrames .. e /\ e \in e - OnsetFrames + 1 .. e
  BY Thresholds DEF Loud
<1>2. Begins(s, e)
  BY DEF Loud, Begins, Voiced
<1>3. Unbroken(s, e, e)
  BY Thresholds DEF Unbroken
<1> QED BY <1>1, <1>2, <1>3 DEF Verdict, Loud

LEMMA HeardFits ==
  ASSUME AudioType, Fitted, NEW fs \in Seq(Nat), NEW live \in BOOLEAN, Heard(fs, live)
  PROVE  /\ Fitted' /\ (seen = TRUE => seen' = TRUE) /\ take'.seeded = take.seeded
         /\ Len(take.heard) \in Nat /\ Len(take'.heard) \in Nat
         /\ Len(take.heard) <= Len(take'.heard)
         /\ \A i \in 1 .. Len(take.heard) : take'.heard[i] = take.heard[i]
         /\ live = TRUE /\ LoudAfter(take'.heard, Len(take.heard), Len(take'.heard)) => seen' = TRUE
<1>1. PICK sounds \in Sounding(fs) :
        LET h == Hears(Hearing, sounds, live)
        IN /\ take' = [take EXCEPT !.frames = @ \o fs, !.mask = h.mask, !.heard = @ \o sounds]
           /\ vad' = h.vad /\ speaking' = h.speaking /\ seen' = h.seen
  BY DEF Heard
<1> DEFINE h == Hears(Hearing, sounds, live)
           n == Len(take.heard)
           s == take.heard \o sounds
           l == Len(sounds)
<1>2. sounds \in Seq(Sounds) /\ l \in Nat
  BY SoundingSeq
<1>3. take \in TakeType /\ take.heard \in Seq(Sounds) /\ n \in Nat /\ vad \in VadType
  BY DEF AudioType, TakeType
<1>4. /\ Hearing \in HearingType /\ Hearing.mask = take.mask /\ Hearing.vad = vad
      /\ Hearing.seen = seen
  BY DEF Hearing, HearingType, AudioType, TakeType
<1>5. /\ take'.heard = s /\ take'.mask = h.mask /\ take'.cut = take.cut
      /\ take'.seeded = take.seeded /\ vad' = h.vad /\ seen' = h.seen
  <2> HIDE DEF h
  <2>1. take' = [take EXCEPT !.frames = take.frames \o fs, !.mask = h.mask, !.heard = s]
        /\ vad' = h.vad /\ seen' = h.seen
    BY <1>1 DEF h
  <2> HIDE DEF s
  <2> QED BY <1>3, <2>1 DEF TakeType
<1>6. /\ s \in Seq(Sounds) /\ Len(s) = n + l
      /\ \A i \in 1 .. n : s[i] = take.heard[i]
      /\ \A i \in 1 .. l : s[n + i] = sounds[i]
  <2>1. /\ s \in Seq(Sounds) /\ Len(s) = n + l
        /\ \A i \in 1 .. n + l : s[i] = IF i <= n THEN take.heard[i] ELSE sounds[i - n]
    BY <1>2, <1>3, ConcatProperties
  <2> HIDE DEF s
  <2>2. \A i \in 1 .. n : s[i] = take.heard[i]
    BY <1>2, <1>3, <2>1
  <2>3. ASSUME NEW i \in 1 .. l PROVE s[n + i] = sounds[i]
    <3>1. n + i \in 1 .. n + l /\ ~(n + i <= n) /\ (n + i) - n = i
      BY <1>2, <1>3
    <3>2. s[n + i] = IF n + i <= n THEN take.heard[n + i] ELSE sounds[(n + i) - n]
      <4> HIDE DEF n, l
      <4> QED BY <2>1, <3>1
    <3> QED BY <3>1, <3>2
  <2> QED BY <2>1, <2>2, <2>3
<1> HIDE DEF s, h, n, l
<1>7. take.cut \in 0 .. n /\ Fits(s, n, vad) /\ Masked(s, n, take.cut, take.mask)
  <2>1. Fits(take.heard, n, vad) /\ Masked(take.heard, n, take.cut, take.mask) /\ take.cut \in 0 .. n
    BY DEF Fitted, n
  <2>2. \A i \in 1 .. n : take.heard[i] = s[i]
    BY <1>6
  <2> QED BY <1>3, <2>1, <2>2, FitsLocal, MaskedLocal
<1>8. /\ Fits(s, n + l, h.vad) /\ Masked(s, n + l, take.cut, h.mask)
      /\ seen = TRUE => h.seen = TRUE
      /\ live = TRUE /\ LoudAfter(s, n, n + l) => h.seen = TRUE
  <2>1. \A i \in 1 .. Len(sounds) : s[n + i] = sounds[i]
    BY <1>6 DEF l
  <2>2. Fits(s, n, Hearing.vad) /\ Masked(s, n, take.cut, Hearing.mask)
    BY <1>4, <1>7
  <2>3. h = Hears(Hearing, sounds, live) /\ l = Len(sounds)
    BY DEF h, l
  <2> DEFINE c  == take.cut
             h0 == Hearing
  <2>4. /\ c \in 0 .. n /\ h0 \in HearingType /\ h = Hears(h0, sounds, live)
        /\ Fits(s, n, h0.vad) /\ Masked(s, n, c, h0.mask)
    BY <1>4, <1>7, <2>2, <2>3
  <2>5. h0.seen = seen
    BY <1>4
  <2> HIDE DEF c, h0
  <2>6. Leads(s, n, l, c, live, h0, h)
    BY <1>2, <1>3, <2>1, <2>3, <2>4, RunFits
  <2> QED BY <2>5, <2>6 DEF c, Leads
<1>9. Fitted'
  <2>1. Len(take'.heard) = n + l
    BY <1>5, <1>6
  <2>2. take.cut \in 0 .. n + l
    BY <1>2, <1>3, <1>7
  <2> QED BY <1>5, <1>8, <2>1, <2>2 DEF Fitted
<1>10. n <= n + l /\ n + l \in Nat
  BY <1>2, <1>3
<1> QED BY <1>3, <1>5, <1>6, <1>8, <1>9, <1>10 DEF n

\* A start: the ring is replayed through a fresh detector, and what the trim leaves of
\* the mask is what SpeechOf says of the frames it leaves.
LEMMA StartFits ==
  ASSUME AudioType, now \in Nat, WorkerStarts
  PROVE  /\ Fitted' /\ take'.seeded = Len(take'.heard) /\ Len(take'.heard) \in Nat
         /\ Len(take'.heard) > 0 /\ Verdict(take'.heard, Len(take'.heard)) => seen'
<1>1. PICK sounds \in Sounding(ring) :
        LET h == Replayed(sounds)
        IN take' = Seeded(h.mask, sounds) /\ vad' = h.vad /\ SeedSignalled(h.speech)
  BY DEF WorkerStarts
<1> DEFINE h == Replayed(sounds)
           fresh == [Hearing EXCEPT !.mask = <<>>, !.vad = FreshVad]
           n == Len(sounds)
<1>2. take' = Seeded(h.mask, sounds) /\ vad' = h.vad /\ seen' = (seen \/ h.speech)
  BY <1>1 DEF SeedSignalled
<1>3. /\ sounds \in Seq(Sounds) /\ Len(sounds) = Len(ring)
      /\ h \in HearingType /\ Len(h.mask) = Len(ring)
  BY StartTypes
<1>4. FreshVad \in VadType /\ FreshVad = [buffered |-> 0, onset |-> 0, hang |-> 0, inSpeech |-> FALSE]
  BY Thresholds DEF FreshVad, VadType
<1>5. fresh \in HearingType /\ fresh.mask = <<>> /\ fresh.vad = FreshVad
  <2>1. Hearing \in HearingType
    BY DEF Hearing, HearingType, AudioType, TakeType
  <2>2. <<>> \in Seq(BOOLEAN)
    OBVIOUS
  <2> HIDE DEF FreshVad
  <2> QED BY <1>4, <2>1, <2>2 DEF HearingType
<1>6. h = Hears(fresh, sounds, FALSE)
  BY DEF Replayed
<1> HIDE DEF h, fresh
<1>7. Fits(sounds, 0, FreshVad)
  BY <1>4, Thresholds, NoVerdict DEF Fits
<1>8. Masked(sounds, 0, 0, fresh.mask)
  BY <1>5 DEF Masked
<1>9. /\ Fits(sounds, n, h.vad) /\ Masked(sounds, n, 0, h.mask)
      /\ n > 0 => (h.speech <=> Verdict(sounds, n))
  <2>1. 0 \in Nat /\ 0 \in 0 .. 0 /\ FALSE \in BOOLEAN
    OBVIOUS
  <2>2. \A i \in 1 .. Len(sounds) : sounds[0 + i] = sounds[i]
    OBVIOUS
  <2>3. Fits(sounds, 0, fresh.vad)
    BY <1>5, <1>7
  <2>4. /\ Fits(sounds, 0 + n, h.vad) /\ Masked(sounds, 0 + n, 0, h.mask)
        /\ n > 0 => (h.speech <=> Verdict(sounds, 0 + n))
    <3> DEFINE z == 0
               live == FALSE
    <3>1. z \in Nat /\ z \in 0 .. z /\ live \in BOOLEAN /\ h = Hears(fresh, sounds, live)
      BY <1>6
    <3>2. /\ \A i \in 1 .. Len(sounds) : sounds[z + i] = sounds[i]
          /\ Fits(sounds, z, fresh.vad) /\ Masked(sounds, z, z, fresh.mask)
      BY <1>8, <2>2, <2>3
    <3> HIDE DEF z, live, n
    <3>3. n = Len(sounds)
      BY DEF n
    <3>4. Leads(sounds, z, n, z, live, fresh, h)
      BY <1>3, <1>5, <3>1, <3>2, <3>3, RunFits
    <3> QED BY <3>4 DEF z, Leads
  <2>5. 0 + n = n
    BY <1>3
  <2> QED BY <1>6, <2>4, <2>5
<1> DEFINE mask == h.mask
           t == Seeded(mask, sounds)
<1>10. mask \in Seq(BOOLEAN) /\ Len(mask) = Len(ring) /\ ring \in Seq(Nat) /\ n = Len(ring) /\ n \in Nat
  BY <1>3 DEF HearingType, AudioType
<1>11. /\ t.mask = SubSeq(mask, t.cut + 1, n) /\ t.heard = sounds /\ t.seeded = n
       /\ t.cut \in 0 .. n
  <2> HIDE DEF mask
  <2> QED BY <1>3, <1>10, SeededFields
<1>12. take' = t
  BY <1>2
<1> HIDE DEF mask, t, n
<1>13. Masked(sounds, n, t.cut, t.mask)
  <2> DEFINE c == t.cut
             sub == SubSeq(mask, c + 1, n)
  <2>1. c \in 0 .. n
    BY <1>11
  <2> HIDE DEF c
  <2>2. Len(sub) = n - c /\ \A i \in 1 .. n - c : sub[i] = mask[i + c]
    <3>1. c + 1 \in 1 .. n + 1
      BY <1>10, <2>1
    <3>2. Len(sub) = n - (c + 1) + 1 /\ \A i \in 1 .. n - (c + 1) + 1 : sub[i] = mask[c + 1 + i - 1]
      BY <1>10, <3>1
    <3>3. n - (c + 1) + 1 = n - c /\ \A i \in 1 .. n - c : c + 1 + i - 1 = i + c
      BY <1>10, <2>1
    <3> QED BY <3>2, <3>3
  <2> HIDE DEF sub
  <2>3. \A i \in 1 .. n - 0 : mask[i] <=> Speech(sounds, n, i + 0)
    BY <1>9 DEF Masked, mask
  <2>4. ASSUME NEW i \in 1 .. n - c PROVE sub[i] <=> Speech(sounds, n, i + c)
    <3>1. i + c \in 1 .. n - 0 /\ i + c + 0 = i + c
      BY <1>10, <2>1
    <3> QED BY <2>2, <2>3, <3>1
  <2>5. t.mask = sub
    BY <1>11 DEF sub, c
  <2> QED BY <2>2, <2>4, <2>5 DEF Masked, c
<1>14. Fitted'
  <2>1. Len(take'.heard) = n /\ take'.heard = sounds /\ take'.cut = t.cut /\ take'.mask = t.mask
        /\ vad' = h.vad
    BY <1>2, <1>11, <1>12 DEF n
  <2> QED BY <1>9, <1>11, <1>13, <2>1 DEF Fitted
<1>15. n > 0 /\ Verdict(sounds, n) => seen'
  BY <1>2, <1>9
<1> QED BY <1>10, <1>11, <1>12, <1>14, <1>15 DEF n

LEMMA LoudKept ==
  ASSUME NEW s, NEW t, NEW n \in Nat, \A i \in 1 .. n : t[i] = s[i], NEW e \in 1 .. n, Loud(t, e)
  PROVE  Loud(s, e)
<1>1. \A i \in e - OnsetFrames + 1 .. e : i \in 1 .. n
  BY Thresholds DEF Loud
<1> QED BY <1>1 DEF Loud

LEMMA NextDetects ==
  ASSUME Types, Serving, Detected, Alerted, [Next]_vars
  PROVE  Detected' /\ Alerted'
<1> USE DEF device, shared, heard, input, history, calls
<1>0. Clock /\ WorkerType /\ InboxType /\ CallType /\ AudioType /\ Mirrors /\ Types' /\ InboxType'
  BY NextTypes DEF Types, Serving
<1>1. ASSUME UNCHANGED <<take, vad, recording>> PROVE Detected'
  BY <1>1 DEF Detected, Fitted
<1>2. ASSUME UNCHANGED <<take, vad, recording, seen>>, Starts(Inbox') = Starts(Inbox),
             worker'.at = "recv" => worker.at = "recv"
      PROVE  Detected' /\ Alerted'
  BY <1>1, <1>2 DEF Alerted
<1>3. ASSUME UNCHANGED <<take, vad, recording>>, worker'.at # "recv" PROVE Detected' /\ Alerted'
  BY <1>1, <1>3 DEF Alerted
<1>4. ASSUME recording' = FALSE PROVE Detected' /\ Alerted'
  BY <1>4 DEF Detected, Alerted
\* Nobody looks at the Inbox, and the worker does not move.
<1>5. CASE Capture \/ DeviceStalls \/ DeviceResumes \/ CallbackLoads \/ StopGivesUp \/ UNCHANGED vars
  <2>1. UNCHANGED <<take, vad, recording, seen, queue, pending, worker>>
    BY <1>5 DEF Capture, DeviceStalls, DeviceResumes, CallbackLoads, StopGivesUp, vars
  <2>2. Inbox' = Inbox
    BY <2>1 DEF Inbox
  <2> QED BY <1>2, <2>1, <2>2
<1>6. CASE CallbackSends
  <2>1. Calm
    BY <1>0, <1>6, CallbackAdds DEF Calm, Device
  <2>2. Starts(Inbox') = Starts(Inbox)
    BY <1>0, <2>1, CalmFields
  <2> QED BY <1>2, <1>6, <2>2 DEF CallbackSends
\* A new start makes the news of the take before it stale.
<1>7. CASE CallStart
  <2> DEFINE m == [is |-> "start"]
  <2>1. m \in Message /\ queue' = Append(queue, m) /\ UNCHANGED <<pending, worker, take, vad, recording>>
    BY <1>7, MessagesMade DEF CallStart
  <2>2. queue' = queue \o <<m>> /\ <<m>> \in Seq(Message)
    BY <1>0, <2>1, AppendIsConcat DEF InboxType
  <2>3. Inbox' = Inbox \o <<m>> /\ Inbox \in Seq(Message)
    BY <1>0, <2>1, <2>2, QueueGrows, InboxFields
  <2>4. /\ Inbox' \in Seq(Message) /\ Len(Inbox') = Len(Inbox) + 1 /\ Len(Inbox) \in Nat
        /\ Inbox'[Len(Inbox) + 1] = m
    <3>1. Inbox' = Append(Inbox, m)
      BY <2>1, <2>3, AppendIsConcat
    <3> QED BY <2>1, <2>3, <3>1, AppendProperties
  <2>5. Before(Inbox', Len(Inbox) + 1) = Before(Inbox', Len(Inbox)) + 1
        /\ Before(Inbox', Len(Inbox)) \in Nat
    <3>1. Inbox'[Len(Inbox) + 1].is = "start"
      BY <2>4
    <3>2. Before(Inbox', Len(Inbox) + 1) = IF Inbox'[Len(Inbox) + 1].is = "start"
                                           THEN Before(Inbox', Len(Inbox)) + 1
                                           ELSE Before(Inbox', Len(Inbox))
      BY <2>4, BeforeNext, Zenon
    <3>3. Before(Inbox', Len(Inbox)) \in Nat
      BY <2>4, BeforeType, Zenon
    <3> QED BY <3>1, <3>2, <3>3
  <2>6. Starts(Inbox') # 0
    BY <2>4, <2>5, StartsBefore
  <2> QED BY <1>1, <2>1, <2>6 DEF Alerted
<1>8. CASE CallStop \/ CallClose
  <2>1. PICK m \in Message : queue' = Append(queue, m) /\ m.is # "start"
    <3>1. CASE CallStop
      <4>1. Len(asked) + 1 \in Nat
        BY <1>0 DEF CallType
      <4>2. queue' = Append(queue, [is |-> "stop", id |-> Len(asked) + 1])
        BY <3>1 DEF CallStop
      <4>3. [is |-> "stop", id |-> Len(asked) + 1] \in Message
        BY <4>1, MessagesMade
      <4> QED BY <4>2, <4>3
    <3>2. CASE CallClose
      BY <3>2, MessagesMade DEF CallClose
    <3> QED BY <1>8, <3>1, <3>2
  <2>2. UNCHANGED <<pending, worker, take, vad, recording, seen>>
    BY <1>8 DEF CallStop, CallClose
  <2> DEFINE s == <<m>>
  <2>3. queue' = queue \o s /\ s \in Seq(Message) /\ \A i \in 1 .. Len(s) : s[i].is # "start"
    BY <1>0, <2>1, AppendIsConcat DEF InboxType
  <2> HIDE DEF s
  <2>4. Inbox' = Inbox \o s
    BY <1>0, <2>2, <2>3, QueueGrows
  <2>5. Starts(Inbox') = Starts(Inbox)
    BY <1>0, <2>3, <2>4, AddedFields
  <2> QED BY <1>2, <2>2, <2>5
<1>9. CASE CallOpen
  BY <1>4, <1>9 DEF CallOpen
\* What a recording hears is labelled, and speech signalled.
<1>10. CASE WorkerHears
  <2>1. PICK m \in Messages :
          /\ Ready(m) /\ m.is = "samples"
          /\ \/ recording /\ Heard(Chunk(m), TRUE)
             \/ ~recording
    BY <1>10, Zenon DEF WorkerHears
  <2>2. Calm /\ m \in Message
    BY <1>0, <2>1, ReadyTakes DEF Calm, Device
  <2>3. Starts(Inbox') = Starts(Inbox)
    BY <1>0, <2>2, CalmFields
  <2>4. UNCHANGED <<worker, recording>> /\ worker.at = "recv"
    BY <1>10 DEF WorkerHears, Ready
  <2>5. CASE recording /\ Heard(Chunk(m), TRUE)
    <3>1. Chunk(m) \in Seq(Nat) /\ TRUE \in BOOLEAN
      BY <2>1, <2>2, ChunkSeq
    <3>2. Fitted
      BY <2>5 DEF Detected
    <3>3. /\ Fitted' /\ (seen = TRUE => seen' = TRUE) /\ take'.seeded = take.seeded
          /\ Len(take.heard) \in Nat /\ Len(take'.heard) \in Nat
          /\ Len(take.heard) <= Len(take'.heard)
          /\ \A i \in 1 .. Len(take.heard) : take'.heard[i] = take.heard[i]
          /\ LoudAfter(take'.heard, Len(take.heard), Len(take'.heard)) => seen' = TRUE
      BY <1>0, <2>5, <3>1, <3>2, HeardFits, Zenon
    <3>4. ASSUME Starts(Inbox') = 0, NEW e \in 1 .. Len(take'.heard),
                 e >= take'.seeded, Loud(take'.heard, e)
          PROVE  seen'
      <4>1. CASE e \in 1 .. Len(take.heard)
        <5>1. Loud(take.heard, e)
          BY <3>3, <3>4, <4>1, LoudKept
        <5>2. seen
          BY <2>3, <2>4, <2>5, <3>3, <3>4, <4>1, <5>1 DEF Alerted
        <5> QED BY <1>0, <3>3, <5>2 DEF AudioType
      <4>2. CASE e \in Len(take.heard) + 1 .. Len(take'.heard)
        <5>1. Verdict(take'.heard, e) /\ take'.heard[e] = "loud"
          BY <3>4, LoudIsSpeech
        <5> QED BY <3>3, <4>2, <5>1 DEF LoudAfter
      <4> QED BY <3>3, <4>1, <4>2
    <3> QED BY <3>3, <3>4 DEF Detected, Alerted
  <2>6. CASE ~recording
    BY <1>0, <1>4, <2>4, <2>6 DEF AudioType
  <2> QED BY <2>1, <2>5, <2>6
<1>11. CASE WorkerSkips
  <2>1. Calm
    BY <1>0, <1>11, ReadyTakes DEF WorkerSkips, Calm, Device
  <2>2. Starts(Inbox') = Starts(Inbox)
    BY <1>0, <2>1, CalmFields
  <2> QED BY <1>2, <1>11, <2>2 DEF WorkerSkips
\* A recording begins with what the ring held.
<1>12. CASE WorkerStarts
  <2>1. /\ Fitted' /\ take'.seeded = Len(take'.heard) /\ Len(take'.heard) \in Nat
        /\ Len(take'.heard) > 0 /\ Verdict(take'.heard, Len(take'.heard)) => seen'
    BY <1>0, <1>12, StartFits DEF Clock
  <2>2. ASSUME NEW e \in 1 .. Len(take'.heard), e >= take'.seeded, Loud(take'.heard, e)
        PROVE  seen'
    <3>1. e = Len(take'.heard)
      BY <2>1, <2>2
    <3>2. Verdict(take'.heard, e)
      BY <2>2, LoudIsSpeech
    <3> QED BY <2>1, <3>1, <3>2
  <2> QED BY <2>1, <2>2 DEF Detected, Alerted
<1>13. CASE WorkerStamps
  BY <1>3, <1>13 DEF WorkerStamps, Resting
<1>14. CASE WorkerRaises
  BY <1>0, <1>3, <1>14 DEF WorkerRaises, WorkerType
<1>15. CASE WorkerDrains
  <2> DEFINE m == Head(queue)
  <2>1. /\ worker.at = "drain" /\ queue # <<>> /\ queue' = Tail(queue) /\ UNCHANGED recording
        /\ \/ m.is = "samples" /\ Heard(Chunk(m), FALSE) /\ UNCHANGED <<worker, pending>>
           \/ UNCHANGED <<take, vad>>
        /\ worker' = worker \/ worker' = [worker EXCEPT !.also = @ \cup {m.id}]
    BY <1>15, Zenon DEF WorkerDrains
  <2>2. worker'.at = "drain"
    BY <1>0, <2>1 DEF WorkerType
  <2>3. CASE m.is = "samples" /\ Heard(Chunk(m), FALSE) /\ UNCHANGED <<worker, pending>>
    <3>1. m \in Message
      BY <1>0, <2>1, <2>3, DrainTakes
    <3>2. Chunk(m) \in Seq(Nat) /\ FALSE \in BOOLEAN
      BY <2>3, <3>1, ChunkSeq
    <3>3. recording => Fitted'
      BY <1>0, <2>3, <3>2, HeardFits, Zenon DEF Detected
    <3> QED BY <2>1, <2>2, <3>3 DEF Detected, Alerted
  <2>4. CASE UNCHANGED <<take, vad>>
    BY <1>3, <2>1, <2>2, <2>4
  <2> QED BY <2>1, <2>3, <2>4
<1>16. CASE DrainEnds \/ DrainTimesOut
  BY <1>4, <1>16 DEF DrainEnds, DrainTimesOut, Answer
<1>17. CASE WorkerRearms
  <2>1. recording' = recording /\ ~recording
    BY <1>0, <1>17 DEF WorkerRearms, Mirrors
  <2> QED BY <1>0, <1>4, <2>1 DEF AudioType
<1>18. CASE WorkerShutsDown
  BY <1>3, <1>18 DEF WorkerShutsDown, Resting
<1> QED
  BY <1>5, <1>6, <1>7, <1>8, <1>9, <1>10, <1>11, <1>12, <1>13, <1>14, <1>15, <1>16, <1>17, <1>18
  DEF Next, Input, Manager, Worker

LEMMA Detects == Spec => [](Detected /\ Alerted)
<1>1. Init => Detected /\ Alerted
  BY DEF Init, Detected, Alerted
<1>2. Types /\ Serving /\ (Detected /\ Alerted) /\ [Next]_vars => (Detected /\ Alerted)'
  BY NextDetects
<1> QED BY <1>1, <1>2, Typed, Served, PTL DEF Spec

\* The mask of a take labels its frames as the gating detector would have, across the
\* ring's frames, the live ones and those of the drain (push_speech_mask, seed_preroll,
\* SmoothedVad), for any thresholds of the detector.
THEOREM MaskFollows == Spec => []MaskIsHonest
<1>1. Types /\ (Detected /\ Alerted) => MaskIsHonest
  <2>1. SUFFICES ASSUME Types, Detected, recording
                 PROVE  take.mask = SubSeq(SpeechOf(take.heard), take.cut + 1, Len(take.heard))
    BY DEF MaskIsHonest
  <2>2. take.heard \in Seq(Sounds) /\ take.mask \in Seq(BOOLEAN)
    BY <2>1 DEF Types, AudioType, TakeType
  <2>3. take.cut \in 0 .. Len(take.heard) /\ Masked(take.heard, Len(take.heard), take.cut, take.mask)
    BY <2>1 DEF Detected, Fitted
  <2> QED BY <2>2, <2>3, MaskIs
<1> QED BY <1>1, Typed, Detects, PTL

\* Speech is signalled to the manager once a take has heard loud frames enough for an
\* onset (handle_frame, seeded_onset_should_signal), for any thresholds.
THEOREM SpeechSignalled == Spec => []SpeechIsSeen
<1>1. Types /\ (Detected /\ Alerted) => SpeechIsSeen
  <2>1. SUFFICES ASSUME Types, Alerted, recording /\ worker.at = "recv" /\ Starts(Inbox) = 0,
                        NEW e \in Max({take.seeded, OnsetFrames}) .. Len(take.heard),
                        \A i \in e - OnsetFrames + 1 .. e : take.heard[i] = "loud"
                 PROVE  seen
    BY DEF SpeechIsSeen
  <2>2. take.seeded \in Nat /\ take.heard \in Seq(Sounds)
    BY <2>1 DEF Types, AudioType, TakeType
  <2>3. Max({take.seeded, OnsetFrames}) = IF take.seeded <= OnsetFrames THEN OnsetFrames ELSE take.seeded
    BY <2>2, Thresholds, MaxOfTwo
  <2>4. e \in 1 .. Len(take.heard) /\ e >= take.seeded /\ e >= OnsetFrames
    BY <2>2, <2>3, Thresholds
  <2>5. Loud(take.heard, e)
    BY <2>1, <2>4 DEF Loud
  <2> QED BY <2>1, <2>4, <2>5 DEF Alerted
<1> QED BY <1>1, Typed, Detects, PTL

-----------------------------------------------------------------------------
\* A clean take is whole: where the frames of the take are, and which end of the stream
\* is the end of which stop.

InStop == worker.at \in {"stamped", "drain"}
Flags ==
  /\ worker.at \in {"recv", "stamped"} => stopFlag = FALSE
  /\ worker.at = "recv" => deadline = Unset
  /\ InStop => deadline \in Nat
  /\ worker.at = "drain" => stopFlag = TRUE /\ deadline <= worker.raised /\ worker.raised <= now
  /\ ~InStop => worker.stop = 0

\* The stops for which an end of the stream waits or is about to be sent.  Stops are
\* served in the order of their calls, and no end precedes its stop.
Mark(x) ==
  \/ \E i \in 1 .. Len(Inbox) : Inbox[i].is = "eos" /\ Inbox[i].of = x
  \/ callback # Idle /\ callback.stopping = TRUE /\ callback.of = x
StopsAt(i) == Inbox[i].is = "stop"
Named ==
  /\ \A x : Mark(x) => /\ x <= Len(asked) /\ (worker.at = "stamped" => x < worker.stop)
                       /\ \A i \in 1 .. Len(Inbox) : StopsAt(i) => x < Inbox[i].id
  /\ \A i \in 1 .. Len(Inbox) : StopsAt(i) =>
       /\ worker.stop < Inbox[i].id
       /\ \A j \in 1 .. Len(Inbox) : i < j /\ StopsAt(j) => Inbox[i].id < Inbox[j].id

\* A frame that is due to the take is kept or on its way to the worker.
Waiting(f)  == \E i \in 1 .. Len(Inbox) : Inbox[i].is = "samples" /\ f \in Inbox[i].from .. Inbox[i].to
Flying(f)   == \/ Waiting(f) \/ f > delivered
               \/ callback # Idle /\ f \in callback.from .. callback.to
Due(f)      == f \in take.since + 1 .. now /\ (InStop => f <= deadline)
Held(f)     == f \in Range(take.frames)
\* The end of this stop waits, or can still come: it cannot once the callback has dropped
\* a chunk to the latch of an earlier stop.
Ended(i)    == Inbox[i].is = "eos" /\ Inbox[i].of = worker.stop
Hopeful ==
  \/ ~eosSent \/ \E i \in 1 .. Len(Inbox) : Ended(i)
  \/ callback # Idle /\ (callback.stopping = FALSE \/ callback.of = worker.stop)
Taking == recording /\ stamped /\ (worker.at \in {"recv", "stamped"} \/ (worker.at = "drain" /\ Hopeful))
Covered == Taking => \A f : Due(f) => Held(f) \/ Flying(f)
\* Nothing that is due comes after the end of its stop.
Sealed ==
  stamped /\ worker.at = "drain" => \A i \in 1 .. Len(Inbox) : Ended(i) =>
    /\ eosSent /\ callback = Idle /\ deadline < delivered
    /\ \A j \in i + 1 .. Len(Inbox) : Inbox[j].is # "samples"
\* Nothing that was captured after the stop was raised comes in.
Bounded ==
  stamped /\ worker.at = "drain" =>
    /\ \A f : Held(f) => f <= worker.raised
    /\ \A i \in 1 .. Len(Inbox) : Inbox[i].is = "samples" => Inbox[i].to <= worker.raised
    /\ callback # Idle => \/ callback.to <= worker.raised
                          \/ callback.stopping = TRUE /\ callback.of = worker.stop

LEMMA NextFlags ==
  ASSUME Types, Flags, [Next]_vars
  PROVE  Flags'
<1> USE DEF device, shared, heard, input, history, calls, InStop
<1>0. Clock /\ WorkerType /\ Types' /\ Clock'
  BY NextTypes DEF Types
<1>1. ASSUME UNCHANGED <<worker, stopFlag, deadline>>, now <= now' PROVE Flags'
  BY <1>0, <1>1 DEF Flags, Clock, WorkerType
<1>2. CASE Capture
  BY <1>0, <1>1, <1>2 DEF Capture, Clock
<1>3. CASE \/ DeviceStalls \/ DeviceResumes \/ CallbackLoads \/ CallbackSends \/ CallStart \/ CallStop
           \/ StopGivesUp \/ CallClose \/ WorkerHears \/ WorkerSkips \/ UNCHANGED vars
  <2>1. UNCHANGED <<worker, stopFlag, deadline, now>>
    BY <1>3 DEF DeviceStalls, DeviceResumes, CallbackLoads, CallbackSends, CallStart, CallStop,
                StopGivesUp, CallClose, WorkerHears, WorkerSkips, vars
  <2> QED BY <1>0, <1>1, <2>1 DEF Clock
<1>4. CASE CallOpen
  BY <1>4 DEF CallOpen, Flags, Resting
<1>5. CASE WorkerStarts
  <2>1. worker.at = "recv" /\ UNCHANGED worker /\ stopFlag' = FALSE /\ deadline' = Unset
    BY <1>5 DEF WorkerStarts, Ready
  <2> QED BY <2>1 DEF Flags
<1>6. CASE WorkerStamps
  <2>1. worker.at = "recv" /\ worker'.at = "stamped" /\ deadline' = now /\ UNCHANGED stopFlag
    BY <1>6 DEF WorkerStamps, Ready, Resting
  <2> QED BY <1>0, <2>1 DEF Flags, Clock
<1>7. CASE WorkerRaises
  <2>1. /\ worker.at = "stamped" /\ worker'.at = "drain" /\ worker'.raised = now
        /\ stopFlag' = TRUE /\ UNCHANGED <<deadline, now>>
    BY <1>0, <1>7 DEF WorkerRaises, WorkerType
  <2> QED BY <1>0, <2>1 DEF Flags, Clock, Unset
<1>8. CASE WorkerDrains
  <2>1. /\ worker.at = "drain" /\ UNCHANGED <<stopFlag, deadline, now>>
        /\ worker' = worker \/ worker' = [worker EXCEPT !.also = @ \cup {Head(queue).id}]
    BY <1>8, Zenon DEF WorkerDrains
  <2>2. worker'.at = "drain" /\ worker'.raised = worker.raised
    BY <1>0, <2>1 DEF WorkerType
  <2> QED BY <2>1, <2>2 DEF Flags
<1>9. CASE DrainEnds \/ DrainTimesOut
  <2>1. worker'.at = "answered" /\ worker'.stop = 0
    BY <1>9 DEF DrainEnds, DrainTimesOut, Answer, Resting
  <2> QED BY <2>1 DEF Flags
<1>10. CASE WorkerRearms
  <2>1. worker' = Resting /\ stopFlag' = FALSE /\ deadline' = Unset
    BY <1>10 DEF WorkerRearms
  <2> QED BY <2>1 DEF Flags, Resting
<1>11. CASE WorkerShutsDown
  <2>1. worker'.at = "gone" /\ worker'.stop = 0
    BY <1>11 DEF WorkerShutsDown, Resting
  <2> QED BY <2>1 DEF Flags
<1> QED BY <1>2, <1>3, <1>4, <1>5, <1>6, <1>7, <1>8, <1>9, <1>10, <1>11
  DEF Next, Input, Manager, Worker

\* The messages that are left keep their order.
LEMMA Shrunk ==
  ASSUME InboxType, InboxType', Inbox' = Inbox \/ \E k, m : Took(k, m)
  PROVE  \E at \in [1 .. Len(Inbox') -> 1 .. Len(Inbox)] :
           /\ \A i \in 1 .. Len(Inbox') : Inbox'[i] = Inbox[at[i]]
           /\ \A i, j \in 1 .. Len(Inbox') : i < j => at[i] < at[j]
<1>1. CASE Inbox' = Inbox
  <2> DEFINE at == [i \in 1 .. Len(Inbox') |-> i]
  <2>1. at \in [1 .. Len(Inbox') -> 1 .. Len(Inbox)]
    BY <1>1
  <2> QED BY <1>1, <2>1
<1>2. CASE \E k, m : Took(k, m)
  <2>1. PICK k, m : Took(k, m)
    BY <1>2
  <2>2. /\ Len(Inbox) \in Nat /\ Len(Inbox') = Len(Inbox) - 1
        /\ \A i \in 1 .. Len(Inbox') : Inbox'[i] = IF i < k THEN Inbox[i] ELSE Inbox[i + 1]
    BY <2>1, TookFields
  <2>3. k \in 1 .. Len(Inbox)
    BY <2>1 DEF Took
  <2> DEFINE at == [i \in 1 .. Len(Inbox') |-> IF i < k THEN i ELSE i + 1]
  <2>4. /\ \A i \in 1 .. Len(Inbox') : at[i] \in 1 .. Len(Inbox) /\ Inbox'[i] = Inbox[at[i]]
        /\ \A i, j \in 1 .. Len(Inbox') : i < j => at[i] < at[j]
    BY <2>2, <2>3
  <2>5. at \in [1 .. Len(Inbox') -> 1 .. Len(Inbox)]
    BY <2>4
  <2> QED BY <2>4, <2>5
<1> QED BY <1>1, <1>2

\* Ends and stops that are only taken keep their order.
LEMMA NamedKeeps ==
  ASSUME InboxType, InboxType', Named, UNCHANGED asked, \A x : Mark(x)' => Mark(x),
         Inbox' = Inbox \/ \E k, m : Took(k, m),
         worker'.stop = worker.stop \/ worker'.stop = 0, worker.stop \in Nat,
         worker'.at = "stamped" => worker.at = "stamped" /\ worker'.stop = worker.stop
  PROVE  Named'
<1>1. PICK at \in [1 .. Len(Inbox') -> 1 .. Len(Inbox)] :
        /\ \A i \in 1 .. Len(Inbox') : Inbox'[i] = Inbox[at[i]]
        /\ \A i, j \in 1 .. Len(Inbox') : i < j => at[i] < at[j]
  BY Shrunk
<1>2. \A i \in 1 .. Len(Inbox') : StopsAt(i)' => StopsAt(at[i]) /\ at[i] \in 1 .. Len(Inbox)
  BY <1>1 DEF StopsAt
<1>3. ASSUME NEW x, Mark(x)'
      PROVE  /\ x <= Len(asked') /\ (worker'.at = "stamped" => x < worker'.stop)
             /\ \A i \in 1 .. Len(Inbox') : StopsAt(i)' => x < Inbox'[i].id
  <2>1. Mark(x)
    BY <1>3
  <2> QED BY <1>1, <1>2, <2>1 DEF Named
<1>4. ASSUME NEW i \in 1 .. Len(Inbox'), StopsAt(i)'
      PROVE  /\ worker'.stop < Inbox'[i].id
             /\ \A j \in 1 .. Len(Inbox') : i < j /\ StopsAt(j)' => Inbox'[i].id < Inbox'[j].id
  <2>1. Inbox'[i] = Inbox[at[i]] /\ StopsAt(at[i]) /\ at[i] \in 1 .. Len(Inbox)
    BY <1>1, <1>2, <1>4
  <2>2. worker.stop < Inbox[at[i]].id
    BY <2>1 DEF Named
  <2>3. Inbox[at[i]].id \in Nat
    BY <2>1, InboxFields, MessageFields DEF StopsAt
  <2>4. worker'.stop < Inbox'[i].id
    BY <2>1, <2>2, <2>3
  <2>5. ASSUME NEW j \in 1 .. Len(Inbox'), i < j, StopsAt(j)' PROVE Inbox'[i].id < Inbox'[j].id
    <3>1. Inbox'[j] = Inbox[at[j]] /\ StopsAt(at[j]) /\ at[j] \in 1 .. Len(Inbox) /\ at[i] < at[j]
      BY <1>1, <1>2, <2>5
    <3> QED BY <2>1, <3>1 DEF Named
  <2> QED BY <2>4, <2>5
<1> QED BY <1>3, <1>4 DEF Named

\* A call adds its command.
LEMMA CallAdds ==
  ASSUME Types, Types', CallStart \/ CallStop \/ CallClose
  PROVE  /\ UNCHANGED <<now, stamped, delivered, callback, eosSent, deadline, worker, recording, take,
                        reply>>
         /\ Len(Inbox) \in Nat /\ Len(Inbox') = Len(Inbox) + 1
         /\ \A i \in 1 .. Len(Inbox) : Inbox'[i] = Inbox[i]
         /\ \/ Inbox'[Len(Inbox) + 1].is \notin {"samples", "eos", "stop"} /\ UNCHANGED asked
            \/ /\ Inbox'[Len(Inbox) + 1].is = "stop" /\ Len(asked') = Len(asked) + 1
               /\ Inbox'[Len(Inbox) + 1].id = Len(asked) + 1 /\ Len(asked) \in Nat
<1> USE DEF device, shared, heard, input, history, calls
<1>0. InboxType /\ InboxType' /\ CallType /\ Len(asked) \in Nat
  BY DEF Types, CallType
<1>1. /\ UNCHANGED <<now, stamped, delivered, callback, eosSent, deadline, worker, recording, take,
                     reply, pending>>
  BY DEF CallStart, CallStop, CallClose
<1>2. PICK m \in Message :
        /\ queue' = Append(queue, m)
        /\ \/ m.is \notin {"samples", "eos", "stop"} /\ UNCHANGED asked
           \/ m.is = "stop" /\ m.id = Len(asked) + 1 /\ Len(asked') = Len(asked) + 1
  <2>1. CASE CallStart
    BY <2>1, MessagesMade DEF CallStart
  <2>2. CASE CallStop
    <3> DEFINE m == [is |-> "stop", id |-> Len(asked) + 1]
    <3>1. Len(asked) + 1 \in Nat
      BY <1>0
    <3>2. m \in Message
      BY <3>1, MessagesMade
    <3>3. queue' = Append(queue, m) /\ asked' = Append(asked, StartsCalled)
      BY <2>2 DEF CallStop
    <3>4. Len(asked') = Len(asked) + 1
      BY <1>0, <3>3 DEF CallType
    <3>5. m.is = "stop" /\ m.id = Len(asked) + 1
      OBVIOUS
    <3> HIDE DEF m
    <3> QED BY <3>2, <3>3, <3>4, <3>5
  <2>3. CASE CallClose
    BY <2>3, MessagesMade DEF CallClose
  <2> QED BY <2>1, <2>2, <2>3
<1>3. queue' = queue \o <<m>> /\ <<m>> \in Seq(Message)
  BY <1>0, <1>2, AppendIsConcat DEF InboxType
<1>4. Inbox' = Inbox \o <<m>> /\ Inbox \in Seq(Message)
  BY <1>0, <1>1, <1>3, QueueGrows, InboxFields
<1>5. Inbox' = Append(Inbox, m)
  BY <1>2, <1>4, AppendIsConcat
<1>6. /\ Len(Inbox) \in Nat /\ Len(Inbox') = Len(Inbox) + 1 /\ Inbox'[Len(Inbox) + 1] = m
      /\ \A i \in 1 .. Len(Inbox) : Inbox'[i] = Inbox[i]
  BY <1>2, <1>4, <1>5, AppendProperties
<1> QED BY <1>0, <1>1, <1>2, <1>6

LEMMA NextNamed ==
  ASSUME Types, Serving, Flags, Named, [Next]_vars
  PROVE  Named'
<1> USE DEF device, shared, heard, input, history, calls
<1>0. /\ Clock /\ WorkerType /\ InboxType /\ CallType /\ Types' /\ InboxType' /\ CallType'
      /\ Counted /\ Serves /\ worker.stop \in Nat /\ Len(asked) \in Nat
  BY NextTypes DEF Types, Serving, WorkerType, CallType
<1>a. worker.stop <= Len(asked)
  BY <1>0 DEF Serves, Flags, InStop
<1>b. \A i \in 1 .. Len(Inbox) : StopsAt(i) => Inbox[i].id \in 1 .. Len(asked)
  BY <1>0 DEF Counted, StopsAt
\* Nothing but the worker's answer of it, or its shrinking, happens to the Inbox.
<1>1. ASSUME UNCHANGED <<callback, asked>>, Inbox' = Inbox \/ \E k, m : Took(k, m),
             worker'.stop = worker.stop \/ worker'.stop = 0,
             worker'.at = "stamped" => worker.at = "stamped" /\ worker'.stop = worker.stop
      PROVE  Named'
  <2>1. PICK at \in [1 .. Len(Inbox') -> 1 .. Len(Inbox)] :
          \A i \in 1 .. Len(Inbox') : Inbox'[i] = Inbox[at[i]]
    BY <1>0, <1>1, Shrunk
  <2>2. \A x : Mark(x)' => Mark(x)
    BY <1>1, <2>1 DEF Mark
  <2> QED BY <1>0, <1>1, <2>2, NamedKeeps
<1>2. CASE \/ Capture \/ DeviceStalls \/ DeviceResumes \/ StopGivesUp \/ DrainTimesOut \/ WorkerRearms
           \/ WorkerRaises \/ UNCHANGED vars
  <2>1. UNCHANGED <<queue, pending, callback, asked>>
    BY <1>2 DEF Capture, DeviceStalls, DeviceResumes, StopGivesUp, DrainTimesOut, Answer,
                WorkerRearms, WorkerRaises, vars
  <2>2. Inbox' = Inbox
    BY <2>1 DEF Inbox
  <2>3. /\ worker' = worker \/ worker'.at # "stamped"
        /\ worker'.stop = worker.stop \/ worker'.stop = 0
    <3>1. CASE WorkerRaises
      BY <1>0, <3>1 DEF WorkerRaises, WorkerType
    <3>2. CASE WorkerRearms \/ DrainTimesOut
      BY <3>2 DEF WorkerRearms, DrainTimesOut, Answer, Resting
    <3>3. CASE Capture \/ DeviceStalls \/ DeviceResumes \/ StopGivesUp \/ UNCHANGED vars
      BY <3>3 DEF Capture, DeviceStalls, DeviceResumes, StopGivesUp, vars
    <3> QED BY <1>2, <3>1, <3>2, <3>3
  <2> QED BY <1>1, <2>1, <2>2, <2>3
<1>3. CASE CallbackLoads
  <2>1. /\ UNCHANGED <<queue, pending, worker, asked>> /\ callback = Idle
        /\ \/ callback' = Idle
           \/ callback'.stopping = stopFlag /\ callback'.of = worker.stop
    <3>1. PICK to : callback' = IF stopFlag /\ eosSent THEN Idle
                                ELSE [at |-> "holds", from |-> delivered + 1, to |-> to,
                                      stopping |-> stopFlag, of |-> worker.stop]
      BY <1>3 DEF CallbackLoads
    <3> QED BY <1>3, <3>1 DEF CallbackLoads
  <2>2. Inbox' = Inbox
    BY <2>1 DEF Inbox
  <2>3. ASSUME NEW x, Mark(x)' PROVE Mark(x) \/ (x = worker.stop /\ worker.at # "stamped")
    BY <2>1, <2>2, <2>3 DEF Mark, Flags
  <2>4. \A i : StopsAt(i)' <=> StopsAt(i)
    BY <2>2 DEF StopsAt
  <2>5. ASSUME NEW x, Mark(x)'
        PROVE  /\ x <= Len(asked') /\ (worker'.at = "stamped" => x < worker'.stop)
               /\ \A i \in 1 .. Len(Inbox') : StopsAt(i)' => x < Inbox'[i].id
    BY <1>a, <2>1, <2>2, <2>3, <2>4, <2>5 DEF Named
  <2> QED BY <2>1, <2>2, <2>4, <2>5 DEF Named
<1>4. CASE CallbackSends
  <2>1. PICK s \in Seq(Message), keep \in callback.from - 1 .. callback.to, eos \in BOOLEAN :
          Adds(s, keep, eos) /\ (~callback.stopping => ~eos)
    BY <1>4, CallbackPlan
  <2>2. callback.stopping \in BOOLEAN /\ callback # Idle /\ callback' = Idle /\ UNCHANGED <<worker, asked>>
    BY <1>4, CallbackPlan DEF CallbackSends
  <2>3. /\ Len(Inbox) \in Nat /\ Len(Inbox') = Len(Inbox) + Len(s)
        /\ \A i \in 1 .. Len(Inbox) : Inbox'[i] = Inbox[i]
        /\ \A i \in 1 .. Len(Inbox') : i > Len(Inbox) => /\ i - Len(Inbox) \in 1 .. Len(s)
                                                         /\ Inbox'[i] = s[i - Len(Inbox)]
    BY <1>0, <2>1, AddedFields DEF Adds
  <2>4. ASSUME NEW i \in 1 .. Len(Inbox'), i > Len(Inbox)
        PROVE  /\ Inbox'[i].is # "stop"
               /\ Inbox'[i].is = "eos" => Inbox'[i].of = callback.of /\ callback.stopping = TRUE
    BY <2>1, <2>2, <2>3, <2>4 DEF Adds
  <2>5. ASSUME NEW i \in 1 .. Len(Inbox'), StopsAt(i)' PROVE i \in 1 .. Len(Inbox) /\ StopsAt(i)
    <3>0. Inbox'[i].is = "stop"
      BY <2>5 DEF StopsAt
    <3>1. ~(i > Len(Inbox))
      BY <2>4, <3>0
    <3>2. i \in 1 .. Len(Inbox)
      BY <2>3, <3>1
    <3> QED BY <2>3, <2>5, <3>2 DEF StopsAt
  <2>6. ASSUME NEW x, Mark(x)' PROVE Mark(x)
    <3>1. PICK i \in 1 .. Len(Inbox') : Inbox'[i].is = "eos" /\ Inbox'[i].of = x
      BY <2>2, <2>6 DEF Mark
    <3>2. CASE i \in 1 .. Len(Inbox)
      BY <2>3, <3>1, <3>2 DEF Mark
    <3>3. CASE i > Len(Inbox)
      BY <2>2, <2>4, <3>1, <3>3 DEF Mark
    <3> QED BY <2>3, <3>2, <3>3
  <2> QED BY <2>2, <2>3, <2>5, <2>6 DEF Named
<1>5. CASE CallStart \/ CallStop \/ CallClose
  <2> DEFINE l == Len(Inbox) + 1
  <2>1. /\ UNCHANGED <<callback, worker>> /\ Len(Inbox) \in Nat /\ Len(Inbox') = l
        /\ \A i \in 1 .. Len(Inbox) : Inbox'[i] = Inbox[i]
        /\ \/ Inbox'[l].is \notin {"samples", "eos", "stop"} /\ UNCHANGED asked
           \/ Inbox'[l].is = "stop" /\ Len(asked') = Len(asked) + 1 /\ Inbox'[l].id = Len(asked) + 1
    BY <1>0, <1>5, CallAdds
  <2>2. \A i \in 1 .. Len(Inbox') : i \in 1 .. Len(Inbox) \/ i = l
    BY <2>1
  <2>3. Len(asked) <= Len(asked') /\ (Inbox'[l].is = "stop" => Inbox'[l].id = Len(asked) + 1)
        /\ Inbox'[l].is # "eos" /\ \A i \in 1 .. Len(Inbox) : i < l
    BY <1>0, <2>1
  <2> HIDE DEF l
  <2>4. \A i \in 1 .. Len(Inbox) : StopsAt(i)' <=> StopsAt(i)
    BY <2>1 DEF StopsAt
  <2>5. ASSUME NEW x, Mark(x)'
        PROVE  /\ x <= Len(asked') /\ (worker'.at = "stamped" => x < worker'.stop)
               /\ \A i \in 1 .. Len(Inbox') : StopsAt(i)' => x < Inbox'[i].id
    <3>1. Mark(x)
      BY <2>1, <2>2, <2>3, <2>5 DEF Mark
    <3>2. x \in Nat
      BY <1>0, <3>1, InboxFields, MessageFields DEF Mark, Types, CallbackType
    <3>3. x <= Len(asked) /\ (worker.at = "stamped" => x < worker.stop)
          /\ \A i \in 1 .. Len(Inbox) : StopsAt(i) => x < Inbox[i].id
      BY <3>1 DEF Named
    <3>4. x <= Len(asked') /\ x < Len(asked) + 1
      BY <1>0, <2>3, <3>2, <3>3 DEF CallType
    <3>5. ASSUME NEW i \in 1 .. Len(Inbox'), StopsAt(i)' PROVE x < Inbox'[i].id
      <4>1. CASE i \in 1 .. Len(Inbox)
        BY <2>1, <2>4, <3>3, <3>5, <4>1
      <4>2. CASE i = l
        BY <2>3, <3>4, <3>5, <4>2 DEF StopsAt
      <4> QED BY <2>2, <4>1, <4>2
    <3> QED BY <2>1, <3>3, <3>4, <3>5
  <2>6. ASSUME NEW i \in 1 .. Len(Inbox'), StopsAt(i)'
        PROVE  /\ worker'.stop < Inbox'[i].id
               /\ \A j \in 1 .. Len(Inbox') : i < j /\ StopsAt(j)' => Inbox'[i].id < Inbox'[j].id
    <3>1. CASE i \in 1 .. Len(Inbox)
      <4>1. StopsAt(i) /\ Inbox'[i] = Inbox[i] /\ Inbox[i].id \in 1 .. Len(asked)
        BY <1>b, <2>1, <2>4, <2>6, <3>1
      <4>2. worker'.stop < Inbox'[i].id
        BY <2>1, <3>1, <4>1 DEF Named
      <4>3. ASSUME NEW j \in 1 .. Len(Inbox'), i < j, StopsAt(j)' PROVE Inbox'[i].id < Inbox'[j].id
        <5>1. CASE j \in 1 .. Len(Inbox)
          BY <2>1, <2>4, <3>1, <4>1, <4>3, <5>1 DEF Named
        <5>2. CASE j = l
          <6>1. Inbox'[j].id = Len(asked) + 1
            BY <2>3, <4>3, <5>2 DEF StopsAt
          <6> QED BY <1>0, <4>1, <6>1
        <5> QED BY <2>2, <5>1, <5>2
      <4> QED BY <4>2, <4>3
    <3>2. CASE i = l
      <4>1. Inbox'[i].id = Len(asked) + 1
        BY <2>3, <2>6, <3>2 DEF StopsAt
      <4>2. worker'.stop < Inbox'[i].id
        BY <1>0, <1>a, <2>1, <4>1
      <4>3. \A j \in 1 .. Len(Inbox') : ~(i < j)
        BY <2>1, <3>2 DEF l
      <4> QED BY <4>2, <4>3
    <3> QED BY <2>2, <3>1, <3>2
  <2> QED BY <2>5, <2>6 DEF Named
<1>6. CASE CallOpen
  <2>1. callback' = Idle /\ queue' = <<>> /\ pending' = <<>>
    BY <1>6 DEF CallOpen
  <2>2. Inbox' = <<>>
    BY <2>1 DEF Inbox
  <2> QED BY <2>1, <2>2 DEF Named, Mark
<1>7. CASE \/ WorkerHears \/ WorkerSkips \/ WorkerStarts \/ WorkerShutsDown
  <2>1. PICK m : Ready(m)
    BY <1>7 DEF WorkerHears, WorkerSkips, WorkerStarts, WorkerShutsDown
  <2>2. Took(1, m) /\ UNCHANGED <<callback, asked>> /\ worker.at = "recv"
    BY <1>0, <1>7, <2>1, ReadyTakes DEF WorkerHears, WorkerSkips, WorkerStarts, WorkerShutsDown, Ready
  <2>3. worker' = worker \/ worker' = [Resting EXCEPT !.at = "gone"]
    BY <1>7 DEF WorkerHears, WorkerSkips, WorkerStarts, WorkerShutsDown
  <2>4. worker'.at # "stamped" /\ (worker'.stop = worker.stop \/ worker'.stop = 0)
    BY <2>2, <2>3 DEF Resting
  <2> QED BY <1>1, <2>2, <2>4
\* The stop that is taken comes after all ends and before all other stops.
<1>8. CASE WorkerStamps
  <2>1. PICK m \in Messages :
          Ready(m) /\ m.is = "stop" /\ worker' = [Resting EXCEPT !.at = "stamped", !.stop = m.id]
    BY <1>8 DEF WorkerStamps
  <2>2. Took(1, m) /\ m \in Message /\ UNCHANGED <<callback, asked>>
    BY <1>0, <1>8, <2>1, ReadyTakes DEF WorkerStamps
  <2>3. worker'.at = "stamped" /\ worker'.stop = m.id
    BY <2>1 DEF Resting
  <2>4. /\ Len(Inbox) \in Nat /\ Len(Inbox') = Len(Inbox) - 1
        /\ \A i \in 1 .. Len(Inbox') : Inbox'[i] = Inbox[i + 1]
    BY <1>0, <2>2, TookFields
  <2>5. 1 \in 1 .. Len(Inbox) /\ Inbox[1] = m /\ StopsAt(1)
    BY <2>1, <2>2 DEF Took, StopsAt
  <2>6. \A i \in 1 .. Len(Inbox') : /\ i + 1 \in 1 .. Len(Inbox) /\ 1 < i + 1
                                    /\ StopsAt(i)' => StopsAt(i + 1)
    BY <2>4 DEF StopsAt
  <2>7. ASSUME NEW x, Mark(x)'
        PROVE  /\ x <= Len(asked') /\ (worker'.at = "stamped" => x < worker'.stop)
               /\ \A i \in 1 .. Len(Inbox') : StopsAt(i)' => x < Inbox'[i].id
    <3>1. Mark(x)
      BY <2>2, <2>4, <2>6, <2>7 DEF Mark
    <3> QED BY <2>2, <2>3, <2>4, <2>5, <2>6, <3>1 DEF Named
  <2>8. ASSUME NEW i \in 1 .. Len(Inbox'), StopsAt(i)'
        PROVE  /\ worker'.stop < Inbox'[i].id
               /\ \A j \in 1 .. Len(Inbox') : i < j /\ StopsAt(j)' => Inbox'[i].id < Inbox'[j].id
    <3>1. worker'.stop < Inbox'[i].id
      BY <2>3, <2>4, <2>5, <2>6, <2>8 DEF Named
    <3>2. ASSUME NEW j \in 1 .. Len(Inbox'), i < j, StopsAt(j)' PROVE Inbox'[i].id < Inbox'[j].id
      <4>1. i + 1 < j + 1
        BY <2>4, <3>2
      <4> QED BY <2>4, <2>6, <2>8, <3>2, <4>1 DEF Named
    <3> QED BY <3>1, <3>2
  <2> QED BY <2>7, <2>8 DEF Named
<1>9. CASE WorkerDrains
  <2> DEFINE m == Head(queue)
  <2>1. /\ queue # <<>> /\ queue' = Tail(queue) /\ worker.at = "drain" /\ UNCHANGED <<callback, asked>>
        /\ \/ UNCHANGED pending
           \/ /\ pending' = Append(pending, m)
              /\ m.is # "samples" /\ m.is # "eos"
        /\ worker' = worker \/ worker' = [worker EXCEPT !.also = @ \cup {m.id}]
    BY <1>9, Zenon DEF WorkerDrains
  <2>2. worker'.stop = worker.stop /\ worker'.at = "drain"
    BY <1>0, <2>1 DEF WorkerType
  <2>3. Inbox' = Inbox \/ \E k, n : Took(k, n)
    <3>1. CASE UNCHANGED pending
      BY <1>0, <2>1, <3>1, DrainTakes
    <3>2. CASE pending' = Append(pending, m) /\ m.is # "samples" /\ m.is # "eos"
      <4>1. m \in Message
        BY <1>0, <2>1 DEF InboxType
      <4>2. m \in Command
        BY <3>2, <4>1, MessageFields DEF Command
      <4> QED BY <1>0, <2>1, <3>2, <4>2, DrainDefers
    <3> QED BY <2>1, <3>1, <3>2
  <2> QED BY <1>1, <2>1, <2>2, <2>3
<1>10. CASE DrainEnds
  <2>1. /\ queue # <<>> /\ queue' = Tail(queue) /\ UNCHANGED <<callback, asked, pending>>
        /\ worker'.at = "answered" /\ worker'.stop = 0
    BY <1>10 DEF DrainEnds, Answer, Resting
  <2>2. \E k, m : Took(k, m)
    BY <1>0, <2>1, DrainTakes
  <2> QED BY <1>1, <2>1, <2>2
<1> QED BY <1>2, <1>3, <1>4, <1>5, <1>6, <1>7, <1>8, <1>9, <1>10
  DEF Next, Input, Manager, Worker

LEMMA WaitingTaken ==
  ASSUME InboxType, InboxType', NEW k, NEW m, Took(k, m)
  PROVE  \A f : Waiting(f) => Waiting(f)' \/ (m.is = "samples" /\ f \in m.from .. m.to)
<1>1. \A i \in 1 .. Len(Inbox) : i # k => \E j \in 1 .. Len(Inbox') : Inbox'[j] = Inbox[i]
  BY TookFields
<1>2. SUFFICES ASSUME NEW f, NEW i \in 1 .. Len(Inbox),
                      Inbox[i].is = "samples" /\ f \in Inbox[i].from .. Inbox[i].to
               PROVE  Waiting(f)' \/ (m.is = "samples" /\ f \in m.from .. m.to)
  BY DEF Waiting
<1>3. CASE i = k
  BY <1>2, <1>3 DEF Took
<1>4. CASE i # k
  <2>1. PICK j \in 1 .. Len(Inbox') : Inbox'[j] = Inbox[i]
    BY <1>1, <1>4
  <2> QED BY <1>2, <2>1 DEF Waiting
<1> QED BY <1>3, <1>4

\* As long as the device's messages keep their order, what the callback and the worker
\* know stays, and no late frame is kept.
LEMMA SealKeeps ==
  ASSUME Sealed, Bounded, UNCHANGED <<stamped, eosSent, callback, deadline, delivered>>,
         worker'.at = worker.at, worker'.stop = worker.stop, worker'.raised = worker.raised,
         NEW at,
         \A i \in 1 .. Len(Inbox') : Inbox'[i].is \in Device =>
           at[i] \in 1 .. Len(Inbox) /\ Inbox'[i] = Inbox[at[i]],
         \A i, j \in 1 .. Len(Inbox') : i < j => at[i] < at[j],
         worker.at = "drain" /\ stamped => \A f : Held(f)' => Held(f) \/ f <= worker.raised
  PROVE  Sealed' /\ Bounded' /\ (Hopeful' => Hopeful)
<1>1. ASSUME NEW i \in 1 .. Len(Inbox'), Ended(i)'
      PROVE  Inbox'[i].is = "eos" /\ at[i] \in 1 .. Len(Inbox) /\ Ended(at[i])
  BY <1>1 DEF Ended, Device
<1>2. Hopeful' => Hopeful
  BY <1>1 DEF Hopeful
<1>3. Sealed'
  <2>1. SUFFICES ASSUME stamped, worker.at = "drain", NEW i \in 1 .. Len(Inbox'), Ended(i)'
                 PROVE  /\ eosSent /\ callback = Idle /\ deadline < delivered
                        /\ \A j \in i + 1 .. Len(Inbox') : Inbox'[j].is # "samples"
    BY DEF Sealed
  <2>2. at[i] \in 1 .. Len(Inbox) /\ Ended(at[i])
    BY <1>1, <2>1
  <2>3. /\ eosSent /\ callback = Idle /\ deadline < delivered
        /\ \A j \in at[i] + 1 .. Len(Inbox) : Inbox[j].is # "samples"
    BY <2>1, <2>2 DEF Sealed
  <2>4. ASSUME NEW j \in i + 1 .. Len(Inbox'), Inbox'[j].is = "samples" PROVE FALSE
    <3>1. j \in 1 .. Len(Inbox') /\ i < j
      OBVIOUS
    <3>2. at[j] \in 1 .. Len(Inbox) /\ Inbox'[j] = Inbox[at[j]] /\ at[i] < at[j]
      BY <2>4, <3>1 DEF Device
    <3>3. at[j] \in at[i] + 1 .. Len(Inbox)
      BY <2>2, <3>2
    <3> QED BY <2>3, <2>4, <3>2, <3>3
  <2> QED BY <2>3, <2>4
<1>4. Bounded'
  <2>1. SUFFICES ASSUME stamped, worker.at = "drain"
                 PROVE  /\ \A f : Held(f)' => f <= worker.raised
                        /\ \A i \in 1 .. Len(Inbox') : Inbox'[i].is = "samples" => Inbox'[i].to <= worker.raised
                        /\ callback # Idle => \/ callback.to <= worker.raised
                                              \/ callback.stopping = TRUE /\ callback.of = worker.stop
    BY DEF Bounded
  <2>2. \A f : Held(f)' => f <= worker.raised
    BY <2>1 DEF Bounded
  <2>3. ASSUME NEW i \in 1 .. Len(Inbox'), Inbox'[i].is = "samples" PROVE Inbox'[i].to <= worker.raised
    BY <2>1, <2>3 DEF Bounded, Device
  <2> QED BY <2>1, <2>2, <2>3 DEF Bounded
<1> QED BY <1>2, <1>3, <1>4

\* What the callback's chunk becomes: kept up to the deadline of the stop that the worker
\* is in, and ended past it.
LEMMA SendsWhole ==
  ASSUME Types, Types', Flags, CallbackSends, stamped, NEW s \in Seq(Message),
         NEW keep \in callback.from - 1 .. callback.to, NEW eos \in BOOLEAN, Adds(s, keep, eos),
         ~callback.stopping => keep = callback.to /\ ~eos,
         callback.stopping => LET cut == IF deadline = Unset THEN now ELSE deadline
                              IN /\ \A x \in callback.from .. callback.to : x <= keep <=> x <= cut
                                 /\ eos <=> cut < callback.to
  PROVE  /\ callback # Idle /\ callback' = Idle
         /\ callback.stopping \in BOOLEAN /\ callback.from \in Nat \ {0} /\ callback.to = delivered
         /\ eos => callback.stopping = TRUE /\ deadline # Unset /\ deadline < delivered
         /\ \A f \in callback.from .. callback.to :
              \/ Waiting(f)'
              \/ callback.stopping = TRUE /\ deadline # Unset /\ deadline < f
         /\ callback.from <= keep /\ callback.stopping = TRUE /\ deadline # Unset => keep <= deadline
         /\ \A f : Waiting(f) => Waiting(f)'
<1> USE DEF device, shared, heard, input, history, calls
<1>1. /\ Clock /\ InboxType /\ InboxType'
      /\ callback # Idle /\ callback' = Idle /\ callback.to = delivered /\ delivered <= now
      /\ callback.stopping \in BOOLEAN /\ callback.from \in Nat \ {0} /\ callback.to \in Nat
      /\ delivered \in Nat /\ now \in Nat /\ deadline \in {Unset} \cup Nat
  BY CallbackPlan DEF CallbackSends, Types, Clock, CallbackType
<1>2. eos => callback.stopping = TRUE /\ deadline # Unset /\ deadline < delivered
  BY <1>1
<1>3. /\ Len(Inbox) \in Nat /\ Len(s) \in Nat /\ Len(Inbox') = Len(Inbox) + Len(s)
      /\ \A i \in 1 .. Len(Inbox) : Inbox'[i] = Inbox[i]
      /\ \A i \in 1 .. Len(Inbox') : i > Len(Inbox) => Inbox'[i] = s[i - Len(Inbox)]
  BY <1>1, AddedFields DEF Adds
<1>4. \A f : Waiting(f) => Waiting(f)'
  BY <1>3 DEF Waiting
<1>5. ASSUME NEW f \in callback.from .. callback.to
      PROVE  \/ Waiting(f)'
             \/ callback.stopping = TRUE /\ deadline # Unset /\ deadline < f
  <2>1. CASE f <= keep
    <3>1. callback.from <= keep /\ f \in callback.from .. keep
      BY <1>1, <2>1
    <3>2. Len(s) >= 1 /\ s[1].is = "samples" /\ s[1].from = callback.from /\ s[1].to = keep
      <4>1. Len(s) >= 1 /\ s[1].is = "samples"
        BY <3>1 DEF Adds
      <4>2. 1 \in 1 .. Len(s)
        BY <1>3, <4>1
      <4> QED BY <4>1, <4>2 DEF Adds
    <3>3. /\ Len(Inbox) + 1 \in 1 .. Len(Inbox') /\ Len(Inbox) + 1 > Len(Inbox)
          /\ Len(Inbox) + 1 - Len(Inbox) = 1
      BY <1>3, <3>2
    <3>4. Inbox'[Len(Inbox) + 1] = s[1]
      BY <1>3, <3>3
    <3> QED BY <3>1, <3>2, <3>3, <3>4 DEF Waiting
  <2>2. CASE ~(f <= keep)
    <3>1. callback.stopping = TRUE
      BY <1>1, <2>2
    <3>2. ~(f <= IF deadline = Unset THEN now ELSE deadline)
      BY <2>2, <3>1
    <3> QED BY <1>1, <3>1, <3>2
  <2> QED BY <2>1, <2>2
<1>6. callback.from <= keep /\ callback.stopping = TRUE /\ deadline # Unset => keep <= deadline
  <2>1. SUFFICES ASSUME callback.from <= keep, callback.stopping = TRUE, deadline # Unset
                 PROVE  keep <= deadline
    OBVIOUS
  <2>2. keep \in callback.from .. callback.to
    BY <1>1, <2>1
  <2>3. keep <= keep <=> keep <= deadline
    BY <2>1, <2>2
  <2> QED BY <1>1, <2>2, <2>3
<1> QED BY <1>1, <1>2, <1>4, <1>5, <1>6

\* Steps that neither lose a frame that waits nor move the callback or the worker.
LEMMA WholeStays ==
  ASSUME Covered, Sealed, Bounded,
         UNCHANGED <<stamped, eosSent, callback, deadline, delivered, recording>>,
         take'.since = take.since,
         worker'.at = worker.at, worker'.stop = worker.stop, worker'.raised = worker.raised,
         NEW at,
         \A i \in 1 .. Len(Inbox') : Inbox'[i].is \in Device =>
           at[i] \in 1 .. Len(Inbox) /\ Inbox'[i] = Inbox[at[i]],
         \A i, j \in 1 .. Len(Inbox') : i < j => at[i] < at[j],
         worker.at = "drain" /\ stamped => \A f : Held(f)' => Held(f) \/ f <= worker.raised,
         \A f : Held(f) \/ Waiting(f) => Held(f)' \/ Waiting(f)',
         \A f : Due(f)' => Due(f) \/ f > delivered
  PROVE  Covered' /\ Sealed' /\ Bounded'
<1>1. Sealed' /\ Bounded' /\ (Hopeful' => Hopeful)
  BY SealKeeps
<1>2. Taking' => Taking
  BY <1>1 DEF Taking
<1>3. \A f : Held(f) \/ Flying(f) => Held(f)' \/ Flying(f)'
  BY DEF Flying
<1>4. \A f : f > delivered => Flying(f)'
  BY DEF Flying
<1>5. Covered'
  <2>1. SUFFICES ASSUME Taking', NEW f, Due(f)' PROVE Held(f)' \/ Flying(f)'
    BY DEF Covered
  <2>2. CASE Due(f)
    <3>1. Held(f) \/ Flying(f)
      BY <1>2, <2>1, <2>2 DEF Covered
    <3> QED BY <1>3, <3>1
  <2> QED BY <1>4, <2>1, <2>2
<1> QED BY <1>1, <1>5

\* The callback loads the flag: the chunk it drops lies past the deadline.
LEMMA LoadsWhole ==
  ASSUME Types, Flags, Covered, Sealed, Bounded, CallbackLoads
  PROVE  Covered' /\ Sealed' /\ Bounded'
<1> USE DEF device, shared, heard, input, history, calls
<1>0. Clock /\ InboxType
  BY DEF Types
<1>1. PICK to \in delivered + 1 .. now :
        /\ delivered' = to
        /\ callback' = IF stopFlag /\ eosSent THEN Idle
                       ELSE [at |-> "holds", from |-> delivered + 1, to |-> to,
                             stopping |-> stopFlag, of |-> worker.stop]
  BY DEF CallbackLoads
<1>2. /\ UNCHANGED <<now, stamped, eosSent, stopFlag, deadline, queue, pending, worker, recording, take>>
      /\ callback = Idle
  BY DEF CallbackLoads
<1>3. Inbox' = Inbox
  BY <1>2 DEF Inbox
<1>4. /\ stopFlag /\ eosSent => callback' = Idle
      /\ ~(stopFlag /\ eosSent) => /\ callback'.from = delivered + 1 /\ callback'.to = to
                                   /\ callback'.stopping = stopFlag /\ callback'.of = worker.stop
                                   /\ callback' # Idle
  <2>1. CASE stopFlag /\ eosSent
    BY <1>1, <2>1
  <2>2. CASE ~(stopFlag /\ eosSent)
    <3>1. callback' = [at |-> "holds", from |-> delivered + 1, to |-> to,
                       stopping |-> stopFlag, of |-> worker.stop]
      BY <1>1, <2>2
    <3>2. callback'.at = "holds" /\ Idle.at = "idle"
      BY <3>1 DEF Idle
    <3>3. callback' # Idle
      BY <3>2
    <3> QED BY <2>2, <3>1, <3>3
  <2> QED BY <2>1, <2>2
<1>5. delivered \in Nat /\ to \in Nat /\ delivered < to
  BY <1>0, <1>1 DEF Clock
<1>6. \A i : Ended(i)' <=> Ended(i)
  BY <1>2, <1>3 DEF Ended
<1>7. \A f : (Held(f)' <=> Held(f)) /\ (Waiting(f)' <=> Waiting(f)) /\ (Due(f)' <=> Due(f))
  BY <1>2, <1>3 DEF Held, Waiting, Due, InStop
<1>8. Sealed'
  <2>1. SUFFICES ASSUME stamped, worker.at = "drain", NEW i \in 1 .. Len(Inbox), Ended(i)
                 PROVE  /\ eosSent' /\ callback' = Idle /\ deadline' < delivered'
                        /\ \A j \in i + 1 .. Len(Inbox) : Inbox[j].is # "samples"
    BY <1>2, <1>3, <1>6 DEF Sealed
  <2>2. /\ eosSent /\ deadline < delivered
        /\ \A j \in i + 1 .. Len(Inbox) : Inbox[j].is # "samples"
    BY <2>1 DEF Sealed
  <2>3. stopFlag = TRUE /\ deadline \in Int
    BY <1>0, <2>1 DEF Flags, Clock, Unset
  <2> QED BY <1>1, <1>2, <1>4, <1>5, <2>2, <2>3
<1>9. Bounded'
  <2>1. SUFFICES ASSUME stamped, worker.at = "drain"
                 PROVE  callback' # Idle => callback'.stopping = TRUE /\ callback'.of = worker'.stop
    BY <1>2, <1>3, <1>7 DEF Bounded
  <2>2. stopFlag = TRUE
    BY <2>1 DEF Flags
  <2> QED BY <1>2, <1>4, <2>2
<1>10. Taking' => Taking /\ (callback' = Idle => worker.at = "drain" /\ \E i \in 1 .. Len(Inbox) : Ended(i))
  <2>1. SUFFICES ASSUME Taking' PROVE Taking /\ (callback' = Idle => worker.at = "drain" /\ \E i \in 1 .. Len(Inbox) : Ended(i))
    OBVIOUS
  <2>2. recording /\ stamped /\ (worker.at \in {"recv", "stamped"} \/ (worker.at = "drain" /\ Hopeful'))
    BY <1>2, <2>1 DEF Taking
  <2>3. CASE worker.at \in {"recv", "stamped"}
    <3>1. stopFlag = FALSE
      BY <2>3 DEF Flags
    <3> QED BY <1>4, <2>2, <2>3, <3>1 DEF Taking
  <2>4. CASE worker.at = "drain" /\ Hopeful'
    <3>1. stopFlag = TRUE
      BY <2>4 DEF Flags
    <3>2. \/ ~eosSent
          \/ \E i \in 1 .. Len(Inbox) : Ended(i)
          \/ callback' # Idle
      BY <1>2, <1>3, <1>6, <2>4 DEF Hopeful
    <3>3. ~eosSent \/ \E i \in 1 .. Len(Inbox) : Ended(i)
      BY <1>4, <3>1, <3>2
    <3>4. callback' = Idle => \E i \in 1 .. Len(Inbox) : Ended(i)
      BY <1>4, <3>1, <3>3
    <3> QED BY <2>2, <2>4, <3>3, <3>4 DEF Taking, Hopeful
  <2> QED BY <2>2, <2>3, <2>4
<1>11. Covered'
  <2>1. SUFFICES ASSUME Taking', NEW f, Due(f) PROVE Held(f)' \/ Flying(f)'
    BY <1>7 DEF Covered
  <2>2. Held(f) \/ Waiting(f) \/ f > delivered
    BY <1>2, <1>10, <2>1 DEF Covered, Flying
  <2>3. CASE f > delivered
    <3>1. f \in Nat /\ deadline \in Int
      BY <1>0, <1>5, <2>1, <2>3 DEF Due, Clock, Unset
    <3>2. CASE callback' # Idle
      <4>1. callback'.from = delivered + 1 /\ callback'.to = to
        BY <1>4, <3>2
      <4> QED BY <1>1, <1>5, <2>3, <3>1, <3>2, <4>1 DEF Flying
    <3>3. CASE callback' = Idle
      <4>1. worker.at = "drain" /\ stamped /\ \E i \in 1 .. Len(Inbox) : Ended(i)
        BY <1>10, <2>1, <3>3 DEF Taking
      <4>2. deadline < delivered
        BY <4>1 DEF Sealed
      <4>3. f <= deadline
        BY <2>1, <4>1 DEF Due, InStop
      <4> QED BY <1>5, <2>3, <3>1, <4>2, <4>3
    <3> QED BY <3>2, <3>3
  <2> QED BY <1>7, <2>2, <2>3 DEF Flying
<1> QED BY <1>8, <1>9, <1>11

\* The callback hands its chunk over.
LEMMA SendsKeeps ==
  ASSUME Types, Flags, Covered, Sealed, Bounded, CallbackSends
  PROVE  Covered' /\ Sealed' /\ Bounded'
<1> USE DEF device, shared, heard, input, history, calls
<1>0. /\ Types' /\ InboxType /\ InboxType' /\ WorkerType /\ Clock
      /\ UNCHANGED <<now, stamped, delivered, deadline, worker, recording, take>>
  <2>1. [Next]_vars
    BY DEF Next, Input
  <2> QED BY <2>1, NextTypes DEF Types, CallbackSends
<1>1. CASE ~stamped
  BY <1>0, <1>1 DEF Covered, Taking, Sealed, Bounded
<1>2. CASE stamped
  <2>1. PICK s \in Seq(Message), keep \in callback.from - 1 .. callback.to, eos \in BOOLEAN :
          /\ Adds(s, keep, eos)
          /\ ~callback.stopping => keep = callback.to /\ ~eos
          /\ callback.stopping =>
               LET cut == IF deadline = Unset THEN now ELSE deadline
               IN /\ \A x \in callback.from .. callback.to : x <= keep <=> x <= cut
                  /\ eos <=> cut < callback.to
    BY <1>2, CallbackPlan
  <2>2. /\ callback # Idle /\ callback' = Idle
        /\ callback.stopping \in BOOLEAN /\ callback.from \in Nat \ {0} /\ callback.to = delivered
        /\ eos => callback.stopping = TRUE /\ deadline # Unset /\ deadline < delivered
        /\ \A f \in callback.from .. callback.to :
             \/ Waiting(f)'
             \/ callback.stopping = TRUE /\ deadline # Unset /\ deadline < f
        /\ callback.from <= keep /\ callback.stopping = TRUE /\ deadline # Unset => keep <= deadline
        /\ \A f : Waiting(f) => Waiting(f)'
    BY <1>0, <1>2, <2>1, SendsWhole
  <2>3. /\ Len(Inbox) \in Nat /\ Len(s) \in Nat /\ Len(Inbox') = Len(Inbox) + Len(s)
        /\ \A i \in 1 .. Len(Inbox) : Inbox'[i] = Inbox[i]
        /\ \A i \in 1 .. Len(Inbox') : i > Len(Inbox) => /\ i - Len(Inbox) \in 1 .. Len(s)
                                                         /\ Inbox'[i] = s[i - Len(Inbox)]
    BY <1>0, <2>1, AddedFields DEF Adds
  <2>4. ASSUME NEW i \in 1 .. Len(Inbox'), i > Len(Inbox)
        PROVE  \/ Inbox'[i].is = "samples" /\ Inbox'[i].to = keep /\ callback.from <= keep
               \/ Inbox'[i].is = "eos" /\ Inbox'[i].of = callback.of /\ eos /\ i = Len(Inbox')
    <3>1. i - Len(Inbox) \in 1 .. Len(s) /\ Inbox'[i] = s[i - Len(Inbox)]
      BY <2>3, <2>4
    <3>2. i - Len(Inbox) = Len(s) => i = Len(Inbox')
      BY <2>3
    <3> QED BY <2>1, <3>1, <3>2 DEF Adds
  <2>5. eosSent' = (eos \/ (eosSent /\ callback.stopping))
    BY <2>1 DEF Adds
  <2>6. ASSUME NEW i \in 1 .. Len(Inbox'), Ended(i)'
        PROVE  \/ i \in 1 .. Len(Inbox) /\ Ended(i)
               \/ eos /\ callback.of = worker.stop /\ i = Len(Inbox')
    <3>1. CASE i \in 1 .. Len(Inbox)
      BY <1>0, <2>3, <2>6, <3>1 DEF Ended
    <3>2. CASE i > Len(Inbox)
      BY <1>0, <2>4, <2>6, <3>2 DEF Ended
    <3> QED BY <2>3, <3>1, <3>2
  <2>7. Sealed'
    <3>1. SUFFICES ASSUME worker.at = "drain", NEW i \in 1 .. Len(Inbox'), Ended(i)'
                   PROVE  /\ eosSent' = TRUE /\ callback' = Idle /\ deadline < delivered
                          /\ \A j \in i + 1 .. Len(Inbox') : Inbox'[j].is # "samples"
      BY <1>0 DEF Sealed
    <3>2. CASE i \in 1 .. Len(Inbox) /\ Ended(i)
      BY <1>2, <2>2, <3>1, <3>2 DEF Sealed
    <3>3. CASE eos /\ i = Len(Inbox')
      <4>1. \A j \in i + 1 .. Len(Inbox') : FALSE
        BY <2>3, <3>3
      <4> QED BY <2>2, <2>5, <3>3, <4>1
    <3> QED BY <2>6, <3>1, <3>2, <3>3
  <2>8. Bounded'
    <3>1. SUFFICES ASSUME worker.at = "drain"
                   PROVE  /\ \A f : Held(f)' => f <= worker.raised
                          /\ \A i \in 1 .. Len(Inbox') : Inbox'[i].is = "samples" => Inbox'[i].to <= worker.raised
      BY <1>0, <2>2 DEF Bounded
    <3>2. \A f : Held(f)' => f <= worker.raised
      BY <1>0, <1>2, <3>1 DEF Bounded, Held
    <3>3. ASSUME NEW i \in 1 .. Len(Inbox'), Inbox'[i].is = "samples"
          PROVE  Inbox'[i].to <= worker.raised
      <4>1. CASE i \in 1 .. Len(Inbox)
        BY <1>2, <2>3, <3>1, <3>3, <4>1 DEF Bounded
      <4>2. CASE i > Len(Inbox)
        <5>1. Inbox'[i].to = keep /\ callback.from <= keep
          BY <2>4, <3>3, <4>2
        <5>2. deadline \in Nat /\ deadline <= worker.raised /\ worker.raised \in Nat /\ deadline # Unset
          BY <1>0, <3>1 DEF Flags, InStop, Unset, WorkerType
        <5>3. CASE callback.stopping = TRUE
          BY <2>2, <5>1, <5>2, <5>3
        <5>4. CASE callback.stopping = FALSE
          <6>1. keep = callback.to
            BY <2>1, <5>4
          <6>2. callback.to <= worker.raised
            BY <1>2, <2>2, <3>1, <5>4 DEF Bounded
          <6> QED BY <5>1, <6>1, <6>2
        <5> QED BY <2>2, <5>3, <5>4
      <4> QED BY <2>3, <4>1, <4>2
    <3> QED BY <3>2, <3>3
  <2>9. Taking' => Taking
    <3>1. Hopeful' => Hopeful
      <4>1. CASE ~eosSent'
        BY <2>2, <2>5, <4>1 DEF Hopeful
      <4>2. ASSUME NEW i \in 1 .. Len(Inbox'), Ended(i)' PROVE Hopeful
        BY <2>2, <2>6, <4>2 DEF Hopeful
      <4> QED BY <2>2, <4>1, <4>2 DEF Hopeful
    <3> QED BY <1>0, <3>1 DEF Taking
  <2>10. Covered'
    <3>1. SUFFICES ASSUME Taking, NEW f, Due(f) PROVE Held(f)' \/ Flying(f)'
      BY <1>0, <2>9 DEF Covered, Due, InStop
    <3>2. Held(f) \/ Waiting(f) \/ f > delivered \/ f \in callback.from .. callback.to
      BY <3>1 DEF Covered, Flying
    <3>3. CASE f \in callback.from .. callback.to
      <4>1. CASE Waiting(f)'
        BY <4>1 DEF Flying
      <4>2. CASE deadline # Unset /\ deadline < f
        <5>1. InStop
          BY <3>1, <4>2 DEF Flags, Taking, InStop
        <5>2. f <= deadline /\ deadline \in Nat /\ f \in Int
          BY <3>1, <3>3, <5>1 DEF Due, Flags
        <5> QED BY <4>2, <5>2
      <4> QED BY <2>2, <3>3, <4>1, <4>2
    <3> QED BY <1>0, <2>2, <3>2, <3>3 DEF Held, Flying
  <2> QED BY <2>7, <2>8, <2>10
<1> QED BY <1>0, <1>1, <1>2 DEF Clock

Whole == Covered /\ Sealed /\ Bounded /\ CleanTakeIsWhole

LEMMA NextWhole ==
  ASSUME Types, Serving, Once, Flags, Named, Whole, [Next]_vars
  PROVE  Whole'
<1> USE DEF device, shared, heard, input, history, calls
<1>0. /\ Clock /\ CallbackType /\ WorkerType /\ InboxType /\ AudioType /\ Types' /\ InboxType'
      /\ Covered /\ Sealed /\ Bounded /\ CleanTakeIsWhole /\ Mirrors
  BY NextTypes DEF Types, Serving, Whole
<1>a. take.frames \in Seq(Nat)
  BY <1>0 DEF AudioType, TakeType
<1>b. ASSUME UNCHANGED reply PROVE CleanTakeIsWhole'
  BY <1>0, <1>b DEF CleanTakeIsWhole
<1>c. ASSUME worker'.at # "drain" PROVE Sealed' /\ Bounded'
  BY <1>c DEF Sealed, Bounded
<1>d. ASSUME ~recording' PROVE Covered'
  BY <1>d DEF Covered, Taking
\* The messages keep their order, and no frame that waits is lost.
<1>1. ASSUME UNCHANGED <<now, stamped, eosSent, callback, deadline, delivered, recording, reply>>,
             take'.since = take.since,
             worker'.at = worker.at, worker'.stop = worker.stop, worker'.raised = worker.raised,
             Inbox' = Inbox \/ \E k, m : Took(k, m),
             worker.at = "drain" /\ stamped => \A f : Held(f)' => Held(f) \/ f <= worker.raised,
             \A f : Held(f) \/ Waiting(f) => Held(f)' \/ Waiting(f)'
      PROVE  Whole'
  <2>1. PICK at \in [1 .. Len(Inbox') -> 1 .. Len(Inbox)] :
          /\ \A i \in 1 .. Len(Inbox') : Inbox'[i] = Inbox[at[i]]
          /\ \A i, j \in 1 .. Len(Inbox') : i < j => at[i] < at[j]
    BY <1>0, <1>1, Shrunk
  <2>2. \A i \in 1 .. Len(Inbox') : Inbox'[i].is \in Device =>
          at[i] \in 1 .. Len(Inbox) /\ Inbox'[i] = Inbox[at[i]]
    BY <2>1
  <2>3. \A f : Due(f)' => Due(f) \/ f > delivered
    BY <1>1 DEF Due, InStop
  <2>4. Covered' /\ Sealed' /\ Bounded'
    BY <1>0, <1>1, <2>1, <2>2, <2>3, WholeStays
  <2> QED BY <1>1, <1>b, <2>4 DEF Whole
<1>2. CASE \/ DeviceStalls \/ DeviceResumes \/ StopGivesUp \/ UNCHANGED vars
  <2>1. UNCHANGED <<now, stamped, eosSent, callback, deadline, delivered, recording, reply, take,
                    worker, queue, pending>>
    BY <1>2 DEF DeviceStalls, DeviceResumes, StopGivesUp, vars
  <2>2. Inbox' = Inbox
    BY <2>1 DEF Inbox
  <2> QED BY <1>1, <2>1, <2>2 DEF Held, Waiting
<1>3. CASE Capture
  <2>1. /\ UNCHANGED <<stamped, eosSent, callback, deadline, delivered, recording, reply, take,
                      worker, queue, pending>>
        /\ now' = now + 1
    BY <1>3 DEF Capture
  <2>2. Inbox' = Inbox
    BY <2>1 DEF Inbox
  <2>3. \A f : Due(f)' => Due(f) \/ f > delivered
    BY <1>0, <2>1 DEF Due, InStop, Clock, AudioType, TakeType
  <2> DEFINE at == [i \in 1 .. Len(Inbox) |-> i]
  <2>4. /\ \A i \in 1 .. Len(Inbox') : Inbox'[i].is \in Device =>
             at[i] \in 1 .. Len(Inbox) /\ Inbox'[i] = Inbox[at[i]]
        /\ \A i, j \in 1 .. Len(Inbox') : i < j => at[i] < at[j]
    BY <2>2
  <2> HIDE DEF at
  <2>5. /\ worker.at = "drain" /\ stamped => \A f : Held(f)' => Held(f) \/ f <= worker.raised
        /\ \A f : Held(f) \/ Waiting(f) => Held(f)' \/ Waiting(f)'
    BY <2>1, <2>2 DEF Held, Waiting
  <2>6. Covered' /\ Sealed' /\ Bounded'
    BY <1>0, <2>1, <2>3, <2>4, <2>5, WholeStays
  <2> QED BY <1>b, <2>1, <2>6 DEF Whole
<1>4. CASE CallbackLoads
  <2>1. UNCHANGED reply
    BY <1>4 DEF CallbackLoads
  <2> QED BY <1>0, <1>4, <1>b, <2>1, LoadsWhole DEF Whole
<1>5. CASE CallbackSends
  <2>1. UNCHANGED reply
    BY <1>5 DEF CallbackSends
  <2> QED BY <1>0, <1>5, <1>b, <2>1, SendsKeeps DEF Whole
<1>6. CASE CallStart \/ CallStop \/ CallClose
  <2> DEFINE l == Len(Inbox) + 1
             at == [i \in 1 .. l |-> i]
  <2>1. /\ UNCHANGED <<now, stamped, delivered, callback, eosSent, deadline, worker, recording, take,
                        reply>>
        /\ Len(Inbox) \in Nat /\ Len(Inbox') = l
        /\ \A i \in 1 .. Len(Inbox) : Inbox'[i] = Inbox[i]
        /\ Inbox'[l].is \notin {"samples", "eos"}
    BY <1>0, <1>6, CallAdds
  <2>2. \A i \in 1 .. Len(Inbox') : i \in 1 .. Len(Inbox) \/ i = l
    BY <2>1
  <2>3. /\ \A i \in 1 .. Len(Inbox') : Inbox'[i].is \in Device =>
             at[i] \in 1 .. Len(Inbox) /\ Inbox'[i] = Inbox[at[i]]
        /\ \A i, j \in 1 .. Len(Inbox') : i < j => at[i] < at[j]
    <3>1. \A i \in 1 .. Len(Inbox') : at[i] = i
      BY <2>1
    <3> HIDE DEF at, l
    <3> QED BY <2>1, <2>2, <3>1 DEF Device
  <2>4. \A f : Waiting(f) => Waiting(f)'
    BY <2>1 DEF Waiting
  <2> HIDE DEF at, l
  <2>5. /\ worker.at = "drain" /\ stamped => \A f : Held(f)' => Held(f) \/ f <= worker.raised
        /\ \A f : Held(f) \/ Waiting(f) => Held(f)' \/ Waiting(f)'
    BY <2>1, <2>4 DEF Held
  <2>6. \A f : Due(f)' => Due(f) \/ f > delivered
    BY <2>1 DEF Due, InStop
  <2>7. Covered' /\ Sealed' /\ Bounded'
    BY <1>0, <2>1, <2>3, <2>5, <2>6, WholeStays
  <2> QED BY <1>b, <2>1, <2>7 DEF Whole
<1>7. CASE CallOpen
  <2>1. recording' = FALSE /\ worker'.at = "recv" /\ UNCHANGED reply
    BY <1>7 DEF CallOpen, Resting
  <2> QED BY <1>b, <1>c, <1>d, <2>1 DEF Whole
\* What is heard moves from the Inbox to the take.
<1>8. CASE WorkerHears
  <2>1. PICK m \in Messages :
          /\ Ready(m) /\ m.is = "samples"
          /\ recording => Heard(Chunk(m), TRUE)
    BY <1>8, Zenon DEF WorkerHears
  <2>2. /\ UNCHANGED <<now, stamped, eosSent, callback, deadline, delivered, recording, reply, worker>>
        /\ worker.at = "recv"
    BY <1>8, <2>1 DEF WorkerHears, Ready
  <2>3. CASE recording
    <3>1. Took(1, m) /\ m \in Message
      BY <1>0, <2>1, ReadyTakes
    <3>2. /\ Chunk(m) \in Seq(Nat) /\ TRUE \in BOOLEAN
          /\ \A f : f \in Range(Chunk(m)) <=> f \in m.from .. m.to
      BY <2>1, <3>1, ChunkRises
    <3>3. take'.frames = take.frames \o Chunk(m) /\ take'.since = take.since
      BY <1>0, <2>1, <2>3, <3>2, HeardTypes, Zenon
    <3>4. Range(take'.frames) = Range(take.frames) \cup Range(Chunk(m))
      BY <1>a, <3>2, <3>3, RangeConcatenation
    <3>5. \A f : Waiting(f) => Waiting(f)' \/ (m.is = "samples" /\ f \in m.from .. m.to)
      BY <1>0, <3>1, WaitingTaken
    <3>6. \A f : Held(f) \/ Waiting(f) => Held(f)' \/ Waiting(f)'
      BY <3>2, <3>4, <3>5 DEF Held
    <3> QED BY <1>1, <2>2, <3>1, <3>3, <3>6
  <2>4. CASE ~recording
    BY <1>b, <1>c, <1>d, <2>2, <2>4 DEF Whole
  <2> QED BY <2>3, <2>4
<1>9. CASE WorkerSkips
  <2>1. PICK m : Took(1, m) /\ m.is = "eos" /\ worker.at = "recv"
    BY <1>0, <1>9, ReadyTakes DEF WorkerSkips, Ready
  <2>2. UNCHANGED <<now, stamped, eosSent, callback, deadline, delivered, recording, reply, take,
                    worker>>
    BY <1>9 DEF WorkerSkips
  <2>3. \A f : Waiting(f) => Waiting(f)'
    <3>1. \A f : Waiting(f) => Waiting(f)' \/ (m.is = "samples" /\ f \in m.from .. m.to)
      BY <1>0, <2>1, WaitingTaken
    <3> QED BY <2>1, <3>1
  <2> QED BY <1>1, <2>1, <2>2, <2>3 DEF Held
\* Nothing is due to a take that begins.
<1>10. CASE WorkerStarts
  <2>1. worker.at = "recv" /\ UNCHANGED <<worker, reply, now>>
    BY <1>10 DEF WorkerStarts, Ready
  <2>2. take'.since = now /\ now \in Nat
    BY <1>0, <1>10 DEF WorkerStarts, Seeded, Clock
  <2>3. \A f : ~Due(f)'
    BY <2>1, <2>2 DEF Due
  <2>4. Covered'
    BY <2>3 DEF Covered
  <2> QED BY <1>b, <1>c, <2>1, <2>4 DEF Whole
<1>11. CASE WorkerStamps
  <2>1. PICK m \in Messages :
          Ready(m) /\ m.is = "stop" /\ worker' = [Resting EXCEPT !.at = "stamped", !.stop = m.id]
    BY <1>11 DEF WorkerStamps
  <2>2. /\ worker.at = "recv" /\ worker'.at = "stamped"
        /\ UNCHANGED <<now, delivered, callback, recording, stamped, take, reply>>
    BY <1>11, <2>1 DEF WorkerStamps, Ready, Resting
  <2>3. \A f : Waiting(f) => Waiting(f)'
    <3>1. Took(1, m)
      BY <1>0, <2>1, ReadyTakes
    <3>2. \A f : Waiting(f) => Waiting(f)' \/ (m.is = "samples" /\ f \in m.from .. m.to)
      BY <1>0, <3>1, WaitingTaken
    <3> QED BY <2>1, <3>2
  <2>4. (Taking' => Taking) /\ \A f : Due(f)' => Due(f)
    BY <2>2 DEF Taking, Due, InStop
  <2>5. Covered'
    BY <1>0, <2>2, <2>3, <2>4 DEF Covered, Held, Flying
  <2> QED BY <1>b, <1>c, <2>2, <2>5 DEF Whole
\* When the flag goes up, no end of this stop is on its way, and all audio is older.
<1>12. CASE WorkerRaises
  <2>1. /\ worker.at = "stamped" /\ worker'.at = "drain" /\ worker'.raised = now
        /\ worker'.stop = worker.stop /\ worker.stop \in Nat
        /\ UNCHANGED <<now, delivered, callback, recording, stamped, take, reply, deadline, eosSent,
                       queue, pending>>
    BY <1>0, <1>12 DEF WorkerRaises, WorkerType
  <2>2. Inbox' = Inbox
    BY <2>1 DEF Inbox
  <2>3. (Taking' => Taking) /\ \A f : (Due(f)' => Due(f)) /\ (Waiting(f) => Waiting(f)')
    BY <2>1, <2>2 DEF Taking, Due, InStop, Waiting
  <2>4. Covered'
    BY <1>0, <2>1, <2>3 DEF Covered, Held, Flying
  <2>5. Sealed'
    <3>1. SUFFICES ASSUME NEW i \in 1 .. Len(Inbox), Inbox[i].is = "eos" /\ Inbox[i].of = worker.stop
                   PROVE  FALSE
      BY <2>1, <2>2 DEF Sealed, Ended
    <3>2. Mark(worker.stop)
      BY <3>1 DEF Mark
    <3>3. worker.stop < worker.stop
      BY <2>1, <3>2 DEF Named
    <3> QED BY <2>1, <3>3
  <2>6. Bounded'
    <3>1. \A f : Held(f) => f <= now
      <4>1. SUFFICES ASSUME NEW f, Held(f) PROVE f <= now
        OBVIOUS
      <4>2. f \in Nat /\ f <= delivered
        BY <1>a, <4>1, RangeIs DEF Held, Once, Owned, Past
      <4> QED BY <1>0, <4>2 DEF Clock
    <3>2. ASSUME NEW i \in 1 .. Len(Inbox), Inbox[i].is = "samples" PROVE Inbox[i].to <= now
      <4>1. Inbox[i].to \in Nat /\ Inbox[i].to <= delivered
        BY <1>0, <3>2, InboxFields, MessageFields DEF Once, Lined
      <4> QED BY <1>0, <4>1 DEF Clock
    <3>3. callback # Idle => callback.to <= now
      BY <1>0 DEF CallbackType, Clock
    <3> QED BY <2>1, <2>2, <3>1, <3>2, <3>3 DEF Bounded, Held
  <2> QED BY <1>b, <2>1, <2>4, <2>5, <2>6 DEF Whole
\* A drain keeps audio as the live take does; what it takes, it takes in order.
<1>13. CASE WorkerDrains
  <2> DEFINE m == Head(queue)
  <2>1. /\ worker.at = "drain" /\ queue # <<>> /\ queue' = Tail(queue) /\ m.is # "eos"
        /\ UNCHANGED <<now, stamped, eosSent, callback, deadline, delivered, recording, reply>>
        /\ worker' = worker \/ worker' = [worker EXCEPT !.also = @ \cup {m.id}]
    BY <1>13, Zenon DEF WorkerDrains
  <2>2. /\ worker'.at = worker.at /\ worker'.stop = worker.stop /\ worker'.raised = worker.raised
        /\ worker.raised \in Nat
    BY <1>0, <2>1 DEF WorkerType
  <2>3. CASE m.is = "samples"
    <3>1. Heard(Chunk(m), FALSE) /\ pending' = pending
      BY <1>13, <2>3, Zenon DEF WorkerDrains
    <3>2. Took(Len(pending) + 1, m) /\ m \in Message
      BY <1>0, <2>1, <3>1, DrainTakes
    <3>3. /\ Chunk(m) \in Seq(Nat) /\ FALSE \in BOOLEAN
          /\ \A f : f \in Range(Chunk(m)) <=> f \in m.from .. m.to
      BY <2>3, <3>2, ChunkRises
    <3>4. take'.frames = take.frames \o Chunk(m) /\ take'.since = take.since
      BY <1>0, <3>1, <3>3, HeardTypes, Zenon
    <3>5. Range(take'.frames) = Range(take.frames) \cup Range(Chunk(m))
      BY <1>a, <3>3, <3>4, RangeConcatenation
    <3> HIDE DEF m
    <3>6. \A f : Waiting(f) => Waiting(f)' \/ (m.is = "samples" /\ f \in m.from .. m.to)
      BY <1>0, <3>2, WaitingTaken
    <3>7. \A f : Held(f) \/ Waiting(f) => Held(f)' \/ Waiting(f)'
      BY <3>3, <3>5, <3>6 DEF Held
    <3>8. stamped => \A f : Held(f)' => Held(f) \/ f <= worker.raised
      <4>1. SUFFICES ASSUME stamped, NEW f \in m.from .. m.to PROVE f <= worker.raised
        BY <3>3, <3>5 DEF Held
      <4>2. Len(pending) + 1 \in 1 .. Len(Inbox) /\ m = Inbox[Len(pending) + 1]
        BY <3>2 DEF Took
      <4>3. m.to <= worker.raised
        BY <1>0, <2>1, <2>3, <4>1, <4>2 DEF Bounded
      <4>4. m.from \in Nat /\ m.to \in Nat
        BY <2>3, <3>2, MessageFields
      <4> QED BY <2>2, <4>3, <4>4
    <3>9. \E k, n : Took(k, n)
      BY <3>2
    <3> QED BY <1>1, <2>1, <2>2, <3>4, <3>7, <3>8, <3>9
  <2>4. CASE m.is # "samples"
    <3>1. UNCHANGED take
      BY <1>13, <2>4, Zenon DEF WorkerDrains
    <3>2. (Inbox' = Inbox \/ \E k, n : Took(k, n)) /\ \A f : Waiting(f) => Waiting(f)'
      <4>1. CASE pending' = pending
        <5>1. Took(Len(pending) + 1, m)
          BY <1>0, <2>1, <4>1, DrainTakes
        <5>2. \A f : Waiting(f) => Waiting(f)' \/ (m.is = "samples" /\ f \in m.from .. m.to)
          BY <1>0, <5>1, WaitingTaken
        <5> QED BY <2>4, <5>1, <5>2
      <4>2. CASE pending' = Append(pending, m)
        <5>1. m \in Message
          BY <1>0, <2>1 DEF InboxType
        <5>2. m \in Command
          BY <2>1, <2>4, <5>1, MessageFields DEF Command
        <5>3. Inbox' = Inbox
          BY <1>0, <2>1, <4>2, <5>2, DrainDefers
        <5> QED BY <5>3 DEF Waiting
      <4> QED BY <1>13, <2>4, <4>1, <4>2, Zenon DEF WorkerDrains
    <3> HIDE DEF m
    <3> QED BY <1>1, <2>1, <2>2, <3>1, <3>2 DEF Held
  <2> QED BY <2>3, <2>4
\* The end of this stop is the first message that was not deferred: no audio comes after it.
<1>14. CASE DrainEnds
  <2> DEFINE k == Len(pending) + 1
  <2>1. /\ worker.at = "drain" /\ queue # <<>> /\ Head(queue).is = "eos" /\ queue' = Tail(queue)
        /\ recording' = FALSE /\ worker'.at = "answered" /\ UNCHANGED pending
        /\ reply'.take = take /\ reply'.clean = (Head(queue).of = worker.stop)
        /\ reply'.started = recording /\ reply'.deadline = deadline
        /\ reply'.raised = worker.raised /\ reply'.stamped = stamped
    BY <1>14 DEF DrainEnds, Answer, Resting
  <2>2. Took(k, Head(queue))
    BY <1>0, <2>1, DrainTakes
  <2>3. k \in 1 .. Len(Inbox) /\ Inbox[k] = Head(queue) /\ Len(pending) \in Nat
    BY <1>0, <2>2, InboxFields DEF Took
  <2>4. CleanTakeIsWhole'
    <3>1. SUFFICES ASSUME Head(queue).of = worker.stop, recording, stamped
                   PROVE  /\ take.since + 1 .. deadline \subseteq Range(take.frames)
                          /\ \A f \in Range(take.frames) : f <= worker.raised
      BY <2>1 DEF CleanTakeIsWhole
    <3>2. Ended(k)
      BY <2>1, <2>3, <3>1 DEF Ended
    <3>3. Taking
      BY <2>1, <2>3, <3>1, <3>2 DEF Taking, Hopeful
    <3>4. /\ callback = Idle /\ deadline < delivered
          /\ \A j \in k + 1 .. Len(Inbox) : Inbox[j].is # "samples"
      BY <1>0, <2>1, <2>3, <3>1, <3>2 DEF Sealed
    <3>5. ASSUME NEW f \in take.since + 1 .. deadline PROVE f \in Range(take.frames)
      <4>1. take.since \in Nat /\ deadline \in Int /\ deadline <= now /\ now \in Nat /\ delivered \in Nat
        BY <1>0 DEF AudioType, TakeType, Clock, Unset
      <4>2. Due(f)
        BY <4>1 DEF Due
      <4>3. Held(f) \/ Flying(f)
        BY <1>0, <3>3, <4>2 DEF Covered
      <4>4. ~(f > delivered)
        BY <3>4, <4>1
      <4>5. ~Waiting(f)
        <5>1. SUFFICES ASSUME NEW i \in 1 .. Len(Inbox), Inbox[i].is = "samples" PROVE FALSE
          BY DEF Waiting
        <5>2. CASE i <= Len(pending)
          <6>1. Inbox[i] \in Command
            BY <1>0, <5>2, InboxFields
          <6> QED BY <5>1, <6>1, CommandFields
        <5>3. CASE i = k
          BY <2>1, <2>3, <5>1, <5>3
        <5>4. CASE i > k
          <6>1. i \in k + 1 .. Len(Inbox)
            BY <2>3, <5>4
          <6> QED BY <3>4, <5>1, <6>1
        <5> QED BY <2>3, <5>2, <5>3, <5>4
      <4> QED BY <3>4, <4>3, <4>4, <4>5 DEF Held, Flying
    <3>6. \A f \in Range(take.frames) : f <= worker.raised
      BY <1>0, <2>1, <3>1 DEF Bounded, Held
    <3> QED BY <3>5, <3>6
  <2> QED BY <1>c, <1>d, <2>1, <2>4 DEF Whole
<1>15. CASE DrainTimesOut
  <2>1. recording' = FALSE /\ worker'.at = "answered" /\ reply'.clean = FALSE
    BY <1>15 DEF DrainTimesOut, Answer, Resting
  <2>2. CleanTakeIsWhole'
    BY <2>1 DEF CleanTakeIsWhole
  <2> QED BY <1>c, <1>d, <2>1, <2>2 DEF Whole
<1>16. CASE WorkerRearms
  <2>1. worker.at = "answered" /\ worker'.at = "recv" /\ reply'.of = {} /\ UNCHANGED recording
    BY <1>16 DEF WorkerRearms, Resting
  <2>2. ~recording'
    BY <1>0, <2>1 DEF Mirrors
  <2>3. CleanTakeIsWhole'
    BY <2>1 DEF CleanTakeIsWhole
  <2> QED BY <1>c, <1>d, <2>1, <2>2, <2>3 DEF Whole
<1>17. CASE WorkerShutsDown
  <2>1. worker'.at = "gone" /\ UNCHANGED reply
    BY <1>17 DEF WorkerShutsDown, Resting
  <2>2. Covered'
    BY <2>1 DEF Covered, Taking
  <2> QED BY <1>b, <1>c, <2>1, <2>2 DEF Whole
<1> QED
  BY <1>2, <1>3, <1>4, <1>5, <1>6, <1>7, <1>8, <1>9, <1>10, <1>11, <1>12, <1>13, <1>14, <1>15,
     <1>16, <1>17
  DEF Next, Input, Manager, Worker

LEMMA InitWhole ==
  ASSUME Init
  PROVE  Flags /\ Named /\ Whole
<1>1. Inbox = <<>>
  BY DEF Init, Inbox
<1>2. worker.at = "recv" /\ worker.stop = 0 /\ reply.of = {} /\ recording = FALSE
      /\ stopFlag = FALSE /\ deadline = Unset /\ callback = Idle
  BY DEF Init, Resting
<1>3. Flags
  BY <1>2 DEF Flags, InStop
<1>4. Named
  BY <1>1, <1>2 DEF Named, Mark
<1>5. Covered /\ Sealed /\ Bounded /\ CleanTakeIsWhole
  BY <1>2 DEF Covered, Taking, Sealed, Bounded, CleanTakeIsWhole
<1> QED BY <1>3, <1>4, <1>5 DEF Whole

\* A stop whose drain saw its own end of the stream returns every frame captured from the
\* recording's begin to the stop's deadline, however late the device delivered it, and
\* nothing captured after the flag was raised (plan_stop_chunk, drain_to_end_of_stream),
\* whatever the ends of earlier stops that were given up left in the queue.
THEOREM CleanTakeHolds == Spec => []CleanTakeIsWhole
<1>1. Init => Flags /\ Named /\ Whole
  BY InitWhole
<1>2. Types /\ Serving /\ Once /\ (Flags /\ Named /\ Whole) /\ [Next]_vars =>
        (Flags /\ Named /\ Whole)'
  BY NextFlags, NextNamed, NextWhole
<1>3. Whole => CleanTakeIsWhole
  BY DEF Whole
<1> QED BY <1>1, <1>2, <1>3, Typed, Served, Ordered, PTL DEF Spec

=============================================================================
