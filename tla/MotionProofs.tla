---------------------------- MODULE MotionProofs ----------------------------
(***************************************************************************)
(* Proofs about Motion, for all limits, every number of samples and every  *)
(* width of time_ms: the types, and that a guard accepts a motion only in  *)
(* the window after a first one.                                           *)
(***************************************************************************)
EXTENDS Motion, TLAPS

Bools ==
  /\ high \in BOOLEAN /\ motion \in BOOLEAN /\ on \in BOOLEAN
  /\ seen \in BOOLEAN /\ counted \in BOOLEAN /\ alarm \in BOOLEAN /\ flag \in BOOLEAN
  /\ wrapped \in BOOLEAN /\ polled \in BOOLEAN
  /\ pc \in {"clear", "judge", "calls", "rest"}

Numbers ==
  /\ who \in Guards
  /\ hits \in 0 .. Samples - 1 /\ pause \in 0 .. Pause - 1
  /\ clock \in 0 .. Wrap - 1 /\ first \in 0 .. Wrap - 1
  /\ look \in 0 .. Far[who] + 1 /\ since \in 0 .. Far[who] + 1
  /\ watched \in 0 .. Heard + 1

\* The history since measures the time from the first motion, as long as
\* time_ms has not passed 0.
Measured == counted /\ ~wrapped =>
  clock >= first /\ since = UpTo(clock - first, Far[who] + 1)

\* A first motion that counts was not too old at the last look.
Fresh == counted => look <= Far[who] \/ Overflows(Far[who])


LEMMA TypeParts == TypeOK <=> Bools /\ Numbers
BY DEF TypeOK, Bools, Numbers

-----------------------------------------------------------------------------
\* Facts about the constants and about 32 bits.

LEMMA Limits ==
  ASSUME who \in Guards
  PROVE  /\ Near[who] \in Nat /\ Far[who] \in Nat /\ Near[who] <= Far[who]
         /\ Heard \in Nat
<1>1. /\ Near[who] \in Nat /\ Far[who] \in Nat /\ Near[who] + Samples + Pause <= Far[who]
      /\ Samples \in Nat \ {0} /\ Pause \in Nat \ {0}
  BY MotionAssumption DEF MotionAssumption
<1> QED
  BY <1>1, SMT DEF Period, Heard

LEMMA SmallMod ==
  ASSUME NEW w \in Nat \ {0}, NEW n \in Nat, n < w PROVE n % w = n
BY SMT

LEMMA FullMod == ASSUME NEW w \in Nat \ {0} PROVE w % w = 0
BY SMT

LEMMA NextTime ==
  ASSUME clock \in 0 .. Wrap - 1
  PROVE  (clock + 1) % Wrap = IF clock + 1 = Wrap THEN 0 ELSE clock + 1
<1>1. Wrap \in Nat \ {0}
  BY MotionAssumption DEF MotionAssumption
<1>2. CASE clock + 1 = Wrap
  BY <1>1, <1>2, FullMod, SMT
<1>3. CASE clock + 1 # Wrap
  BY <1>1, <1>3, SmallMod, SMT
<1> QED
  BY <1>2, <1>3

LEMMA NoOverflow ==
  ASSUME first \in 0 .. Wrap - 1, NEW n \in Nat, first + n < Wrap
  PROVE  After(n) = first + n
<1>1. Wrap \in Nat \ {0} /\ first + n \in Nat
  BY MotionAssumption, SMT DEF MotionAssumption
<1> QED
  BY <1>1, SmallMod DEF After

-----------------------------------------------------------------------------
LEMMA BoolsStep == Bools /\ [Next]_vars => Bools'
<1> SUFFICES ASSUME Bools, [Next]_vars PROVE Bools'
  OBVIOUS
<1> USE DEF Bools, samples, statics, times, prompt
<1>1. CASE Walk
  BY <1>1 DEF Walk
<1>2. CASE Tick
  BY <1>2 DEF Tick, CheckMotion, Hit, Sample
<1>3. CASE Switch
  BY <1>3 DEF Switch
<1>5. CASE Forget
  BY <1>5 DEF Forget
<1>6. CASE OtherAlarm
  BY <1>6 DEF OtherAlarm
<1>7. CASE Look
  BY <1>7 DEF Look
<1>8. CASE Clear
  BY <1>8 DEF Clear
<1>9. CASE Judge
  <2>1. /\ pc' \in {"calls", "rest"} /\ seen' = FALSE /\ polled' \in BOOLEAN
        /\ UNCHANGED <<high, motion, on>>
    BY <1>9 DEF Judge
  <2>2. /\ counted' \in BOOLEAN /\ flag' \in BOOLEAN /\ alarm' \in BOOLEAN
        /\ wrapped' \in BOOLEAN
    <3>1. CASE Nothing
      BY <3>1 DEF Nothing
    <3>2. CASE FirstMotion
      BY <3>2 DEF FirstMotion
    <3>3. CASE Ignore
      BY <3>3 DEF Ignore
    <3>4. CASE Accept
      BY <3>4 DEF Accept
    <3> QED
      BY <1>9, <3>1, <3>2, <3>3, <3>4 DEF Judge
  <2> QED
    BY <2>1, <2>2
<1>10. CASE Called
  BY <1>10 DEF Called
<1>11. CASE UNCHANGED vars
  BY <1>11 DEF vars
<1> QED
  BY <1>1, <1>2, <1>3, <1>5, <1>6, <1>7, <1>8, <1>9, <1>10, <1>11 DEF Next

\* Steps after which the numbers that the invariant speaks of are as before.
Quiescent ==
  UNCHANGED <<who, hits, pause, clock, counted, first, since, look, wrapped>>

LEMMA OtherSteps ==
  ASSUME Walk \/ Switch \/ Forget \/ OtherAlarm \/ Look \/ Clear \/ Called
         \/ UNCHANGED vars
  PROVE  Quiescent /\ watched' \in {0, watched}
<1> USE DEF Quiescent, samples, statics, times, prompt
<1>1. CASE Walk \/ Switch \/ Forget
  BY <1>1 DEF Walk, Switch, Forget
<1>2. CASE OtherAlarm \/ Look \/ Clear \/ Called
  BY <1>2 DEF OtherAlarm, Look, Clear, Called
<1>3. CASE UNCHANGED vars
  BY <1>3 DEF vars
<1> QED
  BY <1>1, <1>2, <1>3

\* What a look does to the first motion: nothing, forgets it, or starts it.
LEMMA Looks ==
  ASSUME Bools, Numbers, Judge
  PROVE  /\ UNCHANGED <<who, hits, pause, clock>>
         /\ look' = since' /\ watched' \in {0, watched}
         /\ \/ /\ UNCHANGED <<counted, first, since, wrapped>>
               /\ counted => ~Expired \/ TooSoon
            \/ counted' = FALSE /\ UNCHANGED <<first, since, wrapped>>
            \/ first' = clock /\ since' = 0 /\ wrapped' = FALSE
<1>1. UNCHANGED <<who, hits, pause, clock>> /\ look' = since'
  BY DEF Judge, samples
<1> USE DEF Bools, statics
<1>2. CASE Nothing
  BY <1>1, <1>2 DEF Nothing
<1>3. CASE FirstMotion
  BY <1>1, <1>3 DEF FirstMotion
<1>4. CASE Ignore
  BY <1>1, <1>4 DEF Ignore
<1>5. CASE Accept
  BY <1>1, <1>5 DEF Accept
<1> QED
  BY <1>2, <1>3, <1>4, <1>5 DEF Judge

LEMMA NumbersStep == Bools /\ Numbers /\ [Next]_vars => Numbers'
<1> SUFFICES ASSUME Bools, Numbers, [Next]_vars PROVE Numbers'
  OBVIOUS
<1>0. /\ Near[who] \in Nat /\ Far[who] \in Nat /\ Heard \in Nat
      /\ Samples \in Nat \ {0} /\ Pause \in Nat \ {0} /\ Wrap \in Nat \ {0}
  BY Limits, MotionAssumption DEF Numbers, MotionAssumption
<1>1. CASE Tick
  <2>1. who' = who /\ Heard' = Heard /\ first' = first
    BY <1>1 DEF Tick, Heard, statics
  <2>2. hits' \in 0 .. Samples - 1
    BY <1>0, <1>1, SMT DEF Tick, CheckMotion, Count, Hit, Sample, Numbers, Bools
  <2>3. pause' \in 0 .. Pause - 1
    BY <1>0, <1>1, SMT DEF Tick, CheckMotion, Hit, Sample, Numbers, Bools
  <2>4. clock' \in 0 .. Wrap - 1
    BY <1>0, <1>1, NextTime, SMT DEF Tick, Numbers
  <2>5. look' \in 0 .. Far[who] + 1 /\ since' \in 0 .. Far[who] + 1
    BY <1>0, <1>1, SMT DEF Tick, UpTo, Numbers
  <2>6. watched' \in 0 .. Heard + 1
    BY <1>0, <1>1, SMT DEF Tick, UpTo, Numbers
  <2> QED
    BY <2>1, <2>2, <2>3, <2>4, <2>5, <2>6 DEF Numbers
<1>2. CASE Judge
  <2>1. who' = who /\ Heard' = Heard
    BY <1>2, Looks DEF Heard
  <2>2. /\ since' \in {0, since} /\ first' \in {first, clock}
        /\ look' = since' /\ watched' \in {0, watched}
        /\ UNCHANGED <<hits, pause, clock>>
    BY <1>2, Looks
  <2> QED
    BY <1>0, <2>1, <2>2, SMT DEF Numbers
<1>3. CASE ~Tick /\ ~Judge
  <2>1. Quiescent /\ watched' \in {0, watched}
    BY <1>3, OtherSteps DEF Next
  <2>2. Heard' = Heard
    BY <2>1 DEF Quiescent, Heard
  <2> QED
    BY <1>0, <2>1, <2>2, SMT DEF Quiescent, Numbers
<1> QED
  BY <1>1, <1>2, <1>3

LEMMA MeasuredStep == Bools /\ Numbers /\ Measured /\ [Next]_vars => Measured'
<1> SUFFICES ASSUME Bools, Numbers, Measured, [Next]_vars,
                    counted', ~wrapped'
             PROVE  clock' >= first' /\ since' = UpTo(clock' - first', Far[who'] + 1)
  BY DEF Measured
<1>0. Far[who] \in Nat
  BY Limits DEF Numbers
<1>1. CASE Tick
  <2>1. who' = who /\ first' = first /\ counted /\ ~wrapped /\ clock' # 0
        /\ since' = UpTo(since + 1, Far[who] + 1) /\ clock' = (clock + 1) % Wrap
    BY <1>1 DEF Tick, statics, Bools
  <2>2. clock' = clock + 1
    BY <2>1, NextTime DEF Numbers
  <2>3. clock >= first /\ since = UpTo(clock - first, Far[who] + 1)
    BY <2>1 DEF Measured
  <2> QED
    BY <1>0, <2>1, <2>2, <2>3, SMT DEF UpTo, Numbers
<1>2. CASE Judge
  <2>1. CASE UNCHANGED <<who, clock, counted, first, since, wrapped>>
    BY <2>1 DEF Measured
  <2>2. CASE who' = who /\ clock' = clock /\ first' = clock /\ since' = 0
    BY <1>0, <2>2, SMT DEF Numbers, UpTo
  <2> QED
    BY <1>2, <2>1, <2>2, Looks
<1>3. CASE ~Tick /\ ~Judge
  BY <1>3, OtherSteps DEF Next, Quiescent, Measured
<1> QED
  BY <1>1, <1>2, <1>3

LEMMA FreshStep == Bools /\ Numbers /\ Measured /\ Fresh /\ [Next]_vars => Fresh'
<1> SUFFICES ASSUME Bools, Numbers, Measured, Fresh, [Next]_vars, counted'
             PROVE  look' <= Far[who'] \/ Overflows(Far[who])'
  BY DEF Fresh
<1>0. Near[who] \in Nat /\ Far[who] \in Nat /\ Near[who] <= Far[who]
  BY Limits DEF Numbers
<1>1. CASE Tick
  <2>1. counted /\ look' = look /\ who' = who /\ first' = first
    BY <1>1 DEF Tick, statics
  <2>2. Overflows(Far[who]) => Overflows(Far[who])'
    BY <1>1, <2>1 DEF Tick, Overflows
  <2> QED
    BY <2>1, <2>2 DEF Fresh
<1>2. CASE Judge
  <2>1. CASE UNCHANGED <<first, since, wrapped>> /\ counted /\ (~Expired \/ TooSoon)
    <3>1. SUFFICES ASSUME ~Overflows(Far[who]) PROVE since <= Far[who]
      BY <1>2, <2>1, Looks DEF Overflows
    <3>a. ~wrapped /\ ~(first + Far[who] >= Wrap)
      BY <3>1 DEF Overflows
    <3>2. ~wrapped /\ first + Far[who] < Wrap /\ first + Near[who] < Wrap
      BY <1>0, <3>a, MotionAssumption, SMT DEF Numbers, MotionAssumption
    <3>3. After(Far[who]) = first + Far[who] /\ After(Near[who]) = first + Near[who]
      BY <1>0, <3>2, NoOverflow DEF Numbers
    <3>4. clock <= first + Far[who]
      BY <1>0, <2>1, <3>3, SMT DEF Expired, TooSoon, Numbers
    <3>5. clock >= first /\ since = UpTo(clock - first, Far[who] + 1)
      BY <2>1, <3>2 DEF Measured
    <3> QED
      BY <1>0, <3>4, <3>5, SMT DEF UpTo, Numbers
  <2>2. CASE since' = 0
    BY <1>0, <1>2, <2>2, Looks, SMT
  <2> QED
    BY <1>2, <2>1, <2>2, Looks
<1>3. CASE ~Tick /\ ~Judge
  BY <1>3, OtherSteps DEF Next, Quiescent, Fresh, Overflows
<1> QED
  BY <1>1, <1>2, <1>3

-----------------------------------------------------------------------------
\* A steady motion under a prompt loop.

\* Ticks to the next motion while the sensor is high.
Left == pause + Samples - hits

\* The last motion is still to be judged: the loop will see it, has seen it, or
\* is about to judge a look from before it.  It came at the last tick or, when the
\* loop has not judged since the last tick, at the one before.
Owed ==
  /\ Left >= Period - 1 /\ (polled => Left = Period)
  /\ \/ motion /\ pc \in {"rest", "calls"}
     \/ seen /\ pc \in {"clear", "judge"}
     \/ motion /\ pc = "judge" /\ Left = Period /\ ~polled

\* No motion in the ticks watched, or one that is still to be judged.
Early ==
  \/ watched + Left <= Period
  \/ Owed /\ watched + Left <= 2 * Period

\* The same of the ticks behind the end of Near.
Late ==
  \/ /\ since + Left <= Near[who] + Period
     /\ watched + Left <= Near[who] + 2 * Period
  \/ /\ Owed /\ since + Left <= Near[who] + 2 * Period
     /\ watched + Left <= Near[who] + 3 * Period

\* How long a steady motion can have been watched: before a first motion, up to
\* the end of Near, behind it, and when the times overflow.
Followed ==
  /\ ~counted => Early
  /\ counted /\ ~Overflows(Far[who]) =>
       IF since < Near[who] THEN watched <= since + Period + 1 ELSE Early \/ Late
  /\ counted /\ Overflows(Far[who]) => watched = 0 \/ clock = 0

\* A sample is counted only outside the pause.
Idle == pause > 0 => hits = 0

Unwatched == watched = 0

Steady ==
  /\ Idle
  /\ alarm => watched = 0
  /\ Followed
  /\ SteadyMotionHeard

LEMMA Constants ==
  ASSUME Numbers
  PROVE  /\ Near[who] \in Nat /\ Far[who] \in Nat
         /\ Near[who] + Samples + Pause <= Far[who]
         /\ Samples \in Nat \ {0} /\ Pause \in Nat \ {0, 1} /\ Wrap \in Nat \ {0}
BY MotionAssumption DEF MotionAssumption, Numbers

LEMMA LeftRange ==
  ASSUME Numbers, pause > 0 => hits = 0
  PROVE  /\ Left \in 1 .. Period /\ Period \in Nat \ {0, 1}
         /\ Heard = Near[who] + 2 * Period + 1
         /\ Left = 1 => pause = 0 /\ hits + 1 >= Samples
         /\ Left = Period => pause > 0
BY Constants, SMT DEF Numbers, Left, Period, Heard

\* Nothing is owed to a loop that has not been prompt.
LEMMA NotWatched == Numbers /\ Idle /\ Unwatched => Followed /\ SteadyMotionHeard
<1> SUFFICES ASSUME Numbers, pause > 0 => hits = 0, watched = 0
             PROVE  Followed /\ SteadyMotionHeard
  BY DEF Idle, Unwatched
<1>1. /\ Left \in 1 .. Period /\ Period \in Nat
      /\ Heard = Near[who] + 2 * Period + 1 /\ Near[who] \in Nat
  BY LeftRange, Constants
<1>2. Early /\ watched <= Heard
  BY <1>1, SMT DEF Early
<1>3. watched <= since + Period + 1
  BY <1>1, Constants, SMT DEF Numbers
<1> QED
  BY <1>2, <1>3 DEF Followed, SteadyMotionHeard

\* The interrupt under a high sensor.
LEMMA TickLeft ==
  ASSUME Bools, Numbers, pause > 0 => hits = 0, Tick, high
  PROVE  /\ Left' = IF Left = 1 THEN Period ELSE Left - 1
         /\ Left = 1 => motion'
         /\ Left = Period => motion' = motion
<1> USE LeftRange, Constants
<1>0. /\ hits' = IF Sample /\ ~Hit THEN hits + 1 ELSE 0
      /\ pause' = IF Hit THEN Pause - 1 ELSE IF pause > 0 THEN pause - 1 ELSE 0
      /\ motion' = (Hit \/ (pause > 0 /\ motion))
      /\ Sample <=> pause = 0
      /\ Hit <=> pause = 0 /\ hits + 1 >= Samples
  BY DEF Tick, CheckMotion, Count, Hit, Sample
<1>1. CASE Hit
  <2>1. Left = 1 /\ Left' = Period
    BY <1>0, <1>1, SMT DEF Left, Period, Numbers
  <2> QED
    BY <1>0, <1>1, <2>1
<1>2. CASE ~Hit
  <2>1. Left # 1
    BY <1>0, <1>2
  <2>2. Left' = Left - 1
    BY <1>0, <1>2, SMT DEF Left, Numbers
  <2> QED
    BY <1>0, <1>2, <2>1, <2>2 DEF Bools
<1> QED
  BY <1>1, <1>2

LEMMA IdleStep ==
  ASSUME Bools, Numbers, Idle, [Next]_vars
  PROVE  Idle'
<1> USE DEF Idle
<1>1. CASE Tick
  BY <1>1, Constants, SMT DEF Tick, CheckMotion, Count, Hit, Sample, Numbers
<1>2. CASE Judge
  BY <1>2, Looks
<1>3. CASE ~Tick /\ ~Judge
  BY <1>3, OtherSteps DEF Next, Quiescent
<1> QED
  BY <1>1, <1>2, <1>3

LEMMA QuietStep ==
  ASSUME Bools, Numbers, alarm => watched = 0, [Next]_vars
  PROVE  alarm' => watched' = 0
<1>1. CASE Tick
  BY <1>1 DEF Tick, Prompt
<1>2. CASE Judge
  <2>1. CASE Nothing \/ Ignore
    BY <1>2, <2>1 DEF Nothing, Ignore
  <2>2. CASE FirstMotion
    BY <2>2 DEF FirstMotion
  <2>3. CASE Accept
    BY <2>3 DEF Accept
  <2> QED
    BY <1>2, <2>1, <2>2, <2>3 DEF Judge
<1>3. CASE Walk \/ Switch \/ Forget \/ UNCHANGED vars
  BY <1>3 DEF Walk, Switch, Forget, vars, prompt
<1>4. CASE OtherAlarm \/ Look \/ Clear \/ Called
  BY <1>4 DEF OtherAlarm, Look, Clear, Called, prompt
<1> QED
  BY <1>1, <1>2, <1>3, <1>4 DEF Next

\* A prompt tick: the watch goes on, and a motion owed has been judged or is the
\* one before the tick.
LEMMA PromptTick ==
  ASSUME Bools, Numbers, Steady, Tick, Prompt
  PROVE  /\ watched' = watched + 1
         /\ Left = 1 => Left' = Period /\ Owed'
         /\ Left # 1 => Left' = Left - 1
         /\ Owed => Left = Period /\ Owed'
<1>0. /\ pause > 0 => hits = 0
      /\ watched <= Heard
      /\ Left \in 1 .. Period /\ Period \in Nat \ {0, 1} /\ Heard \in Nat
  BY LeftRange, Limits DEF Steady, Idle, SteadyMotionHeard, Numbers
<1>1. watched' = watched + 1
  <2>1. watched' = UpTo(watched + 1, Heard + 1)
    BY DEF Tick
  <2>2. watched \in Nat /\ ~(watched + 1 > Heard + 1)
    BY <1>0, SMT DEF Numbers
  <2> QED
    BY <2>1, <2>2 DEF UpTo
<1>2. /\ Left' = IF Left = 1 THEN Period ELSE Left - 1
      /\ Left = 1 => motion'
      /\ Left = Period => motion' = motion
  BY <1>0, TickLeft DEF Prompt
<1>3. /\ pc' = pc /\ seen' = seen /\ polled' = FALSE /\ polled /\ pc # "clear"
      /\ Period' = Period
  BY DEF Tick, Prompt, Period
<1>4. ASSUME Left = 1 PROVE Left' = Period /\ Owed'
  <2>1. Left' = Period /\ motion'
    BY <1>2, <1>4
  <2>2. Left' >= Period - 1
    BY <1>0, <2>1, SMT
  <2> QED
    BY <1>3, <2>1, <2>2 DEF Owed, Bools
<1>5. ASSUME Owed PROVE Left = Period /\ Owed'
  <2>1. Left = Period
    BY <1>3, <1>5 DEF Owed
  <2>2. Left' = Period - 1 /\ motion' = motion
    BY <1>0, <1>2, <2>1, SMT
  <2>3. Left' >= Period - 1
    BY <1>0, <2>2, SMT
  <2> QED
    BY <1>3, <1>5, <2>1, <2>2, <2>3 DEF Owed
<1> QED
  BY <1>1, <1>2, <1>4, <1>5

LEMMA EarlyTick ==
  ASSUME Bools, Numbers, Steady, Tick, Prompt, Early
  PROVE  Early' /\ watched' <= Heard'
<1>0. /\ Left \in 1 .. Period /\ Period \in Nat \ {0, 1} /\ Near[who] \in Nat
      /\ Heard = Near[who] + 2 * Period + 1 /\ watched \in Nat
      /\ Period' = Period /\ Heard' = Heard
  BY LeftRange, Constants DEF Steady, Idle, Numbers, Tick, Period, Heard
<1>1. /\ watched' = watched + 1
      /\ Left = 1 => Left' = Period /\ Owed'
      /\ Left # 1 => Left' = Left - 1
      /\ Owed => Left = Period /\ Owed'
  BY PromptTick
<1>2. CASE watched + Left <= Period
  <2>1. CASE Left = 1
    BY <1>0, <1>1, <1>2, <2>1, SMT DEF Early
  <2>2. CASE Left # 1
    BY <1>0, <1>1, <1>2, <2>2, SMT DEF Early
  <2> QED
    BY <2>1, <2>2
<1>3. CASE Owed /\ watched + Left <= 2 * Period
  <2>1. Left' = Period - 1 /\ Owed'
    BY <1>0, <1>1, <1>3, SMT
  <2> QED
    BY <1>0, <1>1, <1>3, <2>1, SMT DEF Early
<1> QED
  BY <1>2, <1>3 DEF Early

LEMMA LateTick ==
  ASSUME Bools, Numbers, Steady, Tick, Prompt, Late, since' <= since + 1
  PROVE  Late' /\ watched' <= Heard'
<1>0. /\ Left \in 1 .. Period /\ Period \in Nat \ {0, 1} /\ Near[who] \in Nat
      /\ Heard = Near[who] + 2 * Period + 1 /\ watched \in Nat
      /\ since \in Nat /\ since' \in Nat
      /\ Period' = Period /\ Heard' = Heard /\ who' = who
  <2>1. since \in Nat /\ since' \in Nat
    BY Constants, SMT DEF Numbers, Tick, UpTo
  <2> QED
    BY <2>1, LeftRange, Constants DEF Steady, Idle, Numbers, Tick, Period, Heard
<1>1. /\ watched' = watched + 1
      /\ Left = 1 => Left' = Period /\ Owed'
      /\ Left # 1 => Left' = Left - 1
      /\ Owed => Left = Period /\ Owed'
  BY PromptTick
<1>2. CASE since + Left <= Near[who] + Period /\ watched + Left <= Near[who] + 2 * Period
  <2>1. CASE Left = 1
    BY <1>0, <1>1, <1>2, <2>1, SMT DEF Late
  <2>2. CASE Left # 1
    BY <1>0, <1>1, <1>2, <2>2, SMT DEF Late
  <2> QED
    BY <2>1, <2>2
<1>3. CASE /\ Owed /\ since + Left <= Near[who] + 2 * Period
           /\ watched + Left <= Near[who] + 3 * Period
  <2>1. Left' = Period - 1 /\ Owed'
    BY <1>0, <1>1, <1>3, SMT
  <2> QED
    BY <1>0, <1>1, <1>3, <2>1, SMT DEF Late
<1> QED
  BY <1>2, <1>3 DEF Late

\* The tick at which Near is over, or one before.
LEMMA NearTick ==
  ASSUME Bools, Numbers, Steady, Tick, Prompt, since < Near[who],
         watched <= since + Period + 1, since' = since + 1
  PROVE  /\ watched' <= Heard'
         /\ IF since' < Near[who'] THEN watched' <= since' + Period' + 1 ELSE Late'
<1>0. /\ Left \in 1 .. Period /\ Period \in Nat \ {0, 1} /\ Near[who] \in Nat
      /\ Heard = Near[who] + 2 * Period + 1 /\ watched \in Nat /\ since \in Nat
      /\ Period' = Period /\ Heard' = Heard /\ who' = who
  <2>1. since \in Nat
    BY Constants, SMT DEF Numbers
  <2> QED
    BY <2>1, LeftRange, Constants DEF Steady, Idle, Numbers, Tick, Period, Heard
<1>1. /\ watched' = watched + 1
      /\ Left = 1 => Left' = Period /\ Owed'
      /\ Left # 1 => Left' = Left - 1
  BY PromptTick
<1>2. watched' <= Heard' /\ watched' <= since' + Period' + 1
  BY <1>0, <1>1, SMT
<1>3. ASSUME since' = Near[who] PROVE Late'
  <2>1. CASE Left = 1
    BY <1>0, <1>1, <1>2, <1>3, <2>1, SMT DEF Late
  <2>2. CASE Left # 1
    BY <1>0, <1>1, <1>2, <1>3, <2>2, SMT DEF Late
  <2> QED
    BY <2>1, <2>2
<1> QED
  BY <1>0, <1>2, <1>3, SMT

LEMMA FollowedTick ==
  ASSUME Bools, Numbers, Measured, Steady, Tick
  PROVE  Followed' /\ SteadyMotionHeard'
<1>1. CASE ~Prompt
  <2>1. Unwatched'
    BY <1>1 DEF Tick, Unwatched
  <2>2. Numbers' /\ Idle'
    BY NumbersStep, IdleStep DEF Next, Steady
  <2> QED
    BY <2>1, <2>2, NotWatched, PTL
<1>2. CASE Prompt
  <2>0. /\ who' = who /\ counted' = counted /\ first' = first
        /\ ~(counted /\ Overflows(Far[who]))
    BY <1>2 DEF Tick, Prompt, statics
  <2>1. CASE ~counted
    BY <1>2, <2>0, <2>1, EarlyTick DEF Steady, Followed, SteadyMotionHeard, Bools
  <2>2. CASE counted
    <3>1. ~Overflows(Far[who]) /\ ~wrapped
      BY <2>0, <2>2 DEF Overflows
    <3>2. wrapped' => clock' = 0
      BY <2>2, <3>1 DEF Tick
    <3>3. Overflows(Far[who])' => clock' = 0
      BY <2>0, <3>1, <3>2 DEF Overflows
    <3>4. since' = UpTo(since + 1, Far[who] + 1)
      BY <2>2 DEF Tick
    <3>5. since' <= since + 1 /\ since' <= Far[who] + 1 /\ since \in Nat
          /\ (since < Near[who] => since' = since + 1)
      BY <3>4, Constants, SMT DEF UpTo, Numbers
    <3>6. /\ watched' <= Heard'
          /\ IF since' < Near[who'] THEN watched' <= since' + Period' + 1
                                    ELSE Early' \/ Late'
      <4>1. CASE since < Near[who]
        <5>1. watched <= since + Period + 1
          BY <2>2, <3>1, <4>1 DEF Steady, Followed
        <5> QED
          BY <1>2, <3>5, <4>1, <5>1, NearTick
      <4>2. CASE ~(since < Near[who])
        <5>1. Early \/ Late
          BY <2>2, <3>1, <4>2 DEF Steady, Followed
        <5>2. since' >= Near[who']
          BY <2>0, <3>4, <4>2, Constants, SMT DEF UpTo, Numbers
        <5>3. ~(since' < Near[who'])
          BY <2>0, <3>5, <5>2, <3>4, Constants, SMT DEF UpTo
        <5> QED
          BY <1>2, <3>5, <5>1, <5>3, EarlyTick, LateTick
      <4> QED
        BY <4>1, <4>2
    <3> QED
      BY <2>0, <2>2, <3>3, <3>6 DEF Followed, SteadyMotionHeard
  <2> QED
    BY <2>1, <2>2 DEF Bools
<1> QED
  BY <1>1, <1>2

-----------------------------------------------------------------------------
\* Between two ticks a motion stays owed until it is judged.
LEMMA OwedKept ==
  ASSUME Bools, Owed,
         Walk \/ Switch \/ Forget \/ OtherAlarm \/ Look \/ Clear \/ Called
         \/ UNCHANGED vars
  PROVE  Owed'
<1> USE DEF samples, statics, times, prompt
<1>1. Left' = Left /\ Period' = Period /\ polled' = polled
  <2>1. hits' = hits /\ pause' = pause
    BY OtherSteps DEF Quiescent
  <2>2. CASE Walk \/ Switch \/ Forget \/ UNCHANGED vars
    BY <2>1, <2>2 DEF Walk, Switch, Forget, vars, Left, Period
  <2>3. CASE OtherAlarm \/ Look \/ Clear \/ Called
    BY <2>1, <2>3 DEF OtherAlarm, Look, Clear, Called, Left, Period
  <2> QED
    BY <2>2, <2>3
<1>2. CASE Walk \/ Switch \/ Forget \/ OtherAlarm \/ UNCHANGED vars
  <2>1. UNCHANGED <<motion, seen, pc>>
    BY <1>2 DEF Walk, Switch, Forget, OtherAlarm, vars
  <2> QED
    BY <1>1, <2>1 DEF Owed
<1>3. CASE Look
  <2>1. pc = "rest" /\ motion
    BY <1>3 DEF Look, Owed
  <2>2. \/ seen' = motion /\ pc' \in {"judge", "clear"}
        \/ pc' = "rest" /\ motion' = motion
    BY <1>3, <2>1 DEF Look
  <2>3. \/ seen' /\ pc' \in {"judge", "clear"}
        \/ pc' = "rest" /\ motion'
    BY <2>1, <2>2
  <2> QED
    BY <1>1, <2>3 DEF Owed
<1>4. CASE Clear
  BY <1>1, <1>4 DEF Clear, Owed
<1>5. CASE Called
  BY <1>1, <1>5 DEF Called, Owed
<1> QED
  BY <1>2, <1>3, <1>4, <1>5

\* A look from before the motion is judged: the motion is still owed.
LEMMA OwedNothing ==
  ASSUME Bools, Numbers, Owed, Judge, ~seen PROVE Owed'
<1>1. motion /\ Left = Period /\ Left >= Period - 1
  BY DEF Owed, Judge
<1>2. /\ motion' = motion /\ hits' = hits /\ pause' = pause
      /\ pc' \in {"rest", "calls"}
  BY DEF Judge, samples
<1>3. Left' = Left /\ Period' = Period
  BY <1>2 DEF Left, Period
<1>4. Left' = Period' /\ Left' >= Period' - 1
  BY <1>1, <1>3
<1>5. motion' /\ pc' \in {"rest", "calls"}
  BY <1>1, <1>2
<1> QED
  BY <1>3, <1>4, <1>5 DEF Owed

\* While time_ms does not overflow it tells how long ago the first motion was.
LEMMA InTime ==
  ASSUME Numbers, Measured, counted, ~Overflows(Far[who])
  PROVE  (TooSoon <=> since < Near[who]) /\ (Expired <=> since > Far[who])
<1>0. Near[who] \in Nat /\ Far[who] \in Nat /\ Near[who] <= Far[who]
  BY Limits DEF Numbers
<1>a. ~wrapped /\ ~(first + Far[who] >= Wrap)
  BY DEF Overflows
<1>1. ~wrapped /\ first + Far[who] < Wrap /\ first + Near[who] < Wrap
  BY <1>0, <1>a, Constants, SMT DEF Numbers
<1>2. After(Far[who]) = first + Far[who] /\ After(Near[who]) = first + Near[who]
  BY <1>0, <1>1, NoOverflow DEF Numbers
<1>3. clock >= first /\ since = UpTo(clock - first, Far[who] + 1)
  BY <1>1 DEF Measured
<1>4. TooSoon <=> since < Near[who]
  BY <1>0, <1>2, <1>3, SMT DEF TooSoon, UpTo, Numbers
<1>5. Expired <=> since > Far[who]
  BY <1>0, <1>2, <1>3, SMT DEF Expired, UpTo, Numbers
<1> QED
  BY <1>4, <1>5

LEMMA NotExpiredLate ==
  ASSUME Numbers, Idle, Late PROVE ~(since > Far[who])
<1>1. /\ Left \in 1 .. Period /\ Period \in Nat /\ since \in Nat
      /\ Near[who] \in Nat /\ Far[who] \in Nat
      /\ Near[who] + Period + 1 <= Far[who]
  BY LeftRange, Constants, SMT DEF Idle, Period, Numbers
<1>2. CASE since + Left <= Near[who] + Period
  BY <1>1, <1>2, SMT
<1>3. CASE Owed /\ since + Left <= Near[who] + 2 * Period
  <2>1. Left >= Period - 1
    BY <1>3 DEF Owed
  <2> QED
    BY <1>1, <1>3, <2>1, SMT
<1> QED
  BY <1>2, <1>3 DEF Late

\* A look without a motion, or with an alarm.
LEMMA FollowedNothing ==
  ASSUME Bools, Numbers, Measured, Steady, Judge, Nothing, watched # 0
  PROVE  Followed'
<1>0. ~alarm /\ ~seen
  BY DEF Nothing, Steady
<1>1. /\ UNCHANGED <<who, first, since, wrapped, clock, watched>>
      /\ Left' = Left /\ Period' = Period
      /\ counted' = (counted /\ ~Expired)
  BY DEF Nothing, Judge, samples, Left, Period
<1>2. Owed => Owed'
  BY <1>0, OwedNothing
<1>3. (Early => Early') /\ (Late => Late')
  BY <1>1, <1>2 DEF Early, Late
<1>4. CASE ~counted
  BY <1>1, <1>3, <1>4 DEF Steady, Followed
<1>5. CASE counted /\ ~Expired
  <2>1. counted' /\ (Overflows(Far[who])' <=> Overflows(Far[who]))
    BY <1>1, <1>5 DEF Overflows
  <2> QED
    BY <1>1, <1>3, <1>5, <2>1 DEF Steady, Followed
<1>6. CASE counted /\ Expired
  <2>1. ~Overflows(Far[who])
    <3>1. SUFFICES ASSUME Overflows(Far[who]) PROVE FALSE
      OBVIOUS
    <3>2. clock = 0
      BY <1>6, <3>1 DEF Steady, Followed
    <3>3. After(Far[who]) \in Nat
      BY Constants, SMT DEF After, Numbers
    <3> QED
      BY <1>6, <3>2, <3>3, SMT DEF Expired
  <2>2. since > Far[who] /\ ~(since < Near[who])
    <3>1. since > Far[who]
      BY <1>6, <2>1, InTime
    <3> QED
      BY <3>1, Limits, SMT DEF Numbers
  <2>3. Early
    BY <1>6, <2>1, <2>2, NotExpiredLate DEF Steady, Followed
  <2> QED
    BY <1>1, <1>3, <1>6, <2>3 DEF Followed
<1> QED
  BY <1>4, <1>5, <1>6 DEF Bools

LEMMA FollowedFirst ==
  ASSUME Bools, Numbers, Steady, Judge, FirstMotion, watched' # 0
  PROVE  Followed'
<1>1. /\ who' = who /\ counted' = TRUE /\ first' = clock /\ since' = 0
      /\ wrapped' = FALSE /\ watched' = watched
      /\ ~(clock + Far[who] >= Wrap)
      /\ Left' = Left /\ Period' = Period
  BY DEF FirstMotion, Judge, samples, Left, Period
<1>2. ~Overflows(Far[who])'
  BY <1>1 DEF Overflows
<1>3. Early
  BY DEF FirstMotion, Steady, Followed
<1>4. /\ Left \in 1 .. Period /\ Period \in Nat /\ Near[who] \in Nat /\ watched \in Nat
  BY LeftRange, Constants, SMT DEF Steady, Idle, Numbers
<1>5. watched + Left <= 2 * Period /\ watched <= Period + 1
  <2>1. CASE watched + Left <= Period
    BY <1>4, <2>1, SMT
  <2>2. CASE Owed /\ watched + Left <= 2 * Period
    <3>1. Left >= Period - 1
      BY <2>2 DEF Owed
    <3> QED
      BY <1>4, <2>2, <3>1, SMT
  <2> QED
    BY <1>3, <2>1, <2>2 DEF Early
<1>6. watched' <= since' + Period' + 1
  BY <1>1, <1>4, <1>5, SMT
<1>7. ASSUME ~(since' < Near[who']) PROVE Late'
  <2>1. since' + Left' <= Near[who'] + Period' /\ watched' + Left' <= Near[who'] + 2 * Period'
    BY <1>1, <1>4, <1>5, <1>7, SMT
  <2> QED
    BY <2>1 DEF Late
<1> QED
  BY <1>1, <1>2, <1>6, <1>7 DEF Followed

LEMMA FollowedIgnore ==
  ASSUME Bools, Numbers, Measured, Steady, Judge, Ignore
  PROVE  Followed'
<1>1. /\ UNCHANGED <<who, counted, first, since, wrapped, clock, watched>>
      /\ Period' = Period /\ counted /\ TooSoon
  BY DEF Ignore, Judge, statics, Period
<1>2. Overflows(Far[who])' <=> Overflows(Far[who])
  BY <1>1 DEF Overflows
<1>3. CASE Overflows(Far[who])
  BY <1>1, <1>2, <1>3 DEF Steady, Followed
<1>4. CASE ~Overflows(Far[who])
  <2>1. since < Near[who]
    BY <1>1, <1>4, InTime
  <2> QED
    BY <1>1, <1>2, <1>4, <2>1 DEF Steady, Followed
<1> QED
  BY <1>3, <1>4

LEMMA SteadyStep ==
  Bools /\ Numbers /\ Measured /\ Steady /\ [Next]_vars => Steady'
<1> SUFFICES ASSUME Bools, Numbers, Measured, Steady, [Next]_vars PROVE Steady'
  OBVIOUS
<1>1. Numbers' /\ Idle' /\ (alarm' => watched' = 0)
  BY NumbersStep, IdleStep, QuietStep DEF Steady
<1>2. CASE watched' = 0
  <2>1. Unwatched'
    BY <1>2 DEF Unwatched
  <2>2. Followed' /\ SteadyMotionHeard'
    BY <1>1, <2>1, NotWatched, PTL
  <2> QED
    BY <1>1, <2>2 DEF Steady
<1>3. CASE Tick
  BY <1>1, <1>3, FollowedTick DEF Steady
<1>4. CASE Judge /\ watched' # 0
  <2>1. watched' = watched /\ who' = who
    BY <1>4, Looks
  <2>2. SteadyMotionHeard'
    BY <2>1 DEF Steady, SteadyMotionHeard, Heard, Period
  <2>3. Followed'
    <3>1. CASE Nothing
      BY <1>4, <2>1, <3>1, FollowedNothing
    <3>2. CASE FirstMotion
      BY <1>4, <3>2, FollowedFirst
    <3>3. CASE Ignore
      BY <1>4, <3>3, FollowedIgnore
    <3>4. CASE Accept
      BY <1>4, <3>4 DEF Accept
    <3> QED
      BY <1>4, <3>1, <3>2, <3>3, <3>4 DEF Judge
  <2> QED
    BY <1>1, <2>2, <2>3 DEF Steady
<1>5. CASE ~Tick /\ ~Judge /\ watched' # 0
  <2>1. Quiescent /\ watched' = watched
    BY <1>5, OtherSteps DEF Next
  <2>2. /\ UNCHANGED <<who, counted, first, since, wrapped, clock, watched>>
        /\ Left' = Left /\ Period' = Period /\ Heard' = Heard
        /\ (Overflows(Far[who])' <=> Overflows(Far[who]))
    BY <2>1 DEF Quiescent, Left, Period, Heard, Overflows
  <2>3. Owed => Owed'
    BY <1>5, OwedKept DEF Next
  <2>4. (Early => Early') /\ (Late => Late')
    BY <2>2, <2>3 DEF Early, Late
  <2>5. Followed'
    BY <2>2, <2>4 DEF Steady, Followed
  <2> QED
    BY <1>1, <2>2, <2>5 DEF Steady, SteadyMotionHeard
<1> QED
  BY <1>2, <1>3, <1>4, <1>5

-----------------------------------------------------------------------------
IInv == TypeOK /\ Measured /\ Fresh /\ Steady

LEMMA InitInv == Init => IInv
<1> SUFFICES ASSUME Init PROVE IInv
  OBVIOUS
<1>1. Bools
  BY DEF Init, Bools
<1>2. Numbers
  BY Limits, MotionAssumption, SMT DEF Init, Numbers, MotionAssumption
<1>3. Measured /\ Fresh
  BY DEF Init, Measured, Fresh
<1>4. Idle /\ ~alarm /\ Unwatched
  BY DEF Init, Idle, Unwatched
<1>5. Steady
  BY <1>2, <1>4, NotWatched DEF Steady
<1> QED
  BY <1>1, <1>2, <1>3, <1>5, TypeParts DEF IInv

LEMMA StepInv == IInv /\ [Next]_vars => IInv'
<1> SUFFICES ASSUME IInv, [Next]_vars PROVE IInv'
  OBVIOUS
<1>1. Bools /\ Numbers /\ Measured /\ Fresh /\ Steady
  BY TypeParts DEF IInv
<1>2. Bools' /\ Numbers' /\ Measured' /\ Fresh' /\ Steady'
  BY <1>1, BoolsStep, NumbersStep, MeasuredStep, FreshStep, SteadyStep
<1> QED
  BY <1>2, TypeParts DEF IInv, TypeOK, Bools, Numbers

LEMMA Invariant == Spec => []IInv
BY InitInv, StepInv, PTL DEF Spec

-----------------------------------------------------------------------------
\* The counters, statics and times of interrupt and guards keep their types
\* (port.c:84-191, app.c:12-242).
THEOREM TypeCorrect == Spec => []TypeOK
<1>1. IInv => TypeOK
  BY DEF IInv
<1> QED
  BY <1>1, Invariant, PTL

\* A motion is accepted only in the window after a first one
\* (app.c:31, 101), whatever the limits and the width of the counter.
THEOREM SecondInTimeAlways == Spec => SecondInTime
<1> DEFINE Good ==
      (Judge /\ Accept) =>
        /\ counted
        /\ since >= Near[who] \/ Overflows(Near[who])
        /\ look <= Far[who] \/ Overflows(Far[who])
<1>1. ASSUME IInv PROVE Good
  <2>1. SUFFICES ASSUME Judge, Accept
                 PROVE  /\ counted
                        /\ since >= Near[who] \/ Overflows(Near[who])
                        /\ look <= Far[who] \/ Overflows(Far[who])
    OBVIOUS
  <2>2. Numbers /\ Measured /\ Fresh
    BY <1>1, TypeParts DEF IInv
  <2>3. counted /\ ~TooSoon
    BY <2>1 DEF Accept
  <2>4. look <= Far[who] \/ Overflows(Far[who])
    BY <2>2, <2>3 DEF Fresh
  <2>5. ASSUME ~Overflows(Near[who]) PROVE since >= Near[who]
    <3>1. Near[who] \in Nat /\ Far[who] \in Nat /\ Near[who] <= Far[who]
      BY <2>2, Limits DEF Numbers
    <3>2. ~wrapped /\ first + Near[who] < Wrap
      BY <2>2, <2>5, <3>1, MotionAssumption, SMT DEF Overflows, Numbers, MotionAssumption
    <3>3. After(Near[who]) = first + Near[who]
      BY <2>2, <3>1, <3>2, NoOverflow DEF Numbers
    <3>4. clock >= first + Near[who]
      BY <2>2, <2>3, <3>1, <3>3, SMT DEF TooSoon, Numbers
    <3>5. clock >= first /\ since = UpTo(clock - first, Far[who] + 1)
      BY <2>2, <2>3, <3>2 DEF Measured
    <3> QED
      BY <2>2, <3>1, <3>4, <3>5, SMT DEF UpTo, Numbers
  <2> QED
    BY <2>3, <2>4, <2>5
<1>2. IInv /\ [Next]_vars => [Good]_vars
  BY <1>1
<1>3. Spec => [][Good]_vars
  BY Invariant, <1>2, PTL DEF Spec
<1> QED
  BY <1>3 DEF SecondInTime

\* A sensor that stays high under a loop that looks in every tick is accepted
\* within Heard ticks (port.c:106, 146, 187), wherever the looks fall between
\* the ticks, whatever the limits and however long debounce and pause are.
THEOREM SteadyMotionHeardAlways == Spec => []SteadyMotionHeard
<1>1. IInv => SteadyMotionHeard
  BY DEF IInv, Steady
<1> QED
  BY <1>1, Invariant, PTL
=============================================================================
