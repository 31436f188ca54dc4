------------------------------- MODULE Motion -------------------------------
(***************************************************************************)
(* From a motion sensor to an alarm, at the pace of the 10 ms interrupt    *)
(* (port.c, app.c).  check_motion and check_single_sensor, in the          *)
(* interrupt, take a sensor that is high for three ticks as a motion; the  *)
(* main loop copies and clears the result with interrupts on; main_guard,  *)
(* local_guard and single_sens want a second motion some time after the    *)
(* first and measure that time with a counter of 32 bits.                  *)
(*                                                                         *)
(* The three guards are one algorithm with three sets of limits.  One of   *)
(* them, "who", is followed; the alarms of the others, which share the     *)
(* lock flag_alarm, come from outside.  Which zone moved, and what is done *)
(* about it, is in Watch.  first_m, with which the first motion would be   *)
(* enough, is never set and left out.                                      *)
(***************************************************************************)
EXTENDS Naturals

CONSTANTS
  Guards,   \* the guards that are followed, one in each behaviour
  Near,     \* ticks in which a further motion is the first one still
  Far,      \* ticks after which the first motion is forgotten
  Quiet,    \* ticks for which single_sens does not repeat its alarm
  Wrap,     \* 2^32 ms: the values of time_ms
  Samples,  \* 3: ticks that make a motion
  Pause     \* 2: pause_count

ASSUME MotionAssumption ==
  /\ Guards \subseteq {"main", "local", "single"}
  /\ Near \in [Guards -> Nat] /\ Far \in [Guards -> Nat]
  /\ \A g \in Guards : Near[g] + Samples + Pause <= Far[g]
  /\ Quiet \in Nat /\ Wrap \in Nat \ {0}
  /\ Samples \in Nat \ {0} /\ Pause \in Nat \ {0, 1}

VARIABLES
  who,      \* the guard that is followed
  high,     \* its sensor
  hits,     \* cnt of check_motion or check_single_sensor
  pause,    \* pause_count
  motion,   \* motion_detected or single_motion_detected
  clock,    \* time_ms
  on,       \* the guard is switched on
  pc,       \* point of the main loop: "rest" is all of it but the guard
  seen,     \* motion_d, the copy of the main loop, in the guard
  counted,  \* motion_cnt = 1
  first,    \* first_time_stamp
  alarm,    \* flag_alarm
  flag,     \* flag_motion of single_sens; flag_motion_inside of local_guard
  wrapped,  \* history: time_ms went through 0 since the first motion
  look,     \* history: ticks from the first motion to the last look
  since,    \* history: ticks since the first motion that counts
  watched,  \* history: ticks of steady motion under a prompt loop, none accepted
  polled    \* history: in this tick the loop judged a look with no alarm

samples == <<high, hits, pause>>
statics == <<counted, first, flag>>
times == <<since, look, wrapped>>
prompt == <<watched, polled>>
vars == <<who, samples, motion, clock, on, pc, seen, statics, alarm,
          times, prompt>>

\* Ticks from one motion to the next while the sensor stays high.
Period == Samples + Pause - 1

\* Ticks within which a steady motion is accepted: a period to the first motion
\* and one from the end of Near to the second, and a tick when the loop looks
\* just before the motion and judges just after it.
Heard == Near[who] + 2 * Period + 1

\* The histories stop where nothing is compared any more.
UpTo(n, bound) == IF n > bound THEN bound ELSE n

\* first_time_stamp + limit, in 32 bits
After(limit) == (first + limit) % Wrap
Overflows(limit) == wrapped \/ first + limit >= Wrap

-----------------------------------------------------------------------------
\* The timer interrupt.

Walk ==
  /\ high' = ~high
  /\ UNCHANGED <<who, hits, pause, motion, clock, on, pc, seen, statics,
                 alarm, times, prompt>>

\* The third sample in a row, unless it falls into the pause.
Sample == high /\ pause = 0
Hit == Sample /\ hits + 1 >= Samples

Count == hits' = IF Sample /\ ~Hit THEN hits + 1 ELSE 0

\* Mutant: the result stands for the tick of the third sample only.
CheckMotionBrief ==
  /\ Count
  /\ pause' = IF Hit THEN Pause - 1 ELSE IF pause > 0 THEN pause - 1 ELSE 0
  /\ motion' = Hit

\* Mutant: the pause does not end.
CheckMotionStuck ==
  /\ Count
  /\ pause' = IF Hit THEN Pause ELSE pause
  /\ motion' = (Hit \/ (pause > 0 /\ motion))

\* check_motion, check_single_sensor: the result stands for Pause ticks.
CheckMotion ==
  /\ Count
  /\ pause' = IF Hit THEN Pause - 1 ELSE IF pause > 0 THEN pause - 1 ELSE 0
  /\ motion' = (Hit \/ (pause > 0 /\ motion))

\* The motion is the loop's concern: it has looked since the last tick, was
\* not cut between copy and clear by this one, and the times of a first motion
\* do not overflow.
Prompt ==
  /\ on /\ high /\ ~alarm /\ polled /\ pc # "clear"
  /\ ~(counted /\ Overflows(Far[who]))

Tick ==
  /\ CheckMotion
  /\ clock' = (clock + 1) % Wrap
  /\ wrapped' = (counted /\ (wrapped \/ clock' = 0))
  /\ since' = IF counted THEN UpTo(since + 1, Far[who] + 1) ELSE 0
  /\ look' = IF counted THEN look ELSE 0
  /\ watched' = IF Prompt THEN UpTo(watched + 1, Heard + 1) ELSE 0
  /\ polled' = FALSE
  /\ UNCHANGED <<who, high, on, pc, seen, statics, alarm>>

-----------------------------------------------------------------------------
\* What other parts do to the guard, in the waits of the main loop or, the
\* local button, in the interrupt.

Switch ==
  /\ on \/ who # "main" \/ pc \in {"rest", "calls"}
  /\ on' = ~on
  /\ UNCHANGED <<who, samples, motion, clock, pc, seen, statics, alarm,
                 times, prompt>>

\* set_flag_motion_inside(0) of button and page, or TIMER_RST_LOCAL is over
Forget ==
  /\ who = "local" /\ flag' = FALSE
  /\ UNCHANGED <<who, samples, motion, clock, on, pc, seen, counted, first,
                 alarm, times, prompt>>

\* An alarm of the temperature or, for single_sens, of local_guard before it.
OtherAlarm ==
  /\ pc = "rest" /\ alarm' = TRUE /\ watched' = 0
  /\ UNCHANGED <<who, samples, motion, clock, on, pc, seen, statics, times,
                 polled>>

-----------------------------------------------------------------------------
\* The main loop: check_guard.

\* get_motion_detected, first assignment; get_single_motion_detected does not
\* clear the result.  Another guard that is on has its alarm sent.
Look ==
  /\ pc = "rest"
  /\ \/ /\ on /\ seen' = motion /\ UNCHANGED alarm
        /\ pc' = IF who = "single" THEN "judge" ELSE "clear"
     \/ /\ ~on /\ alarm' = FALSE /\ UNCHANGED <<seen, pc>>
  /\ UNCHANGED <<who, samples, motion, clock, on, statics, times, prompt>>

\* get_motion_detected, second assignment.
Clear ==
  /\ pc = "clear" /\ pc' = "judge"
  /\ motion' = FALSE
  /\ UNCHANGED <<who, samples, clock, on, seen, statics, alarm, times, prompt>>

TooSoon == clock < After(Near[who])
Expired == clock > After(Far[who])
Rested == clock > After(Quiet)

\* Mutant: a first motion found too old still counts.
NothingExpires ==
  /\ ~(seen /\ ~alarm)
  /\ flag' = (flag /\ ~(who = "single" /\ Rested))
  /\ UNCHANGED <<counted, first, alarm, since, wrapped, watched>>

\* The first motion is forgotten; single_sens may repeat its alarm.
Nothing ==
  /\ ~(seen /\ ~alarm)
  /\ counted' = (counted /\ ~Expired)
  /\ flag' = (flag /\ ~(who = "single" /\ Rested))
  /\ UNCHANGED <<first, alarm, since, wrapped, watched>>

\* A first motion only starts the time.
FirstMotion ==
  /\ seen /\ ~alarm /\ ~counted
  /\ counted' = TRUE /\ first' = clock
  /\ since' = 0 /\ wrapped' = FALSE
  /\ watched' = IF clock + Far[who] >= Wrap THEN 0 ELSE watched
  /\ UNCHANGED <<flag, alarm>>

Ignore ==
  /\ seen /\ ~alarm /\ counted /\ TooSoon
  /\ UNCHANGED <<statics, alarm, since, wrapped, watched>>

\* What the guards do about a motion: main_guard raises an alarm; local_guard
\* does so about a zone outside, unless it was the family inside; single_sens
\* unless it has just done so.  These two go on to the end of the window.
Accept ==
  /\ seen /\ ~alarm /\ counted /\ ~TooSoon
  /\ \/ /\ who = "main" /\ counted' = FALSE
        /\ alarm' = TRUE /\ UNCHANGED flag
     \/ /\ who = "local" /\ counted' = FALSE     \* inside
        /\ flag' = TRUE /\ UNCHANGED alarm
     \/ /\ who # "main" /\ counted' = ~Expired
        /\ flag' = ~(who = "single" /\ Rested)
        /\ alarm' = ~flag
  /\ watched' = 0 /\ UNCHANGED <<first, since, wrapped>>

\* main_guard, local_guard, single_sens, then send_alarm_signal_if_needed; for
\* local_guard also about an alarm of single_sens.
Judge ==
  /\ pc = "judge"
  /\ Nothing \/ FirstMotion \/ Ignore \/ Accept
  /\ \/ pc' = IF alarm' THEN "calls" ELSE "rest"
     \/ who = "local" /\ pc' = "calls"
  /\ look' = since' /\ polled' = (polled \/ ~alarm) /\ seen' = FALSE
  /\ UNCHANGED <<who, samples, motion, clock, on>>

\* The calls take minutes; main_guard is off at their end.
Called ==
  /\ pc = "calls" /\ pc' = "rest"
  /\ alarm' = FALSE /\ on' = (on /\ who # "main")
  /\ UNCHANGED <<who, samples, motion, clock, seen, statics, times, prompt>>

Init ==
  /\ who \in Guards
  /\ high = FALSE /\ hits = 0 /\ pause = 0 /\ motion = FALSE
  /\ clock = 0 /\ on \in BOOLEAN
  /\ pc = "rest" /\ seen = FALSE
  /\ counted = FALSE /\ first = 0 /\ alarm = FALSE /\ flag = FALSE
  /\ wrapped = FALSE /\ look = 0 /\ since = 0
  /\ watched = 0 /\ polled = FALSE

Next == \/ Walk \/ Tick \/ Switch \/ Forget \/ OtherAlarm
        \/ Look \/ Clear \/ Judge \/ Called

Spec == Init /\ [][Next]_vars

-----------------------------------------------------------------------------
\* Types of the interrupt's counters, the statics of the guards and the times.
TypeOK ==
  /\ who \in Guards
  /\ {high, motion, on, seen, counted, alarm, flag, wrapped, polled}
       \subseteq BOOLEAN
  /\ hits \in 0 .. Samples - 1 /\ pause \in 0 .. Pause - 1
  /\ {clock, first} \subseteq 0 .. Wrap - 1
  /\ {look, since} \subseteq 0 .. Far[who] + 1 /\ watched \in 0 .. Heard + 1
  /\ pc \in {"clear", "judge", "calls", "rest"}

\* A guard accepts a motion only when there was a first one, no
\* less than the near limit before it, and no look since then has found the
\* first one older than the far limit, unless time_ms has overflowed
\* (app.c:31, 101, 136, 172).  It does not say that the two motions are no
\* further apart than that limit: after a long call they may be.
SecondInTime ==
  [][(Judge /\ Accept) =>
       /\ counted
       /\ since >= Near[who] \/ Overflows(Near[who])
       /\ look <= Far[who] \/ Overflows(Far[who])]_vars

\* A sensor that stays high under a loop that looks once in every tick is
\* accepted within Heard ticks, whatever the interrupt clears or repeats
\* between the looks (port.c:106, 146, 187).
SteadyMotionHeard == watched <= Heard
=============================================================================
