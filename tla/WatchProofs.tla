----------------------------- MODULE WatchProofs -----------------------------
(***************************************************************************)
(* Proofs about Watch, for every set of connected zones, whatever first_m, *)
(* single_sensor and accept_calls are set to.                              *)
(***************************************************************************)
EXTENDS Watch, TLAPS

-----------------------------------------------------------------------------
\* The zone of an alarm is one of those that moved.
LEMMA FirstMoved ==
  ASSUME NEW m \in SUBSET Zones, m # {}
  PROVE  First(m) \in m
<1> DEFINE Leads(i) == Order[i] \in m /\ \A j \in 1..(i - 1) : Order[j] \notin m
<1>1. Order[1] = "front" /\ Order[2] = "inside1" /\ Order[3] = "inside2"
      /\ Order[4] = "side" /\ Len(Order) = 4
  BY DEF Order
<1>2. m \subseteq {Order[1], Order[2], Order[3], Order[4]}
  BY <1>1, WatchAssumption DEF WatchAssumption
<1>3. \E i \in 1..4 : Leads(i)
  <2>1. CASE Order[1] \in m
    BY <2>1, SMT
  <2>2. CASE Order[1] \notin m /\ Order[2] \in m
    BY <2>2, SMT
  <2>3. CASE Order[1] \notin m /\ Order[2] \notin m /\ Order[3] \in m
    BY <2>3, SMT
  <2>4. CASE Order[1] \notin m /\ Order[2] \notin m /\ Order[3] \notin m
             /\ Order[4] \in m
    BY <2>4, SMT
  <2> QED
    BY <1>2, <2>1, <2>2, <2>3, <2>4
<1>4. \E i \in 1..Len(Order) :
         Order[i] \in m /\ \A j \in 1..(i - 1) : Order[j] \notin m
  BY <1>1, <1>3
<1> QED
  BY <1>4 DEF First

-----------------------------------------------------------------------------
\* Types

LEMMA InitTypes == Init => TypeOK
<1> SUFFICES ASSUME Init PROVE TypeOK
  OBVIOUS
<1>1. ram \in Config /\ rom \in Config
  BY DEF Init, Config
<1>2. cnt \in [Guards -> 0..1] /\ age \in 0..2
  BY SMT DEF Init
<1>3. pc \in Points
  BY DEF Init, Points, Waits
<1> QED
  BY <1>1, <1>2, <1>3 DEF Init, TypeOK

LEMMA CommandTypes ==
  ASSUME TypeOK, NEW m \in Config, NEW f \in BOOLEAN, Command(m, f)
  PROVE  /\ ram' \in Config /\ rom' \in Config
         /\ rst' \in BOOLEAN /\ acked' \in BOOLEAN /\ news' \in BOOLEAN
BY DEF TypeOK, Command

\* Every handler of a command saves a configuration.
LEMMA CommandStepTypes ==
  ASSUME TypeOK, WebCommand \/ DtmfCommand \/ SmsCommand \/ CheckButton
                 \/ StartArming
  PROVE  /\ ram' \in Config /\ rom' \in Config
         /\ rst' \in BOOLEAN /\ acked' \in BOOLEAN /\ news' \in BOOLEAN
         /\ inside' \in {"none", "inside", "front", "side"}
         /\ pending' \in BOOLEAN
         /\ UNCHANGED <<pc, alarm, send, guards, hot, age, heat>>
<1>1. /\ ram \in Config
      /\ \A v, w \in BOOLEAN :
           /\ [guard |-> v, local |-> w, blind |-> "none"] \in Config
           /\ [ram EXCEPT !.guard = v] \in Config
           /\ [ram EXCEPT !.local = v] \in Config
           /\ [ram EXCEPT !.guard = v, !.local = w] \in Config
           /\ [ram EXCEPT !.local = v, !.guard = w] \in Config
           /\ [ram EXCEPT !.local = v, !.blind = "none"] \in Config
  BY DEF TypeOK, Config
<1>2. CASE WebCommand
  BY <1>1, <1>2, CommandTypes DEF WebCommand, TypeOK
<1>3. CASE DtmfCommand
  BY <1>1, <1>3, CommandTypes DEF DtmfCommand, TypeOK
<1>4. CASE SmsCommand
  BY <1>1, <1>4, CommandTypes DEF SmsCommand, TypeOK
<1>5. CASE CheckButton
  <2>1. ram.local \in BOOLEAN
    BY DEF TypeOK, Config
  <2>2. (~ram.local) \in BOOLEAN
    BY <2>1, ZenonT(30)
  <2> QED
    BY <1>1, <1>5, <2>2, CommandTypes DEF CheckButton, TypeOK, page
<1>6. CASE StartArming
  BY <1>1, <1>6, CommandTypes DEF StartArming, TypeOK
<1> QED
  BY <1>2, <1>3, <1>4, <1>5, <1>6

\* The guards: what they may change, and its type.
LEMMA CountTypes ==
  ASSUME TypeOK, NEW g \in Guards, NEW n \in 0..1, Count(g, n)
  PROVE  cnt' \in [Guards -> 0..1]
BY DEF TypeOK, Count

LEMMA GuardTypes ==
  ASSUME TypeOK, MainGuard \/ LocalGuard \/ SingleSens
  PROVE  /\ cnt' \in [Guards -> 0..1]
         /\ ram' \in Config /\ rom' \in Config /\ age' \in 0..2
         /\ alarm' \in Zones \cup Temps \cup {"single", "none"}
         /\ send' \in Zones \cup Temps \cup {"single", "none"}
         /\ inside' \in {"none", "inside", "front", "side"}
         /\ recover' \in BOOLEAN /\ single' \in BOOLEAN /\ news' \in BOOLEAN
         /\ pc' \in {"again", "single", "send"}
         /\ UNCHANGED <<pending, page, hot, heat>>
<1> USE DEF TypeOK
<1>0. 0 \in 0..1 /\ 1 \in 0..1 /\ 0 \in 0..2
  BY SMT
<1>1. {"main", "local", "single"} \subseteq Guards
  BY DEF Guards
<1>2. CASE MainGuard
  <2>1. cnt' \in [Guards -> 0..1]
    BY <1>0, <1>1, <1>2, CountTypes
    DEF MainGuard, FirstMotion, SecondMotion, Expired
  <2>2. ASSUME NEW m \in (SUBSET Seen) \ {{}}, Raise(First(m))
        PROVE  /\ ram' \in Config /\ rom' \in Config /\ age' \in 0..2
               /\ alarm' \in Zones /\ recover' \in BOOLEAN
    <3>1. First(m) \in Zones
      BY FirstMoved DEF Seen
    <3>2. /\ [ram EXCEPT !.guard = FALSE, !.blind = "none"] \in Config
          /\ [ram EXCEPT !.blind = First(m)] \in Config
      BY <3>1 DEF Config
    <3> QED
      BY <1>0, <2>2, <3>1, <3>2 DEF Raise
  <2>3. [ram EXCEPT !.blind = "none"] \in Config
    BY DEF Config
  <2>4. /\ ram' \in Config /\ rom' \in Config /\ age' \in 0..2
        /\ alarm' \in Zones \cup Temps \cup {"single", "none"}
        /\ recover' \in BOOLEAN
    BY <1>2, <2>2, <2>3 DEF MainGuard
  <2>5. /\ send' \in Zones \cup Temps \cup {"single", "none"}
        /\ news' \in BOOLEAN /\ pc' \in {"again", "single", "send"}
        /\ UNCHANGED <<pending, page, inside, single, hot, heat>>
    BY <1>2 DEF MainGuard, Goto
  <2> QED
    BY <2>1, <2>4, <2>5
<1>3. CASE LocalGuard
  <2>1. cnt' \in [Guards -> 0..1]
    BY <1>0, <1>1, <1>3, CountTypes
    DEF LocalGuard, FirstMotion, SecondMotion, Expired
  <2>2. ASSUME NEW m \in (SUBSET Seen) \ {{}}, Warn(m)
        PROVE  /\ inside' \in {"none", "inside", "front", "side"}
               /\ alarm' \in Zones \cup Temps \cup {"single", "none"}
    <3>1. m \cap Inside = {} => alarm' = alarm \/ alarm' \in Zones
      <4>1. CASE "side" \in m
        BY <2>2, <4>1 DEF Warn, Seen
      <4>2. CASE "side" \notin m /\ m \cap Inside = {}
        <5>1. "front" \in m
          BY <4>2, WatchAssumption DEF WatchAssumption, Seen, Inside
        <5> QED
          BY <2>2, <4>2, <5>1 DEF Warn, Seen
      <4> QED
        BY <4>1, <4>2
    <3> QED
      BY <2>2, <3>1 DEF Warn
  <2>3. /\ age' \in 0..2
        /\ alarm' \in Zones \cup Temps \cup {"single", "none"}
        /\ inside' \in {"none", "inside", "front", "side"}
    BY <1>0, <1>3, <2>2 DEF LocalGuard
  <2>4. /\ send' \in Zones \cup Temps \cup {"single", "none"}
        /\ news' \in BOOLEAN /\ pc' \in {"again", "single", "send"}
        /\ UNCHANGED <<modes, page, recover, single, hot, heat>>
    BY <1>3 DEF LocalGuard, Goto
  <2> QED
    BY <2>1, <2>3, <2>4 DEF modes
<1>4. CASE SingleSens
  <2>1. cnt' \in [Guards -> 0..1]
    BY <1>0, <1>1, <1>4, CountTypes
    DEF SingleSens, FirstMotion, SecondMotion, Expired
  <2>2. /\ alarm' \in Zones \cup Temps \cup {"single", "none"}
        /\ send' \in Zones \cup Temps \cup {"single", "none"}
        /\ news' \in BOOLEAN /\ single' \in BOOLEAN
        /\ pc' \in {"again", "single", "send"}
    BY <1>4 DEF SingleSens, Goto
  <2>3. UNCHANGED <<modes, page, inside, recover, hot, age, heat>>
    BY <1>4 DEF SingleSens
  <2> QED
    BY <2>1, <2>2, <2>3 DEF modes
<1> QED
  BY <1>2, <1>3, <1>4

\* The rest of the main loop.
Loop == \/ CheckGuard \/ SendAlarm \/ AlarmDone \/ GuardTimer \/ Announced
        \/ CheckTemperature \/ TimerSendState

LEMMA LoopTypes ==
  ASSUME TypeOK, Loop
  PROVE  /\ ram' \in Config /\ rom' \in Config /\ pending' \in BOOLEAN
         /\ pc' \in Points
         /\ alarm' \in Zones \cup Temps \cup {"single", "none"}
         /\ send' \in Zones \cup Temps \cup {"single", "none"}
         /\ rst' \in BOOLEAN /\ acked' \in BOOLEAN /\ hot' \in BOOLEAN
         /\ news' \in BOOLEAN /\ heat' \in BOOLEAN
         /\ UNCHANGED <<inside, guards, age>>
<1> USE DEF TypeOK, Points, Waits, At, Goto, history, modes, page
<1>1. CASE CheckGuard
  BY <1>1 DEF CheckGuard
<1>2. CASE SendAlarm
  BY <1>2 DEF SendAlarm
<1>3. CASE AlarmDone
  <2>1. [ram EXCEPT !.guard = FALSE] \in Config
    BY DEF Config
  <2> QED
    BY <1>3, <2>1 DEF AlarmDone
<1>4. CASE GuardTimer
  <2>1. [ram EXCEPT !.guard = TRUE, !.local = FALSE] \in Config
    BY DEF Config
  <2> QED
    BY <1>4, <2>1 DEF GuardTimer
<1>5. CASE Announced
  BY <1>5 DEF Announced
<1>6. CASE CheckTemperature
  BY <1>6 DEF CheckTemperature
<1>7. CASE TimerSendState
  BY <1>7 DEF TimerSendState
<1> QED
  BY <1>1, <1>2, <1>3, <1>4, <1>5, <1>6, <1>7 DEF Loop

LEMMA TypesStep == TypeOK /\ [Next]_vars => TypeOK'
<1> SUFFICES ASSUME TypeOK, [Next]_vars PROVE TypeOK'
  OBVIOUS
<1>1. CASE UNCHANGED vars
  BY <1>1 DEF vars, modes, page, guards, history, TypeOK
<1>2. CASE Next
  <2>1. reloaded' \in BOOLEAN
    BY <1>2 DEF Next, Kept, Read
  <2>2. clear' \in BOOLEAN
    BY <1>2 DEF Next
  <2> USE <2>1, <2>2 DEF TypeOK
  <2>3. CASE WebCommand \/ DtmfCommand \/ SmsCommand \/ CheckButton
             \/ StartArming
    BY <2>3, CommandStepTypes DEF guards
  <2>4. CASE MainGuard \/ LocalGuard \/ SingleSens
    BY <2>4, GuardTypes DEF page, Points, Waits
  <2>5. CASE Loop
    BY <2>5, LoopTypes DEF guards
  <2>6. CASE TimePasses
    <3>1. age' \in 0..2
      BY <2>6, SMT DEF TimePasses
    <3> QED
      BY <2>6, <3>1 DEF TimePasses, modes, page, guards, history
  <2>7. CASE SmsRejected
    BY <2>7 DEF SmsRejected, page, guards, history
  <2>8. CASE Restart
    <3>1. cnt' \in [Guards -> 0..1] /\ age' \in 0..2
      BY <2>8, SMT DEF Restart
    <3>2. pc' \in Points
      BY <2>8 DEF Restart, Points, Waits
    <3> QED
      BY <2>8, <3>1, <3>2 DEF Restart
  <2> QED
    BY <1>2, <2>3, <2>4, <2>5, <2>6, <2>7, <2>8 DEF Next, Step, Loop
<1> QED
  BY <1>1, <1>2

\* The type invariant, in every reachable state.
THEOREM TypeCorrect == Spec => []TypeOK
BY InitTypes, TypesStep, PTL DEF Spec

-----------------------------------------------------------------------------
\* Masked zones

\* The guard is off for as long as the history says so.
Masks == /\ MaskedZoneRecovers
         /\ PendingSeesAllZones
         /\ clear => ~ram.guard

\* Only an alarm of the main guard masks a zone, and main_guard remembers it.
LEMMA StepMasks ==
  ASSUME TypeOK, Step
  PROVE  /\ pending' => pending
         /\ \/ ram'.blind \in {ram.blind, "none"} /\ recover' = recover
            \/ ram'.blind = "none"
            \/ ram.guard /\ recover'
<1> USE DEF modes, guards
<1>1. pending' => pending
  BY DEF Step, WebCommand, DtmfCommand, SmsCommand, CheckButton, TimePasses,
         MainGuard, LocalGuard, SingleSens, CheckGuard, SendAlarm, AlarmDone,
         GuardTimer, Announced, CheckTemperature, TimerSendState
<1>2. ram \in Config
  BY DEF TypeOK
<1>3. \A v, w \in BOOLEAN :
        /\ [ram EXCEPT !.guard = v].blind = ram.blind
        /\ [ram EXCEPT !.local = v].blind = ram.blind
        /\ [ram EXCEPT !.guard = v, !.local = w].blind = ram.blind
        /\ [ram EXCEPT !.local = v, !.guard = w].blind = ram.blind
  BY <1>2 DEF Config
<1>4. CASE WebCommand
  BY <1>1, <1>3, <1>4 DEF WebCommand, Command
<1>5. CASE DtmfCommand
  BY <1>1, <1>3, <1>5 DEF DtmfCommand, Command
<1>6. CASE SmsCommand
  <2>1. ram'.blind \in {ram.blind, "none"} /\ recover' = recover
    <3>1. \A v, w \in BOOLEAN :
            [guard |-> v, local |-> w, blind |-> "none"].blind = "none"
      OBVIOUS
    <3> QED
      BY <1>6, <3>1 DEF SmsCommand, Command
  <2> QED
    BY <1>1, <2>1
<1>7. CASE CheckButton
  <2>1. ram.local \in BOOLEAN
    BY <1>2 DEF Config
  <2>2. (~ram.local) \in BOOLEAN
    BY <2>1, ZenonT(30)
  <2> QED
    BY <1>1, <1>3, <1>7, <2>2 DEF CheckButton, Command
<1>8. CASE MainGuard
  <2>1. ASSUME NEW z, ram.guard, Raise(z)
        PROVE  ram'.blind = "none" \/ (ram.guard /\ recover')
    BY <1>2, <2>1 DEF Raise, Config
  <2>2. [ram EXCEPT !.blind = "none"].blind = "none"
    BY <1>2 DEF Config
  <2> QED
    BY <1>1, <1>8, <2>1, <2>2 DEF MainGuard
<1>9. CASE LocalGuard \/ SingleSens \/ TimePasses
  BY <1>1, <1>9 DEF LocalGuard, SingleSens, TimePasses
<1>10. CASE Loop
  BY <1>1, <1>3, <1>10
  DEF Loop, CheckGuard, SendAlarm, AlarmDone, GuardTimer, Announced,
      CheckTemperature, TimerSendState
<1> QED
  BY <1>4, <1>5, <1>7, <1>8, <1>9, <1>10, <1>6 DEF Step, Loop

LEMMA MasksStep == TypeOK /\ Masks /\ [Next]_vars => Masks'
<1> SUFFICES ASSUME TypeOK, Masks, [Next]_vars PROVE Masks'
  OBVIOUS
<1> USE DEF Masks, MaskedZoneRecovers, PendingSeesAllZones
<1>1. CASE UNCHANGED vars
  BY <1>1 DEF vars, modes, guards
<1>2. CASE Step /\ Kept /\ clear' = (clear /\ ~ram'.guard)
  BY <1>2, StepMasks DEF Kept
<1>3. CASE StartArming /\ Kept /\ clear' = TRUE
  <2>1. ram \in Config
    BY DEF TypeOK
  <2> QED
    BY <1>3, <2>1 DEF StartArming, Command, Config
<1>4. CASE /\ SmsRejected \/ Restart
           /\ Read
           /\ clear' = (clear /\ ~ram'.guard /\ ~reloaded')
  <2>1. pending' => pending
    BY <1>4 DEF SmsRejected, Restart
  <2> QED
    BY <1>4, <2>1 DEF Read
<1> QED
  BY <1>1, <1>2, <1>3, <1>4 DEF Next

\* A zone masked by an alarm is going to be watched again, unless the mask was
\* read back from EEPROM; and a pending arming, begun with the guard off, has
\* no zone masked.
THEOREM MasksAlways == Spec => [](MaskedZoneRecovers /\ PendingSeesAllZones)
<1>1. Init => Masks
  BY DEF Init, Masks, MaskedZoneRecovers, PendingSeesAllZones
<1>2. TypeOK /\ Masks /\ [Next]_vars => TypeOK' /\ Masks'
  BY TypesStep, MasksStep
<1>3. Masks => MaskedZoneRecovers /\ PendingSeesAllZones
  BY DEF Masks
<1> QED
  BY InitTypes, <1>1, <1>2, <1>3, PTL DEF Spec

\* While an arming waits for its time no zone is masked (port.c:241).
THEOREM PendingSeesAllZonesAlways == Spec => []PendingSeesAllZones
BY MasksAlways, PTL

-----------------------------------------------------------------------------
\* Alarms

\* Where an alarm of a motion may be seen, and that a temperature alarm is sent
\* before the calls; flg_rst is set by the commands of this turn only, and
\* these acknowledge what the page shows.
Alarms == /\ PageKeepsAlarm /\ TempAlarmKept
          /\ rst = acked /\ (acked => ~news)
          /\ alarm \in Temps \cup {"none"}
             \/ pc \in {"again", "single", "send", "calls"}
          /\ pc = "calls" /\ ~AcceptCalls => ~heat

\* Commands change no alarm.
LEMMA CommandsKeepAlarms ==
  ASSUME TypeOK, Alarms,
         WebCommand \/ DtmfCommand \/ SmsCommand \/ CheckButton \/ StartArming
  PROVE  Alarms'
<1>1. UNCHANGED <<pc, alarm, send, heat>>
  BY DEF WebCommand, DtmfCommand, SmsCommand, CheckButton, StartArming
<1>2. \/ \E f \in BOOLEAN : /\ rst' = (rst \/ f) /\ acked' = (acked \/ f)
                            /\ news' = (news /\ ~f)
      \/ UNCHANGED <<page, news>>
  BY DEF WebCommand, DtmfCommand, SmsCommand, CheckButton, StartArming, Command,
         page
<1>3. rst' = acked' /\ (acked' => ~news') /\ (news' => news)
  <2>1. CASE UNCHANGED <<page, news>>
    BY <2>1 DEF Alarms, page
  <2>2. ASSUME NEW f \in BOOLEAN, rst' = (rst \/ f), acked' = (acked \/ f),
               news' = (news /\ ~f)
        PROVE  rst' = acked' /\ (acked' => ~news') /\ (news' => news)
    BY <2>2 DEF Alarms
  <2> QED
    BY <1>2, <2>1, <2>2
<1> QED
  BY <1>1, <1>3 DEF Alarms, PageKeepsAlarm, TempAlarmKept

\* The guards raise an alarm only when there is none.
LEMMA GuardsKeepAlarms ==
  ASSUME TypeOK, Alarms, MainGuard \/ LocalGuard \/ SingleSens
  PROVE  Alarms'
<1>1. pc' \in {"again", "single", "send"} /\ UNCHANGED <<page, heat>>
  BY GuardTypes
<1>2. alarm' = alarm \/ alarm = "none"
  BY DEF MainGuard, LocalGuard, SingleSens, SecondMotion
<1>3. UNCHANGED <<send, news>> \/ ~news'
  BY DEF MainGuard, LocalGuard, SingleSens
<1>4. news' => news /\ send' = send
  BY <1>3
<1>5. alarm \in Temps => alarm' = alarm
  BY <1>2 DEF Temps
<1> QED
  BY <1>1, <1>4, <1>5 DEF Alarms, PageKeepsAlarm, TempAlarmKept, page

\* The rest of the loop sends what was raised, and temperature raises.
LEMMA LoopKeepsAlarms ==
  ASSUME TypeOK, Alarms, Loop
  PROVE  Alarms'
<1> USE DEF Alarms, PageKeepsAlarm, TempAlarmKept, At, Goto, history, page
<1>1. CASE CheckGuard
  BY <1>1 DEF CheckGuard, Temps
<1>2. CASE SendAlarm
  BY <1>2 DEF SendAlarm
<1>3. CASE AlarmDone
  BY <1>3 DEF AlarmDone
<1>4. CASE GuardTimer
  BY <1>4 DEF GuardTimer
<1>5. CASE Announced
  BY <1>5, WatchAssumption DEF Announced, WatchAssumption
<1>6. CASE CheckTemperature
  BY <1>6 DEF CheckTemperature
<1>7. CASE TimerSendState
  BY <1>7 DEF TimerSendState
<1> QED
  BY <1>1, <1>2, <1>3, <1>4, <1>5, <1>6, <1>7 DEF Loop

LEMMA AlarmsStep == TypeOK /\ Alarms /\ [Next]_vars => Alarms'
<1> SUFFICES ASSUME TypeOK, Alarms, [Next]_vars PROVE Alarms'
  OBVIOUS
<1>1. CASE UNCHANGED vars
  BY <1>1 DEF vars, page, history, Alarms, PageKeepsAlarm, TempAlarmKept
<1>2. CASE TimePasses \/ SmsRejected
  BY <1>2 DEF TimePasses, SmsRejected, page, history, Alarms, PageKeepsAlarm,
              TempAlarmKept
<1>3. CASE Restart
  BY <1>3 DEF Restart, Alarms, PageKeepsAlarm, TempAlarmKept
<1> QED
  BY <1>1, <1>2, <1>3, CommandsKeepAlarms, GuardsKeepAlarms, LoopKeepsAlarms
  DEF Next, Step, Loop

\* An alarm stays on the page until a later command or its expiry; a motion
\* alarm leaves in the turn that raised it; a temperature alarm found while no
\* guard is on waits for the next guard.
THEOREM AlarmsAlways ==
  Spec => [](PageKeepsAlarm /\ TempAlarmKept /\ AlarmsLeaveAtOnce)
<1>1. Init => Alarms
  BY DEF Init, Alarms, PageKeepsAlarm, TempAlarmKept
<1>2. TypeOK /\ Alarms /\ [Next]_vars => TypeOK' /\ Alarms'
  BY TypesStep, AlarmsStep
<1>3. Alarms => PageKeepsAlarm /\ TempAlarmKept /\ AlarmsLeaveAtOnce
  BY DEF Alarms, AlarmsLeaveAtOnce, At
<1> QED
  BY InitTypes, <1>1, <1>2, <1>3, PTL DEF Spec

\* A temperature alarm that has not been announced is not lost (app.c:412).
THEOREM TempAlarmKeptAlways == Spec => []TempAlarmKept
BY AlarmsAlways, PTL

\* No motion alarm outlives its turn of the loop, so that the guards do not stay
\* deaf (app.c:127, 286).
THEOREM AlarmsLeaveAtOnceAlways == Spec => []AlarmsLeaveAtOnce
BY AlarmsAlways, PTL
=============================================================================
