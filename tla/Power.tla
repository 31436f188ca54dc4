-------------------------------- MODULE Power --------------------------------
(***************************************************************************)
(* power_control (ADC.c): the SMS about external power that went and came  *)
(* back.  The main loop calls it once a turn; a turn may take any time.    *)
(***************************************************************************)
EXTENDS Naturals

CONSTANTS
  Minute,        \* seconds of a minute; the intervals are whole minutes
  OnSettings,    \* values an SMS gives interval_power_on_report, 0: no report
  OffSettings    \* and interval_power_off_report

ASSUME PowerAssumption ==
  /\ Minute \in Nat \ {0}
  /\ OnSettings \subseteq 0..1 /\ OffSettings \subseteq 0..1

VARIABLES
  ext,       \* there is external power
  due,       \* a second has passed since the last check_power
  without,   \* time_without_power_s
  since,     \* get_time_s() - time_stamp_on
  guard, timeOn, timeOff, reportOn,   \* the flags of power_control
  on, off,   \* interval_power_on_report, interval_power_off_report
  pc,        \* "loop", or "settle" in the delay for the sensors
  last, turn,   \* the last notice and the notices' parity, as in Notice
  calm       \* history: seconds since a check found no power, reports on

settings == <<on, off>>
flags == <<guard, timeOn, timeOff, reportOn>>
notice == <<last, turn>>
vars == <<ext, due, without, since, flags, settings, pc, notice, calm>>

\* Bounds of the counters; above them nothing is compared.
Late == 2 * Minute + 1
Capped(n) == IF n > Late THEN Late ELSE n

Send(n) == last' = n /\ turn' = ~turn

-----------------------------------------------------------------------------
\* Power comes and goes, time passes, an SMS sets an interval.

Supply == ext' = ~ext
          /\ UNCHANGED <<due, without, since, flags, settings, pc, notice, calm>>

Second ==
  /\ since' = Capped(since + 1) /\ calm' = Capped(calm + 1)
  /\ due' \in {due, TRUE}
  /\ UNCHANGED <<ext, without, flags, settings, pc, notice>>

\* Mutant: any digit is taken.
SettingDigit ==
  /\ pc = "loop"
  /\ on' \in 0..3 /\ off' \in 0..3
  /\ UNCHANGED <<ext, due, without, since, flags, pc, notice, calm>>

Setting ==
  /\ pc = "loop"
  /\ on' \in OnSettings \cup {on} /\ off' \in OffSettings \cup {off}
  /\ UNCHANGED <<ext, due, without, since, flags, pc, notice, calm>>

-----------------------------------------------------------------------------
\* power_control

\* check_power, not before a second has passed.
CheckPower ==
  /\ due' = FALSE
  /\ without' = IF ~due THEN without
                ELSE IF ext THEN 0 ELSE Capped(without + 1)
  /\ calm' = IF without' > 0 /\ off # 0 THEN 0 ELSE calm

\* Without power, after the interval: one report.
ReportOutage ==
  \/ /\ timeOff /\ without' > Minute * off
     /\ timeOn' = FALSE /\ timeOff' = FALSE
     /\ Send("off")
  \/ /\ ~(timeOff /\ without' > Minute * off)
     /\ UNCHANGED <<timeOn, timeOff, notice>>

\* Mutants: the last time without power is not kept in time_stamp_on; a second
\* outage forgets the report that is due.
PowerIsOffUntimed ==
  off # 0 /\ guard' = FALSE /\ UNCHANGED <<since, reportOn>> /\ ReportOutage
PowerIsOffForgets ==
  off # 0 /\ guard' = FALSE /\ since' = 0 /\ reportOn' = FALSE /\ ReportOutage

PowerIsOff ==
  off # 0 /\ guard' = FALSE /\ since' = 0 /\ UNCHANGED reportOn /\ ReportOutage

\* Mutant: an outage can be reported again as soon as power is seen.
PowerReturnsEarly ==
  /\ ~timeOn
  /\ since' = 0 /\ timeOn' = TRUE /\ reportOn' = TRUE /\ timeOff' = TRUE
  /\ UNCHANGED notice

\* With power again after a reported outage: the interval begins.
PowerReturns ==
  /\ ~timeOn
  /\ since' = 0 /\ timeOn' = TRUE /\ reportOn' = TRUE
  /\ UNCHANGED <<timeOff, notice>>

\* Mutant: flag_time_off is not set again.
ReportReturnOnce ==
  /\ timeOn /\ reportOn /\ since > Minute * on
  /\ reportOn' = FALSE
  /\ Send("on")
  /\ UNCHANGED <<since, timeOn, timeOff>>

ReportReturn ==
  /\ timeOn /\ reportOn /\ since > Minute * on
  /\ reportOn' = FALSE /\ timeOff' = TRUE
  /\ Send("on")
  /\ UNCHANGED <<since, timeOn>>

PowerIsOn ==
  /\ \/ PowerReturns \/ ReportReturn
     \/ /\ timeOn /\ ~(reportOn /\ since > Minute * on)
        /\ UNCHANGED <<since, timeOn, timeOff, reportOn, notice>>
  /\ UNCHANGED guard

PowerControl ==
  /\ pc = "loop"
  /\ CheckPower
  /\ \/ without' = 0 /\ on # 0 /\ guard /\ PowerIsOn /\ UNCHANGED pc
     \/ /\ without' = 0 /\ on # 0 /\ ~guard      \* first delay_s(10)
        /\ guard' = TRUE /\ pc' = "settle"
        /\ UNCHANGED <<since, timeOn, timeOff, reportOn, notice>>
     \/ without' > 0 /\ PowerIsOff /\ UNCHANGED pc
     \/ /\ IF without' = 0 THEN on = 0 ELSE off = 0
        /\ UNCHANGED <<since, flags, pc, notice>>
  /\ UNCHANGED <<ext, settings>>

Settled ==
  /\ pc = "settle" /\ pc' = "loop"
  /\ PowerIsOn
  /\ UNCHANGED <<ext, due, without, settings, calm>>

-----------------------------------------------------------------------------
\* A restart; the intervals are kept in EEPROM.
Begin ==
  /\ due' = FALSE /\ without' = 0 /\ since' = 0
  /\ guard' = FALSE /\ timeOn' = TRUE /\ timeOff' = TRUE /\ reportOn' = FALSE
  /\ pc' = "loop"

Restart ==
  /\ Begin
  /\ last' = "on"
  /\ UNCHANGED <<ext, settings, turn, calm>>

Init ==
  /\ ext \in BOOLEAN
  /\ due = FALSE /\ without = 0 /\ since = 0
  /\ guard = FALSE /\ timeOn = TRUE /\ timeOff = TRUE /\ reportOn = FALSE
  /\ pc = "loop"
  /\ on = 2 /\ off = 1
  /\ last = "on" /\ turn = FALSE /\ calm = 0

Next == \/ Supply \/ Second \/ Setting
        \/ PowerControl \/ Settled
        \/ Restart

Spec == Init /\ [][Next]_vars

\* The main loop calls power_control again and again, and time passes.
FairSpec == /\ Spec
            /\ WF_vars(PowerControl) /\ WF_vars(Settled)
            /\ WF_vars(Second /\ due')

-----------------------------------------------------------------------------
TypeOK ==
  /\ ext \in BOOLEAN /\ due \in BOOLEAN /\ guard \in BOOLEAN
  /\ timeOn \in BOOLEAN /\ timeOff \in BOOLEAN /\ reportOn \in BOOLEAN
  /\ turn \in BOOLEAN
  /\ without \in 0..Late /\ since \in 0..Late /\ calm \in 0..Late
  /\ on \in 0..2 /\ off \in 0..1
  /\ pc \in {"loop", "settle"} /\ last \in {"on", "off"}

\* The flags of power_control agree with the notices sent: it is free to report
\* an outage only after none or after the end of one, and to report an end only
\* after an outage.
FlagsFollowNotices ==
  /\ timeOff <=> last = "on"
  /\ ~timeOn => last = "off"
  /\ reportOn => last = "off" /\ timeOn
  /\ last = "off" /\ timeOn => reportOn

\* The notices alternate, beginning with an outage: power_control implements
\* the abstract promise, whatever intervals an SMS sets and whenever it restarts.
Promise == INSTANCE Notice WITH last <- last, turn <- turn
Alternates == Promise!Spec

\* "External power is on." is not sent while power flickers: no check since the
\* reported interval began has found the unit without power, unless the reports
\* of outages were switched off at that time.
OnIsSettled == [][turn' # turn /\ last' = "on" => calm > Minute * on]_vars

\* The last notice becomes true in the end, when power stays as it is, the
\* interval of its report is not switched off and the unit does not restart.
OutageTold == <>[](~ext /\ off # 0) /\ <>[][~Restart]_vars => <>[](last = "off")
ReturnTold == <>[](ext /\ on # 0) /\ <>[][~Restart]_vars => <>[](last = "on")

=============================================================================
