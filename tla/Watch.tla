-------------------------------- MODULE Watch --------------------------------
(***************************************************************************)
(* What the armed unit does about motion (app.c): check_guard with         *)
(* main_guard, local_guard and single_sens, the alarm it raises and sends, *)
(* the zone it masks after an alarm and the recovery of that zone, the     *)
(* alarm flag shown on the web page, and the temperature alarm.            *)
(*                                                                         *)
(* Commands, buttons and restarts are whole steps here (their own steps    *)
(* are those of Arming).  Times are left open: a motion after a first one  *)
(* may come too early, in time or too late, and an SMS may change first_m  *)
(* between two of them.                                                    *)
(***************************************************************************)
EXTENDS Naturals, Sequences

CONSTANTS
  Zones,        \* the motion sensors that are connected
  FirstM,       \* values first_m may have: the first motion is an alarm
  Single,       \* single_sensor: single_sens is called
  AcceptCalls   \* accept_calls: an arming by button is announced by calls

ASSUME WatchAssumption ==
  /\ Zones \subseteq {"front", "inside1", "inside2", "side"}
  /\ FirstM \subseteq BOOLEAN /\ {Single, AcceptCalls} \subseteq BOOLEAN

VARIABLES
  ram,       \* config: guard, local_guard and, for zone_mask, the masked zone
  rom,       \* the same fields in EEPROM
  pending,   \* time_from_button_s # 0xFFFF
  pc,        \* point of the main loop
  alarm,     \* flag_alarm
  send,      \* flag_for_send, the alarm shown on the page
  rst,       \* flg_rst
  acked,     \* history: a command set it in this turn of the loop
  inside,    \* flag_motion_inside
  recover,   \* flag_motion of main_guard
  single,    \* flag_motion of single_sens
  cnt,       \* motion_cnt of main_guard, local_guard and single_sens
  hot,       \* flag of check_temperature_smoke
  age,       \* time_from_motion_s: 1 past TIMER_RST_LOCAL, 2 past recovery
  news,      \* history: the page shows an alarm that nobody acknowledged
  heat,      \* history: a temperature alarm was raised and not yet sent
  reloaded,  \* history: the masked zone was read from EEPROM
  clear      \* history: the guard was off since the arming was started

modes == <<ram, rom, pending>>
guards == <<recover, single, cnt>>
history == <<news, heat>>
page == <<rst, acked>>
vars == <<modes, pc, alarm, send, page, inside, guards, hot, age, history,
          reloaded, clear>>

Guards == {"main", "local", "single"}
Order == <<"front", "inside1", "inside2", "side">>
Inside == {"inside1", "inside2"}
Temps == {"temp", "temp_int"}
Config == [guard : BOOLEAN, local : BOOLEAN, blind : Zones \cup {"none"}]

\* Points at which the program waits for time or for the modem.
Waits == {"top", "again", "calls", "armed", "rest"}
Points == Waits \cup {"check", "single", "send", "timer"}
At(p) == pc = p
Goto(p) == pc' = p

Seen == Zones \ {ram.blind}

-----------------------------------------------------------------------------
\* Commands, where the program waits.  Every one saves the configuration;
\* those of the page, of the buttons and of DTMF 1 and 2 set flg_rst.

Command(m, flag) ==
  /\ ram' = m /\ rom' = m
  /\ rst' = (rst \/ flag) /\ acked' = (acked \/ flag)
  /\ news' = (news /\ ~flag)

\* get_message_from_openwrt; reboot_gsm calls reset_mcu(0), which saves
WebCommand ==
  /\ pc \in Waits
  /\ \/ /\ \/ Command([ram EXCEPT !.local = FALSE, !.guard = TRUE], TRUE)
           \/ Command([ram EXCEPT !.guard = FALSE], TRUE)
           \/ Command(ram, FALSE)               \* reset_mcu(0)
        /\ UNCHANGED inside
     \/ /\ \/ Command([ram EXCEPT !.guard = FALSE, !.local = TRUE], TRUE)
           \/ Command([ram EXCEPT !.local = FALSE], TRUE)
        /\ inside' = "none"
  /\ UNCHANGED <<pending, pc, alarm, send, guards, hot, age, heat>>

\* parse_DTFM, digits 1, 2 and 6
DtmfCommand ==
  /\ pc \in Waits
  /\ \/ \E v \in BOOLEAN : Command([ram EXCEPT !.guard = v], TRUE)
     \/ Command([ram EXCEPT !.local = TRUE, !.guard = FALSE], FALSE)
  /\ UNCHANGED <<pending, pc, alarm, send, inside, guards, hot, age, heat>>

\* An SMS "set:" with guard= or local_guard=, or with other settings only; the
\* last case is also the reset_mcu(0) of check_registration.
SmsCommand ==
  /\ pc = "rest"
  /\ \/ \E v \in BOOLEAN :
          \/ Command([guard |-> v, local |-> FALSE, blind |-> "none"], FALSE)
          \/ Command([guard |-> FALSE, local |-> v, blind |-> "none"], FALSE)
     \/ Command(ram, FALSE)
  /\ UNCHANGED <<pending, pc, alarm, send, inside, guards, hot, age, heat>>

\* A rejected "set:" reads the configuration back, the masked zone with it.
SmsRejected ==
  /\ pc = "rest"
  /\ ram' = rom
  /\ UNCHANGED <<rom, pending, pc, alarm, send, page, inside, guards, hot, age,
                 history>>

\* Mutant: check_button starts the arming without set_zone_mask(0xF0).
StartArmingMasked ==
  /\ ~ram.guard
  /\ pending' = TRUE
  /\ Command([ram EXCEPT !.local = FALSE], TRUE)
  /\ UNCHANGED <<pc, alarm, send, inside, guards, hot, age, heat>>

\* check_button: the guard button starts an arming ...
StartArming ==
  /\ ~ram.guard
  /\ pending' = TRUE
  /\ Command([ram EXCEPT !.local = FALSE, !.blind = "none"], TRUE)
  /\ UNCHANGED <<pc, alarm, send, inside, guards, hot, age, heat>>

\* ... or disarms or cancels; a touch of the local button cancels a pending
\* arming and, held, switches the local guard.
CheckButton ==
  /\ pending' = FALSE
  /\ \/ /\ ram.guard \/ pending
        /\ Command([ram EXCEPT !.guard = FALSE, !.local = FALSE], TRUE)
        /\ UNCHANGED inside
     \/ /\ Command([ram EXCEPT !.guard = FALSE, !.local = ~ram.local], TRUE)
        /\ inside' = IF ram.local THEN "none" ELSE inside
     \/ UNCHANGED <<ram, rom, page, news, inside>>
  /\ UNCHANGED <<pc, alarm, send, guards, hot, age, heat>>

\* A restart by power loss, or after reset_mcu has saved the configuration.
Restart ==
  /\ \E r \in {ram, rom} : ram' = r /\ rom' = r
  /\ pending' = FALSE /\ pc' = "top" /\ alarm' = "none" /\ send' = "none"
  /\ rst' = FALSE /\ acked' = FALSE
  /\ inside' = "none" /\ recover' = FALSE /\ single' = FALSE
  /\ cnt' = [g \in Guards |-> 0] /\ hot' = FALSE /\ age' = 0
  /\ news' = FALSE /\ heat' = FALSE

\* The timer interrupt: inc_time_from_motion.
TimePasses ==
  /\ age < 2 /\ age' = age + 1
  /\ UNCHANGED <<modes, pc, alarm, send, page, inside, guards, hot, history>>

-----------------------------------------------------------------------------
\* First and second motion, as every guard g counts them.

Count(g, n) == cnt' = [cnt EXCEPT ![g] = n]

\* Mutant: motion_cnt counts every motion.
FirstMotionAdds(g) == alarm = "none" /\ FALSE \in FirstM /\ Count(g, cnt[g] + 1)

\* The guard returns: a first motion, or one too early to be the second.
FirstMotion(g) == alarm = "none" /\ FALSE \in FirstM /\ Count(g, 1)

\* The second motion, or any one under first_m; main_guard forgets the first,
\* the others may go on counting from it until it expires.
SecondMotion(g, keeps) ==
  /\ alarm = "none"
  /\ TRUE \in FirstM \/ cnt[g] = 1
  /\ Count(g, 0) \/ (keeps /\ UNCHANGED cnt)

Expired(g) == cnt[g] = 1 /\ Count(g, 0)

-----------------------------------------------------------------------------
\* main_guard

\* The first of the moved sensors m in the order in which the code asks.
First(m) ==
  Order[CHOOSE i \in 1..Len(Order) :
          Order[i] \in m /\ \A j \in 1..(i - 1) : Order[j] \notin m]

\* Mutant: the other branch of the zone test forgets flag_motion as well.
RaiseForgetful(z) ==
  /\ alarm' = z /\ age' = 0
  /\ ram' = [ram EXCEPT !.blind = z]
  /\ recover' = FALSE
  /\ UNCHANGED rom

\* An alarm masks its zone.  Where the code compares zone, a signed char, with
\* 0xB0, 0xD0, 0xE0 and 0x70, only 0x70 (the side is masked) can be equal: then
\* all zones are seen again and the guard goes off, in EEPROM too.
Raise(z) ==
  /\ alarm' = z /\ age' = 0
  /\ \/ /\ ram.blind = "side"
        /\ ram' = [ram EXCEPT !.guard = FALSE, !.blind = "none"] /\ rom' = ram'
        /\ recover' = FALSE
     \/ /\ ram.blind # "side"
        /\ ram' = [ram EXCEPT !.blind = z]
        /\ recover' = TRUE
        /\ UNCHANGED rom

MainGuard ==
  /\ At("check") /\ ram.guard
  /\ \/ /\ \E m \in (SUBSET Seen) \ {{}} :
             SecondMotion("main", FALSE) /\ Raise(First(m))
        /\ Goto("send")
        /\ UNCHANGED <<send, news>>
     \/ /\ \/ Seen # {} /\ FirstMotion("main")
           \/ Expired("main")
           \/ (recover /\ age = 2 => cnt["main"] = 1) /\ UNCHANGED cnt
        /\ Goto("send")
        /\ UNCHANGED <<ram, rom, alarm, send, recover, age, news>>
     \/ /\ recover /\ age = 2                 \* the masked zone is seen again
        /\ ram' = [ram EXCEPT !.blind = "none"]
        /\ recover' = FALSE
        /\ send' = "none" /\ news' = FALSE
        /\ Goto("again")
        /\ UNCHANGED <<rom, alarm, cnt, age>>
  /\ UNCHANGED <<pending, page, inside, single, hot, heat>>

-----------------------------------------------------------------------------
\* local_guard and single_sens

\* Motion inside (the family) keeps the guard silent, motion outside warns.
Warn(m) ==
  \/ /\ m \cap Inside # {}
     /\ inside' = "inside"
     /\ UNCHANGED alarm
  \/ /\ m \cap Inside = {} /\ inside = "none"
     /\ inside' = IF "side" \in m THEN "side" ELSE "front"
     /\ alarm' = inside'
  \/ /\ m \cap Inside = {} /\ inside # "none"
     /\ UNCHANGED <<inside, alarm>>

LocalGuard ==
  /\ At("check") /\ ~ram.guard /\ ram.local
  /\ \/ /\ \E m \in (SUBSET Seen) \ {{}} :
             SecondMotion("local", m \cap Inside = {}) /\ Warn(m)
        /\ age' = 0
        /\ UNCHANGED <<send, news>>
     \/ /\ \/ Seen # {} /\ FirstMotion("local")
           \/ Expired("local")
           \/ (inside = "inside" /\ age > 0 => cnt["local"] = 1)
              /\ UNCHANGED cnt
        /\ UNCHANGED <<alarm, send, inside, age, news>>
     \/ /\ inside = "inside" /\ age > 0
        /\ inside' = "none" /\ send' = "none" /\ news' = FALSE
        /\ UNCHANGED <<alarm, cnt, age>>
  /\ Goto(IF Single THEN "single" ELSE "send")
  /\ UNCHANGED <<modes, page, recover, single, hot, heat>>

SingleSens ==
  /\ At("single")
  /\ \/ /\ FirstMotion("single")
        /\ Goto("send")
        /\ UNCHANGED <<single, alarm, send, news>>
     \/ \E s \in BOOLEAN :
          /\ \/ /\ s /\ SecondMotion("single", TRUE)
                /\ alarm' = IF single THEN alarm ELSE "single"
             \/ /\ s = single
                /\ Expired("single") \/ UNCHANGED cnt
                /\ UNCHANGED alarm
          /\ \/ single' = s /\ Goto("send") /\ UNCHANGED <<send, news>>
             \/ /\ s                          \* 300 s since the first motion
                /\ single' = FALSE /\ send' = "none" /\ news' = FALSE
                /\ Goto("again")
  /\ UNCHANGED <<modes, page, inside, recover, hot, age, heat>>

-----------------------------------------------------------------------------
\* The rest of check_guard and of the main loop

CheckGuard ==
  /\ \/ At("top") /\ Goto("check")
     \/ At("check") /\ ~ram.guard /\ ~ram.local /\ Goto("timer")
     \/ At("again") /\ Goto("send")
     \/ At("send") /\ alarm = "none" /\ Goto("timer")
  /\ UNCHANGED <<modes, alarm, send, page, inside, guards, hot, age, history>>

\* send_alarm_signal_if_needed, up to the calls and after them.
SendAlarm ==
  /\ At("send") /\ alarm # "none"
  /\ send' = alarm
  /\ news' = ~acked
  /\ heat' = (heat /\ alarm \notin Temps)
  /\ Goto("calls")
  /\ UNCHANGED <<modes, alarm, page, inside, guards, hot, age>>

\* Mutant: the alarm is not reset after its calls.
AlarmStays ==
  /\ At("calls")
  /\ ram' = [ram EXCEPT !.guard = FALSE]
  /\ Goto("timer")
  /\ UNCHANGED <<rom, pending, alarm, send, page, inside, guards, hot, age,
                 history>>

AlarmDone ==
  /\ At("calls")
  /\ alarm' = "none"
  /\ ram' = [ram EXCEPT !.guard = FALSE]
  /\ Goto("timer")
  /\ UNCHANGED <<rom, pending, send, page, inside, guards, hot, age, history>>

\* guard_timer
GuardTimer ==
  /\ At("timer")
  /\ \/ Goto("rest") /\ UNCHANGED modes
     \/ /\ ~ram.guard /\ pending
        /\ ram' = [ram EXCEPT !.guard = TRUE, !.local = FALSE] /\ rom' = ram'
        /\ pending' = FALSE
        /\ Goto("armed")
  /\ UNCHANGED <<alarm, send, page, inside, guards, hot, age, history>>

\* Mutant: alarm_play_file is called whether or not accept_calls is set.
AnnouncedAlways ==
  /\ At("armed")
  /\ alarm' = "none"
  /\ Goto("rest")
  /\ UNCHANGED <<modes, send, page, inside, guards, hot, age, history>>

\* The announcement of guard_timer: alarm_play_file ends by clearing flag_alarm,
\* unless it returned at once for want of a deposit.
Announced ==
  /\ At("armed")
  /\ alarm' \in {alarm} \cup {a \in {"none"} : AcceptCalls}
  /\ Goto("rest")
  /\ UNCHANGED <<modes, send, page, inside, guards, hot, age, history>>

\* check_temperature_smoke: one alarm, then never again.
CheckTemperature ==
  /\ At("rest") /\ ~hot
  /\ hot' = TRUE /\ heat' = TRUE
  /\ alarm' \in Temps
  /\ UNCHANGED <<modes, pc, send, page, inside, guards, age, news>>

\* Mutant: timer_send_state does not clear flg_rst.
TimerSendStateAgain ==
  /\ At("rest") /\ Goto("top")
  /\ send' = IF rst THEN "none" ELSE send
  /\ acked' = FALSE
  /\ UNCHANGED <<modes, alarm, rst, inside, guards, hot, age, history>>

\* timer_send_state
TimerSendState ==
  /\ At("rest") /\ Goto("top")
  /\ send' = IF rst THEN "none" ELSE send
  /\ rst' = FALSE /\ acked' = FALSE
  /\ UNCHANGED <<modes, alarm, inside, guards, hot, age, history>>

-----------------------------------------------------------------------------
Init ==
  /\ ram = [guard |-> FALSE, local |-> FALSE, blind |-> "none"] /\ rom = ram
  /\ pending = FALSE /\ pc = "top" /\ alarm = "none" /\ send = "none"
  /\ rst = FALSE /\ acked = FALSE
  /\ inside = "none" /\ recover = FALSE /\ single = FALSE
  /\ cnt = [g \in Guards |-> 0] /\ hot = FALSE /\ age = 0
  /\ news = FALSE /\ heat = FALSE /\ reloaded = FALSE /\ clear = FALSE

Step ==
  \/ WebCommand \/ DtmfCommand \/ SmsCommand \/ CheckButton \/ TimePasses
  \/ MainGuard \/ LocalGuard \/ SingleSens \/ CheckGuard \/ SendAlarm
  \/ AlarmDone \/ GuardTimer \/ Announced \/ CheckTemperature
  \/ TimerSendState

\* What the history variables remember of the masked zone and of the guard.
Kept == reloaded' = (reloaded /\ ram'.blind = ram.blind)
Read == reloaded' = (ram'.blind # "none"
                     /\ (reloaded \/ ram'.blind # ram.blind \/ ~recover'))
Next ==
  \/ Step /\ Kept /\ clear' = (clear /\ ~ram'.guard)
  \/ StartArming /\ Kept /\ clear' = TRUE
  \/ (SmsRejected \/ Restart) /\ Read /\ clear' = (clear /\ ~ram'.guard /\ ~reloaded')

Spec == Init /\ [][Next]_vars

-----------------------------------------------------------------------------
TypeOK ==
  /\ ram \in Config /\ rom \in Config /\ pending \in BOOLEAN /\ pc \in Points
  /\ alarm \in Zones \cup Temps \cup {"single", "none"}
  /\ send \in Zones \cup Temps \cup {"single", "none"}
  /\ rst \in BOOLEAN /\ inside \in {"none", "inside", "front", "side"}
  /\ recover \in BOOLEAN /\ single \in BOOLEAN /\ hot \in BOOLEAN
  /\ cnt \in [Guards -> 0..1] /\ age \in 0..2
  /\ {acked, news, heat, reloaded, clear} \subseteq BOOLEAN

\* A zone masked by an alarm is watched again some time: main_guard remembers
\* it (flag_motion) until the recovery timer or another alarm unmasks it.  Only
\* a mask read back from EEPROM, by a restart or a rejected SMS, is forgotten.
MaskedZoneRecovers == ram.blind # "none" /\ ~reloaded => recover

\* A button press arms all zones: the mask stays at 0xF0 for as long as the
\* arming is pending, unless the guard was on or EEPROM was read meanwhile.
PendingSeesAllZones == pending /\ clear => ram.blind = "none"

\* An alarm stays on the page until a command that came after it: flg_rst of
\* an earlier command never wipes it at the next timer_send_state, unless the
\* command fell in the very turn of the loop that raised the alarm.
PageKeepsAlarm == news => send # "none"

\* A temperature alarm found while no guard is on waits for the next guard: it
\* is not lost before it is sent, as long as arming is not announced by calls.
TempAlarmKept == heat /\ ~AcceptCalls => alarm \in Temps

\* A motion alarm is sent in the turn that raised it: flag_alarm, which makes
\* every guard deaf, is never left set for a later turn.
AlarmsLeaveAtOnce == At("top") => alarm \in Temps \cup {"none"}

=============================================================================
