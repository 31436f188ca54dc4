------------------------------- MODULE Arming -------------------------------
(***************************************************************************)
(* Arming and disarming of the alarm unit (ATmega328p): the guard modes in *)
(* RAM and in EEPROM, the two buttons served by the 10 ms timer interrupt, *)
(* the delayed arming by button, the commands of the router (web page), of *)
(* a phone call (DTMF) and of an SMS, the software watchdog and restarts.  *)
(*                                                                         *)
(* The main program is one thread that an interrupt may preempt between    *)
(* any two assignments.  It is described by its call stack: the top is the *)
(* point being executed.  delay_ms, delay_s and the waits for the modem    *)
(* are wait points: they read the queues of the modem and of the router    *)
(* and run the command handlers inside the wait, on top of the stack.      *)
(*                                                                         *)
(* Left to other modules: motion detection, the zone mask, the flags shown *)
(* on the web page, the conversation with the modem.                       *)
(***************************************************************************)
EXTENDS Integers, Sequences

CONSTANTS
  Delay,     \* seconds from the button to arming: 60*interval_after_button_m
  Sentinel,  \* 0xFFFF: time_from_button_s when no arming is pending
  Debounce,  \* 15: consecutive 10 ms samples of a pressed button
  WdtLimit,  \* 600: seconds of soft_wdt without a turn of the main loop
  MaxNest,   \* bound of the model: depth of handlers run inside waits
  Web,       \* commands the router may send
  Dtmf,      \* digits an admin may press during a call
  Sms        \* settings an SMS "set:" may carry

\* The product 60*interval_after_button_m is computed modulo 2^16 = Sentinel+1,
\* so it is a multiple of 4 and at most Sentinel-3.
ASSUME ArmingAssumption ==
  /\ Delay \in Nat /\ Sentinel \in Nat /\ Delay <= Sentinel - 3
  /\ Debounce \in Nat \ {0} /\ WdtLimit \in Nat /\ MaxNest \in Nat \ {0}
  /\ Web \subseteq {"m_g=1", "m_g=0", "l_g=1", "l_g=0", "reboot_all",
                    "reboot_gsm"}
  /\ Dtmf \subseteq {"dtmf1", "dtmf2", "dtmf6"}
  /\ Sms \subseteq {"guard=0", "guard=1", "local_guard=0", "local_guard=1",
                    "autoguard=0", "autoguard=1"}

VARIABLES
  ram,     \* config_t in RAM: guard, local_guard, autoguard, first_usage = 0xAB
  rom,     \* the same fields in EEPROM
  btn,     \* time_from_button_s
  press,   \* press_button of check_button
  held,    \* button_state of check_button
  wdt,     \* soft_wdt
  stack,   \* call stack of the main program
  wish,    \* history: the last command or timer decision was to arm the guard
  excuse,  \* history: why both modes may be on
  stale,   \* history: a button changed a mode that a save had already read
  late     \* history: seconds that a due arming has been waiting

vars == <<ram, rom, btn, press, held, wdt, stack, wish, excuse, stale, late>>

Config == [guard : BOOLEAN, local : BOOLEAN, auto : BOOLEAN, used : BOOLEAN]

\* eeprom_read_config: the values of a first start.
Default == [guard |-> FALSE, local |-> FALSE, auto |-> TRUE, used |-> TRUE]
Load(r) == IF r.used THEN r ELSE Default

-----------------------------------------------------------------------------
\* The call stack.

Top == stack[Len(stack)]
At(p) == Top = p
Goto(p) == stack' = [stack EXCEPT ![Len(stack)] = p]
Push(p, next) == stack' = Append([stack EXCEPT ![Len(stack)] = next], p)
Return == stack' = SubSeq(stack, 1, Len(stack) - 1)

\* Points where the program waits for time or for the modem: it reads the
\* queues there and runs the handlers of what they hold.
Waits == {"setup", "call", "calls", "arm:wait", "rest", "dtmf1:wait",
          "dtmf1:play", "dtmf2:wait", "dtmf2:play", "dtmf6:play",
          "set:reply", "reset:reply", "reboot:wait", "gsm:wait"}

\* EEPROM_update: the byte in the register, guard first, then local_guard.
PutGuard(v) == IF v THEN "put:guard=1" ELSE "put:guard=0"
PutLocal(v) == IF v THEN "put:local=1" ELSE "put:local=0"
SavePoints == {"save", PutGuard(FALSE), PutGuard(TRUE),
                       PutLocal(FALSE), PutLocal(TRUE)}

\* Points between the first effect of a command and the end of its save.
Open == {"m_g=1:guard", "m_g=1:save", "m_g=0:save", "l_g=1:local",
         "l_g=1:save", "l_g=0:save", "dtmf1:save", "dtmf2:play",
         "dtmf2:save", "dtmf6:guard", "dtmf6:save", "arm:local", "arm:save",
         "auto:save", "auto:arm", "again:save", "guard=0:2", "guard=1:2",
         "local_guard=0:2", "local_guard=1:2", "set:end", "set:save",
         "reset:save"} \cup SavePoints \cup Sms

Points == Waits \cup Open \cup Web \cup Dtmf \cup
          {"top", "guard", "watch", "watch:again", "timer", "arm:guard",
           "arm:done", "reset", "reboot_all"}

Settled == ~stale /\ \A i \in 1..Len(stack) : stack[i] \notin Open
Both(r) == r.guard /\ r.local
Due == ~ram.guard /\ Delay < btn /\ btn < Sentinel

-----------------------------------------------------------------------------
\* Assignments.

\* set_guard and set_local_guard as a command calls them.
SetGuard(v) ==
  /\ ram' = [ram EXCEPT !.guard = v]
  /\ wish' = v
  /\ excuse' = IF v THEN excuse ELSE "none"
  /\ UNCHANGED stale

SetLocal(v) ==
  /\ ram' = [ram EXCEPT !.local = v]
  /\ excuse' = IF v THEN excuse ELSE "none"
  /\ UNCHANGED <<wish, stale>>

Modes == <<ram, wish, excuse, stale>>
Isr == <<press, held>>

-----------------------------------------------------------------------------
\* EEPROM_update: bytes in the order of config_t, each one read from RAM and
\* written when the EEPROM has finished the byte before.

Save ==
  /\ \/ /\ At("save")
        /\ Goto(PutGuard(ram.guard))
        /\ stale' = FALSE
        /\ UNCHANGED rom
     \/ \E v \in BOOLEAN :
          /\ At(PutGuard(v))
          /\ rom' = [rom EXCEPT !.guard = v]
          /\ Goto(PutLocal(ram.local))
          /\ UNCHANGED stale
     \/ \E v \in BOOLEAN :
          /\ At(PutLocal(v))
          /\ rom' = [ram EXCEPT !.guard = rom.guard, !.local = v]
          /\ Return
          /\ UNCHANGED stale
  /\ UNCHANGED <<ram, wish, excuse, Isr, btn, wdt>>

\* main after a reset: eeprom_read_config(1), then setup_init.
Restart(r) ==
  /\ ram' = Load(r) /\ rom' = Load(r)
  /\ btn' = Sentinel /\ press' = 0 /\ held' = FALSE /\ wdt' = 0
  /\ stack' = <<"setup">> /\ stale' = FALSE
  /\ wish' = IF Settled THEN wish ELSE Load(r).guard
  /\ excuse' = IF Settled THEN excuse
               ELSE IF Both(Load(r)) THEN "cut" ELSE "none"

\* Loss of power, or the hardware watchdog.
PowerLoss == Restart(rom)

\* Power up with BTN_DEFAULT pressed: a cleared config is saved.
FactoryReset ==
  Restart([guard |-> FALSE, local |-> FALSE, auto |-> FALSE, used |-> FALSE])

-----------------------------------------------------------------------------
\* The main loop.

LoopTop ==
  /\ \/ At("setup") \/ At("top")
  /\ wdt' = 0
  /\ Goto("call")
  /\ UNCHANGED <<Modes, Isr, rom, btn>>

\* Mutant: check_guard skips guard_timer when the local guard was served.
CheckGuardNoTimer ==
  /\ \/ At("call") /\ Goto("guard")
     \/ At("guard") /\ Goto(IF ram.guard \/ ram.local THEN "watch" ELSE "timer")
     \/ At("watch") /\ \/ Goto(IF ram.local THEN "rest" ELSE "timer")
                       \/ Goto("calls")
                       \/ ram.guard /\ Goto("watch:again")
     \/ At("again:save") /\ Push("save", "calls")
  /\ UNCHANGED <<Modes, Isr, rom, btn, wdt>>

\* check_guard: whether an armed guard reports an alarm is left open here.
CheckGuard ==
  /\ \/ At("call") /\ Goto("guard")
     \/ At("guard") /\ Goto(IF ram.guard \/ ram.local THEN "watch" ELSE "timer")
     \/ At("watch") /\ \/ Goto("timer")
                       \/ Goto("calls")
                       \/ ram.guard /\ Goto("watch:again")
     \/ At("again:save") /\ Push("save", "calls")
  /\ UNCHANGED <<Modes, Isr, rom, btn, wdt>>

\* main_guard after a second alarm in another zone, and the end of
\* send_alarm_signal_if_needed: the guard goes off without a command.
AlarmDisarms ==
  /\ \/ At("watch:again") /\ Goto("again:save")
     \/ At("calls") /\ Goto("timer")
  /\ ram' = [ram EXCEPT !.guard = FALSE]
  /\ UNCHANGED <<Isr, rom, btn, wdt, wish, excuse, stale>>

\* guard_timer: reads guard, then time_from_button_s.
GuardTimer ==
  /\ At("timer")
  /\ IF ~ram.guard /\ btn # Sentinel /\ ~ram.auto
       THEN /\ ram' = [ram EXCEPT !.auto = TRUE]
            /\ Goto(IF Due THEN "auto:arm" ELSE "auto:save")
       ELSE /\ Goto(IF Due THEN "arm:guard" ELSE "rest")
            /\ UNCHANGED ram
  /\ UNCHANGED <<Isr, rom, btn, wdt, wish, excuse, stale>>

TimerSaves ==
  /\ \/ At("auto:save") /\ Push("save", "rest")
     \/ At("auto:arm") /\ Push("save", "arm:guard")
     \/ At("arm:save") /\ Push("save", "arm:done")
  /\ UNCHANGED <<Modes, Isr, rom, btn, wdt>>

\* Mutant: guard_timer does not switch the local guard off.
TimerArmsOver ==
  /\ At("arm:guard") /\ SetGuard(TRUE) /\ Goto("arm:save")
  /\ UNCHANGED <<Isr, rom, btn, wdt>>

TimerArms ==
  /\ \/ At("arm:guard") /\ SetGuard(TRUE) /\ Goto("arm:local")
     \/ At("arm:local") /\ SetLocal(FALSE) /\ Goto("arm:save")
  /\ UNCHANGED <<Isr, rom, btn, wdt>>

TimerDone ==
  /\ At("arm:done")
  /\ btn' = Sentinel
  /\ Goto("arm:wait")
  /\ UNCHANGED <<Modes, Isr, rom, wdt>>

\* The end of guard_timer's beeps, calls and SMS, and the rest of the loop;
\* check_registration may end in reset_mcu(0), which saves the config.
RestOfLoop ==
  /\ \/ At("arm:wait") /\ Goto("rest")
     \/ At("rest") /\ \/ Goto("top")
                      \/ Push("save", "rest")
                      \/ \E s \in Sms : Push(s, "rest")
                      \/ Sms # {} /\ Push("reset", "rest")
  /\ UNCHANGED <<Modes, Isr, rom, btn, wdt>>

-----------------------------------------------------------------------------
\* Commands.

\* A message read from a queue inside a wait.
Message ==
  /\ Top \in Waits /\ Len(stack) < MaxNest
  /\ \E m \in Web \cup Dtmf : Push(m, Top)
  /\ UNCHANGED <<Modes, Isr, rom, btn, wdt>>

\* get_message_from_openwrt
WebCommand ==
  /\ \/ At("m_g=1") /\ SetLocal(FALSE) /\ Goto("m_g=1:guard")
     \/ At("m_g=1:guard") /\ SetGuard(TRUE) /\ Goto("m_g=1:save")
     \/ At("m_g=0") /\ SetGuard(FALSE) /\ Goto("m_g=0:save")
     \/ At("l_g=1") /\ SetGuard(FALSE) /\ Goto("l_g=1:local")
     \/ At("l_g=1:local") /\ SetLocal(TRUE) /\ Goto("l_g=1:save")
     \/ At("l_g=0") /\ SetLocal(FALSE) /\ Goto("l_g=0:save")
  /\ UNCHANGED <<Isr, rom, btn, wdt>>

\* parse_DTFM: no digit but '6' touches the local guard.
DtmfCommand ==
  /\ \/ /\ At("dtmf1:wait")
        /\ ram' = [ram EXCEPT !.guard = TRUE]
        /\ wish' = TRUE
        /\ excuse' = IF ram.local THEN "dtmf" ELSE excuse
        /\ Goto("dtmf1:save")
        /\ UNCHANGED stale
     \/ At("dtmf2:wait") /\ SetGuard(FALSE) /\ Goto("dtmf2:play")
     \/ At("dtmf6:play") /\ SetLocal(TRUE) /\ Goto("dtmf6:guard")
     \/ At("dtmf6:guard") /\ SetGuard(FALSE) /\ Goto("dtmf6:save")
  /\ UNCHANGED <<Isr, rom, btn, wdt>>

\* Steps of a handler that change no mode: waits, EEPROM_update, the reply.
\* A handler whose save has been called returns when the save returns.
SaveThenReturn ==
  {"m_g=1:save", "m_g=0:save", "l_g=1:save", "l_g=0:save", "dtmf2:save",
   "dtmf6:save"}

HandlerStep ==
  /\ \/ At("dtmf1") /\ Goto("dtmf1:wait")
     \/ At("dtmf2") /\ Goto("dtmf2:wait")
     \/ At("dtmf6") /\ Goto("dtmf6:play")
     \/ At("dtmf1:save") /\ Push("save", "dtmf1:play")
     \/ At("dtmf2:play") /\ Goto("dtmf2:save")
     \/ Top \in SaveThenReturn /\ Goto("save")
     \/ At("dtmf1:play") /\ Return
     \/ At("reset:save") /\ Push("save", "reset:reply")
     \/ At("reset:reply") /\ Goto("reboot_all")
     \/ At("reboot_all") /\ Push("save", "reboot:wait")
     \/ At("reboot_gsm") /\ Push("save", "gsm:wait")
     \/ At("gsm:wait") /\ Return
     \/ At("set:save") /\ Push("save", "set:reply")
     \/ At("set:reply") /\ Return
  /\ UNCHANGED <<Modes, Isr, rom, btn, wdt>>

\* set_param, one assignment at a time.
GuardSetting ==
  \E v \in BOOLEAN :
    \/ /\ At(IF v THEN "guard=1" ELSE "guard=0")
       /\ ram' = [ram EXCEPT !.local = FALSE]
       /\ Goto(IF v THEN "guard=1:2" ELSE "guard=0:2")
    \/ /\ At(IF v THEN "guard=1:2" ELSE "guard=0:2")
       /\ ram' = [ram EXCEPT !.guard = v]
       /\ Goto("set:end")

LocalSetting ==
  \E v \in BOOLEAN :
    \/ /\ At(IF v THEN "local_guard=1" ELSE "local_guard=0")
       /\ ram' = [ram EXCEPT !.guard = FALSE]
       /\ Goto(IF v THEN "local_guard=1:2" ELSE "local_guard=0:2")
    \/ /\ At(IF v THEN "local_guard=1:2" ELSE "local_guard=0:2")
       /\ ram' = [ram EXCEPT !.local = v]
       /\ Goto("set:end")

AutoSetting ==
  \E v \in BOOLEAN :
    /\ At(IF v THEN "autoguard=1" ELSE "autoguard=0")
    /\ ram' = [ram EXCEPT !.auto = v]
    /\ Goto("set:end")

SetParam ==
  /\ GuardSetting \/ LocalSetting \/ AutoSetting
  /\ UNCHANGED <<Isr, rom, btn, wdt, wish, excuse, stale>>

\* The end of "set:", split by what the code found in the SMS.
SetAccepted ==
  /\ Goto("set:save")
  /\ wish' = ram.guard
  /\ excuse' = IF Both(ram) THEN excuse ELSE "none"
  /\ UNCHANGED <<ram, rom, stale>>

\* Mutant: a rejected setting leaves the accepted ones in RAM.
SetRejectedKeeps ==
  /\ Goto("set:reply")
  /\ UNCHANGED <<Modes, rom>>

SetRejected ==
  /\ Goto("set:reply")
  /\ ram' = Load(rom) /\ rom' = Load(rom)
  /\ wish' = IF stale THEN rom.guard ELSE wish
  /\ excuse' = IF stale /\ Both(rom) THEN "cut" ELSE excuse
  /\ stale' = FALSE

\* process_sms_body "set:": a further setting, or the end of the SMS.
SetEnd ==
  /\ At("set:end")
  /\ \/ /\ \E s \in Sms : Goto(s)
        /\ UNCHANGED <<Modes, rom>>
     \/ SetAccepted
     \/ SetRejected
  /\ UNCHANGED <<Isr, btn, wdt>>

\* process_sms_body "resetdefault;": marks the config unused.
ResetDefault ==
  /\ At("reset")
  /\ ram' = [ram EXCEPT !.used = FALSE]
  /\ Goto("reset:save")
  /\ UNCHANGED <<Isr, rom, btn, wdt, wish, excuse, stale>>

\* reset_mcu(1) ends with interrupts off: the hardware watchdog restarts.
Hang == At("reboot:wait") /\ Restart(rom)

-----------------------------------------------------------------------------
\* The timer interrupt.

\* Mutant: check_button forgets EEPROM_update.
ButtonActsUnsaved(g, l) ==
  /\ ram' = [ram EXCEPT !.guard = g, !.local = l]
  /\ held' = TRUE
  /\ wish' = (wish /\ g)
  /\ excuse' = "none"
  /\ UNCHANGED <<rom, stale>>

\* check_button, the branches that act: a button held for Debounce samples.
ButtonActs(g, l) ==
  /\ ram' = [ram EXCEPT !.guard = g, !.local = l]
  /\ rom' = ram'
  /\ held' = TRUE
  /\ wish' = (wish /\ g)
  /\ excuse' = IF l /\ Top \in {"m_g=1:guard", "guard=1:2"} THEN "race"
               ELSE "none"
  /\ stale' = \/ At(PutGuard(~g))
              \/ At(PutLocal(~l))

ButtonCounts(n) ==
  /\ press' = IF press + n < Debounce THEN press + n ELSE Debounce
  /\ UNCHANGED <<Modes, rom, held>>

\* A pending arming makes a tick count twice while the guard is off.
Samples == IF ~ram.guard /\ btn # Sentinel THEN 2 ELSE 1

GuardButton ==
  \/ /\ press < Debounce
     /\ Samples = 1 \/ held \/ press + 1 < Debounce
     /\ ButtonCounts(Samples)
     /\ UNCHANGED btn
  \/ /\ press = Debounce /\ ~ram.guard /\ ~held       \* start pending
     /\ ButtonActs(FALSE, FALSE)
     /\ btn' = 0
     /\ UNCHANGED press
  \/ /\ ~held                                         \* disarm, or cancel
     /\ \/ press = Debounce /\ ram.guard
        \/ press + 1 = Debounce /\ Samples = 2
     /\ ButtonActs(FALSE, FALSE)
     /\ btn' = Sentinel
     /\ press' = Debounce
  \/ /\ press = Debounce /\ held
     /\ UNCHANGED <<Modes, Isr, rom, btn>>

LocalButton ==
  /\ btn' = Sentinel
  /\ \/ press < Debounce /\ ButtonCounts(1)
     \/ /\ press = Debounce /\ ~held
        /\ ButtonActs(FALSE, ~ram.local)
        /\ UNCHANGED press
     \/ /\ press = Debounce /\ held
        /\ UNCHANGED <<Modes, Isr, rom>>

NoButton ==
  /\ press' = 0 /\ held' = FALSE
  /\ UNCHANGED <<Modes, rom, btn>>

CheckButton ==
  /\ GuardButton \/ LocalButton \/ NoButton
  /\ UNCHANGED <<wdt, stack>>

\* Mutant: the software watchdog compares with one second too many.
SecondLate ==
  IF wdt > WdtLimit
    THEN Restart(ram)
    ELSE /\ wdt' = wdt + 1
         /\ btn' = IF btn < Sentinel THEN btn + 1 ELSE btn
         /\ UNCHANGED <<Modes, Isr, rom, stack>>

\* Mutant: the counter of the software watchdog saturates below its limit.
SecondSaturates ==
  /\ wdt' = IF wdt < WdtLimit THEN wdt + 1 ELSE wdt
  /\ btn' = IF btn < Sentinel THEN btn + 1 ELSE btn
  /\ UNCHANGED <<Modes, Isr, rom, stack>>

\* Every hundredth interrupt: the second counters, and the software watchdog,
\* whose reset_mcu(1) saves the config and waits for the hardware watchdog.
Second ==
  IF wdt + 1 > WdtLimit
    THEN Restart(ram)
    ELSE /\ wdt' = wdt + 1
         /\ btn' = IF btn < Sentinel THEN btn + 1 ELSE btn
         /\ UNCHANGED <<Modes, Isr, rom, stack>>

-----------------------------------------------------------------------------
Init ==
  /\ ram = Default /\ rom = Default
  /\ btn = Sentinel /\ press = 0 /\ held = FALSE /\ wdt = 0
  /\ stack = <<"setup">>
  /\ wish = FALSE /\ excuse = "none" /\ stale = FALSE /\ late = 0

Main ==
  \/ Save \/ LoopTop \/ CheckGuard \/ AlarmDisarms \/ GuardTimer
  \/ TimerSaves \/ TimerArms \/ TimerDone \/ RestOfLoop \/ Message
  \/ WebCommand \/ DtmfCommand \/ HandlerStep \/ SetParam \/ SetEnd
  \/ ResetDefault

\* The history variable late counts no further than the property looks.
LateCap == 2 * WdtLimit + 1

Waiting(second) ==
  late' = CASE ~Due' -> 0
            [] Due' /\ second /\ late < LateCap -> late + 1
            [] OTHER -> late

Next ==
  \/ (Main \/ CheckButton \/ Hang \/ PowerLoss \/ FactoryReset)
     /\ Waiting(FALSE)
  \/ Second /\ Waiting(TRUE)

Spec == Init /\ [][Next]_vars

\* Only the timer is sure to go on: no command and no wait has to end.
FairSpec == Spec /\ WF_vars(Second /\ Waiting(TRUE))

-----------------------------------------------------------------------------
TypeOK ==
  /\ ram \in Config /\ rom \in Config
  /\ btn \in 0..Sentinel /\ press \in 0..Debounce /\ held \in BOOLEAN
  /\ wdt \in 0..WdtLimit
  /\ stack \in Seq(Points) /\ stack # <<>>
  /\ wish \in BOOLEAN /\ stale \in BOOLEAN
  /\ excuse \in {"none", "dtmf", "race", "cut"}
  /\ late \in 0..LateCap

\* Restarts keep what the user was told.  When no command is half done, a
\* restart (power loss, watchdog, reboot) brings back the same local guard and
\* autoguard, an armed guard comes back armed, and the guard never comes back
\* armed against the last command: EEPROM_update in every handler and in the
\* button interrupt, against set_guard(0) after an alarm, which is not saved.
RestartKeepsModes ==
  Settled => /\ rom.local = ram.local /\ rom.auto = ram.auto
             /\ ram.guard => rom.guard
             /\ rom.guard => wish

\* The two guard modes exclude each other, with the exceptions the code has:
\* DTMF '1' arms over a local guard, the local button may fall between
\* set_local_guard(0) and set_guard(1) of an arming command, a restart may cut
\* a command or a save in two, and two handlers pass through both modes.
ModesExclusive ==
  Both(ram) => \/ excuse # "none"
               \/ Top \in {"arm:local", "dtmf6:guard"}

\* An arming by button that is due (its delay is over, the guard still off) is
\* served by guard_timer within two periods of the software watchdog, or the
\* unit restarts: alarm calls, SMS and modem waits cannot postpone it further.
DueArmingServed == late <= 2 * WdtLimit

\* However long commands, calls and modem waits hold the main program, the
\* loop turns again or the software watchdog restarts the unit (ISR, soft_wdt).
LoopTurns == []<>(wdt = 0)

\* sms_parse.c:68, "return everything to what it was": an SMS that sets only
\* autoguard and is rejected leaves the guard as it was.
RejectedSetRestores ==
  [][ /\ At("set:end") /\ Goto("set:reply")
      /\ Sms \subseteq {"autoguard=0", "autoguard=1"}
      => ram'.guard = ram.guard ]_vars

=============================================================================
