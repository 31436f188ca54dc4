# A verification development of AlarmSystemForHome

The system is a home alarm: a unit on an ATmega328P with a GSM modem
(`src/ATmega328p`), and a daemon on an OpenWrt router (`src/webuart`) that
connects the unit's serial line to a web page. This directory models the core
logic of both in TLA+, checks it on small instances with TLC and proves part of
it with TLAPS for every value of the constants.

* `tlc -config <run>.cfg <MC module>` repeats a run, `tlapm <module>.tla` the proofs.
* `PROJECT.json` lists components, runs, mutants, the map from definitions to
  source lines, hazards, findings and theorems.

## 1. Inventory

| Component | State | Operations | Must hold |
|---|---|---|---|
| Arming (`eeprom.c`, `app.c` guard_timer, `port.c` check_button, `main.c`, `timer.c`) | guard, local_guard, autoguard, first_usage in RAM and EEPROM; time_from_button_s, press_button, button_state, soft_wdt | buttons in the 10 ms interrupt, delayed arming, commands of page, phone and SMS, EEPROM_update, restarts | a restart never contradicts the last command; a due arming happens; the two modes exclude each other |
| Watching (`app.c`, `port.c`) | flag_alarm, flag_for_send, flg_rst, zone_mask, the statics of main_guard, local_guard, single_sens | detect, mask, raise, send, recover; temperature | a masked zone is watched again; an alarm reaches the page and stays there; none is lost |
| Power reports (`ADC.c`) | time_without_power_s and the five flags of power_control | a call per turn of the loop | notices alternate, are not sent on a flicker, become true |
| Internet reports (`ping.h`, webuart `main.c`, `su_openwrt.c` check_internet) | counters of ping(), the serial line, flag_internet, _temp_flag | ping, write, read a line, notify | notices alternate, no false alarm, become true |
| Serial link (`ttl.h`, `softuart.c`, `su_openwrt.c`) | ring of 32 bytes, data of 31 for a line begun, static buffer and pointer of send_serial | send_serial, openwrt_to_string, send_state with CRC | both ends make progress; no torn answer is used |
| Modem and calls (`GSM.c`, `UART.c`) | queue of lines, call state, deposit, unsent SMS | call_to, alarm_play_file, incoming_call, send_sms, send_unsent_sms, setup_init, reset_mcu | every admin is called, the first silent one gets an SMS; no unsent SMS is forgotten |
| SMS commands and settings (`sms_parse.c`, `eeprom.c`) | the configuration in RAM and EEPROM, its list of admins, first_usage | set:, adminphones=, resetdefault;, button at power-on, saves of the interrupt | a rejected set: changes nothing; somebody stays on the list; a reset begun is completed |
| Page (`www/web/js`), daemon (`ttl.h`, `main.c`) | read_buf, the state shown, pause_switch | clicks, refresh once a second | what is shown is one report, and in the end the state of the unit |
| Temperature log (`write_sqlite.h`) | SQLite file | a row each half hour, read from the pages' buffer | does not spoil that buffer for good |
| Buzzer, light | counters in the interrupt, a pin | | (simple) |
| Temperature sensors (`ds18b20.c`) | 1-Wire driver | | (I/O) |
| wsServer, SQLite, jQuery, Flot | vendored | | |

**How they interact.** On the unit there is one main program and the interrupts.
`main` calls, turn after turn, check_guard, guard_timer, power_control,
check_temperature_smoke, timer_send_state, check_internet, the SMS and
registration checks. Every delay (delay_ms, timer.c:251 and 266) is a place where the
queue of the router is read, as it is once a turn (main.c:62), and every wait for the
modem one where the modem's is; their *commands are run inside the wait*; the timer interrupt runs check_button and check_motion and
may save the configuration in the middle of a save of the main program. The
router's daemon pings and polls in one loop and passes commands of the page from
other threads through the same port and the same static buffers. Everything of
the unit except `config` is lost in a restart.

**Hard behaviour.** Interrupts between two assignments; handlers nested in waits
of other handlers; EEPROM written byte by byte while RAM changes; restarts by
loss of power, by the watchdog and by command; minutes of calls in which the
loop stands still; lines without an end that are completed by the next write or
dropped; a read with no time limit on the other side. `PROJECT.json` has the list,
each hazard at its line with the properties that cover it.

## 2. Modules

| Module | Models | Extended by |
|---|---|---|
| `Arming` | guard modes, buttons, delayed arming, commands, restarts | `MCArming`, `ArmingProofs` |
| `Motion` | from a sensor to an alarm, tick by tick of the interrupt | `MCMotion`, `MotionProofs` |
| `Watch` | alarms, masked zones, page flag, temperature alarm | `MCWatch`, `WatchProofs` |
| `Calls` | calls and SMS about an alarm, stored SMS, registration, modem restart | `MCCalls`, `CallsProofs` |
| `Notice` | abstract: notices that alternate | instantiated by `Power`, `Internet` |
| `Power` | power_control | `MCPower`, `PowerProofs` |
| `Internet` | ping daemon, serial line, unit | `MCInternet`, `InternetProofs` |
| `Line` | commands byte by byte from the daemon to the unit's buffer | `MCLine`, `SerialProofs` |
| `Settings` | config in RAM and EEPROM under SMS, buttons, power failures | `MCSettings`, `SettingsProofs` |
| `Page` | reports from the unit to read_buf and the page, clicks back | `MCPage`, `SerialProofs` |

Definitions that begin with the comment `Mutant` are plausible bugs; no
specification uses them. Each is put in the place of a mapped definition to see
that the property it is listed with fails.

### Arming

The main program is its call stack: `stack` holds the point at which each nested
handler stands, the top is what the processor executes. One step is one
assignment that another actor can see; the interrupt (`CheckButton`, `Second`)
and restarts (`PowerLoss`, `FactoryReset`, the hang at the end of reset_mcu(1))
may come between any two. At a point of `Waits` a message may push a handler.
`EEPROM_update` is three steps: the byte of guard is read from RAM, written; the
byte of local_guard is read, written; then the rest. So the interrupt may change
RAM, and itself save, between the read of a byte and its write.

History variables: `wish`, whether the last command or timer decision was to
arm; `excuse`, why both modes may be on; `stale`, a button changed a mode of
which a save held the old byte; `late`, how long a due arming has waited.

* `RestartKeepsModes` — with no command half done, EEPROM agrees with RAM, except
  that an alarm's set_guard(0) is not saved: then EEPROM may hold an armed guard,
  but never one that the last command switched off.
* `ModesExclusive` — guard and local_guard are not both on, but for the cases
  that `excuse` names (DTMF '1', the local button inside an arming command, a save
  cut in two) and the two points at which a handler passes through both.
* `DueArmingServed` — within two watchdog periods.
* `LoopTurns` — the only fairness is that of the timer: no wait has to end.
* `RejectedSetRestores` is what the comment of sms_parse.c:68 says; it fails
  (section 6).

### Watch

Point by point through one turn of the loop (`pc`), with commands, buttons and
restarts as whole steps; the steps inside them are those of `Arming`. The zone
mask is the one zone it hides (`ram.blind`), because at most one bit is ever
cleared. zone is a `char`, signed here, and the constants 0xB0, 0xD0, 0xE0
exceed 127: what the code does with that is in `Raise`. Times are left open: a
motion after a first one may be too early, in time or too late; `age` has the
three values that time_from_motion_s is compared for. FirstM is the set of
values that first_m may have at any moment.

* `MaskedZoneRecovers` — flag_motion of main_guard, lost in a restart, is what
  brings a masked zone back.
* `PendingSeesAllZones` — check_button clears the mask at the start of an arming,
  and nothing hides a zone until it is done.
* `PageKeepsAlarm` — flg_rst of an old command never wipes a newer alarm in a later turn.
* `TempAlarmKept`, `AlarmsLeaveAtOnce` — flag_alarm, the lock that makes all
  guards deaf, is neither lost nor left behind.

### Motion

One sensor, the 10 ms interrupt and one guard. main_guard, local_guard and
single_sens are one algorithm with three sets of limits; `who` says which one is
followed. `Tick` is check_motion or check_single_sensor; `Look` and `Clear` are
the two assignments of get_motion_detected, between which a tick may fall, so
that a motion is lost; `Judge` is the guard with its four outcomes `Nothing`,
`FirstMotion`, `Ignore`, `Accept`. `time_ms` is a number modulo `Wrap`, and
`After` adds a limit to a time stamp in the same width.

History variables: `since`, ticks since the first motion that counts; `look`,
its value at the last look; `watched`, ticks of a steady motion before a loop
that looks in each of them.

* `SecondInTime` — an alarm needs a first motion, no less than the near limit
  before it, that no look has found older than the far limit. The code forgets a
  first motion only in a turn without one, so the two may be much further apart
  than the limit when a call lies between them: the property says what holds.
* `SteadyMotionHeard` — debounce, pause, lost motions and window together
  accept a steady motion within Near + 2 `Period` + 1 ticks, `Period` being the ticks
  from one motion to the next while the sensor stays high: a period to the first motion,
  Near, a period to the next motion, and one tick more, because the loop may look just
  before a motion and judge just after it. That tick is needed when Near is a multiple of
  `Period`, as 1000 ms is of 40 ms. The assumption that Far leaves room for a
  motion and its pause behind Near is what the code's limits satisfy.

### Calls

What follows when `Watch` sends an alarm. The main program goes from exchange to
exchange with the modem (`pc`); each may succeed, fail or go unanswered. The SIM
card (`sim`) and the connected call (`line`) belong to the outside. `Report`,
`Ussd`, `RebootModem`, `Receive` and `HangsUp` happen inside any wait, so that a
report stored by a nested handler can come between the request for a list and
the end of its time. `Submit` is send_sms and send_sms_p, which differ in where
the text lies; it names its three outcomes.

History variables: `round`, who answered, was silent at the third call, was
written to; it is void when modem, network or deposit failed in these calls.
`missed`: an answer about the SMS on the card was not received in time, while unsent_sms
was not set: the list of them (GSM.c:778), or the OK to storing one (GSM.c:607).
save_sms_sim tries again after either failure, so one SMS may be on the card several times
(`Stored`), and known or not by what the last try was answered.

* `SilentAdminGetsSms` — who is told. It says what the code does: call_to clears
  flag_alarm after the first SMS, so later silent administrators get none.
* `StoredSmsKnown` — unsent_sms against the card: restarts, wipes and nested stores
  included, only a missing list or a missing OK makes the unit forget an SMS.
* `OutboxMoves` — an index above 10, which wipes the card, does not stop the outbox.
* `ResetsGoOn` — a network that stays away leads to resets for ever, although cnt is
  a char that overflows after 127 failures and then is negative for a while.

Two things the model has that a reader might miss in the code: get_sms does not
clear unread_sms after reading an SMS, so each SMS read is followed by a wipe of
the card, stored SMS included; and a query that finds no network, made for the
SMS to one administrator, keeps those after her from being called.

### Notice, Power, Internet

`Notice` is what the administrators are promised: "gone" and "back" in turn,
beginning with "gone"; a restarted unit begins anew. `Alternates` says that
`Power` and `Internet` implement it, with `last` and `turn` as the mapping.

`Power`: external power changes at any time (`Supply`), seconds pass, a call of
power_control may come at any time, its delay of 10 s (`settle`) lies between
two steps. `OnIsSettled` compares the report with the history `calm`. `OutageTold`
and `ReturnTold` are liveness: power that stays away is in the end the subject of
the last notice, likewise power that stays.

`Internet` composes three actors. The daemon updates, pings, writes and then
reads until the unit sends anything (`updating`, `pinging`); the page's thread
writes a command and reads from the same port; the unit gathers bytes into a
line (`part`), drops a line begun after LineTimeout, handles a whole one and
answers; its loop notifies. ping0 and ping1 have no line end: they wait in `part`
for the next write. `NoFalseAlarm`: a notice for each series of Fails failed pings
at most, and none without; `credit` counts the series that have had no notice. `OutageTold` and `ReturnTold` hold while nothing is
dropped, which is what `dropped` records.

### Line

`Internet` takes a write as whole or lost; `Line` looks at its bytes. Every
message is known by its length and by the place of the name in it; `data` is a set
of names with the byte at which each begins. `Send` is send_serial, whose
TCOFLUSH cuts the message under way after a number of bytes in `Cuts`; a
message without a line end (the pings) or a cut one is completed by the next.
`LineComplete` searches the whole of data, in the order of the code (`Searched`): the
string has no terminator where the line ends, so names left by longer lines are found, and
names that the front of a cut message makes up with older letters behind it (`Torn`). All four
commands for the guards have their effect on both (`Switched`): m_g=1 and l_g=1 each
switch the other guard off. What is searched behind them (buz=, ussd, reboot_, ping, *10)
does not touch the guards.

* `WordsInPlace` — with every message in a line of its own, nothing is left where
  a shorter line does not overwrite it.
* `LastWishHolds` — both guards are what a page or a button last asked for, unless
  `clean` says that this command met another message, or that data held an old
  name, of one of the four commands or of lamp, which is found before them (`Loose`).

### Settings

RAM and EEPROM as functions of cells in the order of config_t; `Save`, `Undo`
and the interrupt's save (`Interrupt`) go cell by cell, and `Cut` may end any of
them, the cell under way included (a phone number of several bytes is then
`"?"`). `PhonesClear` and `PhonesStore` are set_phones: the list is cleared before
the new one is read, and stored whatever was read. First use, `resetdefault;` and the
button at power-on are one mechanism: first_usage is cleared and the next
start writes the defaults. The guard modes, which change in RAM without a save, are left to
`Arming`, so that here RAM and EEPROM must agree exactly.

History variables: `good`, the settings last accepted, or the defaults once
first_usage is cleared; `mixed`, EEPROM has held something else; `bad`, the
list of admins was accepted empty.

* `AcceptedHold` — between two SMS, RAM and EEPROM hold `good`.
* `AdminsRemain` — no admin list in force is empty, unless accepted so.
* `ResetServed` — a reset begun is completed, through power failures.

### Page

send_serial as the daemon's loop and a page's thread run it at the same time, on one port
and with one static temp_buf and one static ptr: `FlushInput`, `Read` with strchr, `Check`
and a copy in two steps to read_buf, from which pages are answered. Between two of these another
thread may refill temp_buf or set ptr, to the ';' of its own, to the start of the
buffer or to NULL: `crossed` has the threads to which that has happened, or whose read_buf was
written by another. What such a thread does is open: its check may pass or not, its copy
leave a report, what was there, or junk, and with ptr NULL the daemon may end by a fault
(`Crash`). The copy has no terminator: behind a report that is shorter than the text before it
`tail` is the end of that text (`Ended`). A report is known by the state it tells of. `Log` is parseTemperature, whose strtok ends read_buf behind te. On the
page: `Click` sends the opposite of what is shown and stops showing for two
seconds (`Resume`); `Refresh` is the update of every second.

* `WholeReport` — read_buf is one checked report, and behind it nothing or the end of an
  older text, unless another thread changed temp_buf, ptr or read_buf during the copy
  (`"buf"` in `crossed`): the window that the shared buffers open is exactly that.
* `PageSettles` — with reports of an unchanged state coming again and again, the page
  comes to show that state, whatever was clicked or logged.

## 3. Runs and bounds

| Run | Shows | States |
|---|---|---|
| `Arming_modes` | buttons, page, phone, SMS, delay, restarts, three handlers deep; liveness | 1 305 000 |
| `Arming_rollback` | finding: rejected SMS arms | violation |
| `Motion_window` | debounce, copy and clear, window, overflow, all guards | 4 900 000 |
| `Watch_house` | masks, recovery, pending arming, page flag, temperature | 2 252 000 |
| `Calls_alarm` | who is told, SMS stored once or more, resets; liveness | 440 000 |
| `Power_notices` | all properties of Power, refinement of Notice | 11 000 |
| `Internet_faulty` | with lost bytes and restarts of both ends; refinement of Notice | 1 591 000 |
| `Internet_told` | liveness | 511 000 |
| `Internet_wait` | finding: read without a limit | violation |
| `Line_commands` | cut, completed and timed-out commands for both guards beside buttons | 455 000 |
| `Settings_sms` | SMS, buttons, saves and one power failure anywhere; liveness | 646 000 |
| `Page_report` | loop and page thread in send_serial, shared ptr, tails, clicks, log; liveness | 671 000 |

*Bounds of Arming.* Delay 1 s instead of minutes and Sentinel 5 instead of
0xFFFF: the code compares time_from_button_s with these two only, and an arming may be
due for three seconds, one more than `DueArmingServed` allows. Debounce 3
instead of 15: below, at and beyond the limit, in steps of one and two. WdtLimit
1. MaxNest is the depth of the stack: 3 lets one handler be
overtaken by another inside a handler; deeper nests add handlers that see the
same states, as a handler has no local data. late counts up to one past the
bound of its property.
*Bounds of Motion.* Near 4 and Far 9 ticks for 1000 and 7000 ms, 5 and 10 for
single_sens, Quiet 12: in the order of the code, with looks before, between and
after. Near 4 is a multiple of `Period`, 5 is not. Wrap 16 lets every sum overflow. Samples and Pause are those of the code.
*Bounds of Watch.* Two zones and the single sensor: the guards treat zones by two
tests only, inside or outside, and is the side masked. first_m takes both values.
*Bounds of Calls.* Two administrators, so that one comes after the silent one; three
attempts with the SMS after the second, so that there is one before and one
after it, as among the four of the code. Two tries to store an SMS for ten, one
that fails and one more. Two places on the card with the wipe
above index 1, reset after 2 failures, and a char up to 2: the count reaches the
limit, overflows and comes back.
*Bounds of Power.* A minute of 2 s, intervals of 0 (off), 1 and 2 minutes;
counters stop one past the largest value they are compared with.
*Bounds of Internet.* Two failed pings for six, one good ping for five, a line
time-out of one second for 10 and a report every 2 or 3 for 30 s: the order
(line time-out before report) is that of the code. The ring holds two writes;
one more wraps it. WaitMax is above 0 only in the run that asks for it. Seconds
are counted up to the value they are compared with. `CreditMax` bounds credit at BufMax + 2: so
many notices can be on their way at once (section 5), and a higher credit would say nothing more.
*Bounds of Line.* The messages of main.c at their true lengths: av, a command
for the light, the four for the guards and a ping. data has 17 bytes instead of 31: a ping,
a message cut at its end or two cut before, and a command of 9 bytes behind them fit; what fills
it is left out. The theorems hold for every size. Messages are
cut after "a", "av", one letter of the name and all but the line end of a command for a guard.
*Bounds of Settings.* One cell before the list, admin_mode, two places for
admins, first_usage, one cell behind it; two numbers, two values. One power
failure: MaxCuts bounds it because `ResetServed` speaks of every run.
*Bounds of Page.* One page beside the loop, which are the two threads that can
cross each other; one click, since a second one finds a state the first one
leaves; a report is two fields, what is copied first and what last, and its tail.

Deadlock is checked in all runs: the timer never stops.

## 4. Fairness

* `Arming`: `Second` only. Interrupts are enabled while the program runs; a loop
  or wait of the main program need not end.
* `Power`: the main loop comes back to power_control, its delay ends, and time
  passes. The first follows in the code from bounded waits and, failing those,
  from the watchdog. Liveness is asked of runs without end of restarts
  (`<>[][~Restart]_vars`).
* `Calls`: what was begun goes on (every wait for the modem has a limit, and a call
  that stays connected ends after 40 or 60 s), and the loop comes back to
  check_registration: strong fairness, because between two checks the program is
  elsewhere. Liveness is asked of runs without end of restarts; that the network
  answers again and again is a premise of `OutboxMoves`, not an assumption.
* `Internet`: time passes, the daemon's steps happen, the unit polls, reports and
  tests. A ping (`Ping`) has strong fairness: the loop reaches ping() again and
  again, and the interval after which it does ping is over again and again.
  Commands, chatter, faults have none.
* `Settings`: a save of the interrupt ends (`Interrupt`), long before the next
  press of a button; the main program's save, the watchdog after a reset and the
  start of the program are strongly fair, because the interrupt may come between and
  the button at power-on is not held at every start. No SMS has to come.
* `Page`: the thread of the page runs and its read returns (the unit
  reports every 30 s, and chatter counts too), the page
  asks every second and its pause ends. That the loop receives reports of the present state
  again and again is a premise of `PageSettles`.

## 5. Proofs

TLC decides small instances; these theorems hold for all constants that satisfy
the `...Assumption` of the module.

* `ArmingProofs` — `TypeCorrect` (`Spec => []TypeOK`) and `RestartKeepsModesAlways`.
  The property speaks of settled states only and
  is not inductive. The invariant adds `StackOK`: only the top of the stack can be
  a point between an effect and the end of its save, or below a running save
  the point at which its handler goes on; `StateOK`: for each kind of point on
  top, what RAM, EEPROM and the byte in the register may differ in; `ModesOK`:
  what `wish` says of them. Every action has a step, and those that move the stack
  rest on lemmas about Push, Return and Goto. Two more invariants are proved on top of it.
  `ModesExclusiveAlways` comes from `Exclusive`: between its two assignments a handler has
  the other mode off already, and no restart or rejected SMS finds both modes in EEPROM.
  `DueArmingServedAlways` comes from `InTime`: before guard_timer a due arming has waited
  one watchdog period and the seconds of this turn, behind it the seconds of this turn
  only. Delays, limits, depth of nesting and the sets of commands are arbitrary.
* `MotionProofs` — `TypeCorrect` and `SecondInTimeAlways`, from
  `Measured` (the history of the time since the first motion is the difference of clock and
  stamp, until the clock overflows) and `Fresh` (it was not too old at the last look); for all limits and every
  width of the clock. `SteadyMotionHeardAlways` comes from `Steady`, which counts in ticks `Left` until
  the next motion of a sensor that stays high: before a first motion, no more ticks have
  been watched than a period allows (`Early`), or the last motion is still to be judged (`Owed`); up
  to the end of Near the time watched is that since the first motion and one period; behind it
  `Late` says of the ticks after Near what `Early` says of those before the first motion. The
  proof needs that a motion and its pause fit between Near and Far, an assumption
  of `Motion`: else the first motion may be forgotten before the second can come. An earlier form of
  the property had a lower bound; the proof failed where Near is a multiple
  of `Period`, TLC found the counterexample there, and the bound and the limits of the
  run were changed.
* `WatchProofs` — `TypeCorrect`; `MasksAlways` (`MaskedZoneRecovers` and
  `PendingSeesAllZones`, inductive together with "no command since the arming began
  has switched the guard on"); `AlarmsAlways` (`PageKeepsAlarm`, `TempAlarmKept`,
  `AlarmsLeaveAtOnce`) from `Alarms`: flg_rst is set by commands of this turn only,
  these acknowledge what the page shows, a motion alarm is seen only between the
  guards and the end of its calls, and at its calls a temperature alarm is sent.
  Each of the five properties also has its theorem.
  Zones, first_m, single_sensor and accept_calls are arbitrary.
* `CallsProofs` — `TypeCorrect`, `StoredSmsAlways` (inductive as it stands) and
  `SilentAdminAlways` from `Told`: everybody before the one who is being called has
  answered or been silent, flag_alarm is there until the first silent one has got
  her SMS, and the attempt at which the program stands says whether the one being
  called has been silent already. Numbers of administrators, attempts and places
  are arbitrary; so is what modem and network do.
  `CallsEnd` is the safety half of a liveness argument: every step of a round of calls raises (who, dials,
  point) in lexicographic order or ends the round, and what is done inside the waits
  leaves the three alone, or restarts the unit; who and dials are bounded by `TypeCorrect`.
  So with the fairness of `Busy` every round of calls ends. It needs that dials is 0 wherever no
  attempt is under way (`CountedFromZero`).
* `PowerProofs` — `TypeCorrect` and `FlagsFollowNoticesAlways` (types and flags,
  inductive together), `PowerKeepsPromise` (`Spec => Alternates`: initial states map to
  initial states, each step to a notice, a restart or a stutter) and
  `OnIsSettledAlways` from `SinceCalm`: the interval of a report that is due is no longer
  than the time since a check found no power.
* `InternetProofs` — `TypeCorrect`, and `InternetKeepsPromise` (`Spec => Alternates`) from
  the fact that _temp_flag remembers the last notice. `NoFalseAlarmAlways` follows a notice along its
  way: `Coming` counts the ping0 in the ring, the one in the line begun and a flag_internet
  that is down and not yet told. `Backed` says that credit covers them, with one to spare while
  the daemon is counting towards a ping0 that no series has paid for (a restarted daemon
  counts from 0 inside a series). No step but a ping0 adds to `Coming`: an overrun, a lost byte, a
  dropped line, two messages in one line and restarts only take away. `Between`, that
  an update is written after each ping0 before the next ping, bounds `Coming` at a ping by BufMax + 1. That is why credit
  is counted to BufMax + 2: a lower bound would forget series whose notices are
  still on their way.
  Counting the ping0 in the ring needs lemmas on cardinality under Append and Tail.
* `SerialProofs` — both directions of the serial line, `Line` and `Page`, whose names and constants
  are disjoint. Of `Line`: `TypeCorrect`, `WordsInPlaceAlways` and `LastWishHoldsAlways`, for all
  messages, lengths and places of a cut, and for the commands of both guards; names that a cut
  message makes up count as old ones (`NotTorn`). `CommandsAgree` ties the two modules: a command alone
  in data does to the guards what `Page` takes it to do. Of `Page`: `PageTypeCorrect` and `WholeReportAlways`, for any number of pages, from
  `PageInv`: a thread that has passed the check copies a report, and its front is that of the
  same report, unless another thread has changed temp_buf, ptr or read_buf since
  (`Checked`); only a thread in the midst of a copy leaves read_buf in two pieces (`Pieces`).
* `SettingsProofs` — `TypeCorrect`, `AcceptedHoldAlways` and `AdminsRemainAlways` for every
  layout of config_t, any numbers and values and any number of power failures. The
  invariant says at each point of the main loop what RAM holds, and for a save under way which
  cells of EEPROM are new, which old.

The two refinements are in `Power` and `Internet`: an instance of `Notice` with the
detailed module's last notice and its turn for the abstract variables. They are
checked by TLC and proved.

Every type invariant, safety invariant and action property that a passing run checks, and both
refinements, are proved. Only model-checked, because out of the prover's reach: liveness under
fairness (`LoopTurns`, `OutageTold`, `ReturnTold`, `OutboxMoves`, `ResetsGoOn`,
`ResetServed`, `PageSettles`), with it ENABLED; no proof needs induction over data, and no module has a
recursive operator. The two findings are counterexamples of TLC.

## 6. Findings

* `RejectedSetRestores`: sms_parse.c:68 undoes a rejected set: by reading EEPROM.
  An alarm has switched the guard off in RAM only, so the SMS arms it again.
* `ReadReturns`: ttl.h:49 says the read waits up to a second; with VMIN = 100 it
  waits for the first byte with no limit, and ping0, ping1 get no answer.

What a reader of the properties should also know, because they name it as an
exception: an `adminphones=` in which no number is accepted is answered Ok, and afterwards no SMS is
obeyed (`bad`); a save of the buttons between the settings of an SMS keeps those settings
when the SMS is refused (`mixed`); two commands that meet on the line are lost, or
obeyed as a mixture (`clean`); two motions with a long call between them count as
close (`look`).

Of the settings that help_set (sms_parse.c:8) lists, none of voice=, mtime_sens_ms=, mpause_ms=,
pause_alarm_s= and report_power= is ever accepted: three have no branch in set_param, and in the other
two (335, 501) the text after the name is not read as it should be. The branches of accept_sms= (430)
and power_on_report_m= (466) compare more bytes than the names have, so these are never
accepted either; `Power` lets both intervals change, which includes what the code can do. In `Settings` they are settings refused like any unknown
name. app.c:25 and app.c:103 speak of two motions in 3 s where the code has 1000 ms
and get_mtime_sens(). The models follow the code.

## 7. Abstractions

* reset_mcu called by the software watchdog inside the interrupt is taken as a
  restart at once: its waits never end there and the hardware watchdog comes.
* In `Arming`, EEPROM bytes other than guard and local_guard are written in one step, after
  those two; `Settings` has them one by one.
* In `Motion`, one guard and one zone: which zone moved is in `Watch`. first_m is
  never set there (set_first_m, eeprom.c:134, has no caller).
* In `Watch`, a handler is one step, and its waits are not nested.
* In `Internet`, a write arrives whole or not at all, and commands ussd and
  code= are left out.
* In `Line`, a line that fills data, which takes three messages cut or without an end within
  ten seconds, is left out, and so is the ring in front of it, whose overflow `Internet` counts
  as dropped. Of the other commands ping stands for those that leave the guards alone; a USSD
  request of the page has no "av" in front and is dropped by the unit like any other line that
  does not begin with it.
* In `Calls`, SMS of the main loop to several administrators are separate steps, the
  battery and deposit notices among them; the texts, and with them the mix of
  flash and RAM addresses in send_sms_p and save_sms_sim, are left out.
* In `Settings`, guard modes and zone_mask stay as they are; eeprom_update_block, which is
  not reentrant, is taken as correct byte by byte.
* In `Page`, serving and showing are one step. strchr belongs to the step of the read, and
  the search for the ';' in temp_buf to that of the check. A thread that another one has
  crossed does anything its copy or ptr can lead to (section 2); what temp_buf holds is a whole
  report or junk. Which fields the `tail` touches is not followed: the guards lie before it.

Not modelled: the analogue converter and 1-Wire driver (I/O), buzzer, light and
`light=` (a counter or pin each), `get:` and `help;` (texts), the decoding of the modem's lines, the
database, the packet format of ICMP, the value of the CRC, setup_init and reset_mcu
calling each other, vendored code. wsServer, SQLite, jQuery and Flot are about 95 of each
100 lines under `src/`, and the map names none of them; of the program's own
lines the rest are drivers, texts, the decoding of answers, charts and icons.

## 8. Plan

Done, in this order: Arming, Watch, Notice, Power, Internet, Calls; then Motion, Line,
Settings and Page, each with its proofs. What is left, most important first:

1. `Setup`: setup_init and reset_mcu, which call each other until the watchdog ends it.
2. The calls of `Calls` as the steps `AlarmDone` and `Announced` of `Watch`, and the writes of
   `Internet` as the messages of `Line`, as refinements.
