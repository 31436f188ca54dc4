------------------------------ MODULE Internet ------------------------------
(***************************************************************************)
(* The notice about the Internet, from end to end.  The daemon on the      *)
(* router pings a host (ping.h) and writes ping0 or ping1 to the serial    *)
(* line (main.c); after every write it reads until the unit sends (ttl.h). *)
(* The unit puts lines together (openwrt_to_string), keeps flag_internet   *)
(* and its main loop tells the administrators (check_internet).            *)
(*                                                                         *)
(* The two messages carry no line end: the next write, an update or a      *)
(* command from the page, completes their line, unless the unit has        *)
(* dropped it after LineTimeout seconds.                                   *)
(***************************************************************************)
EXTENDS Naturals, Sequences

CONSTANTS
  Fails,         \* failed pings that make an outage: 6
  Oks,           \* cnt_ok, good pings that are let pass before ping1: 5
  LineTimeout,   \* seconds after which the unit drops a line begun: 10
  ReportEvery,   \* seconds after which it sends its state unasked: 30
  Faulty,        \* bytes may be lost, unit and daemon may restart
  BufMax,        \* writes that the ring of the software UART holds
  WaitMax        \* seconds of a read that are counted, a bound of the model

ASSUME InternetAssumption ==
  /\ Fails \in Nat \ {0} /\ Oks \in Nat
  /\ LineTimeout \in Nat /\ ReportEvery \in Nat
  /\ BufMax \in Nat \ {0} /\ WaitMax \in Nat
  /\ Faulty \in BOOLEAN

VARIABLES
  net,             \* the host answers
  bad, ok,         \* cnt_not_ping up to Fails, and cnt_ok
  flagNot, isHost, \* flag_not_ping, is_ping_host
  dpc,             \* daemon's loop: at its update or ping, or reading after it
  web,             \* the page's thread is reading after a command
  buf,             \* writes not yet read by the unit
  part,            \* data of openwrt_to_string: the message in a line begun
  age,             \* seconds since a byte was read, up to LineTimeout + 1
  quiet,           \* seconds since send_state, up to ReportEvery
  waited,          \* seconds the daemon has been reading, up to WaitMax
  flag,            \* flag_internet
  temp,            \* _temp_flag of check_internet
  pc,              \* "loop", or "second" at the second test of check_internet
  last, turn,      \* the last notice and the notices' parity, as in Notice
  streak,          \* history: failed pings in a row, modulo Fails
  credit,          \* history: full series of them without a notice, up to CreditMax
  dropped          \* history: a message was dropped or overruled

counters == <<bad, ok>>
signs == <<flagNot, isHost>>
input == <<buf, part>>
clocks == <<age, quiet, waited>>
check == <<temp, pc>>
notice == <<last, turn>>
pings == <<streak, credit>>
daemon == <<counters, signs, pings>>
unit == <<flag, check, notice>>
vars == <<net, daemon, dpc, web, input, clocks, unit, dropped>>

Messages == {"ping0", "ping1"}
Writes == Messages \cup {"av", "command"}
UpTo(limit, n) == IF n > limit THEN limit ELSE n

\* Bound of credit: one more than the notices that can be on their way when a
\* series ends: in the line begun, in flag_internet, and in the ring, which then
\* ends with something else.
CreditMax == BufMax + 2

Send(n) == last' = n /\ turn' = ~turn

-----------------------------------------------------------------------------
\* The daemon.

\* The reachability of the host changes; time passes.
Reach == net' = ~net /\ UNCHANGED <<daemon, dpc, web, input, clocks, unit, dropped>>

Second ==
  /\ age' = UpTo(LineTimeout + 1, age + 1)
  /\ quiet' = UpTo(ReportEvery, quiet + 1)
  /\ waited' = IF dpc \in {"updating", "pinging"}
               THEN UpTo(WaitMax, waited + 1) ELSE 0
  /\ UNCHANGED <<net, daemon, dpc, web, input, unit, dropped>>

\* send_serial: write, then read until the unit sends something.
\* A write that finds the unit's ring full makes it forget what is in it.
Write(m) ==
  IF Len(buf) < BufMax THEN buf' = Append(buf, m) /\ UNCHANGED dropped
                       ELSE buf' = <<>> /\ dropped' = TRUE

Update ==
  /\ dpc = "update" /\ dpc' = "updating"
  /\ Write("av") /\ waited' = 0
  /\ UNCHANGED <<net, daemon, web, part, age, quiet, unit>>

\* onmessage, in a thread of its own; "ussd" and "code=", which the unit leaves
\* unanswered for want of "av", are left out.
Command ==
  /\ ~web /\ web' = TRUE
  /\ Write("command")
  /\ UNCHANGED <<net, daemon, dpc, part, clocks, unit>>

\* Mutant: is_ping_host is not cleared.
SayNoPingHost ==
  /\ flagNot' = TRUE /\ UNCHANGED isHost
  /\ Write("ping0") /\ waited' = 0 /\ dpc' = "pinging"

\* NO_PING, once for a series of failed pings.
SayNoPing ==
  /\ flagNot' = TRUE /\ isHost' = FALSE
  /\ Write("ping0") /\ waited' = 0 /\ dpc' = "pinging"
NoPing == bad' = Fails /\ ~flagNot

PingFails ==
  /\ ~net
  /\ bad' = UpTo(Fails, bad + 1)
  /\ streak' = (streak + 1) % Fails
  /\ credit' = IF streak' = 0 THEN UpTo(CreditMax, credit + 1) ELSE credit
  /\ \/ NoPing /\ SayNoPing
     \/ /\ ~NoPing
        /\ dpc' = "update"
        /\ UNCHANGED <<signs, buf, dropped, waited>>
  /\ UNCHANGED ok

\* Mutant: cnt_ok is counted past 0.
PingOkPast == ~isHost /\ ok < 0

\* PING_OK, when Oks good pings have gone by since NO_PING.
PingOk == ~isHost /\ ok = 0
SayPingOk ==
  \/ /\ PingOk
     /\ isHost' = TRUE /\ ok' = Oks
     /\ Write("ping1") /\ waited' = 0 /\ dpc' = "pinging"
  \/ /\ ~PingOk
     /\ ok' = IF isHost THEN ok ELSE ok - 1
     /\ dpc' = "update"
     /\ UNCHANGED <<isHost, buf, dropped, waited>>

\* Mutants: cnt_not_ping, or flag_not_ping, is not cleared.
PingSucceedsCounting ==
  /\ net /\ flagNot' = FALSE /\ streak' = 0
  /\ UNCHANGED <<bad, credit>>
  /\ SayPingOk
PingSucceedsQuiet ==
  /\ net /\ bad' = 0 /\ streak' = 0
  /\ UNCHANGED <<flagNot, credit>>
  /\ SayPingOk

PingSucceeds ==
  /\ net /\ bad' = 0 /\ flagNot' = FALSE /\ streak' = 0
  /\ UNCHANGED credit
  /\ SayPingOk

Ping ==
  /\ dpc = "ping"
  /\ PingFails \/ PingSucceeds
  /\ UNCHANGED <<net, web, part, age, quiet, unit>>

NotYet ==
  /\ dpc = "ping" /\ dpc' = "update"
  /\ UNCHANGED <<net, daemon, web, input, clocks, unit, dropped>>

-----------------------------------------------------------------------------
\* The unit's input and output.

\* A transmission ends the read of the daemon or of the page's thread, which
\* read the same line.
Transmit ==
  \/ /\ dpc = "updating" /\ dpc' = "ping" /\ UNCHANGED web
  \/ /\ dpc = "pinging" /\ dpc' = "update" /\ UNCHANGED web
  \/ /\ web /\ web' = FALSE /\ UNCHANGED dpc
  \/ /\ dpc \notin {"updating", "pinging"} /\ ~web /\ UNCHANGED <<dpc, web>>

\* openwrt_to_string drops the line begun when the next byte comes too late.
Begun == IF age > LineTimeout THEN "none" ELSE part

\* A message begins a line or is added to it; the unit looks for ping0 first.
Begin(m) ==
  /\ part' = IF "ping0" \in {m, Begun} THEN "ping0" ELSE m
  /\ UNCHANGED <<dpc, web, quiet, flag>>

\* get_message_from_openwrt, with a whole line: a command before the message in
\* it; then send_state.
Handle(m) ==
  /\ part' = "none"
  /\ flag' = IF m = "command" \/ Begun = "none" THEN flag ELSE Begun = "ping1"
  /\ quiet' = 0
  /\ Transmit

Poll ==
  /\ buf # <<>> /\ buf' = Tail(buf)
  /\ age' = 0
  /\ IF Head(buf) \in Messages THEN Begin(Head(buf)) ELSE Handle(Head(buf))
  /\ dropped' = (dropped \/ Begun # part
                 \/ (Begun # "none" /\ Head(buf) \notin {"av"}))
  /\ UNCHANGED <<net, daemon, waited, check, notice>>

\* timer_send_state
Report ==
  /\ quiet = ReportEvery /\ quiet' = 0
  /\ Transmit
  /\ UNCHANGED <<net, daemon, input, age, waited, unit, dropped>>

\* What the unit prints when the modem does not answer; the daemon may flush it.
Chatter ==
  /\ Transmit
  /\ UNCHANGED <<net, daemon, input, clocks, unit, dropped>>

-----------------------------------------------------------------------------
\* check_internet

\* Mutant: the notice is sent whenever the flag is down.
NoInternetAgain ==
  /\ pc = "loop" /\ ~flag
  /\ temp' = TRUE /\ pc' = "second"
  /\ Send("off")
  /\ credit' = IF credit = 0 THEN 0 ELSE credit - 1
  /\ UNCHANGED <<net, counters, signs, streak, dpc, web, input, clocks, flag, dropped>>

\* First test.  Sending takes minutes, in which the unit goes on reading.
NoInternet ==
  /\ pc = "loop" /\ ~flag /\ ~temp
  /\ temp' = TRUE /\ pc' = "second"
  /\ Send("off")
  /\ credit' = IF credit = 0 THEN 0 ELSE credit - 1
  /\ UNCHANGED <<net, counters, signs, streak, dpc, web, input, clocks, flag, dropped>>

\* Second test.
InternetOk ==
  /\ pc = "second" \/ (flag /\ temp)
  /\ pc' = "loop"
  /\ \/ flag /\ temp /\ temp' = FALSE /\ Send("on")
     \/ ~(flag /\ temp) /\ UNCHANGED <<temp, notice>>
  /\ UNCHANGED <<net, daemon, dpc, web, input, clocks, flag, dropped>>

-----------------------------------------------------------------------------
\* Bytes are lost on the line; the router or the unit restarts.
Lose ==
  /\ Faulty
  /\ buf' = <<>> /\ dropped' = TRUE
  /\ UNCHANGED <<net, daemon, dpc, web, part, clocks, unit>>

RestartDaemon ==
  /\ Faulty
  /\ bad' = 0 /\ ok' = Oks /\ flagNot' = FALSE /\ isHost' = TRUE
  /\ dpc' = "update" /\ web' = FALSE /\ waited' = 0 /\ dropped' = TRUE
  /\ UNCHANGED <<net, pings, input, age, quiet, unit>>

RestartUnit ==
  /\ Faulty
  /\ buf' = <<>> /\ part' = "none" /\ age' = 0 /\ quiet' = 0
  /\ flag' = TRUE /\ temp' = FALSE /\ pc' = "loop" /\ last' = "on"
  /\ dropped' = TRUE
  /\ UNCHANGED <<net, daemon, dpc, web, waited, turn>>

Init ==
  /\ net \in BOOLEAN
  /\ bad = 0 /\ ok = Oks /\ flagNot = FALSE /\ isHost = TRUE
  /\ dpc = "update" /\ web = FALSE /\ waited = 0
  /\ buf = <<>> /\ part = "none" /\ age = 0 /\ quiet = 0
  /\ flag = TRUE /\ temp = FALSE /\ pc = "loop"
  /\ last = "on" /\ turn = FALSE
  /\ streak = 0 /\ credit = 0 /\ dropped = FALSE

Next == \/ Reach \/ Second
        \/ Update \/ Command \/ Ping \/ NotYet
        \/ Poll \/ Report \/ Chatter \/ NoInternet \/ InternetOk
        \/ Lose \/ RestartDaemon \/ RestartUnit

Spec == Init /\ [][Next]_vars

\* Both loops run for ever, time passes, and a ping is due again and again.
FairSpec == /\ Spec
            /\ WF_vars(Second) /\ WF_vars(Update) /\ SF_vars(Ping)
            /\ WF_vars(NotYet)
            /\ WF_vars(Poll) /\ WF_vars(Report)
            /\ WF_vars(NoInternet) /\ WF_vars(InternetOk)

-----------------------------------------------------------------------------
TypeOK ==
  /\ bad \in 0..Fails /\ ok \in 0..Oks
  /\ streak \in 0..(Fails - 1) /\ credit \in 0..CreditMax
  /\ age \in 0..(LineTimeout + 1) /\ quiet \in 0..ReportEvery /\ waited \in 0..WaitMax
  /\ net \in BOOLEAN /\ flagNot \in BOOLEAN /\ isHost \in BOOLEAN
  /\ web \in BOOLEAN /\ flag \in BOOLEAN /\ temp \in BOOLEAN
  /\ turn \in BOOLEAN /\ dropped \in BOOLEAN
  /\ dpc \in {"update", "updating", "ping", "pinging"}
  /\ buf \in Seq(Writes) /\ Len(buf) <= BufMax
  /\ part \in Messages \cup {"none"}
  /\ pc \in {"loop", "second"} /\ last \in {"on", "off"}

\* The notices alternate, beginning with an outage, though the daemon repeats
\* ping0, messages get lost and both ends restart: with _temp_flag for the last
\* notice, the system implements the abstract promise.
Told == IF temp THEN "off" ELSE "on"
Promise == INSTANCE Notice WITH last <- Told, turn <- turn
Alternates == Promise!Spec

\* No false alarm: "No Internet" is sent for a series of Fails failed pings in
\* a row, and never twice for the same series.
NoFalseAlarm == [][turn' # turn /\ last' = "off" => credit > 0]_vars

\* The last notice becomes true in the end when the page is quiet, unless the
\* unit drops or overrules a message: the 10 s of openwrt_to_string against the
\* missing line end.
OutageTold == []~dropped /\ <>[](~net /\ ~web) => <>[](last = "off")
ReturnTold == []~dropped /\ <>[](net /\ ~web) => <>[](last = "on")

\* ttl.h on VTIME: "Wait for up to 1s (10 deciseconds), returning as soon as any
\* data is received": with VMIN it waits for the first byte without a limit.
ReadReturns == waited <= 1

=============================================================================
