-------------------------------- MODULE Page --------------------------------
(***************************************************************************)
(* The state of the guards on its way to the pages, and the pages' clicks  *)
(* on their way back.  The daemon's loop and one thread for each page call *)
(* send_serial, whose buffer temp_buf and pointer ptr are static (ttl.h);  *)
(* a report that passes the check goes to read_buf, without a terminator,  *)
(* from where pages are served (main.c) and, now and then, temperatures    *)
(* logged (write_sqlite.h), with nothing locked.  A page shows a report    *)
(* only if it has more than seven fields, and not for two seconds after a  *)
(* click (upd_data.js, btn_click.js).                                      *)
(*                                                                         *)
(* Whether a thread reads ptr again or has it in a register depends on the *)
(* build: once another thread has set it, either is possible.              *)
(*                                                                         *)
(* A report is named by the state of the unit it tells of; temperatures    *)
(* of one state belong together.  Lost and cut commands are in Line, the   *)
(* wait for an answer and the pings in Internet.                           *)
(***************************************************************************)
EXTENDS Naturals

CONSTANTS
  Pages,      \* pages, and the threads of the daemon that serve them
  MaxClicks   \* bound: clicks on all pages

States == {"off", "main", "local"}
Threads == Pages \cup {"loop"}
Fields == {1, 2}     \* in read_buf: g; what follows it
Contents == States \cup {"none", "junk"}

ASSUME PageAssumption == {"loop", "buf"} \cap Pages = {} /\ MaxClicks \in Nat

VARIABLES
  unit,     \* guard and local_guard of the unit
  input,    \* in the serial input: a report or "none"
  temp,     \* temp_buf: a report, or "junk", zeros included
  null,     \* ptr is NULL
  pc,       \* where each thread is
  buf,      \* read_buf: the report that each field is from
  tail,     \* behind that report: "none", the end of an "older" text, or "junk"
  cut,      \* it ends behind te
  orders,   \* a command between page and unit
  shown,    \* guard_on_off and local_guard_on_off
  paused,   \* pause_switch
  clicks,   \* clicks so far
  crossed   \* threads that use temp_buf, ptr or read_buf when another one has
            \* changed it; "buf" when such a copy was the last one

serial == <<input, temp, null>>
page == <<orders, shown, paused, clicks>>
pageVars == <<unit, serial, pc, buf, tail, cut, page, crossed>>

At(t, p, q) == pc[t] = p /\ pc' = [pc EXCEPT ![t] = q]

-----------------------------------------------------------------------------
\* The unit.

Ordered(order) ==
  CASE order = "m_g=1" -> "main"
    [] order = "l_g=1" -> "local"
    [] order = "m_g=0" -> IF unit = "main" THEN "off" ELSE unit
    [] order = "l_g=0" -> IF unit = "local" THEN "off" ELSE unit
    [] OTHER -> unit

\* A button, a call or an SMS.
Change ==
  /\ unit' \in States \ {unit}
  /\ UNCHANGED <<serial, pc, buf, tail, cut, page, crossed>>

\* send_state.  While a report waits to be read the next one is cut off.
Report ==
  /\ input = "none" /\ input' = unit
  /\ UNCHANGED <<unit, temp, null, pc, buf, tail, cut, page, crossed>>

-----------------------------------------------------------------------------
\* send_serial, in the loop or in the thread of a page.

Copying == {"copy", "copying"}
Using == Copying \cup {"found"}    \* ptr

\* Other threads that are at one of these points.
Met(t, points) == {u \in Threads \ {t} : pc[u] \in points}

\* The daemon's loop asks for the state or reports a ping.
Update ==
  /\ At("loop", "rest", "sent")
  /\ UNCHANGED <<unit, serial, buf, tail, cut, page, crossed>>

\* onmessage: a command.  It may not arrive (Line).
Command(p) ==
  /\ orders[p] # "none" /\ At(p, "rest", "sent")
  /\ unit' \in {unit, Ordered(orders[p])} /\ orders' = [orders EXCEPT ![p] = "none"]
  /\ UNCHANGED <<serial, buf, tail, cut, shown, paused, clicks, crossed>>

\* temp_buf changes, and with it what other threads have found or copy there.
Refill(t, content) ==
  /\ temp' = content
  /\ crossed' = (crossed \ {t}) \cup Met(t, Using)

\* memset and TCIFLUSH, which throws away what has come of an answer.
FlushInput(t) ==
  /\ At(t, "sent", "read") /\ Refill(t, "junk") /\ input' = "none"
  /\ UNCHANGED <<unit, null, buf, tail, cut, page>>

\* A report, or some of one, or noise; then strchr sets ptr to the ';' or to NULL.
Read(t) ==
  /\ At(t, "read", "found") /\ input' = "none"
  /\ \/ input # "none" /\ Refill(t, input) /\ null' = FALSE
     \/ Refill(t, "junk") /\ null' \in BOOLEAN
  /\ UNCHANGED <<unit, buf, tail, cut, page>>

Passes(t) ==
  /\ At(t, "found", "copy") /\ null' = FALSE
  /\ crossed' = (crossed \ {t}) \cup Met(t, Using)

\* Mutant: the sum is not compared.
CheckUnread(t) ==
  /\ ~null /\ Passes(t)
  /\ UNCHANGED <<unit, input, temp, buf, tail, cut, page>>

\* The number behind the ';', "+U:", and the sum of what is before the ';', which
\* becomes a '\0'; then ptr is set to what is copied.  Where another thread has
\* been, the number may be that of an equal report, and ptr NULL.
Check(t) ==
  /\ \/ temp \in States /\ Passes(t)
     \/ /\ temp \notin States \/ t \in crossed
        /\ At(t, "found", "rest") /\ crossed' = crossed \ {t} /\ UNCHANGED null
  /\ UNCHANGED <<unit, input, temp, buf, tail, cut, page>>

\* memmove, in two steps, of what is in temp_buf.  When temp_buf or ptr was
\* changed it may also be the number, a text moved by some bytes, or nothing.
Copied(t, f) == \E text \in IF t \in crossed THEN {temp, "junk", buf[f]} ELSE {temp} :
  buf' = [buf EXCEPT ![f] = text]

CopyFront(t) ==
  /\ At(t, "copy", "copying") /\ Copied(t, 1)
  /\ crossed' = crossed \cup Met(t, {"copying"})
  /\ UNCHANGED <<unit, serial, tail, cut, page>>

Finished(t) ==
  crossed' = Met(t, {"copying"}) \cup
    IF t \in crossed THEN (crossed \ {t}) \cup {"buf"} ELSE crossed \ {"buf"}

\* The text ends without a '\0': of a longer one before it the end is left.
Ended(t) ==
  tail' \in IF t \in crossed THEN {"junk"}
            ELSE {"none", IF tail = "none" /\ buf[2] = temp THEN "none" ELSE "older"}

\* Mutant: the end is not copied.
CopyRestCut(t) ==
  /\ At(t, "copying", "rest") /\ Copied(t, 2) /\ Ended(t) /\ Finished(t)
  /\ UNCHANGED <<unit, serial, cut, page>>

CopyRest(t) ==
  /\ At(t, "copying", "rest") /\ Copied(t, 2) /\ Ended(t) /\ Finished(t)
  /\ cut' \in IF t \in crossed THEN {cut, FALSE} ELSE {FALSE}
  /\ UNCHANGED <<unit, serial, page>>

\* ptr, read again, is NULL in atoi or strlen: the daemon and its memory are
\* gone, and nothing starts it again.
Crash(t) ==
  /\ t \in crossed /\ null
  /\ pc[t] \in {"found", "copy"}
  /\ temp' = "junk" /\ null' = TRUE
  /\ pc' = [u \in Threads |-> "dead"]
  /\ buf' = [f \in Fields |-> "none"] /\ tail' = "none" /\ cut' = FALSE
  /\ crossed' = {}
  /\ UNCHANGED <<unit, input, page>>

-----------------------------------------------------------------------------
\* WriteSQLITE, when half an hour is over.

\* parseTemperature: nothing is logged without ti; strtok ends the report at te.
Log ==
  /\ buf[2] \in States /\ pc["loop"] = "rest" /\ cut' = TRUE
  /\ UNCHANGED <<unit, serial, pc, buf, tail, page, crossed>>

-----------------------------------------------------------------------------
\* A page.

\* Mutant: whatever the report says of the guard is shown.
SeenAnything(g, lg, old) == IF lg = "local" /\ g # "main" THEN "local" ELSE g

\* checkGuard, checkLocalGuard, with g and lg from two reports perhaps.
Seen(g, lg, old) ==
  IF g = "main" THEN "main"
  ELSE IF g \notin States THEN old
  ELSE IF lg = "local" THEN "local"
  ELSE IF lg \in States \/ old = "main" THEN "off"
  ELSE old

\* "update", once a second, and ShowData.
Refresh(p) ==
  /\ pc[p] = "rest" /\ ~cut /\ ~paused[p]
  /\ shown' = [shown EXCEPT ![p] = Seen(buf[1], buf[2], @)]
  /\ UNCHANGED <<unit, serial, pc, buf, tail, cut, orders, paused, clicks, crossed>>

\* checkbox_guard, checkbox_local_guard: the opposite of what is shown.
Click(p) ==
  /\ orders[p] = "none" /\ clicks < MaxClicks /\ clicks' = clicks + 1
  /\ \/ orders' = [orders EXCEPT ![p] = IF shown[p] = "main" THEN "m_g=0" ELSE "m_g=1"]
     \/ orders' = [orders EXCEPT ![p] = IF shown[p] = "local" THEN "l_g=0" ELSE "l_g=1"]
  /\ paused' = [paused EXCEPT ![p] = TRUE]
  /\ UNCHANGED <<unit, serial, pc, buf, tail, cut, shown, crossed>>

\* resetPause, after two seconds.
Resume(p) ==
  /\ paused[p] /\ paused' = [paused EXCEPT ![p] = FALSE]
  /\ UNCHANGED <<unit, serial, pc, buf, tail, cut, orders, shown, clicks, crossed>>

PageInit ==
  /\ unit \in States /\ input = "none" /\ temp = "junk"
  /\ null = TRUE
  /\ pc = [t \in Threads |-> "rest"]
  /\ buf = [f \in Fields |-> "none"] /\ tail = "none" /\ cut = FALSE
  /\ orders = [p \in Pages |-> "none"] /\ shown = [p \in Pages |-> "off"]
  /\ paused = [p \in Pages |-> FALSE] /\ clicks = 0
  /\ crossed = {}

Serial(t) == \/ FlushInput(t) \/ Read(t) \/ Check(t)
             \/ CopyFront(t) \/ CopyRest(t)

PageNext ==
  \/ Change \/ Report
  \/ Update \/ Log
  \/ \E t \in Threads : Serial(t) \/ Crash(t)
  \/ \E p \in Pages : Command(p) \/ Refresh(p) \/ Click(p) \/ Resume(p)

\* The thread of a page runs, and its read returns, as something comes again and
\* again; a page asks every second, and the log ends the report twice an hour only.
Fairness == \A p \in Pages :
  /\ WF_pageVars(Serial(p)) /\ WF_pageVars(Command(p))
  /\ SF_pageVars(Refresh(p)) /\ WF_pageVars(Resume(p))

PageSpec == PageInit /\ [][PageNext]_pageVars
FairSpec == PageSpec /\ Fairness

-----------------------------------------------------------------------------
\* Types of the buffers, the threads and the pages.
PageTypeOK ==
  /\ unit \in States /\ input \in States \cup {"none"} /\ temp \in States \cup {"junk"}
  /\ pc \in [Threads -> {"rest", "sent", "read", "dead"} \cup Using]
  /\ buf \in [Fields -> Contents] /\ tail \in {"none", "older", "junk"}
  /\ orders \in [Pages -> {"none", "m_g=0", "m_g=1", "l_g=0", "l_g=1"}]
  /\ shown \in [Pages -> States] /\ paused \in [Pages -> BOOLEAN]
  /\ clicks \in 0 .. MaxClicks
  /\ crossed \subseteq Threads \cup {"buf"}
  /\ {null, cut} \subseteq BOOLEAN

\* While nobody copies, what read_buf holds is one report, which was checked, and
\* behind it nothing, or, for want of a terminator (ttl.h:115), the end of an older
\* text.  The exception is a copy during which another thread changed temp_buf, the
\* static ptr or read_buf (ttl.h:73).
WholeReport ==
  (\A t \in Threads : pc[t] \notin Copying \cup {"dead"}) /\ "buf" \notin crossed
    => buf[1] # "junk" /\ buf[2] = buf[1] /\ tail # "junk"

\* A report of the present state reaches read_buf.
Arrival == CopyRest("loop") /\ temp = unit /\ "loop" \notin crossed

\* When the unit's state stays the same, and a report of it arrives again and
\* again, every page comes to show it, whatever was clicked before and however
\* often the log cuts the report (upd_data.js:347, write_sqlite.h:121).
PageSettles ==
  \A s \in States, p \in Pages :
    <>[](unit = s) /\ []<><<Arrival>>_pageVars => <>[](shown[p] = s)
=============================================================================
