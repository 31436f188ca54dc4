-------------------------------- MODULE Line --------------------------------
(***************************************************************************)
(* Commands on their way from the router to the unit, byte by byte.  The   *)
(* daemon's loop and the threads of the pages write to one port, and each  *)
(* write first throws away what has not left the port yet (ttl.h); the     *)
(* unit gathers bytes in data until a line feed and looks for the names of *)
(* commands in it (su_openwrt.c).                                          *)
(*                                                                         *)
(* ping0 and ping1 have no line end.  data is not terminated where a line  *)
(* ends, so the search goes on into what longer lines have left behind.    *)
(* Bytes are modelled by their number: which names stand where in data.    *)
(* Messages that begin without "av" and names that are searched after the  *)
(* guards' are left out, but for "av" and the pings.                       *)
(***************************************************************************)
EXTENDS Integers

CONSTANTS
  Messages,   \* what the daemon and the pages write, by the name it contains
  Length,     \* bytes of each message, its line end included
  NameEnd,    \* bytes of each message up to the end of its name
  Unended,    \* messages without a line end
  BufSize,    \* 31: the bytes of data
  Cuts        \* numbers of bytes after which a message may be cut

\* The commands for the guards, in the order of the search.
Searched == <<"m_g=1", "m_g=0", "l_g=1", "l_g=0">>
Guard == {"m_g=1", "m_g=0", "l_g=1", "l_g=0"}
Watched == Guard \cup {"lamp"}   \* and what is searched before them
Head == 2      \* bytes of "av", after which the name starts

ASSUME LineAssumption ==
  /\ {"av"} \cup Watched \subseteq Messages /\ Unended \subseteq Messages
  /\ Length \in [Messages -> Nat] /\ NameEnd \in [Messages -> Nat]
  /\ BufSize \in Nat \ {0} /\ "none" \notin Messages /\ Cuts \subseteq Nat \ {0}
  /\ \A m \in Messages : Head < Length[m] /\ Head <= NameEnd[m] /\ NameEnd[m] <= Length[m]
  /\ \A m \in Watched : Head < NameEnd[m]
  /\ Guard \cap Unended = {}

VARIABLES
  wire,    \* the message that is being transmitted, or "none"
  len,     \* i of openwrt_to_string, 0 in its state 0
  av,      \* the line begun starts with "av"
  data,    \* names in data, each with the byte at which it starts
  mode,    \* guard and local_guard
  meant,   \* history: what was last asked for, by a page or a button
  alone,   \* history: every message so far had a line of its own
  open,    \* history: the last message was cut or has no line end
  clean    \* history: nothing came between the last wish and its fulfilment

line == <<len, av, data>>
vars == <<wire, line, mode, meant, alone, open, clean>>

Modes == [guard : BOOLEAN, local : BOOLEAN]
Names(words) == {w[1] : w \in words}

\* Names in data that a command for the guards may still be taken for, behind
\* the place of a name or in the line begun.
Loose(words, n) == {w \in words : w[1] \in Watched /\ (w[2] > Head \/ w[2] < n)}

\* set_guard and set_local_guard of each command.
Switched(command) ==
  CASE command = "m_g=1" -> [guard |-> TRUE, local |-> FALSE]
    [] command = "m_g=0" -> [mode EXCEPT !.guard = FALSE]
    [] command = "l_g=1" -> [guard |-> FALSE, local |-> TRUE]
    [] command = "l_g=0" -> [mode EXCEPT !.local = FALSE]

-----------------------------------------------------------------------------
\* openwrt_to_string on the first n bytes of message m.

\* What data holds then: older names that were overwritten, in part or as a
\* whole, are gone.
Overwritten(m, n) ==
  {w \in data : w[2] + NameEnd[w[1]] <= len + Head \/ w[2] >= len + n}
    \cup (IF n >= NameEnd[m] /\ m # "av" THEN {<<m, len + Head>>} ELSE {})

\* Names with the same first k letters.
Alike(k) ==
  {{"m_g=1", "m_g=0"}, {"l_g=1", "l_g=0"}, {"lamp"}}
    \cup (IF k = 1 THEN {{"l_g=1", "l_g=0", "lamp"}} ELSE {})

\* Names that a message cut in its name may make up with older letters behind
\* it: "avl" with "_g=1", "avlam" too, and "l" and "a" with "mp".
Torn(m, n) ==
  IF n >= NameEnd[m] THEN {}
  ELSE {<<x, len + Head>> : x \in {y \in Watched : n > Head /\ \E s \in Alike(n - Head) : {m, y} \subseteq s}}
       \cup {<<x, len + 4>> : x \in {y \in {"m_g=1", "m_g=0"} : m = "lamp" /\ n = 5}}
       \cup {<<"lamp", p>> : p \in {q \in {len - 1} : n = 1 /\ len > 0}}

StartsAv(n) == IF len = 0 THEN n >= Head ELSE len # 1 /\ av

\* Mutant: the end of data is not looked at.
GatherOn(m, n) ==
  /\ data' = Overwritten(m, n)
  /\ len' = len + n /\ av' = StartsAv(n)

\* The line goes on, n > 0.  Lines that fill data, which takes three messages
\* cut or without an end within ten seconds, are left out.
Gather(m, n) ==
  /\ len + n < BufSize
  /\ \E torn \in {{}} \cup {{w} : w \in Torn(m, n)} : data' = Overwritten(m, n) \cup torn
  /\ len' = len + n /\ av' = StartsAv(n)

\* Mutant: the names are compared without their digit.
ObeyedShort(names) ==
  IF "lamp" \in names \/ names \cap Guard = {} THEN mode
  ELSE Switched(IF names \cap {"m_g=1", "m_g=0"} # {} THEN "m_g=1" ELSE "l_g=1")

\* get_message_from_openwrt: the first name found, in the order of the code.
Obeyed(names) ==
  LET found == {i \in DOMAIN Searched : Searched[i] \in names}
  IN  IF "lamp" \in names \/ found = {} THEN mode
      ELSE Switched(Searched[CHOOSE i \in found : \A j \in found : i <= j])

\* The line feed of m, the last of its bytes, has come.
LineComplete(m) ==
  /\ len + Length[m] < BufSize
  /\ data' = Overwritten(m, Length[m])
  /\ mode' = IF StartsAv(Length[m]) THEN Obeyed(Names(data')) ELSE mode
  /\ len' = 0 /\ av' = FALSE

\* The message leaves the port in time.
Transmit ==
  /\ wire # "none" /\ wire' = "none"
  /\ \/ wire \in Unended /\ Gather(wire, Length[wire]) /\ UNCHANGED mode
     \/ wire \notin Unended /\ LineComplete(wire)
  /\ clean' = (clean /\ Loose(data', len') = {})
  /\ UNCHANGED <<meant, alone, open>>

\* send_serial: TCOFLUSH cuts what another thread is sending after n bytes.
Flush ==
  \/ UNCHANGED line
  \/ wire # "none" /\ \E n \in Cuts : n < Length[wire] /\ Gather(wire, n)

Send(m) ==
  /\ Flush /\ wire' = m
  /\ meant' = IF m \in Guard THEN Switched(m) ELSE meant
  /\ alone' = (alone /\ wire = "none" /\ ~open)
  /\ open' = (m \in Unended \/ wire # "none")
  /\ clean' = /\ Loose(data', len') = {} /\ wire \notin Guard
              /\ \/ m \in Guard /\ wire = "none" /\ ~open
                 \/ m \notin Guard /\ clean
  /\ UNCHANGED mode

\* Mutant: the time is tested, but the line is kept.
TimeOutKeeps ==
  /\ len > 0 /\ wire = "none" /\ open' = FALSE
  /\ UNCHANGED <<wire, line, mode, meant, alone, clean>>

\* The line begun is more than ten seconds old.
TimeOut ==
  /\ len > 0 /\ wire = "none" /\ len' = 0 /\ av' = FALSE /\ open' = FALSE
  /\ UNCHANGED <<wire, data, mode, meant, alone, clean>>

\* The guards are switched in another way.
Button ==
  /\ mode' \in Modes /\ meant' = mode'
  /\ clean' = (Loose(data, len) = {} /\ wire \notin Guard)
  /\ UNCHANGED <<wire, line, alone, open>>

Init ==
  /\ wire = "none" /\ len = 0 /\ av = FALSE /\ data = {}
  /\ mode \in Modes /\ meant = mode
  /\ alone = TRUE /\ open = FALSE /\ clean = TRUE

Next == Transmit \/ TimeOut \/ Button \/ \E m \in Messages : Send(m)

Spec == Init /\ [][Next]_vars

-----------------------------------------------------------------------------
\* Types of the line assembler; data never holds names beyond its end.
TypeOK ==
  /\ wire \in Messages \cup {"none"} /\ len \in 0 .. BufSize - 1
  /\ data \subseteq (Messages \X (0 .. BufSize - 1))
  /\ {mode, meant} \subseteq Modes
  /\ {av, alone, open, clean} \subseteq BOOLEAN

\* As long as each message is written when the one before it is through and
\* ended, or was dropped for its age, no line leaves a name in data where a
\* shorter one does not overwrite it: there is nothing for the unterminated
\* search to find (su_openwrt.c:37, 70).
WordsInPlace == alone => \A w \in data : w[2] = Head

\* With nothing under way the guards are as they were last meant to be, unless
\* that command ran into another message, or data still held an old name, of
\* any of the guards' commands or of lamp, that could be found (su_openwrt.c:70,
\* ttl.h:79).
LastWishHolds == wire = "none" /\ clean => mode = meant
=============================================================================
