---------------------------- MODULE SerialProofs ----------------------------
(***************************************************************************)
(* Proofs about the two directions of the serial link: Line, the commands  *)
(* to the unit, for all messages, lengths and places of their names,       *)
(* wherever a write may cut another; and Page, the reports from the unit,  *)
(* for any number of pages.                                                *)
(***************************************************************************)
EXTENDS Line, Page, TLAPS

LEMMA Lengths ==
  ASSUME NEW m \in Messages
  PROVE  /\ Length[m] \in Nat /\ 2 < Length[m]
         /\ NameEnd[m] \in Nat /\ 2 <= NameEnd[m] /\ NameEnd[m] <= Length[m]
         /\ m \in Watched => 2 < NameEnd[m]
BY LineAssumption DEF LineAssumption, Head

LEMMA WatchedMessages == Watched \subseteq Messages /\ Guard \subseteq Watched
BY LineAssumption DEF LineAssumption, Watched

Bools == av \in BOOLEAN /\ alone \in BOOLEAN /\ open \in BOOLEAN /\ clean \in BOOLEAN

Numbers ==
  /\ wire \in Messages \cup {"none"} /\ len \in 0 .. BufSize - 1
  /\ data \subseteq (Messages \X (0 .. BufSize - 1))
  /\ mode \in Modes /\ meant \in Modes

LEMMA TypeParts == TypeOK <=> Bools /\ Numbers
BY DEF TypeOK, Bools, Numbers

\* A line is begun only by what was cut, has no end, or is being sent.
Begun ==
  /\ wire \in Unended => open
  /\ wire = "none" /\ ~open => len = 0
  /\ alone /\ wire # "none" => len = 0

\* A wish that nothing came between is done, or it is alone on the wire.
Wish == clean =>
  /\ Loose(data, len) = {}
  /\ wire \notin Guard => mode = meant
  /\ wire \in Guard => meant = Switched(wire) /\ len = 0

IInv == Bools /\ Numbers /\ Begun /\ WordsInPlace /\ Wish

-----------------------------------------------------------------------------
\* What is in data after the first n bytes of a message.
LEMMA OverwrittenType ==
  ASSUME Numbers, NEW m \in Messages, NEW n \in Nat, n <= Length[m],
         len + n < BufSize
  PROVE  Overwritten(m, n) \subseteq (Messages \X (0 .. BufSize - 1))
<1>1. CASE n >= NameEnd[m]
  <2>1. len + Head \in 0 .. BufSize - 1
    BY <1>1, Lengths, LineAssumption, SMT DEF Numbers, Head, LineAssumption
  <2> QED
    BY <2>1 DEF Overwritten, Numbers
<1>2. CASE ~(n >= NameEnd[m])
  BY <1>2 DEF Overwritten, Numbers
<1> QED
  BY <1>1, <1>2

LEMMA OverwrittenFromStart ==
  ASSUME Numbers, len = 0, NEW m \in Messages, NEW n \in Nat
  PROVE  \A w \in Overwritten(m, n) : w \in data \/ w[2] = Head
<1>1. len + Head = Head
  BY SMT DEF Head
<1> QED
  BY <1>1 DEF Overwritten

\* What a message, whole or cut, leaves in data.
LEMMA GatheredType ==
  ASSUME Numbers, NEW m \in Messages, NEW n \in Nat, n <= Length[m], Gather(m, n)
  PROVE  data' \subseteq (Messages \X (0 .. BufSize - 1))
<1>1. len + n < BufSize /\ Overwritten(m, n) \subseteq (Messages \X (0 .. BufSize - 1))
  BY OverwrittenType DEF Gather
<1>2. ASSUME NEW w \in Torn(m, n) PROVE w \in Messages \X (0 .. BufSize - 1)
  <2>0. len \in Nat /\ BufSize \in Nat
    BY LineAssumption, SMT DEF Numbers, LineAssumption
  <2>1. \/ w[1] \in Watched /\ w = <<w[1], len + Head>> /\ n > Head
        \/ w[1] \in Watched /\ w = <<w[1], len + 4>> /\ n = 5
        \/ w = <<"lamp", len - 1>> /\ len > 0
    BY <1>2 DEF Torn, Watched, Guard
  <2>2. CASE w[1] \in Watched /\ w = <<w[1], len + Head>> /\ n > Head
    BY <1>1, <2>0, <2>2, WatchedMessages, SMT DEF Head
  <2>3. CASE w[1] \in Watched /\ w = <<w[1], len + 4>> /\ n = 5
    BY <1>1, <2>0, <2>3, WatchedMessages, SMT
  <2>4. CASE w = <<"lamp", len - 1>> /\ len > 0
    <3>1. "lamp" \in Messages /\ len - 1 \in 0 .. BufSize - 1
      BY <1>1, <2>0, <2>4, WatchedMessages, SMT DEF Watched
    <3> QED
      BY <2>4, <3>1
  <2> QED
    BY <2>1, <2>2, <2>3, <2>4
<1> QED
  BY <1>1, <1>2 DEF Gather

\* A message that is not cut makes up no names with older letters.
LEMMA NotTorn ==
  ASSUME NEW m \in Messages, Gather(m, Length[m])
  PROVE  data' = Overwritten(m, Length[m])
BY Lengths DEF Gather, Torn

LEMMA SwitchedType ==
  ASSUME NEW m \in Guard, mode \in Modes PROVE Switched(m) \in Modes
BY DEF Switched, Guard, Modes

\* The search finds nothing for the guards, or one of their names.
LEMMA ObeyedType ==
  ASSUME mode \in Modes, NEW names PROVE Obeyed(names) \in Modes
<1> DEFINE found == {i \in DOMAIN Searched : Searched[i] \in names}
<1>1. CASE "lamp" \in names \/ found = {}
  BY <1>1 DEF Obeyed
<1>2. CASE ~("lamp" \in names \/ found = {})
  <2>1. found \subseteq 1..4 /\ found # {}
    BY <1>2 DEF Searched
  <2>2. \E i \in found : \A j \in found : i <= j
    BY <2>1, SMT
  <2>3. PICK i \in found : Obeyed(names) = Switched(Searched[i])
    BY <1>2, <2>2 DEF Obeyed
  <2>4. Searched[i] \in Guard
    BY <2>3 DEF Searched, Guard
  <2> QED
    BY <2>3, <2>4, SwitchedType
<1> QED
  BY <1>1, <1>2

\* A line in which only one command for the guards stands.
LEMMA ObeyedOne ==
  ASSUME NEW names, NEW m \in Guard, m \in names,
         \A x \in names : x \in Watched => x = m
  PROVE  Obeyed(names) = Switched(m)
<1> DEFINE found == {i \in DOMAIN Searched : Searched[i] \in names}
<1>1. PICK k \in 1..4 : Searched[k] = m
  BY DEF Searched, Guard
<1>2. DOMAIN Searched = 1..4 /\ \A i \in 1..4 : Searched[i] = m => i = k
  BY <1>1 DEF Searched
<1>3. \A i \in 1..4 : Searched[i] \in Watched
  BY DEF Searched, Watched, Guard
<1>4. found = {k}
  BY <1>1, <1>2, <1>3
<1>5. (CHOOSE i \in found : \A j \in found : i <= j) = k
  BY <1>4
<1>6. "lamp" \notin names
  BY DEF Watched, Guard
<1> QED
  BY <1>1, <1>4, <1>5, <1>6 DEF Obeyed

LEMMA ObeyedNone ==
  ASSUME NEW names, names \cap Guard = {}
  PROVE  Obeyed(names) = mode
BY DEF Obeyed, Searched, Guard

\* Without loose names a whole message leaves at most its own name for a later
\* command for the guard to be taken for.
LEMMA OverwrittenNames ==
  ASSUME Numbers, Loose(data, len) = {}, NEW m \in Messages,
         NEW w \in Overwritten(m, Length[m]), w[1] \in Watched
  PROVE  w = <<m, len + Head>>
<1> SUFFICES ASSUME w \in data,
                    w[2] + NameEnd[w[1]] <= len + Head \/ w[2] >= len + Length[m]
             PROVE  FALSE
  BY DEF Overwritten
<1>1. ~(w[2] > Head \/ w[2] < len)
  BY DEF Loose
<1>2. w[2] \in Nat /\ len \in Nat /\ Length[m] \in Nat /\ 2 < Length[m]
  BY Lengths, SMT DEF Numbers
<1>3. NameEnd[w[1]] \in Nat /\ 2 < NameEnd[w[1]]
  BY Lengths, WatchedMessages
<1> QED
  BY <1>1, <1>2, <1>3, SMT DEF Head

-----------------------------------------------------------------------------
LEMMA InitInv == Init => IInv
<1> SUFFICES ASSUME Init PROVE IInv
  OBVIOUS
<1>1. Bools /\ Begun
  BY LineAssumption DEF Init, Bools, Begun, LineAssumption
<1>2. WordsInPlace /\ Wish
  BY DEF Init, WordsInPlace, Wish, Loose, Guard, Watched
<1>3. Numbers
  BY LineAssumption, SMT DEF Init, Numbers, LineAssumption
<1> QED
  BY <1>1, <1>2, <1>3 DEF IInv

LEMMA StartsAvBool ==
  ASSUME av \in BOOLEAN, NEW n \in Nat PROVE StartsAv(n) \in BOOLEAN
<1>1. (n >= Head) \in BOOLEAN
  BY SMT DEF Head
<1> QED
  BY <1>1 DEF StartsAv

LEMMA BoolsStep == IInv /\ [Next]_vars => Bools'
<1> SUFFICES ASSUME IInv, [Next]_vars PROVE Bools'
  OBVIOUS
<1> USE DEF IInv, Bools, line
<1>1. CASE Transmit
  <2>1. wire \in Messages /\ Length[wire] \in Nat
    BY <1>1, Lengths DEF Transmit, Numbers
  <2>2. av' \in BOOLEAN
    BY <1>1, <2>1, StartsAvBool DEF Transmit, Gather, LineComplete
  <2>3. UNCHANGED <<alone, open>> /\ clean' = (clean /\ Loose(data', len') = {})
    BY <1>1 DEF Transmit
  <2> QED
    BY <2>2, <2>3
<1>2. CASE TimeOut
  BY <1>2 DEF TimeOut
<1>3. CASE Button
  BY <1>3 DEF Button
<1>4. ASSUME NEW m \in Messages, Send(m) PROVE Bools'
  <2>1. av' \in BOOLEAN
    <3>1. CASE UNCHANGED line
      BY <3>1
    <3>2. CASE \E n \in Cuts : Gather(wire, n)
      BY <3>2, StartsAvBool, LineAssumption DEF Gather, LineAssumption
    <3> QED
      BY <1>4, <3>1, <3>2 DEF Send, Flush
  <2>2. /\ alone' = (alone /\ wire = "none" /\ ~open)
        /\ open' = (m \in Unended \/ wire # "none")
        /\ clean' \in BOOLEAN
    BY <1>4 DEF Send
  <2> QED
    BY <2>1, <2>2
<1>5. CASE UNCHANGED vars
  BY <1>5 DEF vars
<1> QED
  BY <1>1, <1>2, <1>3, <1>4, <1>5 DEF Next

\* What a write does to the line begun.
LEMMA Flushed ==
  ASSUME Numbers, Flush
  PROVE  /\ len' \in 0 .. BufSize - 1
         /\ data' \subseteq (Messages \X (0 .. BufSize - 1))
         /\ wire = "none" => UNCHANGED line
<1> USE DEF line
<1>1. CASE UNCHANGED line
  BY <1>1 DEF Numbers
<1>2. CASE wire # "none" /\ \E n \in Cuts : n < Length[wire] /\ Gather(wire, n)
  <2>1. PICK n \in Cuts : n < Length[wire] /\ Gather(wire, n)
    BY <1>2
  <2>2. wire \in Messages /\ n \in Nat /\ Length[wire] \in Nat
    BY <1>2, LineAssumption DEF Numbers, LineAssumption
  <2>3. len + n < BufSize /\ len' = len + n
    BY <2>1 DEF Gather
  <2>4. n <= Length[wire]
    BY <2>1, <2>2, SMT
  <2>5. len' \in 0 .. BufSize - 1
    BY <2>2, <2>3, LineAssumption, SMT DEF Numbers, LineAssumption
  <2> QED
    BY <1>2, <2>1, <2>2, <2>4, <2>5, GatheredType
<1> QED
  BY <1>1, <1>2 DEF Flush

\* What is known of a message that leaves the port.
LEMMA Transmitted ==
  ASSUME Numbers, Transmit
  PROVE  /\ wire \in Messages /\ wire' = "none" /\ UNCHANGED <<meant, alone, open>>
         /\ len + Length[wire] < BufSize
         /\ data' = Overwritten(wire, Length[wire])
         /\ \/ wire \in Unended /\ len' = len + Length[wire] /\ mode' = mode
            \/ /\ wire \notin Unended /\ len' = 0
               /\ mode' = IF StartsAv(Length[wire]) THEN Obeyed(Names(data')) ELSE mode
<1>1. wire \in Messages
  BY DEF Numbers, Transmit
<1>2. CASE wire \in Unended /\ Gather(wire, Length[wire]) /\ UNCHANGED mode
  BY <1>1, <1>2, NotTorn DEF Transmit, Gather
<1>3. CASE wire \notin Unended /\ LineComplete(wire)
  BY <1>1, <1>3 DEF Transmit, LineComplete
<1> QED
  BY <1>2, <1>3 DEF Transmit

LEMMA NumbersStep == IInv /\ [Next]_vars => Numbers'
<1> SUFFICES ASSUME IInv, [Next]_vars PROVE Numbers'
  OBVIOUS
<1>0. Numbers
  BY DEF IInv
<1>1. CASE Transmit
  <2>1. data' \subseteq (Messages \X (0 .. BufSize - 1))
    BY <1>0, <1>1, Transmitted, Lengths, OverwrittenType, SMT
  <2>2. len' \in 0 .. BufSize - 1
    BY <1>0, <1>1, Transmitted, Lengths, LineAssumption, SMT DEF Numbers, LineAssumption
  <2>3. mode' \in Modes
    BY <1>0, <1>1, Transmitted, ObeyedType DEF Numbers
  <2> QED
    BY <1>0, <1>1, <2>1, <2>2, <2>3, Transmitted DEF Numbers
<1>2. CASE TimeOut
  BY <1>0, <1>2, LineAssumption, SMT DEF TimeOut, Numbers, LineAssumption
<1>3. CASE Button
  BY <1>0, <1>3 DEF Button, Numbers, line
<1>4. ASSUME NEW m \in Messages, Send(m) PROVE Numbers'
  <2>1. len' \in 0 .. BufSize - 1 /\ data' \subseteq (Messages \X (0 .. BufSize - 1))
    BY <1>0, <1>4, Flushed DEF Send
  <2>2. meant' \in Modes /\ mode' \in Modes
    BY <1>0, <1>4, SwitchedType DEF Send, Numbers
  <2> QED
    BY <1>0, <1>4, <2>1, <2>2 DEF Send, Numbers
<1>5. CASE UNCHANGED vars
  BY <1>0, <1>5 DEF vars, Numbers, line
<1> QED
  BY <1>1, <1>2, <1>3, <1>4, <1>5 DEF Next

LEMMA BegunStep == IInv /\ [Next]_vars => Begun'
<1> SUFFICES ASSUME IInv, [Next]_vars PROVE Begun'
  OBVIOUS
<1>0. Numbers /\ Begun /\ "none" \notin Unended
  BY LineAssumption DEF IInv, LineAssumption
<1>1. CASE Transmit
  BY <1>0, <1>1, Transmitted DEF Begun
<1>2. CASE TimeOut
  BY <1>0, <1>2 DEF TimeOut, Begun
<1>3. CASE Button
  BY <1>0, <1>3 DEF Button, Begun, line
<1>4. ASSUME NEW m \in Messages, Send(m) PROVE Begun'
  <2>1. wire' = m /\ m # "none"
    BY <1>4, LineAssumption DEF Send, LineAssumption
  <2>2. m \in Unended => open'
    BY <1>4 DEF Send
  <2>3. alone' => len' = 0
    BY <1>0, <1>4, Flushed DEF Send, Begun, line
  <2> QED
    BY <2>1, <2>2, <2>3 DEF Begun
<1>5. CASE UNCHANGED vars
  BY <1>0, <1>5 DEF vars, Begun, line
<1> QED
  BY <1>1, <1>2, <1>3, <1>4, <1>5 DEF Next

LEMMA WordsStep == IInv /\ [Next]_vars => WordsInPlace'
<1> SUFFICES ASSUME IInv, [Next]_vars, alone' PROVE \A w \in data' : w[2] = Head
  BY DEF WordsInPlace
<1>0. Numbers /\ Begun /\ WordsInPlace
  BY DEF IInv
<1>1. CASE Transmit
  <2>1. alone /\ wire # "none" /\ Length[wire] \in Nat
    BY <1>0, <1>1, Transmitted, Lengths DEF Transmit
  <2>2. len = 0 /\ \A w \in data : w[2] = Head
    BY <1>0, <2>1 DEF Begun, WordsInPlace
  <2> QED
    BY <1>0, <1>1, <2>1, <2>2, Transmitted, OverwrittenFromStart
<1>2. CASE TimeOut \/ Button \/ UNCHANGED vars
  BY <1>0, <1>2 DEF TimeOut, Button, vars, line, WordsInPlace
<1>3. ASSUME NEW m \in Messages, Send(m) PROVE \A w \in data' : w[2] = Head
  <2>1. alone /\ data' = data
    BY <1>0, <1>3, Flushed DEF Send, line
  <2> QED
    BY <1>0, <2>1 DEF WordsInPlace
<1> QED
  BY <1>1, <1>2, <1>3 DEF Next

LEMMA WishStep == IInv /\ [Next]_vars => Wish'
<1> SUFFICES ASSUME IInv, [Next]_vars, clean'
             PROVE  /\ Loose(data', len') = {}
                    /\ wire' \notin Guard => mode' = meant'
                    /\ wire' \in Guard => meant' = Switched(wire)' /\ len' = 0
  BY DEF Wish
<1>0. Numbers /\ Begun /\ Wish /\ Bools
  BY DEF IInv
<1>1. CASE Transmit
  <2>1. clean /\ Loose(data', len') = {} /\ wire' \notin Guard
    BY <1>0, <1>1 DEF Transmit, Bools, Guard
  <2>2. Loose(data, len) = {}
    BY <1>0, <2>1 DEF Wish
  <2>3. CASE wire \in Unended
    <3>1. wire \notin Guard /\ mode' = mode /\ meant' = meant
      BY <1>0, <1>1, <2>3, Transmitted, LineAssumption DEF LineAssumption
    <3> QED
      BY <1>0, <2>1, <3>1 DEF Wish
  <2>4. CASE wire \notin Unended /\ wire \notin Guard
    <3>1. mode' \in {mode, Obeyed(Names(data'))} /\ meant' = meant
      BY <1>0, <1>1, <2>4, Transmitted
    <3>2. \A w \in data' : w[1] \notin Guard
      <4>1. SUFFICES ASSUME NEW w \in data', w[1] \in Guard PROVE FALSE
        OBVIOUS
      <4>2. w = <<wire, len + Head>>
        BY <1>0, <1>1, <2>2, <4>1, Transmitted, OverwrittenNames, WatchedMessages
      <4> QED
        BY <2>4, <4>1, <4>2
    <3>3. Obeyed(Names(data')) = mode
      BY <3>2, ObeyedNone DEF Names
    <3> QED
      BY <1>0, <2>1, <2>4, <3>1, <3>3 DEF Wish
  <2>5. CASE wire \notin Unended /\ wire \in Guard
    <3>1. meant = Switched(wire) /\ len = 0
      BY <1>0, <2>1, <2>5 DEF Wish
    <3>2. StartsAv(Length[wire])
      BY <1>0, <1>1, <3>1, Transmitted, Lengths, SMT DEF StartsAv, Head
    <3>3. mode' = Obeyed(Names(data')) /\ meant' = meant
      BY <1>0, <1>1, <2>5, <3>2, Transmitted
    <3>4. \A w \in data' : w[1] \in Watched => w[1] = wire
      BY <1>0, <1>1, <2>2, Transmitted, OverwrittenNames
    <3>5. <<wire, len + Head>> \in data'
      <4>1. Length[wire] >= NameEnd[wire] /\ wire # "av"
        BY <1>0, <1>1, <2>5, Transmitted, Lengths, SMT DEF Guard
      <4> QED
        BY <1>0, <1>1, <4>1, Transmitted DEF Overwritten
    <3>6. wire \in Names(data') /\ \A g \in Names(data') : g \in Watched => g = wire
      BY <3>4, <3>5 DEF Names
    <3>7. Obeyed(Names(data')) = Switched(wire)
      BY <2>5, <3>6, ObeyedOne
    <3> QED
      BY <2>1, <3>1, <3>3, <3>7
  <2> QED
    BY <2>3, <2>4, <2>5
<1>2. CASE TimeOut
  <2>1. clean /\ wire \notin Guard /\ data' = data /\ UNCHANGED <<wire, mode, meant>>
    BY <1>2 DEF TimeOut, Guard
  <2>2. Loose(data, 0) \subseteq Loose(data, len)
    BY <1>0, SMT DEF Loose, Numbers
  <2> QED
    BY <1>0, <1>2, <2>1, <2>2 DEF Wish, TimeOut
<1>3. CASE Button
  BY <1>3 DEF Button, line
<1>4. ASSUME NEW m \in Messages, Send(m)
      PROVE  /\ Loose(data', len') = {}
             /\ wire' \notin Guard => mode' = meant'
             /\ wire' \in Guard => meant' = Switched(wire)' /\ len' = 0
  <2>1. /\ wire' = m /\ mode' = mode /\ Loose(data', len') = {} /\ wire \notin Guard
        /\ \/ m \in Guard /\ wire = "none" /\ ~open
           \/ m \notin Guard /\ clean
    BY <1>4 DEF Send
  <2>2. CASE m \in Guard
    <3>1. meant' = Switched(m) /\ Switched(wire)' = Switched(m)
      BY <1>4, <2>1, <2>2 DEF Send, Switched
    <3>2. len' = 0
      BY <1>0, <1>4, <2>1, <2>2, Flushed DEF Send, Begun, line
    <3> QED
      BY <2>1, <2>2, <3>1, <3>2
  <2>3. CASE m \notin Guard
    BY <1>0, <1>4, <2>1, <2>3 DEF Send, Wish
  <2> QED
    BY <2>2, <2>3
<1>5. CASE UNCHANGED vars
  <2>1. Switched(wire)' = Switched(wire) /\ Loose(data, len)' = Loose(data, len)
    BY <1>5 DEF vars, line, Switched, Loose
  <2> QED
    BY <1>0, <1>5, <2>1 DEF vars, line, Wish
<1> QED
  BY <1>1, <1>2, <1>3, <1>4, <1>5 DEF Next

LEMMA Invariant == Spec => []IInv
<1>1. IInv /\ [Next]_vars => IInv'
  BY BoolsStep, NumbersStep, BegunStep, WordsStep, WishStep DEF IInv
<1> QED
  BY InitInv, <1>1, PTL DEF Spec

-----------------------------------------------------------------------------
\* The line assembler keeps its types (su_openwrt.c:10-62).
THEOREM TypeCorrect == Spec => []TypeOK
<1>1. IInv => TypeOK
  BY TypeParts DEF IInv
<1> QED
  BY <1>1, Invariant, PTL

\* Messages that each have a line of their own leave nothing in data for the
\* unterminated search of a later one (su_openwrt.c:37, 70).
THEOREM WordsInPlaceAlways == Spec => []WordsInPlace
<1>1. IInv => WordsInPlace
  BY DEF IInv
<1> QED
  BY <1>1, Invariant, PTL

\* A command for the guards holds, unless it ran into another message or data
\* still held an old name that could be found (su_openwrt.c:70, ttl.h:79).
THEOREM LastWishHoldsAlways == Spec => []LastWishHolds
<1>1. IInv => LastWishHolds
  BY DEF IInv, Wish, LastWishHolds, Guard
<1> QED
  BY <1>1, Invariant, PTL

-----------------------------------------------------------------------------
\* The reports.

Steps == {"rest", "sent", "read", "found", "copy", "copying", "dead"}
Orders == {"none", "m_g=0", "m_g=1", "l_g=0", "l_g=1"}

\* PageTypeOK in the parts that the actions change together.
LinkTypes ==
  /\ unit \in States /\ input \in States \cup {"none"} /\ temp \in States \cup {"junk"}
  /\ null \in BOOLEAN /\ cut \in BOOLEAN
  /\ pc \in [Threads -> Steps]
  /\ buf \in [Fields -> Contents] /\ tail \in {"none", "older", "junk"}
  /\ crossed \subseteq Threads \cup {"buf"}

PageTypes ==
  /\ orders \in [Pages -> Orders] /\ shown \in [Pages -> States]
  /\ paused \in [Pages -> BOOLEAN] /\ clicks \in 0 .. MaxClicks

LEMMA PageTypeParts == PageTypeOK <=> LinkTypes /\ PageTypes
BY DEF PageTypeOK, LinkTypes, PageTypes, Steps, Orders, Using, Copying

\* read_buf is of one piece, and not of noise.
Whole == buf[1] # "junk" /\ buf[2] = buf[1] /\ tail # "junk"

\* A thread behind the check copies a report, and of that report it has copied the
\* front, unless another one has changed temp_buf, ptr or read_buf since.
Checked ==
  /\ \A t \in Threads : pc[t] \in Copying /\ t \notin crossed => temp \in States
  /\ \A t \in Threads : pc[t] = "copying" /\ t \notin crossed => buf[1] = temp

\* Only a thread in the midst of its copy leaves read_buf in two pieces.
Pieces == (\A t \in Threads : pc[t] \notin {"copying", "dead"}) /\ "buf" \notin crossed => Whole

PageInv == LinkTypes /\ Checked /\ Pieces

LEMMA NoThreadIsBuf == "buf" \notin Threads /\ "loop" \in Threads /\ Pages \subseteq Threads
BY PageAssumption DEF PageAssumption, Threads

\* What a thread does at a point is seen at that point only.
LEMMA Moves ==
  ASSUME LinkTypes, NEW t \in Threads, NEW p \in Steps, NEW q \in Steps, At(t, p, q)
  PROVE  /\ pc' \in [Threads -> Steps] /\ pc[t] = p /\ pc'[t] = q
         /\ \A u \in Threads \ {t} : pc'[u] = pc[u]
BY DEF At, LinkTypes

LEMMA InitPageInv == PageInit => PageInv /\ PageTypes
<1> SUFFICES ASSUME PageInit PROVE PageInv /\ PageTypes
  OBVIOUS
<1>1. LinkTypes
  BY DEF PageInit, LinkTypes, Contents, States, Fields, Steps
<1>2. PageTypes
  BY PageAssumption DEF PageInit, PageTypes, Orders, States, PageAssumption
<1>3. Checked
  BY DEF PageInit, Checked, Copying
<1>4. Pieces
  BY DEF PageInit, Pieces, Whole, Fields
<1> QED
  BY <1>1, <1>2, <1>3, <1>4 DEF PageInv

\* Steps that no thread of the daemon takes.
Elsewhere == Change \/ Report \/ Log
             \/ (\E p \in Pages : Refresh(p) \/ Click(p) \/ Resume(p))
             \/ UNCHANGED pageVars

LEMMA ElsewhereKeeps ==
  ASSUME PageInv, Elsewhere PROVE PageInv'
<1>1. UNCHANGED <<temp, null, pc, buf, tail, crossed>>
  BY DEF Elsewhere, Change, Report, Log, Refresh, Click, Resume, pageVars, serial, page
<1>2. unit' \in States /\ input' \in States \cup {"none"} /\ cut' \in BOOLEAN
  <2> USE DEF PageInv, LinkTypes, serial, page
  <2>1. CASE Change \/ Report \/ Log
    BY <2>1 DEF Change, Report, Log
  <2>2. CASE \E p \in Pages : Refresh(p) \/ Click(p) \/ Resume(p)
    BY <2>2 DEF Refresh, Click, Resume
  <2>3. CASE UNCHANGED pageVars
    BY <2>3 DEF pageVars
  <2> QED
    BY <2>1, <2>2, <2>3 DEF Elsewhere
<1>3. LinkTypes'
  BY <1>1, <1>2 DEF PageInv, LinkTypes
<1>4. Checked' /\ Pieces'
  BY <1>1 DEF PageInv, Checked, Pieces, Whole
<1> QED
  BY <1>3, <1>4 DEF PageInv

\* Steps of a thread that leave both buffers alone and lead to no copy.
LEMMA AwayKeeps ==
  ASSUME PageInv, NEW t \in Threads, NEW p \in Steps \ {"copying", "dead"},
         NEW q \in Steps \ (Copying \cup {"dead"}), At(t, p, q),
         UNCHANGED <<input, temp, null, buf, tail, cut>>,
         crossed' \in {crossed, crossed \ {t}}, unit' \in States
  PROVE  PageInv'
<1>1. /\ pc' \in [Threads -> Steps] /\ pc[t] = p /\ pc'[t] = q
      /\ \A u \in Threads \ {t} : pc'[u] = pc[u]
  BY Moves DEF PageInv
<1>2. LinkTypes'
  BY <1>1 DEF PageInv, LinkTypes
<1>3. Checked'
  BY <1>1 DEF PageInv, Checked, Copying
<1>4. Pieces'
  BY <1>1, NoThreadIsBuf DEF PageInv, Pieces, Whole
<1> QED
  BY <1>2, <1>3, <1>4 DEF PageInv

\* temp_buf changes: those who copy it are noted.
LEMMA RefillKeeps ==
  ASSUME PageInv, NEW t \in Threads, NEW p \in Steps \ {"copying", "dead"},
         NEW q \in {"read", "found"}, At(t, p, q),
         NEW content \in States \cup {"junk"}, Refill(t, content),
         input' = "none", null' \in BOOLEAN, UNCHANGED <<unit, buf, tail, cut>>
  PROVE  PageInv'
<1>1. /\ pc' \in [Threads -> Steps] /\ pc[t] = p /\ pc'[t] = q
      /\ \A u \in Threads \ {t} : pc'[u] = pc[u]
  BY Moves DEF PageInv, Steps
<1>2. temp' = content /\ crossed' = (crossed \ {t}) \cup Met(t, Using)
  BY DEF Refill
<1>3. LinkTypes'
  BY <1>1, <1>2 DEF PageInv, LinkTypes, Met
<1>4. Checked'
  BY <1>1, <1>2 DEF PageInv, Checked, Copying, Using, Met
<1>5. Pieces'
  BY <1>1, <1>2, NoThreadIsBuf DEF PageInv, Pieces, Whole, Met
<1> QED
  BY <1>3, <1>4, <1>5 DEF PageInv

LEMMA SendKeeps ==
  ASSUME PageInv, Update \/ (\E p \in Pages : Command(p)) PROVE PageInv'
<1>1. CASE Update
  BY <1>1, AwayKeeps, NoThreadIsBuf
     DEF Update, Steps, Copying, PageInv, LinkTypes, serial
<1>2. ASSUME NEW p \in Pages, Command(p) PROVE PageInv'
  <2>1. unit' \in States
    BY <1>2 DEF Command, Ordered, PageInv, LinkTypes, States
  <2>2. p \in Threads
    BY NoThreadIsBuf
  <2> QED
    BY <1>2, <2>1, <2>2, AwayKeeps DEF Command, Steps, Copying, PageInv, LinkTypes, serial
<1> QED
  BY <1>1, <1>2

LEMMA GetKeeps ==
  ASSUME PageInv, NEW t \in Threads, FlushInput(t) \/ Read(t) PROVE PageInv'
<1>1. CASE FlushInput(t)
  BY <1>1, RefillKeeps DEF FlushInput, Steps, PageInv, LinkTypes, page
<1>2. CASE Read(t)
  <2>1. PICK content \in States \cup {"junk"} : Refill(t, content) /\ null' \in BOOLEAN
    BY <1>2 DEF Read, PageInv, LinkTypes
  <2> QED
    BY <1>2, <2>1, RefillKeeps DEF Read, Steps, page
<1> QED
  BY <1>1, <1>2

\* The check: a thread that passes it has a report in temp_buf.
LEMMA CheckKeeps ==
  ASSUME PageInv, NEW t \in Threads, Check(t) PROVE PageInv'
<1>1. CASE At(t, "found", "rest") /\ crossed' = crossed \ {t} /\ UNCHANGED null
  BY <1>1, AwayKeeps DEF Check, Steps, Copying, PageInv, LinkTypes, page
<1>2. CASE temp \in States /\ Passes(t)
  <2>1. /\ pc' \in [Threads -> Steps] /\ pc[t] = "found" /\ pc'[t] = "copy"
        /\ \A u \in Threads \ {t} : pc'[u] = pc[u]
    BY <1>2, Moves DEF Passes, PageInv, Steps
  <2>2. /\ UNCHANGED <<unit, input, temp, buf, tail, cut>>
        /\ null' = FALSE /\ crossed' = (crossed \ {t}) \cup Met(t, Using)
    BY <1>2 DEF Check, Passes, page
  <2>3. LinkTypes'
    BY <2>1, <2>2 DEF PageInv, LinkTypes, Met
  <2>4. Checked'
    BY <1>2, <2>1, <2>2 DEF PageInv, Checked, Copying, Using, Met
  <2>5. Pieces'
    BY <2>1, <2>2, NoThreadIsBuf DEF PageInv, Pieces, Whole, Met
  <2> QED
    BY <2>3, <2>4, <2>5 DEF PageInv
<1> QED
  BY <1>1, <1>2 DEF Check

\* The front: who is in the midst of a copy of its own is noted.
LEMMA FrontKeeps ==
  ASSUME PageInv, NEW t \in Threads, CopyFront(t) PROVE PageInv'
<1>1. /\ pc' \in [Threads -> Steps] /\ pc[t] = "copy" /\ pc'[t] = "copying"
      /\ \A u \in Threads \ {t} : pc'[u] = pc[u]
  BY Moves DEF CopyFront, PageInv, Steps
<1>2. /\ UNCHANGED <<unit, input, temp, null, tail, cut>>
      /\ crossed' = crossed \cup Met(t, {"copying"})
  BY DEF CopyFront, serial, page
<1>3. buf' \in [Fields -> Contents] /\ (t \notin crossed => buf'[1] = temp)
  BY DEF CopyFront, Copied, PageInv, LinkTypes, Fields, Contents
<1>4. LinkTypes'
  BY <1>1, <1>2, <1>3 DEF PageInv, LinkTypes, Met
<1>5. Checked'
  BY <1>1, <1>2, <1>3 DEF PageInv, Checked, Copying, Met
<1>6. Pieces'
  BY <1>1 DEF Pieces
<1> QED
  BY <1>4, <1>5, <1>6 DEF PageInv

\* The end of a copy: read_buf is the report that was checked, or the copy is
\* noted as one of buffers changed meanwhile.
LEMMA RestKeeps ==
  ASSUME PageInv, NEW t \in Threads, CopyRest(t) PROVE PageInv'
<1>1. /\ pc' \in [Threads -> Steps] /\ pc[t] = "copying" /\ pc'[t] = "rest"
      /\ \A u \in Threads \ {t} : pc'[u] = pc[u]
  BY Moves DEF CopyRest, PageInv, Steps
<1>2. /\ UNCHANGED <<unit, input, temp, null>>
      /\ cut' \in BOOLEAN
  BY DEF CopyRest, serial, page, PageInv, LinkTypes
<1>3. buf' \in [Fields -> Contents] /\ tail' \in {"none", "older", "junk"}
  BY DEF CopyRest, Copied, Ended, PageInv, LinkTypes, Fields, Contents
<1>4. crossed' = Met(t, {"copying"}) \cup
        IF t \in crossed THEN (crossed \ {t}) \cup {"buf"} ELSE crossed \ {"buf"}
  BY DEF CopyRest, Finished
<1>5. LinkTypes'
  BY <1>1, <1>2, <1>3, <1>4 DEF PageInv, LinkTypes, Met
<1>6. Checked'
  BY <1>1, <1>2, <1>4, NoThreadIsBuf DEF PageInv, Checked, Copying, Met
<1>7. Pieces'
  <2>1. CASE t \in crossed
    BY <1>4, <2>1 DEF Pieces
  <2>2. CASE t \notin crossed
    <3>1. temp \in States /\ buf[1] = temp
      BY <1>1, <2>2 DEF PageInv, Checked, Copying
    <3>2. buf'[1] = temp /\ buf'[2] = temp
      BY <2>2, <3>1 DEF CopyRest, Copied, PageInv, LinkTypes, Fields
    <3>3. tail' # "junk"
      BY <2>2 DEF CopyRest, Ended
    <3> QED
      BY <3>1, <3>2, <3>3 DEF Pieces, Whole, States
  <2> QED
    BY <2>1, <2>2
<1> QED
  BY <1>5, <1>6, <1>7 DEF PageInv

LEMMA CrashKeeps ==
  ASSUME PageInv, NEW t \in Threads, Crash(t) PROVE PageInv'
<1>1. LinkTypes'
  BY DEF Crash, PageInv, LinkTypes, Steps, Contents, page
<1>2. \A u \in Threads : pc'[u] = "dead"
  BY DEF Crash
<1> QED
  BY <1>1, <1>2 DEF PageInv, Checked, Pieces, Copying

LEMMA PageInvStep == PageInv /\ [PageNext]_pageVars => PageInv'
<1> SUFFICES ASSUME PageInv, [PageNext]_pageVars PROVE PageInv'
  OBVIOUS
<1>1. CASE Elsewhere
  BY <1>1, ElsewhereKeeps
<1>2. CASE Update \/ \E p \in Pages : Command(p)
  BY <1>2, SendKeeps
<1>3. CASE \E t \in Threads : Serial(t) \/ Crash(t)
  BY <1>3, GetKeeps, CheckKeeps, FrontKeeps, RestKeeps, CrashKeeps DEF Serial
<1> QED
  BY <1>1, <1>2, <1>3 DEF PageNext, Elsewhere

LEMMA PageTypesStep == PageInv /\ PageTypes /\ [PageNext]_pageVars => PageTypes'
<1> SUFFICES ASSUME PageInv, PageTypes, [PageNext]_pageVars PROVE PageTypes'
  OBVIOUS
<1>1. CASE UNCHANGED page
  BY <1>1 DEF page, PageTypes
<1>2. ASSUME NEW p \in Pages, Command(p) PROVE PageTypes'
  BY <1>2 DEF Command, PageTypes, Orders
<1>3. ASSUME NEW p \in Pages, Refresh(p) PROVE PageTypes'
  <2>1. Seen(buf[1], buf[2], shown[p]) \in States
    BY <1>3 DEF Seen, States, PageTypes
  <2> QED
    BY <1>3, <2>1 DEF Refresh, PageTypes
<1>4. ASSUME NEW p \in Pages, Click(p) PROVE PageTypes'
  <2>1. orders' \in [Pages -> Orders]
    BY <1>4 DEF Click, PageTypes, Orders
  <2>2. paused' \in [Pages -> BOOLEAN] /\ UNCHANGED shown
    BY <1>4 DEF Click, PageTypes
  <2>3. clicks' \in 0 .. MaxClicks
    BY <1>4, PageAssumption, SMT DEF Click, PageTypes, PageAssumption
  <2> QED
    BY <2>1, <2>2, <2>3 DEF PageTypes
<1>5. ASSUME NEW p \in Pages, Resume(p) PROVE PageTypes'
  BY <1>5 DEF Resume, PageTypes
<1>6. CASE Change \/ Report \/ Update \/ Log \/ UNCHANGED pageVars
  BY <1>1, <1>6 DEF Change, Report, Update, Log, pageVars
<1>7. ASSUME NEW t \in Threads, Serial(t) \/ Crash(t) PROVE PageTypes'
  BY <1>1, <1>7 DEF Serial, FlushInput, Read, Check, CopyFront, CopyRest, Crash
<1> QED
  BY <1>2, <1>3, <1>4, <1>5, <1>6, <1>7 DEF PageNext

LEMMA PageInvariant == PageSpec => [](PageInv /\ PageTypes)
BY InitPageInv, PageInvStep, PageTypesStep, PTL DEF PageSpec

\* The buffers of the daemon, its threads and the pages keep their types, for
\* any number of pages (ttl.h:60-121, main.c, btn_click.js, upd_data.js).
THEOREM PageTypeCorrect == PageSpec => []PageTypeOK
<1>1. PageInv /\ PageTypes => PageTypeOK
  BY PageTypeParts DEF PageInv
<1> QED
  BY <1>1, PageInvariant, PTL

\* Of any number of threads that share temp_buf, ptr and read_buf, none can leave
\* two halves of reports, or noise, in read_buf when nobody copies any more, unless
\* another thread changed one of them while it copied (ttl.h:73); behind the end of
\* the report there may be the end of an older text, which the copy, without a
\* terminator, left there (ttl.h:115).
THEOREM WholeReportAlways == PageSpec => []WholeReport
<1>1. PageInv => WholeReport
  BY DEF PageInv, Pieces, Whole, WholeReport, Copying
<1> QED
  BY <1>1, PageInvariant, PTL

-----------------------------------------------------------------------------
\* Line and Page mean the same by a command for the guards: the name that the
\* unit finds in a line of its own does what Page takes a whole command to do,
\* whatever state the unit is in (su_openwrt.c:82, 89, 95, 103).
GuardsOf(state) == [guard |-> state = "main", local |-> state = "local"]

LEMMA CommandsAgree ==
  ASSUME NEW m \in Guard, unit \in States, mode = GuardsOf(unit)
  PROVE  Obeyed({m}) = GuardsOf(Ordered(m))
<1>1. Obeyed({m}) = Switched(m)
  BY ObeyedOne
<1> QED
  BY <1>1 DEF Switched, Ordered, Guard, States, GuardsOf
=============================================================================
