--------------------------- MODULE SettingsProofs ---------------------------
(***************************************************************************)
(* Proofs about Settings, for every layout of config_t and any number of   *)
(* power failures: the types, that RAM and EEPROM hold what was accepted,  *)
(* and that the list of admins is not emptied but by the ways named.       *)
(***************************************************************************)
EXTENDS Settings, TLAPS

Usual == {"idle", "set", "more", "undo", "store"}

\* first_usage, and what the saves have written, also after a mixed save.
Flags ==
  /\ {ram[FirstUsage], rom[FirstUsage]} \subseteq {"0", "1"}
  /\ rom[FirstUsage] = "0" => good = Default
  /\ pc \in Usual => rom[FirstUsage] = "1" /\ ram[FirstUsage] = "1"
  /\ pc = "dead" => rom[FirstUsage] = "0" /\ ram[FirstUsage] = "0"
  /\ pc \in {"boot", "erase"} => isr = Size /\ ram = Zero
  /\ pc \in {"save", "erase", "undo"} => at < Size
  /\ pc \in {"save", "erase"} => \A c \in Cells : c < at => rom[c] = ram[c]

\* Where RAM and EEPROM agree with what was accepted.
Clean == ~mixed =>
  /\ pc \in Usual => rom = good
  /\ pc = "idle" => ram = good
  /\ pc = "undo" => \A c \in Cells : c < at => ram[c] = good[c]
  /\ pc \in {"set", "more"} => \A c \in Slots \cup {Mode} : ram[c] = good[c]
  /\ pc = "boot" /\ rom[FirstUsage] = "1" => rom = good

Somebody(config) == config[Mode] = "1" => Admins(config) # {}

\* The list of admins through an SMS and a save.
Listed == ~mixed =>
  /\ ~bad \/ pc = "store" => Somebody(good)
  /\ ~bad /\ pc = "save" /\ ram[FirstUsage] = "1" => Somebody(ram)

IInv == TypeOK /\ Flags /\ Clean /\ Listed

LEMMA Layout ==
  /\ Size \in Nat \ {0} /\ Cells = 0 .. Size - 1 /\ FirstUsage \in Cells /\ Mode \in Cells
  /\ Slots \subseteq Cells /\ Mode # FirstUsage /\ Mode \notin Slots
  /\ FirstUsage \notin Slots /\ Phones \cap {"0", "?"} = {} /\ MaxCuts \in Nat
  /\ Default \in [Cells -> Contents] /\ Default[FirstUsage] = "1" /\ Default[Mode] = "0"
  /\ {"0", "1", "?"} \cup Values \cup Phones \subseteq Contents
  /\ FirstUsage \notin Params /\ Mode \notin Params /\ Params \cap Slots = {}
BY SettingsAssumption DEF SettingsAssumption, Cells, Contents, Params

LEMMA InitHolds == Init => IInv
<1> SUFFICES ASSUME Init PROVE IInv
  OBVIOUS
<1> USE Layout DEF Init
<1>1. Zero \in [Cells -> Contents] /\ Zero[FirstUsage] = "0" /\ Empty \in Lists
  BY DEF Zero, Empty, Lists
<1>2. TypeOK
  <2>1. {ram, rom, good} \subseteq [Cells -> Contents] /\ list \in Lists
    BY <1>1
  <2>2. {mixed, bad} \subseteq BOOLEAN
    OBVIOUS
  <2>3. at \in 0 .. Size /\ isr \in 0 .. Size /\ cuts \in 0 .. MaxCuts
    OBVIOUS
  <2> QED
    BY <2>1, <2>2, <2>3 DEF TypeOK
<1>3. Flags
  <2>1. ram[FirstUsage] = "0" /\ rom[FirstUsage] = "0" /\ good = Default /\ pc = "boot"
    BY <1>1
  <2> QED
    BY <2>1 DEF Flags, Usual
<1>4. Clean /\ Listed
  BY <1>1 DEF Clean, Listed, Somebody, Usual
<1> QED
  BY <1>2, <1>3, <1>4 DEF IInv

\* What a restart does, whatever became of EEPROM: rom' is of its type and
\* first_usage in it is as it was.
LEMMA RestartStep ==
  ASSUME IInv, Restart, rom' \in [Cells -> Contents], cuts' \in 0 .. MaxCuts,
         rom'[FirstUsage] = rom[FirstUsage]
  PROVE  IInv'
<1> USE Layout
<1>1. /\ ram' = Zero /\ pc' = "boot" /\ at' = 0 /\ isr' = Size /\ list' = Empty
      /\ UNCHANGED bad
      /\ mixed' = (mixed \/ (rom'[FirstUsage] # "0" /\ rom' # good'))
      /\ good' = IF pc = "save" /\ rom' = ram /\ ram[FirstUsage] = "1" THEN ram ELSE good
  BY DEF Restart, Goto
<1>2. Zero \in [Cells -> Contents] /\ Zero[FirstUsage] = "0" /\ Empty \in Lists
  BY DEF Zero, Empty, Lists
<1>3. TypeOK'
  BY <1>1, <1>2 DEF IInv, TypeOK
<1>4. Flags'
  BY <1>1, <1>2 DEF IInv, Flags, Usual
<1>5. Clean'
  BY <1>1 DEF IInv, Clean, Usual
<1>6. Listed'
  BY <1>1 DEF IInv, Listed, Somebody, Admins
<1> QED
  BY <1>3, <1>4, <1>5, <1>6 DEF IInv

LEMMA TypeStep == TypeOK /\ Flags /\ [Next]_vars => TypeOK' \/ Watchdog \/ Cut
<1> SUFFICES ASSUME TypeOK, Flags, [Next]_vars, ~Watchdog, ~Cut PROVE TypeOK'
  OBVIOUS
<1> USE Layout DEF TypeOK, Main, Goto
<1>1. CASE SetCommand \/ SetDone \/ SetRefused \/ Button \/ FactoryButton
  BY <1>1 DEF SetCommand, SetDone, SetRefused, Button, FactoryButton
<1>2. CASE SetParam
  <2>1. ram' \in [Cells -> Contents]
    BY <1>2 DEF SetParam
  <2> QED
    BY <1>2, <2>1 DEF SetParam
<1>3. CASE Undo
  BY <1>3 DEF Undo, Flags
<1>4. CASE PhonesClear
  <2>1. With(ram, Empty) \in [Cells -> Contents]
    BY DEF With, Empty
  <2> QED
    BY <1>4, <2>1 DEF PhonesClear, Accepted
<1>5. CASE PhonesStore
  <2>1. With(ram, list) \in [Cells -> Contents]
    BY DEF With, Lists
  <2>2. Empty \in Lists
    BY DEF Empty, Lists
  <2> QED
    BY <1>5, <2>1, <2>2 DEF PhonesStore
<1>6. CASE ResetDefault
  BY <1>6 DEF ResetDefault
<1>7. CASE Save
  <2>1. rom' \in [Cells -> Contents] /\ at' \in 0 .. Size
    BY <1>7 DEF Save, Write, Flags
  <2> QED
    BY <1>7, <2>1 DEF Save, Promised
<1>8. CASE Interrupt
  <2>1. rom' \in [Cells -> Contents]
    BY <1>8 DEF Interrupt, Write
  <2> QED
    BY <1>8, <2>1 DEF Interrupt, Promised
<1>9. CASE Boot
  BY <1>9 DEF Boot
<1>10. CASE UNCHANGED vars
  BY <1>10 DEF vars
<1> QED
  BY <1>1, <1>2, <1>3, <1>4, <1>5, <1>6, <1>7, <1>8, <1>9, <1>10 DEF Next

LEMMA FlagsStep ==
  TypeOK /\ Flags /\ [Next]_vars => Flags' \/ Watchdog \/ Cut
<1> SUFFICES ASSUME TypeOK, Flags, [Next]_vars, ~Watchdog, ~Cut PROVE Flags'
  OBVIOUS
<1> USE Layout DEF Flags, Main, Goto, Usual
<1>0. ram \in [Cells -> Contents] /\ rom \in [Cells -> Contents] /\ at \in 0 .. Size
      /\ isr \in 0 .. Size /\ list \in Lists
  BY DEF TypeOK
<1>1. CASE SetCommand \/ SetDone \/ SetRefused \/ Button \/ FactoryButton
  BY <1>0, <1>1 DEF SetCommand, SetDone, SetRefused, Button, FactoryButton
<1>2. CASE SetParam
  <2>1. ram'[FirstUsage] = ram[FirstUsage]
    BY <1>0, <1>2 DEF SetParam
  <2> QED
    BY <1>2, <2>1 DEF SetParam
<1>3. CASE Undo
  <2>1. ram'[FirstUsage] \in {ram[FirstUsage], rom[FirstUsage]}
    BY <1>0, <1>3 DEF Undo
  <2>2. at' < Size \/ pc' = "idle"
    BY <1>0, <1>3 DEF Undo
  <2> QED
    BY <1>3, <2>1, <2>2 DEF Undo
<1>4. CASE PhonesClear
  <2>1. With(ram, Empty)[FirstUsage] = ram[FirstUsage]
    BY DEF With
  <2> QED
    BY <1>4, <2>1 DEF PhonesClear
<1>5. CASE PhonesStore
  <2>1. [With(ram, list) EXCEPT ![Mode] = "1"][FirstUsage] = ram[FirstUsage]
    BY DEF With
  <2> QED
    BY <1>0, <1>5, <2>1 DEF PhonesStore
<1>6. CASE ResetDefault
  BY <1>0, <1>6 DEF ResetDefault
<1>7. CASE Save
  <2>1. /\ rom' \in [Cells -> Contents] /\ rom'[at] = ram[at]
        /\ \A c \in Cells : c # at => rom'[c] = rom[c]
    BY <1>0, <1>7 DEF Save, Write
  <2>2. \A c \in Cells : c < at + 1 => rom'[c] = ram[c]
    BY <1>0, <1>7, <2>1 DEF Save, Cells
  <2>3. rom'[FirstUsage] \in {rom[FirstUsage], ram[FirstUsage]}
    BY <2>1
  <2>4. CASE at + 1 < Size
    BY <1>0, <1>7, <2>2, <2>3, <2>4 DEF Save, Promised
  <2>5. CASE at + 1 = Size
    <3>1. rom'[FirstUsage] = ram[FirstUsage]
      BY <1>0, <2>2, <2>5 DEF Cells
    <3> QED
      BY <1>7, <2>5, <3>1 DEF Save, Promised
  <2> QED
    BY <1>7, <2>4, <2>5 DEF Save
<1>8. CASE Interrupt
  <2>1. \A c \in Cells : rom'[c] \in {rom[c], ram[c]}
    BY <1>0, <1>8 DEF Interrupt, Write
  <2>2. pc \notin {"boot", "erase"} /\ UNCHANGED <<ram, pc, at>>
    BY <1>0, <1>8 DEF Interrupt
  <2>3. \A c \in Cells : rom[c] = ram[c] => rom'[c] = ram[c]
    BY <2>1
  <2>4. rom'[FirstUsage] \in {rom[FirstUsage], ram[FirstUsage]}
    BY <2>1
  <2>5. rom'[FirstUsage] = "0" => good' = Default
    BY <1>8 DEF Interrupt, Promised
  <2> QED
    BY <2>2, <2>3, <2>4, <2>5
<1>9. CASE Boot
  BY <1>9 DEF Boot
<1>10. CASE UNCHANGED vars
  BY <1>10 DEF vars
<1> QED
  BY <1>1, <1>2, <1>3, <1>4, <1>5, <1>6, <1>7, <1>8, <1>9, <1>10 DEF Next

\* A save that is complete leaves EEPROM as RAM.
LEMMA Saved ==
  ASSUME TypeOK, Flags, Save, at + 1 = Size
  PROVE  rom' = ram
<1> USE Layout DEF TypeOK
<1>1. rom' = [rom EXCEPT ![at] = ram[at]]
  BY DEF Save, Write
<1>2. \A c \in Cells : c < at => rom[c] = ram[c]
  BY DEF Flags, Save, Main
<1>3. \A c \in Cells : rom'[c] = ram[c]
  BY <1>1, <1>2 DEF Cells
<1> QED
  BY <1>1, <1>3

LEMMA CleanStep ==
  TypeOK /\ Flags /\ Clean /\ [Next]_vars => Clean' \/ Watchdog \/ Cut
<1> SUFFICES ASSUME TypeOK, Flags, Clean, [Next]_vars, ~Watchdog, ~Cut, ~mixed'
             PROVE  Clean'
  BY DEF Clean
<1> USE Layout DEF Clean, Main, Goto, Usual
<1>0. ram \in [Cells -> Contents] /\ rom \in [Cells -> Contents] /\ at \in 0 .. Size
      /\ isr \in 0 .. Size /\ list \in Lists /\ good \in [Cells -> Contents]
  BY DEF TypeOK
<1>1. CASE SetCommand \/ SetDone \/ SetRefused \/ Button \/ FactoryButton
  BY <1>0, <1>1 DEF SetCommand, SetDone, SetRefused, Button, FactoryButton, Cells
<1>2. CASE SetParam
  <2>1. \A c \in Slots \cup {Mode} : ram'[c] = ram[c]
    BY <1>0, <1>2 DEF SetParam
  <2> QED
    BY <1>2, <2>1 DEF SetParam
<1>3. CASE Undo
  <2>1. ~mixed /\ rom = good /\ UNCHANGED <<rom, good>> /\ at' = at + 1
    BY <1>3 DEF Undo
  <2>2. \A c \in Cells : c < at + 1 => ram'[c] = good[c]
    BY <1>0, <1>3, <2>1 DEF Undo, Cells
  <2>3. at + 1 = Size => ram' = good
    <3>1. ram' \in [Cells -> Contents]
      BY <1>0, <1>3 DEF Undo
    <3>2. at + 1 = Size => \A c \in Cells : ram'[c] = good[c]
      BY <2>2 DEF Cells
    <3> QED
      BY <1>0, <3>1, <3>2
  <2> QED
    BY <1>0, <1>3, <2>1, <2>2, <2>3 DEF Undo
<1>4. CASE PhonesClear
  BY <1>4 DEF PhonesClear
<1>5. CASE PhonesStore
  BY <1>5 DEF PhonesStore
<1>6. CASE ResetDefault
  BY <1>6 DEF ResetDefault
<1>7. CASE Save
  <2>1. CASE at + 1 < Size
    BY <1>7, <2>1 DEF Save
  <2>2. CASE at + 1 = Size
    BY <1>7, <2>2, Saved DEF Save
  <2> QED
    BY <1>7, <2>1, <2>2 DEF Save
<1>8. CASE Interrupt
  <2>1. ~mixed /\ UNCHANGED <<ram, pc, at>>
    BY <1>8 DEF Interrupt
  <2>2. pc \in Usual => rom' = rom
    <3>1. CASE pc = "idle"
      BY <1>0, <1>8, <2>1, <3>1 DEF Interrupt, Write
    <3>2. CASE pc \in {"set", "more", "undo", "store"}
      BY <1>8, <3>2 DEF Interrupt
    <3> QED
      BY <3>1, <3>2
  <2>3. pc \in Usual => good' = good
    BY <1>8, <2>2 DEF Interrupt, Promised, Flags
  <2>4. pc # "boot"
    BY <1>0, <1>8 DEF Interrupt, Flags
  <2> QED
    BY <2>1, <2>2, <2>3, <2>4
<1>9. CASE Boot
  BY <1>9 DEF Boot
<1>10. CASE UNCHANGED vars
  BY <1>10 DEF vars
<1> QED
  BY <1>1, <1>2, <1>3, <1>4, <1>5, <1>6, <1>7, <1>8, <1>9, <1>10 DEF Next

LEMMA SomebodyFacts ==
  /\ Somebody(Default)
  /\ \A f, g : (\A c \in Slots \cup {Mode} : f[c] = g[c]) /\ Somebody(f) => Somebody(g)
<1>1. Somebody(Default)
  BY Layout DEF Somebody
<1>2. ASSUME NEW f, NEW g, \A c \in Slots \cup {Mode} : f[c] = g[c], Somebody(f)
      PROVE  Somebody(g)
  <2>1. Admins(f) = Admins(g)
    BY <1>2 DEF Admins
  <2> QED
    BY <1>2, <2>1 DEF Somebody
<1> QED
  BY <1>1, <1>2

LEMMA ListedStep ==
  IInv /\ [Next]_vars => Listed' \/ Watchdog \/ Cut
<1> SUFFICES ASSUME IInv, [Next]_vars, ~Watchdog, ~Cut, ~mixed' PROVE Listed'
  BY DEF Listed
<1> USE Layout DEF Listed, Main, Goto
<1>0. /\ TypeOK /\ Flags /\ Clean /\ Listed
      /\ ram \in [Cells -> Contents] /\ rom \in [Cells -> Contents]
      /\ list \in Lists /\ good \in [Cells -> Contents]
  BY DEF IInv, TypeOK
<1>1. CASE SetCommand \/ SetRefused \/ Button \/ FactoryButton
  BY <1>0, <1>1 DEF SetCommand, SetRefused, Button, FactoryButton
<1>2. CASE SetParam \/ Undo
  BY <1>0, <1>2 DEF SetParam, Undo
<1>3. CASE SetDone
  <2>1. /\ ~mixed /\ pc = "more" /\ pc' = "save"
        /\ UNCHANGED <<ram, good, bad>>
    BY <1>3 DEF SetDone
  <2>2. \A c \in Slots \cup {Mode} : good[c] = ram[c]
    BY <1>0, <2>1 DEF Clean
  <2>3. ~bad => Somebody(ram)
    BY <1>0, <2>1, <2>2, SomebodyFacts
  <2> QED
    BY <1>0, <2>1, <2>3
<1>4. CASE PhonesClear
  <2>1. ~mixed /\ pc = "idle" /\ pc' = "store" /\ UNCHANGED <<good, bad>>
    BY <1>4 DEF PhonesClear
  <2>2. Somebody(good)
    <3>1. good = ram
      BY <1>0, <2>1 DEF Clean
    <3> QED
      BY <1>4, <3>1 DEF PhonesClear, Somebody
  <2> QED
    BY <2>1, <2>2
<1>5. CASE PhonesStore
  <2>1. ~mixed /\ pc = "store" /\ pc' = "save" /\ UNCHANGED good /\ bad' = (list = Empty)
        /\ ram' = [With(ram, list) EXCEPT ![Mode] = "1"]
    BY <1>5 DEF PhonesStore
  <2>2. ASSUME list # Empty PROVE Somebody(ram')
    <3>1. PICK s \in Slots : list[s] # "0"
      BY <1>0, <2>2 DEF Lists, Empty
    <3>2. list[s] \in Phones
      BY <1>0, <3>1 DEF Lists
    <3>3. ram'[s] = list[s]
      BY <2>1 DEF With
    <3> QED
      BY <3>2, <3>3 DEF Somebody, Admins
  <2> QED
    BY <1>0, <2>1, <2>2
<1>6. CASE ResetDefault
  <2>1. ram'[FirstUsage] = "0"
    BY <1>0, <1>6 DEF ResetDefault
  <2> QED
    BY <1>0, <1>6, <2>1 DEF ResetDefault
<1>7. CASE Save
  <2>1. CASE at + 1 < Size
    <3>1. /\ ~mixed /\ pc' = pc /\ good' \in {good, Default} /\ UNCHANGED <<bad, ram>>
          /\ pc # "store"
      BY <1>0, <1>7, <2>1 DEF Save, Promised, TypeOK
    <3> QED
      BY <1>0, <3>1, SomebodyFacts
  <2>2. CASE at + 1 = Size
    <3>1. /\ pc' \in {"dead", "idle"} /\ pc \in {"save", "erase"} /\ UNCHANGED ram
          /\ mixed' = (mixed /\ ram # Default) /\ bad' = (bad /\ ram # Default)
          /\ good' = IF ram[FirstUsage] = "0" THEN Promised ELSE ram
      BY <1>0, <1>7, <2>2 DEF Save, TypeOK
    <3>2. CASE ram = Default
      BY <3>1, <3>2, SomebodyFacts DEF Promised
    <3>3. CASE ram # Default /\ ram[FirstUsage] = "0"
      BY <1>0, <3>1, <3>3, SomebodyFacts DEF Promised
    <3>4. CASE ram # Default /\ ram[FirstUsage] # "0"
      <4>1. ram[FirstUsage] = "1" /\ pc = "save"
        BY <1>0, <3>1, <3>4 DEF Flags, Zero
      <4> QED
        BY <1>0, <3>1, <3>4, <4>1
    <3> QED
      BY <3>2, <3>3, <3>4
  <2> QED
    BY <1>7, <2>1, <2>2 DEF Save
<1>8. CASE Interrupt
  <2>1. ~mixed /\ UNCHANGED <<ram, pc, bad>> /\ good' \in {good, Default}
    BY <1>0, <1>8 DEF Interrupt, Promised
  <2> QED
    BY <1>0, <2>1, SomebodyFacts
<1>9. CASE Boot
  <2>1. /\ ~mixed /\ UNCHANGED <<good, bad>> /\ pc' \in {"idle", "save"}
        /\ pc' = "save" => ram' = Default
    BY <1>9 DEF Boot
  <2> QED
    BY <1>0, <2>1, SomebodyFacts
<1>10. CASE UNCHANGED vars
  BY <1>0, <1>10 DEF vars
<1> QED
  BY <1>1, <1>2, <1>3, <1>4, <1>5, <1>6, <1>7, <1>8, <1>9, <1>10 DEF Next

LEMMA RestartSteps == IInv /\ (Watchdog \/ Cut) => IInv'
<1> SUFFICES ASSUME IInv, Watchdog \/ Cut PROVE IInv'
  OBVIOUS
<1>1. rom \in [Cells -> Contents] /\ cuts \in 0 .. MaxCuts
  BY DEF IInv, TypeOK
<1>2. CASE Watchdog
  BY <1>1, <1>2, RestartStep DEF Watchdog
<1>3. CASE Cut
  <2>1. cuts' \in 0 .. MaxCuts /\ Restart
    BY <1>1, <1>3, Layout DEF Cut
  <2>2. rom' \in [Cells -> Contents] /\ rom'[FirstUsage] = rom[FirstUsage]
    BY <1>1, <1>3, Layout DEF Cut, Torn
  <2> QED
    BY <2>1, <2>2, RestartStep
<1> QED
  BY <1>2, <1>3

LEMMA Invariant == Spec => []IInv
<1>1. IInv /\ [Next]_vars => IInv'
  BY TypeStep, FlagsStep, CleanStep, ListedStep, RestartSteps DEF IInv
<1> QED
  BY InitHolds, <1>1, PTL DEF Spec

\* RAM, EEPROM and the steps through them stay in their types, for every
\* layout of config_t (eeprom.h:8-36).
THEOREM TypeCorrect == Spec => []TypeOK
<1>1. IInv => TypeOK
  BY DEF IInv
<1> QED
  BY <1>1, Invariant, PTL

\* Between two SMS RAM and EEPROM hold what was accepted, through refused SMS,
\* restarts and resets (sms_parse.c:42-71).
THEOREM AcceptedHoldAlways == Spec => []AcceptedHold
<1>1. IInv => AcceptedHold
  BY DEF IInv, Clean, AcceptedHold, Usual
<1> QED
  BY <1>1, Invariant, PTL

\* The list of admins is empty only after an empty list was accepted or a save
\* was mixed (sms_parse.c:182-200, 538-574).
THEOREM AdminsRemainAlways == Spec => []AdminsRemain
<1>1. IInv => AdminsRemain
  BY DEF IInv, Clean, Listed, Somebody, AdminsRemain
<1> QED
  BY <1>1, Invariant, PTL
=============================================================================
