------------------------------ MODULE Settings ------------------------------
(***************************************************************************)
(* The settings of the unit: in RAM (config), in EEPROM, and what an SMS   *)
(* does to them (sms_parse.c, eeprom.c, main.c).  "set:" changes RAM name  *)
(* by name and then saves all or reads EEPROM again; "adminphones=" clears *)
(* the list of admins before it reads the new one; "resetdefault;" and the *)
(* button at power-on clear first_usage, so that the next start writes the *)
(* defaults.  Saving and reading go byte by byte, with interrupts on: the  *)
(* buttons' own save may come in between, and the power may fail.          *)
(*                                                                         *)
(* config_t is modelled as its cells in the order of eeprom.h.  The modes  *)
(* (guard, zone_mask), which an alarm changes in RAM only, are in Arming.  *)
(***************************************************************************)
EXTENDS Naturals

CONSTANTS
  Size,        \* cells of config_t
  Mode,        \* the cell of admin_mode
  Slots,       \* the cells of admin_phone
  FirstUsage,  \* the cell of first_usage, "1" for 0xAB
  Phones,      \* numbers of telephones
  Values,      \* values of the other settings
  Default,     \* what eeprom_read_config writes into a fresh EEPROM
  MaxCuts      \* bound: power failures

Cells == 0 .. Size - 1
Params == Cells \ (Slots \cup {Mode, FirstUsage})
Contents == Values \cup Phones \cup {"0", "1", "?"}
Lists == [Slots -> Phones \cup {"0"}]

ASSUME SettingsAssumption ==
  /\ Size \in Nat \ {0} /\ Slots \cup {Mode, FirstUsage} \subseteq Cells
  /\ Mode # FirstUsage /\ Mode \notin Slots /\ FirstUsage \notin Slots
  /\ Phones \cap {"0", "?"} = {} /\ MaxCuts \in Nat
  /\ Default \in [Cells -> Contents]
  /\ Default[FirstUsage] = "1" /\ Default[Mode] = "0"

VARIABLES
  ram,    \* config
  rom,    \* EEPROM
  pc,     \* point of the main loop
  at,     \* cell that the main loop is saving or reading
  isr,    \* cell that the interrupt of the buttons is saving, or Size
  list,   \* numbers that set_phones has accepted
  good,   \* history: the settings last accepted, or the defaults due
  mixed,  \* history: EEPROM has held other settings than those
  bad,    \* history: an empty list of admins was accepted
  cuts    \* history: power failures

vars == <<ram, rom, pc, at, isr, list, good, mixed, bad, cuts>>

Admins(config) == {config[s] : s \in Slots} \cap Phones
Empty == [s \in Slots |-> "0"]
Zero == [c \in Cells |-> "0"]
With(config, slots) == [c \in Cells |-> IF c \in Slots THEN slots[c] ELSE config[c]]

\* The main loop runs: the interrupt is not saving.
Main(p) == pc = p /\ isr = Size
Goto(p) == pc' = p /\ at' = 0

-----------------------------------------------------------------------------
\* process_sms_body: "set:".

SetCommand ==
  /\ Main("idle") /\ Admins(ram) # {} /\ Goto("set")
  /\ UNCHANGED <<ram, rom, isr, list, good, mixed, bad, cuts>>

\* set_param: the next of the settings is known and in range.
SetParam ==
  /\ Main("set") \/ Main("more")
  /\ \E c \in Params, v \in Values : ram' = [ram EXCEPT ![c] = v]
  /\ Goto("more")
  /\ UNCHANGED <<rom, isr, list, good, mixed, bad, cuts>>

SetDone ==
  /\ Main("more") /\ Goto("save")
  /\ UNCHANGED <<ram, rom, isr, list, good, mixed, bad, cuts>>

\* Mutant: what was set before the error stays.
SetRefusedStays ==
  /\ Main("set") \/ Main("more")
  /\ Goto("idle")
  /\ UNCHANGED <<ram, rom, isr, list, good, mixed, bad, cuts>>

\* set_param returns 0, or there was no setting.
SetRefused ==
  /\ Main("set") \/ Main("more")
  /\ Goto("undo")
  /\ UNCHANGED <<ram, rom, isr, list, good, mixed, bad, cuts>>

\* Mutant: one byte too many.
UndoPast ==
  /\ Main("undo")
  /\ ram' = IF at < Size THEN [ram EXCEPT ![at] = rom[at]] ELSE ram
  /\ at' = at + 1 /\ pc' = IF at = Size THEN "idle" ELSE "undo"
  /\ UNCHANGED <<rom, isr, list, good, mixed, bad, cuts>>

\* eeprom_read_config(0)
Undo ==
  /\ Main("undo")
  /\ ram' = [ram EXCEPT ![at] = rom[at]]
  /\ at' = at + 1 /\ pc' = IF at + 1 = Size THEN "idle" ELSE "undo"
  /\ UNCHANGED <<rom, isr, list, good, mixed, bad, cuts>>

-----------------------------------------------------------------------------
\* "adminphones=", "resetdefault;".

\* The numbers before the first thing that is none; after a ',' too.
Accepted ==
  {l \in Lists : \A s, t \in Slots : s < t /\ l[s] = "0" => l[t] = "0"}

\* set_phones clears the list; a list that is too long, or in which something
\* else than ',' or ';' follows a number, leaves it so.
PhonesClear ==
  /\ Main("idle") /\ (ram[Mode] = "0" \/ Admins(ram) # {})
  /\ ram' = With(ram, Empty)
  /\ list' \in Accepted /\ Goto("store")
  /\ UNCHANGED <<rom, isr, good, mixed, bad, cuts>>

\* The list is stored, admin_mode set, and "Ok" is the answer in any case.
PhonesStore ==
  /\ Main("store")
  /\ ram' = [With(ram, list) EXCEPT ![Mode] = "1"]
  /\ bad' = (list = Empty) /\ list' = Empty /\ Goto("save")
  /\ UNCHANGED <<rom, isr, good, mixed, cuts>>

ResetDefault ==
  /\ Main("idle") /\ Admins(ram) # {}
  /\ ram' = [ram EXCEPT ![FirstUsage] = "0"] /\ Goto("save")
  /\ UNCHANGED <<rom, isr, list, good, mixed, bad, cuts>>

-----------------------------------------------------------------------------
\* EEPROM_update, eeprom_save_config.

\* One byte is written.  Once first_usage is cleared the defaults are due.
Write(c) == rom' = [rom EXCEPT ![c] = ram[c]]
Promised == IF rom'[FirstUsage] = "0" THEN Default ELSE good

\* In the main loop; after a reset it then waits for the watchdog.
Save ==
  /\ Main("save") \/ Main("erase")
  /\ Write(at) /\ at' = at + 1
  /\ \/ at + 1 < Size /\ pc' = pc /\ good' = Promised /\ UNCHANGED <<mixed, bad>>
     \/ /\ at + 1 = Size
        /\ pc' = IF ram[FirstUsage] = "0" THEN "dead" ELSE "idle"
        /\ good' = IF ram[FirstUsage] = "0" THEN Promised ELSE ram
        /\ mixed' = (mixed /\ ram # Default) /\ bad' = (bad /\ ram # Default)
  /\ UNCHANGED <<ram, isr, list, cuts>>

\* button_control in the timer interrupt.
Button ==
  /\ isr = Size /\ pc \notin {"boot", "erase"} /\ isr' = 0
  /\ UNCHANGED <<ram, rom, pc, at, list, good, mixed, bad, cuts>>

Interrupt ==
  /\ isr < Size /\ isr' = isr + 1
  /\ Write(isr) /\ good' = Promised
  /\ mixed' = (mixed \/ (pc \in {"set", "more", "undo", "store"} /\ rom' # rom))
  /\ UNCHANGED <<ram, pc, at, list, bad, cuts>>

-----------------------------------------------------------------------------
\* Restarts: main.

\* RAM is lost.  A save cut short is harmless if EEPROM then holds the old
\* settings, the new ones, or none.
Restart ==
  /\ ram' = Zero /\ Goto("boot") /\ isr' = Size /\ list' = Empty
  /\ good' = IF pc = "save" /\ rom' = ram /\ ram[FirstUsage] = "1" THEN ram ELSE good
  /\ mixed' = (mixed \/ (rom'[FirstUsage] # "0" /\ rom' # good'))
  /\ UNCHANGED bad

\* Mutant: the interrupts stay on, and they feed the watchdog.
WatchdogFed == pc = "dead" /\ ram = Zero /\ UNCHANGED <<rom, cuts>> /\ Restart

\* reset_mcu and the reset button wait for it.
Watchdog == Main("dead") /\ UNCHANGED <<rom, cuts>> /\ Restart

\* A number of which half is written is nobody's.
Torn(c) == c \in Slots /\ ram[c] # rom[c] /\ rom' = [rom EXCEPT ![c] = "?"]

\* The power fails, or the watchdog ends a loop that hangs.
Cut ==
  /\ cuts < MaxCuts /\ cuts' = cuts + 1
  /\ \/ UNCHANGED rom
     \/ pc \in {"save", "erase"} /\ isr = Size /\ Torn(at)
     \/ isr < Size /\ Torn(isr)
  /\ Restart

\* The button at power-on: EEPROM_update of a config that was never read.
FactoryButton ==
  /\ Main("boot") /\ Goto("erase")
  /\ UNCHANGED <<ram, rom, isr, list, good, mixed, bad, cuts>>

\* Mutant: the list of admins is required from the start.
BootLocked ==
  /\ Main("boot")
  /\ \/ rom[FirstUsage] = "1" /\ ram' = rom /\ Goto("idle")
     \/ /\ rom[FirstUsage] = "0"
        /\ ram' = [With(Default, Empty) EXCEPT ![Mode] = "1"] /\ Goto("save")
  /\ UNCHANGED <<rom, isr, list, good, mixed, bad, cuts>>

\* eeprom_read_config(1)
Boot ==
  /\ Main("boot")
  /\ \/ rom[FirstUsage] = "1" /\ ram' = rom /\ Goto("idle")
     \/ rom[FirstUsage] = "0" /\ ram' = Default /\ Goto("save")
  /\ UNCHANGED <<rom, isr, list, good, mixed, bad, cuts>>

Init ==
  /\ ram = Zero /\ rom = Zero /\ pc = "boot" /\ at = 0 /\ isr = Size
  /\ list = Empty /\ good = Default /\ mixed = FALSE /\ bad = FALSE /\ cuts = 0

Next ==
  \/ SetCommand \/ SetParam \/ SetDone \/ SetRefused \/ Undo
  \/ PhonesClear \/ PhonesStore \/ ResetDefault \/ Save
  \/ Button \/ Interrupt \/ Watchdog \/ Cut \/ FactoryButton \/ Boot

\* A save in the interrupt is over long before the next press; the button is
\* not held at every start.
Fairness ==
  /\ WF_vars(Interrupt) /\ SF_vars(Save)
  /\ SF_vars(Watchdog) /\ SF_vars(Boot)

Spec == Init /\ [][Next]_vars
FairSpec == Spec /\ Fairness

-----------------------------------------------------------------------------
\* Types of RAM, EEPROM and the steps through them.
TypeOK ==
  /\ {ram, rom, good} \subseteq [Cells -> Contents]
  /\ pc \in {"boot", "idle", "set", "more", "undo", "store", "save", "erase", "dead"}
  /\ at \in 0 .. Size /\ isr \in 0 .. Size /\ list \in Lists
  /\ {mixed, bad} \subseteq BOOLEAN /\ cuts \in 0 .. MaxCuts

\* Between two SMS, RAM and EEPROM hold exactly the settings last accepted, or
\* the defaults, however many SMS were refused half way and however often the
\* unit was restarted: unless a button was saved in the middle of an SMS or the
\* power failed in the middle of a save, and no reset to the defaults has been
\* completed since (sms_parse.c:60, 68).
AcceptedHold == pc = "idle" /\ ~mixed => ram = good /\ rom = good

\* Once the list of admins counts there is somebody on it, unless it was
\* accepted empty or a save was cut (sms_parse.c:184, 538).
AdminsRemain ==
  pc = "idle" /\ ram[Mode] = "1" => Admins(ram) # {} \/ bad \/ mixed

\* When first_usage has been cleared the unit comes to the defaults, by power
\* failures in any of the steps too, but for one after first_usage is back.
ResetServed ==
  rom[FirstUsage] = "0" ~> pc = "idle" /\ (ram = Default \/ mixed)
=============================================================================
