---------------------------- MODULE ArmingProofs ----------------------------
(***************************************************************************)
(* Proofs about Arming for every value of its constants: type correctness  *)
(* and RestartKeepsModes, from one inductive invariant, and on top of it   *)
(* ModesExclusive and DueArmingServed, each from an invariant of its own.  *)
(*                                                                         *)
(* RestartKeepsModes alone is not inductive.  Between the points where it  *)
(* says something, a save has read a mode and not yet written it, settings *)
(* of an SMS wait for their verdict, and a handler lies suspended below    *)
(* another one.  StackOK and ModesOK say what holds at those points.       *)
(***************************************************************************)
EXTENDS Arming, TLAPS

\* Points of main() and of what it calls directly: the bottom of the stack.
MainPoints ==
  {"setup", "top", "call", "guard", "watch", "watch:again", "again:save",
   "calls", "timer", "auto:save", "auto:arm", "arm:guard", "arm:local",
   "arm:save", "arm:done", "arm:wait", "rest"}

\* Points at which a caller continues when what it called returns.
Callers == Waits \cup {"arm:guard", "arm:done"}

\* set_param and the loop around it.
SetPoints ==
  {"guard=0", "guard=1", "local_guard=0", "local_guard=1", "autoguard=0",
   "autoguard=1", "guard=0:2", "guard=1:2", "local_guard=0:2",
   "local_guard=1:2", "set:end"}

\* The main loop is at the bottom of the stack and handlers are above it.
StackOK ==
  /\ stack \in Seq(Points) /\ stack # <<>>
  /\ \A i \in 1..Len(stack) : stack[i] \in MainPoints <=> i = 1
  /\ \A i \in 1..Len(stack) : i < Len(stack) => stack[i] \in Callers

\* No suspended handler has a half done command.
Below == \A i \in 1..Len(stack) : i < Len(stack) => stack[i] \notin Open

StateOK ==
  /\ ram \in Config /\ rom \in Config
  /\ btn \in 0..Sentinel /\ press \in 0..Debounce /\ held \in BOOLEAN
  /\ wdt \in 0..WdtLimit
  /\ wish \in BOOLEAN /\ stale \in BOOLEAN
  /\ excuse \in {"none", "dtmf", "race", "cut"}

\* What a restart would bring back agrees with what the user was told.
Faithful ==
  /\ rom.local = ram.local /\ rom.auto = ram.auto
  /\ ram.guard => rom.guard
  /\ rom.guard => wish

ModesOK ==
  /\ Top \in SetPoints => Below /\ (~stale /\ rom.guard => wish)
  /\ Top \notin SetPoints /\ ram.guard => wish
  /\ \A v \in BOOLEAN : At(PutGuard(v)) /\ ~stale => v = ram.guard
  /\ \A v \in BOOLEAN : At(PutLocal(v)) /\ ~stale =>
                          v = ram.local /\ rom.guard = ram.guard
  /\ ~stale /\ Below /\ Top \notin Open => Faithful

Inv == StackOK /\ StateOK /\ ModesOK

-----------------------------------------------------------------------------
\* What a change of the stack does to its top and to Below.

LEMMA GotoStack ==
  ASSUME StackOK, NEW p \in Points, Goto(p),
         p \in MainPoints <=> Top \in MainPoints
  PROVE  StackOK' /\ Top' = p /\ (Below' <=> Below)
<1>1. Len(stack) \in Nat /\ Len(stack) > 0
  BY DEF StackOK
<1>2. /\ stack' \in Seq(Points) /\ Len(stack') = Len(stack)
      /\ stack'[Len(stack)] = p
      /\ \A i \in 1..Len(stack) : i < Len(stack) => stack'[i] = stack[i]
  BY <1>1 DEF StackOK, Goto
<1>3. StackOK'
  BY <1>1, <1>2 DEF StackOK, Top
<1>4. Top' = p /\ (Below' <=> Below)
  BY <1>1, <1>2 DEF Top, Below
<1>. QED
  BY <1>3, <1>4

LEMMA PushStack ==
  ASSUME StackOK, NEW p \in Points, NEW q \in Callers, Push(p, q),
         p \notin MainPoints, q \in MainPoints <=> Top \in MainPoints
  PROVE  StackOK' /\ Top' = p /\ (Below' <=> Below /\ q \notin Open)
<1>1. Len(stack) \in Nat /\ Len(stack) > 0
  BY DEF StackOK
<1>q. q \in Points
  BY DEF Callers, Points
<1>2. /\ stack' \in Seq(Points) /\ Len(stack') = Len(stack) + 1
      /\ stack'[Len(stack) + 1] = p /\ stack'[Len(stack)] = q
      /\ \A i \in 1..Len(stack) : i < Len(stack) => stack'[i] = stack[i]
  BY <1>1, <1>q DEF StackOK, Push
<1>3. StackOK'
  BY <1>1, <1>2 DEF StackOK, Top
<1>4. Top' = p
  BY <1>1, <1>2 DEF Top
<1>5. Below' <=> Below /\ q \notin Open
  BY <1>1, <1>2 DEF Below
<1>. QED
  BY <1>3, <1>4, <1>5

LEMMA ReturnStack ==
  ASSUME StackOK, Return, Top \notin MainPoints
  PROVE  StackOK' /\ Top' \in Callers /\ (Below <=> Below' /\ Top' \notin Open)
<1>1. Len(stack) \in Nat /\ Len(stack) > 1
  BY DEF StackOK, Top
<1>2. /\ stack' \in Seq(Points)
      /\ Len(stack') = Len(stack) - 1
      /\ \A i \in 1..Len(stack') : stack'[i] = stack[i]
  BY <1>1 DEF StackOK, Return
<1>3. stack' # <<>>
  BY <1>1, <1>2
<1>4. StackOK'
  BY <1>1, <1>2, <1>3 DEF StackOK
<1>5. Top' \in Callers
  BY <1>1, <1>2 DEF StackOK, Top
<1>6. Below <=> Below' /\ Top' \notin Open
  BY <1>1, <1>2 DEF Below, Top
<1>. QED
  BY <1>4, <1>5, <1>6

LEMMA RestartStack ==
  ASSUME stack' = <<"setup">>
  PROVE  StackOK' /\ Top' = "setup" /\ Below'
<1>1. stack' \in Seq(Points) /\ Len(stack') = 1 /\ stack'[1] = "setup"
  BY DEF Points, Waits
<1>. QED
  BY <1>1 DEF StackOK, Top, Below, MainPoints

\* What a change of the stack does to its bottom.
LEMMA GotoBottom ==
  ASSUME StackOK, NEW p, Goto(p)
  PROVE  /\ Top \in MainPoints => stack[1] = Top /\ stack'[1] = p
         /\ Top \notin MainPoints => stack'[1] = stack[1]
<1>1. Len(stack) \in Nat /\ Len(stack) > 0 /\ DOMAIN stack = 1..Len(stack)
  BY DEF StackOK
<1>2. Top \in MainPoints <=> Len(stack) = 1
  BY <1>1 DEF StackOK, Top, MainPoints
<1>. QED
  BY <1>1, <1>2 DEF Goto, Top

LEMMA PushBottom ==
  ASSUME StackOK, NEW p \in Points, NEW q \in Callers, Push(p, q)
  PROVE  /\ Top \in MainPoints => stack[1] = Top /\ stack'[1] = q
         /\ Top \notin MainPoints => stack'[1] = stack[1]
<1>1. Len(stack) \in Nat /\ Len(stack) > 0
  BY DEF StackOK
<1>2. Top \in MainPoints <=> Len(stack) = 1
  <2>1. Len(stack) \in 1..Len(stack)
    BY <1>1
  <2>. QED
    BY <2>1 DEF StackOK, Top
<1>q. q \in Points
  BY DEF Callers, Points
<1>3. /\ stack' \in Seq(Points) /\ Len(stack') = Len(stack) + 1
      /\ stack'[Len(stack) + 1] = p /\ stack'[Len(stack)] = q
      /\ \A i \in 1..Len(stack) : i < Len(stack) => stack'[i] = stack[i]
  BY <1>1, <1>q DEF StackOK, Push
<1>4. CASE Len(stack) = 1
  BY <1>2, <1>3, <1>4 DEF Top
<1>5. CASE Len(stack) # 1
  <2>1. \A n \in Nat : n > 0 /\ n # 1 => 1 \in 1..n /\ 1 < n
    OBVIOUS
  <2>2. 1 \in 1..Len(stack) /\ 1 < Len(stack)
    BY <1>1, <1>5, <2>1
  <2>. QED
    BY <1>2, <1>3, <1>5, <2>2
<1>. QED
  BY <1>4, <1>5

LEMMA ReturnBottom ==
  ASSUME StackOK, Return, Top \notin MainPoints
  PROVE  stack'[1] = stack[1]
<1>1. Len(stack) \in Nat /\ Len(stack) > 1
  BY DEF StackOK, Top
<1>. QED
  BY <1>1 DEF StackOK, Return

-----------------------------------------------------------------------------
\* One lemma per action: it keeps the invariant.

USE DEF At, SavePoints, PutGuard, PutLocal, Waits, Callers,
        MainPoints, SetPoints, Open, Points

USE ArmingAssumption

LEMMA LoopTopKeeps ==
  ASSUME Inv, LoopTop
  PROVE  Inv'
<1>1. StackOK' /\ Top' = "call" /\ (Below' <=> Below)
  BY GotoStack DEF Inv, LoopTop
<1>2. StateOK'
  BY DEF Inv, LoopTop, StateOK, Modes, Isr
<1>3. ModesOK'
  BY <1>1 DEF Inv, LoopTop, ModesOK, Faithful, Modes
<1>. QED
  BY <1>1, <1>2, <1>3 DEF Inv

LEMMA SaveKeeps ==
  ASSUME Inv, Save
  PROVE  Inv'
<1>1. CASE At("save")
  <2>1. StackOK' /\ Top' = PutGuard(ram.guard) /\ (Below' <=> Below)
    BY <1>1, GotoStack DEF Inv, Save, StateOK, Config
  <2>2. StateOK'
    BY <1>1 DEF Inv, Save, StateOK, Isr
  <2>3. ModesOK'
    BY <1>1, <2>1 DEF Inv, Save, ModesOK, Faithful, StateOK, Config
  <2>. QED
    BY <2>1, <2>2, <2>3 DEF Inv
<1>2. ASSUME NEW v \in BOOLEAN, At(PutGuard(v))
      PROVE  Inv'
  <2>1. StackOK' /\ Top' = PutLocal(ram.local) /\ (Below' <=> Below)
    BY <1>2, GotoStack DEF Inv, Save, StateOK, Config
  <2>2. StateOK'
    BY <1>2 DEF Inv, Save, StateOK, Isr, Config
  <2>3. ModesOK'
    BY <1>2, <2>1 DEF Inv, Save, ModesOK, Faithful, StateOK, Config
  <2>. QED
    BY <2>1, <2>2, <2>3 DEF Inv
<1>3. ASSUME NEW v \in BOOLEAN, At(PutLocal(v))
      PROVE  Inv'
  <2>1. StackOK' /\ Top' \in Callers /\ (Below <=> Below' /\ Top' \notin Open)
    BY <1>3, ReturnStack DEF Inv, Save
  <2>2. StateOK'
    BY <1>3 DEF Inv, Save, StateOK, Isr, Config
  <2>3. /\ rom' = [ram EXCEPT !.guard = rom.guard, !.local = v]
        /\ UNCHANGED <<ram, wish, stale>>
    BY <1>3 DEF Save
  <2>4. ~stale => v = ram.local /\ rom.guard = ram.guard
    BY <1>3 DEF Inv, ModesOK
  <2>5. ram.guard => wish
    BY <1>3 DEF Inv, ModesOK
  <2>6. ~stale => Faithful'
    <3>1. ram \in Config /\ rom \in Config
      BY DEF Inv, StateOK
    <3>. QED
      BY <2>3, <2>4, <2>5, <3>1 DEF Faithful, Config
  <2>7. ModesOK'
    BY <2>1, <2>3, <2>5, <2>6 DEF ModesOK
  <2>. QED
    BY <2>1, <2>2, <2>7 DEF Inv
<1>. QED
  BY <1>1, <1>2, <1>3 DEF Save

\* A step that changes no mode and leads from a settled point to any point, or
\* from a half done command to another point of it.
LEMMA GotoKeeps ==
  ASSUME Inv, StateOK', NEW p \in Points, Goto(p), UNCHANGED <<Modes, rom>>,
         p \in MainPoints <=> Top \in MainPoints,
         p \notin SetPoints \cup SavePoints, Top \notin SetPoints \cup SavePoints,
         Top \in Open => p \in Open
  PROVE  Inv'
<1>1. StackOK' /\ Top' = p /\ (Below' <=> Below)
  BY GotoStack DEF Inv
<1>2. ModesOK'
  BY <1>1 DEF Inv, ModesOK, Faithful, Modes
<1>. QED
  BY <1>1, <1>2 DEF Inv

\* A call of EEPROM_update.
LEMMA CallSaveKeeps ==
  ASSUME Inv, StateOK', NEW q \in Callers, Push("save", q),
         UNCHANGED <<Modes, rom>>,
         q \in MainPoints <=> Top \in MainPoints, Top \notin SetPoints
  PROVE  Inv'
<1>1. StackOK' /\ Top' = "save" /\ (Below' => Below)
  BY PushStack DEF Inv
<1>2. ModesOK'
  BY <1>1 DEF Inv, ModesOK, Faithful, Modes
<1>. QED
  BY <1>1, <1>2 DEF Inv

LEMMA CheckGuardKeeps ==
  ASSUME Inv, CheckGuard
  PROVE  Inv'
<1>. StateOK'
  BY DEF Inv, CheckGuard, StateOK, Modes, Isr
<1>1. CASE At("again:save")
  BY <1>1, CallSaveKeeps DEF CheckGuard
<1>2. CASE Top \in {"call", "guard", "watch"}
  <2>1. \E p \in {"guard", "watch", "timer", "calls", "watch:again"} : Goto(p)
    BY <1>2 DEF CheckGuard
  <2>. QED
    BY <1>2, <2>1, GotoKeeps DEF CheckGuard
<1>. QED
  BY <1>1, <1>2 DEF CheckGuard

LEMMA AlarmDisarmsKeeps ==
  ASSUME Inv, AlarmDisarms
  PROVE  Inv'
<1>1. /\ StackOK' /\ Top' \in {"again:save", "timer"} /\ (Below' <=> Below)
      /\ Top \in {"watch:again", "calls"}
  BY GotoStack DEF Inv, AlarmDisarms
<1>2. StateOK'
  BY DEF Inv, AlarmDisarms, StateOK, Isr, Config
<1>3. ModesOK'
  BY <1>1 DEF Inv, AlarmDisarms, ModesOK, Faithful, StateOK, Config
<1>. QED
  BY <1>1, <1>2, <1>3 DEF Inv

LEMMA GuardTimerKeeps ==
  ASSUME Inv, GuardTimer
  PROVE  Inv'
<1>. StateOK'
  BY DEF Inv, GuardTimer, StateOK, Isr, Config
<1>1. CASE ~ram.guard /\ btn # Sentinel /\ ~ram.auto
  <2>1. StackOK' /\ Top' \in {"auto:arm", "auto:save"} /\ (Below' <=> Below)
    BY <1>1, GotoStack DEF Inv, GuardTimer
  <2>2. ModesOK'
    BY <1>1, <2>1 DEF Inv, GuardTimer, ModesOK, Faithful, StateOK, Config
  <2>. QED
    BY <2>1, <2>2 DEF Inv
<1>2. CASE ~(~ram.guard /\ btn # Sentinel /\ ~ram.auto)
  <2>1. \E p \in {"arm:guard", "rest"} : Goto(p)
    BY <1>2 DEF GuardTimer
  <2>. QED
    BY <1>2, <2>1, GotoKeeps DEF GuardTimer, Modes
<1>. QED
  BY <1>1, <1>2

LEMMA TimerSavesKeeps ==
  ASSUME Inv, TimerSaves
  PROVE  Inv'
<1>. StateOK'
  BY DEF Inv, TimerSaves, StateOK, Modes, Isr
<1>1. \E q \in {"rest", "arm:guard", "arm:done"} : Push("save", q)
  BY DEF TimerSaves
<1>. QED
  BY <1>1, CallSaveKeeps DEF TimerSaves

LEMMA TimerArmsKeeps ==
  ASSUME Inv, TimerArms
  PROVE  Inv'
<1>1. StackOK' /\ Top' \in {"arm:local", "arm:save"} /\ (Below' <=> Below)
  BY GotoStack DEF Inv, TimerArms
<1>2. StateOK'
  BY DEF Inv, TimerArms, SetGuard, SetLocal, StateOK, Isr, Config
<1>3. ModesOK'
  BY <1>1 DEF Inv, TimerArms, SetGuard, SetLocal, ModesOK, Faithful, StateOK,
              Config
<1>. QED
  BY <1>1, <1>2, <1>3 DEF Inv

LEMMA TimerDoneKeeps ==
  ASSUME Inv, TimerDone
  PROVE  Inv'
<1>. StateOK'
  BY DEF Inv, TimerDone, StateOK, Modes, Isr
<1>. QED
  BY GotoKeeps DEF TimerDone

LEMMA RestOfLoopKeeps ==
  ASSUME Inv, RestOfLoop
  PROVE  Inv'
<1>. StateOK'
  BY DEF Inv, RestOfLoop, StateOK, Modes, Isr
<1>1. CASE \E p \in {"rest", "top"} : Goto(p) /\ Top \in {"arm:wait", "rest"}
  BY <1>1, GotoKeeps DEF RestOfLoop
<1>2. CASE At("rest") /\ Push("save", "rest")
  BY <1>2, CallSaveKeeps DEF RestOfLoop
<1>3. ASSUME NEW s \in Sms \cup {"reset"}, At("rest"), Push(s, "rest"),
             s = "reset" => Sms # {}
      PROVE  Inv'
  <2>1. StackOK' /\ Top' = s /\ (Below' <=> Below) /\ Below
    <3>1. StackOK' /\ Top' = s /\ (Below' <=> Below)
      BY <1>3, PushStack DEF Inv
    <3>2. Below
      BY <1>3 DEF Inv, StackOK, Top, Below
    <3>. QED
      BY <3>1, <3>2
  <2>2. ModesOK'
    BY <1>3, <2>1 DEF Inv, RestOfLoop, ModesOK, Faithful, Modes
  <2>. QED
    BY <2>1, <2>2 DEF Inv
<1>. QED
  BY <1>1, <1>2, <1>3 DEF RestOfLoop

LEMMA MessageKeeps ==
  ASSUME Inv, Message
  PROVE  Inv'
<1>. StateOK'
  BY DEF Inv, Message, StateOK, Modes, Isr
<1>1. PICK m \in Web \cup Dtmf : Push(m, Top)
  BY DEF Message
<1>2. StackOK' /\ Top' = m /\ (Below' <=> Below /\ Top \notin Open)
  BY <1>1, PushStack DEF Inv, Message
<1>3. ModesOK'
  BY <1>1, <1>2 DEF Inv, Message, ModesOK, Faithful, Modes
<1>. QED
  BY <1>2, <1>3 DEF Inv

LEMMA WebCommandKeeps ==
  ASSUME Inv, WebCommand
  PROVE  Inv'
<1>1. StateOK'
  BY DEF Inv, WebCommand, SetGuard, SetLocal, StateOK, Isr, Config
<1>2. /\ StackOK' /\ (Below' <=> Below)
      /\ Top' \in {"m_g=1:guard", "m_g=1:save", "m_g=0:save", "l_g=1:local",
                   "l_g=1:save", "l_g=0:save"}
      /\ Top \in {"m_g=1", "m_g=1:guard", "m_g=0", "l_g=1", "l_g=1:local",
                  "l_g=0"}
  BY GotoStack DEF Inv, WebCommand
<1>3. ModesOK'
  BY <1>2 DEF Inv, WebCommand, SetGuard, SetLocal, ModesOK, StateOK, Config
<1>. QED
  BY <1>1, <1>2, <1>3 DEF Inv

LEMMA DtmfCommandKeeps ==
  ASSUME Inv, DtmfCommand
  PROVE  Inv'
<1>1. StateOK'
  BY DEF Inv, DtmfCommand, SetGuard, SetLocal, StateOK, Isr, Config
<1>2. /\ StackOK' /\ (Below' <=> Below)
      /\ Top' \in {"dtmf1:save", "dtmf2:play", "dtmf6:guard", "dtmf6:save"}
      /\ Top \in {"dtmf1:wait", "dtmf2:wait", "dtmf6:play", "dtmf6:guard"}
  BY GotoStack DEF Inv, DtmfCommand
<1>3. ModesOK'
  BY <1>2 DEF Inv, DtmfCommand, SetGuard, SetLocal, ModesOK, StateOK, Config
<1>. QED
  BY <1>1, <1>2, <1>3 DEF Inv

\* A step to the first point of EEPROM_update, which returns for its caller.
LEMMA GotoSaveKeeps ==
  ASSUME Inv, StateOK', Goto("save"), UNCHANGED <<Modes, rom>>,
         Top \notin MainPoints \cup SetPoints
  PROVE  Inv'
<1>1. StackOK' /\ Top' = "save" /\ (Below' <=> Below)
  BY GotoStack DEF Inv
<1>2. ModesOK'
  BY <1>1 DEF Inv, ModesOK, Modes
<1>. QED
  BY <1>1, <1>2 DEF Inv

LEMMA HandlerStepKeeps ==
  ASSUME Inv, HandlerStep
  PROVE  Inv'
<1>. StateOK'
  BY DEF Inv, HandlerStep, StateOK, Modes, Isr
<1>1. CASE \E p \in {"dtmf1:wait", "dtmf2:wait", "dtmf6:play", "dtmf2:save",
                     "reboot_all"} :
             /\ Goto(p)
             /\ Top \in {"dtmf1", "dtmf2", "dtmf6", "dtmf2:play",
                         "reset:reply"}
             /\ Top = "dtmf2:play" => p = "dtmf2:save"
  BY <1>1, GotoKeeps DEF HandlerStep
<1>2. CASE Goto("save") /\ Top \in SaveThenReturn
  BY <1>2, GotoSaveKeeps DEF HandlerStep, SaveThenReturn
<1>3. CASE \E q \in {"dtmf1:play", "reset:reply", "reboot:wait", "gsm:wait",
                     "set:reply"} :
             /\ Push("save", q)
             /\ Top \in {"dtmf1:save", "reset:save", "reboot_all",
                         "reboot_gsm", "set:save"}
  BY <1>3, CallSaveKeeps DEF HandlerStep
<1>4. CASE Return /\ Top \in {"dtmf1:play", "gsm:wait", "set:reply"}
  <2>1. /\ StackOK' /\ Top' \in Callers
        /\ Below <=> Below' /\ Top' \notin Open
    BY <1>4, ReturnStack DEF Inv
  <2>2. ModesOK'
    BY <1>4, <2>1 DEF Inv, HandlerStep, ModesOK, Faithful, Modes
  <2>. QED
    BY <2>1, <2>2 DEF Inv
<1>. QED
  BY <1>1, <1>2, <1>3, <1>4 DEF HandlerStep, SaveThenReturn

LEMMA SetParamKeeps ==
  ASSUME Inv, SetParam
  PROVE  Inv'
<1>1. StateOK'
  <2>. HIDE DEF At, Points, Open, Waits, MainPoints, Callers, SetPoints
  <2>1. ram \in Config
    BY DEF Inv, StateOK
  <2>2. ram' \in Config
    <3>1. CASE GuardSetting
      BY <2>1, <3>1 DEF GuardSetting, Config
    <3>2. CASE LocalSetting
      BY <2>1, <3>2 DEF LocalSetting, Config
    <3>3. CASE AutoSetting
      BY <2>1, <3>3 DEF AutoSetting, Config
    <3>. QED
      BY <3>1, <3>2, <3>3 DEF SetParam
  <2>. QED
    BY <2>2 DEF Inv, SetParam, StateOK, Isr
<1>2. /\ StackOK' /\ (Below' <=> Below)
      /\ Top \in SetPoints
      /\ Top' \in {"guard=0:2", "guard=1:2", "local_guard=0:2",
                   "local_guard=1:2", "set:end"}
  BY GotoStack DEF Inv, SetParam, GuardSetting, LocalSetting, AutoSetting
<1>3. ModesOK'
  BY <1>2 DEF Inv, SetParam, ModesOK
<1>. QED
  BY <1>1, <1>2, <1>3 DEF Inv

LEMMA SetEndKeeps ==
  ASSUME Inv, SetEnd
  PROVE  Inv'
<1>1. CASE SetAccepted
  <2>1. StackOK' /\ Top' = "set:save" /\ (Below' <=> Below)
    BY <1>1, GotoStack DEF Inv, SetEnd, SetAccepted
  <2>2. StateOK'
    BY <1>1 DEF Inv, SetEnd, SetAccepted, StateOK, Isr, Config, Both
  <2>3. ModesOK'
    BY <1>1, <2>1 DEF Inv, SetEnd, SetAccepted, ModesOK, StateOK, Config
  <2>. QED
    BY <2>1, <2>2, <2>3 DEF Inv
<1>2. CASE SetRejected
  <2>1. StackOK' /\ Top' = "set:reply" /\ (Below' <=> Below)
    BY <1>2, GotoStack DEF Inv, SetEnd, SetRejected
  <2>2. StateOK'
    BY <1>2 DEF Inv, SetEnd, SetRejected, StateOK, Isr, Config, Both, Load,
                Default
  <2>3. ModesOK'
    BY <1>2, <2>1 DEF Inv, SetEnd, SetRejected, ModesOK, Faithful, StateOK,
                      Config, Load, Default
  <2>. QED
    BY <2>1, <2>2, <2>3 DEF Inv
<1>3. ASSUME NEW s \in Sms, Goto(s), UNCHANGED <<Modes, rom>>
      PROVE  Inv'
  <2>1. StackOK' /\ Top' = s /\ (Below' <=> Below)
    BY <1>3, GotoStack DEF Inv, SetEnd
  <2>2. StateOK'
    BY <1>3 DEF Inv, SetEnd, StateOK, Modes, Isr
  <2>3. ModesOK'
    BY <1>3, <2>1 DEF Inv, SetEnd, ModesOK, Modes
  <2>. QED
    BY <2>1, <2>2, <2>3 DEF Inv
<1>. QED
  BY <1>1, <1>2, <1>3 DEF SetEnd

LEMMA ResetDefaultKeeps ==
  ASSUME Inv, ResetDefault
  PROVE  Inv'
<1>1. StackOK' /\ Top' = "reset:save" /\ (Below' <=> Below)
  BY GotoStack DEF Inv, ResetDefault
<1>2. StateOK'
  BY DEF Inv, ResetDefault, StateOK, Isr, Config
<1>3. ModesOK'
  BY <1>1 DEF Inv, ResetDefault, ModesOK, StateOK, Config
<1>. QED
  BY <1>1, <1>2, <1>3 DEF Inv

\* Settled, in the terms of the invariant.
LEMMA SettledIs ==
  ASSUME StackOK
  PROVE  Settled <=> ~stale /\ Below /\ Top \notin Open
BY DEF StackOK, Settled, Below, Top

\* A restart, from a configuration that agrees with the last command unless a
\* command was half done.
LEMMA RestartKeeps ==
  ASSUME Inv, NEW r \in Config, Restart(r),
         Settled /\ Load(r).guard => wish
  PROVE  Inv'
<1>1. StackOK' /\ Top' = "setup" /\ Below'
  BY RestartStack DEF Restart
<1>2. StateOK'
  <2>1. Load(r) \in Config
    BY DEF Load, Default, Config
  <2>2. 0 \in 0..WdtLimit /\ 0 \in 0..Debounce /\ Sentinel \in 0..Sentinel
    OBVIOUS
  <2>. QED
    BY <2>1, <2>2 DEF Inv, Restart, StateOK, Config
<1>3. ModesOK'
  BY <1>1 DEF Inv, Restart, ModesOK, Faithful, StateOK, Load, Default, Config
<1>. QED
  BY <1>1, <1>2, <1>3 DEF Inv

LEMMA RestartsKeep ==
  ASSUME Inv, PowerLoss \/ FactoryReset \/ Hang \/ Restart(ram)
  PROVE  Inv'
<1>1. Settled => (Load(rom).guard => wish) /\ (Load(ram).guard => wish)
  BY SettledIs DEF Inv, ModesOK, Faithful, Load, Default
<1>2. CASE Restart(rom)
  BY <1>1, <1>2, RestartKeeps DEF Inv, StateOK
<1>3. CASE Restart(ram)
  BY <1>1, <1>3, RestartKeeps DEF Inv, StateOK
<1>4. CASE FactoryReset
  BY <1>4, RestartKeeps DEF FactoryReset, Load, Default, Config
<1>. QED
  BY <1>2, <1>3, <1>4 DEF PowerLoss, Hang

\* check_button: a branch that acts saves what it sets, and a branch that
\* only counts changes no mode.
LEMMA ButtonActsKeeps ==
  ASSUME Inv, NEW l \in BOOLEAN, ButtonActs(FALSE, l),
         UNCHANGED <<wdt, stack>>, btn' \in 0..Sentinel,
         press' \in 0..Debounce
  PROVE  Inv'
<1>1. StackOK' /\ Top' = Top /\ (Below' <=> Below)
  BY DEF Inv, StackOK, Top, Below
<1>2. /\ ram' \in Config /\ rom' = ram'
      /\ ram'.guard = FALSE /\ rom'.guard = FALSE /\ ram'.local = l
  BY DEF Inv, ButtonActs, StateOK, Config
<1>3. StateOK'
  BY <1>2 DEF Inv, ButtonActs, StateOK
<1>4. ModesOK'
  <2>1. \A v \in BOOLEAN : At(PutGuard(v))' /\ ~stale' => v = FALSE
    BY <1>1 DEF ButtonActs
  <2>2. \A v \in BOOLEAN : At(PutLocal(v))' /\ ~stale' => v = l
    BY <1>1 DEF ButtonActs
  <2>3. Faithful'
    BY <1>2 DEF Faithful
  <2>4. Top' \in SetPoints => Below'
    BY <1>1 DEF Inv, ModesOK
  <2>. QED
    BY <1>2, <2>1, <2>2, <2>3, <2>4 DEF ModesOK
<1>. QED
  BY <1>1, <1>3, <1>4 DEF Inv

LEMMA ButtonIdles ==
  ASSUME Inv, UNCHANGED <<Modes, rom, wdt, stack>>, btn' \in 0..Sentinel,
         press' \in 0..Debounce, held' \in BOOLEAN
  PROVE  Inv'
<1>1. StackOK' /\ Top' = Top /\ (Below' <=> Below)
  BY DEF Inv, StackOK, Top, Below
<1>2. StateOK'
  BY DEF Inv, StateOK, Modes
<1>3. ModesOK'
  BY <1>1 DEF Inv, ModesOK, Faithful, Modes
<1>. QED
  BY <1>1, <1>2, <1>3 DEF Inv

LEMMA CheckButtonKeeps ==
  ASSUME Inv, CheckButton
  PROVE  Inv'
<1>1. /\ btn' \in 0..Sentinel /\ press' \in 0..Debounce /\ held' \in BOOLEAN
      /\ UNCHANGED <<wdt, stack>>
  <2>0. /\ 0 \in 0..Sentinel /\ Sentinel \in 0..Sentinel
        /\ 0 \in 0..Debounce /\ Debounce \in 0..Debounce
        /\ btn \in 0..Sentinel /\ press \in 0..Debounce /\ held \in BOOLEAN
    BY DEF Inv, StateOK
  <2>1. ASSUME NEW n \in 1..2, ButtonCounts(n)
        PROVE  press' \in 0..Debounce /\ held' \in BOOLEAN
    BY <2>0, <2>1 DEF ButtonCounts
  <2>2. ASSUME NEW g, NEW l, ButtonActs(g, l)
        PROVE  held' \in BOOLEAN
    BY <2>2 DEF ButtonActs
  <2>3. ASSUME GuardButton
        PROVE  btn' \in 0..Sentinel /\ press' \in 0..Debounce /\ held' \in BOOLEAN
    <3>1. btn' \in {0, btn, Sentinel}
      BY <2>3 DEF GuardButton
    <3>2. press' \in 0..Debounce /\ held' \in BOOLEAN
      <4>1. CASE ButtonCounts(Samples)
        BY <2>1, <4>1 DEF Samples
      <4>2. CASE ButtonActs(FALSE, FALSE) /\ press' \in {press, Debounce}
        BY <2>0, <2>2, <4>2
      <4>3. CASE UNCHANGED <<press, held>>
        BY <2>0, <4>3
      <4>. QED
        BY <2>3, <4>1, <4>2, <4>3 DEF GuardButton, Isr
    <3>. QED
      BY <2>0, <3>1, <3>2
  <2>4. ASSUME LocalButton
        PROVE  btn' \in 0..Sentinel /\ press' \in 0..Debounce /\ held' \in BOOLEAN
    <3>1. CASE ButtonCounts(1)
      BY <2>0, <2>1, <2>4, <3>1 DEF LocalButton
    <3>2. CASE ButtonActs(FALSE, ~ram.local) /\ UNCHANGED press
      BY <2>0, <2>2, <2>4, <3>2 DEF LocalButton
    <3>. QED
      BY <2>0, <2>4, <3>1, <3>2 DEF LocalButton, Isr
  <2>5. NoButton => /\ btn' \in 0..Sentinel /\ press' \in 0..Debounce
                    /\ held' \in BOOLEAN
    BY <2>0 DEF NoButton
  <2>. QED
    BY <2>3, <2>4, <2>5 DEF CheckButton
<1>2. CASE UNCHANGED <<Modes, rom>>
  BY <1>1, <1>2, ButtonIdles
<1>3. CASE \E l \in BOOLEAN : ButtonActs(FALSE, l)
  BY <1>1, <1>3, ButtonActsKeeps
<1>4. GuardButton => UNCHANGED <<Modes, rom>> \/ ButtonActs(FALSE, FALSE)
  BY DEF GuardButton, ButtonCounts
<1>5. LocalButton => UNCHANGED <<Modes, rom>> \/ ButtonActs(FALSE, ~ram.local)
  BY DEF LocalButton, ButtonCounts
<1>6. NoButton => UNCHANGED <<Modes, rom>>
  BY DEF NoButton
<1>. QED
  BY <1>2, <1>3, <1>4, <1>5, <1>6 DEF CheckButton, Inv, StateOK, Config

LEMMA SecondKeeps ==
  ASSUME Inv, Second
  PROVE  Inv'
<1>1. CASE wdt + 1 > WdtLimit
  BY <1>1, RestartsKeep DEF Second
<1>2. CASE ~(wdt + 1 > WdtLimit)
  <2>1. StackOK' /\ Top' = Top /\ (Below' <=> Below)
    BY <1>2 DEF Inv, Second, StackOK, Top, Below
  <2>2. StateOK'
    BY <1>2 DEF Inv, Second, StateOK, Modes, Isr
  <2>3. ModesOK'
    BY <1>2, <2>1 DEF Inv, Second, ModesOK, Faithful, Modes
  <2>. QED
    BY <2>1, <2>2, <2>3 DEF Inv
<1>. QED
  BY <1>1, <1>2

-----------------------------------------------------------------------------
LEMMA InitInv == Init => Inv /\ late \in 0..LateCap
<1>. SUFFICES ASSUME Init PROVE Inv /\ late \in 0..LateCap
  OBVIOUS
<1>1. StackOK /\ Top = "setup" /\ Below
  <2>1. stack \in Seq(Points) /\ Len(stack) = 1 /\ stack[1] = "setup"
    BY DEF Init
  <2>. QED
    BY <2>1 DEF StackOK, Top, Below
<1>2. StateOK /\ late \in 0..LateCap
  <2>1. Default \in Config
    BY DEF Default, Config
  <2>2. /\ 0 \in 0..WdtLimit /\ 0 \in 0..Debounce /\ 0 \in 0..LateCap
        /\ Sentinel \in 0..Sentinel
    BY DEF LateCap
  <2>. QED
    BY <2>1, <2>2 DEF Init, StateOK
<1>3. ModesOK
  BY <1>1 DEF Init, ModesOK, Faithful, Default
<1>. QED
  BY <1>1, <1>2, <1>3 DEF Inv

LEMMA NextInv ==
  ASSUME Inv, late \in 0..LateCap, [Next]_vars
  PROVE  Inv' /\ late' \in 0..LateCap
<1>1. CASE UNCHANGED vars
  <2>1. StackOK' /\ Top' = Top /\ (Below' <=> Below) /\ StateOK'
    BY <1>1 DEF Inv, vars, StackOK, Top, Below, StateOK
  <2>2. ModesOK'
    BY <1>1, <2>1 DEF Inv, vars, ModesOK, Faithful
  <2>. QED
    BY <1>1, <2>1, <2>2 DEF Inv, vars
<1>2. CASE Next
  <2>1. Main => Inv'
    BY SaveKeeps, LoopTopKeeps, CheckGuardKeeps, AlarmDisarmsKeeps,
       GuardTimerKeeps, TimerSavesKeeps, TimerArmsKeeps, TimerDoneKeeps,
       RestOfLoopKeeps, MessageKeeps, WebCommandKeeps, DtmfCommandKeeps,
       HandlerStepKeeps, SetParamKeeps, SetEndKeeps, ResetDefaultKeeps
       DEF Main
  <2>2. CheckButton \/ Hang \/ PowerLoss \/ FactoryReset \/ Second => Inv'
    BY CheckButtonKeeps, RestartsKeep, SecondKeeps
  <2>3. \A s \in BOOLEAN : Waiting(s) => late' \in 0..LateCap
    BY DEF Waiting, LateCap
  <2>. QED
    BY <1>2, <2>1, <2>2, <2>3 DEF Next
<1>. QED
  BY <1>1, <1>2

\* Every reachable state satisfies the inductive invariant.
THEOREM Invariance == Spec => [](Inv /\ late \in 0..LateCap)
<1>1. Init => Inv /\ late \in 0..LateCap
  BY InitInv
<1>2. (Inv /\ late \in 0..LateCap) /\ [Next]_vars
        => (Inv /\ late \in 0..LateCap)'
  BY NextInv
<1>. QED
  BY <1>1, <1>2, PTL DEF Spec

\* Type correctness of the unit's memory, counters and call stack, for every
\* delay, watchdog limit, nesting of handlers and set of commands.
THEOREM TypeCorrect == Spec => []TypeOK
<1>1. Inv /\ late \in 0..LateCap => TypeOK
  BY DEF Inv, StackOK, StateOK, TypeOK
<1>. QED
  BY <1>1, Invariance, PTL

\* A restart outside a half done command never brings back a guard the user
\* switched off nor loses one the user switched on: see RestartKeepsModes.
THEOREM RestartKeepsModesAlways == Spec => []RestartKeepsModes
<1>1. Inv => RestartKeepsModes
  BY SettledIs DEF Inv, ModesOK, Faithful, RestartKeepsModes
<1>. QED
  BY <1>1, Invariance, PTL

-----------------------------------------------------------------------------
\* ModesExclusive.  Besides the property itself the invariant says that a
\* handler between its two assignments has the other mode off already, and
\* that a restart or a rejected SMS finds no two modes in EEPROM.

Exclusive ==
  excuse = "none" =>
    /\ Both(ram) => Top \in {"arm:local", "dtmf6:guard"}
    /\ Top \in {"m_g=1:guard", "guard=1:2"} => ~ram.local
    /\ Top \in {"l_g=1:local", "local_guard=1:2"} => ~ram.guard
    /\ ~stale /\ ((Below /\ Top \notin Open) \/ Top \in SetPoints) => ~Both(rom)

\* A step that changes no mode, between points that no clause but the last
\* tells apart.
LEMMA IdleExclusive ==
  ASSUME Exclusive, UNCHANGED <<ram, rom, excuse>>, stale' = stale,
         Top \notin {"arm:local", "dtmf6:guard"},
         Top' \notin {"m_g=1:guard", "guard=1:2", "l_g=1:local",
                      "local_guard=1:2"},
         (Below' /\ Top' \notin Open) \/ Top' \in SetPoints
           => (Below /\ Top \notin Open) \/ Top \in SetPoints
  PROVE  Exclusive'
BY DEF Exclusive, Both

LEMMA SaveExclusive ==
  ASSUME Inv, Exclusive, Save
  PROVE  Exclusive'
<1>1. CASE At("save")
  <2>1. Top' = PutGuard(ram.guard)
    BY <1>1, GotoStack DEF Inv, Save, StateOK, Config
  <2>. QED
    BY <1>1, <2>1 DEF Save, Exclusive, Both
<1>2. ASSUME NEW v \in BOOLEAN, At(PutGuard(v))
      PROVE  Exclusive'
  <2>1. Top' = PutLocal(ram.local)
    BY <1>2, GotoStack DEF Inv, Save, StateOK, Config
  <2>. QED
    BY <1>2, <2>1 DEF Save, Exclusive, Both
<1>3. ASSUME NEW v \in BOOLEAN, At(PutLocal(v))
      PROVE  Exclusive'
  <2>1. Top' \in Callers
    BY <1>3, ReturnStack DEF Inv, Save
  <2>2. /\ rom' = [ram EXCEPT !.guard = rom.guard, !.local = v]
        /\ UNCHANGED <<ram, excuse, stale>>
    BY <1>3 DEF Save
  <2>3. ~stale => v = ram.local /\ rom.guard = ram.guard
    BY <1>3 DEF Inv, ModesOK
  <2>4. ~stale => (Both(rom') <=> Both(ram))
    BY <2>2, <2>3 DEF Inv, StateOK, Config, Both
  <2>. QED
    BY <1>3, <2>1, <2>2, <2>4 DEF Exclusive, Both
<1>. QED
  BY <1>1, <1>2, <1>3 DEF Save

LEMMA LoopExclusive ==
  ASSUME Inv, Exclusive,
         LoopTop \/ CheckGuard \/ TimerSaves \/ TimerDone \/ RestOfLoop
  PROVE  Exclusive'
<1>1. CASE /\ UNCHANGED <<Modes, rom>>
           /\ \E p \in {"call", "guard", "watch", "timer", "calls",
                        "watch:again", "arm:wait", "rest", "top"} : Goto(p)
           /\ Top \in {"setup", "top", "call", "guard", "watch", "arm:done",
                       "arm:wait", "rest"}
  <2>1. Top' \in {"call", "guard", "watch", "timer", "calls", "watch:again",
                  "arm:wait", "rest", "top"} /\ (Below' <=> Below)
    BY <1>1, GotoStack DEF Inv
  <2>. QED
    BY <1>1, <2>1, IdleExclusive DEF Modes
<1>2. CASE /\ UNCHANGED <<Modes, rom>>
           /\ \E s \in Sms \cup {"save", "reset"},
                 q \in {"calls", "rest", "arm:guard", "arm:done"} :
                Push(s, q) /\ (s # "save" => Top = "rest" /\ q = "rest")
           /\ Top \in {"again:save", "auto:save", "auto:arm", "arm:save",
                       "rest"}
           /\ Sms # {} \/ \E q \in Callers : Push("save", q)
  <2>1. PICK s \in Sms \cup {"save", "reset"},
             q \in {"calls", "rest", "arm:guard", "arm:done"} :
           Push(s, q) /\ (s # "save" => Top = "rest" /\ q = "rest")
    BY <1>2
  <2>2. CASE s = "save"
    <3>1. Top' = "save"
      BY <1>2, <2>1, <2>2, PushStack DEF Inv
    <3>. QED
      BY <1>2, <3>1, IdleExclusive DEF Modes
  <2>3. CASE s # "save"
    <3>1. s \in Points
      BY <1>2, <2>1, <2>3
    <3>2. Top' = s /\ Below
      BY <2>1, <2>3, <3>1, PushStack DEF Inv, StackOK, Top, Below
    <3>. QED
      BY <1>2, <2>1, <2>3, <3>2, IdleExclusive DEF Modes
  <2>. QED
    BY <2>2, <2>3
<1>. QED
  BY <1>1, <1>2 DEF LoopTop, CheckGuard, TimerSaves, TimerDone, RestOfLoop

LEMMA TimerExclusive ==
  ASSUME Inv, Exclusive, GuardTimer \/ TimerArms \/ AlarmDisarms
  PROVE  Exclusive'
<1>1. CASE AlarmDisarms
  <2>1. /\ Top' \in {"again:save", "timer"} /\ (Below' <=> Below)
        /\ Top \in {"watch:again", "calls"}
    BY <1>1, GotoStack DEF Inv, AlarmDisarms
  <2>2. ~ram'.guard /\ UNCHANGED <<rom, stale, excuse>>
    BY <1>1 DEF AlarmDisarms, Inv, StateOK, Config
  <2>. QED
    BY <2>1, <2>2 DEF Exclusive, Both
<1>2. CASE TimerArms
  <2>1. \/ Top = "arm:guard" /\ Top' = "arm:local"
        \/ Top = "arm:local" /\ Top' = "arm:save" /\ ~ram'.local
    BY <1>2, GotoStack DEF Inv, TimerArms, SetLocal, StateOK, Config
  <2>. QED
    BY <2>1 DEF Exclusive, Both
<1>3. CASE GuardTimer
  <2>1. /\ Top = "timer" /\ (Below' <=> Below)
        /\ Top' \in {"auto:arm", "auto:save", "arm:guard", "rest"}
    BY <1>3, GotoStack DEF Inv, GuardTimer
  <2>2. /\ ram'.guard = ram.guard /\ ram'.local = ram.local
        /\ UNCHANGED <<rom, stale, excuse>>
    BY <1>3 DEF GuardTimer, Inv, StateOK, Config
  <2>. QED
    BY <2>1, <2>2 DEF Exclusive, Both
<1>. QED
  BY <1>1, <1>2, <1>3

LEMMA CommandExclusive ==
  ASSUME Inv, Exclusive, WebCommand \/ DtmfCommand \/ ResetDefault
  PROVE  Exclusive'
<1>r. ram \in Config /\ excuse \in {"none", "dtmf", "race", "cut"}
  BY DEF Inv, StateOK
<1>1. CASE WebCommand
  <2>1. \/ Top = "m_g=1" /\ Top' = "m_g=1:guard" /\ SetLocal(FALSE)
        \/ Top = "m_g=1:guard" /\ Top' = "m_g=1:save" /\ SetGuard(TRUE)
        \/ Top = "m_g=0" /\ Top' = "m_g=0:save" /\ SetGuard(FALSE)
        \/ Top = "l_g=1" /\ Top' = "l_g=1:local" /\ SetGuard(FALSE)
        \/ Top = "l_g=1:local" /\ Top' = "l_g=1:save" /\ SetLocal(TRUE)
        \/ Top = "l_g=0" /\ Top' = "l_g=0:save" /\ SetLocal(FALSE)
    BY <1>1, GotoStack DEF Inv, WebCommand
  <2>. QED
    BY <1>r, <2>1 DEF Exclusive, Both, SetGuard, SetLocal, Config
<1>2. CASE DtmfCommand
  <2>1. \/ /\ Top = "dtmf1:wait" /\ Top' = "dtmf1:save"
           /\ ram' = [ram EXCEPT !.guard = TRUE]
           /\ excuse' = IF ram.local THEN "dtmf" ELSE excuse
        \/ Top = "dtmf2:wait" /\ Top' = "dtmf2:play" /\ SetGuard(FALSE)
        \/ Top = "dtmf6:play" /\ Top' = "dtmf6:guard" /\ SetLocal(TRUE)
        \/ Top = "dtmf6:guard" /\ Top' = "dtmf6:save" /\ SetGuard(FALSE)
    BY <1>2, GotoStack DEF Inv, DtmfCommand
  <2>. QED
    BY <1>r, <2>1 DEF Exclusive, Both, SetGuard, SetLocal, Config
<1>3. CASE ResetDefault
  <2>1. Top = "reset" /\ Top' = "reset:save"
    BY <1>3, GotoStack DEF Inv, ResetDefault
  <2>2. /\ ram'.guard = ram.guard /\ ram'.local = ram.local
        /\ UNCHANGED excuse
    BY <1>3, <1>r DEF ResetDefault, Config
  <2>. QED
    BY <2>1, <2>2 DEF Exclusive, Both
<1>. QED
  BY <1>1, <1>2, <1>3

LEMMA HandlerExclusive ==
  ASSUME Inv, Exclusive, HandlerStep \/ Message
  PROVE  Exclusive'
<1>. UNCHANGED <<ram, rom, excuse, stale>>
  BY DEF HandlerStep, Message, Modes
<1>1. CASE \E p \in {"dtmf1:wait", "dtmf2:wait", "dtmf6:play", "dtmf2:save",
                     "reboot_all", "save"} :
             /\ Goto(p)
             /\ Top \in {"dtmf1", "dtmf2", "dtmf6", "dtmf2:play",
                         "reset:reply"} \cup SaveThenReturn
             /\ p \in Open \/ Top \notin Open
  <2>1. PICK p \in {"dtmf1:wait", "dtmf2:wait", "dtmf6:play", "dtmf2:save",
                    "reboot_all", "save"} :
           Goto(p) /\ (p \in Open \/ Top \notin Open)
    BY <1>1
  <2>2. Top' = p /\ (Below' <=> Below)
    BY <1>1, <2>1, GotoStack DEF Inv, SaveThenReturn
  <2>. QED
    BY <1>1, <2>1, <2>2, IdleExclusive DEF SaveThenReturn
<1>2. CASE \E q \in {"dtmf1:play", "reset:reply", "reboot:wait", "gsm:wait",
                     "set:reply"} :
             /\ Push("save", q)
             /\ Top \in {"dtmf1:save", "reset:save", "reboot_all",
                         "reboot_gsm", "set:save"}
  <2>1. Top' = "save"
    BY <1>2, PushStack DEF Inv
  <2>. QED
    BY <1>2, <2>1, IdleExclusive
<1>3. CASE Return /\ Top \in {"dtmf1:play", "gsm:wait", "set:reply"}
  <2>1. Top' \in Callers /\ (Below <=> Below' /\ Top' \notin Open)
    BY <1>3, ReturnStack DEF Inv
  <2>. QED
    BY <1>3, <2>1, IdleExclusive
<1>4. CASE Message
  <2>1. PICK m \in Web \cup Dtmf : Push(m, Top)
    BY <1>4 DEF Message
  <2>2. Top' = m /\ (Below' <=> Below /\ Top \notin Open)
    BY <1>4, <2>1, PushStack DEF Inv, Message
  <2>. QED
    BY <1>4, <2>2, IdleExclusive DEF Message
<1>. QED
  BY <1>1, <1>2, <1>3, <1>4 DEF HandlerStep, SaveThenReturn

LEMMA SetExclusive ==
  ASSUME Inv, Exclusive, SetParam \/ SetEnd
  PROVE  Exclusive'
<1>r. /\ ram \in Config /\ rom \in Config
      /\ excuse \in {"none", "dtmf", "race", "cut"}
  BY DEF Inv, StateOK
<1>1. CASE SetParam
  <2>1. UNCHANGED <<rom, excuse, stale>>
    BY <1>1 DEF SetParam
  <2>2. CASE GuardSetting
    <3>1. PICK v \in BOOLEAN :
             \/ /\ Top = (IF v THEN "guard=1" ELSE "guard=0")
                /\ ram' = [ram EXCEPT !.local = FALSE]
                /\ Top' = (IF v THEN "guard=1:2" ELSE "guard=0:2")
             \/ /\ Top = (IF v THEN "guard=1:2" ELSE "guard=0:2")
                /\ ram' = [ram EXCEPT !.guard = v]
                /\ Top' = "set:end"
      BY <2>2, GotoStack DEF Inv, GuardSetting
    <3>. QED
      BY <1>r, <2>1, <3>1 DEF Exclusive, Both, Config
  <2>3. CASE LocalSetting
    <3>1. PICK v \in BOOLEAN :
             \/ /\ Top = (IF v THEN "local_guard=1" ELSE "local_guard=0")
                /\ ram' = [ram EXCEPT !.guard = FALSE]
                /\ Top' = (IF v THEN "local_guard=1:2" ELSE "local_guard=0:2")
             \/ /\ Top = (IF v THEN "local_guard=1:2" ELSE "local_guard=0:2")
                /\ ram' = [ram EXCEPT !.local = v]
                /\ Top' = "set:end"
      BY <2>3, GotoStack DEF Inv, LocalSetting
    <3>. QED
      BY <1>r, <2>1, <3>1 DEF Exclusive, Both, Config
  <2>4. CASE AutoSetting
    <3>1. /\ Top \in {"autoguard=0", "autoguard=1"} /\ Top' = "set:end"
          /\ ram'.guard = ram.guard /\ ram'.local = ram.local
      BY <1>r, <2>4, GotoStack DEF Inv, AutoSetting, Config
    <3>. QED
      BY <2>1, <3>1 DEF Exclusive, Both
  <2>. QED
    BY <1>1, <2>2, <2>3, <2>4 DEF SetParam
<1>2. CASE SetEnd
  <2>1. CASE SetAccepted
    <3>1. Top = "set:end" /\ Top' = "set:save"
      BY <1>2, <2>1, GotoStack DEF Inv, SetEnd, SetAccepted
    <3>. QED
      BY <2>1, <3>1 DEF SetAccepted, Exclusive, Both
  <2>2. CASE SetRejected
    <3>1. Top = "set:end" /\ Top' = "set:reply"
      BY <1>2, <2>2, GotoStack DEF Inv, SetEnd, SetRejected
    <3>2. excuse' = "none" => ~Both(rom)
      BY <2>2, <3>1 DEF SetRejected, Exclusive
    <3>3. excuse' = "none" => ~Both(ram') /\ ~Both(rom')
      BY <2>2, <3>2 DEF SetRejected, Load, Default, Both
    <3>. QED
      BY <3>1, <3>3 DEF Exclusive, Both
  <2>3. ASSUME NEW s \in Sms, Goto(s), UNCHANGED <<Modes, rom>>
        PROVE  Exclusive'
    <3>1. Top = "set:end" /\ Top' = s
      BY <1>2, <2>3, GotoStack DEF Inv, SetEnd
    <3>. QED
      BY <2>3, <3>1, IdleExclusive DEF Modes
  <2>. QED
    BY <1>2, <2>1, <2>2, <2>3 DEF SetEnd
<1>. QED
  BY <1>1, <1>2

LEMMA RestartExclusive ==
  ASSUME Inv, Exclusive, PowerLoss \/ FactoryReset \/ Hang \/ Restart(ram)
  PROVE  Exclusive'
<1>1. ASSUME NEW r, Restart(r),
             Settled /\ excuse = "none" => ~Both(Load(r))
      PROVE  Exclusive'
  <2>1. Top' = "setup"
    BY <1>1, RestartStack DEF Restart
  <2>2. excuse' = "none" => ~Both(Load(r))
    BY <1>1 DEF Restart
  <2>3. excuse' = "none" => ~Both(ram') /\ ~Both(rom')
    BY <1>1, <2>2 DEF Restart, Both
  <2>. QED
    BY <2>1, <2>3 DEF Exclusive, Both
<1>2. Settled /\ excuse = "none" => ~Both(Load(rom)) /\ ~Both(Load(ram))
  BY SettledIs DEF Inv, ModesOK, Faithful, Exclusive, Load, Default, Both
<1>3. CASE FactoryReset
  BY <1>1, <1>3 DEF FactoryReset, Load, Default, Both
<1>. QED
  BY <1>1, <1>2, <1>3 DEF PowerLoss, Hang

LEMMA ButtonExclusive ==
  ASSUME Inv, Exclusive, CheckButton
  PROVE  Exclusive'
<1>1. Top' = Top /\ (Below' <=> Below)
  BY DEF CheckButton, Top, Below
<1>2. CASE UNCHANGED <<Modes, rom>>
  BY <1>1, <1>2 DEF Exclusive, Both, Modes
<1>3. ASSUME NEW l \in BOOLEAN, ButtonActs(FALSE, l)
      PROVE  Exclusive'
  <2>1. rom' = ram' /\ ~ram'.guard /\ ram'.local = l
    BY <1>3 DEF ButtonActs, Inv, StateOK, Config
  <2>2. excuse' = "none" /\ Top \in {"m_g=1:guard", "guard=1:2"} => ~l
    BY <1>3 DEF ButtonActs
  <2>. QED
    BY <1>1, <2>1, <2>2 DEF Exclusive, Both
<1>4. GuardButton => UNCHANGED <<Modes, rom>> \/ ButtonActs(FALSE, FALSE)
  BY DEF GuardButton, ButtonCounts
<1>5. LocalButton => UNCHANGED <<Modes, rom>> \/ ButtonActs(FALSE, ~ram.local)
  BY DEF LocalButton, ButtonCounts
<1>6. NoButton => UNCHANGED <<Modes, rom>>
  BY DEF NoButton
<1>. QED
  BY <1>2, <1>3, <1>4, <1>5, <1>6 DEF CheckButton, Inv, StateOK, Config

LEMMA NextExclusive ==
  ASSUME Inv, Exclusive, [Next]_vars
  PROVE  Exclusive'
<1>1. UNCHANGED <<Modes, rom, stack>> => Exclusive'
  BY DEF Exclusive, Both, Modes, Top, Below
<1>2. CASE UNCHANGED vars
  BY <1>1, <1>2 DEF vars, Modes
<1>3. CASE Second
  BY <1>1, <1>3, RestartExclusive DEF Second
<1>4. Main => Exclusive'
  BY SaveExclusive, LoopExclusive, TimerExclusive, CommandExclusive,
     HandlerExclusive, SetExclusive DEF Main
<1>. QED
  BY <1>2, <1>3, <1>4, ButtonExclusive, RestartExclusive DEF Next

\* The two guard modes exclude each other but for the named cases: see
\* ModesExclusive, for every set of commands and depth of nesting.
THEOREM ModesExclusiveAlways == Spec => []ModesExclusive
<1>1. Init => Exclusive
  BY DEF Init, Exclusive, Both, Default
<1>2. Exclusive /\ Inv /\ [Next]_vars => Exclusive'
  BY NextExclusive
<1>3. Inv /\ Exclusive => ModesExclusive
  BY DEF Exclusive, ModesExclusive
<1>. QED
  BY <1>1, <1>2, <1>3, Invariance, PTL DEF Spec

-----------------------------------------------------------------------------
\* DueArmingServed.  Between the top of the loop and guard_timer a due arming
\* has waited for at most one watchdog period before this turn and the seconds
\* of this turn; behind guard_timer for the seconds of this turn only.

Early == {"call", "guard", "watch", "watch:again", "again:save", "calls",
          "timer", "auto:arm", "arm:guard"}

InTime ==
  /\ late \in Nat
  /\ ~Due => late = 0
  /\ late <= IF stack[1] \in Early THEN WdtLimit + wdt ELSE wdt

\* A step of the main program that stays on its side of guard_timer, or that
\* passes it with no arming due.
LEMMA StaysInTime ==
  ASSUME StateOK, InTime, Waiting(FALSE), UNCHANGED wdt,
         Due /\ stack[1] \in Early => ~Due' \/ stack'[1] \in Early
  PROVE  InTime'
<1>1. late' = IF Due' THEN late ELSE 0
  BY DEF Waiting
<1>2. wdt \in Nat /\ WdtLimit \in Nat
  BY DEF StateOK
<1>. QED
  BY <1>1, <1>2 DEF InTime

LEMMA LoopInTime ==
  ASSUME Inv, InTime, Waiting(FALSE), LoopTop
  PROVE  InTime'
<1>1. stack[1] \notin Early /\ stack'[1] = "call"
  BY GotoBottom DEF Inv, LoopTop, Early
<1>2. late <= wdt /\ wdt <= WdtLimit /\ wdt \in Nat /\ wdt' = 0
  BY <1>1 DEF InTime, Inv, StateOK, LoopTop
<1>3. late' = IF Due' THEN late ELSE 0
  BY DEF Waiting
<1>4. Due' <=> Due
  BY DEF LoopTop, Due, Modes
<1>. QED
  BY <1>1, <1>2, <1>3, <1>4 DEF InTime, Early

\* The steps of the loop between its top and guard_timer.
LEMMA GuardInTime ==
  ASSUME Inv, InTime, Waiting(FALSE), CheckGuard \/ AlarmDisarms \/ GuardTimer
  PROVE  InTime'
<1>1. UNCHANGED wdt
  BY DEF CheckGuard, AlarmDisarms, GuardTimer
<1>2. CASE AlarmDisarms
  <2>1. stack'[1] \in Early
    BY <1>2, GotoBottom DEF Inv, AlarmDisarms, Early
  <2>. QED
    BY <1>1, <2>1, StaysInTime DEF Inv
<1>3. CASE CheckGuard
  <2>1. CASE At("again:save") /\ Push("save", "calls")
    <3>1. stack'[1] \in Early
      BY <2>1, PushBottom DEF Inv, Early
    <3>. QED
      BY <1>1, <3>1, StaysInTime DEF Inv
  <2>2. CASE /\ Top \in {"call", "guard", "watch"}
             /\ \E p \in {"guard", "watch", "timer", "calls", "watch:again"} :
                  Goto(p)
    <3>1. stack'[1] \in Early
      BY <2>2, GotoBottom DEF Inv, Early
    <3>. QED
      BY <1>1, <3>1, StaysInTime DEF Inv
  <2>. QED
    BY <1>3, <2>1, <2>2 DEF CheckGuard
<1>4. CASE GuardTimer
  <2>1. CASE Due
    <3>1. stack'[1] \in Early
      BY <1>4, <2>1, GotoBottom DEF Inv, GuardTimer, Early
    <3>. QED
      BY <1>1, <3>1, StaysInTime DEF Inv
  <2>. QED
    BY <1>1, <2>1, StaysInTime DEF Inv
<1>. QED
  BY <1>2, <1>3, <1>4

\* The steps from guard_timer's decision to the end of the loop.
LEMMA TimerInTime ==
  ASSUME Inv, InTime, Waiting(FALSE),
         TimerSaves \/ TimerArms \/ TimerDone \/ RestOfLoop
  PROVE  InTime'
<1>1. UNCHANGED wdt
  BY DEF TimerSaves, TimerArms, TimerDone, RestOfLoop
<1>2. CASE At("auto:arm") /\ Push("save", "arm:guard")
  <2>1. stack'[1] \in Early
    BY <1>2, PushBottom DEF Inv, Early
  <2>. QED
    BY <1>1, <2>1, StaysInTime DEF Inv
<1>3. CASE At("arm:guard") /\ SetGuard(TRUE)
  <2>1. ~Due'
    BY <1>3 DEF SetGuard, Due, Inv, StateOK, Config
  <2>. QED
    BY <1>1, <2>1, StaysInTime DEF Inv
<1>4. CASE Top \in {"auto:save", "arm:save", "arm:local", "arm:done",
                    "arm:wait", "rest"}
  <2>1. stack[1] \notin Early
    BY <1>4 DEF Inv, StackOK, Top, Early
  <2>. QED
    BY <1>1, <2>1, StaysInTime DEF Inv
<1>. QED
  BY <1>2, <1>3, <1>4 DEF TimerSaves, TimerArms, TimerDone, RestOfLoop

\* Handlers, which run above the main loop.
LEMMA HandlersInTime ==
  ASSUME Inv, InTime, Waiting(FALSE),
         Save \/ Message \/ WebCommand \/ DtmfCommand \/ HandlerStep
         \/ SetParam \/ SetEnd \/ ResetDefault
  PROVE  InTime'
<1>1. UNCHANGED wdt
  <2>1. Save => UNCHANGED wdt
    BY DEF Save
  <2>. QED
    BY <2>1 DEF Message, WebCommand, DtmfCommand, HandlerStep, SetParam, SetEnd,
                ResetDefault
<1>2. stack'[1] = stack[1]
  <2>1. CASE (\E p : Goto(p)) /\ Top \notin MainPoints
    BY <2>1, GotoBottom DEF Inv
  <2>2. CASE Return /\ Top \notin MainPoints
    BY <2>2, ReturnBottom DEF Inv
  <2>3. CASE HandlerStep
    <3>1. CASE \E q \in Callers : Push("save", q) /\ Top \notin MainPoints
      BY <3>1, PushBottom DEF Inv
    <3>. QED
      BY <2>1, <2>2, <2>3, <3>1 DEF HandlerStep, SaveThenReturn
  <2>4. CASE Message
    BY <2>4, PushBottom DEF Inv, Message
  <2>5. CASE Save
    BY <2>1, <2>2, <2>5 DEF Save
  <2>6. CASE WebCommand
    BY <2>1, <2>6 DEF WebCommand
  <2>7. CASE DtmfCommand
    BY <2>1, <2>7 DEF DtmfCommand
  <2>8. CASE SetParam
    BY <2>1, <2>8 DEF SetParam, GuardSetting, LocalSetting, AutoSetting
  <2>9. CASE SetEnd \/ ResetDefault
    BY <2>1, <2>9 DEF SetEnd, SetAccepted, SetRejected, ResetDefault
  <2>. QED
    BY <2>3, <2>4, <2>5, <2>6, <2>7, <2>8, <2>9
<1>. QED
  BY <1>1, <1>2, StaysInTime DEF Inv

LEMMA RestartInTime ==
  ASSUME NEW s \in BOOLEAN, Waiting(s),
         PowerLoss \/ FactoryReset \/ Hang \/ Restart(ram)
  PROVE  InTime'
<1>1. btn' = Sentinel /\ wdt' = 0
  BY DEF PowerLoss, FactoryReset, Hang, Restart
<1>2. ~Due'
  BY <1>1 DEF Due
<1>3. late' = 0
  BY <1>2 DEF Waiting
<1>. QED
  BY <1>1, <1>2, <1>3 DEF InTime

LEMMA NextInTime ==
  ASSUME Inv, InTime, [Next]_vars
  PROVE  InTime'
<1>1. CASE UNCHANGED vars
  BY <1>1 DEF vars, InTime, Due
<1>2. CASE Main /\ Waiting(FALSE)
  BY <1>2, LoopInTime, GuardInTime, TimerInTime, HandlersInTime DEF Main
<1>3. CASE CheckButton /\ Waiting(FALSE)
  BY <1>3, StaysInTime DEF CheckButton, Inv
<1>4. CASE (Hang \/ PowerLoss \/ FactoryReset) /\ Waiting(FALSE)
  BY <1>4, RestartInTime
<1>5. CASE Second /\ Waiting(TRUE)
  <2>1. CASE wdt + 1 > WdtLimit
    BY <1>5, <2>1, RestartInTime DEF Second
  <2>2. CASE ~(wdt + 1 > WdtLimit)
    <3>1. wdt' = wdt + 1 /\ UNCHANGED stack /\ wdt \in Nat /\ WdtLimit \in Nat
      BY <1>5, <2>2 DEF Second, Inv, StateOK
    <3>2. /\ ~Due' => late' = 0
          /\ late' \in {0, late, late + 1}
      BY <1>5 DEF Waiting
    <3>. QED
      BY <3>1, <3>2 DEF InTime
  <2>. QED
    BY <2>1, <2>2
<1>. QED
  BY <1>1, <1>2, <1>3, <1>4, <1>5 DEF Next

\* An arming that is due is served within two watchdog periods or the unit
\* restarts: see DueArmingServed, for every delay and watchdog limit.
THEOREM DueArmingServedAlways == Spec => []DueArmingServed
<1>1. Init => InTime
  BY DEF Init, InTime, Early
<1>2. InTime /\ Inv /\ [Next]_vars => InTime'
  BY NextInTime
<1>3. Inv /\ InTime => DueArmingServed
  BY DEF Inv, StateOK, InTime, DueArmingServed
<1>. QED
  BY <1>1, <1>2, <1>3, Invariance, PTL DEF Spec

=============================================================================
