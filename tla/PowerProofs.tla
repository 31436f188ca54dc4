----------------------------- MODULE PowerProofs -----------------------------
(***************************************************************************)
(* Proofs about Power, for every length of a minute, whatever intervals an *)
(* SMS may set and whether or not the unit restarts.                       *)
(***************************************************************************)
EXTENDS Power, TLAPS

LEMMA LateIsNat == Late \in Nat /\ Late > 0
BY PowerAssumption, SMT DEF PowerAssumption, Late

LEMMA CappedRange == \A n \in Nat : Capped(n) \in 0..Late
BY LateIsNat, SMT DEF Capped

\* Saturation keeps the order of two counters.
LEMMA CappedKeepsOrder ==
  \A m, n \in Nat : m <= n => Capped(m) <= Capped(n)
BY LateIsNat, SMT DEF Capped

-----------------------------------------------------------------------------
\* Types and the agreement of flags and notices are inductive together.
Inv == TypeOK /\ FlagsFollowNotices

Bools ==
  /\ ext \in BOOLEAN /\ due \in BOOLEAN /\ guard \in BOOLEAN
  /\ timeOn \in BOOLEAN /\ timeOff \in BOOLEAN /\ reportOn \in BOOLEAN
  /\ turn \in BOOLEAN
  /\ pc \in {"loop", "settle"} /\ last \in {"on", "off"}

Numbers ==
  /\ without \in 0..Late /\ since \in 0..Late /\ calm \in 0..Late
  /\ on \in 0..2 /\ off \in 0..1

LEMMA TypeParts == TypeOK <=> Bools /\ Numbers
BY DEF TypeOK, Bools, Numbers

LEMMA InitInv == Init => Inv
<1>1. Init => Bools /\ FlagsFollowNotices
  BY DEF Init, Bools, FlagsFollowNotices
<1>2. Init => Numbers
  BY LateIsNat, SMT DEF Init, Numbers
<1> QED
  BY <1>1, <1>2, TypeParts DEF Inv

LEMMA BoolsStep == Bools /\ [Next]_vars => Bools'
<1> SUFFICES ASSUME Bools, [Next]_vars PROVE Bools'
  OBVIOUS
<1> USE DEF Bools
<1>1. CASE Supply \/ Second \/ Setting
  BY <1>1 DEF Supply, Second, Setting, flags, settings, notice
<1>2. CASE PowerControl
  <2>1. ext' = ext /\ due' = FALSE
    BY <1>2 DEF PowerControl, CheckPower
  <2>2. CASE PowerIsOn /\ UNCHANGED pc
    BY <2>1, <2>2 DEF PowerIsOn, PowerReturns, ReportReturn, Send, notice
  <2>3. CASE PowerIsOff /\ UNCHANGED pc
    BY <2>1, <2>3 DEF PowerIsOff, ReportOutage, Send, notice
  <2>4. CASE /\ guard' = TRUE /\ pc' = "settle"
             /\ UNCHANGED <<since, timeOn, timeOff, reportOn, notice>>
    BY <2>1, <2>4 DEF notice
  <2>5. CASE UNCHANGED <<since, flags, pc, notice>>
    BY <2>1, <2>5 DEF flags, notice
  <2> QED
    BY <1>2, <2>2, <2>3, <2>4, <2>5 DEF PowerControl
<1>3. CASE Settled
  BY <1>3 DEF Settled, PowerIsOn, PowerReturns, ReportReturn, Send, notice
<1>4. CASE Restart
  BY <1>4 DEF Restart, Begin
<1>5. CASE UNCHANGED vars
  BY <1>5 DEF vars, flags, notice
<1> QED
  BY <1>1, <1>2, <1>3, <1>4, <1>5 DEF Next

LEMMA NumbersStep == Numbers /\ [Next]_vars => Numbers'
<1> SUFFICES ASSUME Numbers, [Next]_vars PROVE Numbers'
  OBVIOUS
<1> USE DEF Numbers
<1>0. without + 1 \in Nat /\ since + 1 \in Nat /\ calm + 1 \in Nat
      /\ 0 \in 0..Late
  BY LateIsNat, SMT
<1>1. CASE Supply
  BY <1>1 DEF Supply, settings
<1>2. CASE Second
  BY <1>0, <1>2, CappedRange DEF Second, settings
<1>3. CASE Setting
  BY <1>3, PowerAssumption, SMT DEF Setting, PowerAssumption
<1>4. ASSUME PowerIsOn PROVE since' \in 0..Late
  BY <1>0, <1>4 DEF PowerIsOn, PowerReturns, ReportReturn
<1>5. CASE PowerControl
  <2>1. without' \in 0..Late /\ calm' \in 0..Late
    BY <1>0, <1>5, CappedRange DEF PowerControl, CheckPower
  <2>2. since' \in 0..Late
    BY <1>0, <1>4, <1>5 DEF PowerControl, PowerIsOff
  <2> QED
    BY <1>5, <2>1, <2>2 DEF PowerControl, settings
<1>6. CASE Settled
  BY <1>4, <1>6 DEF Settled, settings
<1>7. CASE Restart
  BY <1>0, <1>7 DEF Restart, Begin, settings
<1>8. CASE UNCHANGED vars
  BY <1>8 DEF vars, settings
<1> QED
  BY <1>1, <1>2, <1>3, <1>5, <1>6, <1>7, <1>8 DEF Next

LEMMA TypeStep == TypeOK /\ [Next]_vars => TypeOK'
<1>1. TypeOK' <=> Bools' /\ Numbers'
  BY DEF TypeOK, Bools, Numbers
<1> QED
  BY <1>1, TypeParts, BoolsStep, NumbersStep

\* The three ways in which a step sends a notice or touches the flags.
LEMMA FlagsStep == Inv /\ [Next]_vars => FlagsFollowNotices'
<1> SUFFICES ASSUME Inv, [Next]_vars PROVE FlagsFollowNotices'
  OBVIOUS
<1> USE DEF Inv, FlagsFollowNotices
<1>1. ASSUME PowerIsOn PROVE FlagsFollowNotices'
  BY <1>1 DEF PowerIsOn, PowerReturns, ReportReturn, Send, TypeOK, notice
<1>2. ASSUME PowerIsOff PROVE FlagsFollowNotices'
  BY <1>2 DEF PowerIsOff, ReportOutage, Send, TypeOK, notice
<1>3. ASSUME UNCHANGED <<timeOn, timeOff, reportOn, notice>>
      PROVE  FlagsFollowNotices'
  BY <1>3 DEF notice
<1>4. CASE PowerControl
  BY <1>4, <1>1, <1>2, <1>3 DEF PowerControl, flags
<1>5. CASE Settled
  BY <1>5, <1>1 DEF Settled
<1>6. CASE Restart
  BY <1>6 DEF Restart, Begin
<1> QED
  BY <1>3, <1>4, <1>5, <1>6
  DEF Next, Supply, Second, Setting, vars, flags

\* The type invariant and the agreement of the flags of power_control with the
\* notices it has sent, in every reachable state.
THEOREM FlagsFollowNoticesAlways == Spec => [](TypeOK /\ FlagsFollowNotices)
<1>1. Inv /\ [Next]_vars => Inv'
  BY TypeStep, FlagsStep DEF Inv
<1> QED
  BY InitInv, <1>1, PTL DEF Spec, Inv

\* The counters of power_control stay within the intervals that can be set.
THEOREM TypeCorrect == Spec => []TypeOK
BY FlagsFollowNoticesAlways, PTL

-----------------------------------------------------------------------------
\* A step of power_control sends no notice, or the one that is due.
LEMMA StepKeepsPromise ==
  Inv /\ [Next]_vars => [Promise!Next]_<<last, turn>>
<1> SUFFICES ASSUME Inv, [Next]_vars
             PROVE  Promise!Next \/ UNCHANGED <<last, turn>>
  OBVIOUS
<1> USE DEF Inv, FlagsFollowNotices, Promise!Next, Promise!Tell, Send
<1>1. ASSUME PowerIsOn PROVE Promise!Next \/ UNCHANGED <<last, turn>>
  BY <1>1 DEF PowerIsOn, PowerReturns, ReportReturn, notice
<1>2. ASSUME PowerIsOff PROVE Promise!Next \/ UNCHANGED <<last, turn>>
  BY <1>2 DEF PowerIsOff, ReportOutage, notice
<1>3. CASE PowerControl
  BY <1>3, <1>1, <1>2 DEF PowerControl, notice
<1>4. CASE Settled
  BY <1>4, <1>1 DEF Settled
<1>5. CASE Restart
  BY <1>5 DEF Restart, Promise!Restart
<1> QED
  BY <1>3, <1>4, <1>5 DEF Next, Supply, Second, Setting, vars, notice

\* power_control keeps the promise of Notice: outage and return are reported in
\* turn, beginning with an outage.
THEOREM PowerKeepsPromise == Spec => Alternates
<1>1. Init => Promise!Init
  BY DEF Init, Promise!Init
<1>2. Inv /\ [Next]_vars => Inv'
  BY TypeStep, FlagsStep DEF Inv
<1> QED
  BY InitInv, <1>1, <1>2, StepKeepsPromise, PTL
  DEF Spec, Alternates, Promise!Spec

-----------------------------------------------------------------------------
\* The interval of a report that is due began no earlier than the last check
\* that found no power with the reports of outages on.
SinceCalm == reportOn => since <= calm

LEMMA SinceCalmStep == Inv /\ SinceCalm /\ [Next]_vars => SinceCalm'
<1> SUFFICES ASSUME Inv, SinceCalm, [Next]_vars PROVE SinceCalm'
  OBVIOUS
<1> USE DEF SinceCalm
<1>0. since \in Nat /\ calm \in Nat
  BY LateIsNat, SMT DEF Inv, TypeOK
<1>1. ASSUME PowerIsOn
      PROVE  \/ since' = 0
             \/ since' = since /\ (reportOn' => reportOn)
  BY <1>1 DEF PowerIsOn, PowerReturns, ReportReturn
<1>2. CASE Second
  BY <1>0, <1>2, CappedKeepsOrder, SMT DEF Second, flags
<1>3. CASE PowerControl
  <2>0. without' \in Nat
    <3>1. Numbers'
      BY <1>3, NumbersStep, TypeParts DEF Inv, Next
    <3> QED
      BY <3>1, LateIsNat, SMT DEF Numbers
  <2>1. CASE without' > 0 /\ off # 0
    <3>1. since' = 0 /\ calm' = 0
      BY <1>3, <2>0, <2>1, SMT DEF PowerControl, PowerIsOff, CheckPower
    <3> QED
      BY <3>1, SMT
  <2>2. CASE ~(without' > 0 /\ off # 0)
    <3>1. calm' = calm
      BY <1>3, <2>2 DEF PowerControl, CheckPower
    <3>2. PowerIsOn \/ UNCHANGED <<since, reportOn>>
      BY <1>3, <2>0, <2>2, SMT DEF PowerControl, PowerIsOff, flags, settings, notice
    <3>3. CASE PowerIsOn
      BY <1>0, <1>1, <3>1, <3>3, SMT
    <3>4. CASE UNCHANGED <<since, reportOn>>
      BY <3>1, <3>4
    <3> QED
      BY <3>2, <3>3, <3>4
  <2> QED
    BY <2>1, <2>2
<1>4. CASE Settled
  BY <1>0, <1>1, <1>4, SMT DEF Settled
<1>5. CASE Restart
  BY <1>5 DEF Restart, Begin
<1> QED
  BY <1>2, <1>3, <1>4, <1>5 DEF Next, Supply, Setting, vars, flags

\* "External power is on." comes only when no check of its interval has found
\* the power gone, whatever an SMS sets and whenever the unit restarts.
THEOREM OnIsSettledAlways == Spec => OnIsSettled
<1>1. Init => SinceCalm
  BY SMT DEF Init, SinceCalm
<1>2. Inv /\ [Next]_vars => Inv'
  BY TypeStep, FlagsStep DEF Inv
<1>3. Inv /\ SinceCalm /\ [Next]_vars
        => [turn' # turn /\ last' = "on" => calm > Minute * on]_vars
  <2> SUFFICES ASSUME Inv, SinceCalm, Next, turn' # turn, last' = "on"
               PROVE  calm > Minute * on
    BY DEF vars, notice
  <2>0. since \in Nat /\ calm \in Nat /\ Minute * on \in Nat
    BY LateIsNat, PowerAssumption, SMT DEF Inv, TypeOK, PowerAssumption
  <2>1. ReportReturn
    BY DEF Next, Supply, Second, Setting, PowerControl, Settled, Restart,
           PowerIsOn, PowerReturns, PowerIsOff, ReportOutage, Send, notice
  <2> QED
    BY <2>0, <2>1, SMT DEF ReportReturn, SinceCalm
<1> QED
  BY InitInv, <1>1, <1>2, <1>3, SinceCalmStep, PTL DEF Spec, OnIsSettled
=============================================================================
