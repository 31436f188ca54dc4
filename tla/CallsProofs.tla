----------------------------- MODULE CallsProofs -----------------------------
(***************************************************************************)
(* Proofs about Calls, for every number of administrators, of attempts and *)
(* of places on the SIM card, and every limit.                             *)
(***************************************************************************)
EXTENDS Calls, TLAPS

-----------------------------------------------------------------------------
\* Types

Round == [void : BOOLEAN, silent : SUBSET Team, answered : SUBSET Team,
          written : SUBSET Team]

LEMMA RoundTypes ==
  ASSUME round \in Round, who \in Team, NEW f \in {"silent", "answered", "written"}
  PROVE  Noted(f) \in Round
BY DEF Noted, Round

LEMMA VoidType == VoidRound \in Round /\ NewRound \in Round
BY DEF VoidRound, NewRound, Round

LEMMA SubmitTypes ==
  ASSUME TypeOK, NEW r \in Results, Submit(r)
  PROVE  /\ registered' \in BOOLEAN /\ unsent' \in BOOLEAN /\ missed' \in BOOLEAN
         /\ sim' \in [Places -> {"free", "unsent", "received", "old"}]
<1>1. CASE UNCHANGED outbox
  BY <1>1 DEF TypeOK, Submit, Query, outbox
<1>2. CASE SaveSms(r) /\ deposit
  BY <1>2 DEF TypeOK, Submit, Query, SaveSms, Stored, outbox
<1> QED
  BY <1>1, <1>2 DEF Submit

\* The part of the types that the calls are about, and the rest.
CallTypes ==
  /\ alarm \in BOOLEAN /\ who \in 0..(Admins + 1) /\ dials \in 0..Dials
  /\ round \in Round
RestTypes ==
  /\ deposit \in BOOLEAN /\ registered \in BOOLEAN /\ unsent \in BOOLEAN
  /\ unread \in BOOLEAN /\ line \in BOOLEAN /\ missed \in BOOLEAN
  /\ cnt \in (-CharMax - 1)..CharMax
  /\ sim \in [Places -> {"free", "unsent", "received", "old"}]
  /\ pc \in Points /\ at \in 0..Slots
  /\ pc \in {"stored", "answer", "erase"} => at # 0

LEMMA TypesSplit ==
  /\ TypeOK <=> CallTypes /\ RestTypes
  /\ TypeOK' <=> CallTypes' /\ RestTypes'
BY DEF TypeOK, CallTypes, RestTypes, Round

\* An administrator is being called at these points.
Calling == pc \in {"dial", "ring", "sms", "talk"} => who \in Team
Started == pc = "next" => who >= 1

Types == TypeOK /\ Calling /\ Started

LEMMA InitTypes == Init => Types
<1> SUFFICES ASSUME Init PROVE Types
  OBVIOUS
<1>1. who \in 0..(Admins + 1) /\ dials \in 0..Dials /\ at \in 0..Slots
      /\ cnt \in (-CharMax - 1)..CharMax
  BY CallsAssumption DEF CallsAssumption, Init
<1>2. CallTypes
  BY VoidType, <1>1 DEF Init, CallTypes
<1>3. sim \in [Places -> {"free", "unsent", "received", "old"}]
  BY DEF Init
<1>4. RestTypes
  BY <1>1, <1>3 DEF Init, RestTypes, Points
<1> QED
  BY <1>2, <1>4, TypesSplit DEF Init, Types, Calling, Started

LEMMA CallStepTypes ==
  ASSUME Types,
         \/ AlarmPlayFile \/ CallTo \/ Dial \/ GiveUp \/ Answered \/ Unanswered
         \/ EndCall \/ EndCalls \/ BackToLoop
  PROVE  Types'
<1> USE CallsAssumption, VoidType
    DEF CallsAssumption, CallTypes, RestTypes, At, Goto, Points, HangUp, status, outbox, Team
<1>1. CallTypes /\ RestTypes
  BY TypesSplit DEF Types
<1>a. CASE AlarmPlayFile
  <2>1. CallTypes' /\ RestTypes'
    BY <1>1, <1>a DEF AlarmPlayFile
  <2> QED
    BY <2>1, <1>a, TypesSplit DEF Types, Calling, Started, AlarmPlayFile
<1>b. CASE CallTo
  <2>1. who' \in 0..(Admins + 1) /\ dials' \in 0..Dials
    BY <1>1, <1>b DEF CallTo
  <2>2. CallTypes' /\ RestTypes'
    BY <1>1, <2>1, <1>b DEF CallTo
  <2> QED
    BY <1>1, <2>2, <1>b, TypesSplit DEF Types, Calling, Started, CallTo
<1>c. CASE Dial
  <2>1. CallTypes' /\ RestTypes'
    BY <1>1, <1>c DEF Dial
  <2> QED
    BY <1>1, <2>1, <1>c, TypesSplit DEF Types, Calling, Started, Dial
<1>d. CASE GiveUp
  <2>1. CallTypes' /\ RestTypes'
    BY <1>1, <1>d DEF GiveUp, Types, Calling
  <2> QED
    BY <1>1, <2>1, <1>d, TypesSplit DEF Types, Calling, Started, GiveUp
<1>e. CASE Answered
  <2>1. who \in Team /\ round' \in Round
    BY <1>1, <1>e, RoundTypes DEF Types, Calling, Answered
  <2>2. CallTypes' /\ RestTypes'
    BY <1>1, <2>1, <1>e DEF Answered
  <2> QED
    BY <1>1, <2>1, <2>2, <1>e, TypesSplit DEF Types, Calling, Started, Answered
<1>f. CASE Unanswered
  <2>1. who \in Team /\ round' \in Round
    BY <1>1, <1>f, RoundTypes DEF Types, Calling, Unanswered
  <2>2. CallTypes' /\ RestTypes'
    BY <1>1, <2>1, <1>f DEF Unanswered
  <2> QED
    BY <1>1, <2>1, <2>2, <1>f, TypesSplit DEF Types, Calling, Started, Unanswered
<1>g. CASE EndCall
  <2>1. who' \in 0..(Admins + 1) /\ dials' \in 0..Dials
    BY <1>1, <1>g DEF EndCall, Types, Calling
  <2>2. CallTypes' /\ RestTypes'
    BY <1>1, <2>1, <1>g DEF EndCall
  <2> QED
    BY <1>1, <2>2, <1>g, TypesSplit DEF Types, Calling, Started, EndCall
<1>h. CASE EndCalls
  <2>1. CallTypes' /\ RestTypes'
    BY <1>1, <1>h DEF EndCalls
  <2> QED
    BY <2>1, <1>h, TypesSplit DEF Types, Calling, Started, EndCalls
<1>i. CASE BackToLoop
  <2>1. CallTypes' /\ RestTypes'
    BY <1>1, <1>i DEF BackToLoop
  <2> QED
    BY <2>1, <1>i, TypesSplit DEF Types, Calling, Started, BackToLoop
<1> QED
  BY <1>a, <1>b, <1>c, <1>d, <1>e, <1>f, <1>g, <1>h, <1>i

LEMMA SmsStepTypes ==
  ASSUME Types, SmsInstead
  PROVE  Types'
<1> USE DEF At, Goto, Points, SmsInstead
<1>1. CallTypes /\ RestTypes /\ who \in Team
  BY TypesSplit DEF Types, Calling
<1>2. /\ registered' \in BOOLEAN /\ unsent' \in BOOLEAN /\ missed' \in BOOLEAN
      /\ sim' \in [Places -> {"free", "unsent", "received", "old"}]
  BY <1>1, SubmitTypes DEF Types, RestTypes, outbox
<1>3. round' \in Round
  BY <1>1, VoidType, RoundTypes DEF CallTypes
<1>4. CallTypes' /\ RestTypes'
  BY <1>1, <1>2, <1>3 DEF CallTypes, RestTypes
<1> QED
  BY <1>1, <1>4, TypesSplit DEF Types, Calling, Started

\* What the program and the world do besides the calls.
Aside ==
  \/ CheckRegistration \/ ListUnsent \/ SendStored \/ Erase
  \/ GetSms \/ AnswerSms \/ Notice \/ IncomingCall \/ EndIncoming \/ Boot
  \/ Ussd \/ Report \/ RebootModem \/ Receive \/ HangsUp

\* It leaves the calls alone, and so the points at which they are made.
LEMMA AsideKeepsCalls ==
  ASSUME Aside
  PROVE  /\ UNCHANGED calls
         /\ \/ pc' = pc
            \/ {pc, pc'} \subseteq {"idle", "boot", "list", "stored", "answer",
                                   "erase", "incoming"}
BY DEF Aside, At, Goto, CheckRegistration, RegistrationFails, RegistrationOk,
   ListUnsent, SendStored, Erase, GetSms, AnswerSms, Notice, IncomingCall,
   EndIncoming, Boot, Ussd, Report, RebootModem, Receive, HangsUp

LEMMA CardTypes ==
  ASSUME RestTypes, ListUnsent \/ SendStored \/ Erase \/ GetSms \/ Boot \/ Receive
  PROVE  RestTypes'
<1> USE DEF RestTypes, At, Goto, Points, status, Places, Wipe, Unsent
<1>1. CASE ListUnsent
  <2>1. sim' \in [Places -> {"free", "unsent", "received", "old"}]
    BY <1>1 DEF ListUnsent
  <2>2. CASE \E s \in Unsent : at' = s /\ pc' = "stored"
    <3>1. at' \in 0..Slots /\ at' # 0
      BY <2>2, CallsAssumption DEF CallsAssumption
    <3> QED
      BY <1>1, <2>1, <2>2, <3>1 DEF ListUnsent
  <2>3. CASE pc' = "idle" /\ at' = at /\ unsent' = FALSE
    BY <1>1, <2>1, <2>3 DEF ListUnsent
  <2> QED
    BY <1>1, <2>2, <2>3 DEF ListUnsent
<1>2. CASE SendStored
  <2>1. sim' \in [Places -> {"free", "unsent", "received", "old"}]
    BY <1>2 DEF SendStored
  <2>2. at' \in 0..Slots
    BY <1>2, CallsAssumption DEF CallsAssumption, SendStored
  <2>3. pc' \in Points /\ (pc' \in {"stored", "answer", "erase"} => at' # 0)
    BY <1>2 DEF SendStored
  <2> QED
    BY <1>2, <2>1, <2>2, <2>3 DEF SendStored
<1>3. CASE Erase
  BY <1>3, CallsAssumption DEF CallsAssumption, Erase
<1>4. CASE GetSms
  <2>1. sim' \in [Places -> {"free", "unsent", "received", "old"}]
    BY <1>4 DEF GetSms
  <2>2. CASE \E s \in Places : at' = s /\ pc' = "answer"
    <3>1. at' \in 0..Slots /\ at' # 0
      BY <2>2, CallsAssumption DEF CallsAssumption
    <3> QED
      BY <1>4, <2>1, <2>2, <3>1 DEF GetSms
  <2>3. CASE UNCHANGED <<pc, at>>
    BY <1>4, <2>1, <2>3 DEF GetSms
  <2> QED
    BY <1>4, <2>2, <2>3 DEF GetSms
<1>5. CASE Boot
  BY <1>5 DEF Boot
<1>6. CASE Receive
  BY <1>6 DEF Receive
<1> QED
  BY <1>1, <1>2, <1>3, <1>4, <1>5, <1>6

LEMMA AsideTypes ==
  ASSUME Types, Aside
  PROVE  Types'
<1> USE DEF RestTypes, At, Goto, Points, status, outbox, HangUp, Query
<1>1. CallTypes /\ RestTypes
  BY TypesSplit DEF Types
<1>2. CallTypes'
  BY <1>1, AsideKeepsCalls DEF CallTypes, calls
<1>3. RestTypes'
  <2>1. CASE RegistrationFails
    <3>1. Increment \in (-CharMax - 1)..CharMax
      BY <1>1, CallsAssumption DEF CallsAssumption, Increment
    <3> QED
      BY <1>1, <2>1, <3>1 DEF RegistrationFails
  <2>2. CASE RegistrationOk
    <3>1. cnt' \in (-CharMax - 1)..CharMax
      BY <2>2, CallsAssumption DEF CallsAssumption, RegistrationOk
    <3> QED
      BY <1>1, <2>2, <3>1 DEF RegistrationOk
  <2>3. CASE ListUnsent \/ SendStored \/ Erase \/ GetSms \/ Boot \/ Receive
    BY <1>1, <2>3, CardTypes
  <2>4. CASE AnswerSms \/ Notice \/ Report
    <3>1. /\ registered' \in BOOLEAN /\ unsent' \in BOOLEAN /\ missed' \in BOOLEAN
          /\ sim' \in [Places -> {"free", "unsent", "received", "old"}]
      BY <1>1, <2>4, SubmitTypes DEF Types, AnswerSms, Notice, Report
    <3> QED
      BY <1>1, <2>4, <3>1 DEF AnswerSms, Notice, Report
  <2>5. CASE IncomingCall \/ EndIncoming \/ HangsUp
    BY <1>1, <2>5 DEF IncomingCall, EndIncoming, HangsUp
  <2>6. CASE Ussd \/ RebootModem
    BY <1>1, <2>6 DEF Ussd, RebootModem
  <2> QED
    BY <2>1, <2>2, <2>3, <2>4, <2>5, <2>6 DEF Aside, CheckRegistration
<1>4. Calling' /\ Started'
  BY AsideKeepsCalls DEF Types, Calling, Started, calls, Team
<1> QED
  BY <1>2, <1>3, <1>4, TypesSplit DEF Types

LEMMA RestartTypes ==
  ASSUME Types, Restart
  PROVE  Types'
<1> USE DEF Restart, Goto
<1>1. /\ who' \in 0..(Admins + 1) /\ dials' \in 0..Dials /\ at' \in 0..Slots
      /\ cnt' \in (-CharMax - 1)..CharMax
  BY CallsAssumption DEF CallsAssumption
<1>2. CallTypes /\ RestTypes
  BY TypesSplit DEF Types
<1>3. CallTypes'
  BY <1>1, VoidType DEF CallTypes
<1>4. RestTypes'
  BY <1>1, <1>2 DEF RestTypes, Points
<1> QED
  BY <1>3, <1>4, TypesSplit DEF Types, Calling, Started

\* One step: a call, its SMS, something beside them, or a restart.
CallStep == \/ AlarmPlayFile \/ CallTo \/ Dial \/ GiveUp \/ Answered
            \/ Unanswered \/ EndCall \/ EndCalls \/ BackToLoop

LEMMA NextSplit == Next => CallStep \/ SmsInstead \/ Aside \/ Restart
BY DEF Next, Busy, CallStep, Aside, CheckRegistration

LEMMA TypesStep == Types /\ [Next]_vars => Types'
<1> SUFFICES ASSUME Types, [Next]_vars PROVE Types'
  OBVIOUS
<1>1. CASE CallStep
  BY <1>1, CallStepTypes DEF CallStep
<1>2. CASE SmsInstead
  BY <1>2, SmsStepTypes
<1>3. CASE Aside
  BY <1>3, AsideTypes
<1>4. CASE Restart
  BY <1>4, RestartTypes
<1>5. CASE UNCHANGED vars
  BY <1>5 DEF vars, status, outbox, calls, Types, TypeOK, Calling, Started, Team
<1> QED
  BY <1>1, <1>2, <1>3, <1>4, <1>5, NextSplit

\* The state of calls, modem and SIM card keeps its types.
THEOREM TypeCorrect == Spec => []TypeOK
<1>1. Types => TypeOK
  BY DEF Types
<1> QED
  BY InitTypes, TypesStep, <1>1, PTL DEF Spec

-----------------------------------------------------------------------------
\* SMS on the card

\* A new SMS on the card raises unsent_sms, or its OK was missed.
LEMMA SubmitKnown ==
  ASSUME StoredSmsKnown, NEW r \in Results, Submit(r)
  PROVE  StoredSmsKnown'
<1>1. CASE UNCHANGED outbox
  BY <1>1 DEF StoredSmsKnown, Unsent, outbox
<1>2. CASE SaveSms(r)
  <2>1. PICK new \in SUBSET Places :
          /\ Stored(new)
          /\ \/ unsent' = TRUE
             \/ unsent' = unsent /\ missed' = (missed \/ (new # {} /\ ~unsent))
    BY <1>2 DEF SaveSms
  <2>2. Unsent' \subseteq Unsent \cup new
    BY <2>1 DEF Stored, Unsent
  <2>3. CASE unsent'
    BY <2>3 DEF StoredSmsKnown
  <2>4. CASE unsent' = unsent /\ missed' = (missed \/ (new # {} /\ ~unsent))
    <3>1. Unsent' # {} => Unsent # {} \/ new # {}
      BY <2>2
    <3> QED
      BY <2>4, <3>1, Zenon DEF StoredSmsKnown
  <2> QED
    BY <2>1, <2>3, <2>4
<1> QED
  BY <1>1, <1>2 DEF Submit

\* What wipes the card, reads from it or receives leaves no SMS unsent that was
\* not so before; only a missing list clears unsent_sms.
LEMMA CardKnown ==
  ASSUME TypeOK, StoredSmsKnown,
         ListUnsent \/ SendStored \/ Erase \/ GetSms \/ Boot \/ Receive
  PROVE  StoredSmsKnown'
<1> USE DEF StoredSmsKnown, Unsent, TypeOK
<1>0. CASE (unsent' = unsent /\ missed' = missed) /\ Unsent' \subseteq Unsent
  BY <1>0
<1>1. CASE ListUnsent
  <2>1. Unsent' \subseteq Unsent
    BY <1>1 DEF ListUnsent, Wipe
  <2> QED
    BY <1>1, <2>1 DEF ListUnsent
<1>2. CASE SendStored
  <2>1. Unsent' \subseteq Unsent
    BY <1>2 DEF SendStored
  <2> QED
    BY <1>2, <2>1 DEF SendStored
<1>3. CASE Erase
  <2>1. Unsent' \subseteq Unsent
    BY <1>3 DEF Erase
  <2> QED
    BY <1>3, <2>1 DEF Erase
<1>4. CASE GetSms
  <2>1. Unsent' \subseteq Unsent
    BY <1>4 DEF GetSms, Wipe
  <2> QED
    BY <1>4, <2>1 DEF GetSms
<1>5. CASE Boot
  <2>1. Unsent' \subseteq Unsent
    BY <1>5 DEF Boot, Wipe
  <2> QED
    BY <1>5, <2>1 DEF Boot
<1>6. CASE Receive
  <2>1. Unsent' \subseteq Unsent
    BY <1>6 DEF Receive
  <2> QED
    BY <1>6, <2>1 DEF Receive
<1> QED
  BY <1>1, <1>2, <1>3, <1>4, <1>5, <1>6

LEMMA KnownStep == TypeOK /\ StoredSmsKnown /\ [Next]_vars => StoredSmsKnown'
<1> SUFFICES ASSUME TypeOK, StoredSmsKnown, [Next]_vars PROVE StoredSmsKnown'
  OBVIOUS
<1>0. ASSUME UNCHANGED outbox PROVE StoredSmsKnown'
  BY <1>0 DEF StoredSmsKnown, Unsent, outbox
<1>1. CASE CallStep
  BY <1>0, <1>1 DEF CallStep, AlarmPlayFile, CallTo, Dial, GiveUp, Answered,
     Unanswered, EndCall, EndCalls, BackToLoop
<1>2. CASE SmsInstead
  BY <1>0, <1>2, SubmitKnown DEF SmsInstead
<1>3. CASE ListUnsent \/ SendStored \/ Erase \/ GetSms \/ Boot \/ Receive
  BY <1>3, CardKnown
<1>4. CASE AnswerSms \/ Notice \/ Report
  BY <1>0, <1>4, SubmitKnown DEF AnswerSms, Notice, Report
<1>5. CASE \/ CheckRegistration \/ IncomingCall \/ EndIncoming
           \/ Ussd \/ RebootModem \/ HangsUp
  BY <1>0, <1>5 DEF CheckRegistration, RegistrationFails, RegistrationOk,
     IncomingCall, EndIncoming, Ussd, RebootModem, HangsUp
<1>6. CASE Restart
  BY <1>6 DEF Restart, StoredSmsKnown
<1>7. CASE UNCHANGED vars
  BY <1>0, <1>7 DEF vars
<1> QED
  BY <1>1, <1>2, <1>3, <1>4, <1>5, <1>6, <1>7, NextSplit DEF Aside

\* No SMS lies on the card unknown to send_unsent_sms, but for a list or an OK
\* that was not received.
THEOREM StoredSmsAlways == Spec => []StoredSmsKnown
<1>1. Init => StoredSmsKnown
  BY DEF Init, StoredSmsKnown
<1>2. Types => TypeOK
  BY DEF Types
<1> QED
  BY InitTypes, TypesStep, <1>1, <1>2, KnownStep, PTL DEF Spec

-----------------------------------------------------------------------------
\* Who is told of an alarm

Least(S) == {a \in S : \A b \in S : a <= b}
Heard == round.silent \cup round.answered

\* Of those before the one who is being called each has been heard of, and
\* flag_alarm is there until the first silent one has got the SMS.
Told ==
  /\ pc \in {"next", "dial", "ring", "talk"} =>
       (alarm <=> round.silent = {}) /\ round.written = Least(round.silent)
  /\ pc = "sms" =>
       /\ who \in round.silent
       /\ alarm => round.silent = {who} /\ round.written = {}
       /\ ~alarm => round.written = Least(round.silent)
  /\ pc \in {"next", "dial", "ring", "sms", "talk"} => 1..(who - 1) \subseteq Heard
  /\ pc \in {"dial", "ring", "sms", "talk"} => \A a \in round.silent : a <= who
  /\ pc = "next" => \A a \in round.silent : a < who
  /\ pc = "dial" /\ dials >= SmsDial => who \in round.silent
  /\ pc = "ring" /\ dials > SmsDial => who \in round.silent
  /\ pc = "talk" => who \in round.answered
  /\ pc = "over" => Heard = Team /\ round.written = Least(round.silent)

TheyAreTold == ~round.void => Told

\* One more who is silent after the others does not change who was the first.
LEMMA LeastFirst ==
  ASSUME NEW S \in SUBSET Nat, NEW w \in Nat, \A a \in S : a <= w
  PROVE  /\ S # {} => Least(S \cup {w}) = Least(S)
         /\ Least({w}) = {w} /\ Least({}) = {}
<1>1. ASSUME S # {} PROVE Least(S \cup {w}) = Least(S)
  <2>1. ASSUME NEW a \in Least(S \cup {w}) PROVE a \in Least(S)
    <3>1. \A b \in S : a <= b
      BY <2>1 DEF Least
    <3>2. CASE a = w
      <4>1. PICK b \in S : TRUE
        BY <1>1
      <4>2. w <= b /\ b <= w /\ b \in Nat
        BY <3>1, <3>2, <4>1
      <4>3. b = w
        BY <4>2
      <4> QED
        BY <3>1, <3>2, <4>1, <4>3 DEF Least
    <3>3. CASE a \in S
      BY <3>1, <3>3 DEF Least
    <3> QED
      BY <2>1, <3>2, <3>3 DEF Least
  <2>2. ASSUME NEW a \in Least(S) PROVE a \in Least(S \cup {w})
    BY <2>2 DEF Least
  <2> QED
    BY <2>1, <2>2
<1>2. Least({w}) = {w} /\ Least({}) = {}
  BY DEF Least
<1> QED
  BY <1>1, <1>2

LEMMA VoidIsTold ==
  ASSUME round' = VoidRound
  PROVE  TheyAreTold'
BY DEF TheyAreTold, VoidRound, NewRound

LEMMA TeamUpTo ==
  ASSUME NEW n \in Nat
  PROVE  1..((n + 1) - 1) = (1..(n - 1)) \cup (IF n = 0 THEN {} ELSE {n})
OBVIOUS

LEMMA CallStepTold ==
  ASSUME Types, TheyAreTold, CallStep
  PROVE  TheyAreTold'
<1> USE DEF At, Goto
<1>0. /\ who \in Nat /\ dials \in 0..Dials /\ Admins \in Nat
      /\ round \in Round /\ alarm \in BOOLEAN
      /\ Dials \in Nat /\ SmsDial \in 1..Dials
  BY TypesSplit, CallsAssumption DEF CallsAssumption, Types, CallTypes
<1> SUFFICES ASSUME round' # VoidRound, ~round'.void PROVE Told'
  BY VoidIsTold DEF TheyAreTold
<1>a. CASE AlarmPlayFile
  <2>1. round' = NewRound /\ alarm' = TRUE /\ who' = 1 /\ pc' = "next"
    BY <1>a DEF AlarmPlayFile
  <2> QED
    BY <2>1 DEF Told, NewRound, Least, Heard
<1>b. CASE CallTo
  <2>1. Told /\ UNCHANGED <<round, alarm, who>> /\ pc = "next" /\ pc' = "dial"
        /\ dials' = 0
    BY <1>b DEF CallTo, TheyAreTold
  <2>2. ~(dials' >= SmsDial)
    BY <1>0, <2>1
  <2>3. \A a \in round.silent : a <= who
    BY <1>0, <2>1 DEF Told, Round, Team
  <2> QED
    BY <2>1, <2>2, <2>3 DEF Told, Heard
<1>c. CASE Dial
  <2>1. UNCHANGED <<round, alarm, who>> /\ pc = "dial"
        /\ dials' = dials + 1
    BY <1>c DEF Dial
  <2>3. Told /\ (pc' = "ring" \/ (pc' = "dial" /\ dials' # SmsDial))
    BY <1>c, <2>1 DEF Dial, TheyAreTold
  <2>2. dials' > SmsDial => who \in round.silent
    BY <1>0, <2>1, <2>3 DEF Told
  <2>4. pc' = "dial" /\ dials' >= SmsDial => who \in round.silent
    BY <1>0, <2>1, <2>2, <2>3
  <2> QED
    BY <2>1, <2>2, <2>3, <2>4 DEF Told, Heard
<1>d. CASE GiveUp
  <2>1. Told /\ UNCHANGED <<round, alarm>> /\ pc = "dial" /\ pc' = "next"
        /\ who' = who + 1 /\ who \in Team
    BY <1>d DEF GiveUp, TheyAreTold, Types, Calling
  <2>2. who \in round.silent
    BY <1>0, <1>d DEF GiveUp, Told, TheyAreTold
  <2>3. \A a \in round.silent : a < who + 1
    BY <1>0, <2>1 DEF Told, Round, Team
  <2> QED
    BY <1>0, <2>1, <2>2, <2>3, TeamUpTo DEF Told, Heard
<1>e. CASE Answered
  <2>1. Told /\ UNCHANGED <<alarm, who>> /\ pc = "ring" /\ pc' = "talk"
        /\ round' = [round EXCEPT !["answered"] = @ \cup {who}]
    BY <1>e DEF Answered, TheyAreTold, Noted
  <2>2. round'.silent = round.silent /\ round'.written = round.written
        /\ round'.answered = round.answered \cup {who}
    BY <1>0, <2>1 DEF Round
  <2> QED
    BY <1>0, <2>1, <2>2 DEF Told, Heard, Least
<1>f. CASE Unanswered /\ dials # SmsDial
  <2>1. Told /\ UNCHANGED <<round, alarm, who, dials>> /\ pc = "ring"
        /\ pc' = "dial"
    BY <1>f DEF Unanswered, TheyAreTold
  <2> QED
    BY <1>0, <1>f, <2>1 DEF Told, Heard
<1>g. CASE Unanswered /\ dials = SmsDial
  <2>1. Told /\ UNCHANGED <<alarm, who>> /\ pc = "ring" /\ pc' = "sms"
        /\ round' = [round EXCEPT !["silent"] = @ \cup {who}]
    BY <1>g DEF Unanswered, TheyAreTold, Noted
  <2>2. round'.silent = round.silent \cup {who} /\ round'.written = round.written
        /\ round'.answered = round.answered
    BY <1>0, <2>1 DEF Round
  <2>3. round.silent \in SUBSET Nat /\ \A a \in round.silent : a <= who
    BY <1>0, <2>1 DEF Told, Round, Team
  <2>4. /\ round.silent # {} => Least(round'.silent) = Least(round.silent)
        /\ Least({}) = {}
    BY <1>0, <2>2, <2>3, LeastFirst
  <2>5. /\ alarm' => round'.silent = {who} /\ round'.written = {}
        /\ ~alarm' => round'.written = Least(round'.silent)
    BY <2>1, <2>2, <2>4 DEF Told
  <2> QED
    BY <1>0, <2>1, <2>2, <2>3, <2>5 DEF Told, Heard
<1>h. CASE EndCall
  <2>1. Told /\ UNCHANGED <<round, alarm>> /\ pc = "talk" /\ pc' = "next"
        /\ who' = who + 1 /\ who \in Team
    BY <1>h DEF EndCall, TheyAreTold, Types, Calling
  <2>2. \A a \in round.silent : a < who + 1
    BY <1>0, <2>1 DEF Told, Round, Team
  <2> QED
    BY <1>0, <2>1, <2>2, TeamUpTo DEF Told, Heard
<1>i. CASE EndCalls
  <2>1. Told /\ UNCHANGED <<round, who>> /\ pc = "next" /\ pc' = "over"
        /\ who > Admins
    BY <1>i DEF EndCalls, TheyAreTold
  <2>2. Team \subseteq 1..(who - 1) /\ Heard \subseteq Team
    BY <1>0, <2>1 DEF Team, Heard, Round
  <2> QED
    BY <2>1, <2>2 DEF Told, Heard, Team
<1>j. CASE BackToLoop
  BY <1>j DEF BackToLoop
<1> QED
  BY <1>a, <1>b, <1>c, <1>d, <1>e, <1>f, <1>g, <1>h, <1>i, <1>j
  DEF CallStep

LEMMA SmsStepTold ==
  ASSUME Types, TheyAreTold, SmsInstead
  PROVE  TheyAreTold'
<1> USE DEF At, Goto, SmsInstead
<1>0. who \in Team /\ who \in Nat /\ round \in Round /\ dials \in Nat
      /\ dials' = dials /\ who' = who /\ pc = "sms" /\ pc' = "dial" /\ alarm' = FALSE
  BY TypesSplit, CallsAssumption
  DEF CallsAssumption, Types, CallTypes, Calling, Team
<1> SUFFICES ASSUME round' # VoidRound, ~round'.void PROVE Told'
  BY VoidIsTold DEF TheyAreTold
<1>1. CASE ~alarm
  <2>1. round' = round /\ Told
    BY <1>1 DEF TheyAreTold
  <2> QED
    BY <1>0, <1>1, <2>1 DEF Told, Heard
<1>2. CASE alarm
  <2>1. Told /\ round' = [round EXCEPT !["written"] = @ \cup {who}]
    BY <1>2 DEF TheyAreTold, Noted
  <2>2. round'.silent = round.silent /\ round'.answered = round.answered
        /\ round'.written = round.written \cup {who}
    BY <1>0, <2>1 DEF Round
  <2>3. round'.silent = {who} /\ round'.written = {who}
    BY <1>0, <1>2, <2>1, <2>2 DEF Told
  <2>4. Least({who}) = {who}
    BY <1>0 DEF Least
  <2> QED
    BY <1>0, <2>1, <2>2, <2>3, <2>4 DEF Told, Heard
<1> QED
  BY <1>1, <1>2

LEMMA ToldStep == Types /\ TheyAreTold /\ [Next]_vars => TheyAreTold'
<1> SUFFICES ASSUME Types, TheyAreTold, [Next]_vars PROVE TheyAreTold'
  OBVIOUS
<1>1. CASE CallStep
  BY <1>1, CallStepTold
<1>2. CASE SmsInstead
  BY <1>2, SmsStepTold
<1>3. CASE Aside
  BY <1>3, AsideKeepsCalls DEF TheyAreTold, Told, Heard, Least, calls, Team
<1>4. CASE Restart
  BY <1>4, VoidIsTold DEF Restart
<1>5. CASE UNCHANGED vars
  BY <1>5 DEF TheyAreTold, Told, Heard, Least, calls, vars, Team
<1> QED
  BY <1>1, <1>2, <1>3, <1>4, <1>5, NextSplit

\* After the calls everybody has answered or been silent, and the first silent
\* administrator has got an SMS, unless modem, network or deposit failed.
THEOREM SilentAdminAlways == Spec => []SilentAdminGetsSms
<1>1. Init => TheyAreTold
  BY DEF Init, TheyAreTold, VoidRound, NewRound
<1>2. TheyAreTold => SilentAdminGetsSms
  BY DEF TheyAreTold, Told, Heard, Least, SilentAdminGetsSms, At
<1> QED
  BY InitTypes, TypesStep, <1>1, <1>2, ToldStep, PTL DEF Spec

-----------------------------------------------------------------------------
\* The calls come to an end.

\* From one attempt to the next the points are passed in this order.
Rank == [next |-> 0, ring |-> 1, sms |-> 2, dial |-> 3, talk |-> 3, over |-> 4]
InRound == pc \in DOMAIN Rank

\* The next administrator, the next attempt, or a later point of this one.
Further ==
  \/ who' > who
  \/ who' = who /\ dials' > dials
  \/ who' = who /\ dials' = dials /\ pc' \in DOMAIN Rank /\ Rank[pc'] > Rank[pc]

\* Each step of the calls leads further or to their end; whatever else happens
\* in their waits leaves them where they are, or restarts the unit.
CallsAdvance ==
  [][InRound => IF Busy THEN Further \/ pc' = "idle"
                        ELSE UNCHANGED <<pc, who, dials>> \/ pc' = "boot"]_vars

\* The attempts are counted from 0 for each administrator.
CountedFromZero == pc \notin {"dial", "ring", "sms", "talk"} => dials = 0

LEMMA Counted == Types /\ CountedFromZero /\ [Next]_vars => CountedFromZero'
<1> SUFFICES ASSUME Types, CountedFromZero, [Next]_vars PROVE CountedFromZero'
  OBVIOUS
<1> USE DEF CountedFromZero, At, Goto
<1>1. CASE CallStep
  BY <1>1 DEF CallStep, AlarmPlayFile, CallTo, Dial, GiveUp, Answered, Unanswered,
              EndCall, EndCalls, BackToLoop
<1>2. CASE SmsInstead
  BY <1>2 DEF SmsInstead
<1>3. CASE Aside
  BY <1>3, AsideKeepsCalls DEF calls
<1>4. CASE Restart
  BY <1>4 DEF Restart
<1>5. CASE UNCHANGED vars
  BY <1>5 DEF vars, calls
<1> QED
  BY <1>1, <1>2, <1>3, <1>4, <1>5, NextSplit

LEMMA Ranks ==
  /\ DOMAIN Rank = {"next", "ring", "sms", "dial", "talk", "over"}
  /\ Rank["next"] = 0 /\ Rank["ring"] = 1 /\ Rank["sms"] = 2
  /\ Rank["dial"] = 3 /\ Rank["talk"] = 3 /\ Rank["over"] = 4
BY DEF Rank

\* A step of the calls.
LEMMA BusyFurther ==
  ASSUME Types, CountedFromZero, InRound, Busy
  PROVE  Further \/ pc' = "idle"
<1>0. who \in Nat /\ dials \in Nat
  BY CallsAssumption, SMT DEF Types, TypeOK, CallsAssumption
<1> USE DEF At, Goto
<1>1. CASE CallTo
  <2>1. who' = who + 1 \/ (who' = who /\ dials' = dials /\ pc = "next" /\ pc' = "dial")
    BY <1>1 DEF CallTo, CountedFromZero
  <2> QED
    BY <1>0, <2>1, Ranks, SMT DEF Further
<1>2. CASE Dial
  BY <1>0, <1>2, SMT DEF Dial, Further
<1>3. CASE GiveUp \/ EndCall
  BY <1>0, <1>3, SMT DEF GiveUp, EndCall, Further
<1>4. CASE Answered \/ Unanswered
  <2>1. who' = who /\ dials' = dials /\ pc = "ring" /\ pc' \in {"talk", "sms", "dial"}
    BY <1>4 DEF Answered, Unanswered
  <2> QED
    BY <2>1, Ranks, SMT DEF Further
<1>5. CASE SmsInstead \/ EndCalls
  <2>1. /\ who' = who /\ dials' = dials
        /\ <<pc, pc'>> \in {<<"sms", "dial">>, <<"next", "over">>}
    BY <1>5 DEF SmsInstead, EndCalls
  <2> QED
    BY <2>1, Ranks, SMT DEF Further
<1>6. CASE BackToLoop
  BY <1>6 DEF BackToLoop
<1>7. CASE ListUnsent \/ SendStored \/ Erase \/ AnswerSms \/ EndIncoming \/ Boot
  BY <1>7, Ranks DEF ListUnsent, SendStored, Erase, AnswerSms, EndIncoming, Boot, InRound
<1> QED
  BY <1>1, <1>2, <1>3, <1>4, <1>5, <1>6, <1>7 DEF Busy

\* Nothing keeps the unit calling for ever (alarm_play_file and call_to,
\* GSM.c): with who and dials within the limits of TypeCorrect, each step of a
\* round of calls raises (who, dials, point), in lexicographic order, or ends
\* it, and nothing that is done inside the waits sets it back, for all numbers
\* of administrators and attempts.
THEOREM CallsEnd == Spec => CallsAdvance
<1> DEFINE Good == InRound => IF Busy THEN Further \/ pc' = "idle"
                              ELSE UNCHANGED <<pc, who, dials>> \/ pc' = "boot"
<1>1. Init => CountedFromZero
  BY DEF Init, CountedFromZero
<1>2. Types /\ CountedFromZero /\ [Next]_vars => [Good]_vars
  <2>1. SUFFICES ASSUME Types, CountedFromZero, Next, InRound, ~Busy
                 PROVE  UNCHANGED <<pc, who, dials>> \/ pc' = "boot"
    BY BusyFurther
  <2>2. CASE Restart
    BY <2>2 DEF Restart, Goto
  <2>3. CASE Aside
    BY <2>1, <2>3, AsideKeepsCalls, Ranks DEF InRound, calls
  <2>4. CASE AlarmPlayFile
    BY <2>1, <2>4, Ranks DEF AlarmPlayFile, At, InRound
  <2> QED
    BY <2>1, <2>2, <2>3, <2>4 DEF Next, Aside
<1> QED
  BY InitTypes, TypesStep, Counted, <1>1, <1>2, PTL DEF Spec, CallsAdvance
=============================================================================
