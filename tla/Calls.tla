-------------------------------- MODULE Calls --------------------------------
(***************************************************************************)
(* How an alarm leaves the unit (GSM.c): the calls of alarm_play_file and  *)
(* call_to with the SMS that stands in for them, the SMS that could not be *)
(* sent and wait on the SIM card (save_sms_sim, send_unsent_sms), and what *)
(* else uses the modem and the card: received SMS, incoming calls, the     *)
(* check of the registration and restarts of modem and unit.               *)
(*                                                                         *)
(* What the modem and the network answer is left open.  The texts of the   *)
(* SMS and the audio files are left out.                                   *)
(***************************************************************************)
EXTENDS Integers, FiniteSets

CONSTANTS
  Admins,    \* administrators with a number; they are called in this order
  Dials,     \* attempts to reach one of them, 4 in call_to
  SmsDial,   \* the attempt after which an SMS is sent, 3 in call_to
  Slots,     \* places for SMS on the SIM card
  Tries,     \* attempts to store an SMS on it, 10 in save_sms_sim
  MaxIndex,  \* send_unsent_sms wipes the card for an index above it, 10
  Fails,     \* failed checks of the registration that reset the modem, 5
  CharMax    \* largest value of a char, 127

ASSUME CallsAssumption ==
  /\ Admins \in Nat /\ Slots \in Nat /\ Tries \in Nat /\ MaxIndex \in Nat
  /\ Dials \in Nat /\ SmsDial \in 1..Dials
  /\ CharMax \in Nat /\ Fails \in 1..CharMax

VARIABLES
  deposit,     \* deposit >= 1
  registered,  \* registered_in_gsm_network
  cnt,         \* failed checks in check_registration, a signed char
  unsent,      \* unsent_sms
  unread,      \* unread_sms
  sim,         \* the SIM card, external: what each place holds
  line,        \* external: a voice call is connected
  alarm,       \* flag_alarm names an alarm for which there is an SMS
  pc,          \* point of the main program
  who, dials,  \* i of alarm_play_file, from 1, and i of call_to
  at,          \* index of the SMS being sent or read, 0 for none
  round,       \* history: what became of the administrators in these calls
  missed       \* history: an answer about SMS on the card was not received

status == <<deposit, registered, cnt>>
outbox == <<unsent, sim, missed>>
calls == <<alarm, who, dials, round>>
vars == <<status, outbox, unread, line, calls, pc, at>>

Places == 1..Slots
Team == 1..Admins
Points == {"boot", "idle", "next", "dial", "ring", "sms", "talk", "over",
           "list", "stored", "answer", "erase", "incoming"}
At(p) == pc = p
Goto(p) == pc' = p

\* The history of a round; a void one is not about an alarm or was spoilt by
\* the modem, the network or the deposit, and nothing more is noted of it.
NewRound == [void |-> FALSE, silent |-> {}, answered |-> {}, written |-> {}]
VoidRound == [NewRound EXCEPT !.void = TRUE]
Noted(field) ==
  IF round.void THEN round ELSE [round EXCEPT ![field] = @ \cup {who}]

Unsent == {s \in Places : sim[s] = "unsent"}

-----------------------------------------------------------------------------
\* The modem

\* registration_status_ms: without an answer in time it fails and leaves the
\* variable as it was.
Query(ok) == registered' \in IF ok THEN {TRUE} ELSE {FALSE, registered}

\* hang_up_call gives up after five tries.
HangUp == line' \in {FALSE, line}

\* delete_all_sms
Wipe == sim' \in {sim, [s \in Places |-> "free"]}

\* Copies of an SMS that the tries of save_sms_sim leave on the card.
Stored(new) ==
  /\ new \subseteq {s \in Places : sim[s] = "free"} /\ Cardinality(new) <= Tries
  /\ sim' = [s \in Places |-> IF s \in new THEN "unsent" ELSE sim[s]]

\* Mutant: a stored SMS is not announced to send_unsent_sms.
SaveSmsQuietly(result) ==
  \E new \in SUBSET Places : Stored(new) /\ UNCHANGED <<unsent, missed>>

\* save_sms_sim: "stored" when the last of its tries is answered in time.  The
\* SMS may be on the card all the same when an OK is late or lost, once for
\* each try; unsent_sms is then set by a later try that succeeds, or not at all.
SaveSms(result) ==
  \E new \in SUBSET Places :
    /\ Stored(new)
    /\ \/ result = "stored" /\ new # {} /\ unsent' = TRUE /\ missed' = FALSE
       \/ /\ result = "lost" /\ UNCHANGED unsent
          /\ missed' = (missed \/ (new # {} /\ ~unsent))

\* send_sms, send_sms_p: sent, stored on the card, or lost.  One that waited too
\* long for +CMGS is stored although it may have been sent.
Submit(result) ==
  \/ ~deposit /\ result = "lost" /\ UNCHANGED <<registered, outbox>>
  \/ /\ deposit
     /\ \/ Query(TRUE) /\ result = "sent" /\ UNCHANGED outbox
        \/ (\E ok \in BOOLEAN : Query(ok)) /\ SaveSms(result)

Results == {"sent", "stored", "lost"}

-----------------------------------------------------------------------------
\* alarm_play_file and call_to

\* send_alarm_signal_if_needed, or the announcement of guard_timer, for which
\* there is no SMS unless a temperature alarm waits in flag_alarm.  Without a
\* deposit nothing is done and the alarm is over.
AlarmPlayFile ==
  /\ At("idle") /\ deposit
  /\ alarm' \in BOOLEAN
  /\ who' = 1 /\ round' = IF alarm' THEN NewRound ELSE VoidRound
  /\ Goto("next")
  /\ UNCHANGED <<status, outbox, unread, line, dials, at>>

\* The entry of call_to.
CallTo ==
  /\ At("next") /\ who <= Admins
  /\ HangUp
  /\ \/ /\ deposit /\ registered
        /\ dials' = 0
        /\ Goto("dial")
        /\ UNCHANGED <<who, round>>
     \/ /\ ~(deposit /\ registered)
        /\ who' = who + 1
        /\ round' = VoidRound
        /\ UNCHANGED <<dials, pc>>
  /\ UNCHANGED <<status, outbox, unread, alarm, at>>

\* Mutant: the loop of call_to runs once more.
DialTooOften ==
  /\ At("dial") /\ dials <= Dials
  /\ dials' = dials + 1
  /\ \/ Goto("ring") /\ UNCHANGED round
     \/ /\ round' = IF dials' = SmsDial THEN VoidRound ELSE round
        /\ UNCHANGED pc
  /\ UNCHANGED <<status, outbox, unread, line, alarm, who, at>>

Dial ==
  /\ At("dial") /\ dials < Dials
  /\ dials' = dials + 1
  /\ \/ Goto("ring") /\ UNCHANGED round
     \/ /\ round' = IF dials' = SmsDial THEN VoidRound ELSE round
        /\ UNCHANGED pc                                  \* ATD is not accepted
  /\ UNCHANGED <<status, outbox, unread, line, alarm, who, at>>

\* call_to returns without an answer.
GiveUp ==
  /\ At("dial") /\ dials = Dials
  /\ who' = who + 1 /\ dials' = 0
  /\ Goto("next")
  /\ UNCHANGED <<status, outbox, unread, line, alarm, round, at>>

Answered ==
  /\ At("ring")
  /\ line' = TRUE
  /\ round' = Noted("answered")
  /\ Goto("talk")
  /\ UNCHANGED <<status, outbox, unread, alarm, who, dials, at>>

\* call_status may fail to see that the call was answered.
Unanswered ==
  /\ At("ring")
  /\ line' \in BOOLEAN
  /\ IF dials = SmsDial
     THEN /\ round' = Noted("silent")
          /\ Goto("sms")
     ELSE Goto("dial") /\ UNCHANGED round
  /\ UNCHANGED <<status, outbox, unread, alarm, who, dials, at>>

\* Mutant: flag_alarm is kept for the next administrator.
SmsKeepsFlag ==
  /\ At("sms")
  /\ \/ ~alarm /\ UNCHANGED <<registered, outbox, round>>
     \/ /\ alarm
        /\ \E r \in Results :
             /\ Submit(r)
             /\ round' = IF r = "lost" THEN VoidRound ELSE Noted("written")
  /\ Goto("dial")
  /\ UNCHANGED <<deposit, cnt, unread, line, alarm, who, dials, at>>

\* The SMS for an alarm, after which flag_alarm is cleared.
SmsInstead ==
  /\ At("sms")
  /\ \/ ~alarm /\ UNCHANGED <<registered, outbox, round>>
     \/ /\ alarm
        /\ \E r \in Results :
             /\ Submit(r)
             /\ round' = IF r = "lost" THEN VoidRound ELSE Noted("written")
  /\ alarm' = FALSE
  /\ Goto("dial")
  /\ UNCHANGED <<deposit, cnt, unread, line, who, dials, at>>

\* The audio has been played, or 40 s are over.
EndCall ==
  /\ At("talk")
  /\ HangUp
  /\ who' = who + 1 /\ dials' = 0
  /\ Goto("next")
  /\ UNCHANGED <<status, outbox, unread, alarm, round, at>>

EndCalls ==
  /\ At("next") /\ who > Admins
  /\ alarm' = FALSE
  /\ Goto("over")
  /\ UNCHANGED <<status, outbox, unread, line, who, dials, round, at>>

BackToLoop ==
  /\ At("over")
  /\ who' = 0 /\ dials' = 0 /\ round' = VoidRound
  /\ Goto("idle")
  /\ UNCHANGED <<status, outbox, unread, line, alarm, at>>

-----------------------------------------------------------------------------
\* check_registration and send_unsent_sms

\* Mutant: the count begins anew before it is compared.
IncrementCleared == IF cnt + 1 >= Fails THEN 0 ELSE cnt + 1

\* cnt++ of a signed char
Increment == IF cnt = CharMax THEN -CharMax - 1 ELSE cnt + 1

\* reset_mcu(0) restarts the modem; setup_init asks for the registration.
RegistrationFails ==
  /\ At("idle")
  /\ cnt' = Increment
  /\ IF cnt' >= Fails
     THEN registered' \in BOOLEAN /\ line' = FALSE
     ELSE Query(FALSE) /\ UNCHANGED line
  /\ UNCHANGED <<deposit, outbox, unread, calls, pc, at>>

ModemReset == RegistrationFails /\ cnt' >= Fails

RegistrationOk ==
  /\ At("idle")
  /\ Query(TRUE) /\ cnt' = 0
  /\ IF unsent /\ deposit THEN Goto("list") ELSE UNCHANGED pc
  /\ UNCHANGED <<deposit, outbox, unread, line, calls, at>>

\* Mutant: an SMS with a high index is left to the wipe.
ListUnsentSkips ==
  /\ At("list")
  /\ \/ \E s \in Unsent :
          /\ \A t \in Unsent : s <= t
          /\ IF s > MaxIndex
             THEN Wipe /\ Goto("idle") /\ UNCHANGED at
             ELSE at' = s /\ Goto("stored") /\ UNCHANGED sim
          /\ UNCHANGED <<unsent, missed>>
     \/ /\ unsent' = FALSE
        /\ missed' = (missed \/ Unsent # {})
        /\ Goto("idle")
        /\ UNCHANGED <<sim, at>>
  /\ UNCHANGED <<status, unread, line, calls>>

\* The first unsent SMS on the card is taken; one with a high index only after
\* the card has been wiped.  No list within 5 s means that there is none.
ListUnsent ==
  /\ At("list")
  /\ \/ \E s \in Unsent :
          /\ \A t \in Unsent : s <= t
          /\ at' = s
          /\ IF s > MaxIndex THEN Wipe ELSE UNCHANGED sim
          /\ Goto("stored")
          /\ UNCHANGED <<unsent, missed>>
     \/ /\ unsent' = FALSE
        /\ missed' = (missed \/ Unsent # {})
        /\ Goto("idle")
        /\ UNCHANGED <<sim, at>>
  /\ UNCHANGED <<status, unread, line, calls>>

\* AT+CMSS, which may also have sent the SMS when it is not answered.
SendStored ==
  /\ At("stored")
  /\ \/ /\ sim[at] = "unsent"
        /\ sim' = [sim EXCEPT ![at] = "old"]
        /\ \/ Goto("erase") /\ UNCHANGED at
           \/ Goto("idle") /\ at' = 0
     \/ Goto("idle") /\ at' = 0 /\ UNCHANGED sim
  /\ UNCHANGED <<status, unsent, missed, unread, line, calls>>

\* AT+CMGD of an SMS that was sent or read, three tries.
Erase ==
  /\ At("erase")
  /\ sim' \in {sim, [sim EXCEPT ![at] = "free"]}
  /\ at' = 0
  /\ Goto("idle")
  /\ UNCHANGED <<status, unsent, missed, unread, line, calls>>

-----------------------------------------------------------------------------
\* The rest of the main loop

\* get_sms reads an SMS; when it finds none it wipes the card.  unread_sms is
\* not cleared by reading, so that every SMS read is followed by a wipe.
GetSms ==
  /\ At("idle") /\ unread
  /\ \/ \E s \in Places :
          /\ sim[s] = "received"
          /\ sim' = [sim EXCEPT ![s] = "old"]
          /\ at' = s
          /\ Goto("answer")
          /\ UNCHANGED unread
     \/ Wipe /\ unread' = FALSE /\ UNCHANGED <<pc, at>>
  /\ UNCHANGED <<status, unsent, missed, line, calls>>

\* process_sms_body answers, or has nothing to say.
AnswerSms ==
  /\ At("answer")
  /\ UNCHANGED <<registered, outbox>> \/ \E r \in Results : Submit(r)
  /\ Goto("erase")
  /\ UNCHANGED <<deposit, cnt, unread, line, calls, at>>

\* One SMS of send_sms_admins: a notice of the main loop, of check_registration
\* or of send_USSD(1).
Notice ==
  /\ pc \in {"idle", "boot"}
  /\ \E r \in Results : Submit(r)
  /\ UNCHANGED <<deposit, cnt, unread, line, calls, pc, at>>

\* incoming_call_processing: a call of an administrator is answered.
IncomingCall ==
  /\ At("idle")
  /\ \/ line' = TRUE /\ Goto("incoming")
     \/ HangUp /\ UNCHANGED pc
  /\ UNCHANGED <<status, outbox, unread, calls, at>>

EndIncoming ==
  /\ At("incoming")
  /\ HangUp
  /\ Goto("idle")
  /\ UNCHANGED <<status, outbox, unread, calls, at>>

\* The end of main's setup: delete_all_sms.
Boot ==
  /\ At("boot")
  /\ Wipe
  /\ Goto("idle")
  /\ UNCHANGED <<status, unsent, missed, unread, line, calls, at>>

-----------------------------------------------------------------------------
\* What happens inside any wait

\* send_USSD, asked for by the page, by check_deposit or before a report.
Ussd ==
  /\ deposit' \in BOOLEAN
  /\ UNCHANGED <<registered, cnt, outbox, unread, line, calls, pc, at>>

\* DTMF 3 in a call: send_sms_report.
Report ==
  /\ line /\ HangUp
  /\ \E r \in Results : Submit(r)
  /\ UNCHANGED <<deposit, cnt, unread, calls, pc, at>>

\* reboot_gsm from the page: reset_mcu(0).
RebootModem ==
  /\ registered' \in BOOLEAN /\ line' = FALSE
  /\ UNCHANGED <<deposit, cnt, outbox, unread, calls, pc, at>>

\* An SMS arrives; uart_flush may throw its announcement away.
Receive ==
  /\ \E s \in Places : /\ sim[s] = "free"
                       /\ sim' = [sim EXCEPT ![s] = "received"]
  /\ unread' \in {unread, TRUE}
  /\ UNCHANGED <<status, unsent, missed, line, calls, pc, at>>

HangsUp ==
  /\ line /\ line' = FALSE
  /\ UNCHANGED <<status, outbox, unread, calls, pc, at>>

\* A restart of the unit, up to the end of setup_init.
Restart ==
  /\ deposit' = FALSE /\ registered' \in BOOLEAN /\ cnt' = 0
  /\ unsent' = TRUE /\ unread' = FALSE /\ missed' = FALSE
  /\ line' \in {line, FALSE}
  /\ alarm' = FALSE /\ who' = 0 /\ dials' = 0 /\ round' = VoidRound
  /\ Goto("boot") /\ at' = 0
  /\ UNCHANGED sim

-----------------------------------------------------------------------------
Init ==
  /\ deposit = FALSE /\ registered \in BOOLEAN /\ cnt = 0
  /\ unsent = TRUE /\ unread = FALSE /\ missed = FALSE
  /\ sim = [s \in Places |-> "free"] /\ line = FALSE
  /\ alarm = FALSE /\ who = 0 /\ dials = 0 /\ round = VoidRound
  /\ pc = "boot" /\ at = 0

\* Steps that the program takes once it has begun something.
Busy ==
  \/ CallTo \/ Dial \/ GiveUp \/ Answered \/ Unanswered \/ SmsInstead \/ EndCall
  \/ EndCalls \/ BackToLoop
  \/ ListUnsent \/ SendStored \/ Erase \/ AnswerSms \/ EndIncoming \/ Boot

CheckRegistration == RegistrationFails \/ RegistrationOk

Next ==
  \/ Busy \/ CheckRegistration
  \/ AlarmPlayFile \/ GetSms \/ Notice \/ IncomingCall
  \/ Ussd \/ Report \/ RebootModem \/ Receive \/ HangsUp
  \/ Restart

Spec == Init /\ [][Next]_vars

\* Waits for the modem have a limit, and the loop of main comes back to
\* check_registration.
FairSpec == Spec /\ WF_vars(Busy) /\ SF_vars(CheckRegistration)

-----------------------------------------------------------------------------
TypeOK ==
  /\ deposit \in BOOLEAN /\ registered \in BOOLEAN /\ unsent \in BOOLEAN
  /\ unread \in BOOLEAN /\ line \in BOOLEAN /\ alarm \in BOOLEAN
  /\ missed \in BOOLEAN
  /\ cnt \in (-CharMax - 1)..CharMax
  /\ sim \in [Places -> {"free", "unsent", "received", "old"}]
  /\ pc \in Points /\ who \in 0..(Admins + 1) /\ dials \in 0..Dials
  /\ at \in 0..Slots /\ (pc \in {"stored", "answer", "erase"} => at # 0)
  /\ round \in [void : BOOLEAN, silent : SUBSET Team,
                answered : SUBSET Team, written : SUBSET Team]

\* After the calls about an alarm every administrator has answered or has let
\* the third call ring, and the first who did the latter got an SMS, she alone
\* (call_to clears flag_alarm): unless the network or deposit was lost, the
\* third ATD was refused or the SMS could be neither sent nor stored.
SilentAdminGetsSms ==
  At("over") /\ ~round.void =>
    /\ round.silent \cup round.answered = Team
    /\ round.written
         = {a \in round.silent : \A b \in round.silent : a <= b}

\* An SMS on the card is known to send_unsent_sms, across restarts, wipes and
\* reports stored while it runs: only an answer that was not received hides it,
\* the list (GSM.c:778) or the OK of AT+CMGW (GSM.c:607).
StoredSmsKnown == Unsent # {} => unsent \/ missed

\* While SMS wait on the card and the network answers, attempts to send them
\* go on, whatever their index.
OutboxMoves ==
  /\ <>[][~Restart]_vars
  /\ []<><<RegistrationOk /\ deposit>>_vars
  /\ <>[](Unsent # {} /\ unsent)
  => []<><<SendStored>>_vars

\* As long as the network is not found the modem is reset again and again,
\* also when the count of failures has overflowed.
ResetsGoOn ==
  <>[]~registered /\ <>[][~Restart]_vars => []<><<ModemReset>>_vars

=============================================================================
