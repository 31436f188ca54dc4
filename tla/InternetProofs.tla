--------------------------- MODULE InternetProofs ---------------------------
(***************************************************************************)
(* That the Internet notice, from the ping to the SMS, keeps the promise   *)
(* of Notice and raises no false alarm, for all limits, time-outs and      *)
(* buffer sizes, with and without faults.                                  *)
(***************************************************************************)
EXTENDS Internet, FiniteSets, FunctionTheorems, FiniteSetTheorems, TLAPS

\* _temp_flag remembers the last notice.
Inv == temp \in BOOLEAN /\ (last = IF temp THEN "off" ELSE "on")

LEMMA InitInv == Init => Inv
BY DEF Init, Inv

\* What the steps other than those of check_internet and a restart leave alone.
LEMMA Elsewhere ==
  ASSUME \/ Reach \/ Second \/ Update \/ Command \/ Ping \/ NotYet
         \/ Poll \/ Report \/ Chatter \/ Lose \/ RestartDaemon
         \/ UNCHANGED vars
  PROVE  UNCHANGED <<temp, last, turn>>
BY DEF Reach, Second, Update, Command, Ping, NotYet, Poll, Report, Chatter,
       Lose, RestartDaemon, unit, check, notice, vars

\* Every step of the system keeps the invariant and is a step of the promise.
LEMMA Step ==
  ASSUME Inv, [Next]_vars
  PROVE  Inv' /\ [Promise!Next]_<<Told, turn>>
<1> USE DEF Inv, Told, Promise!Next, Promise!Tell, Promise!Restart, Send
<1>1. CASE UNCHANGED <<temp, last, turn>>
  BY <1>1
<1>2. CASE NoInternet
  BY <1>2 DEF NoInternet
<1>3. CASE InternetOk
  <2>1. CASE flag /\ temp /\ temp' = FALSE /\ Send("on")
    BY <2>1
  <2>2. CASE UNCHANGED <<temp, notice>>
    BY <2>2 DEF notice
  <2> QED
    BY <1>3, <2>1, <2>2 DEF InternetOk
<1>4. CASE RestartUnit
  BY <1>4 DEF RestartUnit
<1> QED
  BY <1>1, <1>2, <1>3, <1>4, Elsewhere DEF Next

\* The notices about the Internet alternate, beginning with an outage: ping,
\* serial line and check_internet together implement Notice.
THEOREM InternetKeepsPromise == Spec => Alternates
<1>1. Init => Promise!Init
  BY DEF Init, Told, Promise!Init
<1>2. Inv /\ [Next]_vars => Inv' /\ [Promise!Next]_<<Told, turn>>
  BY Step
<1> QED
  BY InitInv, <1>1, <1>2, PTL DEF Spec, Alternates, Promise!Spec

-----------------------------------------------------------------------------
\* Types

LEMMA UpToRange ==
  ASSUME NEW limit \in Nat, NEW n \in Nat
  PROVE  UpTo(limit, n) \in 0 .. limit
BY DEF UpTo

LEMMA CreditBound == CreditMax \in Nat \ {0} /\ CreditMax = BufMax + 2
BY InternetAssumption, SMT DEF InternetAssumption, CreditMax

LEMMA EmptyRing == <<>> \in Seq(Writes) /\ Len(<<>>) <= BufMax
BY InternetAssumption DEF InternetAssumption

LEMMA WriteTypes ==
  ASSUME TypeOK, NEW m \in Writes, Write(m)
  PROVE  /\ buf' \in Seq(Writes) /\ Len(buf') <= BufMax
         /\ dropped' \in BOOLEAN
<1>1. CASE Len(buf) < BufMax
  <2>1. buf' = Append(buf, m) /\ UNCHANGED dropped
    BY <1>1 DEF Write
  <2>2. buf \in Seq(Writes) /\ dropped \in BOOLEAN
    BY DEF TypeOK
  <2>3. Append(buf, m) \in Seq(Writes) /\ Len(Append(buf, m)) = Len(buf) + 1
    BY <2>2
  <2>4. Len(buf) + 1 <= BufMax
    BY <1>1, <2>2, InternetAssumption DEF InternetAssumption
  <2> QED
    BY <2>1, <2>2, <2>3, <2>4
<1>2. CASE ~(Len(buf) < BufMax)
  <2>1. buf' = <<>> /\ dropped' = TRUE
    BY <1>2 DEF Write
  <2> QED
    BY <2>1, EmptyRing
<1> QED
  BY <1>1, <1>2

LEMMA InitTypes == Init => TypeOK
<1> SUFFICES ASSUME Init PROVE TypeOK
  OBVIOUS
<1>1. buf \in Seq(Writes) /\ Len(buf) <= BufMax
  BY EmptyRing DEF Init
<1>2. /\ bad \in 0..Fails /\ ok \in 0..Oks /\ streak \in 0..(Fails - 1)
      /\ credit \in 0..CreditMax /\ age \in 0..(LineTimeout + 1)
      /\ quiet \in 0..ReportEvery /\ waited \in 0..WaitMax
  BY InternetAssumption, CreditBound, SMT DEF Init, InternetAssumption
<1> QED
  BY <1>1, <1>2 DEF Init, TypeOK

\* The counters of ping() stay within their limits.
LEMMA PingTypes == TypeOK /\ Ping => TypeOK'
<1> SUFFICES ASSUME TypeOK, Ping PROVE TypeOK'
  OBVIOUS
<1> USE InternetAssumption DEF InternetAssumption
<1>1. CASE PingFails
  <2>1. bad' \in 0..Fails /\ UNCHANGED ok
    BY <1>1, UpToRange, SMT DEF PingFails, TypeOK
  <2>2. streak' \in 0..(Fails - 1)
    BY <1>1, SMT DEF PingFails, TypeOK
  <2>3. credit' \in 0..CreditMax
    BY <1>1, CreditBound, SMT DEF PingFails, TypeOK, UpTo
  <2>4. CASE NoPing /\ SayNoPing
    <3>1. Write("ping0") /\ waited' = 0 /\ dpc' = "pinging" /\ flagNot' = TRUE
          /\ isHost' = FALSE
      BY <2>4 DEF SayNoPing
    <3>2. buf' \in Seq(Writes) /\ Len(buf') <= BufMax /\ dropped' \in BOOLEAN
      BY <3>1, WriteTypes DEF Writes, Messages
    <3>3. waited' \in 0..WaitMax
      BY <3>1, SMT
    <3> QED
      BY <2>1, <2>2, <2>3, <3>1, <3>2, <3>3
      DEF Ping, TypeOK, unit, check, notice
  <2>5. CASE dpc' = "update" /\ UNCHANGED <<signs, buf, dropped, waited>>
    BY <2>1, <2>2, <2>3, <2>5 DEF Ping, TypeOK, unit, check, notice, signs
  <2> QED
    BY <1>1, <2>4, <2>5 DEF PingFails
<1>2. CASE PingSucceeds
  <2>1. bad' \in 0..Fails /\ streak' \in 0..(Fails - 1)
    BY <1>2, SMT DEF PingSucceeds
  <2>2. flagNot' = FALSE /\ UNCHANGED credit
    BY <1>2 DEF PingSucceeds
  <2>3. CASE PingOk /\ SayPingOk
    <3>1. Write("ping1") /\ waited' = 0 /\ dpc' = "pinging" /\ isHost' = TRUE
          /\ ok' = Oks
      BY <2>3 DEF SayPingOk
    <3>2. buf' \in Seq(Writes) /\ Len(buf') <= BufMax /\ dropped' \in BOOLEAN
      BY <3>1, WriteTypes DEF Writes, Messages
    <3>3. waited' \in 0..WaitMax /\ ok' \in 0..Oks
      BY <3>1, SMT
    <3> QED
      BY <2>1, <2>2, <3>1, <3>2, <3>3 DEF Ping, TypeOK, unit, check, notice
  <2>4. CASE ~PingOk /\ SayPingOk
    <3>1. ok' = IF isHost THEN ok ELSE ok - 1
      BY <2>4 DEF SayPingOk
    <3>2. dpc' = "update" /\ UNCHANGED <<isHost, buf, dropped, waited>>
      BY <2>4 DEF SayPingOk
    <3>3. ok' \in 0..Oks
      BY <2>4, <3>1, SMT DEF PingOk, TypeOK
    <3> QED
      BY <2>1, <2>2, <3>2, <3>3 DEF Ping, TypeOK, unit, check, notice
  <2> QED
    BY <1>2, <2>3, <2>4 DEF PingSucceeds
<1> QED
  BY <1>1, <1>2 DEF Ping

\* The line the unit gathers and the reads it ends.
LEMMA PollTypes == TypeOK /\ Poll => TypeOK'
<1> SUFFICES ASSUME TypeOK, Poll PROVE TypeOK'
  OBVIOUS
<1> USE InternetAssumption DEF InternetAssumption
<1>1. buf' \in Seq(Writes) /\ Len(buf') <= BufMax /\ Head(buf) \in Writes
  BY SMT DEF Poll, TypeOK
<1>2. age' \in 0..(LineTimeout + 1) /\ dropped' \in BOOLEAN
  BY SMT DEF Poll, TypeOK
<1>3. Begun \in Messages \cup {"none"}
  BY DEF Begun, TypeOK
<1>4. CASE Head(buf) \in Messages
  <2>1. Begin(Head(buf))
    BY <1>4 DEF Poll
  <2>2. part' \in Messages \cup {"none"}
    BY <1>4, <2>1 DEF Begin, Messages
  <2> QED
    BY <1>1, <1>2, <2>1, <2>2
    DEF Begin, Poll, TypeOK, daemon, counters, signs, pings, check, notice
<1>5. CASE Head(buf) \notin Messages
  <2>1. Handle(Head(buf))
    BY <1>5 DEF Poll
  <2>2. part' = "none" /\ flag' \in BOOLEAN
    <3>1. CASE Head(buf) = "command" \/ Begun = "none"
      BY <2>1, <3>1 DEF Handle, TypeOK
    <3>2. CASE ~(Head(buf) = "command" \/ Begun = "none")
      BY <2>1, <3>2 DEF Handle
    <3> QED
      BY <3>1, <3>2
  <2>4. quiet' \in 0..ReportEvery
    BY <2>1, SMT DEF Handle
  <2>3. dpc' \in {"update", "updating", "ping", "pinging"} /\ web' \in BOOLEAN
    BY <2>1 DEF Handle, Transmit, TypeOK
  <2> QED
    BY <1>1, <1>2, <2>2, <2>3, <2>4
    DEF Poll, TypeOK, daemon, counters, signs, pings, check, notice
<1> QED
  BY <1>4, <1>5

LEMMA TypesStep == TypeOK /\ [Next]_vars => TypeOK'
<1> SUFFICES ASSUME TypeOK, [Next]_vars PROVE TypeOK'
  OBVIOUS
<1> USE InternetAssumption
        DEF InternetAssumption, TypeOK, daemon, counters, signs, pings, input,
            clocks, unit, check, notice
<1>1. CASE Reach
  BY <1>1 DEF Reach
<1>2. CASE Second
  <2>1. age' \in 0..(LineTimeout + 1) /\ quiet' \in 0..ReportEvery
        /\ waited' \in 0..WaitMax
    BY <1>2, SMT DEF Second, UpTo
  <2> QED
    BY <1>2, <2>1 DEF Second
<1>3. CASE Update \/ Command
  <2>1. buf' \in Seq(Writes) /\ Len(buf') <= BufMax /\ dropped' \in BOOLEAN
    BY <1>3, WriteTypes DEF Update, Command, Writes
  <2>2. waited' \in 0..WaitMax
    BY <1>3, SMT DEF Update, Command
  <2>3. dpc' \in {"update", "updating", "ping", "pinging"} /\ web' \in BOOLEAN
    BY <1>3 DEF Update, Command
  <2>4. UNCHANGED <<net, bad, ok, flagNot, isHost, streak, credit, part, age,
                    quiet, flag, temp, pc, last, turn>>
    BY <1>3 DEF Update, Command
  <2> QED
    BY <2>1, <2>2, <2>3, <2>4
<1>4. CASE NotYet
  BY <1>4 DEF NotYet
<1>5. CASE Report \/ Chatter
  <2>1. dpc' \in {"update", "updating", "ping", "pinging"} /\ web' \in BOOLEAN
    BY <1>5 DEF Report, Chatter, Transmit
  <2>2. quiet' \in 0..ReportEvery
    BY <1>5, SMT DEF Report, Chatter
  <2>3. UNCHANGED <<net, bad, ok, flagNot, isHost, streak, credit, buf, part, age,
                    waited, flag, temp, pc, last, turn, dropped>>
    BY <1>5 DEF Report, Chatter
  <2> QED
    BY <2>1, <2>2, <2>3
<1>6. CASE NoInternet
  <2>1. credit' \in 0..CreditMax
    BY <1>6, CreditBound, SMT DEF NoInternet
  <2>2. temp' \in BOOLEAN /\ pc' = "second" /\ last' = "off" /\ turn' \in BOOLEAN
    BY <1>6 DEF NoInternet, Send
  <2>3. UNCHANGED <<net, bad, ok, flagNot, isHost, streak, dpc, web, buf, part,
                    age, quiet, waited, flag, dropped>>
    BY <1>6 DEF NoInternet
  <2> QED
    BY <2>1, <2>2, <2>3
<1>7. CASE InternetOk
  <2>1. pc' = "loop" /\ temp' \in BOOLEAN /\ turn' \in BOOLEAN
        /\ last' \in {"on", "off"}
    BY <1>7 DEF InternetOk, Send
  <2>2. UNCHANGED <<net, bad, ok, flagNot, isHost, streak, credit, dpc, web, buf,
                    part, age, quiet, waited, flag, dropped>>
    BY <1>7 DEF InternetOk
  <2> QED
    BY <2>1, <2>2
<1>8. CASE Lose \/ RestartUnit
  <2>1. buf' \in Seq(Writes) /\ Len(buf') <= BufMax
    BY <1>8, EmptyRing DEF Lose, RestartUnit
  <2>2. age' \in 0..(LineTimeout + 1) /\ quiet' \in 0..ReportEvery
    BY <1>8, SMT DEF Lose, RestartUnit
  <2>3. CASE Lose
    BY <2>1, <2>3 DEF Lose
  <2>4. CASE RestartUnit
    <3>1. part' \in Messages \cup {"none"} /\ dropped' \in BOOLEAN
          /\ flag' \in BOOLEAN /\ temp' \in BOOLEAN
          /\ pc' \in {"loop", "second"} /\ last' \in {"on", "off"}
      BY <2>4 DEF RestartUnit
    <3>2. UNCHANGED <<net, bad, ok, flagNot, isHost, streak, credit, dpc, web,
                      waited, turn>>
      BY <2>4 DEF RestartUnit
    <3> QED
      BY <2>1, <2>2, <3>1, <3>2
  <2> QED
    BY <1>8, <2>3, <2>4
<1>9. CASE RestartDaemon
  <2>1. bad' \in 0..Fails /\ ok' \in 0..Oks /\ waited' \in 0..WaitMax
    BY <1>9, SMT DEF RestartDaemon
  <2> QED
    BY <1>9, <2>1 DEF RestartDaemon
<1>10. CASE UNCHANGED vars
  BY <1>10 DEF vars
<1> QED
  BY <1>1, <1>2, <1>3, <1>4, <1>5, <1>6, <1>7, <1>8, <1>9, <1>10,
     PingTypes, PollTypes DEF Next

\* Counters, line and loops at both ends keep their types, with and without
\* faults, for all limits: what the ring holds is bounded, and no ping counter
\* passes its limit (ping.h:150).
THEOREM TypeCorrect == Spec => []TypeOK
BY InitTypes, TypesStep, PTL DEF Spec

-----------------------------------------------------------------------------
\* No false alarm.

Ping0s(s) == {i \in 1 .. Len(s) : s[i] = "ping0"}
One(b) == IF b THEN 1 ELSE 0

\* Notices of an outage that may still come of what was written.
Coming == Cardinality(Ping0s(buf)) + One(part = "ping0") + One(~flag /\ ~temp)

\* Each of them has a series of failed pings of its own; so has the one that the
\* daemon is about to write, if its count began before the present series.
Backed ==
  /\ Coming <= credit
  /\ ~flagNot /\ streak < bad => Coming < credit
  /\ bad = Fails => flagNot

\* Behind each ping0 an update is written before the next ping.
Between == dpc \in {"updating", "ping"} /\ buf # <<>> => buf[Len(buf)] # "ping0"

LEMMA Ping0sFinite ==
  ASSUME NEW s \in Seq(Writes)
  PROVE  /\ IsFiniteSet(Ping0s(s)) /\ Cardinality(Ping0s(s)) \in Nat
         /\ Cardinality(Ping0s(s)) <= Len(s)
         /\ s # <<>> /\ s[Len(s)] # "ping0" => Cardinality(Ping0s(s)) <= Len(s) - 1
<1>0. Len(s) \in Nat
  OBVIOUS
<1>1. IsFiniteSet(1 .. Len(s)) /\ Cardinality(1 .. Len(s)) = Len(s)
  BY <1>0, FS_Interval
<1>2. Ping0s(s) \subseteq 1 .. Len(s)
  BY DEF Ping0s
<1>3. /\ IsFiniteSet(Ping0s(s)) /\ Cardinality(Ping0s(s)) \in Nat
      /\ Cardinality(Ping0s(s)) <= Len(s)
  BY <1>1, <1>2, FS_Subset, FS_CardinalityType
<1>4. ASSUME s # <<>>, s[Len(s)] # "ping0" PROVE Cardinality(Ping0s(s)) <= Len(s) - 1
  <2>1. Len(s) \in 1 .. Len(s) /\ Len(s) \notin Ping0s(s)
    BY <1>0, <1>4 DEF Ping0s
  <2>2. Cardinality(Ping0s(s)) # Len(s)
    BY <1>1, <1>2, <2>1, FS_Subset
  <2> QED
    BY <1>0, <1>3, <2>2, SMT
<1> QED
  BY <1>3, <1>4

LEMMA Ping0sEmpty == Cardinality(Ping0s(<<>>)) = 0
<1>1. Ping0s(<<>>) = {}
  BY DEF Ping0s
<1> QED
  BY <1>1, FS_EmptySet

LEMMA Ping0sAppend ==
  ASSUME NEW s \in Seq(Writes), NEW m \in Writes
  PROVE  Cardinality(Ping0s(Append(s, m))) = Cardinality(Ping0s(s)) + One(m = "ping0")
<1>0. Len(s) \in Nat /\ Len(Append(s, m)) = Len(s) + 1
  OBVIOUS
<1>1. CASE m = "ping0"
  <2>1. Ping0s(Append(s, m)) = Ping0s(s) \cup {Len(s) + 1}
    BY <1>0, <1>1 DEF Ping0s
  <2>2. Len(s) + 1 \notin Ping0s(s)
    BY <1>0 DEF Ping0s
  <2> QED
    BY <1>1, <2>1, <2>2, Ping0sFinite, FS_AddElement DEF One
<1>2. CASE m # "ping0"
  <2>1. Ping0s(Append(s, m)) = Ping0s(s)
    BY <1>0, <1>2 DEF Ping0s
  <2> QED
    BY <1>2, <2>1, Ping0sFinite DEF One
<1> QED
  BY <1>1, <1>2

LEMMA Ping0sTail ==
  ASSUME NEW s \in Seq(Writes), s # <<>>
  PROVE  Cardinality(Ping0s(s)) = Cardinality(Ping0s(Tail(s))) + One(Head(s) = "ping0")
<1> DEFINE Rest == Ping0s(s) \ {1}
           f == [i \in Rest |-> i - 1]
<1>0. /\ Len(s) \in Nat \ {0} /\ Tail(s) \in Seq(Writes) /\ Len(Tail(s)) = Len(s) - 1
      /\ \A i \in 1 .. Len(s) - 1 : Tail(s)[i] = s[i + 1]
      /\ Head(s) = s[1]
  OBVIOUS
<1>1. f \in Bijection(Rest, Ping0s(Tail(s)))
  <2>1. f \in [Rest -> Ping0s(Tail(s))]
    BY <1>0 DEF Ping0s
  <2>2. \A a, b \in Rest : f[a] = f[b] => a = b
    BY <1>0 DEF Ping0s
  <2>3. \A j \in Ping0s(Tail(s)) : \E i \in Rest : f[i] = j
    <3>1. SUFFICES ASSUME NEW j \in Ping0s(Tail(s)) PROVE j + 1 \in Rest /\ f[j + 1] = j
      OBVIOUS
    <3>2. j \in 1 .. Len(s) - 1 /\ s[j + 1] = "ping0"
      BY <1>0 DEF Ping0s
    <3> QED
      BY <1>0, <3>2 DEF Ping0s
  <2> QED
    BY <2>1, <2>2, <2>3, Fun_IsBij
<1>2. IsFiniteSet(Rest) /\ Cardinality(Rest) = Cardinality(Ping0s(Tail(s)))
  <2>1. IsFiniteSet(Rest)
    BY Ping0sFinite, FS_Subset
  <2> QED
    BY <1>1, <2>1, FS_Bijection DEF ExistsBijection
<1>3. CASE Head(s) = "ping0"
  <2>1. 1 \in Ping0s(s)
    BY <1>0, <1>3 DEF Ping0s
  <2>2. Cardinality(Rest) = Cardinality(Ping0s(s)) - 1
    BY <2>1, Ping0sFinite, FS_RemoveElement
  <2>3. Cardinality(Ping0s(s)) \in Nat /\ Cardinality(Ping0s(Tail(s))) \in Nat
    BY <1>0, Ping0sFinite
  <2>4. One(Head(s) = "ping0") = 1
    BY <1>3 DEF One
  <2>5. Cardinality(Ping0s(s)) - 1 = Cardinality(Ping0s(Tail(s)))
    BY <1>2, <2>2
  <2>6. \A a, b \in Nat : a - 1 = b => a = b + 1
    OBVIOUS
  <2>7. Cardinality(Ping0s(s)) = Cardinality(Ping0s(Tail(s))) + 1
    BY <2>3, <2>5, <2>6
  <2> QED
    BY <2>4, <2>7
<1>4. CASE Head(s) # "ping0"
  <2>1. Rest = Ping0s(s)
    BY <1>0, <1>4 DEF Ping0s
  <2>2. Cardinality(Ping0s(Tail(s))) \in Nat
    BY <1>0, Ping0sFinite
  <2>3. One(Head(s) = "ping0") = 0
    BY <1>4 DEF One
  <2>4. Cardinality(Ping0s(s)) = Cardinality(Ping0s(Tail(s)))
    BY <1>2, <2>1
  <2>5. \A a \in Nat : a = a + 0
    OBVIOUS
  <2> QED
    BY <2>2, <2>3, <2>4, <2>5
<1> QED
  BY <1>3, <1>4

LEMMA OneRange == ASSUME NEW b PROVE One(b) \in {0, 1}
BY DEF One

LEMMA ComingNat ==
  ASSUME TypeOK
  PROVE  /\ Coming \in Nat /\ Cardinality(Ping0s(buf)) \in Nat
         /\ One(part = "ping0") \in {0, 1} /\ One(~flag /\ ~temp) \in {0, 1}
<1>1. Cardinality(Ping0s(buf)) \in Nat
  BY Ping0sFinite DEF TypeOK
<1>2. One(part = "ping0") \in {0, 1} /\ One(~flag /\ ~temp) \in {0, 1}
  BY OneRange
<1> QED
  BY <1>1, <1>2, SMT DEF Coming

\* What a write adds.
LEMMA WriteComing ==
  ASSUME TypeOK, NEW m \in Writes, Write(m), UNCHANGED <<part, flag, temp>>
  PROVE  Coming' \in Nat /\ Coming' <= Coming + One(m = "ping0")
<1>1. /\ Cardinality(Ping0s(buf)) \in Nat /\ One(m = "ping0") \in {0, 1}
      /\ One(part = "ping0") \in {0, 1} /\ One(~flag /\ ~temp) \in {0, 1}
  BY ComingNat, OneRange
<1>2. One(part' = "ping0") = One(part = "ping0") /\ One(~flag' /\ ~temp') = One(~flag /\ ~temp)
  OBVIOUS
<1>3. CASE Len(buf) < BufMax
  <2>1. buf' = Append(buf, m) /\ buf \in Seq(Writes)
    BY <1>3 DEF Write, TypeOK
  <2>2. Cardinality(Ping0s(buf')) = Cardinality(Ping0s(buf)) + One(m = "ping0")
    BY <2>1, Ping0sAppend
  <2> QED
    BY <1>1, <1>2, <2>2, SMT DEF Coming
<1>4. CASE ~(Len(buf) < BufMax)
  <2>1. Cardinality(Ping0s(buf')) = 0
    BY <1>4, Ping0sEmpty DEF Write
  <2> QED
    BY <1>1, <1>2, <2>1, SMT DEF Coming
<1> QED
  BY <1>3, <1>4

\* What the unit reads becomes at most one notice.
LEMMA PollComing ==
  ASSUME TypeOK, Poll PROVE Coming' \in Nat /\ Coming' <= Coming
<1>1. /\ Cardinality(Ping0s(buf)) \in Nat /\ Cardinality(Ping0s(Tail(buf))) \in Nat
      /\ One(part = "ping0") \in {0, 1} /\ One(~flag /\ ~temp) \in {0, 1}
      /\ One(Head(buf) = "ping0") \in {0, 1}
  <2>1. Tail(buf) \in Seq(Writes)
    BY DEF Poll, TypeOK
  <2> QED
    BY <2>1, ComingNat, OneRange, Ping0sFinite
<1>2. /\ buf' = Tail(buf) /\ temp' = temp
      /\ Cardinality(Ping0s(buf)) = Cardinality(Ping0s(buf')) + One(Head(buf) = "ping0")
  BY Ping0sTail DEF Poll, TypeOK, check
<1>3. Begun = "ping0" => part = "ping0"
  BY DEF Begun
<1>4. CASE Head(buf) \in Messages
  <2>1. /\ flag' = flag
        /\ part' = "ping0" => Head(buf) = "ping0" \/ part = "ping0"
    BY <1>3, <1>4 DEF Poll, Begin
  <2>2. One(~flag' /\ ~temp') = One(~flag /\ ~temp)
    BY <1>2, <2>1
  <2>3. /\ One(part' = "ping0") \in {0, 1}
        /\ One(part' = "ping0") = 1 =>
             One(Head(buf) = "ping0") = 1 \/ One(part = "ping0") = 1
    BY <2>1 DEF One
  <2> QED
    BY <1>1, <1>2, <2>2, <2>3, SMT DEF Coming
<1>5. CASE Head(buf) \notin Messages
  <2>1. /\ part' = "none"
        /\ flag' = flag \/ flag' = (Begun = "ping1")
        /\ Begun \in {"none"} => flag' = flag
    BY <1>5 DEF Poll, Handle
  <2>2. ~flag' /\ ~temp' => (~flag /\ ~temp) \/ part = "ping0"
    BY <1>2, <1>3, <2>1 DEF Begun, TypeOK, Messages
  <2>3. /\ One(part' = "ping0") = 0 /\ One(~flag' /\ ~temp') \in {0, 1}
        /\ One(~flag' /\ ~temp') = 1 =>
             One(~flag /\ ~temp) = 1 \/ One(part = "ping0") = 1
    BY <2>1, <2>2 DEF One
  <2> QED
    BY <1>1, <1>2, <2>3, SMT DEF Coming
<1> QED
  BY <1>4, <1>5

\* At a ping the ring does not end with a ping0.
LEMMA ComingAtPing ==
  ASSUME TypeOK, Between, dpc = "ping" PROVE Coming + 1 <= CreditMax
<1>1. /\ One(part = "ping0") \in {0, 1} /\ One(~flag /\ ~temp) \in {0, 1}
      /\ Cardinality(Ping0s(buf)) \in Nat /\ BufMax \in Nat \ {0}
      /\ Len(buf) \in Nat /\ Len(buf) <= BufMax
  BY ComingNat, InternetAssumption DEF TypeOK, InternetAssumption
<1>2. Cardinality(Ping0s(buf)) <= BufMax - 1
  <2>1. CASE buf = <<>>
    BY <1>1, <2>1, Ping0sEmpty, SMT
  <2>2. CASE buf # <<>>
    <3>1. Cardinality(Ping0s(buf)) <= Len(buf) - 1
      BY <2>2, Ping0sFinite DEF Between, TypeOK
    <3> QED
      BY <1>1, <3>1, SMT
  <2> QED
    BY <2>1, <2>2
<1> QED
  BY <1>1, <1>2, CreditBound, SMT DEF Coming

LEMMA BetweenStep == TypeOK /\ Between /\ [Next]_vars => Between'
<1> SUFFICES ASSUME TypeOK, Between, [Next]_vars PROVE Between'
  OBVIOUS
<1> USE DEF daemon, counters, signs, pings, input, clocks, unit, check, notice
<1>1. CASE Update \/ Command
  <2>1. PICK m \in {"av", "command"} : Write(m)
    BY <1>1 DEF Update, Command
  <2>2. dpc' \in {"updating", "ping"} => dpc' = "updating" \/ dpc' = dpc
    BY <1>1 DEF Update, Command
  <2>3. buf' = Append(buf, m) \/ buf' = <<>>
    BY <2>1 DEF Write
  <2>4. buf \in Seq(Writes) /\ m \in Writes
    BY DEF TypeOK, Writes
  <2>5. buf' # <<>> => buf'[Len(buf')] = m
    BY <2>3, <2>4
  <2> QED
    BY <2>5 DEF Between
<1>2. CASE Ping \/ RestartDaemon
  <2>1. dpc' \in {"pinging", "update"}
    BY <1>2 DEF Ping, PingFails, SayNoPing, PingSucceeds, SayPingOk, RestartDaemon
  <2> QED
    BY <2>1 DEF Between
<1>3. CASE Poll
  <2>1. dpc' \in {"updating", "ping"} => dpc \in {"updating", "ping"}
    BY <1>3 DEF Poll, Begin, Handle, Transmit
  <2>2. buf' = Tail(buf) /\ buf # <<>> /\ buf \in Seq(Writes)
    BY <1>3 DEF Poll, TypeOK
  <2>3. buf' # <<>> => buf'[Len(buf')] = buf[Len(buf)]
    <3>1. ASSUME Tail(buf) # <<>> PROVE Tail(buf)[Len(Tail(buf))] = buf[Len(buf)]
      <4>1. /\ Len(buf) \in Nat \ {0} /\ Len(Tail(buf)) = Len(buf) - 1
            /\ Tail(buf) \in Seq(Writes)
        BY <2>2
      <4>2. Len(buf) - 1 \in 1 .. Len(buf) - 1
        BY <3>1, <4>1
      <4>3. \A i \in 1 .. Len(buf) - 1 : Tail(buf)[i] = buf[i + 1]
        BY <2>2, <4>1
      <4>4. Tail(buf)[Len(buf) - 1] = buf[Len(buf) - 1 + 1]
        BY <4>2, <4>3
      <4>5. Len(buf) - 1 + 1 = Len(buf)
        BY <4>1
      <4> QED
        BY <4>1, <4>4, <4>5
    <3> QED
      BY <2>2, <3>1
  <2> QED
    BY <2>1, <2>2, <2>3 DEF Between
<1>4. CASE Lose \/ RestartUnit
  BY <1>4 DEF Lose, RestartUnit, Between
<1>5. CASE Reach \/ Second \/ NotYet \/ Report \/ Chatter
  <2>1. buf' = buf /\ (dpc' \in {"updating", "ping"} => dpc \in {"updating", "ping"})
    BY <1>5 DEF Reach, Second, NotYet, Report, Chatter, Transmit
  <2> QED
    BY <2>1 DEF Between
<1>6. CASE NoInternet \/ InternetOk \/ UNCHANGED vars
  BY <1>6 DEF NoInternet, InternetOk, vars, Between
<1> QED
  BY <1>1, <1>2, <1>3, <1>4, <1>5, <1>6 DEF Next

\* The pings and what they say.
LEMMA PingFailsBacked ==
  ASSUME TypeOK, Between, Backed, Ping, PingFails PROVE Backed'
<1>0. /\ Coming \in Nat /\ credit \in Nat /\ credit <= CreditMax /\ CreditMax \in Nat
      /\ bad \in 0 .. Fails /\ streak \in 0 .. Fails - 1 /\ Fails \in Nat \ {0}
      /\ Coming + 1 <= CreditMax
  BY ComingNat, ComingAtPing, CreditBound, InternetAssumption, SMT
     DEF TypeOK, Ping, InternetAssumption
<1>1. bad' = IF bad + 1 > Fails THEN Fails ELSE bad + 1
  BY DEF PingFails, UpTo
<1>2. /\ streak' = IF streak = Fails - 1 THEN 0 ELSE streak + 1
      /\ credit' = IF streak' = 0
                   THEN IF credit + 1 > CreditMax THEN CreditMax ELSE credit + 1
                   ELSE credit
  <2>1. \A f \in Nat \ {0} : \A s \in 0 .. f - 1 :
          (s + 1) % f = IF s = f - 1 THEN 0 ELSE s + 1
    BY SMT
  <2> QED
    BY <1>0, <2>1 DEF PingFails, UpTo
<1>3. UNCHANGED <<part, flag, temp>>
  BY DEF Ping, unit, check
<1>4. CASE NoPing /\ SayNoPing
  <2>1. Coming' \in Nat /\ Coming' <= Coming + 1
    <3>1. Write("ping0") /\ "ping0" \in Writes
      BY <1>4 DEF SayNoPing, Writes, Messages
    <3>2. One("ping0" = "ping0") = 1
      BY DEF One
    <3> QED
      BY <1>3, <3>1, <3>2, WriteComing
  <2>2. flagNot' /\ ~flagNot /\ bad' = Fails
    BY <1>4 DEF SayNoPing, NoPing
  <2>3. bad = Fails - 1
    BY <1>0, <1>1, <2>2, SMT DEF Backed
  <2>4. Coming + 1 <= credit'
    <3>1. CASE streak < bad
      <4>1. Coming + 1 <= credit
        BY <1>0, <2>2, <3>1, SMT DEF Backed
      <4> QED
        BY <1>0, <1>2, <4>1, SMT
    <3>2. CASE ~(streak < bad)
      BY <1>0, <1>2, <2>3, <3>2, SMT DEF Backed
    <3> QED
      BY <3>1, <3>2
  <2>5. credit' \in Nat
    BY <1>0, <1>2, SMT
  <2>6. Coming' <= credit'
    BY <1>0, <2>1, <2>4, <2>5, SMT
  <2> QED
    BY <2>2, <2>6 DEF Backed
<1>5. CASE ~NoPing /\ UNCHANGED <<signs, buf, dropped, waited>>
  <2>1. Coming' = Coming /\ flagNot' = flagNot
    BY <1>3, <1>5 DEF Coming, signs
  <2>2. bad' = Fails => flagNot
    BY <1>5 DEF NoPing
  <2>3. Coming <= credit'
    BY <1>0, <1>2, SMT DEF Backed
  <2>4. ASSUME ~flagNot, streak' < bad' PROVE Coming < credit'
    <3>1. bad + 1 <= Fails /\ bad' = bad + 1 /\ bad + 1 # Fails
      BY <1>0, <1>1, <2>2, <2>4, SMT
    <3>2. CASE streak = Fails - 1
      BY <1>0, <1>2, <3>2, SMT DEF Backed
    <3>3. CASE streak # Fails - 1
      <4>1. streak < bad /\ credit' = credit
        BY <1>0, <1>2, <2>4, <3>1, <3>3, SMT
      <4> QED
        BY <2>4, <4>1 DEF Backed
    <3> QED
      BY <3>2, <3>3
  <2> QED
    BY <2>1, <2>2, <2>3, <2>4 DEF Backed
<1> QED
  BY <1>4, <1>5 DEF PingFails

LEMMA PingSucceedsBacked ==
  ASSUME TypeOK, Backed, Ping, PingSucceeds PROVE Backed'
<1>0. /\ Coming \in Nat /\ credit \in Nat /\ Fails \in Nat \ {0}
  BY ComingNat, CreditBound, InternetAssumption, SMT DEF TypeOK, InternetAssumption
<1>1. UNCHANGED <<part, flag, temp, credit>> /\ bad' = 0 /\ streak' = 0
  BY DEF Ping, PingSucceeds, unit, check
<1>2. Coming' \in Nat /\ Coming' <= Coming
  <2>1. CASE Write("ping1")
    <3>1. One("ping1" = "ping0") = 0 /\ "ping1" \in Writes
      BY DEF One, Writes, Messages
    <3>2. Coming' \in Nat /\ Coming' <= Coming + 0
      BY <1>1, <2>1, <3>1, WriteComing
    <3> QED
      BY <1>0, <3>2, SMT
  <2>2. CASE buf' = buf
    BY <1>0, <1>1, <2>2, SMT DEF Coming
  <2> QED
    BY <2>1, <2>2 DEF PingSucceeds, SayPingOk
<1>3. Coming' <= credit'
  BY <1>0, <1>1, <1>2, SMT DEF Backed
<1>4. ~(streak' < bad') /\ bad' # Fails
  BY <1>0, <1>1, SMT
<1> QED
  BY <1>3, <1>4 DEF Backed

\* The steps that write no ping0, send no notice and count no ping.
LEMMA KeepsBacked ==
  ASSUME TypeOK, Backed, UNCHANGED <<bad, flagNot, streak, credit>>,
         Coming' \in Nat, Coming' <= Coming
  PROVE  Backed'
<1>1. Coming \in Nat /\ credit \in Nat
  BY ComingNat, CreditBound, SMT DEF TypeOK
<1>2. Coming' <= credit'
  BY <1>1, SMT DEF Backed
<1>3. Coming < credit => Coming' < credit'
  BY <1>1, SMT
<1> QED
  BY <1>2, <1>3 DEF Backed

\* Sending uses up the series that a notice had.
LEMMA NoInternetBacked ==
  ASSUME TypeOK, Backed, NoInternet PROVE Backed' /\ credit > 0
<1>1. /\ Cardinality(Ping0s(buf)) \in Nat /\ One(part = "ping0") \in {0, 1}
      /\ Coming \in Nat /\ credit \in Nat
  BY ComingNat, CreditBound, SMT DEF TypeOK
<1>2. One(~flag /\ ~temp) = 1 /\ One(~flag' /\ ~temp') = 0
  BY DEF NoInternet, One
<1>3. UNCHANGED <<buf, part, bad, flagNot, streak>>
  BY DEF NoInternet, input, counters, signs
<1>4. Coming >= 1 /\ Coming' = Coming - 1
  BY <1>1, <1>2, <1>3, SMT DEF Coming
<1>5. credit > 0 /\ Coming <= credit
  BY <1>1, <1>4, SMT DEF Backed
<1>6. credit' = credit - 1
  BY <1>1, <1>5, SMT DEF NoInternet
<1>7. Coming' <= credit'
  BY <1>1, <1>4, <1>5, <1>6, SMT
<1>8. Coming < credit => Coming' < credit'
  BY <1>1, <1>4, <1>6, SMT
<1> QED
  BY <1>3, <1>5, <1>7, <1>8 DEF Backed

LEMMA BackedStep == TypeOK /\ Between /\ Backed /\ [Next]_vars => Backed'
<1> SUFFICES ASSUME TypeOK, Between, Backed, [Next]_vars PROVE Backed'
  OBVIOUS
<1> USE DEF daemon, counters, signs, pings, input, clocks, unit, check, notice
<1>0. Coming \in Nat /\ \A n \in Nat : n <= n /\ n + 0 = n
  BY ComingNat, SMT
<1>1. CASE Ping
  BY <1>1, PingFailsBacked, PingSucceedsBacked DEF Ping
<1>2. CASE Update \/ Command
  <2>1. PICK m \in {"av", "command"} : Write(m)
    BY <1>2 DEF Update, Command
  <2>2. m \in Writes /\ One(m = "ping0") = 0
    BY DEF Writes, One
  <2>3. UNCHANGED <<part, flag, temp, bad, flagNot, streak, credit>>
    BY <1>2 DEF Update, Command
  <2>4. Coming' \in Nat /\ Coming' <= Coming + 0
    BY <2>1, <2>2, <2>3, WriteComing
  <2> QED
    BY <1>0, <2>3, <2>4, KeepsBacked
<1>3. CASE Poll
  <2>1. UNCHANGED <<bad, flagNot, streak, credit>>
    BY <1>3 DEF Poll
  <2> QED
    BY <1>3, <2>1, PollComing, KeepsBacked
<1>4. CASE NoInternet
  BY <1>4, NoInternetBacked
<1>5. CASE InternetOk
  <2>1. UNCHANGED <<buf, part, flag, bad, flagNot, streak, credit>>
    BY <1>5 DEF InternetOk
  <2>2. (~flag' /\ ~temp') = (~flag /\ ~temp)
    BY <1>5 DEF InternetOk, TypeOK
  <2>3. Coming' = Coming
    BY <2>1, <2>2 DEF Coming
  <2> QED
    BY <1>0, <2>1, <2>3, KeepsBacked
<1>6. CASE Lose \/ RestartUnit
  <2>1. UNCHANGED <<bad, flagNot, streak, credit>> /\ buf' = <<>>
    BY <1>6 DEF Lose, RestartUnit
  <2>2. Cardinality(Ping0s(buf')) = 0
    BY <2>1, Ping0sEmpty
  <2>3. One(part' = "ping0") = One(part = "ping0") \/ One(part' = "ping0") = 0
    BY <1>6 DEF Lose, RestartUnit, One
  <2>4. \/ One(~flag' /\ ~temp') = One(~flag /\ ~temp)
        \/ One(~flag' /\ ~temp') = 0
    BY <1>6 DEF Lose, RestartUnit, One
  <2>5. Coming' \in Nat /\ Coming' <= Coming
    BY <2>2, <2>3, <2>4, ComingNat, SMT DEF Coming
  <2> QED
    BY <2>1, <2>5, KeepsBacked
<1>7. CASE RestartDaemon
  <2>1. Coming' = Coming /\ credit' = credit /\ streak' = streak /\ bad' = 0
    BY <1>7 DEF RestartDaemon, Coming
  <2>2. streak \in Nat /\ Fails # 0
    BY InternetAssumption, SMT DEF InternetAssumption, TypeOK
  <2>3. ~(streak' < bad') /\ bad' # Fails
    BY <2>1, <2>2, SMT
  <2> QED
    BY <2>1, <2>3 DEF Backed
<1>8. CASE Reach \/ Second \/ NotYet \/ Report \/ Chatter \/ UNCHANGED vars
  <2>1. UNCHANGED <<buf, part, flag, temp, bad, flagNot, streak, credit>>
    BY <1>8 DEF Reach, Second, NotYet, Report, Chatter, vars
  <2>2. Coming' = Coming
    BY <2>1 DEF Coming
  <2> QED
    BY <1>0, <2>1, <2>2, KeepsBacked
<1> QED
  BY <1>1, <1>2, <1>3, <1>4, <1>5, <1>6, <1>7, <1>8 DEF Next

LEMMA InitBacked == Init => Backed /\ Between
<1> SUFFICES ASSUME Init PROVE Backed /\ Between
  OBVIOUS
<1>1. Between /\ ~flagNot /\ bad = 0 /\ streak = 0 /\ credit = 0
  BY DEF Init, Between
<1>2. /\ Cardinality(Ping0s(buf)) = 0 /\ One(part = "ping0") = 0
      /\ One(~flag /\ ~temp) = 0
  BY Ping0sEmpty DEF Init, One
<1>3. Coming <= credit
  BY <1>1, <1>2, SMT DEF Coming
<1>4. ~(streak < bad) /\ bad # Fails
  BY <1>1, InternetAssumption, SMT DEF InternetAssumption
<1> QED
  BY <1>1, <1>3, <1>4 DEF Backed

\* "No Internet" is sent for a series of Fails failed pings in a row, and never
\* twice for the same series (check_internet, for what ping() in the daemon
\* counts), though messages get lost, stick together or are dropped and both
\* ends restart: for all limits and ring sizes.
THEOREM NoFalseAlarmAlways == Spec => NoFalseAlarm
<1> DEFINE Good == turn' # turn /\ last' = "off" => credit > 0
<1>1. TypeOK /\ Backed /\ [Next]_vars => [Good]_vars
  <2>1. SUFFICES ASSUME TypeOK, Backed, Next, turn' # turn, last' = "off"
                 PROVE  credit > 0
    OBVIOUS
  <2>2. CASE NoInternet
    BY <2>1, <2>2, NoInternetBacked
  <2>3. CASE InternetOk
    BY <2>1, <2>3 DEF InternetOk, Send, notice
  <2>4. CASE RestartUnit
    BY <2>1, <2>4 DEF RestartUnit
  <2> QED
    BY <2>1, <2>2, <2>3, <2>4, Elsewhere DEF Next
<1> QED
  BY InitTypes, InitBacked, TypesStep, BetweenStep, BackedStep, <1>1, PTL
  DEF Spec, NoFalseAlarm

=============================================================================
