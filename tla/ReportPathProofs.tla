-------------------------- MODULE ReportPathProofs --------------------------
(***************************************************************************)
(* The report path with its scheduler: whatever the policy, the sender and *)
(* the console do around it, the scheduler keeps its promises, because the *)
(* path does to it what SchedulerMachine may do, and no more.  The         *)
(* console believes of the device's settings what they are, but for one    *)
(* request that is on its way.  All that is accepted on the wire is bytes, *)
(* and the console reads from them the input that was asked for: buttons,  *)
(* sticks and samples, or the orientation the samples add up to.           *)
(***************************************************************************)
EXTENDS ReportPath, SequenceTheorems, TLAPS

-----------------------------------------------------------------------------
(* The scheduler alone, for every period, horizon and representable instant *)

\* Euclidean division by a positive period, in the form the steps use it.
LEMMA Division ==
    ASSUME NEW d \in Nat, NEW p \in Nat, p # 0
    PROVE  /\ d \div p \in Nat
           /\ d % p \in Nat
           /\ d % p < p
           /\ d = p * (d \div p) + (d % p)
  OBVIOUS

\* A period added once more is one more multiple of it.
LEMMA Distribute ==
    ASSUME NEW a \in Nat, NEW q \in Nat, NEW p \in Nat
    PROVE  /\ a * p + (p * q + p) = (a + q + 1) * p
           /\ (a + q + 1) * p \in Nat
  OBVIOUS

\* What a due step of ReportScheduler computes: the next deadline lies in the
\* future by at most a period, and it is the old one plus a whole number of
\* periods, one for each deadline consumed.
LEMMA StepArithmetic ==
    ASSUME NEW t \in Nat, NEW d \in Nat, NEW p \in Nat, p # 0, IsDue(t, d)
    PROVE  /\ Skipped(t, d, p) \in Nat
           /\ StepDeadline(t, d, p) \in Nat
           /\ t < StepDeadline(t, d, p)
           /\ StepDeadline(t, d, p) <= t + p
           /\ StepDeadline(t, d, p) = d + (p * Skipped(t, d, p) + p)
<1> DEFINE e == t - d
<1>1. e \in Nat
  BY DEF IsDue
<1>2. /\ e \div p \in Nat
      /\ e % p \in Nat
      /\ e % p < p
      /\ e = p * (e \div p) + (e % p)
  BY <1>1, Division
<1>3. p * (e \div p) \in Nat
  BY <1>2
<1> HIDE DEF e
<1>4. /\ t + (p - (e % p)) \in Nat
      /\ t < t + (p - (e % p))
      /\ t + (p - (e % p)) <= t + p
  BY <1>2
<1>5. e = t - d
  BY DEF e
<1>6. t + (p - (e % p)) = d + (p * (e \div p) + p)
  BY <1>1, <1>2, <1>3, <1>5
<1> QED
  BY <1>2, <1>4, <1>5, <1>6 DEF Skipped, StepDeadline, UntilNext

\* The inductive invariant.  OnTime alone is not inductive: that the deadline
\* is ahead of the latest decision needs the decision to be in the past, and
\* the phase of a scheduler that is being started needs that it consumed
\* nothing before.
Idle == period = 0 => ticks = 0 /\ last = -1
IInv == TypeOK /\ PhaseKept /\ OnTime /\ Idle /\ last <= now

\* Every step of SchedulerMachine keeps the inductive invariant.
LEMMA StepKeepsIInv ==
    ASSUME IInv, [Next]_vars
    PROVE  IInv'
<1> USE InstantAssumption, SkippedAssumption, PeriodAssumption, HorizonAssumption
<1> USE DEF IInv, TypeOK, PhaseKept, OnTime, Idle
<1>1. CASE Advance
  BY <1>1 DEF Advance
<1>2. CASE Start
  <2>1. PICK p \in 0..MaxPeriod :
          IF StartOk(now, p)
          THEN /\ period' = p
               /\ next' = StartDeadline(now, p)
               /\ started' = now
          ELSE UNCHANGED <<period, next, started>>
    BY <1>2 DEF Start
  <2>2. CASE ~StartOk(now, p)
    BY <1>2, <2>1, <2>2 DEF Start
  <2>3. CASE StartOk(now, p)
    <3>1. /\ period = 0 /\ ticks = 0 /\ last = -1
          /\ p \in Nat /\ p # 0 /\ now + p <= MaxInstant
          /\ next' = now + p
      BY <1>2, <2>1, <2>3 DEF Start, StartOk, StartDeadline, Addable
    <3>2. (0 + 1) * p = p
      BY <3>1
    <3> QED
      BY <1>2, <2>1, <2>3, <3>1, <3>2 DEF Start
  <2> QED
    BY <2>2, <2>3
<1>3. CASE StepNotDue
  BY <1>3 DEF StepNotDue, vars
<1>4. CASE StepDue
  <2> DEFINE q == Skipped(now, next, period)
  <2>1. /\ now \in Nat /\ next \in Nat /\ period \in Nat /\ period # 0
        /\ IsDue(now, next) /\ ticks \in Nat /\ started \in Nat
    BY <1>4 DEF StepDue
  <2>2. /\ q \in Nat
        /\ next' \in Nat
        /\ now < next'
        /\ next' <= now + period
        /\ next' = next + (period * q + period)
    BY <1>4, <2>1, StepArithmetic DEF StepDue
  <2>3. next' <= MaxInstant
    BY <1>4 DEF StepDue, StepOk, StepDeadline, Addable
  <2>4. ticks' = ticks + 1 + q
    BY <1>4 DEF StepDue
  <2> HIDE DEF q
  <2>5. /\ (ticks + 1) * period + (period * q + period) = ((ticks + 1) + q + 1) * period
        /\ ((ticks + 1) + q + 1) * period \in Nat
        /\ (ticks + 1) * period \in Nat
    BY <2>1, <2>2, Distribute
  <2>6. next' = started + (ticks' + 1) * period
    <3>1. next = started + (ticks + 1) * period
      BY <2>1
    <3>2. ticks' + 1 = (ticks + 1) + q + 1
      BY <2>1, <2>2, <2>4
    <3>3. period * q \in Nat
      BY <2>1, <2>2
    <3> QED
      BY <2>1, <2>2, <2>5, <3>1, <3>2, <3>3
  <2>7. UNCHANGED <<now, period, started>> /\ last' = now
    BY <1>4 DEF StepDue
  <2> QED
    BY <2>1, <2>2, <2>3, <2>4, <2>6, <2>7
<1>5. CASE StepOverflow
  BY <1>5 DEF StepOverflow, vars
<1>6. CASE Stop
  BY <1>6 DEF Stop
<1>7. CASE UNCHANGED vars
  BY <1>7 DEF vars
<1> QED
  BY <1>1, <1>2, <1>3, <1>4, <1>5, <1>6, <1>7 DEF Next

\* The inductive invariant holds in every reachable state.
THEOREM Inductive == Spec => []IInv
<1>1. Init => IInv
  <2> SUFFICES ASSUME Init PROVE IInv
    OBVIOUS
  <2>1. TypeOK
    <3>1. /\ now = 0 /\ period = 0 /\ next = 0 /\ started = 0
          /\ ticks = 0 /\ last = -1
      BY DEF Init
    <3>2. /\ now \in 0..Horizon /\ started \in 0..Horizon /\ last \in -1..Horizon
      BY <3>1, HorizonAssumption
    <3>3. /\ period \in 0..MaxPeriod /\ next \in 0..MaxInstant /\ ticks \in Nat
      BY <3>1, InstantAssumption, PeriodAssumption
    <3> QED
      BY <3>2, <3>3 DEF TypeOK
  <2>2. PhaseKept /\ OnTime /\ Idle /\ last <= now
    BY DEF Init, PhaseKept, OnTime, Idle
  <2> QED
    BY <2>1, <2>2 DEF IInv
<1>2. IInv /\ [Next]_vars => IInv'
  BY StepKeepsIInv
<1> QED
  BY <1>1, <1>2, PTL DEF Spec

\* Automatic reports and bootstrap retries stay on the phase fixed when the
\* scheduler was started, for every period and every overrun.
THEOREM PhaseIsKept == Spec => []PhaseKept
<1>1. IInv => PhaseKept
  BY DEF IInv
<1> QED
  BY <1>1, Inductive, PTL

\* The deadline is always ahead of the latest report by at most a period.
THEOREM DeadlineIsOnTime == Spec => []OnTime
<1>1. IInv => OnTime
  BY DEF IInv
<1> QED
  BY <1>1, Inductive, PTL

\* The scheduler keeps its types and never arms an instant out of range.
THEOREM TypeIsCorrect == Spec => []TypeOK
<1>1. IInv => TypeOK
  BY DEF IInv
<1> QED
  BY <1>1, Inductive, PTL

\* What a step with a decision does, for NoBurst and for the report path.
LEMMA OneDecision ==
    ASSUME IInv, [Next]_vars, period' # 0, last' # last \/ ticks' # ticks
    PROVE  last < now /\ last' = now
<1>1. CASE StepDue
  <2>1. last' = now /\ now >= next /\ period # 0
    BY <1>1 DEF StepDue, IsDue
  <2>2. now \in Nat /\ next \in Nat /\ last \in Int
    BY InstantAssumption, HorizonAssumption DEF IInv, TypeOK
  <2>3. last < next
    BY <2>1, <2>2 DEF IInv, OnTime, TypeOK
  <2> QED
    BY <2>1, <2>2, <2>3
<1>2. CASE Stop
  BY <1>2 DEF Stop
<1>3. CASE ~StepDue /\ ~Stop
  <2>1. UNCHANGED <<ticks, last>>
    BY <1>3 DEF Next, Advance, Start, StepNotDue, StepOverflow, vars
  <2> QED
    BY <2>1
<1> QED
  BY <1>1, <1>2, <1>3

\* However long the worker overran, one instant gives one report.
THEOREM OverrunsDoNotBurst == Spec => NoBurst
<1>1. IInv /\ [Next]_vars
        => [period' # 0 /\ (last' # last \/ ticks' # ticks)
              => last < now /\ last' = now]_vars
  BY OneDecision
<1> QED
  BY <1>1, Inductive, PTL DEF Spec, NoBurst

-----------------------------------------------------------------------------
(* The scheduler inside the path *)

\* Only the clock, start_when_unheld, send_due and a new session touch it.
LEMMA PathStepsScheduler == [PathNext]_pathVars => [Next]_vars
<1> SUFFICES ASSUME [PathNext]_pathVars PROVE [Next]_vars
  OBVIOUS
<1>1. CASE Clock
  BY <1>1 DEF Clock, Next
<1>2. CASE StartReporting
  BY <1>2 DEF StartReporting, Next
<1>3. CASE \E ok \in BOOLEAN : ReportDue(ok)
  BY <1>3 DEF ReportDue, Next
<1>4. CASE Backpressured \/ NothingDue
  BY <1>4 DEF Backpressured, NothingDue, Next
<1>5. CASE NewLink
  BY <1>5 DEF NewLink, Next
<1>6. CASE HandleSilently \/ \E ok \in BOOLEAN : SendNeutral(ok) \/ HandleAnswered(ok)
  BY <1>6 DEF HandleSilently, SendNeutral, HandleAnswered
<1>7. CASE AskAgain \/ Hear \/ \E raw \in OutputReports : Ask(raw)
  BY <1>7 DEF AskAgain, Hear, Ask
<1>8. CASE Client
  BY <1>8 DEF Client, Refused, Commit, CommitAndSend, pathVars
<1>9. CASE UNCHANGED pathVars
  BY <1>9 DEF pathVars
<1> QED
  BY <1>1, <1>2, <1>3, <1>4, <1>5, <1>6, <1>7, <1>8, <1>9 DEF PathNext, Device, Console

\* The report path implements the scheduler alone.
THEOREM PathSchedules == PathSpec => Spec
<1>1. PathInit => Init
  BY DEF PathInit
<1> QED
  BY <1>1, PathStepsScheduler, PTL DEF PathSpec, Spec

\* The automatic report of the Periodic policy keeps its phase over sessions
\* that start and stop it, is decided on within a period, and is never sent
\* twice for one instant, for every period, horizon and console.
THEOREM ReportsArePaced == PathSpec => Paced
<1>1. IInv' => Punctual'
  BY DEF IInv, Punctual
<1>2. IInv /\ [PathNext]_pathVars /\ IInv' => [Punctual']_pathVars
  BY <1>1
<1> QED
  BY <1>1, PathSchedules, Inductive, OverrunsDoNotBurst, PTL DEF Paced

-----------------------------------------------------------------------------
(* What the console believes *)

DeviceSettings == Settings(sender.session)

\* A session and the settings in it are records of these fields.
SessionOf(mode, lights, imu_mode, imu, vibration) ==
    [report_mode |-> mode, player_lights |-> lights, imu_mode |-> imu_mode, imu |-> imu,
     vibration_enabled |-> vibration]
SettingsOf(mode, lights, imu_mode, vibration) ==
    [report_mode |-> mode, player_lights |-> lights, imu_mode |-> imu_mode,
     vibration_enabled |-> vibration]
Fields(session) ==
    \E mode, lights, imu_mode, imu, vibration :
        session = SessionOf(mode, lights, imu_mode, imu, vibration)
Believed(s) ==
    \E mode, lights, imu_mode, vibration : s = SettingsOf(mode, lights, imu_mode, vibration)

\* Nobody waits for an answer: what is still on its way to the device would
\* change nothing, and what is on its way back is not listened to.
NothingAsked ==
    /\ DeviceSettings = host
    /\ \A i \in 1..Len(toDevice) :
          toDevice[i] = NotAsked \/ Acknowledged(DeviceSettings, toDevice[i]) = DeviceSettings

\* One request waits, is on its way any number of times, and was answered if
\* an answer is on its way back.
OneAsked ==
    /\ \A i \in 1..Len(toDevice) : toDevice[i] = asked
    /\ \A i \in 1..Len(toHost) : toHost[i] = asked[11]
    /\ toHost = <<>> => DeviceSettings = host
    /\ toHost # <<>> =>
          /\ DeviceSettings = Acknowledged(host, asked)
          /\ Len(asked) < 12 => Acknowledged(host, asked) = host

SenderShape ==
    /\ \E t, session : sender = [timer |-> t, session |-> session]
    /\ Fields(sender.session)
HostShape == Believed(host)
ConsoleShape ==
    /\ model \in Models /\ SenderShape /\ HostShape
    /\ toDevice \in Seq(OutputReports) /\ asked \in OutputReports \cup {NotAsked}
    /\ toHost \in Seq(0..255)

AckInv ==
    /\ ConsoleShape
    /\ asked = NotAsked => NothingAsked
    /\ asked # NotAsked => OneAsked

\* A step that leaves the sender or the console's belief alone keeps its shape.
LEMMA SenderKept == ASSUME SenderShape, UNCHANGED sender PROVE SenderShape'
BY DEF SenderShape, Fields
LEMMA HostKept == ASSUME HostShape, UNCHANGED host PROVE HostShape'
BY DEF HostShape, Believed

\* To acknowledge a request again changes nothing.
LEMMA AcknowledgedTwice ==
    ASSUME NEW s, Believed(s), NEW raw
    PROVE  /\ Believed(Acknowledged(s, raw))
           /\ Acknowledged(Acknowledged(s, raw), raw) = Acknowledged(s, raw)
<1>1. PICK m, l, i, v : s = SettingsOf(m, l, i, v)
  BY DEF Believed
<1>2. CASE raw[11] = 3
  <2>1. /\ Acknowledged(s, raw) = SettingsOf(raw[12], l, i, v)
        /\ Acknowledged(SettingsOf(raw[12], l, i, v), raw) = SettingsOf(raw[12], l, i, v)
    BY <1>1, <1>2 DEF Acknowledged, SettingsOf
  <2> QED
    BY <2>1 DEF Believed
<1>3. CASE raw[11] = 48
  <2>1. /\ Acknowledged(s, raw) = SettingsOf(m, raw[12], i, v)
        /\ Acknowledged(SettingsOf(m, raw[12], i, v), raw) = SettingsOf(m, raw[12], i, v)
    BY <1>1, <1>3 DEF Acknowledged, SettingsOf
  <2> QED
    BY <2>1 DEF Believed
<1>4. CASE raw[11] = 64
  <2>1. /\ Acknowledged(s, raw) = SettingsOf(m, l, raw[12], v)
        /\ Acknowledged(SettingsOf(m, l, raw[12], v), raw) = SettingsOf(m, l, raw[12], v)
    BY <1>1, <1>4 DEF Acknowledged, SettingsOf
  <2> QED
    BY <2>1 DEF Believed
<1>5. CASE raw[11] = 72
  <2> DEFINE on == raw[12] = 1
  <2>1. /\ Acknowledged(s, raw) = [s EXCEPT !.vibration_enabled = on]
        /\ \A x : Acknowledged(x, raw) = [x EXCEPT !.vibration_enabled = on]
    BY <1>5 DEF Acknowledged
  <2> HIDE DEF on
  <2>2. /\ Acknowledged(s, raw) = SettingsOf(m, l, i, on)
        /\ Acknowledged(SettingsOf(m, l, i, on), raw) = SettingsOf(m, l, i, on)
    BY <1>1, <2>1 DEF SettingsOf
  <2> QED
    BY <2>2 DEF Believed
<1>6. CASE raw[11] \notin {3, 48, 64, 72}
  <2>1. Acknowledged(s, raw) = s
    BY <1>6 DEF Acknowledged
  <2> QED
    BY <2>1
<1> QED
  BY <1>2, <1>3, <1>4, <1>5, <1>6

\* A sequence of so many elements of whatever kind.
IsSeq(s, n) == \E A : s \in Seq(A) /\ Len(s) = n

\* A larger set of elements has the same sequences.
LEMMA Widened ==
    ASSUME NEW A, NEW B, A \subseteq B, NEW s \in Seq(A) PROVE s \in Seq(B)
<1>1. Len(s) \in Nat /\ \A i \in 1..Len(s) : s[i] \in B
  BY ElementOfSeq, LenProperties
<1>2. s = [i \in 1..Len(s) |-> s[i]]
  OBVIOUS
<1> QED
  BY <1>1, <1>2

LEMMA Joined ==
    ASSUME NEW s, NEW t, NEW n \in Nat, NEW k \in Nat, IsSeq(s, n), IsSeq(t, k)
    PROVE  IsSeq(s \o t, n + k)
<1>1. PICK A : s \in Seq(A) /\ Len(s) = n
  BY DEF IsSeq
<1>2. PICK B : t \in Seq(B) /\ Len(t) = k
  BY DEF IsSeq
<1> DEFINE C == A \cup B
<1>3. s \in Seq(C) /\ t \in Seq(C)
  BY <1>1, <1>2, Widened
<1> HIDE DEF C
<1>4. s \o t \in Seq(C) /\ Len(s \o t) = n + k
  BY <1>1, <1>2, <1>3
<1> QED
  BY <1>4 DEF IsSeq

\* Tuples are sequences, and so is a function of 1..n.
LEMMA Tuples ==
    ASSUME NEW a, NEW b, NEW c, NEW d, NEW e, NEW f
    PROVE  IsSeq(<<a>>, 1) /\ IsSeq(<<a, b, c>>, 3) /\ IsSeq(<<a, b, c, d, e, f>>, 6)
<1>1. <<a>> \in Seq({a}) /\ Len(<<a>>) = 1
  OBVIOUS
<1>2. <<a, b, c>> \in Seq({a, b, c}) /\ Len(<<a, b, c>>) = 3
  OBVIOUS
<1>3. <<a, b, c, d, e, f>> \in Seq({a, b, c, d, e, f}) /\ Len(<<a, b, c, d, e, f>>) = 6
  OBVIOUS
<1> QED
  BY <1>1, <1>2, <1>3 DEF IsSeq

\* An input report is 49 bytes long.
LEMMA ReportLength ==
    ASSUME NEW m, NEW state, NEW timer, NEW block
    PROVE  IsSeq(encode_0x30(m, state, timer, block), 49)
<1> DEFINE head == <<ReportId, timer, m.protocol.battery_connection,
                     ButtonByte(m, state.buttons, 3), ButtonByte(m, state.buttons, 4),
                     ButtonByte(m, state.buttons, 5)>>
           byte(i) == Byte(LAMBDA b : IF 8 * (i - 1) + b \in block THEN 1 ELSE 0)
           bytes == [i \in 1..36 |-> byte(i)]
           left_stick == pack_stick(state.left)
           right_stick == pack_stick(state.right)
           vibration == <<m.protocol.vibrator_input>>
<1>1. IsSeq(head, 6) /\ IsSeq(vibration, 1)
  BY Tuples
<1>2. IsSeq(left_stick, 3) /\ IsSeq(right_stick, 3)
  BY Tuples, ZenonT(40) DEF pack_stick
<1>3. encode_0x30(m, state, timer, block)
      = (((head \o left_stick) \o right_stick) \o vibration) \o bytes
  BY DEF encode_0x30, BlockBytes
<1> HIDE DEF byte
<1>4. bytes \in Seq({byte(i) : i \in 1..36}) /\ Len(bytes) = 36
  OBVIOUS
<1>5. IsSeq(bytes, 36)
  BY <1>4 DEF IsSeq
<1> HIDE DEF head, bytes, left_stick, right_stick, vibration
<1>6. IsSeq(head \o left_stick, 6 + 3)
  BY <1>1, <1>2, Joined
<1>7. IsSeq((head \o left_stick) \o right_stick, 9 + 3)
  BY <1>2, <1>6, Joined
<1>8. IsSeq(((head \o left_stick) \o right_stick) \o vibration, 12 + 1)
  BY <1>1, <1>7, Joined
<1>9. IsSeq((((head \o left_stick) \o right_stick) \o vibration) \o bytes, 13 + 36)
  BY <1>5, <1>8, Joined
<1> QED
  BY <1>3, <1>9

\* A concatenation shows the one sequence, then the other.
Begins(r, s, n) == \A i \in 1..n : r[i] = s[i]
Continues(r, s, n, k) == \A i \in 1..k : r[n + i] = s[i]
LEMMA Places ==
    ASSUME NEW s, NEW t, NEW n \in Nat, NEW k \in Nat, IsSeq(s, n), IsSeq(t, k)
    PROVE  Begins(s \o t, s, n) /\ Continues(s \o t, t, n, k)
<1>1. PICK A : s \in Seq(A) /\ Len(s) = n
  BY DEF IsSeq
<1>2. PICK B : t \in Seq(B) /\ Len(t) = k
  BY DEF IsSeq
<1> DEFINE C == A \cup B
<1>3. s \in Seq(C) /\ t \in Seq(C)
  BY <1>1, <1>2, Widened
<1> HIDE DEF C
<1>4. \A i \in 1..n : (s \o t)[i] = s[i]
  BY <1>1, <1>2, <1>3
<1>5. ASSUME NEW i \in 1..k PROVE (s \o t)[n + i] = t[i]
  BY <1>1, <1>2, <1>3
<1> QED
  BY <1>4, <1>5 DEF Begins, Continues

\* Part of a sequence.
LEMMA Part ==
    ASSUME NEW s, NEW n \in Nat, NEW a \in Nat, NEW b \in Nat, IsSeq(s, n),
           1 <= a, a <= b, b <= n
    PROVE  /\ IsSeq(SubSeq(s, a, b), b - a + 1)
           /\ \A i \in 1..(b - a + 1) : SubSeq(s, a, b)[i] = s[a + i - 1]
<1>1. PICK A : s \in Seq(A) /\ Len(s) = n
  BY DEF IsSeq
<1>2. \A i \in a..b : s[i] \in A
  BY <1>1
<1>3. /\ SubSeq(s, a, b) \in Seq(A) /\ Len(SubSeq(s, a, b)) = b - a + 1
      /\ \A i \in 1..(b - a + 1) : SubSeq(s, a, b)[i] = s[a + i - 1]
  BY <1>2, SubSeqProperties
<1> QED
  BY <1>3 DEF IsSeq

\* Two bytes, and zeros that fill a reply.
LEMMA Pair ==
    ASSUME NEW a, NEW b
    PROVE  IsSeq(<<a, b>>, 2) /\ <<a, b>>[1] = a /\ <<a, b>>[2] = b
<1>1. <<a, b>> \in Seq({a, b}) /\ Len(<<a, b>>) = 2
  OBVIOUS
<1> QED
  BY <1>1 DEF IsSeq
LEMMA Filler == ASSUME NEW n \in Nat PROVE IsSeq(Zeros(n), n)
<1>1. Zeros(n) \in Seq({0}) /\ Len(Zeros(n)) = n
  BY DEF Zeros
<1> QED
  BY <1>1 DEF IsSeq

\* A reply is 50 bytes long and shows its data after acknowledgement and id.
LEMMA ReplyBytes ==
    ASSUME NEW m, NEW state, NEW timer, NEW session, NEW id, NEW ack, NEW data,
           NEW n \in Nat, IsSeq(data, n),
           prepare_0x21(m, state, timer, session, id, ack, data).ok
    PROVE  LET reply == prepare_0x21(m, state, timer, session, id, ack, data).value
           IN  /\ reply.session = session
               /\ IsSeq(reply.bytes, 50) /\ reply.bytes[14] = ack /\ reply.bytes[15] = id
               /\ \A i \in 1..n : reply.bytes[15 + i] = data[i] /\ i <= 35
<1> DEFINE e == encode_0x30(m, state, timer, {})
           pad == Padded(data, 35)
           zeros == Zeros(35 - Len(data))
           id13 == <<ReplyId>>
           part == SubSeq(e, 2, 13)
           front == id13 \o part
           pair == <<ack, id>>
           head == front \o pair
           bytes == head \o pad
<1>1. IsSeq(e, 49)
  BY ReportLength
<1>2. n <= 35 /\ Len(data) = n
  BY DEF prepare_0x21, Err, IsSeq
<1>3. prepare_0x21(m, state, timer, session, id, ack, data)
       = Ok([bytes |-> bytes, session |-> session])
  BY <1>2 DEF prepare_0x21
<1>4. IsSeq(zeros, 35 - n)
  BY <1>2, Filler
<1>5. pad = data \o zeros
  BY DEF Padded
<1>6. IsSeq(id13, 1)
  BY Tuples
<1> HIDE DEF e, pad, zeros, id13
<1>7. IsSeq(pad, 35) /\ Begins(pad, data, n)
  <2>1. 35 - n \in Nat /\ n + (35 - n) = 35
    BY <1>2
  <2>2. IsSeq(data \o zeros, n + (35 - n))
    BY <1>4, <2>1, Joined
  <2>3. Begins(data \o zeros, data, n)
    BY <1>4, <2>1, Places
  <2> QED
    BY <1>5, <2>1, <2>2, <2>3
<1>8. IsSeq(part, 13 - 2 + 1)
  BY <1>1, Part
<1> HIDE DEF part
<1>9. IsSeq(front, 1 + 12)
  BY <1>6, <1>8, Joined
<1>10. IsSeq(pair, 2) /\ pair[1] = ack /\ pair[2] = id
  BY Pair
<1> HIDE DEF front, pair
<1>11. IsSeq(head, 13 + 2) /\ head[13 + 1] = ack /\ head[13 + 2] = id
  <2>1. IsSeq(front, 13)
    BY <1>9
  <2> HIDE DEF head
  <2>2. IsSeq(front \o pair, 13 + 2)
    BY <2>1, <1>10, Joined
  <2>3. Continues(front \o pair, pair, 13, 2)
    BY <2>1, <1>10, Places
  <2>4. 1 \in 1..2 /\ 2 \in 1..2
    OBVIOUS
  <2>5. (front \o pair)[13 + 1] = pair[1] /\ (front \o pair)[13 + 2] = pair[2]
    BY <2>3, <2>4, Zenon DEF Continues
  <2> QED
    BY <1>10, <2>2, <2>5 DEF head
<1> HIDE DEF head
<1>12. IsSeq(bytes, 15 + 35) /\ Begins(bytes, head, 15) /\ Continues(bytes, pad, 15, 35)
  <2>1. IsSeq(head, 15)
    BY <1>11
  <2> QED
    BY <1>7, <2>1, Joined, Places
<1>13. prepare_0x21(m, state, timer, session, id, ack, data).value
       = [bytes |-> bytes, session |-> session]
  BY <1>3 DEF Ok
<1> HIDE DEF bytes
<1>14. bytes[14] = ack /\ bytes[15] = id
  BY <1>11, <1>12 DEF Begins
<1>15. \A i \in 1..n : bytes[15 + i] = data[i] /\ i <= 35
  <2> TAKE i \in 1..n
  <2>1. i \in 1..35 /\ i <= 35
    BY <1>2
  <2>2. bytes[15 + i] = pad[i] /\ pad[i] = data[i]
    BY <1>7, <1>12, <2>1, Zenon DEF Begins, Continues
  <2> QED
    BY <2>1, <2>2
<1> QED
  BY <1>12, <1>13, <1>14, <1>15

LEMMA ByteIsNat == ASSUME NEW b \in 0..255 PROVE b \in Nat
  OBVIOUS

\* ProtocolSpec's tables.
LEMMA ModelData ==
    ASSUME NEW m \in Models
    PROVE  /\ m.protocol.device_type \in 0..255 /\ IsSeq(m.protocol.device_info_tail, 2)
           /\ m.protocol.device_info_tail \in Seq(0..255)
           /\ m.protocol.battery_connection = 128 /\ m.protocol.vibrator_input = 0
           /\ m.protocol.pairing_trigger_buttons \in {<<"L", "R">>, <<"SL", "SR">>}
           /\ m.protocol.accelerometer = [zero_raw |-> 0, reference_raw |-> 16384]
           /\ m.protocol.gyroscope = [zero_raw |-> 0, reference_raw |-> 13371]
<1>1. CASE m = Pro
  <2>1. m.protocol = Protocol(3, <<3, 2>>, <<"L", "R">>, <<Grey, White, Blue, Red>>)
    BY <1>1 DEF Pro
  <2>2. IsSeq(<<3, 2>>, 2) /\ <<3, 2>> \in Seq(0..255)
    BY Pair
  <2> QED
    BY <2>1, <2>2 DEF Protocol
<1>2. CASE m = JoyConL
  <2>1. m.protocol = Protocol(1, <<1, 1>>, <<"SL", "SR">>, <<Blue, Grey, Blue, Blue>>)
    BY <1>2 DEF JoyConL
  <2>2. IsSeq(<<1, 1>>, 2) /\ <<1, 1>> \in Seq(0..255)
    BY Pair
  <2> QED
    BY <2>1, <2>2 DEF Protocol
<1>3. CASE m = JoyConR
  <2>1. m.protocol = Protocol(2, <<1, 1>>, <<"SL", "SR">>, <<Red, Grey, Red, Red>>)
    BY <1>3 DEF JoyConR
  <2>2. IsSeq(<<1, 1>>, 2) /\ <<1, 1>> \in Seq(0..255)
    BY Pair
  <2> QED
    BY <2>1, <2>2 DEF Protocol
<1> QED
  BY <1>1, <1>2, <1>3 DEF Models

\* What a subcommand without an effect on the session is answered with.
LEMMA StatelessAnswers ==
    ASSUME NEW m \in Models
    PROVE  /\ IsSeq(device_info_data(m), 12)
           /\ device_info_data(m) \in Seq(0..255) /\ trigger_elapsed_data(m) \in Seq(0..255)
           /\ MCU_CONFIG_DATA \in Seq(0..255) /\ <<>> \in Seq(0..255)
           /\ device_info_data(m)[3] = m.protocol.device_type
           /\ IsSeq(trigger_elapsed_data(m), 14)
           /\ \E i \in 1..13 :
                 trigger_elapsed_data(m)[i] + 256 * trigger_elapsed_data(m)[i + 1] = 300
           /\ IsSeq(MCU_CONFIG_DATA, 34)
           /\ IsSeq(<<>>, 0)
<1>1. IsSeq(device_info_data(m), 12) /\ device_info_data(m)[3] = m.protocol.device_type
  <2> DEFINE type == m.protocol.device_type
             head == <<4, 0, type, 2>>
             tail == m.protocol.device_info_tail
  <2>1. IsSeq(head, 4) /\ head[3] = type
    <3>1. head \in Seq({4, 0, type, 2}) /\ Len(head) = 4
      OBVIOUS
    <3> QED
      BY <3>1 DEF IsSeq
  <2>2. IsSeq(DeviceAddress, 6) /\ IsSeq(tail, 2)
    BY DeviceAddressAssumption, ModelData DEF IsSeq
  <2>3. device_info_data(m) = (head \o DeviceAddress) \o tail
    BY DEF device_info_data
  <2> HIDE DEF head, tail, type
  <2>4. IsSeq(head \o DeviceAddress, 4 + 6) /\ Begins(head \o DeviceAddress, head, 4)
    BY <2>1, <2>2, Joined, Places
  <2> DEFINE front == head \o DeviceAddress
  <2> HIDE DEF front
  <2>5. IsSeq(front, 10) /\ front[3] = type
    <3>1. IsSeq(front, 10) /\ Begins(front, head, 4)
      BY <2>4 DEF front
    <3>2. 3 \in 1..4
      OBVIOUS
    <3> QED
      BY <2>1, <3>1, <3>2, Zenon DEF Begins
  <2>6. IsSeq(front \o tail, 10 + 2) /\ Begins(front \o tail, front, 10)
    BY <2>2, <2>5, Joined, Places
  <2>7. (front \o tail)[3] = front[3]
    <3>1. 3 \in 1..10
      OBVIOUS
    <3> QED
      BY <2>6, <3>1, Zenon DEF Begins
  <2> QED
    BY <2>3, <2>5, <2>6, <2>7 DEF front, type
<1>2. /\ IsSeq(trigger_elapsed_data(m), 14)
      /\ \E i \in 1..13 :
            trigger_elapsed_data(m)[i] + 256 * trigger_elapsed_data(m)[i + 1] = 300
  <2> DEFINE data == trigger_elapsed_data(m)
             triggers == m.protocol.pairing_trigger_buttons
             pressed == {TriggerOffsets[triggers[i]] : i \in 1..Len(triggers)}
             byte(i) == CASE i - 1 \in pressed -> 44 [] i - 2 \in pressed -> 1 [] OTHER -> 0
  <2>1. data = [i \in 1..14 |-> byte(i)]
    BY DEF trigger_elapsed_data
  <2>2. data \in Seq(0..255) /\ Len(data) = 14
    <3>1. \A i \in 1..14 : byte(i) \in 0..255
      OBVIOUS
    <3> HIDE DEF byte
    <3> QED
      BY <2>1, <3>1
  <2>3. data[1] + 256 * data[2] = 300 \/ data[9] + 256 * data[10] = 300
    <3>1. CASE triggers = <<"L", "R">>
      <4>1. pressed = {TriggerOffsets["L"], TriggerOffsets["R"]}
        BY <3>1
      <4>2. pressed = {0, 2}
        BY <4>1 DEF TriggerOffsets
      <4> HIDE DEF pressed
      <4>3. byte(1) = 44 /\ byte(2) = 1
        BY <4>2
      <4> HIDE DEF byte
      <4> QED
        BY <2>1, <4>3
    <3>2. CASE triggers = <<"SL", "SR">>
      <4>1. pressed = {TriggerOffsets["SL"], TriggerOffsets["SR"]}
        BY <3>2
      <4>2. pressed = {8, 10}
        BY <4>1 DEF TriggerOffsets
      <4> HIDE DEF pressed
      <4>3. byte(9) = 44 /\ byte(10) = 1
        BY <4>2
      <4> HIDE DEF byte
      <4> QED
        BY <2>1, <4>3
    <3> QED
      BY <3>1, <3>2, ModelData
  <2> HIDE DEF data
  <2>4. \E i \in 1..13 : data[i] + 256 * data[i + 1] = 300
    <3>1. CASE data[1] + 256 * data[2] = 300
      <4>1. data[1] + 256 * data[1 + 1] = 300 /\ 1 \in 1..13
        BY <3>1
      <4> QED
        BY <4>1
    <3>2. CASE data[9] + 256 * data[10] = 300
      <4>1. data[9] + 256 * data[9 + 1] = 300 /\ 9 \in 1..13
        BY <3>2
      <4> QED
        BY <4>1
    <3> QED
      BY <2>3, <3>1, <3>2
  <2> QED
    BY <2>2, <2>4 DEF data, IsSeq
<1>3. IsSeq(MCU_CONFIG_DATA, 34)
  <2> DEFINE head == <<1, 0, 255, 0, 8, 0, 27, 1>>
             tail == <<200>>
  <2>1. head \in Seq({1, 0, 255, 8, 27}) /\ Len(head) = 8
    OBVIOUS
  <2>2. IsSeq(head, 8) /\ IsSeq(tail, 1) /\ IsSeq(Zeros(25), 25)
    BY <2>1, Tuples, Filler, ZenonT(40) DEF IsSeq
  <2>3. MCU_CONFIG_DATA = (head \o Zeros(25)) \o tail
    BY DEF MCU_CONFIG_DATA
  <2> HIDE DEF head, tail
  <2>4. IsSeq(head \o Zeros(25), 8 + 25)
    BY <2>2, Joined
  <2>5. IsSeq((head \o Zeros(25)) \o tail, 33 + 1)
    BY <2>2, <2>4, Joined
  <2> QED
    BY <2>3, <2>5
<1>4. IsSeq(<<>>, 0)
  <2>1. <<>> \in Seq({}) /\ Len(<<>>) = 0
    OBVIOUS
  <2> QED
    BY <2>1 DEF IsSeq
<1>5. device_info_data(m) \in Seq(0..255)
  <2> DEFINE head == <<4, 0, m.protocol.device_type, 2>>
             tail == m.protocol.device_info_tail
  <2>1. head \in Seq(0..255) /\ tail \in Seq(0..255)
    BY ModelData
  <2>2. DeviceAddress \in Seq(0..255) /\ device_info_data(m) = (head \o DeviceAddress) \o tail
    BY DeviceAddressAssumption DEF device_info_data
  <2> HIDE DEF head, tail
  <2> QED
    BY <2>1, <2>2
<1>6. trigger_elapsed_data(m) \in Seq(0..255)
  BY DEF trigger_elapsed_data
<1>7. MCU_CONFIG_DATA \in Seq(0..255) /\ <<>> \in Seq(0..255)
  <2> DEFINE head == <<1, 0, 255, 0, 8, 0, 27, 1>>
             tail == <<200>>
  <2>1. head \in Seq(0..255) /\ tail \in Seq(0..255) /\ Zeros(25) \in Seq(0..255)
    BY DEF Zeros
  <2>2. MCU_CONFIG_DATA = (head \o Zeros(25)) \o tail
    BY DEF MCU_CONFIG_DATA
  <2> HIDE DEF head, tail, Zeros
  <2> QED
    BY <2>1, <2>2
<1> QED
  BY <1>1, <1>2, <1>3, <1>4, <1>5, <1>6, <1>7

\* Bytes joined are bytes.
LEMMA BytesJoined ==
    ASSUME NEW s \in Seq(0..255), NEW t \in Seq(0..255), NEW n \in Nat, NEW k \in Nat,
           Len(s) = n, Len(t) = k
    PROVE  s \o t \in Seq(0..255) /\ Len(s \o t) = n + k
  OBVIOUS

\* The four colors as the flash holds them.
LEMMA ColorBytes ==
    to_spi_bytes(Colors) \in Seq(0..255) /\ Len(to_spi_bytes(Colors)) = 12
<1>1. ASSUME NEW i \in 1..4 PROVE Colors[i] \in Seq(0..255) /\ Len(Colors[i]) = 3
  BY PathAssumption, ElementOfSeq
<1> DEFINE a == Colors[1]  b == Colors[2]  c == Colors[3]  d == Colors[4]
<1>2. /\ a \in Seq(0..255) /\ b \in Seq(0..255) /\ c \in Seq(0..255) /\ d \in Seq(0..255)
      /\ Len(a) = 3 /\ Len(b) = 3 /\ Len(c) = 3 /\ Len(d) = 3
  BY <1>1
<1>3. to_spi_bytes(Colors) = ((a \o b) \o c) \o d
  BY DEF to_spi_bytes
<1> HIDE DEF a, b, c, d
<1>4. a \o b \in Seq(0..255) /\ Len(a \o b) = 3 + 3
  <2>1. a \in Seq(0..255) /\ b \in Seq(0..255)
    BY <1>2
  <2>2. Len(a) = 3 /\ Len(b) = 3
    BY <1>2
  <2>3. a \o b \in Seq(0..255)
    BY <2>1
  <2>4. Len(a \o b) = Len(a) + Len(b)
    BY <2>1
  <2>5. Len(a \o b) = 3 + 3
    BY <2>2, <2>4
  <2> QED
    BY <2>3, <2>5
<1>5. (a \o b) \o c \in Seq(0..255) /\ Len((a \o b) \o c) = 6 + 3
  BY <1>2, <1>4, BytesJoined
<1>6. ((a \o b) \o c) \o d \in Seq(0..255) /\ Len(((a \o b) \o c) \o d) = 9 + 3
  BY <1>2, <1>5, BytesJoined
<1> QED
  BY <1>3, <1>6

\* The adapter's address, byte by byte.
LEMMA AddressIsNat ==
    ASSUME NEW payload \in Seq(0..255), Len(payload) >= 5
    PROVE  SpiAddress(payload) \in Nat /\ payload[5] \in Nat
<1>1. ASSUME NEW i \in 1..5 PROVE payload[i] \in Nat
  <2>1. i \in 1..Len(payload)
    OBVIOUS
  <2> QED
    BY <2>1, ElementOfSeq, ByteIsNat, Zenon
<1>2. 1 \in 1..5 /\ 2 \in 1..5 /\ 3 \in 1..5 /\ 4 \in 1..5 /\ 5 \in 1..5
  OBVIOUS
<1>3. payload[1] \in Nat /\ payload[2] \in Nat /\ payload[3] \in Nat
      /\ payload[4] \in Nat /\ payload[5] \in Nat
  BY <1>1, <1>2
<1> DEFINE b1 == payload[1]  b2 == payload[2]  b3 == payload[3]  b4 == payload[4]
           sum == b1 + 256 * b2 + 65536 * b3 + 16777216 * b4
<1>4. SpiAddress(payload) = sum
  BY DEF SpiAddress
<1>5. b1 \in Nat /\ b2 \in Nat /\ b3 \in Nat /\ b4 \in Nat
  BY <1>3
<1> HIDE DEF b1, b2, b3, b4
<1>6. sum \in Nat
  BY <1>5
<1> HIDE DEF sum
<1> QED
  BY <1>3, <1>4, <1>6, Zenon

\* The flash a controller reads from holds bytes.
LEMMA FlashBytes ==
    ASSUME NEW m \in Models, NEW a \in Nat PROVE byte_at(m, Colors, a) \in 0..255
<1> DEFINE accelerometer == m.protocol.accelerometer
           gyroscope == m.protocol.gyroscope
           colors == to_spi_bytes(Colors)
<1>1. ASSUME NEW v \in Nat, v < 65536, NEW k
      PROVE  calibration_byte([zero_raw |-> 0, reference_raw |-> v], k) \in 0..255
  <2> DEFINE c == [zero_raw |-> 0, reference_raw |-> v]
             value == IF k \div 2 < 3 THEN c.zero_raw ELSE c.reference_raw
  <2>1. value = 0 \/ value = v
    OBVIOUS
  <2>2. calibration_byte(c, k) = IF k % 2 = 0 THEN value % 256 ELSE value \div 256
    BY DEF calibration_byte
  <2> HIDE DEF value, c
  <2>3. /\ 0 % 256 \in 0..255 /\ 0 \div 256 \in 0..255
        /\ v % 256 \in 0..255 /\ v \div 256 \in 0..255
    BY <1>1
  <2>4. value % 256 \in 0..255 /\ value \div 256 \in 0..255
    BY <2>1, <2>3, Zenon
  <2>5. calibration_byte(c, k) \in 0..255
    BY <2>2, <2>4, Zenon
  <2> QED
    BY <2>5 DEF c
<1>2. /\ accelerometer = [zero_raw |-> 0, reference_raw |-> 16384]
      /\ gyroscope = [zero_raw |-> 0, reference_raw |-> 13371]
      /\ 16384 \in Nat /\ 16384 < 65536 /\ 13371 \in Nat /\ 13371 < 65536
  BY ModelData
<1>3. \A k : calibration_byte(accelerometer, k) \in 0..255
             /\ calibration_byte(gyroscope, k) \in 0..255
  <2> HIDE DEF accelerometer, gyroscope
  <2> QED
    BY <1>1, <1>2
<1>4. ASSUME a \in 24656..24667 PROVE colors[a - 24656 + 1] \in 0..255
  <2>1. colors \in Seq(0..255) /\ Len(colors) = 12
    BY ColorBytes
  <2> HIDE DEF colors
  <2>2. PICK i \in 1..12 : i = a - 24656 + 1
    BY <1>4
  <2>3. colors[i] \in 0..255
    BY <2>1, ElementOfSeq
  <2> QED
    BY <2>2, <2>3
<1>5. m.protocol.device_type \in 0..255 /\ 1 \in 0..255 /\ Erased \in 0..255
  BY ModelData DEF Erased
<1> HIDE DEF accelerometer, gyroscope, colors
<1>6. CASE a \in 24608..24619
  <2>1. byte_at(m, Colors, a) = calibration_byte(accelerometer, a - 24608)
    BY <1>6 DEF byte_at, accelerometer
  <2> QED
    BY <1>3, <2>1
<1>7. CASE a \in 24620..24631
  <2>1. byte_at(m, Colors, a) = calibration_byte(gyroscope, a - 24620)
    BY <1>7 DEF byte_at, gyroscope
  <2> QED
    BY <1>3, <2>1
<1>8. CASE a \in 24656..24667
  <2>1. byte_at(m, Colors, a) = colors[a - 24656 + 1]
    BY <1>8 DEF byte_at, colors
  <2> QED
    BY <1>4, <1>8, <2>1
<1>9. CASE ~(a \in 24608..24619 \/ a \in 24620..24631 \/ a \in 24656..24667)
  BY <1>5, <1>9 DEF byte_at
<1> QED
  BY <1>6, <1>7, <1>8, <1>9

\* What the reply to a request is made of.
Fits(m, req, data, n) ==
    /\ req.id = 2 => n = 12 /\ data[3] = m.protocol.device_type
    /\ req.id = 4 => n = 14 /\ \E i \in 1..13 : data[i] + 256 * data[i + 1] = 300
    /\ req.id = 16 =>
          LET size == req.payload[5]   address == SpiAddress(req.payload)
          IN  /\ Len(req.payload) >= 5 /\ n = 5 + size
              /\ size <= 29 /\ address + size <= 524288
              /\ Begins(data, req.payload, 5)
              /\ \A i \in 1..size : data[5 + i] = byte_at(m, Colors, address + i - 1)
Establishes(m, req, session, settled) ==
    LET set == NextSession(m, session, req.id, req.payload[1])
    IN  /\ req.id \in Stateful => req.payload # <<>> /\ set.ok /\ settled = set.value
        /\ req.id \notin Stateful => settled = session
Made(m, req, state, timer, session, answered) ==
    \E settled, data : \E ack \in 128..255, n \in Nat :
        /\ IsSeq(data, n) /\ data \in Seq(0..255)
        /\ Fits(m, req, data, n) /\ Establishes(m, req, session, settled)
        /\ answered = prepare_0x21(m, state, timer, settled, req.id, ack, data)

\* Every answer acknowledges, with the data its request asks for.
LEMMA ReplyMade ==
    ASSUME NEW m \in Models, NEW state, NEW timer, NEW session, NEW req,
           req.payload \in Seq(0..255),
           prepare_subcommand(m, Colors, req, state, timer, session).ok
    PROVE  Made(m, req, state, timer, session,
                prepare_subcommand(m, Colors, req, state, timer, session))
<1> DEFINE answered == prepare_subcommand(m, Colors, req, state, timer, session)
<1> SUFFICES Made(m, req, state, timer, session, answered)
  OBVIOUS
<1>1. ASSUME NEW settled, NEW data, NEW ack \in 128..255, NEW n \in Nat,
             IsSeq(data, n), data \in Seq(0..255),
             Fits(m, req, data, n), Establishes(m, req, session, settled),
             answered = prepare_0x21(m, state, timer, settled, req.id, ack, data)
      PROVE  Made(m, req, state, timer, session, answered)
  <2> HIDE DEF answered
  <2> QED
    BY <1>1, Zenon DEF Made
<1>2. 128 \in 128..255 /\ 130 \in 128..255 /\ 131 \in 128..255 /\ 144 \in 128..255
      /\ 160 \in 128..255
  OBVIOUS
<1>3. 0 \in Nat /\ 12 \in Nat /\ 14 \in Nat /\ 34 \in Nat
  OBVIOUS
<1>4. ASSUME req.id \notin Stateful PROVE Establishes(m, req, session, session)
  BY <1>4 DEF Establishes
<1>5. CASE req.id \in Stateless
  <2>1. answered = try_prepare_stateless_reply(m, state, timer, session, req)
    BY <1>5 DEF prepare_subcommand, SpiRead, Stateless, Stateful
  <2>2. Establishes(m, req, session, session)
    BY <1>4, <1>5 DEF Stateless, Stateful
  <2> DEFINE stateless(ack, data) ==
               prepare_0x21(m, state, timer, session, req.id, ack, data)
  <2>3. CASE req.id = 2
    <3>1. answered = stateless(130, device_info_data(m))
      BY <2>1, <2>3 DEF try_prepare_stateless_reply
    <3>2. Fits(m, req, device_info_data(m), 12)
      BY <2>3, StatelessAnswers DEF Fits
    <3> HIDE DEF answered
    <3> QED
      BY <1>1, <1>2, <1>3, <2>2, <3>1, <3>2, StatelessAnswers
  <2>4. CASE req.id = 4
    <3>1. answered = stateless(131, trigger_elapsed_data(m))
      BY <2>1, <2>4 DEF try_prepare_stateless_reply
    <3>2. Fits(m, req, trigger_elapsed_data(m), 14)
      BY <2>4, StatelessAnswers DEF Fits
    <3> HIDE DEF answered
    <3> QED
      BY <1>1, <1>2, <1>3, <2>2, <3>1, <3>2, StatelessAnswers
  <2>5. CASE req.id = 8 \/ req.id = 34
    <3>1. answered = stateless(128, <<>>)
      BY <2>1, <2>5 DEF try_prepare_stateless_reply, Err
    <3>2. Fits(m, req, <<>>, 0)
      BY <2>5 DEF Fits
    <3>3. IsSeq(<<>>, 0) /\ <<>> \in Seq(0..255)
      BY StatelessAnswers
    <3> HIDE DEF answered
    <3> QED
      BY <1>1, <1>2, <1>3, <2>2, <3>1, <3>2, <3>3
  <2>6. CASE req.id = 33
    <3>1. answered = stateless(160, MCU_CONFIG_DATA)
      BY <2>1, <2>6 DEF try_prepare_stateless_reply
    <3>2. Fits(m, req, MCU_CONFIG_DATA, 34)
      BY <2>6 DEF Fits
    <3> HIDE DEF answered
    <3> QED
      BY <1>1, <1>2, <1>3, <2>2, <3>1, <3>2, StatelessAnswers
  <2> QED
    BY <1>5, <2>3, <2>4, <2>5, <2>6 DEF Stateless
<1>6. CASE req.id = SpiRead
  <2> DEFINE payload == req.payload
             address == SpiAddress(payload)
             size == payload[5]
             found == read(m, Colors, address, size)
             data == SubSeq(payload, 1, 5) \o found.value
             flash(i) == byte_at(m, Colors, address + i - 1)
  <2>1. answered = try_prepare_spi_reply(m, Colors, state, timer, session, req)
    BY <1>6 DEF prepare_subcommand, SpiRead, Stateless, Stateful
  <2>2. Len(payload) >= 5 /\ found.ok
    BY <2>1 DEF try_prepare_spi_reply, Err
  <2>3. answered = prepare_0x21(m, state, timer, session, req.id, 144, data)
    BY <2>1, <2>2 DEF try_prepare_spi_reply
  <2>4. size \in 0..255
    <3>1. 5 \in 1..Len(payload)
      BY <2>2
    <3> QED
      BY <3>1, ElementOfSeq, Zenon
  <2>5. /\ size <= 29 /\ address + size <= 524288
        /\ found.value = [i \in 1..size |-> flash(i)]
    <3> HIDE DEF address, size, payload
    <3>1. found = read(m, Colors, address, size) /\ found.ok
      BY <2>2
    <3>2. (size > 29) = ~(size <= 29)
      BY <2>4
    <3> HIDE DEF found, data
    <3>3. ~(size > 29) /\ Inside(address, size)
      BY <3>1, <3>2, Zenon DEF read, MAX_READ_SIZE, Err
    <3>4. found = Ok([i \in 1..size |-> flash(i)])
      BY <3>1, <3>3 DEF read, MAX_READ_SIZE
    <3> QED
      BY <3>2, <3>3, <3>4 DEF Ok, Inside, AddressLimit
  <2>6. PICK n \in Nat : n = size
    <3>1. size \in Nat
      BY <2>4, ByteIsNat, Zenon
    <3> QED
      BY <3>1, Zenon
  <2>7. /\ IsSeq(found.value, n) /\ found.value \in Seq(0..255)
        /\ \A i \in 1..n : found.value[i] = flash(i)
    <3>1. ASSUME NEW i \in 1..n PROVE flash(i) \in 0..255
      <4> HIDE DEF address
      <4>1. address + i - 1 \in Nat
        BY <2>2, AddressIsNat DEF address
      <4> QED
        BY <4>1, FlashBytes
    <3>2. found.value = [i \in 1..n |-> flash(i)]
      BY <2>5, <2>6
    <3> HIDE DEF found, flash
    <3>3. found.value \in Seq(0..255) /\ Len(found.value) = n
      BY <3>1, <3>2
    <3> QED
      BY <3>2, <3>3 DEF IsSeq
  <2>8. IsSeq(SubSeq(payload, 1, 5), 5) /\ Begins(SubSeq(payload, 1, 5), payload, 5)
    <3>1. PICK l \in Nat : l = Len(payload)
      OBVIOUS
    <3>2. IsSeq(payload, l) /\ 5 <= l
      BY <2>2, <3>1 DEF IsSeq
    <3> HIDE DEF payload
    <3>3. /\ IsSeq(SubSeq(payload, 1, 5), 5 - 1 + 1)
          /\ \A i \in 1..(5 - 1 + 1) : SubSeq(payload, 1, 5)[i] = payload[1 + i - 1]
      BY <3>2, Part
    <3> QED
      BY <3>3 DEF Begins
  <2> HIDE DEF found, flash, address
  <2> DEFINE echo == SubSeq(payload, 1, 5)
  <2> HIDE DEF echo
  <2>9. /\ IsSeq(echo \o found.value, 5 + n) /\ Begins(echo \o found.value, echo, 5)
        /\ Continues(echo \o found.value, found.value, 5, n)
    BY <2>7, <2>8, Joined, Places DEF echo
  <2>10. data = echo \o found.value
    BY DEF echo
  <2> HIDE DEF data
  <2>11. IsSeq(data, 5 + n) /\ Begins(data, payload, 5)
    BY <2>8, <2>9, <2>10 DEF Begins, echo
  <2>12. \A i \in 1..n : data[5 + i] = flash(i)
    BY <2>7, <2>9, <2>10, Zenon DEF Continues
  <2>13. Fits(m, req, data, 5 + n)
    <3>1. \A i \in 1..size : data[5 + i] = byte_at(m, Colors, address + i - 1)
      BY <2>6, <2>12 DEF flash
    <3> QED
      BY <1>6, <2>2, <2>5, <2>6, <2>11, <3>1 DEF Fits, SpiRead, address
  <2>14. 5 + n \in Nat
    OBVIOUS
  <2>15. Establishes(m, req, session, session)
    BY <1>4, <1>6 DEF SpiRead, Stateful
  <2>16. data \in Seq(0..255)
    <3>1. ASSUME NEW i \in 1..5 PROVE payload[i] \in 0..255
      <4>1. i \in 1..Len(payload)
        BY <2>2
      <4> QED
        BY <4>1, ElementOfSeq, Zenon
    <3> HIDE DEF payload
    <3>2. echo \in Seq(0..255)
      BY <3>1, SubSeqProperties DEF echo
    <3> QED
      BY <2>7, <2>10, <3>2
  <2> HIDE DEF answered
  <2> QED
    BY <1>1, <1>2, <2>3, <2>11, <2>13, <2>14, <2>15, <2>16
<1>7. CASE req.id \in Stateful
  <2> DEFINE set == NextSession(m, session, req.id, req.payload[1])
  <2>1. answered = try_prepare_stateful_reply(m, state, timer, session, req)
    BY <1>7 DEF prepare_subcommand, SpiRead, Stateless, Stateful
  <2>2. req.payload # <<>> /\ set.ok
    BY <2>1 DEF try_prepare_stateful_reply, Err
  <2>3. answered = prepare_0x21(m, state, timer, set.value, req.id, 128, <<>>)
    BY <2>1, <2>2 DEF try_prepare_stateful_reply
  <2>4. Fits(m, req, <<>>, 0)
    BY <1>7 DEF Fits, Stateful
  <2>5. IsSeq(<<>>, 0) /\ <<>> \in Seq(0..255)
    BY StatelessAnswers
  <2>6. Establishes(m, req, session, set.value)
    BY <1>7, <2>2 DEF Establishes
  <2> HIDE DEF answered, set
  <2> QED
    BY <1>1, <1>2, <1>3, <2>3, <2>4, <2>5, <2>6
<1>8. CASE req.id \notin Stateless \cup {SpiRead} \cup Stateful
  BY <1>8 DEF prepare_subcommand, Err
<1> QED
  BY <1>5, <1>6, <1>7, <1>8

\* The session a reply carries is the one the request asks for.
LEMMA ReplySession ==
    ASSUME NEW m \in Models, NEW state, NEW timer, NEW session, NEW req,
           req.payload \in Seq(0..255),
           prepare_subcommand(m, Colors, req, state, timer, session).ok
    PROVE  LET reply == prepare_subcommand(m, Colors, req, state, timer, session).value
           IN  reply.bytes[15] = req.id /\ Establishes(m, req, session, reply.session)
<1> DEFINE answered == prepare_subcommand(m, Colors, req, state, timer, session)
<1>1. answered.ok /\ Made(m, req, state, timer, session, answered)
  BY ReplyMade
<1> HIDE DEF answered
<1>2. PICK settled, data : \E ack \in 128..255, n \in Nat :
          /\ IsSeq(data, n) /\ Fits(m, req, data, n) /\ Establishes(m, req, session, settled)
          /\ answered = prepare_0x21(m, state, timer, settled, req.id, ack, data)
  BY <1>1 DEF Made
<1>3. answered.value.bytes[15] = req.id /\ answered.value.session = settled
  BY <1>1, <1>2, ReplyBytes
<1> QED
  BY <1>2, <1>3 DEF answered

LEMMA SettingsOfSession ==
    ASSUME NEW mode, NEW lights, NEW imu_mode, NEW imu, NEW vibration
    PROVE  /\ Fields(SessionOf(mode, lights, imu_mode, imu, vibration))
           /\ Settings(SessionOf(mode, lights, imu_mode, imu, vibration))
              = SettingsOf(mode, lights, imu_mode, vibration)
BY DEF Fields, Settings, SettingsOf, SessionOf

\* A report that is answered was parsed as a request.
RequestOf(raw) ==
    [kind |-> "subcommand", packet_id |-> raw[2], rumble |-> SubSeq(raw, 3, 10),
     id |-> raw[11], payload |-> SubSeq(raw, 12, Len(raw))]
LEMMA ParsedRequest ==
    ASSUME NEW raw \in OutputReports, Answer(raw).ok
    PROVE  LET req == RequestOf(raw)
           IN  /\ Len(raw) >= 11 /\ raw # <<>> /\ raw[11] \in 0..255
               /\ Answer(raw) = prepare_subcommand(model, Colors, req, ReplyState,
                                                   sender.timer, sender.session)
               /\ req.payload = SubSeq(raw, 12, Len(raw)) /\ req.payload \in Seq(0..255)
               /\ req.id = raw[11]
<1> DEFINE req == RequestOf(raw)
<1>1. raw \in Seq(0..255)
  BY PathAssumption
<1>2. parse_output_report(raw) = Ok(req) /\ Len(raw) >= 11 /\ raw # <<>>
  BY DEF Answer, parse_output_report, parse_subcommand_report, parse_rumble_report,
         require_length, Ok, Err, RequestOf
<1>3. Answer(raw) = prepare_subcommand(model, Colors, req, ReplyState,
                                       sender.timer, sender.session)
  BY <1>2 DEF Answer, Ok, RequestOf
<1>4. ASSUME NEW i \in 11..Len(raw) PROVE raw[i] \in 0..255
  <2>1. i \in 1..Len(raw)
    BY <1>1
  <2> QED
    BY <1>1, <2>1, ElementOfSeq, Zenon
<1>5. SubSeq(raw, 12, Len(raw)) \in Seq(0..255) /\ raw[11] \in 0..255
  <2>1. SubSeq(raw, 12, Len(raw)) \in Seq(0..255)
    BY <1>1, <1>4, SubSeqProperties
  <2> QED
    BY <1>2, <1>4, <2>1
<1>6. req.payload = SubSeq(raw, 12, Len(raw)) /\ req.id = raw[11]
  BY DEF RequestOf
<1> HIDE DEF req
<1> QED
  BY <1>2, <1>3, <1>5, <1>6 DEF req

\* What handle_output makes of a report it answers: the reply acknowledges its
\* subcommand, and establishes what the console will take it for.
LEMMA AnswerEffect ==
    ASSUME model \in Models, Fields(sender.session), NEW raw \in OutputReports,
           Answer(raw).ok
    PROVE  LET reply == Answer(raw).value
           IN  /\ raw # NotAsked /\ raw[11] \in 0..255
               /\ reply.bytes[15] = raw[11]
               /\ Fields(reply.session)
               /\ Settings(reply.session) = Acknowledged(DeviceSettings, raw)
               /\ Len(raw) < 12 => \A s : Acknowledged(s, raw) = s
<1> DEFINE session == sender.session
           reply == Answer(raw).value
           req == RequestOf(raw)
           set == NextSession(model, session, raw[11], SubSeq(raw, 12, Len(raw))[1])
<1>1. raw \in Seq(0..255)
  BY PathAssumption
<1>2. Len(raw) >= 11 /\ raw # <<>> /\ raw[11] \in 0..255
  BY ParsedRequest
<1>3. /\ Answer(raw) = prepare_subcommand(model, Colors, req, ReplyState, sender.timer, session)
      /\ req.payload = SubSeq(raw, 12, Len(raw)) /\ req.payload \in Seq(0..255)
      /\ req.id = raw[11]
  BY ParsedRequest
<1> HIDE DEF req
<1>4. reply.bytes[15] = req.id /\ Establishes(model, req, session, reply.session)
  <2> DEFINE answered == prepare_subcommand(model, Colors, req, ReplyState, sender.timer,
                                            session)
  <2>1. answered.ok /\ reply = answered.value
    BY <1>3
  <2>2. answered.value.bytes[15] = req.id
        /\ Establishes(model, req, session, answered.value.session)
    BY <1>3, <2>1, ReplySession
  <2> HIDE DEF answered, reply
  <2> QED
    BY <2>1, <2>2
<1>5. /\ reply.bytes[15] = raw[11]
      /\ raw[11] \in Stateful =>
            SubSeq(raw, 12, Len(raw)) # <<>> /\ set.ok /\ reply.session = set.value
      /\ raw[11] \notin Stateful => reply.session = session
  <2> HIDE DEF reply, session
  <2> QED
    BY <1>3, <1>4 DEF Establishes
<1> HIDE DEF reply
<1>6. CASE raw[11] \notin Stateful
  <2>1. \A s : Acknowledged(s, raw) = s
    BY <1>6 DEF Acknowledged, Stateful
  <2>2. reply.session = sender.session
    BY <1>5, <1>6
  <2> QED
    BY <1>2, <1>5, <2>1, <2>2 DEF DeviceSettings, NotAsked, reply
<1>7. CASE raw[11] \in Stateful
  <2>1. Len(raw) >= 12 /\ SubSeq(raw, 12, Len(raw))[1] = raw[12]
    BY <1>1, <1>2, <1>5, <1>7
  <2>2. set = NextSession(model, session, raw[11], raw[12])
    BY <2>1
  <2> HIDE DEF set
  <2>3. reply.session = set.value /\ set.ok
    BY <1>5, <1>7
  <2>4. PICK mode, lights, imu_mode, imu, vibration :
             session = SessionOf(mode, lights, imu_mode, imu, vibration)
    BY DEF Fields
  <2> DEFINE v == raw[12]
             Established == Fields(reply.session)
                            /\ Settings(reply.session) = Acknowledged(DeviceSettings, raw)
  <2>5. DeviceSettings = SettingsOf(mode, lights, imu_mode, vibration)
    BY <2>4 DEF DeviceSettings, Settings, SettingsOf, SessionOf
  <2>6. ASSUME raw[11] = 3
       PROVE  Established
    <3>1. set.value = with_report_mode(session, v)
      BY <2>2, <2>6 DEF NextSession, Ok
    <3>2. reply.session = SessionOf(v, lights, imu_mode, imu, vibration)
      BY <2>3, <2>4, <3>1 DEF with_report_mode, SessionOf
    <3>3. Acknowledged(DeviceSettings, raw) = SettingsOf(v, lights, imu_mode, vibration)
      BY <2>5, <2>6 DEF Acknowledged, SettingsOf
    <3>4. /\ Fields(SessionOf(v, lights, imu_mode, imu, vibration))
          /\ Settings(SessionOf(v, lights, imu_mode, imu, vibration)) = SettingsOf(v, lights, imu_mode, vibration)
      BY SettingsOfSession
    <3> QED
      BY <3>2, <3>3, <3>4, Zenon
  <2>7. ASSUME raw[11] = 48
       PROVE  Established
    <3>1. set.value = with_player_lights(session, v)
      BY <2>2, <2>7 DEF NextSession, Ok
    <3>2. reply.session = SessionOf(mode, v, imu_mode, imu, vibration)
      BY <2>3, <2>4, <3>1 DEF with_player_lights, SessionOf
    <3>3. Acknowledged(DeviceSettings, raw) = SettingsOf(mode, v, imu_mode, vibration)
      BY <2>5, <2>7 DEF Acknowledged, SettingsOf
    <3>4. /\ Fields(SessionOf(mode, v, imu_mode, imu, vibration))
          /\ Settings(SessionOf(mode, v, imu_mode, imu, vibration)) = SettingsOf(mode, v, imu_mode, vibration)
      BY SettingsOfSession
    <3> QED
      BY <3>2, <3>3, <3>4, Zenon
  <2>8. ASSUME raw[11] = 64
       PROVE  Established
    <3>1. set.value = with_imu_mode(session, v)
      BY <2>2, <2>3, <2>8 DEF NextSession, Ok, Err
    <3>2. reply.session = SessionOf(mode, lights, v, IdentityState, vibration)
      <4> HIDE DEF v
      <4>1. set.value = [[session EXCEPT !.imu_mode = v] EXCEPT !.imu = IdentityState]
        BY <3>1 DEF with_imu_mode
      <4>2. [session EXCEPT !.imu_mode = v] = SessionOf(mode, lights, v, imu, vibration)
        BY <2>4 DEF SessionOf
      <4> QED
        BY <2>3, <4>1, <4>2, ZenonT(40) DEF SessionOf
    <3>3. Acknowledged(DeviceSettings, raw) = SettingsOf(mode, lights, v, vibration)
      BY <2>5, <2>8 DEF Acknowledged, SettingsOf
    <3>4. /\ Fields(SessionOf(mode, lights, v, IdentityState, vibration))
          /\ Settings(SessionOf(mode, lights, v, IdentityState, vibration)) = SettingsOf(mode, lights, v, vibration)
      BY SettingsOfSession
    <3> QED
      BY <3>2, <3>3, <3>4, Zenon
  <2>9. ASSUME raw[11] = 72
       PROVE  Established
    <3> DEFINE on == v = 1
    <3>1. set.value = with_vibration_enabled(session, on)
      BY <2>2, <2>3, <2>9 DEF NextSession, Ok, Err
    <3>2. Acknowledged(DeviceSettings, raw) = [DeviceSettings EXCEPT !.vibration_enabled = on]
      BY <2>9 DEF Acknowledged
    <3> HIDE DEF on
    <3>3. reply.session = SessionOf(mode, lights, imu_mode, imu, on)
      BY <2>3, <2>4, <3>1 DEF with_vibration_enabled, SessionOf
    <3>4. Acknowledged(DeviceSettings, raw) = SettingsOf(mode, lights, imu_mode, on)
      BY <2>5, <3>2 DEF SettingsOf
    <3> QED
      BY <3>3, <3>4, SettingsOfSession, Zenon
  <2>10. Fields(reply.session) /\ Settings(reply.session) = Acknowledged(DeviceSettings, raw)
    BY <1>7, <2>6, <2>7, <2>8, <2>9 DEF Stateful
  <2> QED
    BY <1>2, <1>4, <1>5, <2>1, <2>10 DEF NotAsked, reply
<1> QED
  BY <1>6, <1>7

\* What the sender holds is a timer and a session.
LEMMA Commits ==
    ASSUME NEW ok \in BOOLEAN, NEW session, Fields(session), ConsoleShape,
           sender' = CommitSender(ok, session)
    PROVE  /\ SenderShape'
           /\ ok => DeviceSettings' = Settings(session)
           /\ ~ok => DeviceSettings' = DeviceSettings
<1>1. CASE ok
  <2>1. sender' = [timer |-> NextTimer, session |-> session]
    BY <1>1 DEF CommitSender
  <2>2. sender'.session = session
    BY <2>1
  <2>3. SenderShape'
    BY <2>1, <2>2 DEF SenderShape, Fields
  <2>4. DeviceSettings' = Settings(session)
    BY <2>2 DEF DeviceSettings, Settings
  <2> QED
    BY <1>1, <2>3, <2>4
<1>2. CASE ~ok
  <2>1. sender' = sender
    BY <1>2 DEF CommitSender
  <2> QED
    BY <1>2, <2>1, SenderKept DEF ConsoleShape, DeviceSettings, Settings
<1> QED
  BY <1>1, <1>2

\* An input report changes the orientation of a session, no setting of it.
LEMMA InputKeepsSettings ==
    ASSUME AckInv, NEW state, NEW of, NEW ok \in BOOLEAN, send_input(state, of, ok),
           UNCHANGED <<model, console>>
    PROVE  AckInv'
<1> DEFINE imu == encode_imu_block(sender.session.imu, sender.session.imu_mode,
                                   state.frames, now)
           session == with_imu_encoding_state(sender.session, imu.next_state)
<1>1. sender' = CommitSender(ok, session)
  BY DEF send_input, prepare_input_report
<1>2. PICK mode, lights, imu_mode, before, vibration :
           sender.session = SessionOf(mode, lights, imu_mode, before, vibration)
  BY DEF AckInv, ConsoleShape, SenderShape, Fields
<1> HIDE DEF imu
<1>3. session = SessionOf(mode, lights, imu_mode, imu.next_state, vibration)
  BY <1>2 DEF with_imu_encoding_state, SessionOf
<1>4. /\ Fields(session)
      /\ Settings(session) = SettingsOf(mode, lights, imu_mode, vibration)
      /\ DeviceSettings = SettingsOf(mode, lights, imu_mode, vibration)
  BY <1>2, <1>3, SettingsOfSession DEF DeviceSettings
<1> HIDE DEF session
<1>5. SenderShape' /\ DeviceSettings' = DeviceSettings
  BY <1>1, <1>4, Commits DEF AckInv
<1>6. HostShape'
  BY HostKept DEF AckInv, ConsoleShape, console
<1> QED
  BY <1>5, <1>6 DEF AckInv, ConsoleShape, NothingAsked, OneAsked, console

\* A request the device takes from the channel was the first of it.
LEMMA Taken ==
    ASSUME AckInv, toDevice # <<>>, toDevice' = Tail(toDevice)
    PROVE  /\ Head(toDevice) \in OutputReports
           /\ toDevice' \in Seq(OutputReports)
           /\ asked # NotAsked => Head(toDevice) = asked
                                  /\ \A i \in 1..Len(toDevice') : toDevice'[i] = asked
           /\ asked = NotAsked =>
                 /\ Head(toDevice) = NotAsked
                       \/ Acknowledged(DeviceSettings, Head(toDevice)) = DeviceSettings
                 /\ \A i \in 1..Len(toDevice') :
                       toDevice'[i] = NotAsked
                       \/ Acknowledged(DeviceSettings, toDevice'[i]) = DeviceSettings
<1>1. toDevice \in Seq(OutputReports)
  BY DEF AckInv, ConsoleShape
<1>2. /\ Head(toDevice) = toDevice[1] /\ 1 \in 1..Len(toDevice)
      /\ toDevice' \in Seq(OutputReports)
      /\ \A i \in 1..Len(toDevice') : i + 1 \in 1..Len(toDevice)
                                      /\ toDevice'[i] = toDevice[i + 1]
  BY <1>1
<1>3. Head(toDevice) \in OutputReports
  BY <1>1
<1> QED
  BY <1>2, <1>3 DEF AckInv, OneAsked, NothingAsked

LEMMA SilentKeepsSettings ==
    ASSUME AckInv, toDevice # <<>>, toDevice' = Tail(toDevice),
           UNCHANGED <<model, sender, toHost, host, asked>>
    PROVE  AckInv'
<1>1. DeviceSettings' = DeviceSettings
  BY DEF DeviceSettings, Settings
<1>2. ConsoleShape'
  BY Taken, SenderKept, HostKept DEF AckInv, ConsoleShape
<1>3. CASE asked = NotAsked
  BY <1>1, <1>2, <1>3, Taken DEF AckInv, NothingAsked
<1>4. CASE asked # NotAsked
  BY <1>1, <1>2, <1>4, Taken DEF AckInv, OneAsked
<1> QED
  BY <1>3, <1>4

\* The answer that was accepted makes the device what it says.
LEMMA AnswerKeepsSettings ==
    ASSUME AckInv, NEW ok \in BOOLEAN, HandleAnswered(ok)
    PROVE  AckInv'
<1> DEFINE raw == Head(toDevice)
           reply == Answer(raw).value
<1>1. /\ toDevice # <<>> /\ toDevice' = Tail(toDevice) /\ Answer(raw).ok
      /\ UNCHANGED <<model, host, asked>>
      /\ sender' = CommitSender(ok, reply.session)
      /\ ok => toHost' = Append(toHost, reply.bytes[15])
      /\ ~ok => toHost' = toHost
  BY DEF HandleAnswered
<1>2. CASE ~ok
  <2>1. sender' = sender
    BY <1>1, <1>2 DEF CommitSender
  <2> QED
    BY <1>1, <1>2, <2>1, SilentKeepsSettings
<1>3. CASE ok
  <2>1. raw \in OutputReports
    BY <1>1, Taken
  <2>2. /\ raw # NotAsked /\ raw[11] \in 0..255
        /\ reply.bytes[15] = raw[11]
        /\ Fields(reply.session)
        /\ Settings(reply.session) = Acknowledged(DeviceSettings, raw)
        /\ Len(raw) < 12 => \A s : Acknowledged(s, raw) = s
    BY <1>1, <2>1, AnswerEffect DEF AckInv, ConsoleShape, SenderShape
  <2> HIDE DEF raw, reply
  <2>3. /\ SenderShape'
        /\ DeviceSettings' = Acknowledged(DeviceSettings, raw)
    BY <1>1, <1>3, <2>2, Commits DEF AckInv
  <2>4. toHost \in Seq(0..255) /\ Believed(host) /\ HostShape'
    BY <1>1, HostKept DEF AckInv, ConsoleShape, HostShape
  <2>5. /\ toHost' \in Seq(0..255) /\ toHost' # <<>>
        /\ \A i \in 1..Len(toHost') : \/ i \in 1..Len(toHost) /\ toHost'[i] = toHost[i]
                                      \/ toHost'[i] = raw[11]
    <3> DEFINE id == raw[11]
    <3>1. toHost' = Append(toHost, id) /\ id \in 0..255
      BY <1>1, <1>3, <2>2
    <3> HIDE DEF id
    <3>2. /\ toHost' \in Seq(0..255) /\ Len(toHost') = Len(toHost) + 1
          /\ \A i \in 1..Len(toHost) : toHost'[i] = toHost[i]
          /\ toHost'[Len(toHost) + 1] = id
      BY <2>4, <3>1
    <3>3. Len(toHost) \in Nat
      BY <2>4
    <3>4. toHost' # <<>>
      BY <3>2, <3>3
    <3>5. \A i \in 1..Len(toHost') : i \in 1..Len(toHost) \/ i = Len(toHost) + 1
      BY <3>2, <3>3
    <3> QED
      BY <3>2, <3>4, <3>5 DEF id
  <2>6. ConsoleShape'
    BY <1>1, <2>3, <2>4, <2>5, Taken DEF AckInv, ConsoleShape
  <2>7. CASE asked = NotAsked
    <3>1. DeviceSettings' = DeviceSettings
      BY <1>1, <2>2, <2>3, <2>7, Taken DEF raw
    <3> QED
      BY <1>1, <2>6, <2>7, <3>1, Taken DEF AckInv, NothingAsked
  <2>8. CASE asked # NotAsked
    <3>1. raw = asked
      BY <1>1, <2>8, Taken DEF raw
    <3>2. DeviceSettings = host \/ DeviceSettings = Acknowledged(host, asked)
      BY <2>8 DEF AckInv, OneAsked
    <3>3. DeviceSettings' = Acknowledged(host, asked)
      BY <2>3, <2>4, <3>1, <3>2, AcknowledgedTwice
    <3>4. \A i \in 1..Len(toHost') : toHost'[i] = asked[11]
      BY <2>5, <2>8, <3>1 DEF AckInv, OneAsked
    <3>5. OneAsked'
      BY <1>1, <2>2, <2>5, <2>8, <3>1, <3>3, <3>4, Taken DEF OneAsked
    <3> QED
      BY <1>1, <2>6, <2>8, <3>5 DEF AckInv
  <2> QED
    BY <2>7, <2>8
<1> QED
  BY <1>2, <1>3

\* The console hears an answer, or a late one to what it no longer asks.
LEMMA HearKeepsSettings ==
    ASSUME AckInv, Hear PROVE AckInv'
<1>1. /\ toHost # <<>> /\ toHost' = Tail(toHost)
      /\ UNCHANGED <<model, sender, toDevice>>
  BY DEF Hear, output
<1>2. DeviceSettings' = DeviceSettings
  BY <1>1 DEF DeviceSettings, Settings
<1>3. toHost \in Seq(0..255) /\ Believed(host) /\ SenderShape'
  BY <1>1, SenderKept DEF AckInv, ConsoleShape, HostShape
<1>4. /\ toHost' \in Seq(0..255) /\ Head(toHost) = toHost[1] /\ 1 \in 1..Len(toHost)
      /\ \A i \in 1..Len(toHost') : i + 1 \in 1..Len(toHost) /\ toHost'[i] = toHost[i + 1]
  BY <1>1, <1>3
<1>5. CASE asked = NotAsked
  <2>1. Len(asked) = 0
    BY <1>5 DEF NotAsked
  <2>2. UNCHANGED <<host, asked>>
    BY <2>1 DEF Hear
  <2>3. ConsoleShape'
    BY <1>1, <1>3, <1>4, <2>2, HostKept DEF AckInv, ConsoleShape
  <2>4. NothingAsked'
    BY <1>1, <1>2, <1>5, <2>2 DEF AckInv, NothingAsked
  <2> QED
    BY <1>5, <2>2, <2>3, <2>4 DEF AckInv
<1>6. CASE asked # NotAsked /\ Len(asked) >= 12
  <2>1. Head(toHost) = asked[11] /\ DeviceSettings = Acknowledged(host, asked)
    BY <1>1, <1>4, <1>6 DEF AckInv, OneAsked
  <2>2. host' = Acknowledged(host, asked) /\ asked' = NotAsked
    BY <1>6, <2>1 DEF Hear
  <2>3. Believed(host') /\ Acknowledged(DeviceSettings, asked) = DeviceSettings
    BY <1>3, <2>1, <2>2, AcknowledgedTwice
  <2>4. ConsoleShape'
    BY <1>1, <1>3, <1>4, <2>2, <2>3 DEF AckInv, ConsoleShape, HostShape
  <2>5. \A i \in 1..Len(toDevice) : toDevice[i] = asked
    BY <1>6 DEF AckInv, OneAsked
  <2>6. NothingAsked'
    BY <1>1, <1>2, <2>1, <2>2, <2>3, <2>5 DEF NothingAsked
  <2> QED
    BY <2>2, <2>4, <2>6 DEF AckInv
<1>7. CASE asked # NotAsked /\ ~(Len(asked) >= 12)
  <2>1. UNCHANGED <<host, asked>>
    BY <1>7 DEF Hear
  <2>2. Len(asked) < 12
    <3>1. asked \in Seq(0..255)
      BY <1>7, PathAssumption DEF AckInv, ConsoleShape
    <3> QED
      BY <1>7, <3>1
  <2>3. DeviceSettings = host /\ Acknowledged(host, asked) = host
    BY <1>1, <1>7, <2>2 DEF AckInv, OneAsked
  <2>4. ConsoleShape'
    BY <1>1, <1>3, <1>4, <2>1, HostKept DEF AckInv, ConsoleShape
  <2>5. OneAsked'
    BY <1>1, <1>2, <1>4, <1>7, <2>1, <2>3 DEF AckInv, OneAsked
  <2> QED
    BY <1>7, <2>1, <2>4, <2>5 DEF AckInv
<1> QED
  BY <1>5, <1>6, <1>7

\* It asks when nothing is on its way, and repeats what it asked.
LEMMA AskingKeepsSettings ==
    ASSUME AckInv, AskAgain \/ \E raw \in OutputReports : Ask(raw)
    PROVE  AckInv'
<1>1. UNCHANGED <<model, sender, toHost, host>>
  BY DEF AskAgain, Ask, output
<1>2. DeviceSettings' = DeviceSettings
  BY <1>1 DEF DeviceSettings, Settings
<1>3. CASE AskAgain
  <2>1. asked # NotAsked /\ toDevice' = <<asked>> /\ asked' = asked
    BY <1>3 DEF AskAgain
  <2>2. asked \in OutputReports
    BY <2>1 DEF AckInv, ConsoleShape
  <2>3. toDevice' \in Seq(OutputReports) /\ \A i \in 1..Len(toDevice') : toDevice'[i] = asked
    BY <2>1, <2>2
  <2>4. ConsoleShape'
    BY <1>1, <2>1, <2>3, SenderKept, HostKept DEF AckInv, ConsoleShape
  <2> QED
    BY <1>1, <1>2, <2>1, <2>3, <2>4 DEF AckInv, OneAsked
<1>4. ASSUME NEW raw \in OutputReports, Ask(raw) PROVE AckInv'
  <2>1. toDevice = <<>> /\ toHost = <<>> /\ asked' = raw /\ toDevice' = <<raw>>
    BY <1>4 DEF Ask, Quiet
  <2>2. toDevice' \in Seq(OutputReports) /\ \A i \in 1..Len(toDevice') : toDevice'[i] = raw
    BY <2>1
  <2>3. ConsoleShape'
    BY <1>1, <2>1, <2>2, SenderKept, HostKept DEF AckInv, ConsoleShape
  <2>4. DeviceSettings = host
    BY <2>1 DEF AckInv, NothingAsked, OneAsked
  <2>5. toHost' = <<>> /\ Len(toHost') = 0
    BY <1>1, <2>1
  <2>6. OneAsked' /\ (raw = NotAsked => NothingAsked')
    BY <1>1, <1>2, <2>1, <2>2, <2>4, <2>5 DEF OneAsked, NothingAsked
  <2> QED
    BY <2>1, <2>3, <2>6 DEF AckInv
<1> QED
  BY <1>3, <1>4

\* A console that starts, or starts again, believes in the session it set up.
LEMMA SetUp ==
    ASSUME NEW timer, NEW session, Fields(session), model' \in Models,
           sender' = [timer |-> timer, session |-> session], host' = Settings(session),
           asked' = NotAsked, toDevice' = <<>>, toHost' = <<>>
    PROVE  AckInv'
<1>1. sender'.session = session
  OBVIOUS
<1>2. PICK mode, lights, imu_mode, imu, vibration :
           session = SessionOf(mode, lights, imu_mode, imu, vibration)
  BY DEF Fields
<1>3. host' = SettingsOf(mode, lights, imu_mode, vibration)
  BY <1>2, SettingsOfSession
<1>4. Believed(host')
  BY <1>3 DEF Believed
<1>5. ConsoleShape'
  <2>1. SenderShape'
    BY <1>1 DEF SenderShape, Fields
  <2>2. HostShape'
    BY <1>4 DEF HostShape, Believed
  <2> QED
    BY <2>1, <2>2 DEF ConsoleShape
<1>6. DeviceSettings' = host'
  BY <1>1 DEF DeviceSettings, Settings
<1> QED
  BY <1>5, <1>6 DEF AckInv, NothingAsked

LEMMA AckStep ==
    ASSUME AckInv, [PathNext]_pathVars PROVE AckInv'
<1>1. CASE Clock \/ StartReporting \/ Backpressured \/ NothingDue \/ UNCHANGED pathVars
           \/ \E r \in Requested : Refused(r) \/ Commit(r)
  <2>1. UNCHANGED <<model, sender, console>>
    BY <1>1 DEF Clock, StartReporting, Backpressured, NothingDue, Refused, Commit,
                pathVars, output
  <2>2. DeviceSettings' = DeviceSettings
    BY <2>1 DEF DeviceSettings, Settings
  <2>3. ConsoleShape'
    BY <2>1, SenderKept, HostKept DEF AckInv, ConsoleShape, console
  <2>4. /\ NothingAsked => NothingAsked'
        /\ OneAsked => OneAsked'
    BY <2>1, <2>2 DEF NothingAsked, OneAsked, console
  <2> QED
    BY <2>1, <2>3, <2>4 DEF AckInv, console
<1>2. CASE \E ok \in BOOLEAN : ReportDue(ok) \/ SendNeutral(ok)
                               \/ \E r \in Requested : CommitAndSend(r, ok)
  BY <1>2, InputKeepsSettings DEF ReportDue, SendNeutral, CommitAndSend
<1>3. CASE HandleSilently
  BY <1>3, SilentKeepsSettings DEF HandleSilently, output
<1>4. CASE \E ok \in BOOLEAN : HandleAnswered(ok)
  BY <1>4, AnswerKeepsSettings
<1>5. CASE Hear
  BY <1>5, HearKeepsSettings
<1>6. CASE AskAgain \/ \E raw \in OutputReports : Ask(raw)
  BY <1>6, AskingKeepsSettings
<1>7. CASE NewLink
  <2>1. /\ sender' = [timer |-> 0, session |-> FreshSession] /\ model' = model
        /\ host' = Settings(FreshSession) /\ asked' = NotAsked
        /\ toDevice' = <<>> /\ toHost' = <<>>
    BY <1>7 DEF NewLink
  <2>2. Fields(FreshSession)
    <3>1. FreshSession = SessionOf(None, None, 0, IdentityState, FALSE)
      BY DEF FreshSession, SessionOf
    <3> QED
      BY <3>1 DEF Fields
  <2> HIDE DEF FreshSession
  <2> QED
    BY <2>1, <2>2, SetUp DEF AckInv, ConsoleShape
<1> QED
  BY <1>1, <1>2, <1>3, <1>4, <1>5, <1>6, <1>7 DEF PathNext, Device, Client, Console

LEMMA AckStart == ASSUME PathInit PROVE AckInv
<1>1. PICK s \in Setups : /\ model = s.model
                          /\ sender = [timer |-> 0, session |-> s.session]
                          /\ host = Settings(s.session)
  BY DEF PathInit
<1>2. asked = NotAsked /\ toDevice = <<>> /\ toHost = <<>>
  BY DEF PathInit
<1>3. s.session \in SessionType /\ s.model \in Models
  BY PathAssumption
<1>4. s.session = SessionOf(s.session.report_mode, s.session.player_lights,
                            s.session.imu_mode, s.session.imu, s.session.vibration_enabled)
  BY <1>3 DEF SessionType, SessionOf
<1>5. Fields(s.session)
  BY <1>4 DEF Fields
<1>6. sender.session = s.session
  BY <1>1
<1>7. Believed(host)
  BY <1>1, <1>5, SettingsOfSession DEF Fields, Believed
<1>8. ConsoleShape
  <2>1. SenderShape
    BY <1>1, <1>5, <1>6 DEF SenderShape
  <2>2. HostShape
    BY <1>7 DEF HostShape
  <2> QED
    BY <1>1, <1>2, <1>3, <2>1, <2>2 DEF ConsoleShape
<1>9. DeviceSettings = host
  BY <1>1, <1>6 DEF DeviceSettings
<1> QED
  BY <1>2, <1>8, <1>9 DEF AckInv, NothingAsked

\* However its requests are refused, repeated or answered late, the console
\* believes of each setting what it is, but for the one request it waits for
\* the answer of, whose answer is then on its way.
THEOREM BeliefIsTrue == PathSpec => []SettingsAreAcknowledged
<1>1. AckInv => SettingsAreAcknowledged
  <2> SUFFICES ASSUME AckInv PROVE SettingsAreAcknowledged
    OBVIOUS
  <2>1. toHost \in Seq(0..255)
    BY DEF AckInv, ConsoleShape
  <2>2. toHost # <<>> => 1 \in 1..Len(toHost)
    BY <2>1
  <2> QED
    BY <2>2 DEF AckInv, NothingAsked, OneAsked, SettingsAreAcknowledged, DeviceSettings
<1> QED
  BY <1>1, AckStart, AckStep, PTL DEF PathSpec

-----------------------------------------------------------------------------
(* What the console is answered *)

\* VirtualSpiFlash::byte_at shows the factory area as words and colors, and
\* erased bytes around it.
LEMMA FlashIsFactory ==
    ASSUME model \in Models, NEW a \in Nat
    PROVE  byte_at(model, Colors, a) = FlashByte(a)
<1> DEFINE p == model.protocol
           words(c) == [i \in 1..12 |-> LET v == IF i <= 6 THEN c.zero_raw ELSE c.reference_raw
                                        IN  IF i % 2 = 1 THEN v % 256 ELSE v \div 256]
           calibration == words(p.accelerometer) \o words(p.gyroscope)
           colors == to_spi_bytes(Colors)
           device == <<p.device_type>>
           flag == <<1>>
           start(i) == FactoryFlash[i].at
           size(i) == Len(FactoryFlash[i].bytes)
           area(i) == start(i)..(start(i) + size(i) - 1)
           hit == {i \in 1..Len(FactoryFlash) : a \in area(i)}
<1>1. IsSeq(device, 1) /\ IsSeq(flag, 1) /\ device[1] = p.device_type /\ flag[1] = 1
  BY Tuples
<1>2. ASSUME NEW c, c.zero_raw \in Nat, c.reference_raw \in Nat
      PROVE  IsSeq(words(c), 12) /\ \A k \in 0..11 : words(c)[1 + k] = calibration_byte(c, k)
  <2> DEFINE word(i) == LET v == IF i <= 6 THEN c.zero_raw ELSE c.reference_raw
                        IN  IF i % 2 = 1 THEN v % 256 ELSE v \div 256
  <2>1. \A i \in 1..12 : word(i) \in Nat
    BY <1>2
  <2>2. words(c) = [i \in 1..12 |-> word(i)]
    OBVIOUS
  <2>3. IsSeq(words(c), 12)
    <3> HIDE DEF word
    <3>1. words(c) \in Seq(Nat) /\ Len(words(c)) = 12
      BY <2>1, <2>2
    <3> QED
      BY <3>1 DEF IsSeq
  <2>4. ASSUME NEW k \in 0..11 PROVE word(1 + k) = calibration_byte(c, k)
    <3>1. /\ (1 + k <= 6) = (k \div 2 < 3)
          /\ ((1 + k) % 2 = 1) = (k % 2 = 0)
      OBVIOUS
    <3> QED
      BY <3>1 DEF calibration_byte
  <2>5. \A k \in 0..11 : 1 + k \in 1..12
    OBVIOUS
  <2> HIDE DEF word
  <2> QED
    BY <2>2, <2>3, <2>4, <2>5
<1>3. IsSeq(calibration, 24)
      /\ \A k \in 0..23 : calibration[1 + k] =
             IF k < 12 THEN calibration_byte(p.accelerometer, k)
                       ELSE calibration_byte(p.gyroscope, k - 12)
  <2> DEFINE first == words(p.accelerometer)
             second == words(p.gyroscope)
  <2>1. /\ p.accelerometer = [zero_raw |-> 0, reference_raw |-> 16384]
        /\ p.gyroscope = [zero_raw |-> 0, reference_raw |-> 13371]
    BY ModelData
  <2>2. /\ IsSeq(first, 12) /\ \A k \in 0..11 : first[1 + k] = calibration_byte(p.accelerometer, k)
        /\ IsSeq(second, 12) /\ \A k \in 0..11 : second[1 + k] = calibration_byte(p.gyroscope, k)
    <3>1. /\ p.accelerometer.zero_raw \in Nat /\ p.accelerometer.reference_raw \in Nat
          /\ p.gyroscope.zero_raw \in Nat /\ p.gyroscope.reference_raw \in Nat
      BY <2>1
    <3> HIDE DEF p, words
    <3> QED
      BY <1>2, <3>1
  <2> HIDE DEF first, second
  <2>3. /\ IsSeq(first \o second, 12 + 12) /\ Begins(first \o second, first, 12)
        /\ Continues(first \o second, second, 12, 12)
    BY <2>2, Joined, Places
  <2>4. calibration = first \o second
    BY DEF first, second
  <2> HIDE DEF calibration
  <2>5. ASSUME NEW k \in 0..23
        PROVE  calibration[1 + k] = IF k < 12 THEN calibration_byte(p.accelerometer, k)
                                    ELSE calibration_byte(p.gyroscope, k - 12)
    <3>1. CASE k < 12
      <4>1. 1 + k \in 1..12 /\ k \in 0..11
        BY <3>1
      <4> QED
        BY <2>2, <2>3, <2>4, <3>1, <4>1 DEF Begins
    <3>2. CASE ~(k < 12)
      <4>1. PICK j \in 0..11 : j = k - 12
        BY <3>2
      <4>2. 1 + j \in 1..12 /\ 12 + (1 + j) = 1 + k
        BY <4>1
      <4>3. calibration[12 + (1 + j)] = second[1 + j]
        BY <2>3, <2>4, <4>2 DEF Continues
      <4>4. second[1 + j] = calibration_byte(p.gyroscope, j)
        BY <2>2
      <4> QED
        BY <3>2, <4>1, <4>2, <4>3, <4>4
    <3> QED
      BY <3>1, <3>2
  <2>6. 12 + 12 = 24
    OBVIOUS
  <2>7. IsSeq(calibration, 24)
    BY <2>3, <2>4, <2>6
  <2> QED
    BY <2>5, <2>7
<1>4. IsSeq(colors, 12)
  BY ColorBytes DEF IsSeq
<1>5. FactoryFlash = <<[at |-> 24594, bytes |-> device], [at |-> 24603, bytes |-> flag],
                       [at |-> 24608, bytes |-> calibration],
                       [at |-> 24656, bytes |-> colors]>>
  BY DEF FactoryFlash, to_spi_bytes
<1>6. Len(device) = 1 /\ Len(flag) = 1 /\ Len(calibration) = 24 /\ Len(colors) = 12
  BY <1>1, <1>3, <1>4 DEF IsSeq
<1> HIDE DEF device, flag, calibration, colors, words
<1>16. /\ Len(FactoryFlash) = 4
       /\ FactoryFlash[1] = [at |-> 24594, bytes |-> device]
       /\ FactoryFlash[2] = [at |-> 24603, bytes |-> flag]
       /\ FactoryFlash[3] = [at |-> 24608, bytes |-> calibration]
       /\ FactoryFlash[4] = [at |-> 24656, bytes |-> colors]
  BY <1>5
<1>17. /\ FactoryFlash[1].at = 24594 /\ Len(FactoryFlash[1].bytes) = 1
       /\ FactoryFlash[2].at = 24603 /\ Len(FactoryFlash[2].bytes) = 1
       /\ FactoryFlash[3].at = 24608 /\ Len(FactoryFlash[3].bytes) = 24
       /\ FactoryFlash[4].at = 24656 /\ Len(FactoryFlash[4].bytes) = 12
  BY <1>6, <1>16
<1>7. /\ Len(FactoryFlash) = 4
      /\ area(1) = 24594..24594 /\ area(2) = 24603..24603
      /\ area(3) = 24608..24631 /\ area(4) = 24656..24667
  <2>1. /\ start(1) = 24594 /\ size(1) = 1
        /\ start(2) = 24603 /\ size(2) = 1
        /\ start(3) = 24608 /\ size(3) = 24
        /\ start(4) = 24656 /\ size(4) = 12
    BY <1>17
  <2> HIDE DEF start, size
  <2> QED
    BY <1>16, <2>1
<1>8. hit = {i \in 1..4 : a \in area(i)}
  BY <1>7
<1>9. FlashByte(a) = IF hit = {} THEN 255
                     ELSE LET i == CHOOSE j \in hit : TRUE
                          IN  FactoryFlash[i].bytes[a - FactoryFlash[i].at + 1]
  BY DEF FlashByte, hit, area, start, size
<1> HIDE DEF hit, area, start, size
<1>10. ASSUME NEW i \in 1..4, a \in area(i)
      PROVE  FlashByte(a) = FactoryFlash[i].bytes[a - FactoryFlash[i].at + 1]
  <2>1. \A j \in 1..4 : a \in area(j) => j = i
    BY <1>7, <1>10
  <2>2. hit = {i}
    BY <1>8, <1>10, <2>1
  <2>3. (CHOOSE j \in hit : TRUE) = i
    BY <2>2
  <2> QED
    BY <1>9, <2>2, <2>3
<1>11. CASE a = 24594
  <2>1. FlashByte(a) = FactoryFlash[1].bytes[a - FactoryFlash[1].at + 1]
    BY <1>7, <1>10, <1>11
  <2>2. FlashByte(a) = device[1]
    BY <1>5, <1>11, <2>1
  <2> QED
    BY <1>1, <1>11, <2>2 DEF byte_at
<1>12. CASE a = 24603
  <2>1. FlashByte(a) = FactoryFlash[2].bytes[a - FactoryFlash[2].at + 1]
    BY <1>7, <1>10, <1>12
  <2>2. FlashByte(a) = flag[1]
    BY <1>5, <1>12, <2>1
  <2> QED
    BY <1>1, <1>12, <2>2 DEF byte_at
<1>13. CASE a \in 24608..24631
  <2>1. FlashByte(a) = FactoryFlash[3].bytes[a - FactoryFlash[3].at + 1]
    BY <1>7, <1>10, <1>13
  <2>2. PICK k \in 0..23 : a = 24608 + k
    BY <1>13
  <2>3. FlashByte(a) = calibration[1 + k]
    <3>1. a - 24608 + 1 = 1 + k
      BY <2>2
    <3> QED
      BY <1>5, <2>1, <3>1
  <2>4. byte_at(model, Colors, a) = IF k < 12 THEN calibration_byte(p.accelerometer, k)
                                    ELSE calibration_byte(p.gyroscope, k - 12)
    <3>1. CASE k < 12
      <4>1. a \in 24608..24619 /\ a - 24608 = k
        BY <2>2, <3>1
      <4> QED
        BY <3>1, <4>1 DEF byte_at
    <3>2. CASE ~(k < 12)
      <4>1. a \in 24620..24631 /\ a - 24620 = k - 12
        BY <2>2, <3>2
      <4> QED
        BY <3>2, <4>1 DEF byte_at
    <3> QED
      BY <3>1, <3>2
  <2> QED
    BY <1>3, <2>3, <2>4
<1>14. CASE a \in 24656..24667
  <2>1. FlashByte(a) = FactoryFlash[4].bytes[a - FactoryFlash[4].at + 1]
    BY <1>7, <1>10, <1>14
  <2>2. FlashByte(a) = colors[a - 24656 + 1]
    BY <1>5, <1>14, <2>1
  <2> QED
    BY <1>14, <2>2 DEF byte_at, colors
<1>15. CASE ~(a = 24594 \/ a = 24603 \/ a \in 24608..24631 \/ a \in 24656..24667)
  <2>1. hit = {}
    BY <1>7, <1>8, <1>15
  <2>2. FlashByte(a) = 255
    BY <1>9, <2>1
  <2>3. byte_at(model, Colors, a) = Erased
    BY <1>15 DEF byte_at
  <2> QED
    BY <2>2, <2>3 DEF Erased
<1> QED
  BY <1>11, <1>12, <1>13, <1>14, <1>15

\* What the console can use, of the bytes of a reply and the payload they answer.
Usable(m, bytes, payload) ==
    /\ IsSeq(bytes, 50) /\ bytes[14] >= 128
    /\ bytes[15] = 16 =>
          LET size == payload[5]   address == SpiAddress(payload)
          IN  /\ payload \in Seq(0..255) /\ Len(payload) >= 5
              /\ SubSeq(bytes, 16, 20) = SubSeq(payload, 1, 5)
              /\ address + size <= 524288 /\ size <= 29
              /\ \A i \in 1..size : bytes[20 + i] = byte_at(m, Colors, address + i - 1)
    /\ bytes[15] = 2 => bytes[18] = m.protocol.device_type
    /\ bytes[15] = 4 => \E i \in 1..13 : bytes[15 + i] + 256 * bytes[16 + i] = 300

LEMMA ReplyUsable ==
    ASSUME NEW m \in Models, NEW state, NEW timer, NEW session, NEW req,
           req.payload \in Seq(0..255),
           prepare_subcommand(m, Colors, req, state, timer, session).ok
    PROVE  Usable(m, prepare_subcommand(m, Colors, req, state, timer, session).value.bytes,
                  req.payload)
<1> DEFINE answered == prepare_subcommand(m, Colors, req, state, timer, session)
           bytes == answered.value.bytes
<1> SUFFICES Usable(m, bytes, req.payload)
  OBVIOUS
<1>1. answered.ok /\ Made(m, req, state, timer, session, answered)
  BY ReplyMade
<1> HIDE DEF answered
<1>2. PICK settled, data : \E ack \in 128..255, n \in Nat :
          /\ IsSeq(data, n) /\ Fits(m, req, data, n)
          /\ answered = prepare_0x21(m, state, timer, settled, req.id, ack, data)
  BY <1>1 DEF Made
<1>3. PICK ack \in 128..255, n \in Nat :
          /\ IsSeq(data, n) /\ Fits(m, req, data, n)
          /\ answered = prepare_0x21(m, state, timer, settled, req.id, ack, data)
  BY <1>2
<1>4. /\ IsSeq(bytes, 50) /\ bytes[14] = ack /\ bytes[15] = req.id
      /\ \A i \in 1..n : bytes[15 + i] = data[i] /\ i <= 35
  BY <1>1, <1>3, ReplyBytes
<1> HIDE DEF bytes
<1>5. bytes[14] >= 128
  BY <1>4
<1>6. ASSUME req.id = 2 PROVE bytes[18] = m.protocol.device_type
  <2>1. n = 12 /\ data[3] = m.protocol.device_type
    BY <1>3, <1>6 DEF Fits
  <2>2. 3 \in 1..n /\ 15 + 3 = 18
    BY <2>1
  <2> QED
    BY <1>4, <2>1, <2>2, Zenon
<1>7. ASSUME req.id = 4
      PROVE  \E i \in 1..13 : bytes[15 + i] + 256 * bytes[16 + i] = 300
  <2>1. n = 14 /\ \E i \in 1..13 : data[i] + 256 * data[i + 1] = 300
    BY <1>3, <1>7 DEF Fits
  <2>2. PICK i \in 1..13 : data[i] + 256 * data[i + 1] = 300
    BY <2>1
  <2>3. i \in 1..n /\ i + 1 \in 1..n /\ 15 + (i + 1) = 16 + i
    BY <2>1
  <2>4. bytes[15 + i] = data[i] /\ bytes[15 + (i + 1)] = data[i + 1]
    BY <1>4, <2>3, Zenon
  <2>5. bytes[16 + i] = data[i + 1]
    BY <2>3, <2>4
  <2>6. bytes[15 + i] + 256 * bytes[16 + i] = 300
    BY <2>2, <2>4, <2>5
  <2> QED
    BY <2>6, Zenon
<1>8. ASSUME req.id = 16
      PROVE  LET size == req.payload[5]   address == SpiAddress(req.payload)
             IN  /\ Len(req.payload) >= 5
                 /\ SubSeq(bytes, 16, 20) = SubSeq(req.payload, 1, 5)
                 /\ address + size <= 524288 /\ size <= 29
                 /\ \A i \in 1..size : bytes[20 + i] = byte_at(m, Colors, address + i - 1)
  <2> DEFINE payload == req.payload
             size == payload[5]
             address == SpiAddress(payload)
             flash(i) == byte_at(m, Colors, address + i - 1)
  <2>1. /\ Len(payload) >= 5 /\ n = 5 + size
        /\ Begins(data, payload, 5)
        /\ \A i \in 1..size : data[5 + i] = flash(i)
    BY <1>3, <1>8 DEF Fits
  <2>5. size <= 29 /\ address + size <= 524288
    BY <1>3, <1>8 DEF Fits
  <2>2. size \in 0..255
    <3>1. 5 \in 1..Len(payload)
      BY <2>1
    <3> QED
      BY <3>1, ElementOfSeq, Zenon
  <2>3. \A i \in 1..size : bytes[20 + i] = flash(i)
    <3> HIDE DEF size, flash
    <3> TAKE i \in 1..size
    <3>1. 5 + i \in 1..n /\ 15 + (5 + i) = 20 + i
      BY <2>1, <2>2
    <3>2. bytes[15 + (5 + i)] = data[5 + i]
      BY <1>4, <3>1, Zenon
    <3> QED
      BY <2>1, <3>1, <3>2
  <2>4. SubSeq(bytes, 16, 20) = SubSeq(payload, 1, 5)
    <3> HIDE DEF size, address, flash, payload
    <3>1. PICK l \in Nat : l = Len(payload) /\ IsSeq(payload, l) /\ 5 <= l
      BY <2>1, LenProperties DEF payload, IsSeq
    <3> DEFINE echo == SubSeq(bytes, 16, 20)
               asks == SubSeq(payload, 1, 5)
    <3>2. /\ IsSeq(echo, 20 - 16 + 1)
          /\ \A i \in 1..(20 - 16 + 1) : echo[i] = bytes[16 + i - 1]
      BY <1>4, Part
    <3>3. /\ IsSeq(asks, 5 - 1 + 1)
          /\ \A i \in 1..(5 - 1 + 1) : asks[i] = payload[1 + i - 1]
      <4>1. l \in Nat /\ IsSeq(payload, l) /\ 5 <= l
        BY <3>1
      <4>2. 1 \in Nat /\ 5 \in Nat /\ 1 <= 1 /\ 1 <= 5
        OBVIOUS
      <4> QED
        BY <4>1, <4>2, Part, SMTT(60)
    <3> HIDE DEF echo, asks
    <3>4. ASSUME NEW i \in 1..5 PROVE echo[i] = asks[i]
      <4>1. /\ i \in 1..(20 - 16 + 1) /\ i \in 1..(5 - 1 + 1)
            /\ 16 + i - 1 = 15 + i /\ 1 + i - 1 = i
        OBVIOUS
      <4>3. echo[i] = bytes[15 + i] /\ asks[i] = payload[i]
        BY <3>2, <3>3, <4>1
      <4>4. i \in 1..n
        <5> HIDE DEF size
        <5> QED
          BY <2>1, <2>2
      <4>2. bytes[15 + i] = data[i] /\ data[i] = payload[i]
        BY <1>4, <2>1, <4>4, Zenon DEF Begins
      <4> QED
        BY <4>2, <4>3
    <3>5. IsSeq(echo, 5) /\ IsSeq(asks, 5)
      BY <3>2, <3>3
    <3>6. echo = asks
      <4>1. PICK A : echo \in Seq(A) /\ Len(echo) = 5
        BY <3>5 DEF IsSeq
      <4>2. PICK B : asks \in Seq(B) /\ Len(asks) = 5
        BY <3>5 DEF IsSeq
      <4> DEFINE C == A \cup B
      <4>3. echo \in Seq(C) /\ asks \in Seq(C)
        BY <4>1, <4>2, Widened
      <4> HIDE DEF C
      <4> QED
        BY <3>4, <4>1, <4>2, <4>3, SeqEqual
    <3> QED
      BY <3>6 DEF echo, asks
  <2> QED
    BY <2>1, <2>3, <2>4, <2>5
<1> QED
  BY <1>4, <1>5, <1>6, <1>7, <1>8 DEF Usable

\* The latest accepted report, if it is a reply, is one of those.
UsableInv == wire.kind = "reply" => Usable(model, wire.bytes, wire.payload)

\* The flash is read as it is shown.
LEMMA UsableAnswers ==
    ASSUME model \in Models, UsableInv PROVE RepliesAnswer
<1> SUFFICES ASSUME wire.kind = "reply" PROVE RepliesAnswer
  BY DEF RepliesAnswer
<1> DEFINE bytes == wire.bytes
           payload == wire.payload
           size == payload[5]
           address == SpiAddress(payload)
<1>1. Usable(model, bytes, payload)
  BY DEF UsableInv
<1>2. Len(bytes) = 50 /\ bytes[14] >= 128
  BY <1>1 DEF Usable, IsSeq
<1>3. ASSUME bytes[15] = 16
      PROVE  /\ SubSeq(bytes, 16, 20) = SubSeq(payload, 1, 5)
             /\ address + size <= 524288 /\ size <= 29
             /\ \A i \in 1..size : bytes[20 + i] = FlashByte(address + i - 1)
  <2>1. /\ payload \in Seq(0..255) /\ Len(payload) >= 5
        /\ \A i \in 1..size : bytes[20 + i] = byte_at(model, Colors, address + i - 1)
    BY <1>1, <1>3 DEF Usable
  <2>2. /\ SubSeq(bytes, 16, 20) = SubSeq(payload, 1, 5)
        /\ address + size <= 524288 /\ size <= 29
    BY <1>1, <1>3 DEF Usable
  <2> HIDE DEF bytes, payload
  <2>4. address \in Nat /\ size \in Nat
    BY <2>1, AddressIsNat
  <2> HIDE DEF address, size
  <2>5. ASSUME NEW i \in 1..size PROVE bytes[20 + i] = FlashByte(address + i - 1)
    <3>1. PICK a \in Nat : a = address + i - 1
      BY <2>4
    <3>2. bytes[20 + i] = byte_at(model, Colors, a)
      BY <2>1, <3>1
    <3> QED
      BY <3>1, <3>2, FlashIsFactory
  <2> QED
    BY <2>2, <2>5
<1>4. ASSUME bytes[15] = 2 PROVE bytes[18] = FlashByte(24594)
  <2>1. bytes[18] = model.protocol.device_type
    BY <1>1, <1>4 DEF Usable
  <2>2. byte_at(model, Colors, 24594) = model.protocol.device_type
    BY DEF byte_at
  <2>3. 24594 \in Nat
    OBVIOUS
  <2> QED
    BY <2>1, <2>2, <2>3, FlashIsFactory
<1>5. bytes[15] = 4 => \E i \in 1..13 : bytes[15 + i] + 256 * bytes[16 + i] = 300
  BY <1>1 DEF Usable
<1> QED
  BY <1>2, <1>3, <1>4, <1>5 DEF RepliesAnswer

\* Answering makes such a reply; nothing else makes a reply.
LEMMA AnswerUsable ==
    ASSUME model \in Models, NEW raw \in OutputReports, Answer(raw).ok
    PROVE  Usable(model, Answer(raw).value.bytes, SubSeq(raw, 12, Len(raw)))
<1> DEFINE req == RequestOf(raw)
<1>1. /\ Answer(raw) = prepare_subcommand(model, Colors, req, ReplyState,
                                          sender.timer, sender.session)
      /\ req.payload = SubSeq(raw, 12, Len(raw)) /\ req.payload \in Seq(0..255)
  BY ParsedRequest
<1> HIDE DEF req
<1> QED
  BY <1>1, ReplyUsable
LEMMA AnswerIsUsable ==
    ASSUME AckInv, UsableInv, NEW ok \in BOOLEAN, HandleAnswered(ok)
    PROVE  UsableInv'
<1> DEFINE raw == Head(toDevice)
           payload == SubSeq(raw, 12, Len(raw))
           reply == Answer(raw).value
<1>1. /\ toDevice # <<>> /\ Answer(raw).ok /\ model' = model
      /\ ok => wire' = [kind |-> "reply", bytes |-> reply.bytes,
                        of |-> IF protocol_ready(sender.session) THEN request ELSE Rest,
                        mode |-> sender.session.imu_mode, payload |-> payload]
      /\ ~ok => wire' = wire
  BY DEF HandleAnswered
<1>2. raw \in OutputReports
  BY <1>1 DEF AckInv, ConsoleShape
<1>3. model \in Models
  BY DEF AckInv, ConsoleShape
<1> HIDE DEF raw
<1>4. CASE ok
  <2>1. Usable(model, reply.bytes, payload)
    BY <1>1, <1>2, <1>3, AnswerUsable
  <2> HIDE DEF reply, payload
  <2> QED
    BY <1>1, <1>4, <2>1 DEF UsableInv
<1>5. CASE ~ok
  BY <1>1, <1>5 DEF UsableInv
<1> QED
  BY <1>4, <1>5

LEMMA UsableStep ==
    ASSUME AckInv, UsableInv, [PathNext]_pathVars PROVE UsableInv'
<1>1. CASE UNCHANGED <<model, wire>>
  BY <1>1 DEF UsableInv
<1>2. ASSUME NEW state, NEW of, NEW ok \in BOOLEAN, send_input(state, of, ok), model' = model
      PROVE  UsableInv'
  <2>1. CASE ok
    <3>1. wire'.kind = "input"
      BY <1>2, <2>1 DEF send_input
    <3> QED
      BY <3>1 DEF UsableInv
  <2>2. CASE ~ok
    BY <1>1, <1>2, <2>2 DEF send_input
  <2> QED
    BY <2>1, <2>2
<1>3. CASE NewLink
  BY <1>3 DEF NewLink, NoWire, UsableInv
<1>4. CASE Clock \/ StartReporting \/ Backpressured \/ NothingDue \/ HandleSilently
           \/ (Console /\ ~NewLink) \/ UNCHANGED pathVars
           \/ \E r \in Requested : Refused(r) \/ Commit(r)
  <2>1. UNCHANGED <<model, wire>>
    BY <1>4 DEF Clock, StartReporting, Backpressured, NothingDue, HandleSilently, Console,
                AskAgain, Hear, Ask, Refused, Commit, pathVars, output
  <2> QED
    BY <1>1, <2>1
<1>5. CASE \E ok \in BOOLEAN : ReportDue(ok) \/ SendNeutral(ok)
                               \/ \E r \in Requested : CommitAndSend(r, ok)
  BY <1>2, <1>5 DEF ReportDue, SendNeutral, CommitAndSend
<1>6. CASE \E ok \in BOOLEAN : HandleAnswered(ok)
  BY <1>6, AnswerIsUsable
<1> QED
  BY <1>3, <1>4, <1>5, <1>6 DEF PathNext, Device, Client, Console

\* Whatever the console asks, on every controller and with any colors, an
\* accepted reply acknowledges, shows the flash it was asked for and nothing
\* outside it, and names one device type.
THEOREM RepliesAreUsable == PathSpec => []RepliesAnswer
<1>1. PathInit => AckInv /\ UsableInv
  BY AckStart DEF PathInit, NoWire, UsableInv
<1>2. AckInv /\ UsableInv => RepliesAnswer
  BY UsableAnswers DEF AckInv, ConsoleShape
<1>3. AckInv /\ UsableInv /\ [PathNext]_pathVars => (AckInv /\ UsableInv)'
  BY AckStep, UsableStep
<1> QED
  BY <1>1, <1>2, <1>3, PTL DEF PathSpec

-----------------------------------------------------------------------------
(* What can be on the wire *)

\* Sticks stay within twelve bits.
RawAxes == MinAxis..MaxAxis
InStick(s) == s.x \in RawAxes /\ s.y \in RawAxes
LEMMA RoundedQuotient ==
    ASSUME NEW n \in Int, NEW d \in Nat, d # 0
    PROVE  /\ round_ties_even(n, d) \in Int
           /\ \A k \in Int : k * d <= n => k <= round_ties_even(n, d)
           /\ \A k \in Int : n <= k * d => round_ties_even(n, d) <= k
<1> DEFINE q == n \div d
           r == n % d
<1>1. q \in Int /\ r \in Nat /\ r < d /\ n = d * q + r
  OBVIOUS
<1>2. round_ties_even(n, d) = IF 2 * r > d \/ (2 * r = d /\ q % 2 = 1) THEN q + 1 ELSE q
  BY DEF round_ties_even
<1> HIDE DEF q, r
<1>3. round_ties_even(n, d) = q \/ (round_ties_even(n, d) = q + 1 /\ r # 0)
  BY <1>1, <1>2
<1>4. ASSUME NEW k \in Int, k * d <= n PROVE k <= q
  <2> SUFFICES ASSUME q + 1 <= k PROVE FALSE
    BY <1>1
  <2>1. d * (q + 1) <= d * k
    BY <1>1
  <2>2. d * (q + 1) = d * q + d /\ d * k = k * d
    BY <1>1
  <2>3. d * q \in Int /\ k * d \in Int
    BY <1>1
  <2> QED
    BY <1>1, <1>4, <2>1, <2>2, <2>3
<1>5. ASSUME NEW k \in Int, n <= k * d PROVE q <= k /\ (r # 0 => q + 1 <= k)
  <2>1. d * q \in Int /\ k * d \in Int
    BY <1>1
  <2>2. CASE k < q
    <3>1. d * (k + 1) <= d * q
      BY <1>1, <2>2
    <3>2. d * (k + 1) = k * d + d
      BY <1>1
    <3> QED
      BY <1>1, <1>5, <2>1, <3>1, <3>2
  <2>3. CASE k = q
    BY <1>1, <1>5, <2>1, <2>3
  <2>4. CASE q < k
    BY <1>1, <2>4
  <2> QED
    BY <1>1, <2>2, <2>3, <2>4
<1> QED
  BY <1>1, <1>3, <1>4, <1>5

\* What a stick asked for by the client is converted to.
LEMMA AxisInRange ==
    ASSUME NEW v \in (-StickUnit)..StickUnit PROVE normalized_axis_to_raw(v) \in RawAxes
<1>1. StickUnit \in Nat /\ StickUnit # 0 /\ v \in Int
  BY StickUnitAssumption
<1>2. CASE v < 0
  <2>1. (-2048) * StickUnit <= v * 2048 /\ v * 2048 <= 0 * StickUnit /\ v * 2048 \in Int
    BY <1>1, <1>2
  <2> DEFINE q == round_ties_even(v * 2048, StickUnit)
  <2>2. q \in Int /\ -2048 <= q /\ q <= 0
    BY <1>1, <2>1, RoundedQuotient
  <2>3. Center - MinAxis = 2048
    BY DEF Center, MinAxis, MaxAxis
  <2>4. normalized_axis_to_raw(v) = Center + q
    BY <1>2, <2>3 DEF normalized_axis_to_raw
  <2> HIDE DEF q
  <2>5. Center + q \in RawAxes
    BY <2>2 DEF Center, MinAxis, MaxAxis, RawAxes
  <2> QED
    BY <2>4, <2>5
<1>3. CASE ~(v < 0)
  <2>1. 0 * StickUnit <= v * 2047 /\ v * 2047 <= 2047 * StickUnit /\ v * 2047 \in Int
    BY <1>1, <1>3
  <2> DEFINE q == round_ties_even(v * 2047, StickUnit)
  <2>2. q \in Int /\ 0 <= q /\ q <= 2047
    BY <1>1, <2>1, RoundedQuotient
  <2>3. MaxAxis - Center = 2047
    BY DEF Center, MinAxis, MaxAxis
  <2>4. normalized_axis_to_raw(v) = Center + q
    BY <1>3, <2>3 DEF normalized_axis_to_raw
  <2> HIDE DEF q
  <2>5. Center + q \in RawAxes
    BY <2>2 DEF Center, MinAxis, MaxAxis, RawAxes
  <2> QED
    BY <2>4, <2>5
<1> QED
  BY <1>2, <1>3

\* So each stick of a converted input is in range.
LEMMA StickInRange ==
    ASSUME NEW s \in StickType, Failed \notin {Stick(s).x, Stick(s).y}
    PROVE  InStick(Stick(s))
<1>1. Center \in RawAxes /\ StickUnit \in Nat
  BY StickUnitAssumption DEF Center, RawAxes, MinAxis, MaxAxis
<1>2. ASSUME NEW v \in Int, NEW low, NEW direction,
             \A u \in low..StickUnit : u * direction \in (-StickUnit)..StickUnit,
             axis_input_to_raw(v, low, direction) # Failed
      PROVE  axis_input_to_raw(v, low, direction) \in RawAxes
  <2>1. v \in low..StickUnit
    BY <1>2 DEF axis_input_to_raw
  <2> DEFINE w == v * direction
  <2>2. w \in (-StickUnit)..StickUnit
    BY <1>2, <2>1
  <2>3. axis_input_to_raw(v, low, direction) = normalized_axis_to_raw(w)
    BY <2>1 DEF axis_input_to_raw
  <2> HIDE DEF w
  <2>4. normalized_axis_to_raw(w) \in RawAxes
    BY <2>2, AxisInRange, Zenon
  <2> QED
    BY <2>3, <2>4
<1>10. /\ \A u \in (-StickUnit)..StickUnit : u * 1 \in (-StickUnit)..StickUnit
       /\ \A u \in 0..StickUnit : u * 1 \in (-StickUnit)..StickUnit
       /\ \A u \in 0..StickUnit : u * (-1) \in (-StickUnit)..StickUnit
  BY <1>1
<1>3. CASE s.how = "raw"
  <2>1. s.x \in Nat /\ s.y \in Nat
    BY <1>3 DEF StickType
  <2>2. Stick(s) = [x |-> validate_raw_axis(s.x), y |-> validate_raw_axis(s.y)]
    BY <1>3 DEF Stick, raw_stick
  <2>3. validate_raw_axis(s.x) # Failed /\ validate_raw_axis(s.y) # Failed
    BY <2>2
  <2>4. validate_raw_axis(s.x) \in RawAxes /\ validate_raw_axis(s.y) \in RawAxes
    <3>1. ASSUME NEW v \in Nat, validate_raw_axis(v) # Failed
          PROVE  validate_raw_axis(v) \in RawAxes
      <4>1. v <= MaxAxis /\ validate_raw_axis(v) = v
        BY <3>1 DEF validate_raw_axis
      <4> QED
        BY <4>1 DEF RawAxes, MinAxis, MaxAxis
    <3> QED
      BY <2>1, <2>3, <3>1, Zenon
  <2> QED
    BY <2>2, <2>4 DEF InStick
<1>4. s.x \in Int /\ s.y \in Int /\ -s.x \in Int /\ -s.y \in Int
  BY DEF StickType
<1>5. CASE s.how = "tilt"
  <2> DEFINE x == axis_input_to_raw(s.x, -StickUnit, 1)
             y == axis_input_to_raw(s.y, -StickUnit, 1)
  <2>1. Stick(s) = [x |-> x, y |-> y]
    BY <1>5 DEF Stick, normalized
  <2>2. x # Failed /\ y # Failed
    <3> HIDE DEF x, y
    <3> QED
      BY <2>1
  <2>3. x \in RawAxes /\ y \in RawAxes
    BY <1>2, <1>4, <1>10, <2>2
  <2> HIDE DEF x, y
  <2> QED
    BY <2>1, <2>3 DEF InStick
<1>6. CASE s.how = "up"
  <2>1. Stick(s) = [x |-> Center, y |-> axis_input_to_raw(s.y, 0, 1)]
    BY <1>6 DEF Stick, up
  <2>2. axis_input_to_raw(s.y, 0, 1) # Failed
    BY <2>1
  <2>3. axis_input_to_raw(s.y, 0, 1) \in RawAxes
    BY <1>2, <1>4, <1>10, <2>2
  <2> QED
    BY <1>1, <2>1, <2>3 DEF InStick
<1>7. CASE s.how = "down"
  <2>1. Stick(s) = [x |-> Center, y |-> axis_input_to_raw(-s.y, 0, -1)]
    BY <1>7 DEF Stick, down
  <2>2. axis_input_to_raw(-s.y, 0, -1) # Failed
    BY <2>1
  <2>3. axis_input_to_raw(-s.y, 0, -1) \in RawAxes
    BY <1>2, <1>4, <1>10, <2>2
  <2> QED
    BY <1>1, <2>1, <2>3 DEF InStick
<1>8. CASE s.how = "left"
  <2>1. Stick(s) = [x |-> axis_input_to_raw(-s.x, 0, -1), y |-> Center]
    BY <1>8 DEF Stick, left
  <2>2. axis_input_to_raw(-s.x, 0, -1) # Failed
    BY <2>1
  <2>3. axis_input_to_raw(-s.x, 0, -1) \in RawAxes
    BY <1>2, <1>4, <1>10, <2>2
  <2> QED
    BY <1>1, <2>1, <2>3 DEF InStick
<1>9. CASE s.how = "right"
  <2>1. Stick(s) = [x |-> axis_input_to_raw(s.x, 0, 1), y |-> Center]
    BY <1>9 DEF Stick, right
  <2>2. axis_input_to_raw(s.x, 0, 1) # Failed
    BY <2>1
  <2>3. axis_input_to_raw(s.x, 0, 1) \in RawAxes
    BY <1>2, <1>4, <1>10, <2>2
  <2> QED
    BY <1>1, <2>1, <2>3 DEF InStick
<1> QED
  BY <1>3, <1>5, <1>6, <1>7, <1>8, <1>9 DEF StickType

\* An input state the reports can be made from.
InState(state) ==
    /\ InStick(state.left) /\ InStick(state.right)
    /\ \A i \in 1..3 : state.frames[i].gyro \in Int
LEMMA NeutralInState == InState(neutral)
<1>1. InStick(center)
  BY DEF InStick, center, Center, RawAxes, MinAxis, MaxAxis
<1>2. neutral.left = center /\ neutral.right = center
      /\ neutral.frames = <<NeutralFrame, NeutralFrame, NeutralFrame>>
  BY DEF neutral, into_frames
<1>3. \A i \in 1..3 : neutral.frames[i].gyro = 0
  BY <1>2 DEF NeutralFrame
<1> QED
  BY <1>1, <1>2, <1>3 DEF InState

\* Motion samples become integers.
LEMMA RawIsInt == ASSUME NEW v \in Int PROVE gyro_rate_to_raw(v) \in Int
<1>1. round_ties_even(v, 70) \in Int
  BY RoundedQuotient
<1>2. gyro_rate_to_raw(v) = round_ties_even(v, 70) \/ gyro_rate_to_raw(v) = 99999
  BY SMTT(40) DEF gyro_rate_to_raw, rounded_i16, Failed
<1>3. 99999 \in Int
  OBVIOUS
<1> QED
  BY <1>1, <1>2, <1>3

\* An input that can be converted becomes one the encoder can take.
LEMMA ConvertedInState ==
    ASSUME NEW r \in Requested, Convertible(r) PROVE InState(Converted(r))
<1> DEFINE frame(i) == Frame(r.motion[i])
           frames == [i \in 1..Len(r.motion) |-> frame(i)]
           left_stick == Stick(r.left)
           right_stick == Stick(r.right)
<1>1. /\ r.left \in StickType /\ r.right \in StickType
      /\ r.motion \in Seq([rate : Int, accel : Int]) /\ Len(r.motion) \in {1, 3}
  BY PathAssumption DEF Typed
<1>2. InStick(left_stick) /\ InStick(right_stick)
  <2>1. Failed \notin {left_stick.x, left_stick.y} /\ Failed \notin {right_stick.x, right_stick.y}
    BY DEF Convertible
  <2> QED
    BY <1>1, <2>1, StickInRange
<1>3. /\ Converted(r).left = left_stick /\ Converted(r).right = right_stick
      /\ Converted(r).frames = into_frames(frames)
  <2> HIDE DEF frames, left_stick, right_stick
  <2>1. Converted(r) = with_imu(with_right_stick(with_left_stick(with_buttons(neutral, r.buttons),
                                                                 left_stick), right_stick),
                                frames)
    BY DEF Converted, frames, left_stick, right_stick
  <2> QED
    BY <2>1 DEF with_imu, with_right_stick, with_left_stick, with_buttons, neutral
<1>4. ASSUME NEW i \in 1..Len(r.motion) PROVE frame(i).gyro \in Int
  <2>1. r.motion[i] \in [rate : Int, accel : Int]
    BY <1>1, ElementOfSeq
  <2>2. gyro_rate_to_raw(r.motion[i].rate) \in Int
    BY <2>1, RawIsInt
  <2>3. frame(i).gyro = gyro_rate_to_raw(r.motion[i].rate)
    BY DEF Frame, with_accel_g, gyro_rate, NeutralFrame
  <2> QED
    BY <2>2, <2>3
<1>5. \A i \in 1..3 : into_frames(frames)[i].gyro \in Int
  <2> DEFINE n == Len(r.motion)
  <2> HIDE DEF frame, n
  <2>1. frames = [i \in 1..n |-> frame(i)] /\ n \in {1, 3} /\ \A i \in 1..n : frame(i).gyro \in Int
    BY <1>1, <1>4 DEF n
  <2> HIDE DEF frames
  <2>2. Len(frames) = n
    BY <2>1
  <2>3. CASE n = 1
    <3>1. into_frames(frames) = <<frame(1), frame(1), frame(1)>> /\ frame(1).gyro \in Int
      BY <2>1, <2>2, <2>3 DEF into_frames
    <3> QED
      BY <3>1
  <2>4. CASE n = 3
    <3>1. into_frames(frames) = frames /\ \A i \in 1..3 : frames[i] = frame(i)
      BY <2>1, <2>2, <2>4 DEF into_frames
    <3> QED
      BY <2>1, <2>4, <3>1
  <2> QED
    BY <2>1, <2>3, <2>4
<1> HIDE DEF left_stick, right_stick, frames
<1> QED
  BY <1>2, <1>3, <1>5 DEF InState

\* Eight bits are a byte, and so is what the packing of sticks and buttons makes.
LEMMA EightBits ==
    ASSUME NEW a \in {0, 1}, NEW b \in {0, 1}, NEW c \in {0, 1}, NEW d \in {0, 1},
           NEW e \in {0, 1}, NEW f \in {0, 1}, NEW g \in {0, 1}, NEW h \in {0, 1}
    PROVE  a + 2 * b + 4 * c + 8 * d + 16 * e + 32 * f + 64 * g + 128 * h \in 0..255
OBVIOUS

\* The parts of a report are bytes.
LEMMA ButtonsAreByte == ASSUME NEW m, NEW buttons, NEW i PROVE ButtonByte(m, buttons, i) \in 0..255
<1> DEFINE masks == {p.mask : p \in {q \in {button_wire_position(m, b) : b \in buttons} :
                                          q.byte_index = i}}
           bit(b) == IF 2^b \in masks THEN 1 ELSE 0
<1>1. \A b : bit(b) \in {0, 1}
  OBVIOUS
<1>2. ButtonByte(m, buttons, i) = bit(0) + 2 * bit(1) + 4 * bit(2) + 8 * bit(3)
                                  + 16 * bit(4) + 32 * bit(5) + 64 * bit(6) + 128 * bit(7)
  BY DEF ButtonByte, Byte
<1> HIDE DEF bit
<1> QED
  BY <1>1, <1>2, EightBits

LEMMA BlockIsBytes == ASSUME NEW block PROVE BlockBytes(block) \in Seq(0..255)
<1> DEFINE bit(i, b) == IF 8 * (i - 1) + b \in block THEN 1 ELSE 0
           byte(i) == bit(i, 0) + 2 * bit(i, 1) + 4 * bit(i, 2) + 8 * bit(i, 3)
                      + 16 * bit(i, 4) + 32 * bit(i, 5) + 64 * bit(i, 6) + 128 * bit(i, 7)
<1>1. \A i, b : bit(i, b) \in {0, 1}
  OBVIOUS
<1>2. BlockBytes(block) = [i \in 1..36 |-> byte(i)]
  BY DEF BlockBytes, Byte
<1> HIDE DEF bit
<1> DEFINE Bytes == 0..255
<1>3. \A i : byte(i) \in Bytes
  BY <1>1, EightBits
<1> HIDE DEF byte, Bytes
<1>4. BlockBytes(block) \in Seq(Bytes)
  BY <1>2, <1>3
<1> QED
  BY <1>4 DEF Bytes

LEMMA StickBytes == ASSUME NEW s, InStick(s) PROVE pack_stick(s) \in Seq(0..255)
<1> DEFINE low == s.x % 256
           shared == ((s.x \div 256) % 16) + (s.y % 16) * 16
           high == s.y \div 16
<1>1. s.x \in Nat /\ s.x <= 4095 /\ s.y \in Nat /\ s.y <= 4095
  <2>1. s.x \in RawAxes /\ s.y \in RawAxes
    BY DEF InStick
  <2>2. \A v \in RawAxes : v \in Nat /\ v <= 4095
    BY DEF RawAxes, MinAxis, MaxAxis
  <2> QED
    BY <2>1, <2>2
<1>2. low \in 0..255 /\ high \in 0..255
  BY <1>1
<1>3. shared \in 0..255
  <2>1. (s.x \div 256) % 16 \in 0..15 /\ s.y % 16 \in 0..15
    BY <1>1
  <2> QED
    BY <2>1
<1>4. pack_stick(s) = <<low, shared, high>>
  BY DEF pack_stick
<1> HIDE DEF low, shared, high
<1> QED
  BY <1>2, <1>3, <1>4

\* A report is bytes.
LEMMA ReportIsBytes ==
    ASSUME NEW m \in Models, NEW state, InState(state), NEW timer \in 0..255, NEW block
    PROVE  encode_0x30(m, state, timer, block) \in Seq(0..255)
<1> DEFINE battery == m.protocol.battery_connection
           b3 == ButtonByte(m, state.buttons, 3)
           b4 == ButtonByte(m, state.buttons, 4)
           b5 == ButtonByte(m, state.buttons, 5)
           head == <<ReportId, timer, battery, b3, b4, b5>>
           left_stick == pack_stick(state.left)
           right_stick == pack_stick(state.right)
           vibration == <<m.protocol.vibrator_input>>
           bytes == BlockBytes(block)
<1>1. /\ b3 \in 0..255 /\ b4 \in 0..255 /\ b5 \in 0..255 /\ battery \in 0..255
      /\ m.protocol.vibrator_input \in 0..255 /\ ReportId \in 0..255
  <2>1. b3 \in 0..255 /\ b4 \in 0..255 /\ b5 \in 0..255
    BY ButtonsAreByte
  <2>2. battery = 128 /\ m.protocol.vibrator_input = 0
    BY ModelData
  <2>3. ReportId = 48 /\ 128 \in 0..255 /\ 0 \in 0..255 /\ 48 \in 0..255
    BY DEF ReportId
  <2> QED
    BY <2>1, <2>2, <2>3
<1>2. left_stick \in Seq(0..255) /\ right_stick \in Seq(0..255) /\ bytes \in Seq(0..255)
  BY StickBytes, BlockIsBytes DEF InState
<1>3. encode_0x30(m, state, timer, block)
      = (((head \o left_stick) \o right_stick) \o vibration) \o bytes
  BY DEF encode_0x30
<1> HIDE DEF b3, b4, b5, battery, left_stick, right_stick, bytes
<1>4. head \in Seq(0..255) /\ vibration \in Seq(0..255)
  BY <1>1
<1> HIDE DEF head, vibration
<1> QED
  BY <1>2, <1>3, <1>4

\* And so is a reply.
LEMMA ReplyIsBytes ==
    ASSUME NEW m \in Models, NEW state, InState(state), NEW timer \in 0..255, NEW session,
           NEW id \in 0..255, NEW ack \in 0..255, NEW data \in Seq(0..255),
           NEW reply, reply = prepare_0x21(m, state, timer, session, id, ack, data), reply.ok
    PROVE  reply.value.bytes \in Seq(0..255)
<1> DEFINE e == encode_0x30(m, state, timer, {})
           part == SubSeq(e, 2, 13)
           zeros == Zeros(35 - Len(data))
           first == <<ReplyId>>
           pair == <<ack, id>>
           bytes == ((first \o part) \o pair) \o (data \o zeros)
<1>1. e \in Seq(0..255) /\ IsSeq(e, 49)
  BY ReportIsBytes, ReportLength
<1> HIDE DEF e
<1>2. Len(data) <= 35 /\ Len(data) \in Nat
  BY DEF prepare_0x21, Err
<1>3. reply = Ok([bytes |-> bytes, session |-> session])
  BY <1>2 DEF prepare_0x21, Padded, e
<1>4. part \in Seq(0..255)
  <2>1. Len(e) = 49
    BY <1>1 DEF IsSeq
  <2>2. ASSUME NEW i \in 2..13 PROVE e[i] \in 0..255
    <3>1. i \in 1..Len(e)
      BY <2>1
    <3> QED
      BY <1>1, <3>1, ElementOfSeq, Zenon
  <2> QED
    BY <2>2, SubSeqProperties
<1>5. zeros \in Seq(0..255)
  BY <1>2 DEF Zeros
<1>6. first \in Seq(0..255) /\ pair \in Seq(0..255)
  BY DEF ReplyId
<1> HIDE DEF part, zeros, first, pair
<1>7. bytes \in Seq(0..255)
  BY <1>4, <1>5, <1>6
<1> HIDE DEF bytes
<1> QED
  BY <1>3, <1>7 DEF Ok

\* What a session is left with keeps its type.
LEMMA EstablishedType ==
    ASSUME NEW m, NEW req, req.payload \in Seq(0..255), NEW session \in SessionType, NEW settled,
           Establishes(m, req, session, settled)
    PROVE  settled \in SessionType
<1>1. CASE req.id \notin Stateful
  BY <1>1 DEF Establishes
<1>2. CASE req.id \in Stateful
  <2> DEFINE v == req.payload[1]
  <2>1. req.payload # <<>> /\ NextSession(m, session, req.id, v).ok
        /\ settled = NextSession(m, session, req.id, v).value
    BY <1>2 DEF Establishes
  <2>2. v \in Int
    <3>1. 1 \in 1..Len(req.payload)
      BY <2>1
    <3>2. v \in 0..255
      BY <3>1, ElementOfSeq, Zenon
    <3> HIDE DEF v
    <3> QED
      BY <3>2
  <2>3. IdentityState \in [orientation : Int, previous_report : Int]
    BY DEF IdentityState, NoReport
  <2> HIDE DEF v
  <2>4. CASE req.id = 3
    <3>1. settled = with_report_mode(session, v)
      BY <2>1, <2>4 DEF NextSession, Ok
    <3> QED
      BY <2>2, <3>1 DEF with_report_mode, SessionType
  <2>5. CASE req.id = 48
    <3>1. settled = with_player_lights(session, v)
      BY <2>1, <2>5 DEF NextSession, Ok
    <3> QED
      BY <2>2, <3>1 DEF with_player_lights, SessionType
  <2>6. CASE req.id = 64
    <3>1. settled = with_imu_mode(session, v)
      BY <2>1, <2>6 DEF NextSession, Ok, Err
    <3> QED
      BY <2>2, <2>3, <3>1 DEF with_imu_mode, SessionType
  <2>7. CASE req.id = 72
    <3>1. settled = with_vibration_enabled(session, v = 1)
      BY <2>1, <2>7 DEF NextSession, Ok, Err
    <3> QED
      BY <3>1 DEF with_vibration_enabled, SessionType
  <2> QED
    BY <1>2, <2>4, <2>5, <2>6, <2>7 DEF Stateful
<1> QED
  BY <1>1, <1>2

\* Encoding a motion block leaves a state of its type.
LEMMA ImuStateType ==
    ASSUME NEW current \in [orientation : Int, previous_report : Int], NEW mode,
           NEW state, InState(state), NEW t \in Nat
    PROVE  encode_imu_block(current, mode, state.frames, t).next_state
              \in [orientation : Int, previous_report : Int]
<1> DEFINE frames == state.frames
           previous == current.previous_report
           elapsed == IF previous = NoReport \/ t < previous THEN 0 ELSE t - previous
           turned == current.orientation + TotalRate(frames) * elapsed
<1>1. IdentityState \in [orientation : Int, previous_report : Int]
  BY DEF IdentityState, NoReport
<1>2. TotalRate(frames) \in Int
  <2>1. frames[1].gyro \in Int /\ frames[2].gyro \in Int /\ frames[3].gyro \in Int
    BY DEF InState
  <2> QED
    BY <2>1 DEF TotalRate
<1>3. elapsed \in Int
  OBVIOUS
<1> HIDE DEF elapsed
<1>4. turned \in Int
  BY <1>2, <1>3
<1>5. encode_quaternion_imu(current, frames, t).next_state
      = [orientation |-> turned, previous_report |-> t]
  BY DEF encode_quaternion_imu, next_orientation, elapsed
<1> HIDE DEF turned, frames
<1>6. encode_quaternion_imu(current, frames, t).next_state
      \in [orientation : Int, previous_report : Int]
  BY <1>4, <1>5
<1>7. \/ encode_imu_block(current, mode, frames, t).next_state = IdentityState
      \/ encode_imu_block(current, mode, frames, t) = encode_quaternion_imu(current, frames, t)
  BY DEF encode_imu_block
<1> QED
  BY <1>1, <1>6, <1>7 DEF frames

\* An answer is bytes, and establishes a session.
LEMMA AnswerType ==
    ASSUME model \in Models, sender.timer \in 0..255, sender.session \in SessionType,
           InState(input), NEW raw \in OutputReports, Answer(raw).ok
    PROVE  Answer(raw).value.bytes \in Seq(0..255) /\ Answer(raw).value.session \in SessionType
<1> DEFINE req == RequestOf(raw)
           answered == Answer(raw)
<1>1. /\ answered = prepare_subcommand(model, Colors, req, ReplyState,
                                       sender.timer, sender.session)
      /\ req.payload \in Seq(0..255) /\ req.id \in 0..255
  BY ParsedRequest
<1> HIDE DEF req
<1>2. answered.ok /\ Made(model, req, ReplyState, sender.timer, sender.session, answered)
  BY <1>1, ReplyMade
<1> HIDE DEF answered
<1>3. PICK settled, data : \E ack \in 128..255, n \in Nat :
          /\ IsSeq(data, n) /\ data \in Seq(0..255)
          /\ Fits(model, req, data, n) /\ Establishes(model, req, sender.session, settled)
          /\ answered = prepare_0x21(model, ReplyState, sender.timer, settled, req.id, ack, data)
  BY <1>2 DEF Made
<1>4. PICK ack \in 128..255 :
          /\ data \in Seq(0..255) /\ Establishes(model, req, sender.session, settled)
          /\ answered = prepare_0x21(model, ReplyState, sender.timer, settled, req.id, ack, data)
  BY <1>3
<1>5. InState(ReplyState)
  BY NeutralInState DEF ReplyState
<1>6. ack \in 0..255
  OBVIOUS
<1>7. answered.value.bytes \in Seq(0..255)
  BY <1>1, <1>2, <1>4, <1>5, <1>6, ReplyIsBytes, ZenonT(40)
<1>8. answered.value.session = settled
  BY <1>2, <1>4 DEF prepare_0x21, Ok, Err
<1>9. settled \in SessionType
  BY <1>1, <1>4, EstablishedType
<1> QED
  BY <1>7, <1>8, <1>9 DEF answered

\* The inductive invariant behind PathTypeOK: the input in store can be encoded.
SenderType == [timer : 0..(TimerModulus - 1), session : SessionType]
HostType == [report_mode : Int, player_lights : Int, imu_mode : Int,
             vibration_enabled : BOOLEAN]
WireInv ==
    /\ sender \in SenderType /\ host \in HostType /\ holdoff \in Nat
    /\ InState(input)
    /\ wire.bytes \in Seq(0..255)

LEMMA SenderParts ==
    ASSUME NEW s \in SenderType
    PROVE  s.timer \in 0..255 /\ s.session \in SessionType
           /\ s.session.imu \in [orientation : Int, previous_report : Int]
<1>1. s.timer \in 0..(TimerModulus - 1) /\ s.session \in SessionType
  BY DEF SenderType
<1>2. TimerModulus \in 1..256
  BY PathAssumption
<1>3. s.session.imu \in [orientation : Int, previous_report : Int]
  BY <1>1 DEF SessionType
<1> QED
  BY <1>1, <1>2, <1>3

\* Committing a send keeps the sender's type.
LEMMA CommitsType ==
    ASSUME sender \in SenderType, NEW ok \in BOOLEAN, NEW session \in SessionType
    PROVE  CommitSender(ok, session) \in SenderType
<1>1. TimerModulus \in 1..256 /\ sender.timer \in 0..255
  BY PathAssumption, SenderParts
<1>2. NextTimer \in 0..(TimerModulus - 1)
  BY <1>1 DEF NextTimer
<1> QED
  BY <1>2 DEF CommitSender, SenderType

\* Sending input keeps the types.
LEMMA InputKeepsType ==
    ASSUME TypeOK, model \in Models, WireInv,
           NEW state, InState(state), NEW of, NEW ok \in BOOLEAN, send_input(state, of, ok),
           UNCHANGED <<host, holdoff>>, InState(input')
    PROVE  WireInv'
<1> DEFINE imu == encode_imu_block(sender.session.imu, sender.session.imu_mode,
                                   state.frames, now)
           session == with_imu_encoding_state(sender.session, imu.next_state)
           bytes == encode_0x30(model, state, sender.timer, imu.block)
<1>1. /\ sender' = CommitSender(ok, session)
      /\ ok => wire'.bytes = bytes
      /\ ~ok => wire' = wire
  BY DEF send_input, prepare_input_report
<1>2. /\ sender.timer \in 0..255 /\ sender.session \in SessionType
      /\ sender.session.imu \in [orientation : Int, previous_report : Int]
  BY SenderParts DEF WireInv
<1>3. now \in Nat
  BY HorizonAssumption DEF TypeOK
<1>4. imu.next_state \in [orientation : Int, previous_report : Int]
  BY <1>2, <1>3, ImuStateType
<1> HIDE DEF imu
<1>5. session \in SessionType
  BY <1>2, <1>4 DEF with_imu_encoding_state, SessionType
<1>6. bytes \in Seq(0..255)
  BY <1>2, ReportIsBytes
<1> HIDE DEF session, bytes
<1>7. sender' \in SenderType
  BY <1>1, <1>5, CommitsType DEF WireInv
<1>8. wire'.bytes \in Seq(0..255)
  BY <1>1, <1>6 DEF WireInv
<1> QED
  BY <1>7, <1>8 DEF WireInv

\* Answering the console keeps the types.
LEMMA AnswerKeepsType ==
    ASSUME TypeOK, AckInv, WireInv, NEW ok \in BOOLEAN, HandleAnswered(ok)
    PROVE  WireInv'
<1> DEFINE raw == Head(toDevice)
           reply == Answer(raw).value
<1>1. /\ toDevice # <<>> /\ Answer(raw).ok /\ UNCHANGED <<host, input>>
      /\ sender' = CommitSender(ok, reply.session)
      /\ ok => /\ wire'.bytes = reply.bytes
               /\ holdoff' = IF holdoff > now + ReplyHoldoff THEN holdoff
                             ELSE now + ReplyHoldoff
      /\ ~ok => wire' = wire /\ holdoff' = holdoff
  BY DEF HandleAnswered
<1>2. raw \in OutputReports /\ model \in Models
  BY <1>1 DEF AckInv, ConsoleShape
<1>3. sender.timer \in 0..255 /\ sender.session \in SessionType
  BY SenderParts DEF WireInv
<1> HIDE DEF raw
<1>4. reply.bytes \in Seq(0..255) /\ reply.session \in SessionType
  BY <1>1, <1>2, <1>3, AnswerType DEF WireInv
<1> HIDE DEF reply
<1>5. sender' \in SenderType
  BY <1>1, <1>4, CommitsType DEF WireInv
<1>6. holdoff' \in Nat
  BY <1>1, HorizonAssumption, PathAssumption DEF WireInv, TypeOK
<1>7. wire'.bytes \in Seq(0..255)
  BY <1>1, <1>4 DEF WireInv
<1> QED
  BY <1>1, <1>5, <1>6, <1>7 DEF WireInv

\* So does what the console learns from an answer.
LEMMA HearKeepsType ==
    ASSUME AckInv, WireInv, Hear PROVE WireInv'
<1>1. UNCHANGED <<sender, wire, input, holdoff>>
  BY DEF Hear, output
<1>2. CASE host' = host
  BY <1>1, <1>2 DEF WireInv
<1>3. CASE Len(asked) >= 12 /\ host' = Acknowledged(host, asked)
  <2>1. asked \in Seq(0..255)
    <3>1. asked \in OutputReports \/ asked = <<>>
      BY DEF AckInv, ConsoleShape, NotAsked
    <3>2. OutputReports \subseteq Seq(0..255)
      BY PathAssumption
    <3>3. <<>> \in Seq(0..255)
      OBVIOUS
    <3>4. CASE asked \in OutputReports
      BY <3>2, <3>4, Zenon
    <3>5. CASE asked = <<>>
      BY <3>3, <3>5
    <3> QED
      BY <3>1, <3>4, <3>5, Zenon
  <2>2. 12 \in 1..Len(asked)
    BY <1>3, <2>1
  <2>3. asked[12] \in Int
    <3>1. asked[12] \in Nat
      BY <2>1, <2>2, ElementOfSeq, ByteIsNat, Zenon
    <3> QED
      BY <3>1
  <2>4. host' \in HostType
    BY <1>3, <2>3 DEF WireInv, HostType, Acknowledged
  <2> QED
    BY <1>1, <2>4 DEF WireInv
<1> QED
  BY <1>2, <1>3 DEF Hear

LEMMA FreshType == FreshSession \in SessionType /\ Settings(FreshSession) \in HostType
BY DEF FreshSession, SessionType, IdentityState, None, NoReport, Settings, HostType

\* Every step keeps the types.
LEMMA WireStep ==
    ASSUME TypeOK, AckInv, WireInv, [PathNext]_pathVars PROVE WireInv'
<1>1. model \in Models
  BY DEF AckInv, ConsoleShape
<1>2. CASE UNCHANGED <<sender, host, holdoff, input, wire>>
  BY <1>2 DEF WireInv
<1>3. CASE Clock \/ StartReporting \/ Backpressured \/ NothingDue \/ HandleSilently
           \/ AskAgain \/ (\E raw \in OutputReports : Ask(raw)) \/ UNCHANGED pathVars
           \/ (\E r \in Requested : Refused(r))
  <2>1. UNCHANGED <<sender, host, holdoff, input, wire>>
    BY <1>3 DEF Clock, StartReporting, Backpressured, NothingDue, HandleSilently,
                AskAgain, Ask, Refused, pathVars, output, console
  <2> QED
    BY <1>2, <2>1
<1>4. ASSUME NEW r \in Requested, Commit(r) PROVE WireInv'
  <2>1. InState(Converted(r)) /\ input' = Converted(r)
        /\ UNCHANGED <<sender, host, holdoff, wire>>
    BY <1>4, ConvertedInState DEF Commit, output, console
  <2> QED
    BY <2>1 DEF WireInv
<1>5. ASSUME NEW r \in Requested, NEW ok \in BOOLEAN, CommitAndSend(r, ok) PROVE WireInv'
  <2>1. InState(Converted(r)) /\ input' = Converted(r) /\ send_input(Converted(r), r, ok)
        /\ UNCHANGED <<host, holdoff>>
    BY <1>5, ConvertedInState DEF CommitAndSend, console
  <2>2. InState(input')
    BY <2>1
  <2> QED
    BY <1>1, <2>1, <2>2, InputKeepsType
<1>6. ASSUME NEW ok \in BOOLEAN, ReportDue(ok) PROVE WireInv'
  <2>1. send_input(input, request, ok) /\ UNCHANGED <<host, holdoff, input>>
    BY <1>6 DEF ReportDue, console
  <2>2. InState(input) /\ InState(input')
    BY <2>1 DEF WireInv
  <2> QED
    BY <1>1, <2>1, <2>2, InputKeepsType
<1>7. ASSUME NEW ok \in BOOLEAN, SendNeutral(ok) PROVE WireInv'
  <2>1. send_input(neutral, Rest, ok) /\ UNCHANGED <<host, holdoff, input>>
    BY <1>7 DEF SendNeutral, console
  <2>2. InState(input')
    BY <2>1 DEF WireInv
  <2> QED
    BY <1>1, <2>1, <2>2, NeutralInState, InputKeepsType
<1>8. CASE NewLink
  <2>1. /\ sender' = [timer |-> 0, session |-> FreshSession] /\ holdoff' = 0
        /\ host' = Settings(FreshSession) /\ input' = neutral /\ wire' = NoWire
    BY <1>8 DEF NewLink
  <2>2. 0 \in 0..(TimerModulus - 1)
    BY PathAssumption
  <2>3. sender' \in SenderType /\ host' \in HostType
    BY <2>1, <2>2, FreshType DEF SenderType
  <2>4. wire'.bytes \in Seq(0..255)
    BY <2>1 DEF NoWire
  <2> QED
    BY <2>1, <2>3, <2>4, NeutralInState DEF WireInv
<1> QED
  BY <1>3, <1>4, <1>5, <1>6, <1>7, <1>8, AnswerKeepsType, HearKeepsType
     DEF PathNext, Device, Client, Console

LEMMA WireStart == ASSUME PathInit PROVE WireInv
<1>1. PICK s \in Setups : /\ sender = [timer |-> 0, session |-> s.session]
                          /\ host = Settings(s.session)
  BY DEF PathInit
<1>2. s.session \in SessionType
  BY PathAssumption
<1>3. 0 \in 0..(TimerModulus - 1)
  BY PathAssumption
<1>4. sender \in SenderType
  BY <1>1, <1>2, <1>3 DEF SenderType
<1>5. host \in HostType
  BY <1>1, <1>2 DEF Settings, SessionType, HostType
<1>6. input = neutral /\ holdoff = 0 /\ wire.bytes = <<>>
  BY DEF PathInit, NoWire
<1>7. wire.bytes \in Seq(0..255)
  BY <1>6
<1> QED
  BY <1>4, <1>5, <1>6, <1>7, NeutralInState DEF WireInv

\* Every field has its type, and what is accepted on the wire is bytes: with a
\* timer of a byte, no stick, sample or setting a client or console chooses
\* makes a report or a reply that is not.
THEOREM PathTypesAreCorrect == PathSpec => []PathTypeOK
<1>1. PathInit => WireInv
  BY WireStart
<1>2. TypeOK /\ AckInv /\ WireInv => PathTypeOK
  <2> SUFFICES ASSUME TypeOK, AckInv, WireInv PROVE PathTypeOK
    OBVIOUS
  <2>1. \A i \in 1..Len(wire.bytes) : wire.bytes[i] \in 0..255
    BY ElementOfSeq DEF WireInv
  <2> QED
    BY <2>1 DEF PathTypeOK, AckInv, ConsoleShape, WireInv, SenderType, HostType
<1> QED
  BY <1>1, <1>2, PathSchedules, TypeIsCorrect, AckStart, AckStep, WireStep, PTL DEF PathSpec

-----------------------------------------------------------------------------
(* Bits and bytes *)

LEMMA Powers ==
    /\ 2^0 = 1 /\ 2^1 = 2 /\ 2^2 = 4 /\ 2^3 = 8 /\ 2^4 = 16 /\ 2^5 = 32 /\ 2^6 = 64 /\ 2^7 = 128
    /\ 2^8 = 256 /\ 2^9 = 512 /\ 2^10 = 1024 /\ 2^11 = 2048 /\ 2^12 = 4096 /\ 2^13 = 8192
    /\ 2^14 = 16384 /\ 2^15 = 32768 /\ 2^16 = 65536
OBVIOUS

\* The bits of a byte are those it is made of.
LEMMA ByteBits ==
    ASSUME NEW a \in {0, 1}, NEW b \in {0, 1}, NEW c \in {0, 1}, NEW d \in {0, 1},
           NEW e \in {0, 1}, NEW f \in {0, 1}, NEW g \in {0, 1}, NEW h \in {0, 1},
           NEW n, n = a + 2 * b + 4 * c + 8 * d + 16 * e + 32 * f + 64 * g + 128 * h
    PROVE  /\ Bit(n, 0) = a /\ Bit(n, 1) = b /\ Bit(n, 2) = c /\ Bit(n, 3) = d
           /\ Bit(n, 4) = e /\ Bit(n, 5) = f /\ Bit(n, 6) = g /\ Bit(n, 7) = h
<1>1. /\ Bit(n, 0) = (n \div 1) % 2 /\ Bit(n, 1) = (n \div 2) % 2
      /\ Bit(n, 2) = (n \div 4) % 2 /\ Bit(n, 3) = (n \div 8) % 2
      /\ Bit(n, 4) = (n \div 16) % 2 /\ Bit(n, 5) = (n \div 32) % 2
      /\ Bit(n, 6) = (n \div 64) % 2 /\ Bit(n, 7) = (n \div 128) % 2
  BY Powers DEF Bit
<1>2. n \in Nat
  OBVIOUS
<1>3. /\ (n \div 1) % 2 = a /\ (n \div 2) % 2 = b /\ (n \div 4) % 2 = c /\ (n \div 8) % 2 = d
  OBVIOUS
<1>4. /\ (n \div 16) % 2 = e /\ (n \div 32) % 2 = f /\ (n \div 64) % 2 = g /\ (n \div 128) % 2 = h
  OBVIOUS
<1> QED
  BY <1>1, <1>3, <1>4

AtPlace(m, b, index, k) == m.wire[b].byte_index = index /\ m.wire[b].mask = 2^k

\* A button shows in the byte and at the bit the model gives it.
LEMMA ButtonBits ==
    ASSUME NEW m, NEW buttons, NEW index, NEW k \in 0..7
    PROVE  Bit(ButtonByte(m, buttons, index), k) = 1
           <=> \E b \in buttons : AtPlace(m, b, index, k)
<1> DEFINE masks == {p.mask : p \in {q \in {button_wire_position(m, b) : b \in buttons} :
                                          q.byte_index = index}}
           bit(b) == IF 2^b \in masks THEN 1 ELSE 0
           n == ButtonByte(m, buttons, index)
<1>1. n = bit(0) + 2 * bit(1) + 4 * bit(2) + 8 * bit(3)
          + 16 * bit(4) + 32 * bit(5) + 64 * bit(6) + 128 * bit(7)
  BY DEF ButtonByte, Byte
<1>2. bit(k) = 1 <=> \E b \in buttons : m.wire[b].byte_index = index /\ m.wire[b].mask = 2^k
  <2>1. 2^k \in masks <=> \E b \in buttons : m.wire[b].byte_index = index /\ m.wire[b].mask = 2^k
    BY DEF button_wire_position
  <2> HIDE DEF masks
  <2> QED
    BY <2>1
<1>3. \A b : bit(b) \in {0, 1}
  OBVIOUS
<1> HIDE DEF bit, n
<1>4. /\ Bit(n, 0) = bit(0) /\ Bit(n, 1) = bit(1) /\ Bit(n, 2) = bit(2) /\ Bit(n, 3) = bit(3)
      /\ Bit(n, 4) = bit(4) /\ Bit(n, 5) = bit(5) /\ Bit(n, 6) = bit(6) /\ Bit(n, 7) = bit(7)
  BY <1>1, <1>3, ByteBits
<1>5. Bit(n, k) = bit(k)
  <2>1. k = 0 \/ k = 1 \/ k = 2 \/ k = 3 \/ k = 4 \/ k = 5 \/ k = 6 \/ k = 7
    OBVIOUS
  <2> QED
    BY <1>4, <2>1
<1> QED
  BY <1>2, <1>5 DEF n, AtPlace

\* Where the console looks for a button of a model.
Placed(m, x, i, k) ==
    /\ i \in 1..3 /\ k \in 1..8 /\ HostLayout[i][k] = x
    /\ m.wire[x].byte_index = i + 2 /\ m.wire[x].mask = 2^(k - 1)

LEMMA MaskPowers ==
    /\ 2^(1 - 1) = 1 /\ 2^(2 - 1) = 2 /\ 2^(3 - 1) = 4 /\ 2^(4 - 1) = 8
    /\ 2^(5 - 1) = 16 /\ 2^(6 - 1) = 32 /\ 2^(7 - 1) = 64 /\ 2^(8 - 1) = 128
<1>1. /\ 1 - 1 = 0 /\ 2 - 1 = 1 /\ 3 - 1 = 2 /\ 4 - 1 = 3 /\ 5 - 1 = 4 /\ 6 - 1 = 5
      /\ 7 - 1 = 6 /\ 8 - 1 = 7
  OBVIOUS
<1> QED
  BY <1>1, Powers

\* Every button is where the layout has it.
LEMMA ButtonsPlaced ==
    ASSUME NEW m \in Models, NEW x \in DOMAIN m.wire PROVE \E i, k : Placed(m, x, i, k)
<1> USE MaskPowers DEF HostLayout, At
<1>1. CASE m = Pro
  <2>1. x \in {"A", "B", "X", "Y", "L", "R", "ZL", "ZR", "Plus", "Minus", "Home", "Capture", "LeftStick", "RightStick", "DpadUp", "DpadDown", "DpadLeft", "DpadRight"}
    BY <1>1 DEF Pro
  <2>2. CASE x = "A"
    <3>1. Placed(m, x, 1, 4)
      BY <1>1, <2>2 DEF Pro, Placed
    <3> QED
      BY <3>1, Zenon
  <2>3. CASE x = "B"
    <3>1. Placed(m, x, 1, 3)
      BY <1>1, <2>3 DEF Pro, Placed
    <3> QED
      BY <3>1, Zenon
  <2>4. CASE x = "X"
    <3>1. Placed(m, x, 1, 2)
      BY <1>1, <2>4 DEF Pro, Placed
    <3> QED
      BY <3>1, Zenon
  <2>5. CASE x = "Y"
    <3>1. Placed(m, x, 1, 1)
      BY <1>1, <2>5 DEF Pro, Placed
    <3> QED
      BY <3>1, Zenon
  <2>6. CASE x = "L"
    <3>1. Placed(m, x, 3, 7)
      BY <1>1, <2>6 DEF Pro, Placed
    <3> QED
      BY <3>1, Zenon
  <2>7. CASE x = "R"
    <3>1. Placed(m, x, 1, 7)
      BY <1>1, <2>7 DEF Pro, Placed
    <3> QED
      BY <3>1, Zenon
  <2>8. CASE x = "ZL"
    <3>1. Placed(m, x, 3, 8)
      BY <1>1, <2>8 DEF Pro, Placed
    <3> QED
      BY <3>1, Zenon
  <2>9. CASE x = "ZR"
    <3>1. Placed(m, x, 1, 8)
      BY <1>1, <2>9 DEF Pro, Placed
    <3> QED
      BY <3>1, Zenon
  <2>10. CASE x = "Plus"
    <3>1. Placed(m, x, 2, 2)
      BY <1>1, <2>10 DEF Pro, Placed
    <3> QED
      BY <3>1, Zenon
  <2>11. CASE x = "Minus"
    <3>1. Placed(m, x, 2, 1)
      BY <1>1, <2>11 DEF Pro, Placed
    <3> QED
      BY <3>1, Zenon
  <2>12. CASE x = "Home"
    <3>1. Placed(m, x, 2, 5)
      BY <1>1, <2>12 DEF Pro, Placed
    <3> QED
      BY <3>1, Zenon
  <2>13. CASE x = "Capture"
    <3>1. Placed(m, x, 2, 6)
      BY <1>1, <2>13 DEF Pro, Placed
    <3> QED
      BY <3>1, Zenon
  <2>14. CASE x = "LeftStick"
    <3>1. Placed(m, x, 2, 4)
      BY <1>1, <2>14 DEF Pro, Placed
    <3> QED
      BY <3>1, Zenon
  <2>15. CASE x = "RightStick"
    <3>1. Placed(m, x, 2, 3)
      BY <1>1, <2>15 DEF Pro, Placed
    <3> QED
      BY <3>1, Zenon
  <2>16. CASE x = "DpadUp"
    <3>1. Placed(m, x, 3, 2)
      BY <1>1, <2>16 DEF Pro, Placed
    <3> QED
      BY <3>1, Zenon
  <2>17. CASE x = "DpadDown"
    <3>1. Placed(m, x, 3, 1)
      BY <1>1, <2>17 DEF Pro, Placed
    <3> QED
      BY <3>1, Zenon
  <2>18. CASE x = "DpadLeft"
    <3>1. Placed(m, x, 3, 4)
      BY <1>1, <2>18 DEF Pro, Placed
    <3> QED
      BY <3>1, Zenon
  <2>19. CASE x = "DpadRight"
    <3>1. Placed(m, x, 3, 3)
      BY <1>1, <2>19 DEF Pro, Placed
    <3> QED
      BY <3>1, Zenon
  <2> QED
    BY <2>1, <2>2, <2>3, <2>4, <2>5, <2>6, <2>7, <2>8, <2>9, <2>10, <2>11, <2>12, <2>13, <2>14, <2>15, <2>16, <2>17, <2>18, <2>19
<1>2. CASE m = JoyConL
  <2>1. x \in {"L", "ZL", "Minus", "Capture", "LeftStick", "SL", "SR", "DpadUp", "DpadDown", "DpadLeft", "DpadRight"}
    BY <1>2 DEF JoyConL
  <2>2. CASE x = "L"
    <3>1. Placed(m, x, 3, 7)
      BY <1>2, <2>2 DEF JoyConL, Placed
    <3> QED
      BY <3>1, Zenon
  <2>3. CASE x = "ZL"
    <3>1. Placed(m, x, 3, 8)
      BY <1>2, <2>3 DEF JoyConL, Placed
    <3> QED
      BY <3>1, Zenon
  <2>4. CASE x = "Minus"
    <3>1. Placed(m, x, 2, 1)
      BY <1>2, <2>4 DEF JoyConL, Placed
    <3> QED
      BY <3>1, Zenon
  <2>5. CASE x = "Capture"
    <3>1. Placed(m, x, 2, 6)
      BY <1>2, <2>5 DEF JoyConL, Placed
    <3> QED
      BY <3>1, Zenon
  <2>6. CASE x = "LeftStick"
    <3>1. Placed(m, x, 2, 4)
      BY <1>2, <2>6 DEF JoyConL, Placed
    <3> QED
      BY <3>1, Zenon
  <2>7. CASE x = "SL"
    <3>1. Placed(m, x, 3, 6)
      BY <1>2, <2>7 DEF JoyConL, Placed
    <3> QED
      BY <3>1, Zenon
  <2>8. CASE x = "SR"
    <3>1. Placed(m, x, 3, 5)
      BY <1>2, <2>8 DEF JoyConL, Placed
    <3> QED
      BY <3>1, Zenon
  <2>9. CASE x = "DpadUp"
    <3>1. Placed(m, x, 3, 2)
      BY <1>2, <2>9 DEF JoyConL, Placed
    <3> QED
      BY <3>1, Zenon
  <2>10. CASE x = "DpadDown"
    <3>1. Placed(m, x, 3, 1)
      BY <1>2, <2>10 DEF JoyConL, Placed
    <3> QED
      BY <3>1, Zenon
  <2>11. CASE x = "DpadLeft"
    <3>1. Placed(m, x, 3, 4)
      BY <1>2, <2>11 DEF JoyConL, Placed
    <3> QED
      BY <3>1, Zenon
  <2>12. CASE x = "DpadRight"
    <3>1. Placed(m, x, 3, 3)
      BY <1>2, <2>12 DEF JoyConL, Placed
    <3> QED
      BY <3>1, Zenon
  <2> QED
    BY <2>1, <2>2, <2>3, <2>4, <2>5, <2>6, <2>7, <2>8, <2>9, <2>10, <2>11, <2>12
<1>3. CASE m = JoyConR
  <2>1. x \in {"A", "B", "X", "Y", "R", "ZR", "Plus", "Home", "RightStick", "SL", "SR"}
    BY <1>3 DEF JoyConR
  <2>2. CASE x = "A"
    <3>1. Placed(m, x, 1, 4)
      BY <1>3, <2>2 DEF JoyConR, Placed
    <3> QED
      BY <3>1, Zenon
  <2>3. CASE x = "B"
    <3>1. Placed(m, x, 1, 3)
      BY <1>3, <2>3 DEF JoyConR, Placed
    <3> QED
      BY <3>1, Zenon
  <2>4. CASE x = "X"
    <3>1. Placed(m, x, 1, 2)
      BY <1>3, <2>4 DEF JoyConR, Placed
    <3> QED
      BY <3>1, Zenon
  <2>5. CASE x = "Y"
    <3>1. Placed(m, x, 1, 1)
      BY <1>3, <2>5 DEF JoyConR, Placed
    <3> QED
      BY <3>1, Zenon
  <2>6. CASE x = "R"
    <3>1. Placed(m, x, 1, 7)
      BY <1>3, <2>6 DEF JoyConR, Placed
    <3> QED
      BY <3>1, Zenon
  <2>7. CASE x = "ZR"
    <3>1. Placed(m, x, 1, 8)
      BY <1>3, <2>7 DEF JoyConR, Placed
    <3> QED
      BY <3>1, Zenon
  <2>8. CASE x = "Plus"
    <3>1. Placed(m, x, 2, 2)
      BY <1>3, <2>8 DEF JoyConR, Placed
    <3> QED
      BY <3>1, Zenon
  <2>9. CASE x = "Home"
    <3>1. Placed(m, x, 2, 5)
      BY <1>3, <2>9 DEF JoyConR, Placed
    <3> QED
      BY <3>1, Zenon
  <2>10. CASE x = "RightStick"
    <3>1. Placed(m, x, 2, 3)
      BY <1>3, <2>10 DEF JoyConR, Placed
    <3> QED
      BY <3>1, Zenon
  <2>11. CASE x = "SL"
    <3>1. Placed(m, x, 1, 6)
      BY <1>3, <2>11 DEF JoyConR, Placed
    <3> QED
      BY <3>1, Zenon
  <2>12. CASE x = "SR"
    <3>1. Placed(m, x, 1, 5)
      BY <1>3, <2>12 DEF JoyConR, Placed
    <3> QED
      BY <3>1, Zenon
  <2> QED
    BY <2>1, <2>2, <2>3, <2>4, <2>5, <2>6, <2>7, <2>8, <2>9, <2>10, <2>11, <2>12
<1> QED
  BY <1>1, <1>2, <1>3 DEF Models

\* And nothing else is there.
LEMMA PlacedOnce ==
    ASSUME NEW m \in Models, NEW x \in DOMAIN m.wire, NEW i \in 1..3, NEW k \in 1..8,
           AtPlace(m, x, i + 2, k - 1)
    PROVE  HostLayout[i][k] = x
<1>1. PICK j, l : Placed(m, x, j, l)
  BY ButtonsPlaced
<1>2. j \in 1..3 /\ l \in 1..8 /\ i + 2 = j + 2 /\ 2^(k - 1) = 2^(l - 1) /\ HostLayout[j][l] = x
  BY <1>1 DEF Placed, AtPlace
<1>3. i = j
  BY <1>2
<1>4. k = l
  <2> DEFINE mask(n) == 2^(n - 1)
  <2>1. /\ mask(1) = 1 /\ mask(2) = 2 /\ mask(3) = 4 /\ mask(4) = 8
        /\ mask(5) = 16 /\ mask(6) = 32 /\ mask(7) = 64 /\ mask(8) = 128
    BY MaskPowers
  <2>2. mask(k) = mask(l)
    BY <1>2
  <2> HIDE DEF mask
  <2> QED
    BY <1>2, <2>1, <2>2
<1> QED
  BY <1>2, <1>3, <1>4

-----------------------------------------------------------------------------
(* Where a report shows what it is made of *)

\* The bytes of buttons and sticks, which a reply shares with a report.
Shows12(bytes, m, state) ==
    /\ \A i \in 3..5 : bytes[i + 1] = ButtonByte(m, state.buttons, i)
    /\ \A i \in 1..3 : bytes[6 + i] = pack_stick(state.left)[i]
                       /\ bytes[9 + i] = pack_stick(state.right)[i]

LEMMA ReportPlaces ==
    ASSUME NEW m, NEW state, NEW timer, NEW block
    PROVE  LET e == encode_0x30(m, state, timer, block)
           IN  /\ Shows12(e, m, state)
               /\ \A i \in 1..36 : e[13 + i] = BlockBytes(block)[i]
<1> DEFINE e == encode_0x30(m, state, timer, block)
           head == <<ReportId, timer, m.protocol.battery_connection,
                     ButtonByte(m, state.buttons, 3), ButtonByte(m, state.buttons, 4),
                     ButtonByte(m, state.buttons, 5)>>
           byte(i) == Byte(LAMBDA b : IF 8 * (i - 1) + b \in block THEN 1 ELSE 0)
           bytes == [i \in 1..36 |-> byte(i)]
           left_stick == pack_stick(state.left)
           right_stick == pack_stick(state.right)
           vibration == <<m.protocol.vibrator_input>>
<1>1. IsSeq(head, 6) /\ IsSeq(vibration, 1)
  BY Tuples
<1>2. IsSeq(left_stick, 3) /\ IsSeq(right_stick, 3)
  BY Tuples, ZenonT(40) DEF pack_stick
<1>3. e = (((head \o left_stick) \o right_stick) \o vibration) \o bytes /\ bytes = BlockBytes(block)
  BY DEF encode_0x30, BlockBytes
<1>4. \A i \in 3..5 : head[i + 1] = ButtonByte(m, state.buttons, i)
  <2>1. ASSUME NEW i \in 3..5 PROVE head[i + 1] = ButtonByte(m, state.buttons, i)
    <3>1. i = 3 \/ i = 4 \/ i = 5
      OBVIOUS
    <3> QED
      BY <3>1
  <2> QED
    BY <2>1
<1> HIDE DEF byte
<1>5. bytes \in Seq({byte(i) : i \in 1..36}) /\ Len(bytes) = 36
  OBVIOUS
<1>6. IsSeq(bytes, 36)
  BY <1>5 DEF IsSeq
<1> HIDE DEF e, head, bytes, left_stick, right_stick, vibration
<1> DEFINE two == head \o left_stick
           three == two \o right_stick
           four == three \o vibration
<1>7. IsSeq(two, 6 + 3) /\ Begins(two, head, 6) /\ Continues(two, left_stick, 6, 3)
  BY <1>1, <1>2, Joined, Places
<1> HIDE DEF two
<1>8. IsSeq(two, 9)
  BY <1>7
<1>9. IsSeq(three, 9 + 3) /\ Begins(three, two, 9) /\ Continues(three, right_stick, 9, 3)
  BY <1>2, <1>8, Joined, Places
<1> HIDE DEF three
<1>10. IsSeq(three, 12)
  BY <1>9
<1>11. IsSeq(four, 12 + 1) /\ Begins(four, three, 12)
  BY <1>1, <1>10, Joined, Places
<1> HIDE DEF four
<1>12. IsSeq(four, 13)
  BY <1>11
<1>13. Begins(e, four, 13) /\ Continues(e, bytes, 13, 36)
  <2>1. e = four \o bytes
    BY <1>3 DEF four, three, two
  <2>2. Begins(four \o bytes, four, 13) /\ Continues(four \o bytes, bytes, 13, 36)
    BY <1>6, <1>12, Places
  <2> QED
    BY <2>1, <2>2
<1>14. /\ \A i \in 1..12 : e[i] = three[i]
       /\ \A i \in 1..9 : three[i] = two[i]
       /\ \A i \in 1..6 : two[i] = head[i]
       /\ \A i \in 1..3 : two[6 + i] = left_stick[i] /\ three[9 + i] = right_stick[i]
  BY <1>7, <1>9, <1>11, <1>13 DEF Begins, Continues
<1>15. \A i \in 3..5 : e[i + 1] = ButtonByte(m, state.buttons, i)
  <2> TAKE i \in 3..5
  <2>1. i + 1 \in 1..6 /\ i + 1 \in 1..9 /\ i + 1 \in 1..12
    OBVIOUS
  <2> QED
    BY <1>4, <1>14, <2>1
<1>16. \A i \in 1..3 : e[6 + i] = left_stick[i] /\ e[9 + i] = right_stick[i]
  <2> TAKE i \in 1..3
  <2>1. 6 + i \in 1..9 /\ 6 + i \in 1..12 /\ 9 + i \in 1..12
    OBVIOUS
  <2> QED
    BY <1>14, <2>1
<1>17. \A i \in 1..36 : e[13 + i] = BlockBytes(block)[i]
  BY <1>3, <1>13 DEF Continues
<1> QED
  BY <1>15, <1>16, <1>17 DEF Shows12, e, left_stick, right_stick

\* A reply begins as a report does.
LEMMA ReplyPlaces ==
    ASSUME NEW m, NEW state, NEW timer, NEW session, NEW id, NEW ack, NEW data,
           NEW n \in Nat, IsSeq(data, n),
           prepare_0x21(m, state, timer, session, id, ack, data).ok
    PROVE  Shows12(prepare_0x21(m, state, timer, session, id, ack, data).value.bytes, m, state)
<1> DEFINE e == encode_0x30(m, state, timer, {})
           zeros == Zeros(35 - Len(data))
           pad == data \o zeros
           id13 == <<ReplyId>>
           part == SubSeq(e, 2, 13)
           front == id13 \o part
           pair == <<ack, id>>
           head == front \o pair
           bytes == head \o pad
<1>1. IsSeq(e, 49) /\ Shows12(e, m, state)
  BY ReportLength, ReportPlaces
<1>2. n <= 35 /\ Len(data) = n
  BY DEF prepare_0x21, Err, IsSeq
<1>3. prepare_0x21(m, state, timer, session, id, ack, data).value.bytes = bytes
  BY <1>2 DEF prepare_0x21, Ok, Padded
<1>4. IsSeq(pad, n + (35 - n)) /\ n + (35 - n) = 35
  <2>1. IsSeq(zeros, 35 - n) /\ 35 - n \in Nat
    BY <1>2, Filler
  <2> HIDE DEF zeros
  <2> QED
    BY <2>1, Joined
<1>5. IsSeq(id13, 1) /\ IsSeq(pair, 2)
  BY Tuples, Pair
<1> HIDE DEF e, pad, id13, pair
<1>6. IsSeq(part, 12) /\ \A i \in 1..12 : part[i] = e[i + 1]
  <2>1. /\ IsSeq(part, 13 - 2 + 1)
        /\ \A i \in 1..(13 - 2 + 1) : part[i] = e[2 + i - 1]
    BY <1>1, Part
  <2> HIDE DEF part
  <2>2. \A i \in 1..12 : 2 + i - 1 = i + 1
    OBVIOUS
  <2>3. 13 - 2 + 1 = 12
    OBVIOUS
  <2> QED
    BY <2>1, <2>2, <2>3
<1> HIDE DEF part
<1>7. IsSeq(front, 1 + 12) /\ Continues(front, part, 1, 12)
  BY <1>5, <1>6, Joined, Places
<1> HIDE DEF front
<1>8. IsSeq(front, 13)
  BY <1>7
<1>9. IsSeq(head, 13 + 2) /\ Begins(head, front, 13)
  BY <1>5, <1>8, Joined, Places
<1> HIDE DEF head
<1>10. IsSeq(head, 15) /\ IsSeq(pad, 35)
  BY <1>4, <1>9
<1>11. Begins(bytes, head, 15)
  BY <1>10, Places
<1> HIDE DEF bytes
<1>12. ASSUME NEW i \in 2..13 PROVE bytes[i] = e[i]
  <2>1. i - 1 \in 1..12 /\ 1 + (i - 1) = i /\ i \in 1..13 /\ i \in 1..15 /\ (i - 1) + 1 = i
    OBVIOUS
  <2>2. bytes[i] = head[i] /\ head[i] = front[i]
    BY <1>9, <1>11, <2>1 DEF Begins
  <2>3. front[1 + (i - 1)] = part[i - 1] /\ part[i - 1] = e[(i - 1) + 1]
    BY <1>6, <1>7, <2>1 DEF Continues
  <2> QED
    BY <2>1, <2>2, <2>3
<1>13. /\ \A i \in 3..5 : i + 1 \in 2..13
       /\ \A i \in 1..3 : 6 + i \in 2..13 /\ 9 + i \in 2..13
  OBVIOUS
<1>14. Shows12(bytes, m, state)
  BY <1>1, <1>12, <1>13 DEF Shows12
<1> QED
  BY <1>3, <1>14

-----------------------------------------------------------------------------
(* Sticks *)

\* The console reads from three bytes the two axes they were packed from.
LEMMA StickRead ==
    ASSUME NEW s, InStick(s), NEW bytes, NEW i \in Nat,
           bytes[i] = pack_stick(s)[1], bytes[i + 1] = pack_stick(s)[2],
           bytes[i + 2] = pack_stick(s)[3]
    PROVE  HostStick(bytes, i).x = s.x /\ HostStick(bytes, i).y = s.y
<1> DEFINE x == s.x
           y == s.y
           shared == ((x \div 256) % 16) + (y % 16) * 16
<1>1. x \in 0..4095 /\ y \in 0..4095
  BY ZenonT(40) DEF InStick, RawAxes, MinAxis, MaxAxis
<1>2. bytes[i] = x % 256 /\ bytes[i + 1] = shared /\ bytes[i + 2] = y \div 16
  BY DEF pack_stick
<1>3. HostStick(bytes, i) = [x |-> (x % 256) + 256 * (shared % 16),
                             y |-> shared \div 16 + 16 * (y \div 16)]
  BY <1>2 DEF HostStick
<1> HIDE DEF x, y
<1>4. shared % 16 = x \div 256 /\ shared \div 16 = y % 16
  <2>1. (x \div 256) % 16 = x \div 256 /\ x \div 256 \in 0..15 /\ y % 16 \in 0..15
    BY <1>1, SMTT(40)
  <2> QED
    BY <2>1
<1>5. (x % 256) + 256 * (x \div 256) = x /\ (y % 16) + 16 * (y \div 16) = y
  BY <1>1
<1> HIDE DEF shared
<1> QED
  BY <1>3, <1>4, <1>5 DEF x, y

\* Rounding is to the nearest.
LEMMA RoundedWithin ==
    ASSUME NEW n \in Int, NEW d \in Nat, d # 0
    PROVE  /\ round_ties_even(n, d) \in Int
           /\ Magnitude(d * round_ties_even(n, d) - n) * 2 <= d
<1> DEFINE q == n \div d
           r == n % d
           rounded == round_ties_even(n, d)
<1>1. q \in Int /\ r \in Nat /\ r < d /\ n = d * q + r
  OBVIOUS
<1>2. rounded = IF 2 * r > d \/ (2 * r = d /\ q % 2 = 1) THEN q + 1 ELSE q
  BY DEF round_ties_even
<1> HIDE DEF q, r, rounded
<1>3. d * (q + 1) = d * q + d /\ d * q \in Int
  BY <1>1
<1>4. \/ rounded = q /\ 2 * r <= d /\ d * rounded - n = -r
      \/ rounded = q + 1 /\ 2 * r >= d /\ d * rounded - n = d - r
  <2>1. CASE 2 * r > d \/ (2 * r = d /\ q % 2 = 1)
    BY <1>1, <1>2, <1>3, <2>1
  <2>2. CASE ~(2 * r > d \/ (2 * r = d /\ q % 2 = 1))
    BY <1>1, <1>2, <1>3, <2>2
  <2> QED
    BY <2>1, <2>2
<1>5. Magnitude(d * rounded - n) * 2 <= d
  BY <1>1, <1>4 DEF Magnitude
<1> QED
  BY <1>1, <1>4, <1>5 DEF rounded

\* An axis shows what was asked for to half a step.
LEMMA AxisShown ==
    ASSUME NEW v \in (-StickUnit)..StickUnit, NEW how, how # "raw"
    PROVE  Shows(normalized_axis_to_raw(v), v, how)
<1>1. StickUnit \in Nat /\ StickUnit # 0 /\ v \in Int
  BY StickUnitAssumption
<1> DEFINE reach == IF v < 0 THEN 2048 ELSE 2047
           n == v * reach
           rounded == round_ties_even(n, StickUnit)
<1>2. normalized_axis_to_raw(v) = 2048 + rounded
  BY <1>1 DEF normalized_axis_to_raw, Center, MinAxis, MaxAxis
<1>3. n \in Int
  BY <1>1
<1> HIDE DEF n
<1>4. rounded \in Int /\ Magnitude(StickUnit * rounded - n) * 2 <= StickUnit
  BY <1>1, <1>3, RoundedWithin
<1> HIDE DEF rounded
<1>5. 2048 + rounded - 2048 = rounded
  BY <1>4
<1> QED
  BY <1>2, <1>4, <1>5 DEF Shows, n

LEMMA CenterShown == ASSUME NEW how, how # "raw" PROVE Shows(Center, 0, how)
<1>1. StickUnit \in Nat
  BY StickUnitAssumption
<1>2. Center - 2048 = 0 /\ StickUnit * 0 = 0 /\ 0 * 2047 = 0 /\ 0 - 0 = 0
  BY <1>1 DEF Center
<1> QED
  BY <1>1, <1>2 DEF Shows, Magnitude

\* And so does a stick, in the way it was asked for.
LEMMA StickShown ==
    ASSUME NEW s \in StickType, Failed \notin {Stick(s).x, Stick(s).y}
    PROVE  ShowsStick(Stick(s), s)
<1>1. StickUnit \in Nat
  BY StickUnitAssumption
<1>2. ASSUME NEW v \in Int, NEW low, NEW direction,
             \A u \in low..StickUnit : u * direction \in (-StickUnit)..StickUnit,
             axis_input_to_raw(v, low, direction) # Failed, s.how # "raw"
      PROVE  Shows(axis_input_to_raw(v, low, direction), v * direction, s.how)
  <2>1. v \in low..StickUnit
    BY <1>2 DEF axis_input_to_raw
  <2> DEFINE w == v * direction
  <2>2. w \in (-StickUnit)..StickUnit
    BY <1>2, <2>1
  <2>3. axis_input_to_raw(v, low, direction) = normalized_axis_to_raw(w)
    BY <2>1 DEF axis_input_to_raw
  <2> HIDE DEF w
  <2>4. Shows(normalized_axis_to_raw(w), w, s.how)
    BY <1>2, <2>2, AxisShown
  <2> QED
    BY <2>3, <2>4 DEF w
<1>3. /\ \A u \in (-StickUnit)..StickUnit : u * 1 \in (-StickUnit)..StickUnit
      /\ \A u \in 0..StickUnit : u * 1 \in (-StickUnit)..StickUnit
      /\ \A u \in 0..StickUnit : u * (-1) \in (-StickUnit)..StickUnit
  BY <1>1
<1>4. s.x \in Int /\ s.y \in Int /\ -s.x \in Int /\ -s.y \in Int
  BY DEF StickType
<1>5. s.x * 1 = s.x /\ s.y * 1 = s.y /\ (-s.x) * (-1) = s.x /\ (-s.y) * (-1) = s.y
  BY <1>4
<1>6. CASE s.how = "raw"
  <2>1. Stick(s) = [x |-> validate_raw_axis(s.x), y |-> validate_raw_axis(s.y)]
    BY <1>6 DEF Stick, raw_stick
  <2>2. validate_raw_axis(s.x) # Failed /\ validate_raw_axis(s.y) # Failed
    BY <2>1
  <2>3. validate_raw_axis(s.x) = s.x /\ validate_raw_axis(s.y) = s.y
    BY <2>2 DEF validate_raw_axis
  <2> QED
    BY <1>6, <2>1, <2>3 DEF ShowsStick, Shows
<1>7. CASE s.how = "tilt"
  <2> DEFINE x == axis_input_to_raw(s.x, -StickUnit, 1)
             y == axis_input_to_raw(s.y, -StickUnit, 1)
  <2>1. Stick(s) = [x |-> x, y |-> y]
    BY <1>7 DEF Stick, normalized
  <2>2. x # Failed /\ y # Failed
    <3> HIDE DEF x, y
    <3> QED
      BY <2>1
  <2>3. s.how # "raw"
    BY <1>7
  <2>4. Shows(x, s.x * 1, s.how) /\ Shows(y, s.y * 1, s.how)
    BY <1>2, <1>3, <1>4, <2>2, <2>3
  <2> HIDE DEF x, y
  <2> QED
    BY <1>5, <2>1, <2>4 DEF ShowsStick
<1>8. CASE s.how = "up"
  <2>1. Stick(s) = [x |-> Center, y |-> axis_input_to_raw(s.y, 0, 1)] /\ s.x = 0 /\ s.how # "raw"
    BY <1>8 DEF Stick, up, StickType
  <2>2. axis_input_to_raw(s.y, 0, 1) # Failed
    BY <2>1
  <2>3. Shows(axis_input_to_raw(s.y, 0, 1), s.y * 1, s.how) /\ Shows(Center, 0, s.how)
    BY <1>2, <1>3, <1>4, <2>1, <2>2, CenterShown
  <2> QED
    BY <1>5, <2>1, <2>3 DEF ShowsStick
<1>9. CASE s.how = "down"
  <2>1. Stick(s) = [x |-> Center, y |-> axis_input_to_raw(-s.y, 0, -1)] /\ s.x = 0
        /\ s.how # "raw"
    BY <1>9 DEF Stick, down, StickType
  <2>2. axis_input_to_raw(-s.y, 0, -1) # Failed
    BY <2>1
  <2>3. Shows(axis_input_to_raw(-s.y, 0, -1), (-s.y) * (-1), s.how) /\ Shows(Center, 0, s.how)
    BY <1>2, <1>3, <1>4, <2>1, <2>2, CenterShown
  <2> QED
    BY <1>5, <2>1, <2>3 DEF ShowsStick
<1>10. CASE s.how = "left"
  <2>1. Stick(s) = [x |-> axis_input_to_raw(-s.x, 0, -1), y |-> Center] /\ s.y = 0
        /\ s.how # "raw"
    BY <1>10 DEF Stick, left, StickType
  <2>2. axis_input_to_raw(-s.x, 0, -1) # Failed
    BY <2>1
  <2>3. Shows(axis_input_to_raw(-s.x, 0, -1), (-s.x) * (-1), s.how) /\ Shows(Center, 0, s.how)
    BY <1>2, <1>3, <1>4, <2>1, <2>2, CenterShown
  <2> QED
    BY <1>5, <2>1, <2>3 DEF ShowsStick
<1>11. CASE s.how = "right"
  <2>1. Stick(s) = [x |-> axis_input_to_raw(s.x, 0, 1), y |-> Center] /\ s.y = 0 /\ s.how # "raw"
    BY <1>11 DEF Stick, right, StickType
  <2>2. axis_input_to_raw(s.x, 0, 1) # Failed
    BY <2>1
  <2>3. Shows(axis_input_to_raw(s.x, 0, 1), s.x * 1, s.how) /\ Shows(Center, 0, s.how)
    BY <1>2, <1>3, <1>4, <2>1, <2>2, CenterShown
  <2> QED
    BY <1>5, <2>1, <2>3 DEF ShowsStick
<1> QED
  BY <1>6, <1>7, <1>8, <1>9, <1>10, <1>11 DEF StickType

-----------------------------------------------------------------------------
(* Numbers in a motion block *)

\* A number of so many bits is in a block at a place.
Holds(block, start, width, v) ==
    \A c \in 0..(width - 1) : start + c \in block <=> Bit(v, c) = 1

\* Halving twice is halving at once, so a number is the sum of its bits.
LEMMA Halves ==
    ASSUME NEW v \in Int
    PROVE  /\ (v \div 1) \div 2 = v \div 2 /\ (v \div 2) \div 2 = v \div 4
           /\ (v \div 4) \div 2 = v \div 8 /\ (v \div 8) \div 2 = v \div 16
           /\ (v \div 16) \div 2 = v \div 32 /\ (v \div 32) \div 2 = v \div 64
           /\ (v \div 64) \div 2 = v \div 128 /\ (v \div 128) \div 2 = v \div 256
           /\ (v \div 256) \div 2 = v \div 512 /\ (v \div 512) \div 2 = v \div 1024
           /\ (v \div 1024) \div 2 = v \div 2048 /\ (v \div 2048) \div 2 = v \div 4096
           /\ (v \div 4096) \div 2 = v \div 8192 /\ (v \div 8192) \div 2 = v \div 16384
           /\ (v \div 16384) \div 2 = v \div 32768 /\ (v \div 32768) \div 2 = v \div 65536
OBVIOUS

\* Eight halvings in a row.
LEMMA EightHalves ==
    ASSUME NEW d0 \in Int, NEW d1 \in Int, NEW d2 \in Int, NEW d3 \in Int, NEW d4 \in Int,
           NEW d5 \in Int, NEW d6 \in Int, NEW d7 \in Int, NEW d8 \in Int,
           NEW b0 \in Int, NEW b1 \in Int, NEW b2 \in Int, NEW b3 \in Int,
           NEW b4 \in Int, NEW b5 \in Int, NEW b6 \in Int, NEW b7 \in Int,
           d0 = b0 + 2 * d1, d1 = b1 + 2 * d2, d2 = b2 + 2 * d3, d3 = b3 + 2 * d4,
           d4 = b4 + 2 * d5, d5 = b5 + 2 * d6, d6 = b6 + 2 * d7, d7 = b7 + 2 * d8
    PROVE  d0 = b0 + 2 * b1 + 4 * b2 + 8 * b3 + 16 * b4 + 32 * b5 + 64 * b6 + 128 * b7 + 256 * d8
OBVIOUS

LowByte(v) == Bit(v, 0) + 2 * Bit(v, 1) + 4 * Bit(v, 2) + 8 * Bit(v, 3)
              + 16 * Bit(v, 4) + 32 * Bit(v, 5) + 64 * Bit(v, 6) + 128 * Bit(v, 7)
HighByte(v) == Bit(v, 8) + 2 * Bit(v, 9) + 4 * Bit(v, 10) + 8 * Bit(v, 11)
               + 16 * Bit(v, 12) + 32 * Bit(v, 13) + 64 * Bit(v, 14) + 128 * Bit(v, 15)

LEMMA SumOfBits ==
    ASSUME NEW v \in Int
    PROVE  /\ \A c \in 0..15 : Bit(v, c) \in {0, 1}
           /\ v = LowByte(v) + 256 * HighByte(v) + 65536 * (v \div 65536)
<1> DEFINE d(k) == v \div 2^k
<1>1. /\ d(0) = v \div 1 /\ d(1) = v \div 2 /\ d(2) = v \div 4 /\ d(3) = v \div 8
      /\ d(4) = v \div 16 /\ d(5) = v \div 32 /\ d(6) = v \div 64 /\ d(7) = v \div 128
      /\ d(8) = v \div 256 /\ d(9) = v \div 512 /\ d(10) = v \div 1024 /\ d(11) = v \div 2048
      /\ d(12) = v \div 4096 /\ d(13) = v \div 8192 /\ d(14) = v \div 16384 /\ d(15) = v \div 32768
      /\ d(16) = v \div 65536
  BY Powers
<1>2. \A k \in 0..16 : d(k) \in Int
  <2> TAKE k \in 0..16
  <2>1. k = 0 \/ k = 1 \/ k = 2 \/ k = 3 \/ k = 4 \/ k = 5 \/ k = 6 \/ k = 7 \/ k = 8 \/ k = 9 \/ k = 10 \/ k = 11 \/ k = 12 \/ k = 13 \/ k = 14 \/ k = 15 \/ k = 16
    OBVIOUS
  <2>2. /\ v \div 1 \in Int /\ v \div 2 \in Int /\ v \div 4 \in Int /\ v \div 8 \in Int
        /\ v \div 16 \in Int /\ v \div 32 \in Int /\ v \div 64 \in Int /\ v \div 128 \in Int
        /\ v \div 256 \in Int /\ v \div 512 \in Int /\ v \div 1024 \in Int /\ v \div 2048 \in Int
        /\ v \div 4096 \in Int /\ v \div 8192 \in Int /\ v \div 16384 \in Int /\ v \div 32768 \in Int
        /\ v \div 65536 \in Int
    OBVIOUS
  <2> HIDE DEF d
  <2> QED
    BY <1>1, <2>1, <2>2
<1>3. \A k \in 0..15 : d(k) \div 2 = d(k + 1)
  <2> TAKE k \in 0..15
  <2>1. k = 0 \/ k = 1 \/ k = 2 \/ k = 3 \/ k = 4 \/ k = 5 \/ k = 6 \/ k = 7 \/ k = 8 \/ k = 9 \/ k = 10 \/ k = 11 \/ k = 12 \/ k = 13 \/ k = 14 \/ k = 15
    OBVIOUS
  <2> HIDE DEF d
  <2> QED
    BY <1>1, <2>1, Halves
<1>4. \A k : Bit(v, k) = d(k) % 2
  BY DEF Bit
<1>5. \A k \in 0..15 : Bit(v, k) \in {0, 1} /\ d(k) = Bit(v, k) + 2 * d(k + 1)
  <2> TAKE k \in 0..15
  <2> HIDE DEF d
  <2>1. d(k) \in Int /\ d(k) \div 2 = d(k + 1) /\ Bit(v, k) = d(k) % 2
    BY <1>2, <1>3, <1>4
  <2>2. \A n \in Int : n % 2 \in {0, 1} /\ n = (n % 2) + 2 * (n \div 2)
    OBVIOUS
  <2> QED
    BY <2>1, <2>2
<1>6. d(0) = v /\ d(16) = v \div 65536
  BY <1>1
<1> HIDE DEF d
<1>7. /\ d(0) = Bit(v, 0) + 2 * d(1) /\ d(1) = Bit(v, 1) + 2 * d(2)
      /\ d(2) = Bit(v, 2) + 2 * d(3) /\ d(3) = Bit(v, 3) + 2 * d(4)
      /\ d(4) = Bit(v, 4) + 2 * d(5) /\ d(5) = Bit(v, 5) + 2 * d(6)
      /\ d(6) = Bit(v, 6) + 2 * d(7) /\ d(7) = Bit(v, 7) + 2 * d(8)
      /\ d(8) = Bit(v, 8) + 2 * d(9) /\ d(9) = Bit(v, 9) + 2 * d(10)
      /\ d(10) = Bit(v, 10) + 2 * d(11) /\ d(11) = Bit(v, 11) + 2 * d(12)
      /\ d(12) = Bit(v, 12) + 2 * d(13) /\ d(13) = Bit(v, 13) + 2 * d(14)
      /\ d(14) = Bit(v, 14) + 2 * d(15) /\ d(15) = Bit(v, 15) + 2 * d(16)
  BY <1>5
<1> DEFINE low == LowByte(v)
           high == HighByte(v)
<1>8. \A k \in 0..15 : Bit(v, k) \in Int
  BY <1>5
<1>9. d(0) = low + 256 * d(8)
  BY <1>2, <1>7, <1>8, EightHalves DEF LowByte
<1>10. d(8) = high + 256 * d(16)
  <2> DEFINE e(k) == d(8 + k)   b(k) == Bit(v, 8 + k)
  <2>1. /\ e(0) = d(8) /\ e(1) = d(9) /\ e(2) = d(10) /\ e(3) = d(11) /\ e(4) = d(12)
        /\ e(5) = d(13) /\ e(6) = d(14) /\ e(7) = d(15) /\ e(8) = d(16)
        /\ b(0) = Bit(v, 8) /\ b(1) = Bit(v, 9) /\ b(2) = Bit(v, 10) /\ b(3) = Bit(v, 11)
        /\ b(4) = Bit(v, 12) /\ b(5) = Bit(v, 13) /\ b(6) = Bit(v, 14) /\ b(7) = Bit(v, 15)
    BY SMT
  <2> HIDE DEF e, b
  <2>2. /\ e(0) \in Int /\ e(1) \in Int /\ e(2) \in Int /\ e(3) \in Int /\ e(4) \in Int
        /\ e(5) \in Int /\ e(6) \in Int /\ e(7) \in Int /\ e(8) \in Int
    BY <1>2, <2>1
  <2>3. /\ b(0) \in Int /\ b(1) \in Int /\ b(2) \in Int /\ b(3) \in Int
        /\ b(4) \in Int /\ b(5) \in Int /\ b(6) \in Int /\ b(7) \in Int
    BY <1>8, <2>1
  <2>4. /\ e(0) = b(0) + 2 * e(1) /\ e(1) = b(1) + 2 * e(2) /\ e(2) = b(2) + 2 * e(3)
        /\ e(3) = b(3) + 2 * e(4) /\ e(4) = b(4) + 2 * e(5) /\ e(5) = b(5) + 2 * e(6)
        /\ e(6) = b(6) + 2 * e(7) /\ e(7) = b(7) + 2 * e(8)
    BY <1>7, <2>1
  <2>5. e(6) = b(6) + 2 * b(7) + 4 * e(8)
    BY <2>2, <2>3, <2>4
  <2>6. e(5) = b(5) + 2 * b(6) + 4 * b(7) + 8 * e(8)
    BY <2>2, <2>3, <2>4, <2>5
  <2>7. e(4) = b(4) + 2 * b(5) + 4 * b(6) + 8 * b(7) + 16 * e(8)
    BY <2>2, <2>3, <2>4, <2>6
  <2>8. e(3) = b(3) + 2 * b(4) + 4 * b(5) + 8 * b(6) + 16 * b(7) + 32 * e(8)
    BY <2>2, <2>3, <2>4, <2>7
  <2>9. e(2) = b(2) + 2 * b(3) + 4 * b(4) + 8 * b(5) + 16 * b(6) + 32 * b(7) + 64 * e(8)
    BY <2>2, <2>3, <2>4, <2>8
  <2>10. e(1) = b(1) + 2 * b(2) + 4 * b(3) + 8 * b(4) + 16 * b(5) + 32 * b(6) + 64 * b(7) + 128 * e(8)
    BY <2>2, <2>3, <2>4, <2>9
  <2>11. e(0) = b(0) + 2 * b(1) + 4 * b(2) + 8 * b(3) + 16 * b(4) + 32 * b(5) + 64 * b(6)
                + 128 * b(7) + 256 * e(8)
    BY <2>2, <2>3, <2>4, <2>10
  <2> QED
    BY <2>1, <2>11 DEF HighByte
<1>11. low \in Int /\ high \in Int
  BY <1>8 DEF LowByte, HighByte
<1> HIDE DEF low, high
<1>12. v = low + 256 * high + 65536 * d(16)
  BY <1>2, <1>6, <1>9, <1>10, <1>11
<1> QED
  BY <1>5, <1>6, <1>12 DEF low, high

\* The bytes of a report after the thirteenth are those of a motion block.
Carries(bytes, block) == \A i \in 1..36 : bytes[13 + i] = BlockBytes(block)[i]

InBlock(block, p) == IF p \in block THEN 1 ELSE 0

LEMMA BlockByte ==
    ASSUME NEW block, NEW i \in 1..36
    PROVE  BlockBytes(block)[i] =
               InBlock(block, 8 * (i - 1) + 0) + 2 * InBlock(block, 8 * (i - 1) + 1)
               + 4 * InBlock(block, 8 * (i - 1) + 2) + 8 * InBlock(block, 8 * (i - 1) + 3)
               + 16 * InBlock(block, 8 * (i - 1) + 4) + 32 * InBlock(block, 8 * (i - 1) + 5)
               + 64 * InBlock(block, 8 * (i - 1) + 6) + 128 * InBlock(block, 8 * (i - 1) + 7)
BY DEF BlockBytes, Byte, InBlock

LEMMA HeldBits ==
    ASSUME NEW block, NEW start, NEW width, NEW v, Holds(block, start, width, v)
    PROVE  \A c \in 0..(width - 1) : Bit(v, c) \in {0, 1} => InBlock(block, start + c) = Bit(v, c)
BY DEF Holds, InBlock

\* Two bytes of sixteen bits, as one signed number.
LEMMA SignedHalves ==
    ASSUME NEW v \in Int, -32768 <= v, v <= 32767,
           NEW low \in Nat, low <= 255, NEW high \in Nat, high <= 255,
           v = low + 256 * high + 65536 * (v \div 65536)
    PROVE  Signed(low + 256 * high, 16) = v
<1>1. 2^(16 - 1) = 32768 /\ 2^16 = 65536
  BY Powers
<1> DEFINE q == v \div 65536
<1>2. q \in Int
  OBVIOUS
<1>3. v = low + 256 * high + 65536 * q
  OBVIOUS
<1> HIDE DEF q
<1>4. low + 256 * high = IF v < 0 THEN v + 65536 ELSE v
  BY <1>2, <1>3
<1> QED
  BY <1>1, <1>4 DEF Signed

\* A word of a motion block is read as the number that was put there.
LEMMA WordOfBits ==
    ASSUME NEW block, NEW bytes, NEW o \in Nat, o <= 34, NEW v \in Int,
           -32768 <= v, v <= 32767,
           \A c \in 0..15 : InBlock(block, 8 * o + c) = Bit(v, c), Carries(bytes, block)
    PROVE  Word(bytes, o) = v
<1> DEFINE low == LowByte(v)
           high == HighByte(v)
           at(c) == InBlock(block, 8 * o + c)
<1>1. \A c \in 0..15 : Bit(v, c) \in {0, 1}
  BY SumOfBits
<1>2. \A c \in 0..15 : at(c) = Bit(v, c)
  OBVIOUS
<1>3. bytes[14 + o] = low
  <2>1. o + 1 \in 1..36 /\ 13 + (o + 1) = 14 + o /\ 8 * ((o + 1) - 1) = 8 * o
    OBVIOUS
  <2>2. BlockBytes(block)[o + 1] = at(0) + 2 * at(1) + 4 * at(2) + 8 * at(3)
            + 16 * at(4) + 32 * at(5) + 64 * at(6) + 128 * at(7)
    BY <2>1, BlockByte
  <2> HIDE DEF at
  <2>3. /\ at(0) = Bit(v, 0) /\ at(1) = Bit(v, 1) /\ at(2) = Bit(v, 2) /\ at(3) = Bit(v, 3)
        /\ at(4) = Bit(v, 4) /\ at(5) = Bit(v, 5) /\ at(6) = Bit(v, 6) /\ at(7) = Bit(v, 7)
    BY <1>2
  <2>4. bytes[14 + o] = BlockBytes(block)[o + 1]
    BY <2>1 DEF Carries
  <2> QED
    BY <2>2, <2>3, <2>4 DEF LowByte
<1>4. bytes[15 + o] = high
  <2>1. o + 2 \in 1..36 /\ 13 + (o + 2) = 15 + o /\ 8 * ((o + 2) - 1) = 8 * o + 8
    OBVIOUS
  <2> DEFINE upper(c) == InBlock(block, 8 * ((o + 2) - 1) + c)
  <2>2. BlockBytes(block)[o + 2] = upper(0) + 2 * upper(1) + 4 * upper(2) + 8 * upper(3)
            + 16 * upper(4) + 32 * upper(5) + 64 * upper(6) + 128 * upper(7)
    BY <2>1, BlockByte
  <2>3. \A c \in 0..7 : 8 * ((o + 2) - 1) + c = 8 * o + (8 + c)
    OBVIOUS
  <2>4. \A c \in 0..7 : upper(c) = at(8 + c)
    BY <2>3
  <2> HIDE DEF at, upper
  <2>5. /\ 8 + 0 = 8 /\ 8 + 1 = 9 /\ 8 + 2 = 10 /\ 8 + 3 = 11 /\ 8 + 4 = 12 /\ 8 + 5 = 13
        /\ 8 + 6 = 14 /\ 8 + 7 = 15
    OBVIOUS
  <2>6. /\ upper(0) = Bit(v, 8) /\ upper(1) = Bit(v, 9) /\ upper(2) = Bit(v, 10)
        /\ upper(3) = Bit(v, 11) /\ upper(4) = Bit(v, 12) /\ upper(5) = Bit(v, 13)
        /\ upper(6) = Bit(v, 14) /\ upper(7) = Bit(v, 15)
    BY <1>2, <2>4, <2>5
  <2>7. bytes[15 + o] = BlockBytes(block)[o + 2]
    BY <2>1 DEF Carries
  <2> QED
    BY <2>2, <2>6, <2>7 DEF HighByte
<1>5. v = low + 256 * high + 65536 * (v \div 65536)
  BY SumOfBits
<1>6. low \in Nat /\ low <= 255 /\ high \in Nat /\ high <= 255
  <2>1. /\ Bit(v, 0) \in {0, 1} /\ Bit(v, 1) \in {0, 1} /\ Bit(v, 2) \in {0, 1}
        /\ Bit(v, 3) \in {0, 1} /\ Bit(v, 4) \in {0, 1} /\ Bit(v, 5) \in {0, 1}
        /\ Bit(v, 6) \in {0, 1} /\ Bit(v, 7) \in {0, 1} /\ Bit(v, 8) \in {0, 1}
        /\ Bit(v, 9) \in {0, 1} /\ Bit(v, 10) \in {0, 1} /\ Bit(v, 11) \in {0, 1}
        /\ Bit(v, 12) \in {0, 1} /\ Bit(v, 13) \in {0, 1} /\ Bit(v, 14) \in {0, 1}
        /\ Bit(v, 15) \in {0, 1}
    BY <1>1
  <2>2. low \in Nat /\ low <= 255
    BY <2>1 DEF LowByte
  <2>3. high \in Nat /\ high <= 255
    BY <2>1 DEF HighByte
  <2> QED
    BY <2>2, <2>3
<1>7. Word(bytes, o) = Signed(low + 256 * high, 16)
  BY <1>3, <1>4 DEF Word
<1> HIDE DEF low, high
<1> QED
  BY <1>5, <1>6, <1>7, SignedHalves

LEMMA WordRead ==
    ASSUME NEW block, NEW bytes, NEW o \in Nat, o <= 34, NEW v \in Int,
           -32768 <= v, v <= 32767,
           Holds(block, 8 * o, 16, v), Carries(bytes, block)
    PROVE  Word(bytes, o) = v
<1>1. \A c \in 0..(16 - 1) : Bit(v, c) \in {0, 1} => InBlock(block, 8 * o + c) = Bit(v, c)
  BY HeldBits
<1>2. 0..(16 - 1) = 0..15 /\ \A c \in 0..15 : Bit(v, c) \in {0, 1}
  BY SumOfBits
<1>3. \A c \in 0..15 : InBlock(block, 8 * o + c) = Bit(v, c)
  BY <1>1, <1>2
<1> QED
  BY <1>3, WordOfBits

-----------------------------------------------------------------------------
(* Motion blocks *)

InWord(n) == n \in Int /\ -32768 <= n /\ n <= 32767

LEMMA PutIn ==
    ASSUME NEW start, NEW width, NEW v, NEW p
    PROVE  p \in put_bits({}, start, width, v)
           <=> \E c \in 0..(width - 1) : p = start + c /\ Bit(v, c) = 1
BY DEF put_bits

LEMMA PutWithin ==
    ASSUME NEW start \in Nat, NEW width \in Nat, NEW v, NEW p \in put_bits({}, start, width, v)
    PROVE  p \in Nat /\ start <= p /\ p < start + width
<1>1. PICK c \in 0..(width - 1) : p = start + c
  BY PutIn
<1> QED
  BY <1>1

Place(f, v) == 8 * (f * 12 + v * 2)

\* The words of the frames do not overlap.
LEMMA WordPlaces ==
    ASSUME NEW f \in Frames, NEW v \in 0..5, NEW g \in Frames, NEW w \in 0..5,
           NEW c \in 0..15, NEW d \in 0..15,
           Place(f, v) + c = Place(g, w) + d
    PROVE  f = g /\ v = w /\ c = d
<1>1. /\ f \in Int /\ 0 <= f /\ f <= 2 /\ g \in Int /\ 0 <= g /\ g <= 2
      /\ v \in Int /\ 0 <= v /\ v <= 5 /\ w \in Int /\ 0 <= w /\ w <= 5
      /\ c \in Int /\ 0 <= c /\ c <= 15 /\ d \in Int /\ 0 <= d /\ d <= 15
  BY DEF Frames
<1> DEFINE n == 6 * f + v
           m == 6 * g + w
<1>2. n \in Int /\ m \in Int /\ 16 * n + c = 16 * m + d
  BY <1>1 DEF Place
<1>3. n = m /\ c = d
  <2> HIDE DEF n, m
  <2> QED
    BY <1>1, <1>2
<1> QED
  BY <1>1, <1>3

LEMMA StandardHolds ==
    ASSUME NEW frames, NEW f \in Frames, NEW v \in 0..5
    PROVE  Holds(encode_standard_imu(frames), Place(f, v), 16,
                 IF v < 3 THEN frames[f + 1].accel
                 ELSE gyro(frames[f + 1], v - 3))
<1> DEFINE number(g, w) == IF w < 3 THEN frames[g + 1].accel ELSE gyro(frames[g + 1], w - 3)
           word(g, w) == put_bits({}, Place(g, w), 16, number(g, w))
           block == encode_standard_imu(frames)
<1>1. block = UNION {word(g, w) : g \in Frames, w \in 0..5}
  BY DEF encode_standard_imu, Block, put_word, accel, Place
<1> HIDE DEF block, number
<1>2. ASSUME NEW c \in 0..15
      PROVE  Place(f, v) + c \in block <=> Bit(number(f, v), c) = 1
  <2> DEFINE p == Place(f, v) + c
  <2>0. 0..(16 - 1) = 0..15
    OBVIOUS
  <2>1. p \in word(f, v) <=> \E d \in 0..15 : p = Place(f, v) + d /\ Bit(number(f, v), d) = 1
    BY PutIn, <2>0
  <2>2. ASSUME NEW d \in 0..15, p = Place(f, v) + d PROVE d = c
    <3>1. Place(f, v) + c = Place(f, v) + d
      BY <2>2
    <3> QED
      BY <3>1, WordPlaces, SMTT(40)
  <2>3. p \in word(f, v) <=> Bit(number(f, v), c) = 1
    BY <2>1, <2>2
  <2>4. ASSUME NEW g \in Frames, NEW w \in 0..5, p \in word(g, w) PROVE g = f /\ w = v
    <3>1. PICK d \in 0..15 : p = Place(g, w) + d
      BY <2>4, PutIn, <2>0
    <3>2. Place(f, v) + c = Place(g, w) + d
      BY <3>1
    <3> QED
      BY <3>2, WordPlaces, SMTT(40)
  <2> HIDE DEF p, word
  <2>5. p \in block <=> p \in word(f, v)
    BY <1>1, <2>4
  <2> QED
    BY <2>3, <2>5 DEF p
<1>3. 0..(16 - 1) = 0..15
  OBVIOUS
<1> QED
  BY <1>2, <1>3 DEF Holds, block, number

\* A standard report shows every word of every frame.
LEMMA StandardWords ==
    ASSUME NEW frames, NEW bytes, Carries(bytes, encode_standard_imu(frames)),
           \A f \in Frames : InWord(frames[f + 1].accel) /\ InWord(frames[f + 1].gyro)
    PROVE  \A f \in Frames : \A a \in Axes :
              /\ Word(bytes, 12 * f + 2 * a) = frames[f + 1].accel
              /\ Word(bytes, 12 * f + 6 + 2 * a) = IF a = Axis - 1 THEN frames[f + 1].gyro ELSE 0
<1> TAKE f \in Frames
<1> TAKE a \in Axes
<1>1. f \in Int /\ 0 <= f /\ f <= 2 /\ a \in Int /\ 0 <= a /\ a <= 2
  BY DEF Frames, Axes
<1> DEFINE first == 12 * f + 2 * a
           second == 12 * f + 6 + 2 * a
           low == frames[f + 1].accel
           high == IF a = Axis - 1 THEN frames[f + 1].gyro ELSE 0
           block == encode_standard_imu(frames)
<1>2. /\ first \in Nat /\ first <= 34 /\ second \in Nat /\ second <= 34
      /\ Place(f, a) = 8 * first /\ Place(f, a + 3) = 8 * second
      /\ a \in 0..5 /\ a < 3 /\ a + 3 \in 0..5 /\ ~(a + 3 < 3) /\ a + 3 - 3 = a
  BY <1>1 DEF Place
<1>3. InWord(low) /\ InWord(high)
  BY DEF InWord
<1>4. Holds(block, 8 * first, 16, low)
  BY <1>2, StandardHolds
<1>5. Holds(block, 8 * second, 16, high)
  <2>1. Holds(block, Place(f, a + 3), 16,
              IF a + 3 < 3 THEN frames[f + 1].accel ELSE gyro(frames[f + 1], a + 3 - 3))
    BY <1>2, StandardHolds
  <2>2. gyro(frames[f + 1], a) = high
    BY DEF gyro
  <2> QED
    BY <1>2, <2>1, <2>2
<1> HIDE DEF first, second, low, high, block
<1>6. Word(bytes, first) = low
  BY <1>2, <1>3, <1>4, WordRead DEF InWord, block
<1>7. Word(bytes, second) = high
  BY <1>2, <1>3, <1>5, WordRead DEF InWord, block
<1> QED
  BY <1>6, <1>7 DEF first, second, low, high

\* In a quaternion report the acceleration is at the same places, and nothing
\* else is: the orientation is in the places of the gyroscope.
LEMMA QuaternionHolds ==
    ASSUME NEW frames, NEW orientation, NEW timestamp, NEW f \in Frames, NEW a \in Axes
    PROVE  Holds(pack_mode_2(frames, orientation, timestamp), Place(f, a), 16, frames[f + 1].accel)
<1> DEFINE number(g) == frames[g + 1].accel
           word(g, b) == put_bits({}, Place(g, b), 16, number(g))
           accels == UNION {word(g, b) : g \in Frames, b \in Axes}
           block == pack_mode_2(frames, orientation, timestamp)
           q == Quaternion(orientation)
           max_index == CHOOSE i \in 0..3 :
                            /\ \A j \in 0..3 : Magnitude(q[j]) <= Magnitude(q[i])
                            /\ \A j \in 0..(i - 1) : Magnitude(q[j]) < Magnitude(q[i])
           sign == IF q[max_index] < 0 THEN -1 ELSE 1
           component(i) == (q[(max_index + i + 1) % 4] * sign) \div 1024
           index == max_index
           part(i) == component(i)
           rest == UNION {put_bits({}, 48, 2, 2), put_bits({}, 50, 2, index),
                          put_bits({}, 52, 21, part(0)), put_bits({}, 73, 21, part(1)),
                          put_bits({}, 94, 2, part(2)), put_bits({}, 144, 19, part(2) \div 4),
                          put_bits({}, 271, 11, timestamp), put_bits({}, 282, 6, 3)}
<1>1. block = accels \cup rest
  <2>1. block = UNION {accels, put_bits({}, 48, 2, 2), put_bits({}, 50, 2, index),
                       put_bits({}, 52, 21, part(0)), put_bits({}, 73, 21, part(1)),
                       put_bits({}, 94, 2, part(2)), put_bits({}, 144, 19, part(2) \div 4),
                       put_bits({}, 271, 11, timestamp), put_bits({}, 282, 6, 3)}
    BY DEF pack_mode_2, put_word, accel, Place
  <2> HIDE DEF block, accels, index, part
  <2> QED
    BY <2>1
<1> HIDE DEF block, index, part, number
<1>2. Place(f, a) \in Nat /\ \/ Place(f, a) + 16 <= 48
                             \/ 96 <= Place(f, a) /\ Place(f, a) + 16 <= 144
                             \/ 192 <= Place(f, a) /\ Place(f, a) + 16 <= 240
  <2>1. f = 0 \/ f = 1 \/ f = 2
    BY DEF Frames
  <2>2. a = 0 \/ a = 1 \/ a = 2
    BY DEF Axes
  <2> QED
    BY <2>1, <2>2 DEF Place
<1>3. ASSUME NEW c \in 0..15 PROVE Place(f, a) + c \notin rest
  <2> DEFINE p == Place(f, a) + c
  <2>1. /\ p \in put_bits({}, 48, 2, 2) => 48 <= p /\ p < 48 + 2
        /\ p \in put_bits({}, 50, 2, index) => 50 <= p /\ p < 50 + 2
        /\ p \in put_bits({}, 52, 21, part(0)) => 52 <= p /\ p < 52 + 21
        /\ p \in put_bits({}, 73, 21, part(1)) => 73 <= p /\ p < 73 + 21
        /\ p \in put_bits({}, 94, 2, part(2)) => 94 <= p /\ p < 94 + 2
        /\ p \in put_bits({}, 144, 19, part(2) \div 4) => 144 <= p /\ p < 144 + 19
        /\ p \in put_bits({}, 271, 11, timestamp) => 271 <= p /\ p < 271 + 11
        /\ p \in put_bits({}, 282, 6, 3) => 282 <= p /\ p < 282 + 6
    <3> HIDE DEF p
    <3> QED
      BY PutWithin
  <2>2. p \in Nat /\ \/ p < 48
                     \/ 96 <= p /\ p < 144
                     \/ 192 <= p /\ p < 240
    BY <1>2
  <2> HIDE DEF p
  <2>3. p \in rest => \/ 48 <= p /\ p < 96
                      \/ 144 <= p /\ p < 163
                      \/ 271 <= p /\ p < 288
    BY <2>1, <2>2
  <2> QED
    BY <2>2, <2>3 DEF p
<1>4. a \in 0..5 /\ \A b \in Axes : b \in 0..5
  BY DEF Axes
<1> HIDE DEF rest
<1>5. 0..(16 - 1) = 0..15
  OBVIOUS
<1>6. ASSUME NEW c \in 0..15
      PROVE  Place(f, a) + c \in block <=> Bit(number(f), c) = 1
  <2> DEFINE p == Place(f, a) + c
  <2>1. p \in word(f, a) <=> \E d \in 0..15 : p = Place(f, a) + d /\ Bit(number(f), d) = 1
    BY PutIn, <1>5
  <2>2. ASSUME NEW d \in 0..15, p = Place(f, a) + d PROVE d = c
    <3>1. Place(f, a) + c = Place(f, a) + d
      BY <2>2
    <3> QED
      BY <1>4, <3>1, WordPlaces, SMTT(40)
  <2>3. p \in word(f, a) <=> Bit(number(f), c) = 1
    BY <2>1, <2>2
  <2>4. ASSUME NEW g \in Frames, NEW b \in Axes, p \in word(g, b) PROVE g = f /\ b = a
    <3>1. PICK d \in 0..15 : p = Place(g, b) + d
      BY <2>4, PutIn, <1>5
    <3>2. Place(f, a) + c = Place(g, b) + d
      BY <3>1
    <3> QED
      BY <1>4, <3>2, WordPlaces, SMTT(40)
  <2>5. p \notin rest
    BY <1>3
  <2> HIDE DEF p, word
  <2>6. p \in block <=> p \in word(f, a)
    BY <1>1, <2>4, <2>5
  <2> QED
    BY <2>3, <2>6 DEF p
<1> QED
  BY <1>5, <1>6 DEF Holds, block, number

LEMMA QuaternionWords ==
    ASSUME NEW frames, NEW bytes, NEW orientation, NEW timestamp,
           Carries(bytes, pack_mode_2(frames, orientation, timestamp)),
           \A f \in Frames : InWord(frames[f + 1].accel)
    PROVE  \A f \in Frames : \A a \in Axes : Word(bytes, 12 * f + 2 * a) = frames[f + 1].accel
<1> TAKE f \in Frames
<1> TAKE a \in Axes
<1>1. f \in Int /\ 0 <= f /\ f <= 2 /\ a \in Int /\ 0 <= a /\ a <= 2
  BY DEF Frames, Axes
<1> DEFINE first == 12 * f + 2 * a
           low == frames[f + 1].accel
           block == pack_mode_2(frames, orientation, timestamp)
<1>2. first \in Nat /\ first <= 34 /\ Place(f, a) = 8 * first
  BY <1>1 DEF Place
<1>3. InWord(low)
  OBVIOUS
<1>4. Holds(block, 8 * first, 16, low)
  BY <1>2, QuaternionHolds
<1> HIDE DEF first, low, block
<1>5. Word(bytes, first) = low
  BY <1>2, <1>3, <1>4, WordRead DEF InWord, block
<1> QED
  BY <1>5 DEF first, low

-----------------------------------------------------------------------------
(* What a report shows of an input *)

\* An input state of a controller is what a request means.
Meant(m, state, r) ==
    /\ state.buttons = r.buttons /\ r.buttons \subseteq DOMAIN m.wire
    /\ InStick(state.left) /\ ShowsStick(state.left, r.left)
    /\ InStick(state.right) /\ ShowsStick(state.right, r.right)
    /\ \A f \in Frames :
          /\ InWord(state.frames[f + 1].accel) /\ InWord(state.frames[f + 1].gyro)
          /\ Magnitude(2 * state.frames[f + 1].accel - Sample(r, f).accel) <= 1
          /\ Magnitude(70 * state.frames[f + 1].gyro - Sample(r, f).rate) <= 35

LEMMA NeutralMeant == ASSUME NEW m PROVE Meant(m, neutral, Rest)
<1>1. /\ neutral.buttons = {} /\ neutral.left = center /\ neutral.right = center
      /\ neutral.frames = <<NeutralFrame, NeutralFrame, NeutralFrame>>
  BY DEF neutral, into_frames
<1>2. /\ Rest.buttons = {} /\ Rest.left = AtRest /\ Rest.right = AtRest
      /\ Rest.motion = <<[rate |-> 0, accel |-> 0]>>
  BY DEF Rest
<1>3. InStick(center)
  BY DEF InStick, center, Center, RawAxes, MinAxis, MaxAxis
<1>4. ShowsStick(center, AtRest)
  <2>1. AtRest.how # "raw" /\ AtRest.x = 0 /\ AtRest.y = 0
    BY DEF AtRest
  <2>2. center.x = Center /\ center.y = Center
    BY DEF center
  <2> QED
    BY <2>1, <2>2, CenterShown DEF ShowsStick
<1>5. \A f \in Frames : /\ neutral.frames[f + 1].accel = 0 /\ neutral.frames[f + 1].gyro = 0
                        /\ Sample(Rest, f).accel = 0 /\ Sample(Rest, f).rate = 0
  <2> TAKE f \in Frames
  <2>1. f + 1 \in 1..3
    BY DEF Frames
  <2>2. neutral.frames[f + 1] = NeutralFrame
    BY <1>1, <2>1
  <2>3. Sample(Rest, f) = [rate |-> 0, accel |-> 0]
    BY <1>2 DEF Sample
  <2> QED
    BY <2>2, <2>3 DEF NeutralFrame
<1>6. InWord(0) /\ Magnitude(2 * 0 - 0) <= 1 /\ Magnitude(70 * 0 - 0) <= 35
  BY DEF InWord, Magnitude
<1> QED
  BY <1>1, <1>2, <1>3, <1>4, <1>5, <1>6 DEF Meant

\* A motion sample is rounded to the nearest word.
LEMMA FrameRounded ==
    ASSUME NEW s, s.rate \in Int, s.accel \in Int, Failed \notin {Frame(s).gyro, Frame(s).accel}
    PROVE  /\ InWord(Frame(s).accel) /\ InWord(Frame(s).gyro)
           /\ Magnitude(2 * Frame(s).accel - s.accel) <= 1
           /\ Magnitude(70 * Frame(s).gyro - s.rate) <= 35
<1> DEFINE a == round_ties_even(s.accel, 2)
           g == round_ties_even(s.rate, 70)
<1>1. Frame(s).accel = acceleration_to_raw(s.accel) /\ Frame(s).gyro = gyro_rate_to_raw(s.rate)
  BY DEF Frame, with_accel_g, gyro_rate, NeutralFrame
<1>2. /\ a \in Int /\ Magnitude(2 * a - s.accel) * 2 <= 2
      /\ g \in Int /\ Magnitude(70 * g - s.rate) * 2 <= 70
  <2>1. 2 \in Nat /\ 2 # 0 /\ 70 \in Nat /\ 70 # 0
    OBVIOUS
  <2>2. a \in Int /\ Magnitude(2 * a - s.accel) * 2 <= 2
    BY <2>1, RoundedWithin, Zenon
  <2>3. g \in Int /\ Magnitude(70 * g - s.rate) * 2 <= 70
    BY <2>1, RoundedWithin, Zenon
  <2> QED
    BY <2>2, <2>3
<1>3. \A n \in Int : Magnitude(n) \in Nat
  BY DEF Magnitude
<1>4. 2 * a - s.accel \in Int /\ 70 * g - s.rate \in Int
  BY <1>2
<1>5. Magnitude(2 * a - s.accel) <= 1 /\ Magnitude(70 * g - s.rate) <= 35
  <2>1. Magnitude(2 * a - s.accel) \in Nat /\ Magnitude(70 * g - s.rate) \in Nat
    BY <1>3, <1>4
  <2> QED
    BY <1>2, <2>1
<1>6. \A n, d : rounded_i16(n, d) # Failed
                => rounded_i16(n, d) = round_ties_even(n, d) /\ InWord(rounded_i16(n, d))
  <2> TAKE n, d
  <2> DEFINE w == round_ties_even(n, d)
             low == -32768
             high == 32767
  <2>1. rounded_i16(n, d) = IF w \in low..high THEN w ELSE Failed
    BY DEF rounded_i16
  <2>2. low \in Int /\ high \in Int
    OBVIOUS
  <2>3. InWord(w) <=> w \in Int /\ low <= w /\ w <= high
    BY DEF InWord
  <2> HIDE DEF w, low, high
  <2>4. w \in low..high => InWord(w)
    BY <2>2, <2>3
  <2> QED
    BY <2>1, <2>4, Zenon DEF w
<1>7. Frame(s).accel = a /\ Frame(s).gyro = g /\ InWord(a) /\ InWord(g)
  <2>1. rounded_i16(s.accel, 2) # Failed /\ rounded_i16(s.rate, 70) # Failed
    BY <1>1 DEF acceleration_to_raw, gyro_rate_to_raw
  <2>2. Frame(s).accel = rounded_i16(s.accel, 2) /\ Frame(s).gyro = rounded_i16(s.rate, 70)
    BY <1>1 DEF acceleration_to_raw, gyro_rate_to_raw
  <2> QED
    BY <1>6, <2>1, <2>2
<1> QED
  BY <1>5, <1>7

\* What a client asks for and can be converted is what the input then means.
LEMMA ConvertedMeant ==
    ASSUME NEW r \in Requested, Convertible(r) PROVE Meant(model, Converted(r), r)
<1> DEFINE frame(i) == Frame(r.motion[i])
           frames == [i \in 1..Len(r.motion) |-> frame(i)]
           left_stick == Stick(r.left)
           right_stick == Stick(r.right)
           n == Len(r.motion)
<1>1. /\ r.left \in StickType /\ r.right \in StickType
      /\ r.motion \in Seq([rate : Int, accel : Int]) /\ n \in {1, 3}
  BY PathAssumption DEF Typed
<1>2. /\ InStick(left_stick) /\ ShowsStick(left_stick, r.left)
      /\ InStick(right_stick) /\ ShowsStick(right_stick, r.right)
  <2>1. Failed \notin {left_stick.x, left_stick.y} /\ Failed \notin {right_stick.x, right_stick.y}
    BY DEF Convertible
  <2> QED
    BY <1>1, <2>1, StickInRange, StickShown
<1>3. /\ Converted(r).left = left_stick /\ Converted(r).right = right_stick
      /\ Converted(r).frames = into_frames(frames) /\ Converted(r).buttons = r.buttons
  <2> HIDE DEF frames, left_stick, right_stick
  <2>1. Converted(r) = with_imu(with_right_stick(with_left_stick(with_buttons(neutral, r.buttons),
                                                                 left_stick), right_stick),
                                frames)
    BY DEF Converted, frames, left_stick, right_stick
  <2> QED
    BY <2>1 DEF with_imu, with_right_stick, with_left_stick, with_buttons, neutral
<1>4. r.buttons \subseteq DOMAIN model.wire
  BY DEF Convertible, supports_button
<1>5. ASSUME NEW i \in 1..n
      PROVE  /\ InWord(frame(i).accel) /\ InWord(frame(i).gyro)
             /\ Magnitude(2 * frame(i).accel - r.motion[i].accel) <= 1
             /\ Magnitude(70 * frame(i).gyro - r.motion[i].rate) <= 35
  <2>1. r.motion[i] \in [rate : Int, accel : Int]
    BY <1>1, ElementOfSeq
  <2>2. r.motion[i].rate \in Int /\ r.motion[i].accel \in Int
    BY <2>1
  <2>3. Failed \notin {frame(i).gyro, frame(i).accel}
    BY DEF Convertible
  <2> QED
    BY <2>2, <2>3, FrameRounded
<1>6. ASSUME NEW f \in Frames
      PROVE  \E i \in 1..n : into_frames(frames)[f + 1] = frame(i) /\ Sample(r, f) = r.motion[i]
  <2>1. f + 1 \in 1..3
    BY DEF Frames
  <2> HIDE DEF frame
  <2>2. Len(frames) = n
    BY <1>1
  <2>3. CASE n = 1
    <3>1. 1 \in 1..n /\ frames[1] = frame(1)
      BY <2>3
    <3> HIDE DEF frames
    <3>2. into_frames(frames) = <<frame(1), frame(1), frame(1)>>
      BY <2>2, <2>3, <3>1 DEF into_frames
    <3>3. into_frames(frames)[f + 1] = frame(1)
      BY <2>1, <3>2
    <3>4. Sample(r, f) = r.motion[1]
      BY <2>3 DEF Sample
    <3> QED
      BY <3>1, <3>3, <3>4
  <2>4. CASE n = 3
    <3>1. f + 1 \in 1..n /\ frames[f + 1] = frame(f + 1)
      BY <2>1, <2>4
    <3> HIDE DEF frames
    <3>2. into_frames(frames) = frames
      BY <2>2, <2>4 DEF into_frames
    <3>3. Sample(r, f) = r.motion[f + 1]
      BY <2>4 DEF Sample
    <3> QED
      BY <3>1, <3>2, <3>3
  <2> QED
    BY <1>1, <2>3, <2>4
<1> HIDE DEF frame, frames, left_stick, right_stick, n
<1>7. \A f \in Frames :
          /\ InWord(Converted(r).frames[f + 1].accel) /\ InWord(Converted(r).frames[f + 1].gyro)
          /\ Magnitude(2 * Converted(r).frames[f + 1].accel - Sample(r, f).accel) <= 1
          /\ Magnitude(70 * Converted(r).frames[f + 1].gyro - Sample(r, f).rate) <= 35
  <2> TAKE f \in Frames
  <2>1. PICK i \in 1..n : Converted(r).frames[f + 1] = frame(i) /\ Sample(r, f) = r.motion[i]
    BY <1>3, <1>6
  <2> QED
    BY <1>5, <2>1
<1> QED
  BY <1>2, <1>3, <1>4, <1>7 DEF Meant

-----------------------------------------------------------------------------
(* What the console decodes *)

\* The buttons and sticks of a report or a reply.
LooksRight(bytes, r) ==
    /\ {HostLayout[p[1]][p[2]] : p \in HostBits(bytes)} = r.buttons
    /\ \A p, q \in HostBits(bytes) : p[1] = q[1] \/ HostLayout[p[1]][p[2]] # HostLayout[q[1]][q[2]]
    /\ ShowsStick(HostStick(bytes, 7), r.left)
    /\ ShowsStick(HostStick(bytes, 10), r.right)

\* A bit is set where, and only where, a pressed button has its place.
LEMMA BitsAreButtons ==
    ASSUME NEW m \in Models, NEW state, NEW bytes, Shows12(bytes, m, state),
           NEW i \in 1..3, NEW k \in 1..8, state.buttons \subseteq DOMAIN m.wire
    PROVE  /\ Bit(bytes[i + 3], k - 1) = 1 => \E x \in state.buttons : Placed(m, x, i, k)
           /\ \A x \in state.buttons : Placed(m, x, i, k) => Bit(bytes[i + 3], k - 1) = 1
<1>1. bytes[i + 3] = ButtonByte(m, state.buttons, i + 2)
  <2>1. i + 2 \in 3..5 /\ (i + 2) + 1 = i + 3
    OBVIOUS
  <2> QED
    BY <2>1 DEF Shows12
<1>2. k - 1 \in 0..7
  OBVIOUS
<1>3. Bit(bytes[i + 3], k - 1) = 1 <=> \E b \in state.buttons : AtPlace(m, b, i + 2, k - 1)
  BY <1>1, <1>2, ButtonBits
<1>4. ASSUME NEW b \in state.buttons, AtPlace(m, b, i + 2, k - 1) PROVE Placed(m, b, i, k)
  <2>1. HostLayout[i][k] = b
    BY <1>4, PlacedOnce
  <2> QED
    BY <1>4, <2>1 DEF Placed, AtPlace
<1>5. \A x \in state.buttons : Placed(m, x, i, k) => AtPlace(m, x, i + 2, k - 1)
  BY DEF Placed, AtPlace
<1> QED
  BY <1>3, <1>4, <1>5

LEMMA ButtonsDecoded ==
    ASSUME NEW m \in Models, NEW state, NEW bytes, Shows12(bytes, m, state),
           state.buttons \subseteq DOMAIN m.wire
    PROVE  /\ {HostLayout[p[1]][p[2]] : p \in HostBits(bytes)} = state.buttons
           /\ \A p, q \in HostBits(bytes) :
                 p[1] = q[1] \/ HostLayout[p[1]][p[2]] # HostLayout[q[1]][q[2]]
<1>1. ASSUME NEW p \in HostBits(bytes)
      PROVE  p[1] \in 1..3 /\ p[2] \in 1..8
             /\ \E x \in state.buttons : Placed(m, x, p[1], p[2])
  <2>1. p[1] \in 1..3 /\ p[2] \in 1..8 /\ Bit(bytes[p[1] + 3], p[2] - 1) = 1
    BY DEF HostBits
  <2> QED
    BY <2>1, BitsAreButtons
<1>2. ASSUME NEW p \in HostBits(bytes) PROVE HostLayout[p[1]][p[2]] \in state.buttons
  BY <1>1 DEF Placed
<1>3. ASSUME NEW x \in state.buttons
      PROVE  \E p \in HostBits(bytes) : x = HostLayout[p[1]][p[2]]
  <2>1. PICK i, k : Placed(m, x, i, k)
    BY ButtonsPlaced
  <2>2. i \in 1..3 /\ k \in 1..8 /\ HostLayout[i][k] = x
    BY <2>1 DEF Placed
  <2>3. Bit(bytes[i + 3], k - 1) = 1
    BY <2>1, <2>2, BitsAreButtons
  <2>4. <<i, k>> \in HostBits(bytes) /\ <<i, k>>[1] = i /\ <<i, k>>[2] = k
    BY <2>2, <2>3 DEF HostBits
  <2> QED
    BY <2>2, <2>4
<1>4. ASSUME NEW p \in HostBits(bytes), NEW q \in HostBits(bytes),
             HostLayout[p[1]][p[2]] = HostLayout[q[1]][q[2]]
      PROVE  p[1] = q[1]
  <2>1. PICK x \in state.buttons : Placed(m, x, p[1], p[2])
    BY <1>1
  <2>2. PICK y \in state.buttons : Placed(m, y, q[1], q[2])
    BY <1>1
  <2>3. x = y
    BY <1>4, <2>1, <2>2 DEF Placed
  <2> QED
    BY <1>1, <2>1, <2>2, <2>3 DEF Placed
<1> QED
  BY <1>2, <1>3, <1>4

LEMMA Decoded ==
    ASSUME NEW m \in Models, NEW state, NEW bytes, NEW r,
           Shows12(bytes, m, state), Meant(m, state, r)
    PROVE  LooksRight(bytes, r)
<1>1. /\ state.buttons = r.buttons /\ state.buttons \subseteq DOMAIN m.wire
      /\ InStick(state.left) /\ ShowsStick(state.left, r.left)
      /\ InStick(state.right) /\ ShowsStick(state.right, r.right)
  BY DEF Meant
<1>2. /\ {HostLayout[p[1]][p[2]] : p \in HostBits(bytes)} = r.buttons
      /\ \A p, q \in HostBits(bytes) :
            p[1] = q[1] \/ HostLayout[p[1]][p[2]] # HostLayout[q[1]][q[2]]
  BY <1>1, ButtonsDecoded
<1>3. /\ bytes[7] = pack_stick(state.left)[1] /\ bytes[7 + 1] = pack_stick(state.left)[2]
      /\ bytes[7 + 2] = pack_stick(state.left)[3]
      /\ bytes[10] = pack_stick(state.right)[1] /\ bytes[10 + 1] = pack_stick(state.right)[2]
      /\ bytes[10 + 2] = pack_stick(state.right)[3]
  <2>1. \A i \in 1..3 : bytes[6 + i] = pack_stick(state.left)[i]
                        /\ bytes[9 + i] = pack_stick(state.right)[i]
    BY DEF Shows12
  <2>2. 1 \in 1..3 /\ 2 \in 1..3 /\ 3 \in 1..3
        /\ 6 + 1 = 7 /\ 6 + 2 = 7 + 1 /\ 6 + 3 = 7 + 2
        /\ 9 + 1 = 10 /\ 9 + 2 = 10 + 1 /\ 9 + 3 = 10 + 2
    OBVIOUS
  <2> QED
    BY <2>1, <2>2
<1>4. HostStick(bytes, 7).x = state.left.x /\ HostStick(bytes, 7).y = state.left.y
  BY <1>1, <1>3, StickRead
<1>5. HostStick(bytes, 10).x = state.right.x /\ HostStick(bytes, 10).y = state.right.y
  BY <1>1, <1>3, StickRead
<1>6. ShowsStick(HostStick(bytes, 7), r.left)
  BY <1>1, <1>4 DEF ShowsStick
<1>7. ShowsStick(HostStick(bytes, 10), r.right)
  BY <1>1, <1>5 DEF ShowsStick
<1> QED
  BY <1>2, <1>6, <1>7 DEF LooksRight

\* The motion of a report, in the mode it was made in.
MovesRight(bytes, r, mode) ==
    /\ Len(bytes) = 49
    /\ mode >= 1 => ShowsAccel(bytes, r)
    /\ mode = 1 => ShowsGyro(bytes, r)
    /\ mode = 0 => \A i \in 14..49 : bytes[i] = 0

LEMMA EmptyBlock == \A i \in 1..36 : BlockBytes({})[i] = 0
<1> TAKE i \in 1..36
<1>1. \A p : InBlock({}, p) = 0
  BY DEF InBlock
<1>2. 0 + 2 * 0 + 4 * 0 + 8 * 0 + 16 * 0 + 32 * 0 + 64 * 0 + 128 * 0 = 0
  OBVIOUS
<1> QED
  BY <1>1, <1>2, BlockByte

LEMMA MotionDecoded ==
    ASSUME NEW m, NEW state, NEW r, Meant(m, state, r), NEW timer, NEW session, NEW time
    PROVE  LET bytes == prepare_input_report(m, state, timer, session, time).bytes
           IN  Shows12(bytes, m, state) /\ MovesRight(bytes, r, session.imu_mode)
<1> DEFINE imu == encode_imu_block(session.imu, session.imu_mode, state.frames, time)
           block == imu.block
           mode == session.imu_mode
           frames == state.frames
           bytes == prepare_input_report(m, state, timer, session, time).bytes
<1>1. bytes = encode_0x30(m, state, timer, block)
  BY DEF prepare_input_report
<1>2. \A f \in Frames :
          /\ InWord(frames[f + 1].accel) /\ InWord(frames[f + 1].gyro)
          /\ Magnitude(2 * frames[f + 1].accel - Sample(r, f).accel) <= 1
          /\ Magnitude(70 * frames[f + 1].gyro - Sample(r, f).rate) <= 35
  BY DEF Meant
<1>3. /\ mode = 0 => block = {}
      /\ mode = 1 => block = encode_standard_imu(frames)
      /\ mode # 0 /\ mode # 1 =>
            \E orientation, timestamp : block = pack_mode_2(frames, orientation, timestamp)
  <2>1. CASE mode = 0
    BY <2>1 DEF encode_imu_block
  <2>2. CASE mode = 1
    BY <2>2 DEF encode_imu_block
  <2>3. CASE mode # 0 /\ mode # 1
    <3>1. imu = encode_quaternion_imu(session.imu, frames, time)
      BY <2>3 DEF encode_imu_block
    <3> DEFINE previous == session.imu.previous_report
               elapsed == IF previous = NoReport \/ time < previous THEN 0 ELSE time - previous
               turned == next_orientation(session.imu.orientation, frames, elapsed)
    <3>2. block = pack_mode_2(frames, turned, time * MsPerTick)
      BY <3>1 DEF encode_quaternion_imu
    <3> HIDE DEF block, turned
    <3>3. \E orientation, timestamp : block = pack_mode_2(frames, orientation, timestamp)
      BY <3>2, Zenon
    <3> HIDE DEF frames, mode
    <3> QED
      BY <2>3, <3>3
  <2> QED
    BY <2>1, <2>2, <2>3
<1> HIDE DEF block, bytes, mode, frames
<1>4. IsSeq(bytes, 49) /\ Shows12(bytes, m, state) /\ Carries(bytes, block)
  BY <1>1, ReportLength, ReportPlaces DEF Carries
<1>5. ASSUME mode >= 1 PROVE ShowsAccel(bytes, r)
  <2>1. \A f \in Frames : \A a \in Axes : Word(bytes, 12 * f + 2 * a) = frames[f + 1].accel
    <3>1. CASE mode = 1
      BY <1>2, <1>3, <1>4, <3>1, StandardWords
    <3>2. CASE mode # 1
      <4>1. mode # 0
        BY <1>5
      <4>2. PICK orientation, timestamp : block = pack_mode_2(frames, orientation, timestamp)
        BY <1>3, <3>2, <4>1
      <4> QED
        BY <1>2, <1>4, <4>2, QuaternionWords
    <3> QED
      BY <3>1, <3>2
  <2> QED
    BY <1>2, <2>1 DEF ShowsAccel
<1>6. ASSUME mode = 1 PROVE ShowsGyro(bytes, r)
  <2>1. \A f \in Frames : \A a \in Axes :
            Word(bytes, 12 * f + 6 + 2 * a) = IF a = Axis - 1 THEN frames[f + 1].gyro ELSE 0
    BY <1>2, <1>3, <1>4, <1>6, StandardWords
  <2>2. Magnitude(70 * 0 - 0) <= 35
    BY DEF Magnitude
  <2> QED
    BY <1>2, <2>1, <2>2 DEF ShowsGyro
<1>7. ASSUME mode = 0 PROVE \A i \in 14..49 : bytes[i] = 0
  <2>1. \A i \in 1..36 : bytes[13 + i] = 0
    BY <1>3, <1>4, <1>7, EmptyBlock DEF Carries
  <2>2. \A i \in 14..49 : i - 13 \in 1..36 /\ 13 + (i - 13) = i
    OBVIOUS
  <2> QED
    BY <2>1, <2>2
<1>8. Len(bytes) = 49
  BY <1>4 DEF IsSeq
<1> QED
  BY <1>4, <1>5, <1>6, <1>7, <1>8 DEF MovesRight, bytes, mode

\* A reply shows the state it was made with.
LEMMA ReplyShows ==
    ASSUME model \in Models, NEW raw \in OutputReports, Answer(raw).ok
    PROVE  Shows12(Answer(raw).value.bytes, model, ReplyState)
<1> DEFINE req == RequestOf(raw)
           state == ReplyState
           answered == prepare_subcommand(model, Colors, req, state, sender.timer, sender.session)
<1>1. Answer(raw) = answered /\ req.payload \in Seq(0..255)
  BY ParsedRequest
<1> HIDE DEF req, state
<1>2. Made(model, req, state, sender.timer, sender.session, answered)
  BY <1>1, ReplyMade
<1> HIDE DEF answered
<1>3. PICK settled, data : \E ack \in 128..255, n \in Nat :
          /\ IsSeq(data, n) /\ Fits(model, req, data, n)
          /\ answered = prepare_0x21(model, state, sender.timer, settled, req.id, ack, data)
  BY <1>2 DEF Made
<1>4. PICK ack \in 128..255, n \in Nat :
          /\ IsSeq(data, n)
          /\ answered = prepare_0x21(model, state, sender.timer, settled, req.id, ack, data)
  BY <1>3
<1>5. Shows12(answered.value.bytes, model, state)
  BY <1>1, <1>4, ReplyPlaces
<1> QED
  BY <1>1, <1>5 DEF state

\* What was accepted last is decoded as what it was made from, and the input is
\* what the latest request means.
DecodeInv == Meant(model, input, request) /\ ReportsDecode

LEMMA NothingSent == ASSUME wire = NoWire PROVE ReportsDecode
BY DEF NoWire, ReportsDecode

\* An input report that is accepted shows the state it was made with.
LEMMA InputDecodes ==
    ASSUME model \in Models, ReportsDecode, NEW state, NEW of, NEW ok \in BOOLEAN,
           send_input(state, of, ok), Meant(model, state, of)
    PROVE  ReportsDecode'
<1> DEFINE bytes == prepare_input_report(model, state, sender.timer, sender.session, now).bytes
           mode == sender.session.imu_mode
<1>1. CASE ok
  <2>1. wire' = [kind |-> "input", bytes |-> bytes, of |-> of, mode |-> mode, payload |-> <<>>]
    BY <1>1 DEF send_input
  <2>2. Shows12(bytes, model, state) /\ MovesRight(bytes, of, mode)
    BY MotionDecoded
  <2> HIDE DEF bytes, mode
  <2>3. LooksRight(bytes, of)
    BY <2>2, Decoded
  <2>4. /\ wire'.kind = "input" /\ wire'.bytes = bytes /\ wire'.of = of /\ wire'.mode = mode
    BY <2>1
  <2> QED
    BY <2>2, <2>3, <2>4 DEF ReportsDecode, LooksRight, MovesRight
<1>2. CASE ~ok
  <2>1. wire' = wire
    BY <1>2 DEF send_input
  <2> QED
    BY <2>1 DEF ReportsDecode
<1> QED
  BY <1>1, <1>2

\* And so does a reply that is accepted.
LEMMA AnswerDecodes ==
    ASSUME AckInv, DecodeInv, NEW ok \in BOOLEAN, HandleAnswered(ok)
    PROVE  DecodeInv'
<1> DEFINE raw == Head(toDevice)
           payload == SubSeq(raw, 12, Len(raw))
           bytes == Answer(raw).value.bytes
           of == IF protocol_ready(sender.session) THEN request ELSE Rest
           mode == sender.session.imu_mode
<1>1. /\ toDevice # <<>> /\ Answer(raw).ok /\ UNCHANGED <<model, input, request>>
      /\ ok => wire' = [kind |-> "reply", bytes |-> bytes, of |-> of, mode |-> mode,
                        payload |-> payload]
      /\ ~ok => wire' = wire
  BY DEF HandleAnswered
<1>2. raw \in OutputReports
  BY <1>1 DEF AckInv, ConsoleShape
<1>3. model \in Models
  BY DEF AckInv, ConsoleShape
<1>4. Meant(model, ReplyState, of)
  BY NeutralMeant DEF DecodeInv, ReplyState
<1> HIDE DEF raw
<1>5. Shows12(bytes, model, ReplyState)
  BY <1>1, <1>2, <1>3, ReplyShows
<1> HIDE DEF bytes, of, mode, payload
<1>6. LooksRight(bytes, of)
  BY <1>3, <1>4, <1>5, Decoded
<1>7. ReportsDecode'
  <2>1. CASE ok
    <3>1. wire'.kind = "reply" /\ wire'.bytes = bytes /\ wire'.of = of
      BY <1>1, <2>1
    <3> QED
      BY <1>6, <3>1 DEF ReportsDecode, LooksRight
  <2>2. CASE ~ok
    BY <1>1, <2>2 DEF ReportsDecode, DecodeInv
  <2> QED
    BY <2>1, <2>2
<1>8. Meant(model, input, request)'
  BY <1>1 DEF DecodeInv, Meant
<1> QED
  BY <1>7, <1>8 DEF DecodeInv

LEMMA DecodeStep ==
    ASSUME AckInv, DecodeInv, [PathNext]_pathVars PROVE DecodeInv'
<1>1. model \in Models
  BY DEF AckInv, ConsoleShape
<1>2. ASSUME UNCHANGED wire PROVE ReportsDecode'
  BY <1>2 DEF DecodeInv, ReportsDecode
<1>3. ASSUME UNCHANGED <<model, input, request>> PROVE Meant(model, input, request)'
  BY <1>3 DEF DecodeInv, Meant
<1>4. ASSUME NEW r, Meant(model, Converted(r), r), model' = model, input' = Converted(r),
             request' = r
      PROVE  Meant(model, input, request)'
  <2>1. Meant(model', input', request')
    BY <1>4
  <2> QED
    BY <2>1 DEF Meant
<1>5. CASE NewLink
  <2>1. wire' = NoWire /\ input' = neutral /\ request' = Rest /\ model' = model
    BY <1>5 DEF NewLink
  <2>2. ReportsDecode'
    BY <2>1 DEF NoWire, ReportsDecode
  <2>3. Meant(model', input', request')
    BY <2>1, NeutralMeant
  <2>4. Meant(model, input, request)'
    BY <2>3 DEF Meant
  <2> QED
    BY <2>2, <2>4 DEF DecodeInv
<1>6. CASE Clock \/ StartReporting \/ Backpressured \/ NothingDue \/ HandleSilently
           \/ (Console /\ ~NewLink) \/ UNCHANGED pathVars
           \/ \E r \in Requested : Refused(r)
  <2>1. UNCHANGED <<model, input, request, wire>>
    BY <1>6 DEF Clock, StartReporting, Backpressured, NothingDue, HandleSilently, Console,
                AskAgain, Hear, Ask, Refused, pathVars, output
  <2> QED
    BY <1>2, <1>3, <2>1 DEF DecodeInv
<1>7. ASSUME NEW r \in Requested, Commit(r) PROVE DecodeInv'
  <2>1. Convertible(r) /\ UNCHANGED <<model, wire>> /\ input' = Converted(r) /\ request' = r
    BY <1>7 DEF Commit, output
  <2> QED
    BY <1>2, <1>4, <2>1, ConvertedMeant DEF DecodeInv
<1>8. ASSUME NEW r \in Requested, NEW ok \in BOOLEAN, CommitAndSend(r, ok) PROVE DecodeInv'
  <2>1. /\ Convertible(r) /\ UNCHANGED model /\ input' = Converted(r) /\ request' = r
        /\ send_input(Converted(r), r, ok)
    BY <1>8 DEF CommitAndSend
  <2>2. Meant(model, Converted(r), r)
    BY <2>1, ConvertedMeant
  <2>3. ReportsDecode'
    BY <1>1, <2>1, <2>2, InputDecodes DEF DecodeInv
  <2> QED
    BY <1>4, <2>1, <2>2, <2>3 DEF DecodeInv
<1>9. ASSUME NEW ok \in BOOLEAN, ReportDue(ok) \/ SendNeutral(ok) PROVE DecodeInv'
  <2>1. /\ UNCHANGED <<model, input, request>>
        /\ send_input(input, request, ok) \/ send_input(neutral, Rest, ok)
    BY <1>9 DEF ReportDue, SendNeutral
  <2>2. ReportsDecode'
    BY <1>1, <2>1, NeutralMeant, InputDecodes DEF DecodeInv
  <2> QED
    BY <1>3, <2>1, <2>2 DEF DecodeInv
<1> QED
  BY <1>5, <1>6, <1>7, <1>8, <1>9, AnswerDecodes DEF PathNext, Device, Client, Console

\* From every input that can be converted, on every controller, in every mode
\* and whatever the console asks in between: what is decoded from the latest
\* accepted report or reply is what was asked for.
THEOREM ReportsAreDecoded == PathSpec => []ReportsDecode
<1>1. PathInit => DecodeInv
  <2> SUFFICES ASSUME PathInit PROVE DecodeInv
    OBVIOUS
  <2>1. request = Rest /\ input = neutral /\ wire = NoWire
    BY DEF PathInit
  <2> QED
    BY <2>1, NeutralMeant, NothingSent DEF DecodeInv
<1>2. AckInv /\ DecodeInv /\ [PathNext]_pathVars => DecodeInv'
  BY DecodeStep
<1>3. DecodeInv => ReportsDecode
  BY DEF DecodeInv
<1> QED
  BY <1>1, <1>2, <1>3, AckStart, AckStep, PTL DEF PathSpec

-----------------------------------------------------------------------------
(* The bits of a motion block *)

\* A bit of a report is one of its block.
LEMMA BitRead ==
    ASSUME NEW block, NEW bytes, Carries(bytes, block), NEW p \in Nat, p <= 287
    PROVE  ImuBit(bytes, p) = 1 <=> p \in block
<1> DEFINE i == p \div 8
           k == p % 8
           at(b) == InBlock(block, 8 * i + b)
           n == bytes[14 + i]
<1>1. i \in Nat /\ i <= 35 /\ k \in 0..7 /\ p = 8 * i + k
  OBVIOUS
<1>2. ImuBit(bytes, p) = Bit(n, k)
  BY DEF ImuBit
<1> HIDE DEF i, k
<1>3. n = at(0) + 2 * at(1) + 4 * at(2) + 8 * at(3)
          + 16 * at(4) + 32 * at(5) + 64 * at(6) + 128 * at(7)
  <2>1. i + 1 \in 1..36 /\ 13 + (i + 1) = 14 + i /\ 8 * ((i + 1) - 1) = 8 * i
    BY <1>1
  <2>2. BlockBytes(block)[i + 1] = at(0) + 2 * at(1) + 4 * at(2) + 8 * at(3)
            + 16 * at(4) + 32 * at(5) + 64 * at(6) + 128 * at(7)
    BY <2>1, BlockByte
  <2>3. n = BlockBytes(block)[i + 1]
    BY <2>1 DEF Carries
  <2> QED
    BY <2>2, <2>3
<1>4. \A b : at(b) \in {0, 1}
  BY DEF InBlock
<1> HIDE DEF at, n
<1>5. /\ Bit(n, 0) = at(0) /\ Bit(n, 1) = at(1) /\ Bit(n, 2) = at(2) /\ Bit(n, 3) = at(3)
      /\ Bit(n, 4) = at(4) /\ Bit(n, 5) = at(5) /\ Bit(n, 6) = at(6) /\ Bit(n, 7) = at(7)
  BY <1>3, <1>4, ByteBits
<1>6. k = 0 \/ k = 1 \/ k = 2 \/ k = 3 \/ k = 4 \/ k = 5 \/ k = 6 \/ k = 7
  BY <1>1
<1>7. Bit(n, k) = at(k)
  BY <1>5, <1>6
<1> QED
  BY <1>1, <1>2, <1>7 DEF at, InBlock

LEMMA BitsRead ==
    ASSUME NEW block, NEW bytes, Carries(bytes, block),
           NEW start \in Nat, NEW width \in Nat, start + width <= 288, NEW v,
           Holds(block, start, width, v)
    PROVE  ShowsBits(bytes, start, width, v)
<1> SUFFICES ASSUME NEW b \in 0..(width - 1)
             PROVE  ImuBit(bytes, start + b) = 1 <=> Bit(v, b) = 1
  BY DEF ShowsBits
<1>1. start + b \in Nat /\ start + b <= 287
  OBVIOUS
<1>2. start + b \in block <=> Bit(v, b) = 1
  BY DEF Holds
<1> QED
  BY <1>1, <1>2, BitRead

\* What pack_mode_2 puts in the places of the gyroscope, by the index of the
\* component left out and the others.
Packed(accels, omitted, first, second, third, high, timestamp) ==
    UNION {accels,
           put_bits({}, 48, 2, 2), put_bits({}, 50, 2, omitted),
           put_bits({}, 52, 21, first), put_bits({}, 73, 21, second),
           put_bits({}, 94, 2, third), put_bits({}, 144, 19, high),
           put_bits({}, 271, 11, timestamp), put_bits({}, 282, 6, 3)}

LEMMA PutHolds ==
    ASSUME NEW block, NEW start \in Nat, NEW width \in Nat, NEW v,
           \A p : p \in Nat /\ start <= p /\ p < start + width
                  => (p \in block <=> p \in put_bits({}, start, width, v))
    PROVE  Holds(block, start, width, v)
<1> SUFFICES ASSUME NEW c \in 0..(width - 1)
             PROVE  start + c \in block <=> Bit(v, c) = 1
  BY DEF Holds
<1>1. start + c \in Nat /\ start <= start + c /\ start + c < start + width
  OBVIOUS
<1>2. start + c \in put_bits({}, start, width, v) <=> Bit(v, c) = 1
  <2>1. \A d \in 0..(width - 1) : start + c = start + d => c = d
    OBVIOUS
  <2> QED
    BY <2>1, PutIn
<1> QED
  BY <1>1, <1>2

\* None of these fields disturbs another.
LEMMA PackedHolds ==
    ASSUME NEW accels, NEW omitted, NEW first, NEW second, NEW third, NEW high, NEW timestamp,
           \A p \in accels : p \in Nat /\ \/ p < 48
                                          \/ 96 <= p /\ p < 144
                                          \/ 192 <= p /\ p < 240
    PROVE  LET block == Packed(accels, omitted, first, second, third, high, timestamp)
           IN  /\ Holds(block, 48, 2, 2) /\ Holds(block, 50, 2, omitted)
               /\ Holds(block, 52, 21, first) /\ Holds(block, 73, 21, second)
               /\ Holds(block, 94, 2, third) /\ Holds(block, 144, 19, high)
               /\ Holds(block, 271, 11, timestamp) /\ Holds(block, 282, 6, 3)
<1> DEFINE s1 == put_bits({}, 48, 2, 2)
           s2 == put_bits({}, 50, 2, omitted)
           s3 == put_bits({}, 52, 21, first)
           s4 == put_bits({}, 73, 21, second)
           s5 == put_bits({}, 94, 2, third)
           s6 == put_bits({}, 144, 19, high)
           s7 == put_bits({}, 271, 11, timestamp)
           s8 == put_bits({}, 282, 6, 3)
           block == Packed(accels, omitted, first, second, third, high, timestamp)
<1>1. \A p : /\ p \in s1 => 48 <= p /\ p < 48 + 2
             /\ p \in s2 => 50 <= p /\ p < 50 + 2
             /\ p \in s3 => 52 <= p /\ p < 52 + 21
             /\ p \in s4 => 73 <= p /\ p < 73 + 21
             /\ p \in s5 => 94 <= p /\ p < 94 + 2
             /\ p \in s6 => 144 <= p /\ p < 144 + 19
             /\ p \in s7 => 271 <= p /\ p < 271 + 11
             /\ p \in s8 => 282 <= p /\ p < 282 + 6
  BY PutWithin
<1>2. \A p : p \in block <=> \/ p \in accels \/ p \in s1 \/ p \in s2 \/ p \in s3 \/ p \in s4
                             \/ p \in s5 \/ p \in s6 \/ p \in s7 \/ p \in s8
  <2>1. block = UNION {accels, s1, s2, s3, s4, s5, s6, s7, s8}
    BY DEF Packed
  <2> HIDE DEF block, s1, s2, s3, s4, s5, s6, s7, s8
  <2> QED
    BY <2>1
<1> HIDE DEF block, s1, s2, s3, s4, s5, s6, s7, s8
<1>3. \A p \in Nat : /\ 48 <= p /\ p < 48 + 2 => (p \in block <=> p \in s1)
                     /\ 50 <= p /\ p < 50 + 2 => (p \in block <=> p \in s2)
  BY <1>1, <1>2
<1>4. \A p \in Nat : /\ 52 <= p /\ p < 52 + 21 => (p \in block <=> p \in s3)
                     /\ 73 <= p /\ p < 73 + 21 => (p \in block <=> p \in s4)
  BY <1>1, <1>2
<1>5. \A p \in Nat : /\ 94 <= p /\ p < 94 + 2 => (p \in block <=> p \in s5)
                     /\ 144 <= p /\ p < 144 + 19 => (p \in block <=> p \in s6)
  BY <1>1, <1>2
<1>6. \A p \in Nat : /\ 271 <= p /\ p < 271 + 11 => (p \in block <=> p \in s7)
                     /\ 282 <= p /\ p < 282 + 6 => (p \in block <=> p \in s8)
  BY <1>1, <1>2
<1>7. Holds(block, 48, 2, 2) /\ Holds(block, 50, 2, omitted)
  BY <1>3, PutHolds DEF s1, s2
<1>8. Holds(block, 52, 21, first) /\ Holds(block, 73, 21, second)
  BY <1>4, PutHolds DEF s3, s4
<1>9. Holds(block, 94, 2, third) /\ Holds(block, 144, 19, high)
  BY <1>5, PutHolds DEF s5, s6
<1>10. Holds(block, 271, 11, timestamp) /\ Holds(block, 282, 6, 3)
  BY <1>6, PutHolds DEF s7, s8
<1> QED
  BY <1>7, <1>8, <1>9, <1>10 DEF block

-----------------------------------------------------------------------------
(* The orientation *)

LEMMA Quarters ==
    \A k \in 1..7 : /\ QuarterSines[k] \in Nat
                    /\ k < 7 => QuarterSines[k] < 1073741824
                    /\ k = 7 => QuarterSines[k] = 1073741824
<1> TAKE k \in 1..7
<1>1. k = 1 \/ k = 2 \/ k = 3 \/ k = 4 \/ k = 5 \/ k = 6 \/ k = 7
  OBVIOUS
<1>2. /\ QuarterSines[1] = 0 /\ QuarterSines[2] = 277904834 /\ QuarterSines[3] = 536870912
      /\ QuarterSines[4] = 759250125 /\ QuarterSines[5] = 929887697
      /\ QuarterSines[6] = 1037154959 /\ QuarterSines[7] = 1073741824
  BY DEF QuarterSines
<1> QED
  BY <1>1, <1>2

\* A sine is at most one, and one only a quarter of a turn from the axis.
LEMMA Sines ==
    ASSUME NEW h \in Int
    PROVE  /\ Sine(h) \in Int /\ Magnitude(Sine(h)) <= 1073741824
           /\ Magnitude(Sine(h)) = 1073741824 => h % 24 = 6 \/ h % 24 = 18
<1> DEFINE s == h % 24
           low == s + 1
           fall == 13 - s
           under == s - 11
           rise == 25 - s
<1>1. s \in Nat /\ s <= 23
  OBVIOUS
<1>2. CASE s <= 6
  <2>1. Sine(h) = QuarterSines[low]
    BY <1>2 DEF Sine
  <2>2. low \in 1..7 /\ (low = 7 => s = 6)
    BY <1>1, <1>2
  <2> HIDE DEF low, s
  <2> QED
    BY <2>1, <2>2, Quarters DEF Magnitude, s
<1>3. CASE 7 <= s /\ s <= 12
  <2>1. Sine(h) = QuarterSines[fall]
    BY <1>3, <1>1 DEF Sine
  <2>2. fall \in 1..7 /\ fall < 7
    BY <1>1, <1>3
  <2> HIDE DEF fall, s
  <2> QED
    BY <2>1, <2>2, Quarters DEF Magnitude
<1>4. CASE 13 <= s /\ s <= 18
  <2>1. Sine(h) = -QuarterSines[under]
    BY <1>4, <1>1 DEF Sine
  <2>2. under \in 1..7 /\ (under = 7 => s = 18)
    BY <1>1, <1>4
  <2> HIDE DEF under, s
  <2> QED
    BY <2>1, <2>2, Quarters DEF Magnitude, s
<1>5. CASE 19 <= s
  <2>1. Sine(h) = -QuarterSines[rise]
    BY <1>5, <1>1 DEF Sine
  <2>2. rise \in 1..7 /\ rise < 7
    BY <1>1, <1>5
  <2> HIDE DEF rise, s
  <2> QED
    BY <2>1, <2>2, Quarters DEF Magnitude
<1> QED
  BY <1>1, <1>2, <1>3, <1>4, <1>5

\* No two components of a quaternion are one.
Components(q) ==
    /\ \A i \in 0..3 : q[i] \in Int /\ Magnitude(q[i]) <= 1073741824
    /\ \A i, j \in 0..3 :
          Magnitude(q[i]) = 1073741824 /\ Magnitude(q[j]) = 1073741824 => i = j

LEMMA QuaternionComponents == ASSUME NEW turned \in Int PROVE Components(Quaternion(turned))
<1> DEFINE h == HalfSteps(turned)
           q == Quaternion(turned)
           sine == Sine(h)
           cosine == Sine(h + 6)
           one == Magnitude(sine) = 1073741824
<1>1. h \in Int
  <2>1. turned \div 9000 \in Int /\ MsPerTick \in Int
    BY MsPerTickAssumption
  <2> DEFINE product == (turned \div 9000) * MsPerTick
  <2>2. product \in Int
    BY <2>1
  <2> HIDE DEF product
  <2>3. (product \div 1000) * 7 \in Int
    BY <2>2
  <2> QED
    BY <2>3 DEF HalfSteps, product
<1>2. \A i \in 0..3 : q[i] = IF i = 3 THEN cosine ELSE IF i = Axis - 1 THEN sine ELSE 0
  BY DEF Quaternion
<1> HIDE DEF h, q
<1>3. /\ sine \in Int /\ Magnitude(sine) <= 1073741824
      /\ Magnitude(sine) = 1073741824 => h % 24 = 6 \/ h % 24 = 18
  BY <1>1, Sines
<1>4. /\ cosine \in Int /\ Magnitude(cosine) <= 1073741824
      /\ Magnitude(cosine) = 1073741824 => (h + 6) % 24 = 6 \/ (h + 6) % 24 = 18
  <2>1. h + 6 \in Int
    BY <1>1
  <2> QED
    BY <2>1, Sines
<1>5. h % 24 = 6 \/ h % 24 = 18 => ~((h + 6) % 24 = 6 \/ (h + 6) % 24 = 18)
  BY <1>1
<1>6. ~(Magnitude(sine) = 1073741824 /\ Magnitude(cosine) = 1073741824)
  BY <1>3, <1>4, <1>5
<1>7. Magnitude(0) = 0
  BY DEF Magnitude
<1> HIDE DEF sine, cosine
<1>8. \A i \in 0..3 : q[i] \in Int /\ Magnitude(q[i]) <= 1073741824
  BY <1>2, <1>3, <1>4, <1>7
<1>9. ASSUME NEW i \in 0..3, NEW j \in 0..3,
             Magnitude(q[i]) = 1073741824, Magnitude(q[j]) = 1073741824
      PROVE  i = j
  <2>1. i = 3 \/ i = Axis - 1
    BY <1>2, <1>7, <1>9
  <2>2. j = 3 \/ j = Axis - 1
    BY <1>2, <1>7, <1>9
  <2>3. Axis - 1 # 3 /\ Axis - 1 \in 0..3
    BY AxisAssumption
  <2> QED
    BY <1>2, <1>6, <1>9, <2>1, <2>2, <2>3
<1>10. Components(q)
  BY <1>8, <1>9 DEF Components
<1> QED
  BY <1>10 DEF q

\* The largest component, the first of them.
Largest(q, i) ==
    /\ \A j \in 0..3 : Magnitude(q[j]) <= Magnitude(q[i])
    /\ \A j \in 0..(i - 1) : Magnitude(q[j]) < Magnitude(q[i])

LEMMA LargestExists == ASSUME NEW q, Components(q) PROVE \E i \in 0..3 : Largest(q, i)
<1> DEFINE m(i) == Magnitude(q[i])
<1>1. m(0) \in Int /\ m(1) \in Int /\ m(2) \in Int /\ m(3) \in Int
  BY DEF Components, Magnitude
<1> HIDE DEF m
<1>2. \/ m(1) <= m(0) /\ m(2) <= m(0) /\ m(3) <= m(0)
      \/ m(0) < m(1) /\ m(2) <= m(1) /\ m(3) <= m(1)
      \/ m(0) < m(2) /\ m(1) < m(2) /\ m(3) <= m(2)
      \/ m(0) < m(3) /\ m(1) < m(3) /\ m(2) < m(3)
  BY <1>1
<1>3. CASE m(1) <= m(0) /\ m(2) <= m(0) /\ m(3) <= m(0)
  <2>1. \A j \in 0..3 : m(j) <= m(0)
    <3> TAKE j \in 0..3
    <3>1. j = 0 \/ j = 1 \/ j = 2 \/ j = 3
      OBVIOUS
    <3> QED
      BY <1>1, <1>3, <3>1
  <2>2. \A j \in 0..(0 - 1) : m(j) < m(0)
    OBVIOUS
  <2>3. Largest(q, 0)
    BY <2>1, <2>2 DEF Largest, m
  <2> QED
    BY <2>3
<1>4. CASE m(0) < m(1) /\ m(2) <= m(1) /\ m(3) <= m(1)
  <2>1. \A j \in 0..3 : m(j) <= m(1)
    <3> TAKE j \in 0..3
    <3>1. j = 0 \/ j = 1 \/ j = 2 \/ j = 3
      OBVIOUS
    <3> QED
      BY <1>1, <1>4, <3>1
  <2>2. \A j \in 0..(1 - 1) : m(j) < m(1)
    BY <1>4
  <2>3. Largest(q, 1)
    BY <2>1, <2>2 DEF Largest, m
  <2> QED
    BY <2>3
<1>5. CASE m(0) < m(2) /\ m(1) < m(2) /\ m(3) <= m(2)
  <2>1. \A j \in 0..3 : m(j) <= m(2)
    <3> TAKE j \in 0..3
    <3>1. j = 0 \/ j = 1 \/ j = 2 \/ j = 3
      OBVIOUS
    <3> QED
      BY <1>1, <1>5, <3>1
  <2>2. \A j \in 0..(2 - 1) : m(j) < m(2)
    <3> TAKE j \in 0..(2 - 1)
    <3>1. j = 0 \/ j = 1
      OBVIOUS
    <3> QED
      BY <1>5, <3>1
  <2>3. Largest(q, 2)
    BY <2>1, <2>2 DEF Largest, m
  <2> QED
    BY <2>3
<1>6. CASE m(0) < m(3) /\ m(1) < m(3) /\ m(2) < m(3)
  <2>1. \A j \in 0..3 : m(j) <= m(3)
    <3> TAKE j \in 0..3
    <3>1. j = 0 \/ j = 1 \/ j = 2 \/ j = 3
      OBVIOUS
    <3> QED
      BY <1>1, <1>6, <3>1
  <2>2. \A j \in 0..(3 - 1) : m(j) < m(3)
    <3> TAKE j \in 0..(3 - 1)
    <3>1. j = 0 \/ j = 1 \/ j = 2
      OBVIOUS
    <3> QED
      BY <1>6, <3>1
  <2>3. Largest(q, 3)
    BY <2>1, <2>2 DEF Largest, m
  <2> QED
    BY <2>3
<1> QED
  BY <1>2, <1>3, <1>4, <1>5, <1>6

\* Whatever the orientation, a quaternion block shows it.
LEMMA TurnIsShown ==
    ASSUME NEW frames, NEW turned \in Int, NEW timestamp
    PROVE  \A bytes : Carries(bytes, pack_mode_2(frames, turned, timestamp))
                        => ShowsTurn(bytes, turned, timestamp)
<1> DEFINE q == Quaternion(turned)
           block == pack_mode_2(frames, turned, timestamp)
           number(g) == frames[g + 1].accel
           word(g, b) == put_bits({}, Place(g, b), 16, number(g))
           accels == UNION {word(g, b) : g \in Frames, b \in Axes}
           max_index == CHOOSE i \in 0..3 :
                            /\ \A j \in 0..3 : Magnitude(q[j]) <= Magnitude(q[i])
                            /\ \A j \in 0..(i - 1) : Magnitude(q[j]) < Magnitude(q[i])
           sign == IF q[max_index] < 0 THEN -1 ELSE 1
           component(i) == (q[(max_index + i + 1) % 4] * sign) \div 1024
           index == max_index
           flip == sign
           part(i) == component(i)
           sent(i) == (q[(index + i) % 4] * flip) \div 1024
<1>1. Components(q)
  BY QuaternionComponents
<1>2. index \in 0..3 /\ Largest(q, index)
  <2>1. \E i \in 0..3 : Largest(q, i)
    BY <1>1, LargestExists
  <2>2. index = CHOOSE i \in 0..3 : Largest(q, i)
    BY DEF Largest
  <2> HIDE DEF index, q
  <2> QED
    BY <2>1, <2>2
<1>3. block = Packed(accels, index, part(0), part(1), part(2), part(2) \div 4, timestamp)
  <2>1. block = UNION {accels, put_bits({}, 48, 2, 2), put_bits({}, 50, 2, index),
                       put_bits({}, 52, 21, part(0)), put_bits({}, 73, 21, part(1)),
                       put_bits({}, 94, 2, part(2)), put_bits({}, 144, 19, part(2) \div 4),
                       put_bits({}, 271, 11, timestamp), put_bits({}, 282, 6, 3)}
    BY DEF pack_mode_2, put_word, accel, Place
  <2> HIDE DEF block, accels, index, part
  <2> QED
    BY <2>1 DEF Packed
<1>4. flip = IF q[index] < 0 THEN -1 ELSE 1
  OBVIOUS
<1>5. \A i : part(i) = (q[(index + i + 1) % 4] * flip) \div 1024
  OBVIOUS
<1> HIDE DEF q, block, index, flip, part, accels
<1>6. part(0) = sent(1) /\ part(1) = sent(2) /\ part(2) = sent(3)
  <2>1. index + 0 + 1 = index + 1 /\ index + 1 + 1 = index + 2 /\ index + 2 + 1 = index + 3
    BY <1>2
  <2> QED
    BY <1>5, <2>1
<1>7. \A p \in accels : p \in Nat /\ \/ p < 48
                                     \/ 96 <= p /\ p < 144
                                     \/ 192 <= p /\ p < 240
  <2> SUFFICES ASSUME NEW f \in Frames, NEW a \in Axes, NEW p \in word(f, a)
               PROVE  p \in Nat /\ \/ p < 48
                                   \/ 96 <= p /\ p < 144
                                   \/ 192 <= p /\ p < 240
    BY DEF accels
  <2>1. f = 0 \/ f = 1 \/ f = 2
    BY DEF Frames
  <2>2. a = 0 \/ a = 1 \/ a = 2
    BY DEF Axes
  <2>3. Place(f, a) \in Nat
    BY <2>1, <2>2 DEF Place
  <2>4. p \in Nat /\ Place(f, a) <= p /\ p < Place(f, a) + 16
    BY <2>3, PutWithin
  <2> QED
    BY <2>1, <2>2, <2>4 DEF Place
<1> HIDE DEF sent
<1>8. /\ Holds(block, 48, 2, 2) /\ Holds(block, 50, 2, index)
      /\ Holds(block, 52, 21, sent(1)) /\ Holds(block, 73, 21, sent(2))
      /\ Holds(block, 94, 2, sent(3)) /\ Holds(block, 144, 19, sent(3) \div 4)
      /\ Holds(block, 271, 11, timestamp) /\ Holds(block, 282, 6, 3)
  BY <1>3, <1>6, <1>7, PackedHolds
<1> SUFFICES ASSUME NEW bytes, Carries(bytes, block)
             PROVE  ShowsTurn(bytes, turned, timestamp)
  BY DEF block
<1> DEFINE shows(start, width, v) == ShowsBits(bytes, start, width, v)
<1>10. /\ shows(48, 2, 2) /\ shows(50, 2, index) /\ shows(52, 21, sent(1))
       /\ shows(73, 21, sent(2)) /\ shows(94, 2, sent(3)) /\ shows(144, 19, sent(3) \div 4)
       /\ shows(271, 11, timestamp) /\ shows(282, 6, 3)
  BY <1>8, BitsRead
<1>11. flip \in {1, -1} /\ q[index] * flip = Magnitude(q[index])
  <2>1. q[index] \in Int
    BY <1>1, <1>2 DEF Components
  <2> QED
    BY <1>4, <2>1 DEF Magnitude
<1>12. \A i \in 0..3 : Magnitude(q[i]) <= q[index] * flip
  BY <1>2, <1>11 DEF Largest
<1>13. ASSUME NEW i \in 1..3 PROVE -1048576 <= sent(i) /\ sent(i) < 1048576
  <2> DEFINE k == (index + i) % 4
             n == q[k] * flip
  <2>1. k \in 0..3 /\ k # index
    BY <1>2
  <2> HIDE DEF k
  <2>2. q[k] \in Int /\ Magnitude(q[k]) < 1073741824
    <3>1. /\ q[k] \in Int /\ Magnitude(q[k]) <= 1073741824
          /\ q[index] \in Int /\ Magnitude(q[index]) <= 1073741824
      BY <1>1, <1>2, <2>1 DEF Components
    <3>2. ~(Magnitude(q[k]) = 1073741824 /\ Magnitude(q[index]) = 1073741824)
      BY <1>1, <1>2, <2>1 DEF Components
    <3>3. Magnitude(q[k]) <= Magnitude(q[index])
      BY <1>2, <2>1 DEF Largest
    <3> QED
      BY <3>1, <3>2, <3>3 DEF Magnitude
  <2>3. n \in Int /\ -1073741824 < n /\ n < 1073741824
    BY <1>11, <2>2 DEF Magnitude
  <2>4. sent(i) = n \div 1024
    BY DEF sent, k
  <2> HIDE DEF n
  <2> QED
    BY <2>3, <2>4
<1> DEFINE Turn(o, s) ==
               LET out(i) == (q[(o + i) % 4] * s) \div 1024
               IN  /\ \A i \in 0..3 : Magnitude(q[i]) <= q[o] * s
                   /\ \A i \in 1..3 : -1048576 <= out(i) /\ out(i) < 1048576
                   /\ shows(50, 2, o)
                   /\ shows(52, 21, out(1)) /\ shows(73, 21, out(2))
                   /\ shows(94, 2, out(3)) /\ shows(144, 19, out(3) \div 4)
<1>14. Turn(index, flip)
  BY <1>10, <1>12, <1>13 DEF sent
<1>15. ShowsTurn(bytes, turned, timestamp)
       <=> /\ shows(48, 2, 2) /\ shows(282, 6, 3) /\ shows(271, 11, timestamp)
           /\ \E o \in 0..3, s \in {1, -1} : Turn(o, s)
  BY DEF ShowsTurn, q
<1> HIDE DEF Turn, shows
<1> QED
  BY <1>2, <1>10, <1>11, <1>14, <1>15

\* The orientation a session goes on from is what an observer adds up, and it
\* was last reported at no later instant than this.
TurnInv ==
    /\ sender.session.imu_mode >= 2 => motion = MotionOf(sender.session.imu)
    /\ sender.session.imu.previous_report <= now
    /\ OrientationIsShown

LEMMA TurnKept ==
    ASSUME TurnInv, UNCHANGED <<sender, wire, motion>>, now \in Int, now' \in Int, now <= now',
           sender.session.imu.previous_report \in Int
    PROVE  TurnInv'
<1>1. sender'.session.imu.previous_report <= now'
  BY DEF TurnInv
<1>2. OrientationIsShown'
  BY DEF TurnInv, OrientationIsShown
<1> QED
  BY <1>1, <1>2 DEF TurnInv

\* What a quaternion report makes of the orientation of its session.
LEMMA Turns ==
    ASSUME NEW current \in [orientation : Int, previous_report : Int], NEW mode \in Int,
           NEW state, InState(state), NEW t \in Nat, current.previous_report <= t
    PROVE  LET imu == encode_imu_block(current, mode, state.frames, t)
               turned == current.orientation
                         + (IF current.previous_report = NoReport THEN 0
                            ELSE TotalRate(state.frames) * (t - current.previous_report))
           IN  /\ imu.next_state.previous_report \in Int /\ imu.next_state.previous_report <= t
               /\ mode >= 2 =>
                     /\ turned \in Int
                     /\ imu.next_state = [orientation |-> turned, previous_report |-> t]
                     /\ imu.block = pack_mode_2(state.frames, turned, t * MsPerTick)
<1> DEFINE frames == state.frames
           previous == current.previous_report
           elapsed == IF previous = NoReport \/ t < previous THEN 0 ELSE t - previous
           turned == current.orientation
                     + (IF previous = NoReport THEN 0 ELSE TotalRate(frames) * (t - previous))
           made == next_orientation(current.orientation, frames, elapsed)
           imu == encode_imu_block(current, mode, frames, t)
           total == TotalRate(frames)
           quaternion == encode_quaternion_imu(current, frames, t)
<1>1. total \in Int
  <2>1. frames[1].gyro \in Int /\ frames[2].gyro \in Int /\ frames[3].gyro \in Int
    BY DEF InState
  <2> QED
    BY <2>1 DEF TotalRate
<1>2. previous \in Int /\ current.orientation \in Int
  OBVIOUS
<1>3. made = turned /\ turned \in Int
  <2>1. CASE previous = NoReport
    <3>1. elapsed = 0 /\ turned = current.orientation + 0
      BY <2>1
    <3>2. made = current.orientation + total * 0
      BY <3>1 DEF next_orientation
    <3> HIDE DEF total, made, turned
    <3> QED
      BY <1>1, <1>2, <3>1, <3>2
  <2>2. CASE previous # NoReport
    <3>1. elapsed = t - previous /\ turned = current.orientation + total * (t - previous)
      BY <1>2, <2>2
    <3>2. made = current.orientation + total * (t - previous)
      BY <3>1 DEF next_orientation
    <3>3. t - previous \in Int
      BY <1>2
    <3> DEFINE span == t - previous
    <3> HIDE DEF total, span
    <3>4. total * span \in Int
      BY <1>1, <3>3 DEF span
    <3> DEFINE product == total * span
    <3>5. turned = current.orientation + product /\ made = current.orientation + product
      BY <3>1, <3>2 DEF span
    <3> HIDE DEF product, turned, made
    <3> QED
      BY <1>2, <3>4, <3>5 DEF product
  <2> QED
    BY <2>1, <2>2
<1>4. /\ quaternion.next_state = [orientation |-> made, previous_report |-> t]
      /\ quaternion.block = pack_mode_2(frames, made, t * MsPerTick)
  BY DEF encode_quaternion_imu
<1>5. /\ mode >= 2 => imu = quaternion
      /\ imu = quaternion \/ imu.next_state = IdentityState
  BY DEF encode_imu_block
<1>6. IdentityState.previous_report = -1
  BY DEF IdentityState, NoReport
<1> HIDE DEF quaternion, imu, made, turned, frames
<1>7. imu.next_state.previous_report \in Int /\ imu.next_state.previous_report <= t
  BY <1>4, <1>5, <1>6
<1>8. mode >= 2 => /\ turned \in Int
                   /\ imu.next_state = [orientation |-> turned, previous_report |-> t]
                   /\ imu.block = pack_mode_2(frames, turned, t * MsPerTick)
  BY <1>3, <1>4, <1>5
<1> QED
  BY <1>7, <1>8 DEF imu, turned, frames

\* An input report that is accepted turns the observer as it turns the session.
LEMMA InputTurns ==
    ASSUME TurnInv, sender \in SenderType, now \in Nat, now' = now,
           NEW state, InState(state), NEW of, NEW ok \in BOOLEAN, send_input(state, of, ok)
    PROVE  TurnInv'
<1> DEFINE session == sender.session
           current == session.imu
           mode == session.imu_mode
           frames == state.frames
           imu == encode_imu_block(current, mode, frames, now)
           settled == with_imu_encoding_state(session, imu.next_state)
           bytes == encode_0x30(model, state, sender.timer, imu.block)
           turned == current.orientation
                     + (IF current.previous_report = NoReport THEN 0
                        ELSE TotalRate(frames) * (now - current.previous_report))
<1>1. /\ session \in SessionType /\ mode \in Int
      /\ current \in [orientation : Int, previous_report : Int]
  BY SenderParts DEF SessionType
<1>2. current.previous_report <= now /\ (mode >= 2 => motion = MotionOf(current))
  BY DEF TurnInv
<1>3. /\ imu.next_state.previous_report \in Int /\ imu.next_state.previous_report <= now
      /\ mode >= 2 =>
            /\ turned \in Int
            /\ imu.next_state = [orientation |-> turned, previous_report |-> now]
            /\ imu.block = pack_mode_2(frames, turned, now * MsPerTick)
  BY <1>1, <1>2, Turns
<1>4. CASE ~ok
  <2>1. UNCHANGED <<sender, wire, motion>>
    BY <1>4 DEF send_input, CommitSender
  <2> QED
    BY <1>1, <2>1, TurnKept
<1>5. CASE ok
  <2>1. /\ sender' = [timer |-> NextTimer, session |-> settled]
        /\ wire' = [kind |-> "input", bytes |-> bytes, of |-> of, mode |-> mode, payload |-> <<>>]
        /\ motion' = Observe(mode, frames)
    BY <1>5 DEF send_input, CommitSender, prepare_input_report
  <2> HIDE DEF imu
  <2>2. settled.imu = imu.next_state /\ settled.imu_mode = mode
    BY <1>1 DEF with_imu_encoding_state, SessionType
  <2> HIDE DEF settled
  <2>3. sender'.session.imu = imu.next_state /\ sender'.session.imu_mode = mode
    BY <2>1, <2>2
  <2>4. wire'.mode = mode /\ wire'.bytes = bytes
    BY <2>1
  <2>5. mode >= 2 => motion' = [turned |-> turned, since |-> now]
    <3> HAVE mode >= 2
    <3>1. motion.turned = current.orientation /\ motion.since = current.previous_report
      BY <1>2 DEF MotionOf
    <3>2. ~(mode < 2)
      BY <1>1
    <3> HIDE DEF mode, current, frames
    <3> QED
      BY <2>1, <3>1, <3>2 DEF Observe
  <2>6. mode >= 2 => motion' = MotionOf(imu.next_state)
    BY <1>3, <2>5 DEF MotionOf
  <2>7. Carries(bytes, imu.block)
    BY ReportPlaces DEF Carries
  <2> HIDE DEF bytes, mode, turned
  <2>8. mode >= 2 => ShowsTurn(bytes, turned, now * MsPerTick)
    BY <1>3, <2>7, TurnIsShown
  <2>9. mode >= 2 => motion'.turned = turned /\ motion'.since = now
    BY <2>5
  <2>10. OrientationIsShown'
    BY <2>4, <2>8, <2>9 DEF OrientationIsShown
  <2> QED
    BY <1>3, <2>3, <2>6, <2>10 DEF TurnInv
<1> QED
  BY <1>4, <1>5

\* Only the request for an IMU mode touches the orientation of a session.
LEMMA AnswerMotion ==
    ASSUME model \in Models, sender \in SenderType, NEW raw \in OutputReports, Answer(raw).ok
    PROVE  LET settled == Answer(raw).value.session
           IN  /\ raw[11] = 64 => settled.imu = IdentityState
               /\ raw[11] # 64 => /\ settled.imu = sender.session.imu
                                  /\ settled.imu_mode = sender.session.imu_mode
<1> DEFINE session == sender.session
           settled == Answer(raw).value.session
           req == RequestOf(raw)
           v == req.payload[1]
           set == NextSession(model, session, raw[11], v)
<1>1. session \in SessionType
  BY SenderParts
<1>2. /\ Answer(raw) = prepare_subcommand(model, Colors, req, ReplyState, sender.timer, session)
      /\ req.payload \in Seq(0..255) /\ req.id = raw[11]
  BY ParsedRequest
<1> HIDE DEF req
<1>3. Establishes(model, req, session, settled)
  <2> DEFINE answered == prepare_subcommand(model, Colors, req, ReplyState, sender.timer,
                                            session)
  <2>1. answered.ok /\ settled = answered.value.session
    BY <1>2
  <2>2. Establishes(model, req, session, answered.value.session)
    BY <1>2, <2>1, ReplySession
  <2> HIDE DEF answered, settled
  <2> QED
    BY <2>1, <2>2
<1> SUFFICES /\ raw[11] = 64 => settled.imu = IdentityState
             /\ raw[11] # 64 => settled.imu = session.imu /\ settled.imu_mode = session.imu_mode
  OBVIOUS
<1> HIDE DEF settled, session
<1>4. /\ raw[11] \in Stateful => set.ok /\ settled = set.value
      /\ raw[11] \notin Stateful => settled = session
  BY <1>2, <1>3 DEF Establishes
<1> HIDE DEF v
<1>5. CASE raw[11] \notin Stateful
  BY <1>4, <1>5 DEF Stateful
<1>6. CASE raw[11] = 3
  <2>1. settled = [session EXCEPT !.report_mode = v]
    BY <1>4, <1>6 DEF Stateful, NextSession, with_report_mode, Ok
  <2> QED
    BY <1>1, <1>6, <2>1 DEF SessionType
<1>7. CASE raw[11] = 48
  <2>1. settled = [session EXCEPT !.player_lights = v]
    BY <1>4, <1>7 DEF Stateful, NextSession, with_player_lights, Ok
  <2> QED
    BY <1>1, <1>7, <2>1 DEF SessionType
<1>8. CASE raw[11] = 64
  <2>1. settled = [session EXCEPT !.imu_mode = v, !.imu = IdentityState]
    BY <1>4, <1>8 DEF Stateful, NextSession, with_imu_mode, Ok, Err
  <2> QED
    BY <1>1, <1>8, <2>1 DEF SessionType
<1>9. CASE raw[11] = 72
  <2> DEFINE on == v = 1
  <2>1. settled = [session EXCEPT !.vibration_enabled = on]
    BY <1>4, <1>9 DEF Stateful, NextSession, with_vibration_enabled, Ok, Err
  <2> HIDE DEF on
  <2> QED
    BY <1>1, <1>9, <2>1 DEF SessionType
<1> QED
  BY <1>5, <1>6, <1>7, <1>8, <1>9 DEF Stateful

\* A reply keeps the observer and its session together.
LEMMA AnswerTurns ==
    ASSUME TurnInv, AckInv, sender \in SenderType, now \in Nat, NEW ok \in BOOLEAN,
           HandleAnswered(ok)
    PROVE  TurnInv'
<1> DEFINE raw == Head(toDevice)
           settled == Answer(raw).value.session
           imu == sender.session.imu
<1>1. /\ toDevice # <<>> /\ Answer(raw).ok /\ now' = now
      /\ sender' = CommitSender(ok, settled)
      /\ ok => wire'.kind = "reply" /\ motion' = IF raw[11] = 64 THEN StillMotion ELSE motion
      /\ ~ok => wire' = wire /\ motion' = motion
  BY DEF HandleAnswered, vars
<1>2. raw \in OutputReports /\ model \in Models
  BY <1>1 DEF AckInv, ConsoleShape
<1>3. imu.previous_report \in Int
  BY SenderParts
<1>4. CASE ~ok
  <2>1. sender' = sender
    BY <1>1, <1>4 DEF CommitSender
  <2> QED
    BY <1>1, <1>3, <1>4, <2>1, TurnKept
<1>5. CASE ok
  <2> HIDE DEF raw
  <2>1. /\ raw[11] = 64 => settled.imu = IdentityState
        /\ raw[11] # 64 => settled.imu = imu /\ settled.imu_mode = sender.session.imu_mode
    BY <1>1, <1>2, AnswerMotion
  <2> HIDE DEF settled, imu
  <2>2. sender'.session = settled
    BY <1>1, <1>5 DEF CommitSender
  <2>3. OrientationIsShown'
    BY <1>1, <1>5 DEF OrientationIsShown
  <2>4. CASE raw[11] = 64
    <3>1. motion' = MotionOf(settled.imu)
      BY <1>1, <1>5, <2>1, <2>4 DEF StillMotion, MotionOf, IdentityState
    <3>2. settled.imu.previous_report <= now
      BY <2>1, <2>4 DEF IdentityState, NoReport
    <3> QED
      BY <1>1, <2>2, <2>3, <3>1, <3>2 DEF TurnInv
  <2>5. CASE raw[11] # 64
    <3>1. motion' = motion
      BY <1>1, <1>5, <2>5
    <3> QED
      BY <1>1, <2>1, <2>2, <2>3, <2>5, <3>1 DEF TurnInv, imu
  <2> QED
    BY <2>4, <2>5
<1> QED
  BY <1>4, <1>5

LEMMA TurnStep ==
    ASSUME TypeOK, AckInv, WireInv, TurnInv, [PathNext]_pathVars PROVE TurnInv'
<1>1. sender \in SenderType /\ now \in Nat /\ sender.session.imu.previous_report \in Int
      /\ InState(input)
  BY SenderParts, HorizonAssumption DEF WireInv, TypeOK
<1>2. CASE UNCHANGED <<sender, wire, motion, now>>
  BY <1>1, <1>2, TurnKept
<1>3. CASE Clock
  <2>1. UNCHANGED <<sender, wire, motion>> /\ now' \in (now + 1)..Horizon
    BY <1>3 DEF Clock, Advance, output
  <2> QED
    BY <1>1, <2>1, HorizonAssumption, TurnKept
<1>4. CASE StartReporting \/ Backpressured \/ NothingDue \/ HandleSilently
           \/ (Console /\ ~NewLink) \/ UNCHANGED pathVars
           \/ \E r \in Requested : Refused(r) \/ Commit(r)
  <2>1. UNCHANGED <<sender, wire, motion, now>>
    BY <1>4 DEF StartReporting, Start, Backpressured, StepDue, NothingDue, StepNotDue,
                StepOverflow, HandleSilently, Console, AskAgain, Hear, Ask, Refused, Commit,
                pathVars, output, vars
  <2> QED
    BY <1>2, <2>1
<1>5. CASE NewLink
  <2>1. /\ sender' = [timer |-> 0, session |-> FreshSession] /\ wire' = NoWire /\ now' = now
    BY <1>5 DEF NewLink, Stop
  <2>2. sender'.session.imu_mode = 0 /\ sender'.session.imu.previous_report = -1
    BY <2>1 DEF FreshSession, IdentityState, NoReport
  <2>3. OrientationIsShown'
    BY <2>1 DEF OrientationIsShown, NoWire
  <2> QED
    BY <1>1, <2>1, <2>2, <2>3 DEF TurnInv
<1>6. ASSUME NEW ok \in BOOLEAN, ReportDue(ok) \/ SendNeutral(ok) PROVE TurnInv'
  <2>1. /\ now' = now
        /\ send_input(input, request, ok) \/ send_input(neutral, Rest, ok)
    BY <1>6 DEF ReportDue, StepDue, SendNeutral, vars
  <2> QED
    BY <1>1, <2>1, NeutralInState, InputTurns
<1>7. ASSUME NEW r \in Requested, NEW ok \in BOOLEAN, CommitAndSend(r, ok) PROVE TurnInv'
  <2>1. /\ now' = now /\ InState(Converted(r))
        /\ send_input(Converted(r), r, ok)
    BY <1>7, ConvertedInState DEF CommitAndSend, vars
  <2> QED
    BY <1>1, <2>1, InputTurns
<1>8. ASSUME NEW ok \in BOOLEAN, HandleAnswered(ok) PROVE TurnInv'
  BY <1>1, <1>8, AnswerTurns
<1> QED
  BY <1>3, <1>4, <1>5, <1>6, <1>7, <1>8 DEF PathNext, Device, Client, Console

\* Through every sequence of accepted and refused reports, whatever time passed
\* between them and whatever the console asks in between, a quaternion report
\* holds the rotation of the accepted ones, in components that fit.
THEOREM OrientationsAreShown == PathSpec => []OrientationIsShown
<1>1. PathInit => WireInv /\ TurnInv
  <2> SUFFICES ASSUME PathInit PROVE WireInv /\ TurnInv
    OBVIOUS
  <2>1. PICK s \in Setups : sender = [timer |-> 0, session |-> s.session]
    BY DEF PathInit
  <2>2. now = 0 /\ motion = MotionOf(sender.session.imu) /\ wire = NoWire
    BY DEF PathInit, Init
  <2>3. sender.session.imu.previous_report <= 0
    BY <2>1, PathAssumption
  <2>4. OrientationIsShown
    BY <2>2 DEF OrientationIsShown, NoWire
  <2>5. TurnInv
    BY <2>2, <2>3, <2>4 DEF TurnInv
  <2> QED
    BY <2>5, WireStart
<1>2. TypeOK /\ AckInv /\ WireInv /\ TurnInv /\ [PathNext]_pathVars => WireInv' /\ TurnInv'
  BY WireStep, TurnStep
<1>3. TurnInv => OrientationIsShown
  BY DEF TurnInv
<1> QED
  BY <1>1, <1>2, <1>3, PathSchedules, TypeIsCorrect, AckStart, AckStep, PTL DEF PathSpec
=============================================================================
