----------------------------- MODULE ReportPath -----------------------------
(***************************************************************************)
(* From an input value to the bytes the console reads, and back from its   *)
(* requests to the protocol session: the Periodic policy with its          *)
(* scheduler, the report sender, the output handler and the Switch         *)
(* protocol, composed with a console that asks for settings, repeats what  *)
(* is not answered and believes what was acknowledged.                     *)
(*                                                                         *)
(* The transport refuses any send (`ok` FALSE); the channels to and from   *)
(* the console are reliable and in order while the link lasts.             *)
(***************************************************************************)
EXTENDS SchedulerMachine, Subcommands

CONSTANTS
    Setups,          \* controller models with the session a console set up
    Colors,          \* the colors of the profile
    Requested,       \* the inputs a client may ask for
    OutputReports,   \* the output reports the console may send
    Plain,           \* those that use up MaxWork, a bound for TLC
    ReplyHoldoff,    \* REPLY_HOLDOFF
    TimerModulus,    \* 256: the report timer is a u8
    MaxWork          \* bound on sends, commits, requests and links together

\* ProtocolSession
SessionType ==
    [report_mode : Int, player_lights : Int, imu_mode : Int,
     imu : [orientation : Int, previous_report : Int], vibration_enabled : BOOLEAN]

\* What the types of an input let a client ask for: axes as f32 or u16, a
\* direction with one amount, one motion sample or three.
StickType ==
    [how : {"tilt"}, x : Int, y : Int] \cup [how : {"raw"}, x : Nat, y : Nat]
    \cup [how : {"up", "down"}, x : {0}, y : Int]
    \cup [how : {"left", "right"}, x : Int, y : {0}]
Typed(r) ==
    /\ r.left \in StickType /\ r.right \in StickType
    /\ r.motion \in Seq([rate : Int, accel : Int]) /\ Len(r.motion) \in {1, 3}

\* A session already set up has reported no later than the instant 0 the clock
\* starts at: the next delta is not negative.
ASSUME PathAssumption ==
    /\ \A r \in Requested : Typed(r)
    /\ \A s \in Setups : /\ s.model \in Models /\ s.session \in SessionType
                         /\ s.session.imu.previous_report <= 0
    /\ OutputReports \subseteq Seq(0..255)
    /\ Colors \in Seq(Seq(0..255)) /\ Len(Colors) = 4 /\ \A i \in 1..4 : Len(Colors[i]) = 3
    /\ Plain \subseteq OutputReports
    /\ ReplyHoldoff \in Nat
    /\ TimerModulus \in 1..256
    /\ MaxWork \in Nat

VARIABLES
    model,      \* the controller model, fixed for the run
    request,    \* the input the client asked for last
    input,      \* InputStateStore.committed
    sender,     \* SenderCommit
    holdoff,    \* PeriodicPolicy.reply_holdoff_until, 0 for None
    toDevice, toHost,    \* output reports and replies on their way
    host,       \* the settings the console believes in
    asked,      \* the output report it waits for the answer of
    wire,       \* the latest accepted report, and what it was made from
    motion,     \* the orientation an observer of the reports adds up
    budget      \* what is left of MaxWork

console == <<toDevice, toHost, host, asked>>
output == <<sender, wire, motion>>
pathVars == <<vars, model, request, input, holdoff, console, output, budget>>

-----------------------------------------------------------------------------
(* Requests of the client *)

\* A request is physical: [buttons, left, right, motion]; Button::try_from and
\* the conversions of sticks and samples can each refuse it.
Frame(sample) == with_accel_g(gyro_rate(sample.rate), sample.accel)
Stick(s) ==
    CASE s.how = "tilt" -> normalized(s.x, s.y)
      [] s.how = "raw" -> raw_stick(s.x, s.y)
      [] s.how = "up" -> up(s.y)
      [] s.how = "down" -> down(-s.y)
      [] s.how = "left" -> left(-s.x)
      [] s.how = "right" -> right(s.x)
AtRest == [how |-> "tilt", x |-> 0, y |-> 0]
Convertible(r) ==
    /\ \A b \in r.buttons : supports_button(model, b)
    /\ "left" \notin model.sticks => r.left = AtRest
    /\ "right" \notin model.sticks => r.right = AtRest
    /\ Failed \notin {Stick(r.left).x, Stick(r.left).y,
                      Stick(r.right).x, Stick(r.right).y}
    /\ \A i \in 1..Len(r.motion) :
          Failed \notin {Frame(r.motion[i]).gyro, Frame(r.motion[i]).accel}
Converted(r) ==
    with_imu(with_right_stick(with_left_stick(with_buttons(neutral, r.buttons),
                                              Stick(r.left)), Stick(r.right)),
             [i \in 1..Len(r.motion) |-> Frame(r.motion[i])])
Rest == [buttons |-> {}, left |-> AtRest, right |-> AtRest,
         motion |-> <<[rate |-> 0, accel |-> 0]>>]

-----------------------------------------------------------------------------
(* ReportSender *)

NoWire == [kind |-> "none", bytes |-> <<>>, of |-> Rest, mode |-> 0,
           payload |-> <<>>]
StillMotion == [turned |-> 0, since |-> NoReport]
MotionOf(imu) == [turned |-> imu.orientation, since |-> imu.previous_report]
UnwrappedTimer == sender.timer + 1
NextTimer == (sender.timer + 1) % TimerModulus

\* The observer: an accepted quaternion report turns by the rates it was made
\* from over the time since the report before; anything that leaves or sets the
\* IMU mode starts over.
Observe(mode, frames) ==
    IF mode < 2 THEN StillMotion
    ELSE [turned |-> motion.turned
             + (IF motion.since = NoReport THEN 0
                ELSE TotalRate(frames) * (now - motion.since)),
          since |-> now]

\* CommitSender: the timer and the session of a prepared report are committed
\* when the transport accepts it; the variant commits the session regardless.
EagerSender(ok, session) ==
    [timer |-> IF ok THEN NextTimer ELSE sender.timer, session |-> session]
CommitSender(ok, session) ==
    IF ok THEN [timer |-> NextTimer, session |-> session] ELSE sender

\* send_input and send_candidate
send_input(state, of, ok) ==
    LET prepared == prepare_input_report(model, state, sender.timer, sender.session, now)
    IN  /\ sender' = CommitSender(ok, prepared.session)
        /\ IF ok
           THEN /\ wire' = [kind |-> "input", bytes |-> prepared.bytes, of |-> of,
                            mode |-> sender.session.imu_mode, payload |-> <<>>]
                /\ motion' = Observe(sender.session.imu_mode, state.frames)
           ELSE UNCHANGED <<wire, motion>>

Cost(n) == budget >= n /\ budget' = budget - n
Work == Cost(1)
WorkIf(ok) == IF ok THEN Work ELSE UNCHANGED budget

-----------------------------------------------------------------------------
(* The Periodic policy *)

\* PeriodicPolicy: next_deadline and send_due look at the holdoff first.
Unheld == now >= holdoff

\* start_when_unheld
StartReporting ==
    /\ report_mode_supported(sender.session)
    /\ Unheld
    /\ Start
    /\ UNCHANGED <<model, request, input, holdoff, console, output, budget>>

\* send_due: the deadline is consumed whether the report can leave or not.
ReportDue(ok) ==
    /\ Unheld /\ StepDue /\ WorkIf(ok)
    /\ send_input(input, request, ok)
    /\ UNCHANGED <<model, request, input, holdoff, console>>

Backpressured ==
    /\ Unheld /\ StepDue
    /\ UNCHANGED <<model, request, input, holdoff, console, output, budget>>

NothingDue ==
    /\ Unheld /\ (StepNotDue \/ StepOverflow)
    /\ UNCHANGED <<model, request, input, holdoff, console, output, budget>>

Clock ==
    /\ Advance
    /\ UNCHANGED <<model, request, input, holdoff, console, output, budget>>

-----------------------------------------------------------------------------
(* Input *)

\* A refused conversion reaches no command.
Refused(r) == ~Convertible(r) /\ UNCHANGED pathVars

\* An input command commits locally; the next automatic report shows it.
Commit(r) ==
    /\ Convertible(r) /\ Work
    /\ request' = r /\ input' = Converted(r)
    /\ UNCHANGED <<vars, model, holdoff, console, output>>

\* commit_and_send_candidate: a tap commits, then sends at once.
CommitAndSend(r, ok) ==
    /\ Convertible(r) /\ Work
    /\ request' = r /\ input' = Converted(r)
    /\ send_input(Converted(r), r, ok)
    /\ UNCHANGED <<vars, model, holdoff, console>>

\* The bootstrap report of the handshake and the last report of a close.
SendNeutral(ok) ==
    /\ WorkIf(ok)
    /\ send_input(neutral, Rest, ok)
    /\ UNCHANGED <<vars, model, request, input, holdoff, console>>

-----------------------------------------------------------------------------
(* Output reports *)

\* prepare_reply: the reply shows the input only once the protocol is ready.
ReplyState == IF protocol_ready(sender.session) THEN input ELSE neutral

\* The settings an acknowledged request makes the console believe in.
Settings(session) ==
    [report_mode |-> session.report_mode, player_lights |-> session.player_lights,
     imu_mode |-> session.imu_mode, vibration_enabled |-> session.vibration_enabled]
Acknowledged(settings, raw) ==
    CASE raw[11] = 3 -> [settings EXCEPT !.report_mode = raw[12]]
      [] raw[11] = 48 -> [settings EXCEPT !.player_lights = raw[12]]
      [] raw[11] = 64 -> [settings EXCEPT !.imu_mode = raw[12]]
      [] raw[11] = 72 -> [settings EXCEPT !.vibration_enabled = raw[12] = 1]
      [] OTHER -> settings

\* handle_output of a report that is not answered: it cannot be parsed, has no
\* subcommand, or its reply cannot be prepared.
Answer(raw) ==
    LET parsed == parse_output_report(raw)
    IN  IF ~parsed.ok THEN parsed
        ELSE IF parsed.value.kind = "rumble" THEN Err("RumbleOnly")
        ELSE prepare_subcommand(model, Colors, parsed.value, ReplyState,
                                sender.timer, sender.session)

HandleSilently ==
    /\ toDevice # <<>> /\ ~Answer(Head(toDevice)).ok
    /\ toDevice' = Tail(toDevice)
    /\ UNCHANGED <<vars, model, request, input, holdoff, toHost, host, asked,
                   output, budget>>

\* send_reply commits the session of the reply with its timer once it was
\* accepted, and record_output_completion extends the holdoff.
HandleAnswered(ok) ==
    /\ toDevice # <<>> /\ Answer(Head(toDevice)).ok
    /\ toDevice' = Tail(toDevice)
    /\ LET reply == Answer(Head(toDevice)).value
       IN  /\ sender' = CommitSender(ok, reply.session)
           /\ IF ok
              THEN
                /\ wire' = [kind |-> "reply", bytes |-> reply.bytes,
                            of |-> IF protocol_ready(sender.session) THEN request ELSE Rest,
                            mode |-> sender.session.imu_mode,
                            payload |-> SubSeq(Head(toDevice), 12, Len(Head(toDevice)))]
                /\ motion' = IF Head(toDevice)[11] = 64 THEN StillMotion ELSE motion
                /\ toHost' = Append(toHost, reply.bytes[15])
                /\ holdoff' = IF holdoff > now + ReplyHoldoff THEN holdoff
                              ELSE now + ReplyHoldoff
              ELSE UNCHANGED <<wire, motion, toHost, holdoff>>
    /\ UNCHANGED <<vars, model, request, input, host, asked, budget>>

-----------------------------------------------------------------------------
(* The console *)

Quiet == toDevice = <<>> /\ toHost = <<>>
NotAsked == <<>>

Ask(raw) ==
    /\ Quiet /\ Cost(IF raw \in Plain THEN MaxWork ELSE 1)
    /\ asked' = raw /\ toDevice' = <<raw>>
    /\ UNCHANGED <<vars, model, request, input, holdoff, toHost, host, output>>

\* It repeats a request it has no answer to, perhaps too early.
AskAgain ==
    /\ asked # NotAsked /\ toDevice = <<>> /\ Work
    /\ toDevice' = <<asked>>
    /\ UNCHANGED <<vars, model, request, input, holdoff, toHost, host, asked, output>>

Hear ==
    /\ toHost # <<>>
    /\ toHost' = Tail(toHost)
    /\ IF Len(asked) >= 12 /\ asked[11] = Head(toHost)
       THEN host' = Acknowledged(host, asked) /\ asked' = NotAsked
       ELSE UNCHANGED <<host, asked>>
    /\ UNCHANGED <<vars, model, request, input, holdoff, toDevice, output, budget>>

\* A new link starts a new session: ReportSender and PeriodicPolicy
\* reset_for_new_session, and neutral input.
NewLink ==
    /\ Work
    /\ Stop /\ holdoff' = 0
    /\ sender' = [timer |-> 0, session |-> FreshSession]
    /\ request' = Rest /\ input' = neutral
    /\ host' = Settings(FreshSession)
    /\ asked' = NotAsked /\ toDevice' = <<>> /\ toHost' = <<>>
    /\ wire' = NoWire /\ motion' = StillMotion
    /\ UNCHANGED model

-----------------------------------------------------------------------------
PathInit ==
    /\ Init
    /\ request = Rest /\ input = neutral /\ holdoff = 0
    /\ \E s \in Setups : /\ model = s.model
                         /\ sender = [timer |-> 0, session |-> s.session]
                         /\ host = Settings(s.session)
    /\ toDevice = <<>> /\ toHost = <<>> /\ asked = NotAsked
    /\ wire = NoWire /\ motion = MotionOf(sender.session.imu)
    /\ budget = MaxWork

Device ==
    \/ StartReporting \/ Backpressured \/ NothingDue \/ HandleSilently
    \/ \E ok \in BOOLEAN : ReportDue(ok) \/ SendNeutral(ok) \/ HandleAnswered(ok)

Client ==
    \E r \in Requested :
        Refused(r) \/ Commit(r) \/ \E ok \in BOOLEAN : CommitAndSend(r, ok)

Console == AskAgain \/ Hear \/ NewLink \/ \E raw \in OutputReports : Ask(raw)

PathNext == Clock \/ Device \/ Client \/ Console

PathSpec == PathInit /\ [][PathNext]_pathVars

-----------------------------------------------------------------------------
(* Properties *)

PathTypeOK ==
    /\ TypeOK
    /\ model \in Models
    /\ sender \in [timer : 0..(TimerModulus - 1), session : SessionType]
    /\ holdoff \in Nat
    /\ host \in [report_mode : Int, player_lights : Int, imu_mode : Int,
                 vibration_enabled : BOOLEAN]
    /\ toDevice \in Seq(OutputReports) /\ asked \in OutputReports \cup {NotAsked}
    /\ \A i \in 1..Len(wire.bytes) : wire.bytes[i] \in 0..255

\* The automatic report keeps its phase over sessions that start and stop it,
\* and is never late by more than a period after it was decided on.
Punctual == PhaseKept /\ OnTime

\* And two automatic reports are never closer than the period allows, whatever
\* was skipped: a late loop does not catch up.
Paced == [][Punctual']_pathVars /\ NoBurst

\* The layout the console reads: bytes 3 to 5, least significant bit first.
HostLayout ==
    <<<<"Y", "X", "B", "A", "SR", "SL", "R", "ZR">>,
      <<"Minus", "Plus", "RightStick", "LeftStick", "Home", "Capture", "-", "-">>,
      <<"DpadDown", "DpadUp", "DpadRight", "DpadLeft", "SR", "SL", "L", "ZL">>>>
HostBits(bytes) == {p \in (1..3) \X (1..8) : Bit(bytes[p[1] + 3], p[2] - 1) = 1}
HostStick(bytes, i) ==
    [x |-> bytes[i] + 256 * (bytes[i + 1] % 16), y |-> bytes[i + 1] \div 16 + 16 * bytes[i + 2]]

\* A raw axis shows what was meant to half a step, and full deflection exactly.
Shows(raw, v, how) ==
    IF how = "raw" THEN raw = v
    ELSE LET reach == IF v < 0 THEN 2048 ELSE 2047
         IN  Magnitude(StickUnit * (raw - 2048) - v * reach) * 2 <= StickUnit
ShowsStick(stick, meant) ==
    Shows(stick.x, meant.x, meant.how) /\ Shows(stick.y, meant.y, meant.how)

Signed(v, width) == IF v >= 2^(width - 1) THEN v - 2^width ELSE v
\* The IMU bytes begin at index 14, their bits are counted from the least
\* significant of the first.
Word(bytes, offset) == Signed(bytes[14 + offset] + 256 * bytes[15 + offset], 16)
ImuBit(bytes, p) == Bit(bytes[14 + (p \div 8)], p % 8)
ShowsBits(bytes, start, width, v) ==
    \A b \in 0..(width - 1) : ImuBit(bytes, start + b) = 1 <=> Bit(v, b) = 1
Sample(r, f) == IF Len(r.motion) = 1 THEN r.motion[1] ELSE r.motion[f + 1]
ShowsAccel(bytes, r) ==
    \A f \in Frames, a \in Axes :
        Magnitude(2 * Word(bytes, 12 * f + 2 * a) - Sample(r, f).accel) <= 1
ShowsGyro(bytes, r) ==
    \A f \in Frames, a \in Axes :
        LET rate == IF a = Axis - 1 THEN Sample(r, f).rate ELSE 0
        IN  Magnitude(70 * Word(bytes, 12 * f + 6 + 2 * a) - rate) <= 35

\* What the console decodes from any accepted report is the input that was
\* asked for in physical terms when the report was made, on every controller:
\* exactly its buttons, its sticks to half a step, in a standard IMU report
\* also the motion, and in a reply before the protocol is ready nothing.
ReportsDecode ==
    wire.kind # "none" =>
        /\ {HostLayout[p[1]][p[2]] : p \in HostBits(wire.bytes)} = wire.of.buttons
        /\ \A p, q \in HostBits(wire.bytes) : p[1] = q[1] \/ HostLayout[p[1]][p[2]] # HostLayout[q[1]][q[2]]
        /\ ShowsStick(HostStick(wire.bytes, 7), wire.of.left)
        /\ ShowsStick(HostStick(wire.bytes, 10), wire.of.right)
        /\ wire.kind = "input" =>
              /\ Len(wire.bytes) = 49
              /\ wire.mode >= 1 => ShowsAccel(wire.bytes, wire.of)
              /\ wire.mode = 1 => ShowsGyro(wire.bytes, wire.of)
              /\ wire.mode = 0 => \A i \in 14..49 : wire.bytes[i] = 0

\* The fields of a quaternion: the index of the component left out, then the
\* others in a cycle from it, the last one in two parts.
ShowsTurn(bytes, turned, timestamp) ==
    LET shows(start, width, v) == ShowsBits(bytes, start, width, v)
        q == Quaternion(turned)
    IN  /\ shows(48, 2, 2) /\ shows(282, 6, 3) /\ shows(271, 11, timestamp)
        /\ \E omitted \in 0..3, flip \in {1, -1} :
              LET sent(i) == (q[(omitted + i) % 4] * flip) \div 1024
              IN  /\ \A i \in 0..3 : Magnitude(q[i]) <= q[omitted] * flip
                  /\ \A i \in 1..3 : -1048576 <= sent(i) /\ sent(i) < 1048576
                  /\ shows(50, 2, omitted)
                  /\ shows(52, 21, sent(1)) /\ shows(73, 21, sent(2))
                  /\ shows(94, 2, sent(3)) /\ shows(144, 19, sent(3) \div 4)

\* The orientation in a quaternion report is the rotation of all the accepted
\* reports since the console chose the mode, each over the time since the one
\* before it: a refused report loses no time, a new mode or a repeated request
\* for it starts over, and the largest component that is left out has the sign
\* the others were flipped for, which therefore fit their 21 bits.  Its time
\* stamp is the low 11 bits of the clock.
OrientationIsShown ==
    wire.kind = "input" /\ wire.mode >= 2 =>
        ShowsTurn(wire.bytes, motion.turned, motion.since * MsPerTick)

\* The device is set up as the console believes: however its requests were
\* refused, repeated or answered late, a setting differs from the belief only
\* by the one request that is unanswered, and by none once its reply is heard.
SettingsAreAcknowledged ==
    LET settings == Settings(sender.session)
    IN  /\ settings # host =>
              /\ asked # NotAsked /\ settings = Acknowledged(host, asked)
              /\ \E i \in 1..Len(toHost) : toHost[i] = asked[11]
        /\ asked = NotAsked => settings = host

\* The factory area of the flash as words and colors.
FactoryFlash ==
    LET low(v) == v % 256   high(v) == v \div 256
        words(c) == [i \in 1..12 |-> LET v == IF i <= 6 THEN c.zero_raw ELSE c.reference_raw
                                     IN  IF i % 2 = 1 THEN low(v) ELSE high(v)]
    IN  <<[at |-> 24594, bytes |-> <<model.protocol.device_type>>],
          [at |-> 24603, bytes |-> <<1>>],
          [at |-> 24608, bytes |-> words(model.protocol.accelerometer)
                                   \o words(model.protocol.gyroscope)],
          [at |-> 24656, bytes |-> Colors[1] \o Colors[2] \o Colors[3] \o Colors[4]]>>
FlashByte(a) ==
    LET hit == {i \in 1..Len(FactoryFlash) :
                    a \in FactoryFlash[i].at..(FactoryFlash[i].at + Len(FactoryFlash[i].bytes) - 1)}
    IN  IF hit = {} THEN 255
        ELSE LET i == CHOOSE j \in hit : TRUE
             IN  FactoryFlash[i].bytes[a - FactoryFlash[i].at + 1]

\* Every reply is one the console can use: 50 bytes with a positive
\* acknowledgement, a flash read that echoes its address and size and then
\* shows the flash, nothing of which lies outside it, and a device type that is
\* the same in the device information and in the flash.
RepliesAnswer ==
    wire.kind = "reply" =>
        LET id == wire.bytes[15]   size == wire.payload[5]
        IN  /\ Len(wire.bytes) = 50 /\ wire.bytes[14] >= 128
            /\ id = 16 =>
                  /\ SubSeq(wire.bytes, 16, 20) = SubSeq(wire.payload, 1, 5)
                  /\ SpiAddress(wire.payload) + size <= 524288 /\ size <= 29
                  /\ \A i \in 1..size :
                        wire.bytes[20 + i] = FlashByte(SpiAddress(wire.payload) + i - 1)
            /\ id = 2 => wire.bytes[18] = FlashByte(24594)
            /\ id = 4 => \E i \in 1..13 : wire.bytes[15 + i] + 256 * wire.bytes[16 + i] = 300
=============================================================================
