---------------------------- MODULE InputReports ----------------------------
(***************************************************************************)
(* Controller input and its encoding: crates/swbt-core/src/input and the   *)
(* input_report.rs and imu.rs of its protocol module.  A report is the     *)
(* sequence of its bytes, whose first has index 1; the 36-byte IMU block   *)
(* is the set of the places of its one bits, as put_bits fills it.         *)
(*                                                                         *)
(* Floating-point values are integers in a fixed unit: a stick axis in     *)
(* 1/StickUnit, an acceleration in 1/8192 G (half a raw unit), a rotation  *)
(* rate in 1/1000 degree per second.  The controller turns about one of    *)
(* its axes only, so that the orientation is one angle and hamilton        *)
(* products add angles; sines are exact to 2^-30.                          *)
(***************************************************************************)
EXTENDS ControllerModels

CONSTANTS
    StickUnit,     \* 1.0 on a stick axis
    Axis,          \* the axis of rotation, 1..3
    MsPerTick      \* milliseconds in one unit of the clock

ASSUME StickUnitAssumption == StickUnit \in Nat \ {0}
ASSUME AxisAssumption == Axis \in 1..3
ASSUME MsPerTickAssumption == MsPerTick \in Nat \ {0}

-----------------------------------------------------------------------------
(* Values *)

\* ErrorKind::InvalidInput, as a number no conversion returns
Failed == 99999

\* f32::round_ties_even of n / d
round_ties_even(n, d) ==
    LET q == n \div d   r == n % d
    IN  IF 2 * r > d \/ (2 * r = d /\ q % 2 = 1) THEN q + 1 ELSE q

\* Stick::CENTER, MIN and MAX
Center == 2048
MinAxis == 0
MaxAxis == 4095

\* normalized_axis_to_raw and a variant with one distance for both directions
SymmetricAxis(v) == Center + round_ties_even(v * (Center - MinAxis), StickUnit)
normalized_axis_to_raw(v) ==
    LET distance == IF v < 0 THEN Center - MinAxis ELSE MaxAxis - Center
    IN  Center + round_ties_even(v * distance, StickUnit)

\* axis_input_to_raw
axis_input_to_raw(v, low, direction) ==
    IF v \in low..StickUnit THEN normalized_axis_to_raw(v * direction) ELSE Failed

center == [x |-> Center, y |-> Center]

\* Stick::normalized and Stick::tilt
normalized(x, y) ==
    [x |-> axis_input_to_raw(x, -StickUnit, 1), y |-> axis_input_to_raw(y, -StickUnit, 1)]

\* Stick::up, down, left and right
up(amount) == [x |-> Center, y |-> axis_input_to_raw(amount, 0, 1)]
down(amount) == [x |-> Center, y |-> axis_input_to_raw(amount, 0, -1)]
left(amount) == [x |-> axis_input_to_raw(amount, 0, -1), y |-> Center]
right(amount) == [x |-> axis_input_to_raw(amount, 0, 1), y |-> Center]

\* Stick::raw and validate_raw_axis
validate_raw_axis(v) == IF v <= MaxAxis THEN v ELSE Failed
raw_stick(x, y) == [x |-> validate_raw_axis(x), y |-> validate_raw_axis(y)]

\* rounded_i16
rounded_i16(n, d) ==
    LET rounded == round_ties_even(n, d)
    IN  IF rounded \in -32768..32767 THEN rounded ELSE Failed

\* gyro_rate_to_raw (0.070 degrees per second in a raw unit) and
\* acceleration_to_raw (4096 raw units in a G)
gyro_rate_to_raw(v) == rounded_i16(v, 70)
acceleration_to_raw(v) == rounded_i16(v, 2)

\* ImuFrame::neutral, and ImuFrame::gyro_rate with accel_g for the axes.
NeutralFrame == [accel |-> 0, gyro |-> 0]
gyro_rate(v) == [NeutralFrame EXCEPT !.gyro = gyro_rate_to_raw(v)]
with_accel_g(frame, v) == [frame EXCEPT !.accel = acceleration_to_raw(v)]

\* ImuSamples::into_frames: one frame repeated, or three in report order.
into_frames(samples) ==
    IF Len(samples) = 1 THEN <<samples[1], samples[1], samples[1]>> ELSE samples

\* InputState::neutral; a controller without a stick keeps it centered.
neutral ==
    [buttons |-> {}, left |-> center, right |-> center,
     frames |-> into_frames(<<NeutralFrame>>)]

with_buttons(state, buttons) == [state EXCEPT !.buttons = buttons]
with_left_stick(state, stick) == [state EXCEPT !.left = stick]
with_right_stick(state, stick) == [state EXCEPT !.right = stick]
with_imu(state, samples) == [state EXCEPT !.frames = into_frames(samples)]

-----------------------------------------------------------------------------
(* IMU blocks *)

Bit(value, b) == (value \div 2^b) % 2

put_bits(block, start, width, value) ==
    block \cup {start + b : b \in {c \in 0..(width - 1) : Bit(value, c) = 1}}

\* copy_from_slice of value.to_le_bytes() at a byte offset
put_word(block, offset, value) == put_bits(block, 8 * offset, 16, value)

Frames == 0..2
Axes == 0..2
Block(word(_, _)) == UNION {word(f, v) : f \in Frames, v \in 0..5}

\* The three axes of one frame.  Every axis shows the same acceleration.
accel(frame, axis) == frame.accel
gyro(frame, axis) == IF axis = Axis - 1 THEN frame.gyro ELSE 0

encode_standard_imu(frames) ==
    LET word(f, v) == put_word({}, f * 12 + v * 2,
                               IF v < 3 THEN accel(frames[f + 1], v)
                                        ELSE gyro(frames[f + 1], v - 3))
    IN  Block(word)

\* The orientation is a half angle.  Its unit is what a frame of raw rate 1
\* adds in one unit of the clock, 0.070 / 2 / 3 degrees a second, and the rates
\* are such that it comes in multiples of 9000 units a second: 105 degrees.
NoReport == -1
IdentityState == [orientation |-> 0, previous_report |-> NoReport]

QuarterSines ==
    <<0, 277904834, 536870912, 759250125, 929887697, 1037154959, 1073741824>>
QUATERNION_SCALE == QuarterSines[7]
Sine(step) ==
    LET s == step % 24
    IN  CASE s <= 6 -> QuarterSines[s + 1]
          [] s \in 7..12 -> QuarterSines[13 - s]
          [] s \in 13..18 -> -QuarterSines[s - 11]
          [] OTHER -> -QuarterSines[25 - s]

\* The quaternion [x, y, z, w] of an orientation, scaled.
HalfSteps(orientation) == (((orientation \div 9000) * MsPerTick) \div 1000) * 7
Quaternion(orientation) ==
    [i \in 0..3 |-> IF i = 3 THEN Sine(HalfSteps(orientation) + 6)
                    ELSE IF i = Axis - 1 THEN Sine(HalfSteps(orientation)) ELSE 0]

\* next_orientation over the frames of a report.
TotalRate(frames) == frames[1].gyro + frames[2].gyro + frames[3].gyro
next_orientation(orientation, frames, elapsed) ==
    orientation + TotalRate(frames) * elapsed

Magnitude(v) == IF v < 0 THEN -v ELSE v

\* pack_mode_2: the largest component is left out and made positive, the other
\* three follow it cyclically with 21 bits each, the third one split.
pack_mode_2(frames, orientation, timestamp_ms) ==
    LET q == Quaternion(orientation)
        max_index == CHOOSE i \in 0..3 :
                        /\ \A j \in 0..3 : Magnitude(q[j]) <= Magnitude(q[i])
                        /\ \A j \in 0..(i - 1) : Magnitude(q[j]) < Magnitude(q[i])
        sign == IF q[max_index] < 0 THEN -1 ELSE 1
        component(i) == (q[(max_index + i + 1) % 4] * sign) \div 1024
        accels == UNION {put_word({}, f * 12 + a * 2, accel(frames[f + 1], a)) :
                            f \in Frames, a \in Axes}
    IN  UNION {accels,
               put_bits({}, 48, 2, 2), put_bits({}, 50, 2, max_index),
               put_bits({}, 52, 21, component(0)),
               put_bits({}, 73, 21, component(1)),
               put_bits({}, 94, 2, component(2)),
               put_bits({}, 144, 19, component(2) \div 4),
               put_bits({}, 271, 11, timestamp_ms), put_bits({}, 282, 6, 3)}

\* encode_quaternion_imu at `now`: the first report of a mode has turned
\* through nothing yet.
encode_quaternion_imu(current, frames, now) ==
    LET previous == current.previous_report
        elapsed == IF previous = NoReport \/ now < previous THEN 0 ELSE now - previous
        orientation == next_orientation(current.orientation, frames, elapsed)
    IN  [block |-> pack_mode_2(frames, orientation, now * MsPerTick),
         next_state |-> [orientation |-> orientation, previous_report |-> now]]

\* encode_imu_block: ImuMode 0 is Disabled and 1 Standard.
encode_imu_block(current, mode, frames, now) ==
    CASE mode = 0 -> [block |-> {}, next_state |-> IdentityState]
      [] mode = 1 -> [block |-> encode_standard_imu(frames), next_state |-> IdentityState]
      [] OTHER -> encode_quaternion_imu(current, frames, now)

-----------------------------------------------------------------------------
(* Input reports *)

\* The byte whose bits, least significant first, are bit(0), bit(1), ...
Byte(bit(_)) ==
    bit(0) + 2 * bit(1) + 4 * bit(2) + 8 * bit(3)
    + 16 * bit(4) + 32 * bit(5) + 64 * bit(6) + 128 * bit(7)

BlockBytes(block) ==
    [i \in 1..36 |-> Byte(LAMBDA b : IF 8 * (i - 1) + b \in block THEN 1 ELSE 0)]

\* The masks of the pressed buttons in one byte; each has one bit.
ButtonByte(model, buttons, index) ==
    LET masks == {p.mask : p \in {q \in {button_wire_position(model, b) : b \in buttons} :
                                        q.byte_index = index}}
    IN  Byte(LAMBDA b : IF 2^b \in masks THEN 1 ELSE 0)

pack_stick(stick) ==
    <<stick.x % 256, ((stick.x \div 256) % 16) + (stick.y % 16) * 16, stick.y \div 16>>

ReportId == 48
encode_0x30(model, state, timer, block) ==
    <<ReportId, timer, model.protocol.battery_connection,
      ButtonByte(model, state.buttons, 3), ButtonByte(model, state.buttons, 4),
      ButtonByte(model, state.buttons, 5)>>
    \o pack_stick(state.left) \o pack_stick(state.right)
    \o <<model.protocol.vibrator_input>> \o BlockBytes(block)
=============================================================================
