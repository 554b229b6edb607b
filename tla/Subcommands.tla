----------------------------- MODULE Subcommands -----------------------------
(***************************************************************************)
(* What the console asks and what the controller answers: the parser of    *)
(* output reports, the protocol session, the virtual SPI flash and the     *)
(* preparation of subcommand replies of crates/swbt-core/src/protocol.     *)
(* Preparing changes nothing: a reply carries the session it establishes   *)
(* once the transport accepted it.                                         *)
(***************************************************************************)
EXTENDS InputReports

CONSTANTS DeviceAddress    \* the Bluetooth address of the device, six bytes

ASSUME DeviceAddressAssumption == DeviceAddress \in Seq(0..255) /\ Len(DeviceAddress) = 6

Ok(value) == [ok |-> TRUE, value |-> value]
Err(error) == [ok |-> FALSE, value |-> error]

-----------------------------------------------------------------------------
(* output_report.rs *)

\* require_length with the minimum of each report id, then the payload.
require_length(raw, minimum) == Len(raw) >= minimum

parse_subcommand_report(raw) ==
    IF require_length(raw, 11)
    THEN Ok([kind |-> "subcommand", packet_id |-> raw[2],
             rumble |-> SubSeq(raw, 3, 10), id |-> raw[11],
             payload |-> SubSeq(raw, 12, Len(raw))])
    ELSE Err("TruncatedOutputReport")

parse_rumble_report(raw) ==
    IF require_length(raw, 10)
    THEN Ok([kind |-> "rumble", packet_id |-> raw[2], rumble |-> SubSeq(raw, 3, 10)])
    ELSE Err("TruncatedOutputReport")

parse_output_report(raw) ==
    CASE raw = <<>> -> Err("OutputReportEmpty")
      [] raw # <<>> /\ raw[1] = 1 -> parse_subcommand_report(raw)
      [] raw # <<>> /\ raw[1] = 16 -> parse_rumble_report(raw)
      [] OTHER -> Err("UnsupportedOutputReport")

-----------------------------------------------------------------------------
(* session.rs: a mode other than 0x30 is remembered as unsupported. *)

None == -1
FreshSession ==
    [report_mode |-> None, player_lights |-> None, imu_mode |-> 0,
     imu |-> IdentityState, vibration_enabled |-> FALSE]

report_mode_supported(session) == session.report_mode = 48
protocol_ready(session) ==
    report_mode_supported(session) /\ session.player_lights \notin {None, 0}

with_report_mode(session, requested) == [session EXCEPT !.report_mode = requested]
with_player_lights(session, lights) == [session EXCEPT !.player_lights = lights]
KeepOrientation(session, mode) == [session EXCEPT !.imu_mode = mode]
with_imu_mode(session, mode) ==
    [session EXCEPT !.imu_mode = mode, !.imu = IdentityState]
with_imu_encoding_state(session, state) == [session EXCEPT !.imu = state]
with_vibration_enabled(session, enabled) ==
    [session EXCEPT !.vibration_enabled = enabled]

-----------------------------------------------------------------------------
(* spi.rs *)

MAX_READ_SIZE == 29
AddressLimit == 524288
Erased == 255

\* calibration_byte: three zero values, then three reference values.
calibration_byte(calibration, offset) ==
    LET value == IF offset \div 2 < 3 THEN calibration.zero_raw
                                     ELSE calibration.reference_raw
    IN  IF offset % 2 = 0 THEN value % 256 ELSE value \div 256

\* ControllerColors::to_spi_bytes
to_spi_bytes(colors) == colors[1] \o colors[2] \o colors[3] \o colors[4]

\* VirtualSpiFlash::byte_at
byte_at(model, colors, address) ==
    LET protocol == model.protocol
    IN  CASE address = 24594 -> protocol.device_type
          [] address = 24603 -> 1
          [] address \in 24608..24619 ->
                calibration_byte(protocol.accelerometer, address - 24608)
          [] address \in 24620..24631 ->
                calibration_byte(protocol.gyroscope, address - 24620)
          [] address \in 24656..24667 -> to_spi_bytes(colors)[address - 24656 + 1]
          [] OTHER -> Erased

\* VirtualSpiFlash::read; the variant looks at the first address only.
StartInside(address, size) == address < AddressLimit
Inside(address, size) == address + size <= AddressLimit
read(model, colors, address, size) ==
    CASE size > MAX_READ_SIZE -> Err("SpiReadTooLarge")
      [] size <= MAX_READ_SIZE /\ ~Inside(address, size) ->
            Err("SpiAddressOutOfRange")
      [] OTHER -> Ok([i \in 1..size |-> byte_at(model, colors, address + i - 1)])

-----------------------------------------------------------------------------
(* subcommand.rs: a prepared reply is [bytes, next session]. *)

Zeros(n) == [i \in 1..n |-> 0]
Padded(data, n) == data \o Zeros(n - Len(data))

\* prepare_0x21: the first 13 bytes of an input report, then ack, id and data.
ReplyId == 33
prepare_0x21(model, state, timer, session, id, ack, data) ==
    IF Len(data) > 35
    THEN Err("SubcommandReplyDataTooLarge")
    ELSE Ok([bytes |-> <<ReplyId>>
                       \o SubSeq(encode_0x30(model, state, timer, {}), 2, 13)
                       \o <<ack, id>> \o Padded(data, 35),
             session |-> session])

device_info_data(model) ==
    <<4, 0, model.protocol.device_type, 2>> \o DeviceAddress
    \o model.protocol.device_info_tail

\* trigger_elapsed_offset, and 300 ticks at each pairing trigger
TriggerOffsets ==
    [L |-> 0, R |-> 2, ZL |-> 4, ZR |-> 6, SL |-> 8, SR |-> 10, Home |-> 12]
trigger_elapsed_data(model) ==
    LET pressed == {TriggerOffsets[model.protocol.pairing_trigger_buttons[i]] :
                        i \in 1..Len(model.protocol.pairing_trigger_buttons)}
    IN  [i \in 1..14 |-> CASE i - 1 \in pressed -> 44
                           [] i - 2 \in pressed -> 1
                           [] OTHER -> 0]

MCU_CONFIG_DATA == <<1, 0, 255, 0, 8, 0, 27, 1>> \o Zeros(25) \o <<200>>

\* try_prepare_stateless_reply, for the ids it answers
Stateless == {2, 4, 8, 33, 34}
try_prepare_stateless_reply(model, state, timer, session, request) ==
    LET reply(ack, data) ==
            prepare_0x21(model, state, timer, session, request.id, ack, data)
    IN  CASE request.id = 2 -> reply(130, device_info_data(model))
          [] request.id = 4 -> reply(131, trigger_elapsed_data(model))
          [] request.id = 8 -> reply(128, <<>>)
          [] request.id = 33 -> reply(160, MCU_CONFIG_DATA)
          [] request.id = 34 ->
                IF request.payload = <<>> THEN Err("MissingSubcommandArgument")
                ELSE IF request.payload[1] \notin 0..2 THEN Err("InvalidNfcIrMcuState")
                ELSE reply(128, <<>>)

\* try_prepare_spi_reply: the data echoes address and size.
SpiRead == 16
SpiAddress(payload) ==
    payload[1] + 256 * payload[2] + 65536 * payload[3] + 16777216 * payload[4]
try_prepare_spi_reply(model, colors, state, timer, session, request) ==
    LET payload == request.payload
        found == read(model, colors, SpiAddress(payload), payload[5])
    IN  IF Len(payload) < 5 THEN Err("TruncatedSpiReadRequest")
        ELSE IF ~found.ok THEN found
        ELSE prepare_0x21(model, state, timer, session, request.id, 144,
                          SubSeq(payload, 1, 5) \o found.value)

\* try_prepare_stateful_reply, for the ids it answers: the session the request
\* asks for, and the reply that acknowledges it.
Stateful == {3, 48, 64, 72}
NextSession(model, session, id, requested) ==
    CASE id = 3 -> Ok(with_report_mode(session, requested))
      [] id = 48 -> Ok(with_player_lights(session, requested))
      [] id = 64 -> IF requested \in model.protocol.accepted_imu_modes
                    THEN Ok(with_imu_mode(session, requested))
                    ELSE Err("UnsupportedImuMode")
      [] id = 72 -> IF requested \in {0, 1}
                    THEN Ok(with_vibration_enabled(session, requested = 1))
                    ELSE Err("InvalidVibrationValue")

try_prepare_stateful_reply(model, state, timer, session, request) ==
    IF request.payload = <<>> THEN Err("MissingSubcommandArgument")
    ELSE LET next == NextSession(model, session, request.id, request.payload[1])
         IN  IF ~next.ok THEN next
             ELSE prepare_0x21(model, state, timer, next.value, request.id, 128, <<>>)

\* SwitchHidProtocol::prepare_subcommand
prepare_subcommand(model, colors, request, state, timer, session) ==
    CASE request.id \in Stateless ->
            try_prepare_stateless_reply(model, state, timer, session, request)
      [] request.id = SpiRead ->
            try_prepare_spi_reply(model, colors, state, timer, session, request)
      [] request.id \in Stateful ->
            try_prepare_stateful_reply(model, state, timer, session, request)
      [] OTHER -> Err("UnsupportedSubcommand")

\* SwitchHidProtocol::prepare_input_report
prepare_input_report(model, state, timer, session, now) ==
    LET imu == encode_imu_block(session.imu, session.imu_mode, state.frames, now)
    IN  [bytes |-> encode_0x30(model, state, timer, imu.block),
         session |-> with_imu_encoding_state(session, imu.next_state)]
=============================================================================
