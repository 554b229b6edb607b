-------------------------- MODULE ControllerModels --------------------------
(***************************************************************************)
(* The declarations of crates/swbt-core/src/model/mod.rs: for each of the  *)
(* three controllers its buttons with their place in an input report, its  *)
(* sticks and the constants of its protocol answers.  Bytes are numbers,   *)
(* colors are triples of bytes and a 16-bit value stands for three equal   *)
(* axes.                                                                   *)
(***************************************************************************)
EXTENDS Integers, Sequences

\* ButtonKind::ALL: the logical code of a button is its place in this order.
ButtonKinds ==
    <<"A", "B", "X", "Y", "L", "R", "ZL", "ZR", "Plus", "Minus", "Home",
      "Capture", "LeftStick", "RightStick", "SL", "SR",
      "DpadUp", "DpadDown", "DpadLeft", "DpadRight">>

\* ModelProtocolSpec::new: what the controllers have in common.
Protocol(device_type, tail, triggers, colors) ==
    [device_type |-> device_type, device_info_tail |-> tail,
     pairing_trigger_buttons |-> triggers, default_colors |-> colors,
     battery_connection |-> 128, vibrator_input |-> 0,
     accepted_imu_modes |-> 0..5,
     accelerometer |-> [zero_raw |-> 0, reference_raw |-> 16384],
     gyroscope |-> [zero_raw |-> 0, reference_raw |-> 13371]]

Grey == <<50, 50, 50>>
White == <<255, 255, 255>>
Blue == <<0, 178, 255>>
Red == <<255, 59, 48>>

\* ButtonWirePosition: the byte of the report and the mask in it.
At(byte_index, mask) == [byte_index |-> byte_index, mask |-> mask]

Pro ==
    [kind |-> "Pro", sticks |-> {"left", "right"},
     protocol |-> Protocol(3, <<3, 2>>, <<"L", "R">>, <<Grey, White, Blue, Red>>),
     wire |-> [A |-> At(3, 8), B |-> At(3, 4), X |-> At(3, 2), Y |-> At(3, 1),
               L |-> At(5, 64), R |-> At(3, 64), ZL |-> At(5, 128),
               ZR |-> At(3, 128), Plus |-> At(4, 2), Minus |-> At(4, 1),
               Home |-> At(4, 16), Capture |-> At(4, 32),
               LeftStick |-> At(4, 8), RightStick |-> At(4, 4),
               DpadUp |-> At(5, 2), DpadDown |-> At(5, 1),
               DpadLeft |-> At(5, 8), DpadRight |-> At(5, 4)]]

JoyConL ==
    [kind |-> "JoyConL", sticks |-> {"left"},
     protocol |-> Protocol(1, <<1, 1>>, <<"SL", "SR">>, <<Blue, Grey, Blue, Blue>>),
     wire |-> [L |-> At(5, 64), ZL |-> At(5, 128), Minus |-> At(4, 1),
               Capture |-> At(4, 32), LeftStick |-> At(4, 8), SL |-> At(5, 32),
               SR |-> At(5, 16), DpadUp |-> At(5, 2), DpadDown |-> At(5, 1),
               DpadLeft |-> At(5, 8), DpadRight |-> At(5, 4)]]

JoyConR ==
    [kind |-> "JoyConR", sticks |-> {"right"},
     protocol |-> Protocol(2, <<1, 1>>, <<"SL", "SR">>, <<Red, Grey, Red, Red>>),
     wire |-> [A |-> At(3, 8), B |-> At(3, 4), X |-> At(3, 2), Y |-> At(3, 1),
               R |-> At(3, 64), ZR |-> At(3, 128), Plus |-> At(4, 2),
               Home |-> At(4, 16), RightStick |-> At(4, 4),
               SL |-> At(3, 32), SR |-> At(3, 16)]]

\* ControllerKind::ALL
Models == {Pro, JoyConL, JoyConR}

\* ModelSpec::supports_button
supports_button(model, button) == button \in DOMAIN model.wire

\* ModelSpec::button_wire_position, of a supported button
button_wire_position(model, button) == model.wire[button]
=============================================================================
