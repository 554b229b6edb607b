---------------------------- MODULE MCReportPath ----------------------------
(***************************************************************************)
(* ReportPath for TLC.  Stick axes come in eighths; the turning inputs     *)
(* rotate by 105 and by -315 degrees of half angle a second and one of     *)
(* them has three different samples; one request asks for a button the     *)
(* right Joy-Con does not have and one for more than a sample can hold.    *)
(***************************************************************************)
EXTENDS ReportPath

MCColors == <<<<1, 2, 3>>, <<4, 5, 6>>, <<7, 8, 9>>, <<10, 11, 12>>>>
MCAddress == <<160, 161, 162, 163, 164, 165>>

Tilt(x, y) == [how |-> "tilt", x |-> x, y |-> y]
Toward(how, x, y) == [how |-> how, x |-> x, y |-> y]
Turning(rate) == <<[rate |-> rate, accel |-> 8192]>>

MCRequested ==
    {[buttons |-> {"ZL", "Minus", "LeftStick", "DpadUp", "DpadLeft"},
      left |-> Tilt(-8, 3), right |-> AtRest, motion |-> Turning(210000)],
     [buttons |-> {"A", "Y", "ZR", "Home", "RightStick"},
      left |-> AtRest, right |-> Toward("up", 0, 8), motion |-> Turning(-630000)],
     [buttons |-> {"SR"}, left |-> AtRest, right |-> AtRest,
      motion |-> <<[rate |-> 630000, accel |-> -3], [rate |-> 210000, accel |-> 12345],
                   [rate |-> -210000, accel |-> 5]>>],
     [buttons |-> {"Capture", "L"}, left |-> Toward("left", -1, 0),
      right |-> Toward("down", 0, -5), motion |-> Turning(0)],
     [buttons |-> {}, left |-> Toward("right", 9, 0), right |-> AtRest,
      motion |-> Turning(0)],
     [buttons |-> {}, left |-> AtRest, right |-> Toward("raw", 4096, 256),
      motion |-> Turning(0)],
     [buttons |-> {}, left |-> AtRest, right |-> AtRest, motion |-> Turning(2293760)]}

Subcommand(id, payload) == <<1, 0, 0, 1, 64, 64, 0, 1, 64, 64, id>> \o payload
SpiRequest(low, size) == Subcommand(16, <<low % 256, low \div 256, 0, 0, size>>)

MCSettings ==
    {Subcommand(3, <<48>>), Subcommand(48, <<1>>), Subcommand(64, <<1>>),
     Subcommand(64, <<2>>)}
MCPlain ==
    {Subcommand(3, <<63>>), Subcommand(72, <<1>>), Subcommand(64, <<6>>), Subcommand(72, <<2>>), Subcommand(3, <<>>),
     Subcommand(2, <<>>), Subcommand(4, <<>>), Subcommand(8, <<>>),
     Subcommand(33, <<>>), Subcommand(34, <<0>>), Subcommand(34, <<3>>),
     Subcommand(34, <<>>), Subcommand(99, <<>>), Subcommand(16, <<18>>),
     SpiRequest(24590, 29), SpiRequest(24617, 29), SpiRequest(24655, 14),
     SpiRequest(24576, 30), Subcommand(16, <<255, 255, 7, 0, 1>>),
     Subcommand(16, <<255, 255, 7, 0, 2>>),
     <<16, 0, 0, 1, 64, 64, 0, 1, 64, 64>>, <<16, 0, 0>>, <<1, 0>>, <<18>>}
MCOutputReports == MCSettings \cup MCPlain

\* A console that has just connected, and three that chose report mode, lights
\* and an IMU mode and saw a quaternion report that had turned by 210 degrees.
Chosen(mode, imu) ==
    [FreshSession EXCEPT !.report_mode = 48, !.player_lights = 1,
                         !.imu_mode = mode, !.imu = imu]
Turned == [orientation |-> 18000, previous_report |-> 0]
MCSetups ==
    {[model |-> Pro, session |-> FreshSession],
     [model |-> Pro, session |-> Chosen(3, Turned)],
     [model |-> JoyConR, session |-> Chosen(2, Turned)],
     [model |-> JoyConL, session |-> Chosen(1, IdentityState)]}
=============================================================================
