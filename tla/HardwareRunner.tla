--------------------------- MODULE HardwareRunner ---------------------------
(* The hardware runner: one scenario of three, chosen by its first argument. *)
EXTENDS HardwareSupport

JoyCon == INSTANCE JoyConProfile
Profile == INSTANCE ProProfile
Periodic == INSTANCE ProPeriodic

Scenarios == {"pro-periodic", "pro-profile", "joycon-profile"}

\* The scenario and its arguments, help, or no command.
parse_command(arguments) ==
    IF arguments = <<>> THEN [of |-> "none"]
    ELSE IF Head(arguments) \in {"help", "--help", "-h"} /\ Tail(arguments) = <<>>
    THEN [of |-> "help"]
    ELSE IF Head(arguments) \in Scenarios
    THEN [of |-> Head(arguments), arguments |-> Tail(arguments)]
    ELSE [of |-> "none"]

parse_args(command) ==
    CASE command.of = "joycon-profile" -> JoyCon!parse_args(command.arguments)
      [] command.of = "pro-profile" -> Profile!parse_args(command.arguments)
      [] command.of = "pro-periodic" -> Periodic!parse_args(command.arguments)

Exits(code) == tool' = [Idle EXCEPT !.at = "done", !.exit = code]

\* Help and usage are written, or the exit says that they could not be.
write(code) == Exits(code) \/ Exits(1)

\* A scenario that cannot read its arguments ends before it touches anything.
run(arguments) ==
    /\ tool.at = "shell" /\ UNCHANGED world
    /\ LET command == parse_command(arguments)
       IN  CASE command.of = "help" -> write(0)
             [] command.of = "none" -> write(2)
             [] OTHER -> IF IsUsage(parse_args(command)) THEN Exits(2)
                         ELSE tool' = [Idle EXCEPT !.job = parse_args(command), !.at = "start"]

run_hardware == JoyCon!run_hardware \/ Profile!run_hardware \/ Periodic!run_hardware
=============================================================================
