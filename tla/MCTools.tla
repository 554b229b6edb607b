------------------------------ MODULE MCTools ------------------------------
EXTENDS Tools

MCPaths == {"p", "s", "t"}
Profile(model, namespaces, peers, key) == Content(model, namespaces, peers, key)
MCWritten == {Profile("JoyConR", 1, 1, "0"), Empty}
Disk(profile, source, traced) == [path \in MCPaths |->
    CASE path = "p" -> profile [] path = "s" -> source [] path = "t" -> traced]
MCDisks ==
    {Disk(p, Absent, Absent) : p \in {Absent, Unreadable, Empty, Profile("none", 0, 0, "0"),
        Profile("JoyConL", 1, 1, "0"), Profile("Pro", 1, 1, "7"), Profile("Pro", 1, 0, "7")}}
    \cup {Disk(Absent, s, Absent) : s \in {Profile("Pro", 1, 1, "0"), Profile("Pro", 2, 2, "0"),
        Profile("Pro", 1, 2, "0"), Profile("Pro", 1, 1, "short"), Profile("none", 0, 0, "0"), Empty}}
    \cup {Disk(Profile("Pro", 1, 1, "7"), Profile("Pro", 1, 1, "7"), Empty)}

Joy(model, mode, connection, more) ==
    <<"joycon-profile", "--adapter", "usb:0", "--profile", "p", "--model", model, "--mode", mode,
      "--connection", connection, "--timeout-secs", "600", "--run", "99">> \o more
Pro1(mode, setup, more) ==
    <<"pro-profile", "--adapter", "usb:0", "--profile", "p", "--mode", mode, "--setup", setup,
      "--connect-timeout-secs", "1", "--run", "1">> \o more
MCRunnerArguments ==
    {<<>>, <<"help">>, <<"joycon-profile", "--adapter">>,
     Joy("left", "periodic", "pair", <<>>), Joy("right", "direct", "pair", <<>>),
     Joy("left", "periodic", "reconnect", <<"--pre-input-idle-ms", "10000">>),
     Joy("left", "direct", "reconnect", <<"--pre-input-idle-ms", "1">>),
     Joy("right", "direct", "reconnect", <<"--pre-input-idle-ms", "10001">>),
     Joy("right", "direct", "reconnect", <<"--profile", "p">>),
     Joy("right", "periodic", "reconnect", <<"--source", "p">>),
     Pro1("periodic", "normal", <<>>), Pro1("direct", "post-power-cycle", <<>>),
     Pro1("direct", "stale-bond", <<"--stale-source-profile", "s">>),
     Pro1("direct", "stale-bond", <<"--stale-source-profile", "p">>),
     Pro1("direct", "normal", <<"--stale-source-profile", "s">>),
     <<"pro-periodic", "--adapter", "usb:0", "--profile", "p", "--pair-timeout-secs", "1", "--run", "20">>,
     <<"pro-periodic", "--adapter", "usb:0", "--profile", "p", "--pair-timeout-secs", "1", "--run", "21">>}

Link(operation, controller, more) ==
    <<operation, "--controller", controller, "--profile", "p", "--trace", "t">> \o more
MCProbeArguments ==
    {<<>>, <<"help">>, <<"adapters">>, <<"open", "--adapter", "usb:0">>,
     <<"profile", "inspect", "p">>, <<"profile", "verify", "p">>,
     Link("pair", "pro", <<"--button", "sl">>), Link("pair", "joycon-l", <<"--reporting", "direct">>),
     Link("pair", "joycon-l", <<"--local-address", "02:00:00:00:00:01">>),
     Link("reconnect", "joycon-l", <<"--reporting", "direct", "--button", "sl">>),
     Link("reconnect", "pro", <<"--button", "a", "--imu-seconds", "1">>),
     Link("reconnect", "joycon-r", <<"--imu-seconds", "1">>),
     Link("reconnect", "pro", <<"--trace", "t">>)}
MCButtons == {"SL"}
=============================================================================
