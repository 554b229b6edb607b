----------------------------- MODULE MCTransport -----------------------------
EXTENDS Transport

Console1 == <<124, 187, 138, 0, 0, 1>>
Console2 == <<124, 187, 138, 0, 0, 2>>
Explicit == <<2, 0, 0, 0, 0, 9>>
MCConsoles == {Console1, Console2}

Usb(id, class, interfaces, readable, own) ==
    [id |-> id, class |-> class, interfaces |-> interfaces, readable |-> readable,
     own |-> own]
Hub == Usb("hub", "09-00-00", {}, TRUE, <<0, 0, 0, 0, 0, 0>>)
CSR == Usb("csr", "per-interface", {"e0-01-01", "ff"}, TRUE, <<0, 26, 125, 0, 0, 5>>)
Blank == Usb("blank", "e0-01-01", {}, TRUE, <<0, 0, 0, 0, 0, 0>>)
Mute == Usb("mute", "e0-01-01", {}, FALSE, <<0, 26, 125, 0, 0, 7>>)
Dongle == Usb("dongle", "e0-01-01", {}, TRUE, <<0, 26, 125, 0, 0, 6>>)
MCBuses == {<<Hub, CSR>>, <<Mute, Blank, Dongle>>}

Spelled(form, octets) == [form |-> form, octets |-> octets]
MCIdentities == {AdapterDefault, Spelled("lower", Explicit),
                 Spelled("upper", <<2, 0, 0, 158, 139, 5>>), Spelled("other", Explicit)}

\* Files of another program: a profile of the other model with a bond, one
\* with its addresses in lower case, one with two peers in a namespace.
Written == to_json_bytes(
    replace_pairing_keys(empty("JoyConL", AdapterDefault), CSR.own, Console2,
                         StoredClassicBond("k2", 4, TRUE)))
InLowerCase ==
    [Written EXCEPT !.namespaces =
        [n \in {Spelled("lower", CSR.own)} |-> @[namespace_text(CSR.own)]]]
WithTwoPeers ==
    [Written EXCEPT !.controller_kind = "pro",
        !.namespaces[namespace_text(CSR.own)] =
            [p \in {peer_text(Console1), peer_text(Console2)} |->
                @[peer_text(Console2)]]]
MCStrangers == {Written, InLowerCase, WithTwoPeers}
MCOpenErrors == {"IdentityMismatch", "AdapterIdentityRecoveryRequired"}
MCBeginErrors == {"Closed", "ProtocolViolation"}
MCPollErrors == {"SourceTerminated", "InvalidBondStore"}
=============================================================================
