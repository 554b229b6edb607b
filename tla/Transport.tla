----------------------------- MODULE Transport -----------------------------
(***************************************************************************)
(* One client, one profile path and the adapters of a machine: building or *)
(* creating a controller, opening its transport, pairing and reconnecting, *)
(* with the pairing keys that travel between the console, the session of   *)
(* the backend and the profile document.                                   *)
(*                                                                         *)
(* The worker is what its calls see of it: WorkerCore and ControllerRuntime*)
(* model its inside, ProfileStore the steps of one write of the file.      *)
(* Other programs may replace the file, adapters may be plugged again and  *)
(* consoles may forget.                                                    *)
(***************************************************************************)
EXTENDS ProfileDocument, TransportErrors, SequencesExt

CONSTANTS
    Kinds, Mode,    \* ControllerKind; ReportingKind of the controllers
    Periods,        \* report periods a client may ask for, in milliseconds
    Buses,          \* the USB devices there may be: sequences of records
    Identities,     \* texts of a local address a client may ask for
    Strangers,      \* files other programs may leave at the path
    Consoles, Keys, \* the consoles' addresses; link keys
    OpenErrors, BeginErrors, PollErrors,   \* what the backend may answer
    MaxCalls, MaxFaults, MaxChanges        \* bounds for TLC

ASSUME TransportAssumption ==
    /\ Kinds \subseteq {"Pro", "JoyConL", "JoyConR"}
    /\ Mode \in {"Periodic", "Direct"} /\ Periods \subseteq Nat
    /\ OpenErrors \cup BeginErrors \cup PollErrors \subseteq BackendErrors
    /\ {MaxCalls, MaxFaults, MaxChanges} \subseteq Nat

\* The backend writes an address only when it is opened, and uses the bonds
\* only after that; NoBond is start_reconnect's own answer.
ASSUME BackendAssumption ==
    /\ OpenErrors \cap {"InvalidBondStore", "NoBond"} = {}
    /\ (BeginErrors \cup PollErrors) \cap {"AdapterIdentityRecoveryRequired", "NoBond"} = {}

\* Addresses are six octets; files are what the reader of a profile can hold.
ASSUME DataAssumption ==
    /\ \A devices \in Buses : \A n \in DOMAIN devices : devices[n].own \in Octets
    /\ \A text \in Identities : text = AdapterDefault \/ AddressText(text)
    /\ \A text \in Strangers : FileText(text)
    /\ Consoles \subseteq Octets

VARIABLES
    file,        \* the text at the profile path, or Absent
    bus,         \* the USB devices, in the order libusb lists them
    active,      \* the address each device answers with
    claimed,     \* the devices that sessions of the backend hold
    controller,  \* the configuration of the controller there is, or None
    runtime,     \* its worker: "none", "open", "ready" or "failed" by a cause
    session,     \* the session of its transport port, or None
    call,        \* the call in progress
    result,      \* the latest call's
    trusted,     \* <<console, local address, key>>: bonds consoles accept
    owed,        \* history: the bond last put in each namespace of the file
    written,     \* history: how often other programs changed the file
    left         \* what the bounds leave

outside == <<bus, active, trusted>>
port == <<claimed, session>>
stored == <<file, owed, written>>
vars == <<file, bus, active, claimed, controller, runtime, session, call, result,
          trusted, owed, written, left>>

None == [none |-> TRUE]
Running(state) == [state |-> state, cause |-> None]
Failed(error) == [state |-> "failed", cause |-> error]
Absent == [absent |-> TRUE]
Idle == [name |-> "idle", phase |-> "idle", path |-> "none", allow |-> FALSE]
Spend(k) == left[k] > 0 /\ left' = [left EXCEPT ![k] = @ - 1]

\* The end of the call in progress, and a call that ends at once; `cause` is
\* the error of the backend behind it, "none" if there is none.
Return(outcome, cause) ==
    /\ call' = Idle
    /\ result' = [call |-> call.name, outcome |-> outcome, cause |-> cause]
Refuse(name, outcome) ==
    /\ result' = [call |-> name, outcome |-> outcome, cause |-> "none"]
    /\ UNCHANGED call

-----------------------------------------------------------------------------
(* Adapter discovery *)

HciClass == "e0-01-01"
is_bluetooth_hci(device) ==
    \/ device.class = HciClass
    \/ device.class = "per-interface" /\ HciClass \in device.interfaces
descriptor_record(device) == device.readable
list_adapters(devices) ==
    {i \in DOMAIN devices : descriptor_record(devices[i]) /\ is_bluetooth_hci(devices[i])}
\* usb:N has N adapters listed before it; opening looks at the bus again.
usb(i) == Cardinality({j \in list_adapters(bus) : j < i})
Selected(n) == bus[CHOOSE i \in list_adapters(bus) : usb(i) = n]
Selectors == {usb(i) : i \in list_adapters(bus)}

-----------------------------------------------------------------------------
(* The bond stores a session of the backend may have *)

\* SwbtProfileKeyStore and VolatileBondStore
read_profile(s) ==
    IF file = Absent THEN Err("NotFound") ELSE from_json(s.kind, file)
format_address(address) == address
load_all(s) ==
    IF ~s.persistent THEN Ok(s.volatile)
    ELSE IF IsErr(read_profile(s)) THEN Err("InvalidBondStore")
    ELSE Ok(all_pairing_keys(read_profile(s).ok, format_address(s.address)))

\* The profile a controller was built with, not what the file holds now.
StaleUpsert(s, peer, bond) ==
    to_json_bytes(replace_pairing_keys(empty(s.kind, controller.identity),
                                       format_address(s.address), peer, bond))
upsert(s, peer, bond) ==
    to_json_bytes(replace_pairing_keys(read_profile(s).ok,
                                       format_address(s.address), peer, bond))
VolatileUpsert(peer, bond) == [p \in {peer} |-> bond]

-----------------------------------------------------------------------------
(* Building a controller *)

\* ValidatedReportPeriod, for the mode that has a period.
MIN_REPORT_PERIOD == 1
MAX_REPORT_PERIOD == 1000
ValidatedReportPeriod(period) ==
    IF period \in MIN_REPORT_PERIOD..MAX_REPORT_PERIOD THEN Ok(None)
    ELSE Err("InvalidInput")
validate_settings(period) ==
    IF Mode = "Direct" THEN Ok(None) ELSE ValidatedReportPeriod(period)

read_typed_profile(kind) ==
    IF file = Absent THEN Err("ProfileNotFound") ELSE from_json(kind, file)

Configured(kind, persistent, identity, n) ==
    [kind |-> kind, persistent |-> persistent, identity |-> identity, selector |-> n]
finalize_with_profile(kind, profile, n) ==
    IF profile = None THEN Configured(kind, FALSE, AdapterDefault, n)
    ELSE Configured(kind, TRUE, profile.identity, n)

build(kind, persistent, period, n) ==
    /\ call = Idle /\ controller = None /\ Spend("calls")
    /\ LET profile == IF IsErr(validate_settings(period)) THEN validate_settings(period)
                      ELSE IF persistent THEN read_typed_profile(kind) ELSE Ok(None)
       IN  IF IsErr(profile)
           THEN Refuse("build", profile.err) /\ UNCHANGED controller
           ELSE /\ controller' = finalize_with_profile(kind, profile.ok, n)
                /\ Refuse("build", "Ok")
    /\ UNCHANGED <<outside, port, stored, runtime>>

\* The file cannot be read, or not be written.
StoreFails(name) ==
    /\ call = Idle /\ controller = None /\ Spend("faults")
    /\ Refuse(name, "Internal")
    /\ UNCHANGED <<outside, port, stored, controller, runtime>>

-----------------------------------------------------------------------------
(* create_profile *)

validate_connection_timeout(fits) == IF fits THEN Ok(None) ELSE Err("InvalidInput")

\* The identity a client may pass to create_profile.
Requested(text) ==
    IF text = AdapterDefault THEN Ok(text)
    ELSE IF IsErr(LocalAddress_parse(text)) THEN LocalAddress_parse(text)
    ELSE Ok(LocalAddress(LocalAddress_parse(text).ok))

validate_target(persistent, fits) ==
    IF ~persistent THEN Err("ProfilePathRequired") ELSE validate_connection_timeout(fits)
validate_create_profile(period, persistent, fits) ==
    IF IsErr(validate_settings(period)) THEN validate_settings(period)
    ELSE validate_target(persistent, fits)

ReplacingCreate(kind, identity, n) ==
    /\ file' = to_json_bytes(empty(kind, identity)) /\ owed' = Empty
    /\ controller' = Configured(kind, TRUE, identity, n)
    /\ call' = [name |-> "create", phase |-> "open", path |-> "Pair", allow |-> FALSE]
    /\ UNCHANGED result
persist_and_configure(kind, identity, n) ==
    IF file # Absent
    THEN Refuse("create", "ProfileAlreadyExists") /\ UNCHANGED <<file, owed, controller>>
    ELSE /\ file' = to_json_bytes(empty(kind, identity)) /\ owed' = Empty
         /\ controller' = Configured(kind, TRUE, identity, n)
         /\ call' = [name |-> "create", phase |-> "open", path |-> "Pair", allow |-> FALSE]
         /\ UNCHANGED result

create_profile(kind, persistent, period, text, fits, n) ==
    /\ call = Idle /\ controller = None /\ Spend("calls")
    /\ LET identity == Requested(text)
           target == validate_create_profile(period, persistent, fits)
       IN  IF IsErr(identity) \/ IsErr(target)
           THEN /\ Refuse("create", IF IsErr(identity) THEN identity.err ELSE target.err)
                /\ UNCHANGED <<file, owed, controller>>
           ELSE persist_and_configure(kind, identity.ok, n)
    /\ UNCHANGED <<outside, port, written, runtime>>

-----------------------------------------------------------------------------
(* open: open_runtime_owner over BumbleTransportPort::open *)

open ==
    /\ call = Idle /\ controller # None /\ Spend("calls")
    /\ IF runtime.state # "none" THEN Refuse("open", "Ok")
       ELSE /\ call' = [name |-> "open", phase |-> "open", path |-> "none", allow |-> FALSE]
            /\ UNCHANGED result
    /\ UNCHANGED <<outside, port, stored, controller, runtime>>

\* A creation that fails leaves no controller, an opening a closed one.
AfterFailure == IF call.name = "create" THEN None ELSE controller

\* The backend's addresses start with the last octet.
map_profile_identity(identity) == Reverse(identity.address)
from_validated_classic_controller(octets) ==
    IF octets = <<0, 0, 0, 0, 0, 0>> THEN Err("InvalidControllerIdentity") ELSE Ok(octets)
RawCapabilities(le_bytes) == from_validated_classic_controller(le_bytes)
capabilities_from_backend(le_bytes) ==
    from_validated_classic_controller(Reverse(le_bytes))

\* Session::open gives the device the explicit address before anything else.
Identified(device) ==
    IF controller.identity = AdapterDefault THEN active
    ELSE [active EXCEPT ![device.id] = Reverse(map_profile_identity(controller.identity))]
le_address(device) == Reverse(Identified(device)[device.id])

\* It fails, and by then it may have written the address.
OpenFails(kind) ==
    /\ call.phase = "open" /\ controller.selector \in Selectors /\ Spend("faults")
    /\ kind = "AdapterIdentityRecoveryRequired" => controller.identity # AdapterDefault
    /\ active' \in {active} \cup
          IF kind = "AdapterIdentityRecoveryRequired"
          THEN {Identified(Selected(controller.selector))} ELSE {}
    /\ Return(map_transport_open_error(map_backend_error_kind(kind)), kind)
    /\ controller' = AfterFailure
    /\ UNCHANGED <<bus, trusted, port, stored, runtime>>

NoAdapter ==
    /\ call.phase = "open" /\ controller.selector \notin Selectors
    /\ Return(map_transport_open_error(map_backend_error_kind("OpenFailed")), "OpenFailed")
    /\ controller' = AfterFailure
    /\ UNCHANGED <<outside, port, stored, runtime, left>>

SessionOn(device, address) ==
    [device |-> device.id, address |-> address, persistent |-> controller.persistent,
     kind |-> controller.kind, volatile |-> Empty, pairable |-> FALSE, peer |-> None]

Opened ==
    /\ call.phase = "open" /\ controller.selector \in Selectors
    /\ LET device == Selected(controller.selector)
           address == capabilities_from_backend(le_address(device))
       IN  /\ active' = Identified(device)
           /\ IF IsErr(address)
              THEN /\ Return(map_transport_open_error(address.err), address.err)
                   /\ controller' = AfterFailure /\ UNCHANGED <<port, runtime>>
              ELSE /\ session' = SessionOn(device, address.ok)
                   /\ claimed' = claimed \cup {device.id}
                   /\ runtime' = Running("open") /\ UNCHANGED controller
                   /\ IF call.name = "create"
                      THEN call' = [call EXCEPT !.phase = "begin"] /\ UNCHANGED result
                      ELSE Return("Ok", "none")
    /\ UNCHANGED <<bus, trusted, stored, left>>

\* The worker thread cannot be started; its transport is closed again.
SpawnFails ==
    /\ call.phase = "open" /\ controller.selector \in Selectors /\ Spend("faults")
    /\ active' = Identified(Selected(controller.selector))
    /\ Return(map_worker_spawn_error, "none") /\ controller' = AfterFailure
    /\ UNCHANGED <<bus, trusted, port, stored, runtime>>

-----------------------------------------------------------------------------
(* pair, reconnect and connect *)

\* ControllerRuntime::pair and ControllerRuntime::reconnect up to the worker.
Called(name, path, allow, fits) ==
    /\ call = Idle /\ controller # None /\ Spend("calls")
    /\ IF runtime.state = "none" THEN Refuse(name, "TransportClosed")
       ELSE IF IsErr(validate_connection_timeout(fits)) THEN Refuse(name, "InvalidInput")
       ELSE IF runtime.state = "failed" THEN Refuse(name, map_enqueue_error("Disconnected"))
       ELSE /\ call' = [name |-> name, phase |-> "begin", path |-> path, allow |-> allow]
            /\ UNCHANGED result
    /\ UNCHANGED <<outside, port, stored, controller, runtime>>
pair(fits) == Called("pair", "Pair", FALSE, fits)
reconnect(fits) == Called("reconnect", "Reconnect", FALSE, fits)
connect(allow, fits) == Called("connect", "Reconnect", allow, fits)

\* What connect makes of the outcome of its first half.
FallsBackOnAny(outcome) ==
    call.name = "connect" /\ call.path = "Reconnect" /\ call.allow /\ outcome # "Ok"
FallsBack(outcome) ==
    call.name = "connect" /\ call.path = "Reconnect" /\ call.allow /\ outcome = "NoBond"
Conclude(outcome, cause) ==
    IF FallsBack(outcome)
    THEN call' = [call EXCEPT !.path = "Pair", !.phase = "begin"] /\ UNCHANGED result
    ELSE Return(outcome, cause)

\* BumbleTransportPort::close and its Drop; the handle is given up even if the
\* backend reports a failure.
ClosePort == session' = None /\ claimed' = claimed \ {session.device}

\* A creation that forgets the worker of a pairing that failed.
LeavesOpen(outcome, cause, s) ==
    /\ Conclude(outcome, cause)
    /\ session' = s /\ UNCHANGED <<claimed, runtime>>
    /\ controller' = IF call.name = "create" /\ outcome # "Ok" THEN None ELSE controller

\* create_controller_runtime cleans up after a pairing that fails.
Gives(outcome, cause, s) ==
    /\ Conclude(outcome, cause)
    /\ IF call.name = "create" /\ outcome # "Ok"
       THEN ClosePort /\ runtime' = Running("none") /\ controller' = None
       ELSE session' = s /\ UNCHANGED <<claimed, runtime, controller>>

\* The transport has started by the time the lifecycle is looked at.
begin_connection(s) ==
    IF runtime.state = "open"
    THEN /\ call' = [call EXCEPT !.phase = "wait"] /\ session' = s
         /\ UNCHANGED <<claimed, runtime, controller, result>>
    ELSE Gives(map_connection_error(call.path, Begin(InvalidLifecycle)), "none", s)

start_pairing ==
    /\ call.phase = "begin" /\ call.path = "Pair" /\ session # None
    /\ begin_connection([session EXCEPT !.pairable = TRUE])
    /\ UNCHANGED <<outside, stored, left>>

\* The peer the session of the backend gets through to with a stored bond.
Reached(bonds) ==
    LET good == {p \in DOMAIN bonds :
                    <<p, session.address, bonds[p].link_key>> \in trusted}
    IN  IF good = {} THEN None ELSE CHOOSE p \in good : TRUE

start_reconnect ==
    /\ call.phase = "begin" /\ call.path = "Reconnect" /\ session # None
    /\ LET bonds == load_all(session)
           refused == IF IsErr(bonds) THEN bonds.err ELSE "NoBond"
       IN  IF IsErr(bonds) \/ bonds.ok = Empty
           THEN Gives(map_connection_error("Reconnect",
                          Begin(Transport(map_backend_error_kind(refused)))),
                      refused, session)
           ELSE begin_connection([session EXCEPT !.peer = Reached(bonds.ok)])
    /\ UNCHANGED <<outside, stored, left>>

BeginFails(kind) ==
    /\ call.phase = "begin" /\ session # None /\ Spend("faults")
    /\ Gives(map_connection_error(call.path,
                 Begin(Transport(map_backend_error_kind(kind)))), kind, session)
    /\ UNCHANGED <<outside, stored>>

\* The worker ended between the two commands of connect, or before the first.
BeginTooLate ==
    /\ call.phase = "begin" /\ runtime.state = "failed"
    /\ IF call.name = "create"
       THEN /\ Return(map_worker_failure(runtime.cause), "none")
            /\ runtime' = Running("none") /\ controller' = None
       ELSE /\ Return(map_enqueue_error("Disconnected"), "none")
            /\ UNCHANGED <<runtime, controller>>
    /\ UNCHANGED <<outside, port, stored, left>>

-----------------------------------------------------------------------------
(* What happens while a session is open *)

\* The worker fails and closes its transport; whoever waits for a connection
\* is told, and a creation gives up its owner.
WorkerFails(error, cause) ==
    /\ ClosePort
    /\ IF call.phase = "wait"
       THEN Conclude(map_connection_error(call.path, connection_failure(error)), cause)
       ELSE UNCHANGED <<call, result>>
    /\ IF call.phase = "wait" /\ call.name = "create"
       THEN runtime' = Running("none") /\ controller' = None
       ELSE runtime' = Failed(error) /\ UNCHANGED controller

Alive == session # None /\ runtime.state \in {"open", "ready"}

\* A console pairs: it keeps a bond for the address it saw, and the backend
\* puts its half into the store.
Bonded(console, bond) ==
    /\ Alive /\ session.pairable
    /\ trusted' = {t \in trusted : <<t[1], t[2]>> # <<console, session.address>>}
                    \cup {<<console, session.address, bond.link_key>>}
    /\ IF ~session.persistent
       THEN /\ session' = [session EXCEPT !.volatile = VolatileUpsert(console, bond),
                                          !.peer = console, !.pairable = FALSE]
            /\ UNCHANGED <<file, owed, claimed, call, result, controller, runtime>>
       ELSE IF IsErr(read_profile(session))
       THEN /\ WorkerFails(Transport(map_backend_error_kind("InvalidBondStore")),
                           "InvalidBondStore")
            /\ UNCHANGED <<file, owed>>
       ELSE /\ session' = [session EXCEPT !.peer = console, !.pairable = FALSE]
            /\ file' = upsert(session, console, bond)
            /\ owed' = [a \in DOMAIN owed \cup {session.address} |->
                            IF a = session.address
                            THEN [peer |-> console, bond |-> bond] ELSE owed[a]]
            /\ UNCHANGED <<claimed, call, result, controller, runtime>>
    /\ UNCHANGED <<bus, active, written, left>>

\* Polling fails, the write of a bond among the reasons.
PollFails(kind) ==
    /\ Alive /\ Spend("faults")
    /\ kind = "InvalidBondStore" => session.pairable
    /\ WorkerFails(Transport(map_backend_error_kind(kind)), kind)
    /\ UNCHANGED <<outside, stored>>

BecomesReady ==
    /\ call.phase = "wait" /\ session.peer # None
    /\ runtime' = Running("ready") /\ Return("Ok", "none")
    /\ UNCHANGED <<outside, port, stored, controller, left>>

\* The connection command misses its deadline; nobody disconnects the peer or
\* ends the pairing.
TimedOut ==
    /\ call.phase = "wait"
    /\ Gives(map_connection_error(call.path, Readiness("TimedOut")), "none", session)
    /\ UNCHANGED <<outside, stored, left>>

Disconnected ==
    /\ call.phase = "wait"
    /\ Gives(map_connection_error(call.path, Readiness("Disconnected")), "none",
             [session EXCEPT !.peer = None])
    /\ UNCHANGED <<outside, stored, left>>

Lost ==
    /\ runtime.state = "ready"
    /\ runtime' = Running("open") /\ session' = [session EXCEPT !.peer = None]
    /\ UNCHANGED <<outside, claimed, stored, controller, call, result, left>>

-----------------------------------------------------------------------------
(* The input calls: press, release, neutral, apply or send, and tap, as far   *)
(* as a caller can tell from what they return.                                *)

Inputs == [of : {"state", "tap"}, valid : BOOLEAN]
NeedsReady(c) == Mode = "Direct" \/ c.of = "tap"
\* Direct looks at the connection before the input, Periodic the other way.
Refusal(c) ==
    IF Mode = "Direct" /\ runtime.state # "ready" THEN "NotReady"
    ELSE IF ~c.valid THEN "Input"
    ELSE IF NeedsReady(c) /\ runtime.state # "ready" THEN "NotReady" ELSE "Ok"

input(c) ==
    /\ call = Idle /\ controller # None /\ Spend("calls")
    /\ Refuse("input",
          CASE runtime.state = "none" -> "TransportClosed"
            [] runtime.state = "failed" -> map_enqueue_error("Disconnected")
            [] OTHER -> map_command_error(Refusal(c)))
    /\ UNCHANGED <<outside, port, stored, controller, runtime>>

\* The transport refuses the report of a Direct command, or one of a tap; if it
\* is not for backpressure, the worker ends.
InputRejected(kind) ==
    /\ call = Idle /\ runtime.state = "ready" /\ Spend("faults")
    /\ result' = [call |-> "input", outcome |-> map_command_error("Transport"),
                  cause |-> kind]
    /\ IF kind = "SendRejected" THEN UNCHANGED <<port, runtime>>
       ELSE ClosePort /\ runtime' = Failed(Transport(map_backend_error_kind(kind)))
    /\ UNCHANGED <<outside, stored, controller, call>>

-----------------------------------------------------------------------------
(* close, and the drop of the controller *)

Outcome(clean) ==
    IF runtime.state = "failed"
    THEN [of |-> "Failed", cause |-> runtime.cause]
    ELSE [of |-> "Closed", clean |-> clean]

close(clean) ==
    /\ call = Idle /\ controller # None /\ Spend("calls")
    /\ IF runtime.state = "none"
       THEN Refuse("close", "Ok") /\ UNCHANGED <<port, runtime>>
       ELSE /\ Refuse("close", map_worker_outcome(Outcome(clean)))
            /\ IF session = None THEN UNCHANGED port ELSE ClosePort
            /\ runtime' = Running("none")
    /\ UNCHANGED <<outside, stored, controller>>

Drop ==
    /\ call = Idle /\ controller # None
    /\ IF session = None THEN UNCHANGED port ELSE ClosePort
    /\ controller' = None /\ runtime' = Running("none")
    /\ UNCHANGED <<outside, stored, call, result, left>>

-----------------------------------------------------------------------------
(* The environment *)

BondsIn(text) ==
    IF text = Absent \/ IsErr(parse_json(text)) THEN Empty
    ELSE LET spaces == parse_json(text).ok.namespaces
         IN  [a \in {n \in DOMAIN spaces : spaces[n] # Empty} |->
                LET p == CHOOSE p \in DOMAIN spaces[a] : TRUE
                IN  [peer |-> p, bond |-> to_stored_bond(spaces[a][p])]]

\* Another program replaces or removes the file.
Replace(text) ==
    /\ text # file /\ Spend("changes")
    /\ file' = text /\ owed' = BondsIn(text) /\ written' = written + 1
    /\ UNCHANGED <<outside, port, controller, runtime, call, result>>

Own(devices) == [i \in {devices[n].id : n \in DOMAIN devices} |->
                    (CHOOSE d \in ToSet(devices) : d.id = i).own]

\* Adapters are unplugged and plugged in again, which ends the addresses they
\* were given.
Replug(devices) ==
    /\ claimed = {} /\ call.phase # "begin" /\ Spend("changes")
    /\ bus' = devices /\ active' = Own(devices)
    /\ UNCHANGED <<trusted, port, stored, controller, runtime, call, result>>

Forget(t) ==
    /\ Spend("changes") /\ trusted' = trusted \ {t}
    /\ UNCHANGED <<bus, active, port, stored, controller, runtime, call, result>>

-----------------------------------------------------------------------------
Bonds == {StoredClassicBond(k, 4, TRUE) : k \in Keys}

Init ==
    /\ file = Absent /\ owed = Empty /\ written = 0
    /\ bus \in Buses /\ active = Own(bus)
    /\ claimed = {} /\ session = None
    /\ controller = None /\ runtime = Running("none")
    /\ call = Idle /\ result = [call |-> "idle", outcome |-> "Ok", cause |-> "none"]
    /\ trusted = {}
    /\ left = [calls |-> MaxCalls, faults |-> MaxFaults, changes |-> MaxChanges]

Construct ==
    \E kind \in Kinds, n \in Selectors, persistent \in BOOLEAN, period \in Periods :
        \/ build(kind, persistent, period, n)
        \/ \E text \in Identities, fits \in BOOLEAN :
              create_profile(kind, persistent, period, text, fits, n)
Opening ==
    \/ open \/ NoAdapter \/ Opened \/ SpawnFails
    \/ \E kind \in OpenErrors : OpenFails(kind)
Connecting ==
    \/ \E fits \in BOOLEAN : pair(fits) \/ reconnect(fits)
    \/ \E allow, fits \in BOOLEAN : connect(allow, fits)
    \/ start_pairing \/ start_reconnect \/ BeginTooLate
    \/ \E kind \in BeginErrors : BeginFails(kind)
    \/ \E console \in Consoles, bond \in Bonds : Bonded(console, bond)
    \/ \E kind \in PollErrors : PollFails(kind)
    \/ \E c \in Inputs : input(c)
    \/ \E kind \in {"SendRejected", "Closed"} : InputRejected(kind)
    \/ BecomesReady \/ TimedOut \/ Disconnected \/ Lost
Closing == Drop \/ \E clean \in BOOLEAN : close(clean)
Environment ==
    \/ \E text \in Strangers \cup {Absent} : Replace(text)
    \/ \E devices \in Buses : Replug(devices)
    \/ \E t \in trusted : Forget(t)
Stopped == call = Idle /\ controller = None /\ left.calls = 0 /\ UNCHANGED vars

Next ==
    \/ Construct \/ (\E name \in {"build", "create"} : StoreFails(name))
    \/ Opening \/ Connecting \/ Closing \/ Environment \/ Stopped
Spec == Init /\ [][Next]_vars

-----------------------------------------------------------------------------
(* Properties *)

States == {"none", "open", "ready", "failed"}
TypeOK ==
    /\ claimed \subseteq DOMAIN active
    /\ runtime.state \in States
    /\ call.phase \in {"idle", "open", "begin", "wait"}
    /\ call.path \in {"none", "Pair", "Reconnect"}
    /\ call.phase = "wait" => runtime.state = "open" /\ session # None
    /\ session # None => session.address = active[session.device]
    /\ \A t \in trusted : t[1] \in Consoles /\ t[3] \in Keys
    /\ left \in [calls : 0..MaxCalls, faults : 0..MaxFaults, changes : 0..MaxChanges]

\* Each local address keeps the bond paired under it last, whichever other
\* addresses the profile was used with since, until someone else changes the
\* file (SwbtProfileKeyStore::upsert reads, replaces one namespace, writes).
RemembersPairings ==
    \A a \in DOMAIN owed :
        /\ file # Absent /\ ~IsErr(parse_json(file))
        /\ all_pairing_keys(parse_json(file).ok, a) = [p \in {owed[a].peer} |-> owed[a].bond]

\* The program itself only ever creates the file where there is none, or
\* changes the bond of the address its session has: not the model, not the
\* identity, not another namespace, not what someone else wrote meanwhile.
OnlyItsBond ==
    [][written' = written /\ file' # file =>
        \/ file = Absent
        \/ /\ session # None /\ session.persistent
           /\ ~IsErr(parse_json(file)) /\ ~IsErr(parse_json(file'))
           /\ LET old == parse_json(file).ok
                  new == parse_json(file').ok
              IN  /\ new.controller_kind = old.controller_kind
                  /\ new.identity = old.identity
                  /\ DOMAIN old.namespaces \subseteq DOMAIN new.namespaces
                  /\ \A a \in DOMAIN new.namespaces \ {session.address} :
                        a \in DOMAIN old.namespaces
                            /\ new.namespaces[a] = old.namespaces[a]]_vars

\* The profile keeps what was paired and changes in nothing else.
ProfileIsKept ==
    [][file' # file \/ owed' # owed => RemembersPairings']_vars /\ OnlyItsBond

HasBond == IF session.persistent THEN session.address \in DOMAIN owed
           ELSE session.volatile # Empty

\* connect pairs only where it may, and only when the profile holds no bond
\* for the address; a stale bond, a timeout or an unreadable profile never
\* leads to pairing, and NoBond is never said of an address that has a bond.
PairsOnlyWithoutBond ==
    [][/\ (call.path = "Reconnect" /\ call'.path = "Pair") => call.allow /\ ~HasBond
       /\ (result'.outcome = "NoBond" /\ result' # result) => session # None /\ ~HasBond]_vars

\* The kind of an error names the cause the backend reported, on every path,
\* and names none the backend did not report: an adapter whose address is
\* uncertain, a profile that cannot be read or written, a profile with no bond.
ErrorTellsCause ==
    /\ (result.outcome = "AdapterIdentityRecoveryRequired")
            = (result.cause = "AdapterIdentityRecoveryRequired")
    /\ result.cause = "InvalidBondStore" => result.outcome = "InvalidKeyStore"
    /\ (result.outcome = "InvalidKeyStore" /\ result.call # "close")
            => result.cause = "InvalidBondStore"
    /\ (result.outcome = "NoBond") = (result.cause = "NoBond")
    /\ result.outcome = "TransportOpen" => result.call \in {"open", "create"}

\* The backend holds an adapter exactly while a live worker owns its session.
PortReleased ==
    /\ claimed = IF session = None THEN {} ELSE {session.device}
    /\ (session # None) = (runtime.state \in {"open", "ready"})
    /\ controller = None => session = None
=============================================================================
