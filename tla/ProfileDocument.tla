-------------------------- MODULE ProfileDocument --------------------------
(***************************************************************************)
(* The pairing profile: what is written in the file, what the program      *)
(* holds of it, and the conversions between the two.                       *)
(*                                                                         *)
(* A file is a record of texts.  The text of an address is its six octets  *)
(* and the way they are written: "upper" or "lower" case hexadecimal in    *)
(* colon notation, or "other" for anything else.  `strict` is FALSE for a  *)
(* file that is no JSON object of the expected shape, or has a field too   *)
(* many.  A result is Ok(value) or Err(kind).                              *)
(***************************************************************************)
EXTENDS Integers, FiniteSets, Sequences

Ok(value) == [ok |-> value]
Err(kind) == [err |-> kind]
IsErr(result) == "err" \in DOMAIN result

Empty == [key \in {} |-> key]    \* the empty map
-----------------------------------------------------------------------------
(* Local addresses: six octets in display order *)

Octets == [1..6 -> 0..255]
InquiryLaps == 10390272..10390335
lap(octets) == 65536 * octets[4] + 256 * octets[5] + octets[6]
individual(octets) == octets[1] % 2 = 0
locally_administered(octets) == (octets[1] \div 2) % 2 = 1

try_from(octets) ==
    IF /\ individual(octets)
       /\ locally_administered(octets)
       /\ lap(octets) \notin InquiryLaps
    THEN Ok(octets) ELSE Err("InvalidInput")

hexadecimal(text) == text.form \in {"upper", "lower"}
LocalAddress_parse(text) ==
    IF hexadecimal(text) THEN try_from(text.octets) ELSE Err("InvalidInput")

AdapterDefault == [kind |-> "AdapterDefault"]
LocalAddress(octets) == [kind |-> "LocalAddress", address |-> octets]
-----------------------------------------------------------------------------
(* The texts of a file *)

is_bluetooth_address(text) == hexadecimal(text)
is_canonical_bluetooth_address(text) ==
    is_bluetooth_address(text) /\ text.form # "lower"

\* The name of a namespace, the name of a peer and the value of a link key.
BluetoothAddressKey(text) == is_canonical_bluetooth_address(text)
ClassicPeerKey(text) == text.suffix = "/P" /\ is_canonical_bluetooth_address(text)
LinkKeyBytes(text) == hexadecimal(text)

format_local_address(octets) == [form |-> "upper", octets |-> octets]
namespace_text(octets) == [form |-> "upper", octets |-> octets]
peer_text(octets) == [form |-> "upper", octets |-> octets, suffix |-> "/P"]
encode_hex(bytes) == [form |-> "upper", bytes |-> bytes]

\* DocumentControllerKind and IdentityDocument
kind_text(kind) ==
    CASE kind = "Pro" -> "pro" [] kind = "JoyConL" -> "joycon_l"
      [] kind = "JoyConR" -> "joycon_r"
as_public_kind(text) ==
    CASE text = "pro" -> "Pro" [] text = "joycon_l" -> "JoyConL"
      [] text = "joycon_r" -> "JoyConR"

identity_text(identity) ==
    IF identity = AdapterDefault THEN [kind |-> "adapter-default"]
    ELSE [kind |-> "exp-local-address",
          address |-> format_local_address(identity.address)]
IdentityText(text) ==
    text.kind = "exp-local-address" => ~IsErr(LocalAddress_parse(text.address))
as_public_identity(text) ==
    IF text.kind = "adapter-default" THEN AdapterDefault
    ELSE LocalAddress(LocalAddress_parse(text.address).ok)
-----------------------------------------------------------------------------
(* Pairing material *)

StoredClassicBond(key, type, authenticated) ==
    [link_key |-> key, link_key_type |-> type, authenticated |-> authenticated]
to_stored_bond(keys) ==
    StoredClassicBond(keys.link_key.value, keys.link_key_type,
                      keys.link_key.authenticated)
from_stored_bond(bond) ==
    [link_key |-> [authenticated |-> bond.authenticated, value |-> bond.link_key],
     link_key_type |-> bond.link_key_type]

KeysText(text) == LinkKeyBytes(text.link_key.value)
keys_of(text) == [text EXCEPT !.link_key.value = @.bytes]
text_of(keys) == [keys EXCEPT !.link_key.value = encode_hex(@)]
-----------------------------------------------------------------------------
(* Documents: [controller_kind, identity, namespaces, schema_version], where *)
(* namespaces maps an address to the peers and their keys                    *)

SchemaVersion == 2

empty(kind, identity) ==
    [controller_kind |-> kind, identity |-> identity, namespaces |-> Empty,
     schema_version |-> SchemaVersion]

to_json_bytes(document) ==
    [strict |-> TRUE,
     controller_kind |-> kind_text(document.controller_kind),
     identity |-> identity_text(document.identity),
     schema_version |-> document.schema_version,
     namespaces |->
        [n \in {namespace_text(a) : a \in DOMAIN document.namespaces} |->
           LET peers == document.namespaces[n.octets]
           IN  [p \in {peer_text(a) : a \in DOMAIN peers} |->
                    text_of(peers[p.octets])]]]

Deserializable(text) ==
    /\ text.strict
    /\ IdentityText(text.identity)
    /\ \A n \in DOMAIN text.namespaces :
          /\ BluetoothAddressKey(n)
          /\ \A p \in DOMAIN text.namespaces[n] :
                ClassicPeerKey(p) /\ KeysText(text.namespaces[n][p])

deserialize(text) ==
    [controller_kind |-> as_public_kind(text.controller_kind),
     identity |-> as_public_identity(text.identity),
     schema_version |-> text.schema_version,
     namespaces |->
        [a \in {n.octets : n \in DOMAIN text.namespaces} |->
           LET peers == text.namespaces[namespace_text(a)]
           IN  [b \in {p.octets : p \in DOMAIN peers} |->
                    keys_of(peers[peer_text(b)])]]]

AnyNumberOfPeers(document) == document.schema_version = SchemaVersion
validate(document) ==
    /\ document.schema_version = SchemaVersion
    /\ \A a \in DOMAIN document.namespaces :
          Cardinality(DOMAIN document.namespaces[a]) <= 1

parse_json(text) ==
    IF Deserializable(text) /\ validate(deserialize(text))
    THEN Ok(deserialize(text)) ELSE Err("InvalidProfile")

\* PairingProfile::<M>::try_from and PairingProfile::<M>::from_json
typed(kind, document) ==
    IF document.controller_kind = kind THEN Ok(document)
    ELSE Err("ProfileControllerMismatch")
from_json(kind, text) ==
    IF IsErr(parse_json(text)) THEN parse_json(text)
    ELSE typed(kind, parse_json(text).ok)
-----------------------------------------------------------------------------
(* The texts a file may hold, deserializable or not *)

AddressText(text) == text \in [form : {"upper", "lower", "other"}, octets : Octets]
PeerText(text) ==
    text \in [form : {"upper", "lower", "other"}, octets : Octets, suffix : {"/P", "other"}]
KeysRecord(text) ==
    text = [link_key |-> [authenticated |-> text.link_key.authenticated,
                          value |-> [form |-> text.link_key.value.form,
                                     bytes |-> text.link_key.value.bytes]],
            link_key_type |-> text.link_key_type]
PeersText(peers) ==
    /\ peers = [p \in DOMAIN peers |-> peers[p]] /\ IsFiniteSet(DOMAIN peers)
    /\ \A p \in DOMAIN peers : PeerText(p) /\ KeysRecord(peers[p])
IdentityField(text) ==
    \/ text = [kind |-> "adapter-default"]
    \/ text = [kind |-> "exp-local-address", address |-> text.address]
          /\ AddressText(text.address)
FileText(text) ==
    /\ text = [strict |-> text.strict, controller_kind |-> text.controller_kind,
               identity |-> text.identity, schema_version |-> text.schema_version,
               namespaces |-> text.namespaces]
    /\ text.strict \in BOOLEAN
    /\ text.controller_kind \in {"pro", "joycon_l", "joycon_r"}
    /\ IdentityField(text.identity)
    /\ text.namespaces = [n \in DOMAIN text.namespaces |-> text.namespaces[n]]
    /\ \A n \in DOMAIN text.namespaces : AddressText(n) /\ PeersText(text.namespaces[n])
-----------------------------------------------------------------------------
(* Keys of a document *)

all_pairing_keys(document, namespace) ==
    IF namespace \in DOMAIN document.namespaces
    THEN [peer \in DOMAIN document.namespaces[namespace] |->
             to_stored_bond(document.namespaces[namespace][peer])]
    ELSE Empty

OnlyThisNamespace(document, namespace, peer, bond) ==
    [document EXCEPT !.namespaces =
        [a \in {namespace} |-> [p \in {peer} |-> from_stored_bond(bond)]]]
replace_pairing_keys(document, namespace, peer, bond) ==
    [document EXCEPT !.namespaces =
        [a \in DOMAIN @ \cup {namespace} |->
            IF a = namespace THEN [p \in {peer} |-> from_stored_bond(bond)]
                             ELSE @[a]]]

summary(document) ==
    [schema_version |-> SchemaVersion,
     controller_kind |-> document.controller_kind,
     identity_kind |-> document.identity.kind,
     namespace_count |-> Cardinality(DOMAIN document.namespaces),
     bond_count |-> Cardinality(UNION {{<<a, p>> : p \in DOMAIN document.namespaces[a]} :
                                        a \in DOMAIN document.namespaces})]
=============================================================================
