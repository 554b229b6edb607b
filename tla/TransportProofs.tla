-------------------------- MODULE TransportProofs --------------------------
(***************************************************************************)
(* What TLC checks of Transport with a few adapters, files and failures,   *)
(* proved for all of them: the profile and its documents, who holds an     *)
(* adapter, when connect may pair, and what the errors of the calls say.   *)
(***************************************************************************)
EXTENDS Transport, FiniteSetTheorems, TLAPS

(* Addresses: the backend's octets are the display order's, last one first *)

LEMMA ReversedOctets ==
    ASSUME NEW octets \in Octets
    PROVE  /\ Reverse(octets) = [i \in 1..6 |-> octets[7 - i]]
           /\ Reverse(octets) \in Octets
<1>1. Len(octets) = 6 /\ DOMAIN octets = 1..6
  BY DEF Octets
<1>2. Reverse(octets) = [i \in 1..6 |-> octets[7 - i]]
  BY <1>1 DEF Reverse
<1> QED
  BY <1>2 DEF Octets

LEMMA ReversedTwice ==
    ASSUME NEW octets \in Octets
    PROVE  Reverse(Reverse(octets)) = octets
<1>1. Reverse(octets) \in Octets
  BY ReversedOctets
<1>2. Reverse(Reverse(octets)) = [i \in 1..6 |-> Reverse(octets)[7 - i]]
  BY <1>1, ReversedOctets
<1>3. \A i \in 1..6 : Reverse(octets)[7 - i] = octets[i]
  BY ReversedOctets
<1> QED
  BY <1>2, <1>3 DEF Octets

-----------------------------------------------------------------------------
(* Documents: what the program holds of a profile *)

LEMMA Results ==
    ASSUME NEW value
    PROVE  /\ ~IsErr(Ok(value)) /\ Ok(value).ok = value
           /\ IsErr(Err(value)) /\ Err(value).err = value
  BY DEF IsErr, Ok, Err

AtMostOne(S) == S = {} \/ \E x \in S : S = {x}

LEMMA AtMostOneCounted ==
    ASSUME NEW S
    PROVE  /\ AtMostOne(S) => IsFiniteSet(S) /\ Cardinality(S) <= 1
           /\ IsFiniteSet(S) /\ Cardinality(S) <= 1 => AtMostOne(S)
<1>1. CASE AtMostOne(S)
  <2>1. IsFiniteSet(S) /\ (Cardinality(S) = 0 \/ Cardinality(S) = 1)
    <3>1. CASE S = {}
      BY <3>1, FS_EmptySet
    <3>2. ASSUME NEW x \in S, S = {x} PROVE IsFiniteSet(S) /\ Cardinality(S) = 1
      BY <3>2, FS_Singleton
    <3> QED
      BY <1>1, <3>1, <3>2 DEF AtMostOne
  <2> QED
    BY <1>1, <2>1
<1>2. ASSUME IsFiniteSet(S), Cardinality(S) <= 1 PROVE AtMostOne(S)
  <2>1. Cardinality(S) \in Nat
    BY <1>2, FS_CardinalityType
  <2>2. Cardinality(S) = 0 \/ Cardinality(S) = 1
    BY <1>2, <2>1
  <2> QED
    BY <1>2, <2>2, FS_EmptySet, FS_Singleton DEF AtMostOne
<1> QED
  BY <1>1, <1>2

KeysDocument(keys) ==
    keys = [link_key |-> [authenticated |-> keys.link_key.authenticated,
                          value |-> keys.link_key.value],
            link_key_type |-> keys.link_key_type]
PeersDocument(peers) ==
    /\ peers = [p \in DOMAIN peers |-> peers[p]]
    /\ AtMostOne(DOMAIN peers)
    /\ \A p \in DOMAIN peers : p \in Octets /\ KeysDocument(peers[p])
IdentityDocument(identity) ==
    \/ identity = AdapterDefault
    \/ /\ identity = LocalAddress(identity.address) /\ identity.address \in Octets
       /\ try_from(identity.address) = Ok(identity.address)
Document(document) ==
    /\ document = [controller_kind |-> document.controller_kind,
                   identity |-> document.identity, namespaces |-> document.namespaces,
                   schema_version |-> SchemaVersion]
    /\ document.controller_kind \in {"Pro", "JoyConL", "JoyConR"}
    /\ IdentityDocument(document.identity)
    /\ document.namespaces = [a \in DOMAIN document.namespaces |-> document.namespaces[a]]
    /\ \A a \in DOMAIN document.namespaces :
          a \in Octets /\ PeersDocument(document.namespaces[a])

LEMMA KeysSurvive ==
    ASSUME NEW keys, KeysDocument(keys)
    PROVE  KeysRecord(text_of(keys)) /\ KeysText(text_of(keys)) /\ keys_of(text_of(keys)) = keys
<1>1. text_of(keys) = [link_key |-> [authenticated |-> keys.link_key.authenticated,
                                     value |-> encode_hex(keys.link_key.value)],
                       link_key_type |-> keys.link_key_type]
  BY DEF KeysDocument, text_of
<1> QED
  BY <1>1 DEF KeysDocument, KeysRecord, KeysText, keys_of, encode_hex, LinkKeyBytes, hexadecimal

LEMMA KeysRead ==
    ASSUME NEW text, KeysRecord(text)
    PROVE  KeysDocument(keys_of(text))
  BY DEF KeysDocument, KeysRecord, keys_of

PeersToText(peers) == [p \in {peer_text(a) : a \in DOMAIN peers} |-> text_of(peers[p.octets])]
PeersOfText(peers) == [b \in {p.octets : p \in DOMAIN peers} |-> keys_of(peers[peer_text(b)])]

LEMMA PeersSurvive ==
    ASSUME NEW peers, PeersDocument(peers)
    PROVE  /\ PeersText(PeersToText(peers))
           /\ \A p \in DOMAIN PeersToText(peers) :
                 ClassicPeerKey(p) /\ KeysText(PeersToText(peers)[p])
           /\ PeersOfText(PeersToText(peers)) = peers
<1> DEFINE text == PeersToText(peers)
<1>1. DOMAIN text = {peer_text(a) : a \in DOMAIN peers}
  BY DEF PeersToText
<1>2. \A a \in DOMAIN peers : peer_text(a).octets = a /\ text[peer_text(a)] = text_of(peers[a])
  BY DEF PeersToText, peer_text
<1>3. IsFiniteSet(DOMAIN text)
  <2>1. AtMostOne({peer_text(a) : a \in DOMAIN peers})
    <3>1. CASE DOMAIN peers = {}
      BY <3>1 DEF AtMostOne
    <3>2. ASSUME NEW x, DOMAIN peers = {x} PROVE {peer_text(a) : a \in DOMAIN peers} = {peer_text(x)}
      BY <3>2
    <3> QED
      BY <3>1, <3>2 DEF PeersDocument, AtMostOne
  <2> QED
    BY <1>1, <2>1, AtMostOneCounted
<1>4. \A p \in DOMAIN text : PeerText(p) /\ ClassicPeerKey(p)
  BY <1>1 DEF PeersDocument, PeerText, peer_text, ClassicPeerKey,
              is_canonical_bluetooth_address, is_bluetooth_address, hexadecimal
<1>5. \A p \in DOMAIN text : KeysRecord(text[p]) /\ KeysText(text[p])
  BY <1>1, <1>2, KeysSurvive DEF PeersDocument
<1>6. text = [p \in DOMAIN text |-> text[p]]
  BY DEF PeersToText
<1>7. {p.octets : p \in DOMAIN text} = DOMAIN peers
  BY <1>1, <1>2
<1>8. \A a \in DOMAIN peers : keys_of(text[peer_text(a)]) = peers[a]
  BY <1>2, KeysSurvive DEF PeersDocument
<1>9. PeersOfText(text) = [a \in DOMAIN peers |-> peers[a]]
  BY <1>7, <1>8 DEF PeersOfText
<1> QED
  BY <1>3, <1>4, <1>5, <1>6, <1>9 DEF PeersText, PeersDocument

LEMMA PeersRead ==
    ASSUME NEW peers, PeersText(peers), \A p \in DOMAIN peers : ClassicPeerKey(p)
    PROVE  /\ IsFiniteSet(DOMAIN PeersOfText(peers))
           /\ PeersOfText(peers) = [p \in DOMAIN PeersOfText(peers) |-> PeersOfText(peers)[p]]
           /\ \A p \in DOMAIN PeersOfText(peers) : p \in Octets /\ KeysDocument(PeersOfText(peers)[p])
<1>1. DOMAIN PeersOfText(peers) = {p.octets : p \in DOMAIN peers}
  BY DEF PeersOfText
<1>2. \A p \in DOMAIN peers : p.octets \in Octets /\ p = peer_text(p.octets)
  BY DEF PeersText, PeerText, peer_text, ClassicPeerKey,
         is_canonical_bluetooth_address, is_bluetooth_address, hexadecimal
<1>3. \A b \in DOMAIN PeersOfText(peers) :
          b \in Octets /\ peer_text(b) \in DOMAIN peers
            /\ PeersOfText(peers)[b] = keys_of(peers[peer_text(b)])
  BY <1>1, <1>2 DEF PeersOfText
<1>4. IsFiniteSet({p.octets : p \in DOMAIN peers})
  <2> DEFINE f == [p \in DOMAIN peers |-> p.octets]
  <2>1. f \in Surjection(DOMAIN peers, {p.octets : p \in DOMAIN peers})
    BY DEF Surjection
  <2> QED
    BY <2>1, FS_Surjection DEF PeersText
<1> QED
  BY <1>1, <1>3, <1>4, KeysRead DEF PeersText, PeersOfText

LEMMA IdentitySurvives ==
    ASSUME NEW identity, IdentityDocument(identity)
    PROVE  /\ IdentityField(identity_text(identity))
           /\ IdentityText(identity_text(identity))
           /\ as_public_identity(identity_text(identity)) = identity
<1>1. CASE identity = AdapterDefault
  BY <1>1 DEF identity_text, IdentityField, IdentityText, as_public_identity
<1>2. CASE /\ identity = LocalAddress(identity.address) /\ identity.address \in Octets
           /\ try_from(identity.address) = Ok(identity.address)
  <2> DEFINE octets == identity.address
  <2> HIDE DEF octets
  <2>0. /\ identity = LocalAddress(octets) /\ octets \in Octets
        /\ try_from(octets) = Ok(octets)
    BY <1>2 DEF octets
  <2>1. identity # AdapterDefault
    BY <2>0 DEF AdapterDefault, LocalAddress
  <2>2. identity_text(identity) = [kind |-> "exp-local-address",
                                   address |-> [form |-> "upper", octets |-> octets]]
    BY <2>0, <2>1 DEF identity_text, LocalAddress, format_local_address
  <2>3. LocalAddress_parse([form |-> "upper", octets |-> octets]) = Ok(octets)
    BY <2>0 DEF LocalAddress_parse, hexadecimal
  <2>4. AddressText([form |-> "upper", octets |-> octets])
    BY <2>0 DEF AddressText
  <2> QED
    BY <2>0, <2>2, <2>3, <2>4, Results DEF IdentityField, IdentityText, as_public_identity
<1> QED
  BY <1>1, <1>2 DEF IdentityDocument

LEMMA ParsedAddress ==
    ASSUME NEW text, AddressText(text), ~IsErr(LocalAddress_parse(text))
    PROVE  /\ text.octets \in Octets /\ try_from(text.octets) = Ok(text.octets)
           /\ LocalAddress_parse(text).ok = text.octets
<1>1. LocalAddress_parse(text) = try_from(text.octets)
  BY Results DEF LocalAddress_parse
<1>2. try_from(text.octets) = Ok(text.octets)
  BY <1>1, Results DEF try_from
<1> QED
  BY <1>1, <1>2, Results DEF AddressText

LEMMA IdentityRead ==
    ASSUME NEW text, IdentityField(text), IdentityText(text)
    PROVE  IdentityDocument(as_public_identity(text))
<1>1. CASE text = [kind |-> "adapter-default"]
  BY <1>1 DEF as_public_identity, IdentityDocument
<1>2. CASE text = [kind |-> "exp-local-address", address |-> text.address]
              /\ AddressText(text.address)
  <2>1. text.kind = "exp-local-address"
    BY <1>2
  <2>2. ~IsErr(LocalAddress_parse(text.address))
    BY <2>1 DEF IdentityText
  <2> DEFINE octets == text.address.octets
  <2>3. octets \in Octets /\ try_from(octets) = Ok(octets)
    BY <1>2, <2>2, ParsedAddress
  <2>4. as_public_identity(text) = LocalAddress(octets)
    BY <1>2, <2>1, <2>2, ParsedAddress DEF as_public_identity
  <2>5. LocalAddress(octets).address = octets
    BY DEF LocalAddress
  <2> QED
    BY <2>3, <2>4, <2>5 DEF IdentityDocument
<1> QED
  BY <1>1, <1>2 DEF IdentityField

LEMMA SerializedNamespaces ==
    ASSUME NEW document, Document(document)
    PROVE  LET text == to_json_bytes(document)
               namespaces == document.namespaces
           IN  /\ DOMAIN text.namespaces = {namespace_text(a) : a \in DOMAIN namespaces}
               /\ \A a \in DOMAIN namespaces :
                     /\ namespace_text(a).octets = a
                     /\ text.namespaces[namespace_text(a)] = PeersToText(namespaces[a])
               /\ text.namespaces = [n \in DOMAIN text.namespaces |-> text.namespaces[n]]
  BY DEF to_json_bytes, namespace_text, PeersToText

\* Whatever document the program serializes (to_json_bytes), it parses and
\* validates again (parse_json), and gets that document back: no create and no
\* upsert can leave a profile the program itself would refuse or misread.
THEOREM WrittenIsRead ==
    ASSUME NEW document, Document(document)
    PROVE  /\ FileText(to_json_bytes(document))
           /\ parse_json(to_json_bytes(document)) = Ok(document)
<1> DEFINE text == to_json_bytes(document)
           namespaces == document.namespaces
<1>1. text = [strict |-> TRUE, controller_kind |-> kind_text(document.controller_kind),
               identity |-> identity_text(document.identity),
               schema_version |-> SchemaVersion, namespaces |-> text.namespaces]
  <2>1. document.schema_version = SchemaVersion
    BY DEF Document
  <2> QED
    BY <2>1 DEF to_json_bytes
<1>2. /\ DOMAIN text.namespaces = {namespace_text(a) : a \in DOMAIN namespaces}
      /\ \A a \in DOMAIN namespaces :
            /\ namespace_text(a).octets = a
            /\ text.namespaces[namespace_text(a)] = PeersToText(namespaces[a])
      /\ text.namespaces = [n \in DOMAIN text.namespaces |-> text.namespaces[n]]
  BY SerializedNamespaces
<1> HIDE DEF text
<1>3. \A n \in DOMAIN text.namespaces :
        /\ AddressText(n) /\ BluetoothAddressKey(n)
        /\ PeersText(text.namespaces[n])
        /\ \A p \in DOMAIN text.namespaces[n] :
              ClassicPeerKey(p) /\ KeysText(text.namespaces[n][p])
  <2> SUFFICES ASSUME NEW a \in DOMAIN namespaces
               PROVE  /\ AddressText(namespace_text(a)) /\ BluetoothAddressKey(namespace_text(a))
                      /\ PeersText(PeersToText(namespaces[a]))
                      /\ \A p \in DOMAIN PeersToText(namespaces[a]) :
                            ClassicPeerKey(p) /\ KeysText(PeersToText(namespaces[a])[p])
    BY <1>2
  <2>1. a \in Octets /\ PeersDocument(namespaces[a])
    BY DEF Document
  <2>2. AddressText(namespace_text(a)) /\ BluetoothAddressKey(namespace_text(a))
    BY <2>1 DEF AddressText, namespace_text, BluetoothAddressKey,
                is_canonical_bluetooth_address, is_bluetooth_address, hexadecimal
  <2> QED
    BY <2>1, <2>2, PeersSurvive
<1>4. FileText(text)
  <2>1. kind_text(document.controller_kind) \in {"pro", "joycon_l", "joycon_r"}
    BY DEF Document, kind_text
  <2>2. IdentityField(identity_text(document.identity))
    BY IdentitySurvives DEF Document
  <2>3. text = [strict |-> text.strict, controller_kind |-> text.controller_kind,
                identity |-> text.identity, schema_version |-> text.schema_version,
                namespaces |-> text.namespaces]
    BY <1>1
  <2>4. /\ text.strict \in BOOLEAN
        /\ text.controller_kind = kind_text(document.controller_kind)
        /\ text.identity = identity_text(document.identity)
    BY DEF text, to_json_bytes
  <2> QED
    BY <1>2, <1>3, <2>1, <2>2, <2>3, <2>4 DEF FileText
<1>5. Deserializable(text)
  <2>1. IdentityText(identity_text(document.identity))
    BY IdentitySurvives DEF Document
  <2> QED
    BY <1>1, <1>3, <2>1 DEF Deserializable
<1>6. deserialize(text) = document
  <2>1. as_public_kind(text.controller_kind) = document.controller_kind
    BY <1>1 DEF as_public_kind, kind_text, Document
  <2>2. as_public_identity(text.identity) = document.identity
    BY <1>1, IdentitySurvives DEF Document
  <2>3. {n.octets : n \in DOMAIN text.namespaces} = DOMAIN namespaces
    BY <1>2
  <2>4. \A a \in DOMAIN namespaces : PeersOfText(text.namespaces[namespace_text(a)]) = namespaces[a]
    BY <1>2, PeersSurvive DEF Document
  <2>5. deserialize(text).namespaces
            = [a \in DOMAIN namespaces |-> PeersOfText(text.namespaces[namespace_text(a)])]
    BY <2>3 DEF deserialize, PeersOfText
  <2>6. deserialize(text).namespaces = namespaces
    BY <2>4, <2>5 DEF Document
  <2>7. deserialize(text) = [controller_kind |-> as_public_kind(text.controller_kind),
                             identity |-> as_public_identity(text.identity),
                             schema_version |-> text.schema_version,
                             namespaces |-> deserialize(text).namespaces]
    BY DEF deserialize
  <2> QED
    BY <1>1, <2>1, <2>2, <2>6, <2>7 DEF Document
<1>7. validate(document)
  BY AtMostOneCounted DEF Document, PeersDocument, validate
<1> QED
  BY <1>4, <1>5, <1>6, <1>7 DEF parse_json, text

\* What the program holds of any file it accepts is a document.
LEMMA ReadIsDocument ==
    ASSUME NEW text, FileText(text), ~IsErr(parse_json(text))
    PROVE  /\ Document(parse_json(text).ok)
           /\ parse_json(text) = Ok(parse_json(text).ok)
<1> DEFINE document == deserialize(text)
           namespaces == document.namespaces
<1>1. parse_json(text) = Ok(document) /\ Deserializable(text) /\ validate(document)
  BY Results DEF parse_json
<1>2. \A n \in DOMAIN text.namespaces :
        /\ n.octets \in Octets /\ namespace_text(n.octets) = n
        /\ PeersText(text.namespaces[n])
        /\ \A p \in DOMAIN text.namespaces[n] : ClassicPeerKey(p)
  BY <1>1 DEF Deserializable, FileText, AddressText, namespace_text, BluetoothAddressKey,
              is_canonical_bluetooth_address, is_bluetooth_address, hexadecimal
<1>3. namespaces = [a \in {n.octets : n \in DOMAIN text.namespaces} |->
                        PeersOfText(text.namespaces[namespace_text(a)])]
  BY DEF deserialize, PeersOfText
<1>4. document = [controller_kind |-> as_public_kind(text.controller_kind),
                  identity |-> as_public_identity(text.identity),
                  schema_version |-> SchemaVersion, namespaces |-> namespaces]
  BY <1>1 DEF deserialize, validate
<1> HIDE DEF document
<1>5. ASSUME NEW a \in DOMAIN namespaces PROVE a \in Octets /\ PeersDocument(namespaces[a])
  <2>1. PICK n \in DOMAIN text.namespaces : a = n.octets
    BY <1>3
  <2>2. a \in Octets /\ namespaces[a] = PeersOfText(text.namespaces[n])
    BY <1>2, <1>3, <2>1
  <2>3. Cardinality(DOMAIN namespaces[a]) <= 1
    BY <1>1 DEF validate
  <2>4. IsFiniteSet(DOMAIN PeersOfText(text.namespaces[n]))
    BY <1>2, PeersRead
  <2>5. AtMostOne(DOMAIN namespaces[a])
    BY <2>2, <2>3, <2>4, AtMostOneCounted
  <2> QED
    BY <1>2, <2>2, <2>5, PeersRead DEF PeersDocument
<1>6. namespaces = [a \in DOMAIN namespaces |-> namespaces[a]]
  BY <1>3
<1>7. as_public_kind(text.controller_kind) \in {"Pro", "JoyConL", "JoyConR"}
  BY DEF as_public_kind, FileText
<1>8. IdentityDocument(as_public_identity(text.identity))
  BY <1>1, IdentityRead DEF FileText, Deserializable
<1>9. Document(document)
  BY <1>4, <1>5, <1>6, <1>7, <1>8 DEF Document
<1> QED
  BY <1>1, <1>9, Results

-----------------------------------------------------------------------------
(* The inductive invariant *)

\* The file is one that can be read, and an adapter answers with six octets.
StoredOK == file = Absent \/ FileText(file)
AdaptersOK ==
    /\ bus \in Buses /\ DOMAIN active = {bus[n].id : n \in DOMAIN bus}
    /\ active = [d \in DOMAIN active |-> active[d]]
    /\ \A d \in DOMAIN active : active[d] \in Octets
ControllerOK ==
    controller # None =>
        /\ controller = Configured(controller.kind, controller.persistent,
                                   controller.identity, controller.selector)
        /\ controller.kind \in {"Pro", "JoyConL", "JoyConR"}
        /\ controller.persistent \in BOOLEAN
        /\ IdentityDocument(controller.identity)
RuntimeOK ==
    /\ runtime = [state |-> runtime.state, cause |-> runtime.cause]
    /\ runtime.state \in States
SessionRecord(s) ==
    /\ DOMAIN s = {"device", "address", "persistent", "kind", "volatile", "pairable", "peer"}
    /\ s.device \in DOMAIN active /\ s.address = active[s.device]
    /\ s.persistent \in BOOLEAN /\ s.pairable \in BOOLEAN
SessionOK == session # None => SessionRecord(session)
SameSession(s) ==
    /\ SessionRecord(s) /\ s # None /\ s.device = session.device
    /\ s.persistent = session.persistent /\ s.address = session.address
CallOK ==
    /\ call \in [name : {"idle", "open", "create", "pair", "reconnect", "connect"},
                 phase : {"idle", "open", "begin", "wait"},
                 path : {"none", "Pair", "Reconnect"}, allow : BOOLEAN]
    /\ call.phase = "idle" => call = Idle
    /\ call.phase = "open" =>
          /\ call.name \in {"open", "create"} /\ controller # None
          /\ runtime.state = "none"
          /\ call.name = "create" => call.path = "Pair"
    /\ call.phase \in {"begin", "wait"} =>
          /\ call.name \in {"create", "pair", "reconnect", "connect"}
          /\ call.path \in {"Pair", "Reconnect"} /\ controller # None
          /\ runtime.state # "none"
    /\ call.phase = "wait" => runtime.state = "open"
\* A creation does not pair before its worker is told to: so the failure it may
\* find when it does is not one of the bond store.
Unpaired ==
    call.name = "create" /\ call.phase = "begin" =>
        /\ session # None => session.pairable = FALSE
        /\ runtime.state = "failed" => runtime.cause # Transport("InvalidKeyStore")
Held ==
    /\ claimed = IF session = None THEN {} ELSE {session.device}
    /\ (session # None) = (runtime.state \in {"open", "ready"})
    /\ controller = None => runtime.state = "none"
CountersOK ==
    /\ left \in [calls : 0..MaxCalls, faults : 0..MaxFaults, changes : 0..MaxChanges]
    /\ written \in Nat
    /\ \A t \in trusted : t[1] \in Consoles /\ t[3] \in Keys
Control == ControllerOK /\ RuntimeOK /\ SessionOK /\ CallOK /\ Unpaired /\ Held
IInv == StoredOK /\ AdaptersOK /\ Control /\ CountersOK /\ RemembersPairings

LEMMA Spent ==
    ASSUME CountersOK, NEW k \in {"calls", "faults", "changes"}, Spend(k)
    PROVE  left' \in [calls : 0..MaxCalls, faults : 0..MaxFaults, changes : 0..MaxChanges]
  BY TransportAssumption DEF CountersOK, Spend

\* The adapter a controller was configured with, and its address once the
\* backend has written the one the profile asks for.
LEMMA Addressed ==
    ASSUME AdaptersOK, ControllerOK, controller # None, controller.selector \in Selectors
    PROVE  LET device == Selected(controller.selector)
           IN  /\ device.id \in DOMAIN active
               /\ DOMAIN Identified(device) = DOMAIN active
               /\ Identified(device) = [d \in DOMAIN active |-> Identified(device)[d]]
               /\ \A d \in DOMAIN active : Identified(device)[d] \in Octets
               /\ Reverse(le_address(device)) = Identified(device)[device.id]
<1> DEFINE device == Selected(controller.selector)
<1>1. \E i \in list_adapters(bus) : device = bus[i]
  BY DEF Selected, Selectors
<1>2. device.id \in DOMAIN active
  BY <1>1 DEF AdaptersOK, list_adapters
<1> HIDE DEF device
<1>3. CASE controller.identity = AdapterDefault
  <2>1. Identified(device) = active
    BY <1>3 DEF Identified
  <2>2. active[device.id] \in Octets
    BY <1>2 DEF AdaptersOK
  <2> QED
    BY <1>2, <2>1, <2>2, ReversedTwice DEF AdaptersOK, le_address, device
<1>4. CASE controller.identity # AdapterDefault
  <2>1. controller.identity.address \in Octets
    BY <1>4 DEF ControllerOK, IdentityDocument
  <2>2. Reverse(map_profile_identity(controller.identity)) = controller.identity.address
    BY <2>1, ReversedTwice DEF map_profile_identity
  <2>3. Identified(device) = [active EXCEPT ![device.id] = controller.identity.address]
    BY <1>4, <2>2 DEF Identified
  <2>4. /\ DOMAIN Identified(device) = DOMAIN active
        /\ Identified(device) = [d \in DOMAIN active |-> Identified(device)[d]]
        /\ \A d \in DOMAIN active : Identified(device)[d] \in Octets
        /\ Identified(device)[device.id] = controller.identity.address
    BY <1>2, <2>1, <2>3 DEF AdaptersOK
  <2> QED
    BY <1>2, <2>1, <2>4, ReversedTwice DEF le_address, device
<1> QED
  BY <1>3, <1>4

LEMMA ActiveSteps ==
    ASSUME AdaptersOK, ControllerOK, CallOK, Next
    PROVE  AdaptersOK'
<1>1. CASE Opened \/ SpawnFails \/ \E kind \in OpenErrors : OpenFails(kind)
  <2>1. controller # None /\ controller.selector \in Selectors
    BY <1>1 DEF OpenFails, Opened, SpawnFails, CallOK
  <2>2. bus' = bus /\ (active' = active \/ active' = Identified(Selected(controller.selector)))
    BY <1>1 DEF OpenFails, Opened, SpawnFails
  <2> QED
    BY <2>1, <2>2, Addressed DEF AdaptersOK
<1>2. CASE \E devices \in Buses : Replug(devices)
  <2>1. PICK devices \in Buses : bus' = devices /\ active' = Own(devices)
    BY <1>2 DEF Replug
  <2>2. \A i \in {devices[n].id : n \in DOMAIN devices} : Own(devices)[i] \in Octets
    BY DataAssumption DEF Own, ToSet
  <2>3. /\ DOMAIN Own(devices) = {devices[n].id : n \in DOMAIN devices}
        /\ Own(devices) = [i \in DOMAIN Own(devices) |-> Own(devices)[i]]
    BY DEF Own
  <2> QED
    BY <2>1, <2>2, <2>3 DEF AdaptersOK
<1>3. CASE UNCHANGED <<bus, active>>
  BY <1>3 DEF AdaptersOK
<1>4. Construct \/ (\E name \in {"build", "create"} : StoreFails(name)) => UNCHANGED <<bus, active>>
  BY DEF Construct, build, create_profile, StoreFails, outside
<1>5. open \/ NoAdapter => UNCHANGED <<bus, active>>
  BY DEF open, NoAdapter, outside
<1>6. Connecting => UNCHANGED <<bus, active>>
  BY DEF Connecting, pair, reconnect, connect, Called, start_pairing, start_reconnect, BeginTooLate,
         BeginFails, Bonded, PollFails, input, InputRejected, BecomesReady, TimedOut,
         Disconnected, Lost, outside
<1>7. Closing \/ Stopped => UNCHANGED <<bus, active>>
  BY DEF Closing, Drop, close, Stopped, outside, vars
<1>8. (\E text \in Strangers \cup {Absent} : Replace(text)) \/ (\E t \in trusted : Forget(t))
        => UNCHANGED <<bus, active>>
  BY DEF Replace, Forget, outside
<1> QED
  BY <1>1, <1>2, <1>3, <1>4, <1>5, <1>6, <1>7, <1>8 DEF Next, Opening, Environment

LEMMA PortClosed ==
    ASSUME Held, session # None, ClosePort
    PROVE  session' = None /\ claimed' = {}
  BY DEF Held, ClosePort

\* How a connection command ends, or connect goes on to pairing.
LEMMA Concluded ==
    ASSUME NEW outcome, NEW cause, Conclude(outcome, cause)
    PROVE  \/ /\ call' = Idle
              /\ result' = [call |-> call.name, outcome |-> outcome, cause |-> cause]
           \/ /\ call.name = "connect" /\ call.path = "Reconnect" /\ call.allow
              /\ outcome = "NoBond" /\ result' = result
              /\ call' = [call EXCEPT !.path = "Pair", !.phase = "begin"]
  BY DEF Conclude, FallsBack, Return

LEMMA CallConcluded ==
    ASSUME CallOK, NEW outcome, NEW cause, Conclude(outcome, cause),
           controller' # None, runtime'.state # "none"
    PROVE  CallOK' /\ Unpaired'
<1>1. CASE call' = Idle
  BY <1>1 DEF CallOK, Unpaired, Idle
<1>2. CASE /\ call.name = "connect"
           /\ call' = [call EXCEPT !.path = "Pair", !.phase = "begin"]
  <2>1. /\ call'.name = "connect" /\ call'.path = "Pair" /\ call'.phase = "begin"
        /\ call'.allow \in BOOLEAN
        /\ call' \in [name : {"idle", "open", "create", "pair", "reconnect", "connect"},
                      phase : {"idle", "open", "begin", "wait"},
                      path : {"none", "Pair", "Reconnect"}, allow : BOOLEAN]
    BY <1>2 DEF CallOK
  <2> QED
    BY <2>1 DEF CallOK, Unpaired
<1> QED
  BY <1>1, <1>2, Concluded

LEMMA GivesSteps ==
    ASSUME IInv, NEW outcome, NEW cause, NEW s, Gives(outcome, cause, s),
           call.phase \in {"begin", "wait"}, session # None,
           SameSession(s), UNCHANGED active
    PROVE  Control'
<1>1. call' \in {Idle, [call EXCEPT !.path = "Pair", !.phase = "begin"]}
        /\ (call' # Idle => call.name = "connect")
  BY Concluded DEF Gives
<1>2. CASE call.name = "create" /\ outcome # "Ok"
  <2>1. session' = None /\ claimed' = {} /\ runtime' = Running("none") /\ controller' = None
    BY <1>2, PortClosed DEF Gives, IInv, Control
  <2>2. call' = Idle
    BY <1>1, <1>2
  <2> QED
    BY <2>1, <2>2 DEF Control, ControllerOK, RuntimeOK, SessionOK, CallOK, Unpaired, Held,
                      Running, States, Idle
<1>3. CASE ~(call.name = "create" /\ outcome # "Ok")
  <2>1. session' = s /\ UNCHANGED <<claimed, runtime, controller>>
    BY <1>3 DEF Gives
  <2>2. SessionOK' /\ ControllerOK' /\ RuntimeOK' /\ Held'
    BY <2>1 DEF IInv, Control, ControllerOK, RuntimeOK, SessionOK, SessionRecord, Held, SameSession
  <2>3. CallOK' /\ Unpaired'
    <3>1. controller' # None /\ runtime'.state # "none"
      BY <2>1 DEF IInv, Control, CallOK
    <3> QED
      BY <3>1, CallConcluded DEF Gives, IInv, Control
  <2> QED
    BY <2>2, <2>3 DEF Control
<1> QED
  BY <1>2, <1>3

LEMMA WorkerFailsSteps ==
    ASSUME IInv, NEW error, NEW cause, WorkerFails(error, cause), Alive,
           (call.name = "create" /\ call.phase = "begin") => error # Transport("InvalidKeyStore"),
           UNCHANGED active
    PROVE  Control'
<1>1. session' = None /\ claimed' = {}
  BY PortClosed DEF WorkerFails, Alive, IInv, Control
<1>2. CASE call.phase = "wait"
  <2>1. call' \in {Idle, [call EXCEPT !.path = "Pair", !.phase = "begin"]}
          /\ (call' # Idle => call.name = "connect")
    BY <1>2, Concluded DEF WorkerFails
  <2>2. CASE call.name = "create"
    <3>1. runtime' = Running("none") /\ controller' = None /\ call' = Idle
      BY <1>2, <2>1, <2>2 DEF WorkerFails
    <3> QED
      BY <1>1, <3>1 DEF Control, ControllerOK, RuntimeOK, SessionOK, CallOK, Unpaired, Held,
                        Running, States, Idle
  <2>3. CASE call.name # "create"
    <3>1. runtime' = Failed(error) /\ controller' = controller
      BY <1>2, <2>3 DEF WorkerFails
    <3>2. ControllerOK' /\ RuntimeOK' /\ SessionOK' /\ Held'
      BY <1>1, <1>2, <3>1 DEF IInv, Control, ControllerOK, RuntimeOK, SessionOK, CallOK, Held,
                        Failed, States
    <3>3. CallOK' /\ Unpaired'
      <4>1. controller' # None /\ runtime'.state # "none"
        BY <1>2, <3>1 DEF IInv, Control, CallOK, Failed
      <4> QED
        BY <1>2, <4>1, CallConcluded DEF WorkerFails, IInv, Control
    <3> QED
      BY <3>2, <3>3 DEF Control
  <2> QED
    BY <2>2, <2>3
<1>3. CASE call.phase # "wait"
  <2>1. call' = call /\ runtime' = Failed(error) /\ controller' = controller
    BY <1>3 DEF WorkerFails
  <2>2. controller # None /\ runtime.state \in {"open", "ready"}
    BY DEF Alive, IInv, Control, Held
  <2>3. ControllerOK' /\ RuntimeOK' /\ SessionOK' /\ Held'
    BY <1>1, <2>1, <2>2 DEF IInv, Control, ControllerOK, RuntimeOK, SessionOK, Held, Failed, States
  <2>4. CallOK' /\ Unpaired'
    BY <1>1, <1>3, <2>1, <2>2 DEF IInv, Control, CallOK, Unpaired, Failed
  <2> QED
    BY <2>3, <2>4 DEF Control
<1> QED
  BY <1>2, <1>3

LEMMA QuietSteps ==
    ASSUME Control, UNCHANGED <<controller, runtime, session, claimed, call>>,
           session = None \/ UNCHANGED active
    PROVE  Control'
<1>1. SessionOK'
  BY DEF Control, SessionOK, SessionRecord
<1> QED
  BY <1>1 DEF Control, ControllerOK, RuntimeOK, CallOK, Unpaired, Held

\* A controller that takes its configuration, built or created.
LEMMA ConfiguredSteps ==
    ASSUME Control, call = Idle, controller = None, UNCHANGED <<port, runtime>>,
           controller' # None, ControllerOK',
           \/ call' = call
           \/ call' = [name |-> "create", phase |-> "open", path |-> "Pair", allow |-> FALSE]
    PROVE  Control'
<1>1. runtime.state = "none" /\ session = None
  BY DEF Control, Held
<1>2. CallOK'
  <2>1. runtime'.state = "none" /\ controller' # None
    BY <1>1
  <2>2. CASE call' = Idle
    BY <2>2 DEF CallOK, Idle
  <2>3. CASE call' = [name |-> "create", phase |-> "open", path |-> "Pair", allow |-> FALSE]
    BY <2>1, <2>3 DEF CallOK
  <2> QED
    BY <2>2, <2>3
<1>3. Unpaired'
  BY DEF Unpaired, Idle
<1> QED
  BY <1>1, <1>2, <1>3 DEF Control, RuntimeOK, SessionOK, Held, port

LEMMA ReadProfile ==
    ASSUME StoredOK, NEW kind, file # Absent, ~IsErr(from_json(kind, file))
    PROVE  /\ ~IsErr(parse_json(file))
           /\ from_json(kind, file).ok = parse_json(file).ok
           /\ Document(parse_json(file).ok) /\ parse_json(file).ok.controller_kind = kind
  BY ReadIsDocument, Results DEF StoredOK, from_json, typed

LEMMA buildSteps ==
    ASSUME IInv, NEW kind \in Kinds, NEW persistent \in BOOLEAN, NEW period, NEW n,
           build(kind, persistent, period, n)
    PROVE  Control'
<1> DEFINE profile == IF IsErr(validate_settings(period)) THEN validate_settings(period)
                      ELSE IF persistent THEN read_typed_profile(kind) ELSE Ok(None)
<1>1. UNCHANGED <<port, runtime, active, call>>
  BY DEF build, outside, Refuse
<1>2. CASE IsErr(profile)
  <2>1. controller' = controller
    BY <1>2 DEF build
  <2> QED
    BY <1>1, <2>1, QuietSteps DEF IInv, port
<1>3. CASE ~IsErr(profile)
  <2>1. controller' = finalize_with_profile(kind, profile.ok, n)
    BY <1>3 DEF build
  <2>2. profile.ok = None \/ IdentityDocument(profile.ok.identity)
    <3>1. CASE ~persistent
      BY <1>3, <3>1, Results
    <3>2. CASE persistent /\ file = Absent
      BY <1>3, <3>2, Results DEF read_typed_profile
    <3>3. CASE persistent /\ file # Absent
      BY <1>3, <3>3, ReadProfile DEF read_typed_profile, IInv, Document
    <3> QED
      BY <3>1, <3>2, <3>3
  <2>3. IdentityDocument(AdapterDefault)
    BY DEF IdentityDocument
  <2> HIDE DEF profile
  <2>4. PICK p, identity : /\ p \in BOOLEAN /\ IdentityDocument(identity)
                           /\ controller' = Configured(kind, p, identity, n)
    BY <2>1, <2>2, <2>3 DEF finalize_with_profile
  <2>5. controller' # None
    BY <2>4 DEF Configured, None
  <2>6. ControllerOK'
    BY <2>4, TransportAssumption DEF ControllerOK, Configured
  <2> QED
    BY <1>1, <2>5, <2>6, ConfiguredSteps DEF build, IInv
<1> QED
  BY <1>2, <1>3

LEMMA RequestedIdentity ==
    ASSUME NEW text \in Identities, ~IsErr(Requested(text))
    PROVE  IdentityDocument(Requested(text).ok)
<1>1. CASE text = AdapterDefault
  BY <1>1, Results DEF Requested, IdentityDocument
<1>2. CASE text # AdapterDefault
  <2>1. ~IsErr(LocalAddress_parse(text)) /\ AddressText(text)
    BY <1>2, DataAssumption, Results DEF Requested
  <2>2. text.octets \in Octets /\ try_from(text.octets) = Ok(text.octets)
    BY <2>1, ParsedAddress
  <2>3. Requested(text).ok = LocalAddress(text.octets)
    BY <1>2, <2>1, ParsedAddress, Results DEF Requested
  <2>4. LocalAddress(text.octets).address = text.octets
    BY DEF LocalAddress
  <2> QED
    BY <2>2, <2>3, <2>4 DEF IdentityDocument
<1> QED
  BY <1>1, <1>2

\* A creation is refused, or writes a new profile where there is none.
LEMMA Created ==
    ASSUME NEW kind, NEW persistent, NEW period, NEW text \in Identities, NEW fits, NEW n,
           create_profile(kind, persistent, period, text, fits, n)
    PROVE  \/ UNCHANGED <<file, owed, controller, call>>
           \/ \E identity :
                /\ IdentityDocument(identity) /\ file = Absent
                /\ file' = to_json_bytes(empty(kind, identity)) /\ owed' = Empty
                /\ controller' = Configured(kind, TRUE, identity, n)
                /\ call' = [name |-> "create", phase |-> "open", path |-> "Pair", allow |-> FALSE]
                /\ result' = result
<1>1. CASE ~IsErr(Requested(text))
  BY <1>1, RequestedIdentity DEF create_profile, persist_and_configure, Refuse
<1>2. CASE IsErr(Requested(text))
  BY <1>2 DEF create_profile, Refuse
<1> QED
  BY <1>1, <1>2

LEMMA create_profileSteps ==
    ASSUME IInv, NEW kind \in Kinds, NEW persistent, NEW period, NEW text \in Identities,
           NEW fits, NEW n, create_profile(kind, persistent, period, text, fits, n)
    PROVE  Control'
<1>1. UNCHANGED <<port, runtime, active>> /\ call = Idle /\ controller = None
  BY DEF create_profile, outside
<1>2. CASE UNCHANGED <<file, owed, controller, call>>
  BY <1>1, <1>2, QuietSteps DEF IInv, port
<1>3. ASSUME NEW identity, IdentityDocument(identity),
             controller' = Configured(kind, TRUE, identity, n),
             call' = [name |-> "create", phase |-> "open", path |-> "Pair", allow |-> FALSE]
      PROVE  Control'
  <2>1. controller' # None
    BY <1>3 DEF Configured, None
  <2>2. ControllerOK'
    BY <1>3, TransportAssumption DEF ControllerOK, Configured
  <2> QED
    BY <1>1, <1>3, <2>1, <2>2, ConfiguredSteps DEF IInv
<1> QED
  BY <1>2, <1>3, Created

LEMMA openSteps == IInv /\ open => Control'
<1> SUFFICES ASSUME IInv, open PROVE Control'
  OBVIOUS
<1>1. UNCHANGED <<port, controller, runtime, active>> /\ call = Idle /\ controller # None
  BY DEF open, outside
<1>2. CASE runtime.state # "none"
  BY <1>1, <1>2, QuietSteps DEF open, Refuse, port, IInv
<1>3. CASE runtime.state = "none"
  <2>1. call' = [name |-> "open", phase |-> "open", path |-> "none", allow |-> FALSE]
    BY <1>3 DEF open
  <2>2. CallOK' /\ Unpaired'
    BY <1>1, <1>3, <2>1 DEF CallOK, Unpaired
  <2> QED
    BY <1>1, <2>2 DEF IInv, Control, ControllerOK, RuntimeOK, SessionOK, SessionRecord, Held, port
<1> QED
  BY <1>2, <1>3

\* An opening that fails.
LEMMA NotOpenedSteps ==
    ASSUME IInv, call.phase = "open", UNCHANGED <<port, runtime>>, call' = Idle,
           controller' = AfterFailure
    PROVE  Control'
<1>1. runtime.state = "none" /\ session = None /\ controller # None
  BY DEF IInv, Control, CallOK, Held
<1>2. CallOK' /\ Unpaired'
  BY DEF CallOK, Unpaired, Idle
<1>3. ControllerOK'
  BY DEF AfterFailure, ControllerOK, IInv, Control
<1> QED
  BY <1>1, <1>2, <1>3 DEF IInv, Control, RuntimeOK, SessionOK, Held, port

LEMMA OpenedAddress ==
    ASSUME NEW octets \in Octets
    PROVE  LET address == from_validated_classic_controller(octets)
           IN  /\ IsErr(address) => address.err = "InvalidControllerIdentity"
               /\ ~IsErr(address) => address.ok = octets
  BY Results DEF from_validated_classic_controller

LEMMA OpenedSteps == IInv /\ Opened => Control'
<1> SUFFICES ASSUME IInv, Opened PROVE Control'
  OBVIOUS
<1> DEFINE device == Selected(controller.selector)
           address == capabilities_from_backend(le_address(device))
<1>1. /\ call.phase = "open" /\ controller # None /\ controller.selector \in Selectors
      /\ runtime.state = "none" /\ session = None /\ claimed = {}
      /\ call.name \in {"open", "create"}
  BY DEF Opened, IInv, Control, CallOK, Held
<1>2. active' = Identified(device)
  BY DEF Opened
<1>3. CASE IsErr(address)
  <2>1. call' = Idle /\ controller' = AfterFailure /\ UNCHANGED <<port, runtime>>
    BY <1>3 DEF Opened, Return
  <2> QED
    BY <1>1, <2>1, NotOpenedSteps
<1>4. CASE ~IsErr(address)
  <2>1. /\ session' = SessionOn(device, address.ok) /\ claimed' = {device.id}
        /\ runtime' = Running("open") /\ controller' = controller
        /\ call' = IF call.name = "create" THEN [call EXCEPT !.phase = "begin"] ELSE Idle
    BY <1>1, <1>4 DEF Opened, Return
  <2>2. /\ device.id \in DOMAIN active /\ DOMAIN Identified(device) = DOMAIN active
        /\ Identified(device)[device.id] \in Octets
        /\ Reverse(le_address(device)) = Identified(device)[device.id]
    BY <1>1, Addressed DEF IInv, Control
  <2>3. address.ok = active'[device.id]
    BY <1>2, <1>4, <2>2, OpenedAddress DEF capabilities_from_backend
  <2> HIDE DEF device, address
  <2>4. session'.device = device.id /\ session'.pairable = FALSE
    BY <2>1 DEF SessionOn
  <2>5. controller.persistent \in BOOLEAN
    BY <1>1 DEF IInv, Control, ControllerOK, Configured
  <2>6. SessionRecord(session)'
    BY <1>2, <2>1, <2>2, <2>3, <2>5 DEF SessionOn, SessionRecord
  <2>7. session' # None
    BY <2>1 DEF SessionOn, None
  <2>8. CASE call.name = "create"
    <3>1. call' = [call EXCEPT !.phase = "begin"]
      BY <2>1, <2>8
    <3>2. /\ call' \in [name : {"idle", "open", "create", "pair", "reconnect", "connect"},
                        phase : {"idle", "open", "begin", "wait"},
                        path : {"none", "Pair", "Reconnect"}, allow : BOOLEAN]
          /\ call'.phase = "begin" /\ call'.name = "create" /\ call'.path = call.path
      BY <3>1, <2>8 DEF IInv, Control, CallOK
    <3>3. call.path = "Pair"
      BY <1>1, <2>8 DEF IInv, Control, CallOK
    <3>4. CallOK'
      BY <1>1, <2>1, <3>2, <3>3 DEF CallOK, Running
    <3>5. Unpaired'
      BY <2>1, <2>4 DEF Unpaired, Running
    <3> QED
      BY <1>1, <2>1, <2>4, <2>6, <2>7, <3>4, <3>5 DEF IInv, Control, ControllerOK, RuntimeOK,
          SessionOK, Held, Running, States
  <2>9. CASE call.name # "create"
    <3>1. CallOK' /\ Unpaired'
      BY <2>1, <2>9 DEF CallOK, Unpaired, Idle
    <3> QED
      BY <1>1, <2>1, <2>4, <2>6, <2>7, <3>1 DEF IInv, Control, ControllerOK, RuntimeOK,
          SessionOK, Held, Running, States
  <2> QED
    BY <2>8, <2>9
<1> QED
  BY <1>3, <1>4

LEMMA CalledSteps ==
    ASSUME IInv, NEW name \in {"pair", "reconnect", "connect"}, NEW path \in {"Pair", "Reconnect"},
           NEW allow \in BOOLEAN, NEW fits, Called(name, path, allow, fits)
    PROVE  Control'
<1>1. UNCHANGED <<port, controller, runtime, active>> /\ call = Idle /\ controller # None
  BY DEF Called, outside
<1>2. CASE call' = call
  BY <1>1, <1>2, QuietSteps DEF port, IInv
<1>3. CASE call' = [name |-> name, phase |-> "begin", path |-> path, allow |-> allow]
           /\ runtime.state # "none"
  <2>1. CallOK' /\ Unpaired'
    BY <1>1, <1>3 DEF CallOK, Unpaired
  <2> QED
    BY <1>1, <2>1 DEF IInv, Control, ControllerOK, RuntimeOK, SessionOK, SessionRecord, Held, port
<1> QED
  BY <1>2, <1>3 DEF Called, Refuse

\* What a step does to a session leaves it the one it was.
LEMMA ChangedSession ==
    ASSUME SessionOK, session # None
    PROVE  /\ SameSession(session)
           /\ SameSession([session EXCEPT !.pairable = TRUE])
           /\ \A peer : SameSession([session EXCEPT !.peer = peer])
           /\ \A peer : SameSession([session EXCEPT !.peer = peer, !.pairable = FALSE])
           /\ \A peer : [session EXCEPT !.peer = peer, !.pairable = FALSE].pairable = FALSE
           /\ \A volatile, peer :
                 /\ SameSession([session EXCEPT !.volatile = volatile, !.peer = peer,
                                               !.pairable = FALSE])
                 /\ [session EXCEPT !.volatile = volatile, !.peer = peer,
                                    !.pairable = FALSE].pairable = FALSE
<1>1. SessionRecord(session)
  BY DEF SessionOK
<1>2. \A s : SessionRecord(s) => s # None
  BY DEF SessionRecord, None
<1>3. SameSession(session)
  BY <1>1, <1>2 DEF SameSession
<1>4. SameSession([session EXCEPT !.pairable = TRUE])
  BY <1>1, <1>2 DEF SameSession, SessionRecord
<1>5. ASSUME NEW peer PROVE SameSession([session EXCEPT !.peer = peer])
  BY <1>1, <1>2 DEF SameSession, SessionRecord
<1>6. ASSUME NEW peer
      PROVE  /\ SameSession([session EXCEPT !.peer = peer, !.pairable = FALSE])
             /\ [session EXCEPT !.peer = peer, !.pairable = FALSE].pairable = FALSE
  BY <1>1, <1>2 DEF SameSession, SessionRecord
<1>7. ASSUME NEW volatile, NEW peer
      PROVE  /\ SameSession([session EXCEPT !.volatile = volatile, !.peer = peer,
                                           !.pairable = FALSE])
             /\ [session EXCEPT !.volatile = volatile, !.peer = peer,
                                !.pairable = FALSE].pairable = FALSE
  BY <1>1, <1>2 DEF SameSession, SessionRecord
<1> QED
  BY <1>3, <1>4, <1>5, <1>6, <1>7, Zenon

LEMMA begin_connectionSteps ==
    ASSUME IInv, NEW s, begin_connection(s), call.phase = "begin", session # None,
           SameSession(s), UNCHANGED active
    PROVE  Control'
<1>1. CASE runtime.state = "open"
  <2>1. /\ call' = [call EXCEPT !.phase = "wait"] /\ session' = s
        /\ UNCHANGED <<claimed, runtime, controller>>
    BY <1>1 DEF begin_connection
  <2>2. /\ call' \in [name : {"idle", "open", "create", "pair", "reconnect", "connect"},
                      phase : {"idle", "open", "begin", "wait"},
                      path : {"none", "Pair", "Reconnect"}, allow : BOOLEAN]
        /\ call'.phase = "wait" /\ call'.name = call.name /\ call'.path = call.path
    BY <2>1 DEF IInv, Control, CallOK
  <2>3. CallOK' /\ Unpaired'
    BY <1>1, <2>1, <2>2 DEF IInv, Control, CallOK, Unpaired
  <2> QED
    BY <2>1, <2>3 DEF IInv, Control, ControllerOK, RuntimeOK, SessionOK, SessionRecord, Held, SameSession
<1>2. CASE runtime.state # "open"
  BY <1>2, GivesSteps DEF begin_connection
<1> QED
  BY <1>1, <1>2

LEMMA beginSteps ==
    ASSUME IInv, NEW kind,
           start_pairing \/ start_reconnect \/ BeginFails(kind)
    PROVE  Control'
<1>1. call.phase = "begin" /\ session # None /\ UNCHANGED active
  BY DEF start_pairing, start_reconnect, BeginFails, outside
<1>2. SessionOK
  BY DEF IInv, Control
<1>3. CASE start_pairing
  BY <1>1, <1>2, <1>3, ChangedSession, begin_connectionSteps DEF start_pairing
<1>4. CASE start_reconnect
  <2>1. \/ \E outcome, cause : Gives(outcome, cause, session)
        \/ \E peer : begin_connection([session EXCEPT !.peer = peer])
    BY <1>4 DEF start_reconnect
  <2> QED
    BY <1>1, <1>2, <2>1, ChangedSession, begin_connectionSteps, GivesSteps
<1>5. CASE BeginFails(kind)
  <2>1. \E outcome, cause : Gives(outcome, cause, session)
    BY <1>5 DEF BeginFails
  <2> QED
    BY <1>1, <1>2, <2>1, ChangedSession, GivesSteps
<1> QED
  BY <1>3, <1>4, <1>5

LEMMA BeginTooLateSteps == IInv /\ BeginTooLate => Control'
<1> SUFFICES ASSUME IInv, BeginTooLate PROVE Control'
  OBVIOUS
<1>1. /\ runtime.state = "failed" /\ session = None /\ call' = Idle /\ UNCHANGED port
      /\ \/ UNCHANGED <<runtime, controller>>
         \/ runtime' = Running("none") /\ controller' = None
  BY DEF BeginTooLate, Return, IInv, Control, Held
<1>2. CallOK' /\ Unpaired'
  BY <1>1 DEF CallOK, Unpaired, Idle
<1> QED
  BY <1>1, <1>2 DEF IInv, Control, ControllerOK, RuntimeOK, SessionOK, Held, port, Running, States

\* While a worker is alive, its session may come to another peer.
LEMMA AnotherPeer ==
    ASSUME IInv, Alive, SessionRecord(session)', session' # None,
           session'.device = session.device, session'.pairable = session.pairable
                                             \/ session'.pairable = FALSE,
           UNCHANGED <<claimed, call, controller, runtime, active>>
    PROVE  Control'
<1>1. Unpaired'
  BY DEF IInv, Control, Unpaired, Alive
<1> QED
  BY <1>1 DEF IInv, Control, ControllerOK, RuntimeOK, SessionOK, CallOK, Held, Alive

LEMMA BondedSteps ==
    ASSUME IInv, NEW console, NEW bond, Bonded(console, bond)
    PROVE  Control'
<1>1. Alive /\ session.pairable /\ UNCHANGED active /\ SessionOK /\ session # None
  BY DEF Bonded, Alive, IInv, Control
<1>2. CASE session.persistent /\ IsErr(read_profile(session))
  <2>1. \E error, cause : WorkerFails(error, cause)
    BY <1>2 DEF Bonded
  <2>2. ~(call.name = "create" /\ call.phase = "begin")
    BY <1>1 DEF IInv, Control, Unpaired
  <2> QED
    BY <1>1, <2>1, <2>2, WorkerFailsSteps
<1>3. CASE ~(session.persistent /\ IsErr(read_profile(session)))
  <2>1. /\ UNCHANGED <<claimed, call, controller, runtime>>
        /\ \/ session' = [session EXCEPT !.peer = console, !.pairable = FALSE]
           \/ session' = [session EXCEPT !.volatile = VolatileUpsert(console, bond),
                                         !.peer = console, !.pairable = FALSE]
    BY <1>3 DEF Bonded
  <2>2. SameSession(session') /\ session'.pairable = FALSE
    <3>1. CASE session' = [session EXCEPT !.peer = console, !.pairable = FALSE]
      BY <1>1, <3>1, ChangedSession, Zenon
    <3>2. CASE session' = [session EXCEPT !.volatile = VolatileUpsert(console, bond),
                                          !.peer = console, !.pairable = FALSE]
      BY <1>1, <3>2, ChangedSession, Zenon
    <3> QED
      BY <2>1, <3>1, <3>2
  <2>3. session' # None /\ session'.device = session.device
    BY <2>2 DEF SameSession
  <2>4. SessionRecord(session)'
    BY <1>1, <2>2 DEF SameSession, SessionRecord
  <2> QED
    BY <1>1, <2>1, <2>2, <2>3, <2>4, AnotherPeer
<1> QED
  BY <1>2, <1>3

LEMMA PollFailsSteps ==
    ASSUME IInv, NEW kind \in PollErrors, PollFails(kind)
    PROVE  Control'
<1>1. /\ Alive /\ UNCHANGED active
      /\ WorkerFails(Transport(map_backend_error_kind(kind)), kind)
      /\ kind = "InvalidBondStore" => session.pairable
  BY DEF PollFails, outside
<1>2. ASSUME call.name = "create", call.phase = "begin"
      PROVE  Transport(map_backend_error_kind(kind)) # Transport("InvalidKeyStore")
  <2>1. kind # "InvalidBondStore"
    BY <1>1, <1>2 DEF Alive, IInv, Control, Unpaired
  <2>2. map_backend_error_kind(kind) # "InvalidKeyStore"
    BY <2>1, TransportAssumption DEF map_backend_error_kind, BackendErrors
  <2> QED
    BY <2>2 DEF Transport
<1> QED
  BY <1>1, <1>2, WorkerFailsSteps

LEMMA ConnectedSteps ==
    ASSUME IInv, BecomesReady \/ TimedOut \/ Disconnected
    PROVE  Control'
<1>1. /\ call.phase = "wait" /\ session # None /\ UNCHANGED active /\ SessionOK
      /\ runtime.state = "open" /\ controller # None
  BY DEF BecomesReady, TimedOut, Disconnected, outside, IInv, Control, CallOK, Held
<1>2. CASE BecomesReady
  <2>1. /\ runtime' = Running("ready") /\ call' = Idle /\ UNCHANGED <<port, controller>>
    BY <1>2 DEF BecomesReady, Return
  <2>2. CallOK' /\ Unpaired'
    BY <2>1 DEF CallOK, Unpaired, Idle
  <2> QED
    BY <1>1, <2>1, <2>2 DEF IInv, Control, ControllerOK, RuntimeOK, SessionOK, SessionRecord,
                            Held, port, Running, States
<1>3. CASE TimedOut
  BY <1>1, <1>3, ChangedSession, GivesSteps DEF TimedOut
<1>4. CASE Disconnected
  <2>1. SameSession([session EXCEPT !.peer = None])
    BY <1>1, ChangedSession, Zenon
  <2> QED
    BY <1>1, <1>4, <2>1, GivesSteps DEF Disconnected
<1> QED
  BY <1>2, <1>3, <1>4

LEMMA LostSteps == IInv /\ Lost => Control'
<1> SUFFICES ASSUME IInv, Lost PROVE Control'
  OBVIOUS
<1>1. /\ runtime.state = "ready" /\ session # None /\ controller # None /\ SessionOK
      /\ UNCHANGED <<active, claimed, controller, call>> /\ call.phase # "wait"
      /\ runtime' = Running("open") /\ session' = [session EXCEPT !.peer = None]
  BY DEF Lost, outside, IInv, Control, CallOK, Held
<1>2. SameSession(session') /\ session'.pairable = session.pairable
  BY <1>1, ChangedSession DEF SessionOK, SessionRecord
<1>3. CallOK' /\ Unpaired'
  BY <1>1, <1>2 DEF IInv, Control, CallOK, Unpaired, Running
<1> QED
  BY <1>1, <1>2, <1>3 DEF IInv, Control, ControllerOK, RuntimeOK, SessionOK, SessionRecord,
                          SameSession, Held, Running, States

LEMMA InputRejectedSteps ==
    ASSUME IInv, NEW kind, InputRejected(kind)
    PROVE  Control'
<1>1. /\ call = Idle /\ call' = call /\ runtime.state = "ready" /\ session # None
      /\ controller # None /\ UNCHANGED <<active, controller>>
  BY DEF InputRejected, outside, IInv, Control, Held
<1>2. CASE kind = "SendRejected"
  BY <1>1, <1>2, QuietSteps DEF InputRejected, port, IInv
<1>3. CASE kind # "SendRejected"
  <2>1. session' = None /\ claimed' = {}
    BY <1>1, <1>3, PortClosed DEF InputRejected, IInv, Control
  <2>2. PICK error : runtime' = Failed(error)
    BY <1>3 DEF InputRejected
  <2>3. CallOK' /\ Unpaired'
    BY <1>1 DEF CallOK, Unpaired, Idle
  <2> QED
    BY <1>1, <2>1, <2>2, <2>3 DEF IInv, Control, ControllerOK, RuntimeOK, SessionOK, Held,
                                  Failed, States
<1> QED
  BY <1>2, <1>3

LEMMA ClosingSteps == IInv /\ Closing => Control'
<1> SUFFICES ASSUME IInv, Closing PROVE Control'
  OBVIOUS
<1>1. /\ call = Idle /\ call' = call /\ UNCHANGED active /\ controller # None
      /\ controller' = controller \/ controller' = None
  BY DEF Closing, Drop, close, Refuse, outside
<1>2. CASE UNCHANGED <<port, runtime>> /\ controller' = controller
  BY <1>1, <1>2, QuietSteps DEF port, IInv
<1>3. CASE /\ IF session = None THEN UNCHANGED port ELSE ClosePort
           /\ runtime' = Running("none")
  <2>1. session' = None /\ claimed' = {}
    BY <1>3, PortClosed DEF IInv, Control, Held, port
  <2>2. CallOK' /\ Unpaired'
    BY <1>1 DEF CallOK, Unpaired, Idle
  <2> QED
    BY <1>1, <1>3, <2>1, <2>2 DEF IInv, Control, ControllerOK, RuntimeOK, SessionOK, Held,
                                  Running, States
<1> QED
  BY <1>2, <1>3 DEF Closing, Drop, close

LEMMA ControlSteps == IInv /\ Next => Control'
<1> SUFFICES ASSUME IInv, Next PROVE Control'
  OBVIOUS
<1>1. CASE Construct
  BY <1>1, buildSteps, create_profileSteps DEF Construct
<1>2. CASE \E name \in {"build", "create"} : StoreFails(name)
  BY <1>2, QuietSteps DEF StoreFails, Refuse, port, outside, IInv
<1>3. CASE Opening
  <2>1. CASE open \/ Opened
    BY <2>1, openSteps, OpenedSteps
  <2>2. CASE NoAdapter \/ SpawnFails \/ \E kind \in OpenErrors : OpenFails(kind)
    BY <2>2, NotOpenedSteps DEF NoAdapter, SpawnFails, OpenFails, Return
  <2> QED
    BY <1>3, <2>1, <2>2 DEF Opening
<1>4. CASE Connecting
  <2>1. CASE (\E fits \in BOOLEAN : pair(fits) \/ reconnect(fits))
               \/ (\E allow, fits \in BOOLEAN : connect(allow, fits))
    BY <2>1, CalledSteps DEF pair, reconnect, connect
  <2>2. CASE start_pairing \/ start_reconnect \/ BeginTooLate
               \/ (\E kind \in BeginErrors : BeginFails(kind))
    BY <2>2, beginSteps, BeginTooLateSteps
  <2>3. CASE (\E console \in Consoles, bond \in Bonds : Bonded(console, bond))
               \/ (\E kind \in PollErrors : PollFails(kind))
    BY <2>3, BondedSteps, PollFailsSteps
  <2>4. CASE (\E c \in Inputs : input(c)) \/ (\E kind \in {"SendRejected", "Closed"} : InputRejected(kind))
    BY <2>4, QuietSteps, InputRejectedSteps DEF input, Refuse, port, outside, IInv
  <2>5. CASE BecomesReady \/ TimedOut \/ Disconnected \/ Lost
    BY <2>5, ConnectedSteps, LostSteps
  <2> QED
    BY <1>4, <2>1, <2>2, <2>3, <2>4, <2>5 DEF Connecting
<1>5. CASE Closing
  BY <1>5, ClosingSteps
<1>6. CASE Environment
  <2>1. CASE \E text \in Strangers \cup {Absent} : Replace(text)
    BY <2>1, QuietSteps DEF Replace, port, outside, IInv
  <2>2. CASE \E devices \in Buses : Replug(devices)
    <3>1. session = None
      BY <2>2 DEF Replug, IInv, Control, Held
    <3> QED
      BY <2>2, <3>1, QuietSteps DEF Replug, port, IInv
  <2>3. CASE \E t \in trusted : Forget(t)
    BY <2>3, QuietSteps DEF Forget, port, IInv
  <2> QED
    BY <1>6, <2>1, <2>2, <2>3 DEF Environment
<1>7. CASE Stopped
  BY <1>7, QuietSteps DEF Stopped, vars, IInv
<1> QED
  BY <1>1, <1>2, <1>3, <1>4, <1>5, <1>6, <1>7 DEF Next

LEMMA CountersSteps == IInv /\ Next => CountersOK'
<1> SUFFICES ASSUME IInv, Next PROVE CountersOK'
  OBVIOUS
<1>1. left' = left \/ \E k \in {"calls", "faults", "changes"} : Spend(k)
  <2>1. CASE Construct \/ (\E name \in {"build", "create"} : StoreFails(name)) \/ Closing
    BY <2>1 DEF Construct, build, create_profile, StoreFails, Closing, close, Drop
  <2>2. CASE Opening
    BY <2>2 DEF Opening, open, NoAdapter, Opened, SpawnFails, OpenFails
  <2>3. CASE Connecting
    BY <2>3 DEF Connecting, pair, reconnect, connect, Called, start_pairing, start_reconnect,
          BeginTooLate, BeginFails, Bonded, PollFails, input, InputRejected, BecomesReady,
          TimedOut, Disconnected, Lost
  <2>4. CASE Environment \/ Stopped
    BY <2>4 DEF Environment, Replace, Replug, Forget, Stopped, vars
  <2> QED
    BY <2>1, <2>2, <2>3, <2>4 DEF Next
<1>2. left' \in [calls : 0..MaxCalls, faults : 0..MaxFaults, changes : 0..MaxChanges]
  BY <1>1, Spent DEF IInv, CountersOK
<1>3. written' \in {written, written + 1} /\ (trusted' \subseteq trusted
        \/ \E console \in Consoles, bond \in Bonds : Bonded(console, bond))
  <2>1. CASE Construct \/ (\E name \in {"build", "create"} : StoreFails(name)) \/ Closing
    BY <2>1 DEF Construct, build, create_profile, StoreFails, Closing, close, Drop, outside, stored
  <2>2. CASE Opening
    BY <2>2 DEF Opening, open, NoAdapter, Opened, SpawnFails, OpenFails, outside, stored
  <2>3. CASE Connecting
    BY <2>3 DEF Connecting, pair, reconnect, connect, Called, start_pairing, start_reconnect,
          BeginTooLate, BeginFails, Bonded, PollFails, input, InputRejected, BecomesReady,
          TimedOut, Disconnected, Lost, outside, stored
  <2>4. CASE Environment \/ Stopped
    BY <2>4 DEF Environment, Replace, Replug, Forget, Stopped, vars, outside, stored
  <2> QED
    BY <2>1, <2>2, <2>3, <2>4 DEF Next
<1>4. ASSUME NEW console \in Consoles, NEW bond \in Bonds, Bonded(console, bond), NEW t \in trusted'
      PROVE  t[1] \in Consoles /\ t[3] \in Keys
  <2>1. t \in trusted \/ t = <<console, session.address, bond.link_key>>
    BY <1>4 DEF Bonded
  <2>2. bond.link_key \in Keys
    BY DEF Bonds, StoredClassicBond
  <2> QED
    BY <2>1, <2>2 DEF IInv, CountersOK
<1>5. \A t \in trusted' : t[1] \in Consoles /\ t[3] \in Keys
  BY <1>3, <1>4 DEF IInv, CountersOK
<1> QED
  BY <1>2, <1>3, <1>5 DEF IInv, CountersOK

-----------------------------------------------------------------------------
(* The profile *)

\* One namespace of a document replaced: the others, and all else, stay.
OneReplaced(old, new, namespace, peer, bond) ==
    /\ new.controller_kind = old.controller_kind
    /\ new.identity = old.identity
    /\ DOMAIN new.namespaces = DOMAIN old.namespaces \cup {namespace}
    /\ \A a \in DOMAIN old.namespaces \ {namespace} : new.namespaces[a] = old.namespaces[a]
    /\ all_pairing_keys(new, namespace) = [p \in {peer} |-> bond]

LEMMA Replaced ==
    ASSUME NEW document, Document(document), NEW namespace \in Octets, NEW peer \in Octets,
           NEW bond, bond = StoredClassicBond(bond.link_key, bond.link_key_type, bond.authenticated)
    PROVE  LET new == replace_pairing_keys(document, namespace, peer, bond)
           IN  Document(new) /\ OneReplaced(document, new, namespace, peer, bond)
<1> DEFINE new == replace_pairing_keys(document, namespace, peer, bond)
           alone == [p \in {peer} |-> from_stored_bond(bond)]
           namespaces == [a \in DOMAIN document.namespaces \cup {namespace} |->
                             IF a = namespace THEN alone ELSE document.namespaces[a]]
<1>1. new = [document EXCEPT !.namespaces = namespaces]
  BY DEF replace_pairing_keys
<1>2. PeersDocument(alone)
  <2>1. KeysDocument(from_stored_bond(bond))
    BY DEF KeysDocument, from_stored_bond
  <2>2. AtMostOne({peer})
    BY DEF AtMostOne
  <2> QED
    BY <2>1, <2>2 DEF PeersDocument
<1>3. to_stored_bond(from_stored_bond(bond)) = bond
  BY DEF to_stored_bond, from_stored_bond, StoredClassicBond
<1>4. /\ namespaces = [a \in DOMAIN namespaces |-> namespaces[a]]
      /\ \A a \in DOMAIN namespaces : a \in Octets /\ PeersDocument(namespaces[a])
      /\ DOMAIN namespaces = DOMAIN document.namespaces \cup {namespace}
      /\ namespaces[namespace] = alone
      /\ \A a \in DOMAIN document.namespaces \ {namespace} : namespaces[a] = document.namespaces[a]
  <2> HIDE DEF alone
  <2> QED
    BY <1>2 DEF Document
<1> HIDE DEF namespaces
<1>5. /\ new = [controller_kind |-> document.controller_kind, identity |-> document.identity,
                namespaces |-> namespaces, schema_version |-> SchemaVersion]
  BY <1>1 DEF Document
<1> HIDE DEF new
<1>6. Document(new)
  BY <1>4, <1>5 DEF Document
<1>7. all_pairing_keys(new, namespace) = [p \in {peer} |-> bond]
  BY <1>3, <1>4, <1>5 DEF all_pairing_keys
<1> QED
  BY <1>4, <1>5, <1>6, <1>7 DEF new, OneReplaced

LEMMA ReadText ==
    ASSUME NEW text, FileText(text)
    PROVE  \A a \in DOMAIN BondsIn(text) :
              /\ text # Absent /\ ~IsErr(parse_json(text))
              /\ all_pairing_keys(parse_json(text).ok, a)
                    = [p \in {BondsIn(text)[a].peer} |-> BondsIn(text)[a].bond]
<1> SUFFICES ASSUME NEW a \in DOMAIN BondsIn(text)
             PROVE  /\ text # Absent /\ ~IsErr(parse_json(text))
                    /\ all_pairing_keys(parse_json(text).ok, a)
                          = [p \in {BondsIn(text)[a].peer} |-> BondsIn(text)[a].bond]
  OBVIOUS
<1>1. text # Absent /\ ~IsErr(parse_json(text))
  BY DEF BondsIn, Empty
<1> DEFINE spaces == parse_json(text).ok.namespaces
           peer == CHOOSE p \in DOMAIN spaces[a] : TRUE
<1>2. a \in DOMAIN spaces /\ spaces[a] # Empty
        /\ BondsIn(text)[a] = [peer |-> peer, bond |-> to_stored_bond(spaces[a][peer])]
  BY <1>1 DEF BondsIn
<1>3. PeersDocument(spaces[a])
  BY <1>1, <1>2, ReadIsDocument DEF Document
<1>4. DOMAIN spaces[a] # {}
  BY <1>2, <1>3 DEF PeersDocument, Empty
<1>5. DOMAIN spaces[a] = {peer}
  BY <1>3, <1>4 DEF PeersDocument, AtMostOne
<1>6. /\ BondsIn(text)[a].peer = peer
      /\ BondsIn(text)[a].bond = to_stored_bond(spaces[a][peer])
  BY <1>2
<1>7. all_pairing_keys(parse_json(text).ok, a)
        = [p \in DOMAIN spaces[a] |-> to_stored_bond(spaces[a][p])]
  BY <1>2 DEF all_pairing_keys
<1>8. [p \in DOMAIN spaces[a] |-> to_stored_bond(spaces[a][p])]
        = [p \in {peer} |-> to_stored_bond(spaces[a][peer])]
  <2> HIDE DEF peer
  <2> QED
    BY <1>5
<1> QED
  BY <1>1, <1>6, <1>7, <1>8

\* What the write of a bond leaves in the file.
LEMMA BondWritten ==
    ASSUME IInv, NEW console \in Consoles, NEW bond \in Bonds, Bonded(console, bond),
           session.persistent, ~IsErr(read_profile(session))
    PROVE  /\ FileText(file') /\ file # Absent
           /\ ~IsErr(parse_json(file)) /\ ~IsErr(parse_json(file'))
           /\ OneReplaced(parse_json(file).ok, parse_json(file').ok, session.address, console, bond)
           /\ owed' = [a \in DOMAIN owed \cup {session.address} |->
                          IF a = session.address
                          THEN [peer |-> console, bond |-> bond] ELSE owed[a]]
<1> DEFINE old == parse_json(file).ok
           changed == replace_pairing_keys(old, session.address, console, bond)
<1>1. file # Absent /\ ~IsErr(from_json(session.kind, file))
  BY Results DEF read_profile
<1>2. /\ ~IsErr(parse_json(file)) /\ Document(old)
      /\ from_json(session.kind, file).ok = old
  BY <1>1, ReadProfile DEF IInv
<1>3. session.address \in Octets /\ console \in Octets
  BY DataAssumption DEF Bonded, Alive, IInv, Control, SessionOK, SessionRecord, AdaptersOK
<1>4. PICK key \in Keys : bond = StoredClassicBond(key, 4, TRUE)
  BY DEF Bonds
<1>5. file' = to_json_bytes(changed)
        /\ owed' = [a \in DOMAIN owed \cup {session.address} |->
                      IF a = session.address
                      THEN [peer |-> console, bond |-> bond] ELSE owed[a]]
  BY <1>1, <1>2 DEF Bonded, upsert, read_profile, format_address
<1>6. Document(changed) /\ OneReplaced(old, changed, session.address, console, bond)
  <2>1. bond = StoredClassicBond(bond.link_key, bond.link_key_type, bond.authenticated)
    BY <1>4 DEF StoredClassicBond
  <2>2. session.address \in Octets /\ console \in Octets /\ Document(old)
    BY <1>2, <1>3
  <2> HIDE DEF old
  <2> QED
    BY <2>1, <2>2, Replaced
<1> HIDE DEF changed
<1>7. FileText(file') /\ ~IsErr(parse_json(file')) /\ parse_json(file').ok = changed
  BY <1>5, <1>6, WrittenIsRead, Results
<1> QED
  BY <1>1, <1>2, <1>5, <1>6, <1>7

\* The steps that change the file or what is owed.
LEMMA FileSteps ==
    ASSUME IInv, Next
    PROVE  \/ UNCHANGED <<file, owed>>
           \/ \E kind \in Kinds, persistent \in BOOLEAN, period \in Periods, text \in Identities,
                 fits \in BOOLEAN, n \in Selectors :
                 create_profile(kind, persistent, period, text, fits, n)
           \/ \E console \in Consoles, bond \in Bonds :
                 /\ Bonded(console, bond) /\ session.persistent
                 /\ ~IsErr(read_profile(session))
           \/ \E text \in Strangers \cup {Absent} : Replace(text)
<1>1. CASE Construct
  BY <1>1 DEF Construct, build, stored
<1>2. CASE \E name \in {"build", "create"} : StoreFails(name)
  BY <1>2 DEF StoreFails, stored
<1>3. CASE Opening
  BY <1>3 DEF Opening, open, NoAdapter, Opened, SpawnFails, OpenFails, stored
<1>4. CASE Connecting
  <2>1. CASE \E console \in Consoles, bond \in Bonds : Bonded(console, bond)
    BY <2>1 DEF Bonded
  <2>2. CASE ~\E console \in Consoles, bond \in Bonds : Bonded(console, bond)
    BY <1>4, <2>2 DEF Connecting, pair, reconnect, connect, Called, start_pairing, start_reconnect,
          BeginTooLate, BeginFails, PollFails, input, InputRejected, BecomesReady,
          TimedOut, Disconnected, Lost, stored
  <2> QED
    BY <2>1, <2>2
<1>5. CASE Closing \/ Stopped
  BY <1>5 DEF Closing, Drop, close, Stopped, vars, stored
<1>6. CASE Environment
  BY <1>6 DEF Environment, Replug, Forget, stored
<1> QED
  BY <1>1, <1>2, <1>3, <1>4, <1>5, <1>6 DEF Next

LEMMA StoredSteps == IInv /\ Next => StoredOK' /\ RemembersPairings'
<1> SUFFICES ASSUME IInv, Next PROVE StoredOK' /\ RemembersPairings'
  OBVIOUS
<1>1. CASE UNCHANGED <<file, owed>>
  BY <1>1 DEF IInv, StoredOK, RemembersPairings
<1>2. ASSUME NEW kind \in Kinds, NEW persistent, NEW period, NEW text \in Identities, NEW fits,
             NEW n, create_profile(kind, persistent, period, text, fits, n),
             ~UNCHANGED <<file, owed>>
      PROVE  StoredOK' /\ RemembersPairings'
  <2>1. PICK identity :
           /\ IdentityDocument(identity)
           /\ file' = to_json_bytes(empty(kind, identity)) /\ owed' = Empty
    BY <1>2, Created
  <2>2. Document(empty(kind, identity))
    BY <2>1, TransportAssumption DEF Document, empty, Empty
  <2> QED
    BY <2>1, <2>2, WrittenIsRead DEF StoredOK, RemembersPairings, Empty
<1>3. ASSUME NEW console \in Consoles, NEW bond \in Bonds, Bonded(console, bond),
             session.persistent, ~IsErr(read_profile(session))
      PROVE  StoredOK' /\ RemembersPairings'
  <2>1. FileText(file') /\ ~IsErr(parse_json(file'))
    BY <1>3, BondWritten
  <2>2. file' # Absent
    BY <2>1 DEF FileText, Absent
  <2>3. ASSUME NEW a \in DOMAIN owed'
        PROVE  all_pairing_keys(parse_json(file').ok, a)
                 = [p \in {owed'[a].peer} |-> owed'[a].bond]
    <3>1. CASE a = session.address
      <4>1. owed'[a] = [peer |-> console, bond |-> bond]
        BY <1>3, <3>1, BondWritten
      <4>2. owed'[a].peer = console /\ owed'[a].bond = bond
        BY <4>1
      <4> QED
        BY <1>3, <3>1, <4>2, BondWritten DEF OneReplaced
    <3>2. CASE a # session.address
      <4>1. a \in DOMAIN owed /\ owed'[a] = owed[a]
        <5>1. owed' = [b \in DOMAIN owed \cup {session.address} |->
                         IF b = session.address
                         THEN [peer |-> console, bond |-> bond] ELSE owed[b]]
          BY <1>3, BondWritten, Zenon
        <5> QED
          BY <2>3, <3>2, <5>1
      <4>2. all_pairing_keys(parse_json(file).ok, a) = [p \in {owed[a].peer} |-> owed[a].bond]
        BY <4>1 DEF IInv, RemembersPairings
      <4>3. all_pairing_keys(parse_json(file').ok, a) = all_pairing_keys(parse_json(file).ok, a)
        BY <1>3, <3>2, BondWritten DEF all_pairing_keys, OneReplaced
      <4> QED
        BY <4>1, <4>2, <4>3
    <3> QED
      BY <3>1, <3>2
  <2> QED
    BY <2>1, <2>2, <2>3 DEF StoredOK, RemembersPairings
<1>4. ASSUME NEW text \in Strangers \cup {Absent}, Replace(text)
      PROVE  StoredOK' /\ RemembersPairings'
  <2>1. file' = text /\ owed' = BondsIn(text)
    BY <1>4 DEF Replace
  <2>2. CASE text = Absent
    BY <2>1, <2>2 DEF BondsIn, StoredOK, RemembersPairings, Empty
  <2>3. CASE text # Absent
    <3>1. FileText(text)
      BY <2>3, DataAssumption
    <3> QED
      BY <2>1, <3>1, ReadText DEF StoredOK, RemembersPairings
  <2> QED
    BY <2>2, <2>3
<1> QED
  BY <1>1, <1>2, <1>3, <1>4, FileSteps

-----------------------------------------------------------------------------
LEMMA InitInv == Init => IInv
<1> SUFFICES ASSUME Init PROVE IInv
  OBVIOUS
<1>1. AdaptersOK
  <2>1. bus \in Buses /\ active = Own(bus)
    BY DEF Init
  <2>2. \A i \in {bus[n].id : n \in DOMAIN bus} : Own(bus)[i] \in Octets
    BY <2>1, DataAssumption DEF Own, ToSet
  <2>3. /\ DOMAIN Own(bus) = {bus[n].id : n \in DOMAIN bus}
        /\ Own(bus) = [i \in DOMAIN Own(bus) |-> Own(bus)[i]]
    BY DEF Own
  <2> QED
    BY <2>1, <2>2, <2>3 DEF AdaptersOK
<1>2. Control
  BY DEF Init, Control, ControllerOK, RuntimeOK, SessionOK, CallOK, Unpaired, Held, Running,
         States, Idle
<1>3. StoredOK /\ RemembersPairings
  BY DEF Init, StoredOK, RemembersPairings, Empty
<1>4. CountersOK
  BY TransportAssumption DEF Init, CountersOK
<1> QED
  BY <1>1, <1>2, <1>3, <1>4 DEF IInv

LEMMA NextInv == IInv /\ [Next]_vars => IInv'
<1> SUFFICES ASSUME IInv, [Next]_vars PROVE IInv'
  OBVIOUS
<1>1. CASE Next
  BY <1>1, ActiveSteps, ControlSteps, CountersSteps, StoredSteps DEF IInv, Control
<1>2. CASE UNCHANGED vars
  <2>1. Control'
    BY <1>2, QuietSteps DEF vars, IInv
  <2> QED
    BY <1>2, <2>1 DEF vars, IInv, AdaptersOK, StoredOK, CountersOK, RemembersPairings
<1> QED
  BY <1>1, <1>2

\* In every reachable state the file and the addresses are well formed, the
\* phase of the call in progress fits the worker and its session, and the
\* profile holds each bond last put in it (SwbtProfileKeyStore::upsert).
THEOREM Invariance == Spec => []IInv
  BY InitInv, NextInv, PTL DEF Spec

\* The types, and that a session goes by the address its adapter answers with
\* (Session::open, capabilities_from_backend), for all adapters and identities.
THEOREM TypeCorrect == Spec => []TypeOK
<1>1. IInv => TypeOK
  <2> SUFFICES ASSUME IInv PROVE TypeOK
    OBVIOUS
  <2>1. session # None => session.address = active[session.device] /\ session.device \in DOMAIN active
    BY DEF IInv, Control, SessionOK, SessionRecord
  <2> QED
    BY <2>1 DEF IInv, Control, RuntimeOK, CallOK, Held, CountersOK, TypeOK
<1> QED
  BY <1>1, Invariance, PTL

\* Whichever call fails, times out, closes or drops the controller, the backend
\* holds an adapter exactly while a live worker owns its session
\* (BumbleTransportPort::close and its Drop, create_controller_runtime).
THEOREM AdaptersAreReleased == Spec => []PortReleased
<1>1. IInv => PortReleased
  BY DEF IInv, Control, Held, PortReleased
<1> QED
  BY <1>1, Invariance, PTL

\* The step of OnlyItsBond.
OnlyItsBondStep ==
    written' = written /\ file' # file =>
        \/ file = Absent
        \/ /\ session # None /\ session.persistent
           /\ ~IsErr(parse_json(file)) /\ ~IsErr(parse_json(file'))
           /\ LET old == parse_json(file).ok
                  new == parse_json(file').ok
              IN  /\ new.controller_kind = old.controller_kind
                  /\ new.identity = old.identity
                  /\ DOMAIN old.namespaces \subseteq DOMAIN new.namespaces
                  /\ \A a \in DOMAIN new.namespaces \ {session.address} :
                        a \in DOMAIN old.namespaces
                            /\ new.namespaces[a] = old.namespaces[a]

LEMMA OnlyItsBondSteps == IInv /\ Next => OnlyItsBondStep
<1> SUFFICES ASSUME IInv, Next, written' = written, file' # file, file # Absent
             PROVE  OnlyItsBondStep
  BY DEF OnlyItsBondStep
<1>1. ASSUME NEW kind, NEW persistent, NEW period, NEW text \in Identities, NEW fits, NEW n,
             create_profile(kind, persistent, period, text, fits, n)
      PROVE  FALSE
  BY <1>1, Created
<1>2. ASSUME NEW text, Replace(text)
      PROVE  FALSE
  BY <1>2 DEF Replace, IInv, CountersOK
<1>3. ASSUME NEW console \in Consoles, NEW bond \in Bonds, Bonded(console, bond),
             session.persistent, ~IsErr(read_profile(session))
      PROVE  OnlyItsBondStep
  <2>1. /\ ~IsErr(parse_json(file)) /\ ~IsErr(parse_json(file'))
        /\ OneReplaced(parse_json(file).ok, parse_json(file').ok, session.address, console, bond)
    BY <1>3, BondWritten
  <2>2. session # None
    BY <1>3 DEF Bonded, Alive
  <2> QED
    BY <1>3, <2>1, <2>2 DEF OnlyItsBondStep, OneReplaced
<1> QED
  BY <1>1, <1>2, <1>3, FileSteps

\* The program writes the profile only to create it or to replace the bond of its
\* session's address, and after every write each address still has the bond
\* paired under it last (persist_and_configure, SwbtProfileKeyStore::upsert).
THEOREM ProfilesAreKept == Spec => ProfileIsKept
<1>1. IInv' => RemembersPairings'
  BY DEF IInv
<1>2. IInv /\ [Next]_vars => [OnlyItsBondStep]_vars
  BY OnlyItsBondSteps
<1>3. IInv' => [file' # file \/ owed' # owed => RemembersPairings']_vars
  BY <1>1
<1>4. Spec => [][file' # file \/ owed' # owed => RemembersPairings']_vars
  BY <1>3, Invariance, PTL DEF Spec
<1>5. Spec => [][OnlyItsBondStep]_vars
  BY <1>2, Invariance, PTL DEF Spec
<1> QED
  BY <1>4, <1>5 DEF ProfileIsKept, OnlyItsBond, OnlyItsBondStep

-----------------------------------------------------------------------------
(* What the calls report *)

\* The error of a result names its cause.
Told(r) ==
    /\ (r.outcome = "AdapterIdentityRecoveryRequired")
            = (r.cause = "AdapterIdentityRecoveryRequired")
    /\ r.cause = "InvalidBondStore" => r.outcome = "InvalidKeyStore"
    /\ (r.outcome = "InvalidKeyStore" /\ r.call # "close") => r.cause = "InvalidBondStore"
    /\ (r.outcome = "NoBond") = (r.cause = "NoBond")
    /\ r.outcome = "TransportOpen" => r.call \in {"open", "create"}

\* A step leaves the result, or a true one; it says that there is no bond, and
\* goes on to pairing, only where there is none.
Honest ==
    /\ \/ result' = result
       \/ /\ Told(result')
          /\ result'.outcome = "NoBond" => session # None /\ ~HasBond
    /\ (call.path = "Reconnect" /\ call'.path = "Pair") => call.allow /\ ~HasBond

PlainOutcomes ==
    {"Ok", "Internal", "InvalidInput", "ProfileNotFound", "InvalidProfile",
     "ProfileControllerMismatch", "ProfilePathRequired", "ProfileAlreadyExists",
     "TransportClosed", "WorkerFailed", "ConnectionTimeout", "ConnectionFailed"}

LEMMA Unsaid ==
    ASSUME result' = result, call'.path = call.path \/ call = Idle
    PROVE  Honest
<1>1. ~(call.path = "Reconnect" /\ call'.path = "Pair")
  BY DEF Idle
<1> QED
  BY <1>1 DEF Honest

LEMMA Plain ==
    ASSUME NEW name, NEW outcome \in PlainOutcomes,
           result' = [call |-> name, outcome |-> outcome, cause |-> "none"],
           call' = call \/ call' = Idle
    PROVE  Honest
<1>1. Told(result')
  BY DEF Told, PlainOutcomes
<1>2. result'.outcome # "NoBond"
  BY DEF PlainOutcomes
<1> QED
  BY <1>1, <1>2 DEF Honest, Idle

LEMMA ConcludedHonestly ==
    ASSUME NEW outcome, NEW cause, Conclude(outcome, cause),
           Told([call |-> call.name, outcome |-> outcome, cause |-> cause]),
           outcome = "NoBond" => session # None /\ ~HasBond
    PROVE  Honest
<1>1. CASE /\ call' = Idle
           /\ result' = [call |-> call.name, outcome |-> outcome, cause |-> cause]
  <2>1. Told(result')
    BY <1>1
  <2>2. result'.outcome = outcome /\ call'.path # "Pair"
    BY <1>1 DEF Idle
  <2> QED
    BY <2>1, <2>2 DEF Honest
<1>2. CASE /\ call.allow /\ outcome = "NoBond" /\ result' = result
  BY <1>2 DEF Honest
<1> QED
  BY <1>1, <1>2, Concluded

\* What the backend answers to the start of a connection, and while it polls.
LEMMA BackendFailure ==
    ASSUME NEW kind \in BackendErrors \ {"NoBond", "AdapterIdentityRecoveryRequired"}, NEW path
    PROVE  LET error == Transport(map_backend_error_kind(kind))
               code == IF kind = "InvalidBondStore" THEN "InvalidKeyStore" ELSE "WorkerFailed"
           IN  /\ map_connection_error(path, Begin(error)) = code
               /\ map_connection_error(path, connection_failure(error)) = code
               /\ \A name : Told([call |-> name, outcome |-> code, cause |-> kind])
<1> DEFINE error == Transport(map_backend_error_kind(kind))
           code == IF kind = "InvalidBondStore" THEN "InvalidKeyStore" ELSE "WorkerFailed"
<1>1. /\ map_backend_error_kind(kind) # "NoBond"
      /\ (map_backend_error_kind(kind) = "InvalidKeyStore") = (kind = "InvalidBondStore")
  BY DEF map_backend_error_kind, BackendErrors
<1>2. error # Transport("NoBond") /\ (error = Transport("InvalidKeyStore")) = (kind = "InvalidBondStore")
  BY <1>1 DEF Transport
<1> HIDE DEF error
<1>3. map_connection_error(path, Begin(error)) = code
  BY <1>2 DEF map_connection_error, Begin, map_worker_core_error
<1>4. map_connection_error(path, connection_failure(error)) = code
  BY <1>2 DEF map_connection_error, connection_failure
<1>5. \A name : Told([call |-> name, outcome |-> code, cause |-> kind])
  BY DEF Told
<1> QED
  BY <1>3, <1>4, <1>5 DEF error

LEMMA PlainErrors ==
    ASSUME NEW path
    PROVE  /\ map_connection_error(path, Begin(InvalidLifecycle)) = "WorkerFailed"
           /\ map_connection_error(path, Readiness("TimedOut")) = "ConnectionTimeout"
           /\ map_connection_error(path, Readiness("Disconnected")) = "ConnectionFailed"
           /\ map_enqueue_error("Disconnected") = "WorkerFailed"
           /\ map_worker_spawn_error = "WorkerFailed"
  BY DEF map_connection_error, Begin, Readiness, InvalidLifecycle, Transport, map_worker_core_error,
         map_connection_readiness_error, map_enqueue_error, map_worker_spawn_error

LEMMA PlainIsTold ==
    ASSUME NEW name, NEW outcome \in PlainOutcomes
    PROVE  Told([call |-> name, outcome |-> outcome, cause |-> "none"]) /\ outcome # "NoBond"
  BY DEF Told, PlainOutcomes

\* A profile of the session that holds no bond for its address is one that was
\* never paired under it.
LEMMA NothingStored ==
    ASSUME IInv, session # None, ~IsErr(load_all(session)), load_all(session).ok = Empty
    PROVE  ~HasBond
<1>1. CASE ~session.persistent
  BY <1>1, Results DEF load_all, HasBond
<1>2. CASE session.persistent
  <2>1. ~IsErr(read_profile(session)) /\ file # Absent
    BY <1>2, Results DEF load_all, read_profile
  <2>2. read_profile(session).ok = parse_json(file).ok
    BY <2>1, ReadProfile DEF read_profile, IInv
  <2>3. all_pairing_keys(parse_json(file).ok, session.address) = Empty
    BY <1>2, <2>1, <2>2, Results DEF load_all, format_address
  <2>4. ASSUME session.address \in DOMAIN owed PROVE FALSE
    <3> DEFINE found == all_pairing_keys(parse_json(file).ok, session.address)
    <3>1. found = [p \in {owed[session.address].peer} |-> owed[session.address].bond]
      BY <2>4 DEF IInv, RemembersPairings
    <3>2. DOMAIN found = {owed[session.address].peer}
      BY <3>1
    <3> QED
      BY <2>3, <3>2 DEF Empty
  <2> QED
    BY <1>2, <2>4 DEF HasBond
<1> QED
  BY <1>1, <1>2

LEMMA GivesHonestly ==
    ASSUME NEW outcome, NEW cause, NEW s, Gives(outcome, cause, s),
           Told([call |-> call.name, outcome |-> outcome, cause |-> cause]),
           outcome = "NoBond" => session # None /\ ~HasBond
    PROVE  Honest
  BY ConcludedHonestly DEF Gives

LEMMA begin_connectionHonestly ==
    ASSUME NEW s, begin_connection(s), call \in [name : {"idle", "open", "create", "pair", "reconnect", "connect"},
                 phase : {"idle", "open", "begin", "wait"},
                 path : {"none", "Pair", "Reconnect"}, allow : BOOLEAN]
    PROVE  Honest
<1>1. CASE runtime.state = "open"
  <2>1. result' = result /\ call' = [call EXCEPT !.phase = "wait"]
    BY <1>1 DEF begin_connection
  <2>2. call'.path = call.path
    BY <2>1
  <2> QED
    BY <2>1, <2>2, Unsaid
<1>2. CASE runtime.state # "open"
  <2>1. Gives("WorkerFailed", "none", s)
    BY <1>2, PlainErrors DEF begin_connection
  <2>2. "WorkerFailed" \in PlainOutcomes
    BY DEF PlainOutcomes
  <2> QED
    BY <2>1, <2>2, PlainIsTold, GivesHonestly
<1> QED
  BY <1>1, <1>2

LEMMA start_reconnectHonestly == IInv /\ start_reconnect => Honest
<1> SUFFICES ASSUME IInv, start_reconnect PROVE Honest
  OBVIOUS
<1> DEFINE bonds == load_all(session)
<1>1. session # None /\ call.path = "Reconnect"
  BY DEF start_reconnect
<1>2. CASE IsErr(bonds)
  <2>1. bonds.err = "InvalidBondStore"
    BY <1>2, Results DEF load_all
  <2>2. Gives(map_connection_error("Reconnect",
                  Begin(Transport(map_backend_error_kind("InvalidBondStore")))),
              "InvalidBondStore", session)
    BY <1>2, <2>1 DEF start_reconnect
  <2>3. "InvalidBondStore" \in BackendErrors \ {"NoBond", "AdapterIdentityRecoveryRequired"}
    BY DEF BackendErrors
  <2>4. map_connection_error("Reconnect", Begin(Transport(map_backend_error_kind("InvalidBondStore"))))
            = "InvalidKeyStore"
    BY <2>3, BackendFailure
  <2>5. Told([call |-> call.name, outcome |-> "InvalidKeyStore", cause |-> "InvalidBondStore"])
    BY <2>3, BackendFailure
  <2> QED
    BY <2>2, <2>4, <2>5, GivesHonestly
<1>3. CASE ~IsErr(bonds) /\ bonds.ok = Empty
  <2>1. ~HasBond
    BY <1>1, <1>3, NothingStored
  <2>2. map_connection_error("Reconnect", Begin(Transport(map_backend_error_kind("NoBond")))) = "NoBond"
    BY DEF map_connection_error, Begin, Transport, map_backend_error_kind
  <2>3. Gives("NoBond", "NoBond", session)
    BY <1>3, <2>2 DEF start_reconnect
  <2>4. Told([call |-> call.name, outcome |-> "NoBond", cause |-> "NoBond"])
    BY DEF Told
  <2> QED
    BY <1>1, <2>1, <2>3, <2>4, GivesHonestly
<1>4. CASE ~IsErr(bonds) /\ bonds.ok # Empty
  <2>1. begin_connection([session EXCEPT !.peer = Reached(bonds.ok)])
    BY <1>4 DEF start_reconnect
  <2> QED
    BY <2>1, begin_connectionHonestly DEF IInv, Control, CallOK
<1> QED
  BY <1>2, <1>3, <1>4

LEMMA WorkerFailsHonestly ==
    ASSUME NEW kind \in BackendErrors \ {"NoBond", "AdapterIdentityRecoveryRequired"},
           WorkerFails(Transport(map_backend_error_kind(kind)), kind)
    PROVE  Honest
<1>1. CASE call.phase = "wait"
  <2> DEFINE code == IF kind = "InvalidBondStore" THEN "InvalidKeyStore" ELSE "WorkerFailed"
  <2>1. Conclude(map_connection_error(call.path,
                     connection_failure(Transport(map_backend_error_kind(kind)))), kind)
    BY <1>1 DEF WorkerFails
  <2>2. Conclude(code, kind) /\ Told([call |-> call.name, outcome |-> code, cause |-> kind])
    BY <2>1, BackendFailure
  <2>3. code # "NoBond"
    OBVIOUS
  <2> HIDE DEF code
  <2> QED
    BY <2>2, <2>3, ConcludedHonestly
<1>2. CASE call.phase # "wait"
  BY <1>2, Unsaid DEF WorkerFails
<1> QED
  BY <1>1, <1>2

LEMMA PlainRefusal ==
    ASSUME NEW name, NEW outcome \in PlainOutcomes, Refuse(name, outcome)
    PROVE  Honest
  BY Plain DEF Refuse

LEMMA PlainNames ==
    /\ {"Ok", "Internal", "InvalidInput", "ProfileNotFound", "InvalidProfile",
        "ProfileControllerMismatch", "ProfilePathRequired", "ProfileAlreadyExists",
        "TransportClosed", "WorkerFailed", "ConnectionTimeout", "ConnectionFailed"}
            = PlainOutcomes
    /\ "none" \notin PlainOutcomes
  BY DEF PlainOutcomes

LEMMA ConstructHonestly == Construct => Honest
<1> SUFFICES ASSUME Construct PROVE Honest
  OBVIOUS
<1>1. ASSUME NEW kind, NEW persistent, NEW period, NEW n, build(kind, persistent, period, n)
      PROVE  Honest
  <2> DEFINE profile == IF IsErr(validate_settings(period)) THEN validate_settings(period)
                        ELSE IF persistent THEN read_typed_profile(kind) ELSE Ok(None)
  <2>1. IsErr(profile) => profile.err \in PlainOutcomes
    BY PlainNames, Results DEF validate_settings, ValidatedReportPeriod, read_typed_profile,
                               from_json, parse_json, typed
  <2>2. \/ IsErr(profile) /\ Refuse("build", profile.err)
        \/ Refuse("build", "Ok")
    BY <1>1 DEF build
  <2> HIDE DEF profile
  <2> QED
    BY <2>1, <2>2, PlainRefusal, PlainNames
<1>2. ASSUME NEW kind, NEW persistent, NEW period, NEW text \in Identities, NEW fits, NEW n,
             create_profile(kind, persistent, period, text, fits, n)
      PROVE  Honest
  <2> DEFINE identity == Requested(text)
             target == validate_create_profile(period, persistent, fits)
  <2>1. IsErr(identity) => identity.err \in PlainOutcomes
    BY PlainNames, Results DEF Requested, LocalAddress_parse, try_from
  <2>2. IsErr(target) => target.err \in PlainOutcomes
    BY PlainNames, Results DEF validate_create_profile, validate_target, validate_settings,
                               ValidatedReportPeriod, validate_connection_timeout
  <2>3. \/ (IsErr(identity) \/ IsErr(target))
             /\ Refuse("create", IF IsErr(identity) THEN identity.err ELSE target.err)
        \/ Refuse("create", "ProfileAlreadyExists")
        \/ result' = result /\ call = Idle
    BY <1>2 DEF create_profile, persist_and_configure
  <2> HIDE DEF identity, target
  <2> QED
    BY <2>1, <2>2, <2>3, PlainRefusal, PlainNames, Unsaid
<1> QED
  BY <1>1, <1>2 DEF Construct

LEMMA OpeningHonestly == IInv /\ Opening => Honest
<1> SUFFICES ASSUME IInv, Opening PROVE Honest
  OBVIOUS
<1>1. CASE open
  <2>1. (result' = result /\ call = Idle) \/ Refuse("open", "Ok")
    BY <1>1 DEF open
  <2> QED
    BY <2>1, Unsaid, PlainRefusal, PlainNames
<1>2. ASSUME NEW kind \in BackendErrors \ {"InvalidBondStore", "NoBond"}, call.phase = "open",
             Return(map_transport_open_error(map_backend_error_kind(kind)), kind)
      PROVE  Honest
  <2> DEFINE code == IF kind = "AdapterIdentityRecoveryRequired" THEN kind ELSE "TransportOpen"
  <2>1. map_transport_open_error(map_backend_error_kind(kind)) = code
    BY DEF map_transport_open_error, map_backend_error_kind, BackendErrors
  <2>2. call.name \in {"open", "create"}
    BY <1>2 DEF IInv, Control, CallOK
  <2>3. Told([call |-> call.name, outcome |-> code, cause |-> kind]) /\ code # "NoBond"
    BY <2>2 DEF Told, BackendErrors
  <2>4. /\ result' = [call |-> call.name, outcome |-> code, cause |-> kind]
        /\ call' = Idle
    BY <1>2, <2>1 DEF Return
  <2> HIDE DEF code
  <2>5. Told(result') /\ result'.outcome # "NoBond"
    BY <2>3, <2>4
  <2> QED
    BY <2>4, <2>5 DEF Honest, Idle
<1>3. CASE NoAdapter
  BY <1>2, <1>3 DEF NoAdapter, BackendErrors
<1>4. CASE \E kind \in OpenErrors : OpenFails(kind)
  BY <1>2, <1>4, TransportAssumption, BackendAssumption DEF OpenFails
<1>5. CASE SpawnFails
  <2>1. Return("WorkerFailed", "none")
    BY <1>5, PlainErrors DEF SpawnFails
  <2> QED
    BY <2>1, Plain, PlainNames DEF Return
<1>6. CASE Opened
  <2> DEFINE address == capabilities_from_backend(le_address(Selected(controller.selector)))
  <2>1. CASE IsErr(address)
    <3>1. address.err = "InvalidControllerIdentity"
      BY <2>1, Results DEF capabilities_from_backend, from_validated_classic_controller
    <3>2. Return(map_transport_open_error(address.err), address.err)
      BY <1>6, <2>1 DEF Opened
    <3>3. Return(map_transport_open_error(map_backend_error_kind("InvalidControllerIdentity")),
                 "InvalidControllerIdentity")
      BY <3>1, <3>2 DEF map_transport_open_error, map_backend_error_kind
    <3> QED
      BY <1>2, <1>6, <3>3 DEF Opened, BackendErrors
  <2>2. CASE ~IsErr(address)
    <3>1. \/ result' = result /\ call' = [call EXCEPT !.phase = "begin"]
          \/ Return("Ok", "none")
      BY <1>6, <2>2 DEF Opened
    <3>2. call' = [call EXCEPT !.phase = "begin"] => call'.path = call.path
      BY DEF IInv, Control, CallOK
    <3> QED
      BY <3>1, <3>2, Unsaid, Plain, PlainNames DEF Return
  <2> QED
    BY <2>1, <2>2
<1> QED
  BY <1>1, <1>3, <1>4, <1>5, <1>6 DEF Opening

LEMMA ConnectingHonestly == IInv /\ Connecting => Honest
<1> SUFFICES ASSUME IInv, Connecting PROVE Honest
  OBVIOUS
<1> DEFINE Kept == BackendErrors \ {"NoBond", "AdapterIdentityRecoveryRequired"}
<1>1. ASSUME NEW name, NEW path, NEW allow, NEW fits, Called(name, path, allow, fits)
      PROVE  Honest
  <2>1. \/ \E outcome \in {"TransportClosed", "InvalidInput", "WorkerFailed"} : Refuse(name, outcome)
        \/ result' = result /\ call = Idle
    BY <1>1, PlainErrors DEF Called
  <2> QED
    BY <2>1, PlainRefusal, PlainNames, Unsaid
<1>2. CASE start_pairing
  <2>1. begin_connection([session EXCEPT !.pairable = TRUE])
    BY <1>2 DEF start_pairing
  <2> QED
    BY <2>1, begin_connectionHonestly DEF IInv, Control, CallOK
<1>3. ASSUME NEW kind \in BeginErrors, BeginFails(kind)
      PROVE  Honest
  <2> DEFINE code == IF kind = "InvalidBondStore" THEN "InvalidKeyStore" ELSE "WorkerFailed"
  <2>1. kind \in Kept
    BY TransportAssumption, BackendAssumption
  <2>2. Gives(map_connection_error(call.path, Begin(Transport(map_backend_error_kind(kind)))),
              kind, session)
    BY <1>3 DEF BeginFails
  <2>3. Gives(code, kind, session) /\ Told([call |-> call.name, outcome |-> code, cause |-> kind])
    BY <2>1, <2>2, BackendFailure
  <2>4. code # "NoBond"
    OBVIOUS
  <2> HIDE DEF code
  <2> QED
    BY <2>3, <2>4, GivesHonestly
<1>4. CASE BeginTooLate
  <2>1. CASE call.name = "create"
    <3>1. runtime.cause # Transport("InvalidKeyStore")
      BY <1>4, <2>1 DEF BeginTooLate, IInv, Control, Unpaired
    <3>2. map_worker_failure(runtime.cause) = "WorkerFailed"
      BY <3>1 DEF map_worker_failure, map_worker_core_error
    <3>3. Return("WorkerFailed", "none")
      BY <1>4, <2>1, <3>2 DEF BeginTooLate
    <3> QED
      BY <3>3, Plain, PlainNames DEF Return
  <2>2. CASE call.name # "create"
    <3>1. Return("WorkerFailed", "none")
      BY <1>4, <2>2, PlainErrors DEF BeginTooLate
    <3> QED
      BY <3>1, Plain, PlainNames DEF Return
  <2> QED
    BY <2>1, <2>2
<1>5. ASSUME NEW console, NEW bond, Bonded(console, bond)
      PROVE  Honest
  <2>1. \/ UNCHANGED <<call, result>>
        \/ WorkerFails(Transport(map_backend_error_kind("InvalidBondStore")), "InvalidBondStore")
    BY <1>5 DEF Bonded
  <2>2. "InvalidBondStore" \in Kept
    BY DEF BackendErrors
  <2> QED
    BY <2>1, <2>2, WorkerFailsHonestly, Unsaid
<1>6. ASSUME NEW kind \in PollErrors, PollFails(kind)
      PROVE  Honest
  <2>1. kind \in Kept
    BY TransportAssumption, BackendAssumption
  <2> QED
    BY <1>6, <2>1, WorkerFailsHonestly DEF PollFails
<1>7. ASSUME NEW c, input(c)
      PROVE  Honest
  <2>1. map_command_error(Refusal(c)) \in PlainOutcomes
    BY PlainNames DEF map_command_error, Refusal
  <2>2. \E outcome \in PlainOutcomes : Refuse("input", outcome)
    BY <1>7, <2>1, PlainErrors, PlainNames DEF input
  <2> QED
    BY <2>2, PlainRefusal
<1>8. ASSUME NEW kind \in {"SendRejected", "Closed"}, InputRejected(kind)
      PROVE  Honest
  <2>1. /\ result' = [call |-> "input", outcome |-> "Internal", cause |-> kind]
        /\ call' = Idle
    BY <1>8 DEF InputRejected, map_command_error
  <2>2. Told(result') /\ result'.outcome # "NoBond"
    BY <2>1 DEF Told
  <2> QED
    BY <2>1, <2>2 DEF Honest, Idle
<1>9. CASE BecomesReady
  BY <1>9, Plain, PlainNames DEF BecomesReady, Return
<1>10. CASE TimedOut \/ Disconnected
  <2>1. \E s : \E outcome \in {"ConnectionTimeout", "ConnectionFailed"} : Gives(outcome, "none", s)
    BY <1>10, PlainErrors DEF TimedOut, Disconnected
  <2> QED
    BY <2>1, PlainIsTold, PlainNames, GivesHonestly
<1>11. CASE Lost
  BY <1>11, Unsaid DEF Lost
<1> QED
  BY <1>1, <1>2, <1>3, <1>4, <1>5, <1>6, <1>7, <1>8, <1>9, <1>10, <1>11, start_reconnectHonestly
     DEF Connecting, pair, reconnect, connect

LEMMA ClosingHonestly == Closing => Honest
<1> SUFFICES ASSUME Closing PROVE Honest
  OBVIOUS
<1>1. CASE Drop
  BY <1>1, Unsaid DEF Drop
<1>2. ASSUME NEW clean \in BOOLEAN, close(clean)
      PROVE  Honest
  <2>1. map_worker_outcome(Outcome(clean)) \in {"Ok", "WorkerFailed", "InvalidKeyStore"}
    BY DEF map_worker_outcome, Outcome, map_cleanup_error, map_worker_failure, map_worker_core_error
  <2>2. PICK outcome \in {"Ok", "WorkerFailed", "InvalidKeyStore"} : Refuse("close", outcome)
    BY <1>2, <2>1 DEF close
  <2>3. /\ result' = [call |-> "close", outcome |-> outcome, cause |-> "none"]
        /\ call' = call
    BY <2>2 DEF Refuse
  <2>4. Told(result') /\ result'.outcome # "NoBond"
    BY <2>3 DEF Told
  <2> QED
    BY <2>3, <2>4 DEF Honest
<1> QED
  BY <1>1, <1>2 DEF Closing

LEMMA HonestSteps == IInv /\ [Next]_vars => Honest
<1> SUFFICES ASSUME IInv, [Next]_vars PROVE Honest
  OBVIOUS
<1>1. CASE \E name \in {"build", "create"} : StoreFails(name)
  BY <1>1, PlainRefusal, PlainNames DEF StoreFails
<1>2. CASE Environment
  BY <1>2, Unsaid DEF Environment, Replace, Replug, Forget
<1>3. CASE Stopped \/ UNCHANGED vars
  BY <1>3, Unsaid DEF Stopped, vars
<1> QED
  BY <1>1, <1>2, <1>3, ConstructHonestly, OpeningHonestly, ConnectingHonestly, ClosingHonestly DEF Next

\* Whatever the backend answers to whichever call, the kind of error the client
\* sees names that cause and no other (map_transport_open_error,
\* map_connection_error, map_worker_outcome).
THEOREM ErrorsTellTheCause == Spec => []ErrorTellsCause
<1>1. Init => Told(result)
  BY DEF Init, Told
<1>2. Told(result) /\ Honest => Told(result)'
  <2> SUFFICES ASSUME Told(result), Honest PROVE Told(result')
    BY DEF Told
  <2> QED
    BY DEF Honest
<1>3. Spec => []Told(result)
  BY <1>1, <1>2, HonestSteps, Invariance, PTL DEF Spec
<1>4. Told(result) => ErrorTellsCause
  BY DEF Told, ErrorTellsCause
<1> QED
  BY <1>3, <1>4, PTL

\* connect goes on to pairing, and a call says NoBond, only when the profile holds
\* no bond for the address of the session (Controller::connect, start_reconnect).
THEOREM PairingIsLastResort == Spec => PairsOnlyWithoutBond
<1> DEFINE Step ==
       /\ (call.path = "Reconnect" /\ call'.path = "Pair") => call.allow /\ ~HasBond
       /\ (result'.outcome = "NoBond" /\ result' # result) => session # None /\ ~HasBond
<1>1. IInv /\ [Next]_vars => Step
  BY HonestSteps DEF Honest
<1>2. Spec => [][Step]_vars
  <2> HIDE DEF Step
  <2> QED
    BY <1>1, Invariance, PTL DEF Spec
<1> QED
  BY <1>2 DEF PairsOnlyWithoutBond

=============================================================================
