----------------------------- MODULE ConfigRules -----------------------------
(***************************************************************************)
(* Loading a configuration (config_loader.cpp): an overlay is merged over  *)
(* the defaults, the settings are read and checked, the automatic Mesh     *)
(* mode replaces some of them, and what remains must use one radio plane.  *)
(*                                                                         *)
(* A YAML node is [is, v]: a flag, a number, a word, a list, a map or      *)
(* null.  Times are tenths of a second.  A topic is the list of its        *)
(* segments; the text of member paths and expressions is a word, in lower  *)
(* case.  Two names have one UUID only if they are equal.  mesh_token,     *)
(* file paths and settings without a rule are left out.                    *)
(***************************************************************************)
EXTENDS Integers, Sequences, FiniteSets

CONSTANTS
    Number,    \* The UAV number at the end of a host name, -1 without digits
    UavHosts   \* The host names that auto_connect_pattern admits

Node(is, v) == [is |-> is, v |-> v]
Null == Node("null", 0)

-----------------------------------------------------------------------------
(* deep_merge.  Maps nest two deep in a file: settings, and tables of bytes. *)

MergeWith(Inner(_, _), base, over) ==
    IF base.is = "null" THEN over
    ELSE IF over.is = "null" THEN base
    ELSE IF base.is = "map" /\ over.is = "map"
    THEN Node("map", [k \in DOMAIN base.v \cup DOMAIN over.v |->
                        IF k \notin DOMAIN over.v THEN base.v[k]
                        ELSE IF k \notin DOMAIN base.v THEN over.v[k]
                        ELSE Inner(base.v[k], over.v[k])])
    ELSE over

MergeEntry(base, over) == IF over.is = "null" THEN base ELSE over
MergeField(base, over) == MergeWith(MergeEntry, base, over)
MergeFile(base, over) == MergeWith(MergeField, base, over)

IsNode(n) == n = Node(n.is, n.v)
IsMapOf(n, Inner(_)) ==
    n.v = [k \in DOMAIN n.v |-> n.v[k]] /\ \A k \in DOMAIN n.v : Inner(n.v[k])
IsEntry(n) == IsNode(n) /\ n.is # "map"
IsField(n) == IsNode(n) /\ (n.is = "map" => IsMapOf(n, IsEntry))
IsFile(n) == IsNode(n) /\ (n.is = "map" => IsMapOf(n, IsField))

-----------------------------------------------------------------------------
(* Single values.                                                            *)

Wrong == [ok |-> FALSE, value |-> 0]
Right(v) == [ok |-> TRUE, value |-> v]

ParseInteger(node, lo, hi) ==
    IF node.is = "number" THEN IF node.v \in lo..hi THEN Right(node.v) ELSE Wrong ELSE Wrong

\* A list of bytes, or null: none.
ParseBytes(node) ==
    IF node.is = "null" THEN Right(<<>>)
    ELSE IF node.is # "list" THEN Wrong
    ELSE IF \A i \in DOMAIN node.v : ParseInteger(node.v[i], 0, 255).ok
    THEN Right([i \in DOMAIN node.v |-> node.v[i].v]) ELSE Wrong

\* A table from numbers up to last to bytes.
ParseByteMap(node, last) ==
    IF node.is = "null" THEN Right(<<>>)
    ELSE IF node.is # "map" THEN Wrong
    ELSE IF \A k \in DOMAIN node.v : k \in 0..last /\ ParseBytes(node.v[k]).ok
    THEN Right([k \in DOMAIN node.v |-> ParseBytes(node.v[k]).value]) ELSE Wrong

Aliases == [boolean |-> "bool", byte |-> "int8", octet |-> "uint8", char |-> "uint8",
            float |-> "float32", double |-> "float64"]
WireTypes == {"bool", "int8", "uint8", "int16", "uint16", "int32", "uint32", "int64", "uint64",
              "float32", "float64"}
NormalizeType(t) == IF t \in DOMAIN Aliases THEN Aliases[t] ELSE t

\* A member of a layout is a map of its keys to words; a missing one is empty.
Word(map, key) == IF key \in DOMAIN map THEN map[key].v ELSE ""
MemberValid(item) ==
    /\ item.is = "map"
    /\ DOMAIN item.v \subseteq {"target", "type", "expression"}
    /\ Word(item.v, "target") # "" /\ NormalizeType(Word(item.v, "type")) \in WireTypes
AssignmentValid(item) ==
    /\ item.is = "map" /\ DOMAIN item.v \subseteq {"target", "expression"}
    /\ Word(item.v, "target") # "" /\ Word(item.v, "expression") # ""

-----------------------------------------------------------------------------
(* Topics.  "~" is the first segment of a path below the package's own, "~?" *)
(* one where no slash follows the tilde.                                     *)

ResolveTopicPath(path, host) ==
    LET named == [i \in DOMAIN path |-> IF path[i] = "{hostname}" THEN host ELSE path[i]] IN
    IF path # <<>> /\ path[1] = "~" THEN <<host, "bluetooth">> \o Tail(named) ELSE named
PathValid(path) == path # <<>> => path[1] # "~?"

\* The name that all UAVs share for a topic below one's host name.
CanonicalTopic(topic) ==
    IF topic # <<>> /\ topic[1] \in UavHosts THEN Tail(topic) ELSE topic

\* Where a topic of a peer is published here.
PeerToken(name, mac) == IF name = "ble_device" THEN mac ELSE name
PeerBridgeTopic(prefix, name, mac, suffix) == prefix \o <<PeerToken(name, mac)>> \o suffix

-----------------------------------------------------------------------------
(* The settings: their defaults, and the ranges of the numbers.              *)

FlagDefaults ==
    [auto_pair |-> TRUE, auto_trust |-> TRUE, auto_connect_enable |-> FALSE,
     enable_server |-> TRUE, enable_scan |-> TRUE, enable_time_service |-> TRUE,
     enable_wifi_service |-> TRUE, enable_serial_port_profile |-> TRUE,
     enable_mesh |-> FALSE, mesh_auto_attach |-> TRUE, mesh_auto_join |-> FALSE,
     mesh_auto_create_network |-> FALSE, mesh_provisioner |-> FALSE,
     mesh_auto_configure_relay |-> FALSE, mesh_swarm_auto_provisioning |-> FALSE,
     mesh_swarm_participating |-> TRUE]

Bounds(default, lo, hi) == [default |-> default, lo |-> lo, hi |-> hi]
NumberRules ==
    [serial_port_channel |-> Bounds(22, 1, 30),
     mesh_default_ttl |-> Bounds(127, 0, 127),
     mesh_relay_retransmit_count |-> Bounds(1, 0, 7),
     mesh_relay_retransmit_interval_steps |-> Bounds(2, 0, 31),
     mesh_network_retransmit_count |-> Bounds(1, 0, 7),
     mesh_network_retransmit_interval_steps |-> Bounds(19, 0, 31),
     mesh_swarm_id |-> Bounds(1, 1, 65535),
     mesh_swarm_group_address |-> Bounds(49152, 0, 65535),
     mesh_swarm_network_index |-> Bounds(0, 0, 4095),
     mesh_swarm_app_key_index |-> Bounds(0, 0, 4095),
     mesh_company_id |-> Bounds(1521, 0, 65535),
     mesh_product_id |-> Bounds(1, 0, 65535),
     mesh_version_id |-> Bounds(1, 0, 65535),
     mesh_crpl |-> Bounds(100, 1, 65535),
     mesh_vendor_model_id |-> Bounds(1, 0, 65535),
     mesh_next_unicast |-> Bounds(256, 1, 32767),
     mesh_agent_numeric_oob |-> Bounds(0, 0, 99999999)]

PeriodDefaults ==
    [mesh_swarm_startup_grace |-> 50, mesh_swarm_heartbeat_period |-> 10,
     mesh_swarm_provisioner_timeout |-> 200]

\* Key sizes, when they are given.
KeySizes == [mesh_agent_static_oob |-> 16, mesh_agent_private_key |-> 32, mesh_agent_public_key |-> 64]

\* Optional advertisement settings, and the tables with their last key.
OptionalRanges ==
    [advertise_appearance |-> 0..65535, advertise_duration |-> 0..65535,
     advertise_timeout |-> 0..65535, advertise_tx_power |-> -32768..32767,
     advertise_min_interval |-> Nat, advertise_max_interval |-> Nat]   \* below 2^32
ByteMaps == [advertise_manufacturer_data |-> 65535, advertise_data |-> 255,
             advertise_scan_response_manufacturer_data |-> 65535, advertise_scan_response_data |-> 255]

Given(doc, key, default) == IF key \in DOMAIN doc THEN doc[key] ELSE default
WordOf(doc, key, default) == Given(doc, key, Node("word", default)).v
PathOf(doc, key, default) == Given(doc, key, Node("path", default)).v
ListOf(doc, key) == IF key \in DOMAIN doc /\ doc[key].is = "list" THEN doc[key].v ELSE <<>>

\* "mesh_?" stands for every key that begins so and is not an option.
Readable(doc) ==
    /\ "mesh_?" \notin DOMAIN doc
    /\ \A k \in DOMAIN FlagDefaults \cap DOMAIN doc : doc[k].is = "flag"
    /\ \A k \in DOMAIN NumberRules \cap DOMAIN doc :
          ParseInteger(doc[k], NumberRules[k].lo, NumberRules[k].hi).ok
    /\ \A k \in DOMAIN PeriodDefaults \cap DOMAIN doc : doc[k].is = "number"
    /\ Given(doc, "mesh_default_ttl", Node("number", 0)) # Node("number", 1)
    /\ \A k \in DOMAIN KeySizes \cap DOMAIN doc :
          ParseBytes(doc[k]).ok /\ Len(ParseBytes(doc[k]).value) \in {0, KeySizes[k]}
    /\ \A k \in DOMAIN OptionalRanges \cap DOMAIN doc :
          doc[k].is = "null" \/ (doc[k].is = "number" /\ doc[k].v \in OptionalRanges[k])
    /\ \A k \in DOMAIN ByteMaps \cap DOMAIN doc : ParseByteMap(doc[k], ByteMaps[k]).ok
    /\ LET uuid == Given(doc, "mesh_device_uuid", Node("uuid", "")) IN uuid.v = "" \/ uuid.is = "uuid"
    /\ PathValid(PathOf(doc, "peers_prefix", <<"~", "peers">>))
    /\ \A i \in DOMAIN ListOf(doc, "gatt_profile_uuids") :
          ListOf(doc, "gatt_profile_uuids")[i].is = "uuid"

Settings(doc, host) ==
    [flag |-> [k \in DOMAIN FlagDefaults |-> Given(doc, k, Node("flag", FlagDefaults[k])).v],
     number |-> [k \in DOMAIN NumberRules |-> Given(doc, k, Node("number", NumberRules[k].default)).v],
     period |-> [k \in DOMAIN PeriodDefaults |-> Given(doc, k, Node("number", PeriodDefaults[k])).v],
     whitelist |-> [i \in DOMAIN ListOf(doc, "peer_whitelist") |-> ListOf(doc, "peer_whitelist")[i].v],
     profiles |-> ListOf(doc, "gatt_profile_uuids"),
     prefix |-> ResolveTopicPath(PathOf(doc, "peers_prefix", <<"~", "peers">>), host),
     uuid |-> WordOf(doc, "mesh_device_uuid", ""),
     preference |-> WordOf(doc, "mesh_provisioner_preference", "ordered"),
     mode |-> WordOf(doc, "advertise_mode", "peripheral"),
     size |-> WordOf(doc, "advertise_size", "legacy"),
     strategy |-> WordOf(doc, "advertise_update_strategy", "reregister"),
     topics |-> <<>>]

ChoicesValid(c) ==
    /\ ~(c.flag.mesh_auto_join /\ c.flag.mesh_auto_create_network)
    /\ c.mode \in {"peripheral", "broadcast"} /\ c.size \in {"legacy", "extended"}
    /\ c.strategy \in {"property", "reregister"}
    /\ \A i \in DOMAIN c.whitelist : c.whitelist[i] # ""
    /\ \A i, j \in DOMAIN c.whitelist : c.whitelist[i] = c.whitelist[j] => i = j

\* The automatic mode wants listed members with distinct numbers, itself among them,
\* and periods a member is not given up within.
InWhitelist(c, host) == \E i \in DOMAIN c.whitelist : c.whitelist[i] = host
MembersValid(c, host) ==
    /\ c.flag.enable_mesh /\ c.uuid = ""
    /\ c.whitelist # <<>> /\ InWhitelist(c, host)
    /\ \A i \in DOMAIN c.whitelist : Number[c.whitelist[i]] \in 1..65535
    /\ \A i, j \in DOMAIN c.whitelist : Number[c.whitelist[i]] = Number[c.whitelist[j]] => i = j
    /\ Number[host] \in 1..32767
    /\ c.preference # "ordered" =>
          Number[c.preference] \in 1..65535 /\ InWhitelist(c, c.preference)
    /\ \A k \in DOMAIN c.period : c.period[k] > 0
    /\ c.period.mesh_swarm_provisioner_timeout > 2 * c.period.mesh_swarm_heartbeat_period
    /\ c.period.mesh_swarm_provisioner_timeout <= 630
    /\ c.number.mesh_swarm_group_address \in 49152..65279

RolesOn == {"mesh_provisioner", "mesh_auto_attach", "mesh_auto_configure_relay"}
LeRoles == {"enable_server", "enable_scan", "enable_time_service", "enable_wifi_service",
            "enable_serial_port_profile", "auto_connect_enable", "auto_pair", "auto_trust"}
RolesOff == LeRoles \cup {"mesh_auto_join", "mesh_auto_create_network"}

Automatic(c) ==
    [c EXCEPT !.flag = [k \in DOMAIN c.flag |-> (c.flag[k] /\ k \notin RolesOff) \/ k \in RolesOn],
              !.profiles = <<>>]

-----------------------------------------------------------------------------
(* The bridges.                                                              *)

\* What is read of one, with its defaults.  The key of a bridge is computed from the
\* canonical name of its topic; the setting "key" is read and not used.
ReadTopic(raw, c, host) ==
    LET topic == ResolveTopicPath(PathOf(raw, "export_topic", <<>>), host)
        transport == WordOf(raw, "transport", "gatt")
        destination == Given(raw, "destination", Node("number", c.number.mesh_swarm_group_address))
        encode == ListOf(raw, "members_encode")
        format == WordOf(raw, "payload_format", "struct") IN
    [transport |-> IF transport \in {"advertising", "advertisement_data"} THEN "advertisement"
                   ELSE IF transport = "" THEN "gatt" ELSE transport,
     mode |-> IF WordOf(raw, "mode", "both") = "" THEN "both" ELSE WordOf(raw, "mode", "both"),
     topic |-> topic, bridge |-> CanonicalTopic(topic),
     suffix |-> PathOf(raw, "import_topic_suffix", CanonicalTopic(topic)),
     message |-> WordOf(raw, "message_type", ""),
     format |-> format, members |-> encode,
     targets |-> IF format = "raw" /\ encode = <<>> THEN <<"data[:]">>
                 ELSE [i \in DOMAIN encode |-> Word(encode[i].v, "target")],
     bare |-> WordOf(raw, "framing", "channel") = "bare",
     channel |-> Given(raw, "channel_id", Null),
     reliable |-> c.flag.mesh_swarm_auto_provisioning /\ "destination" \notin DOMAIN raw,
     destination |-> destination,
     opcode |-> Given(raw, "vendor_opcode", Node("number", 193)),
     company |-> Given(raw, "company_id", Node("number", c.number.mesh_company_id)),
     key |-> Given(raw, "app_key_index", Node("number", c.number.mesh_swarm_app_key_index)),
     element |-> Given(raw, "element_index", Node("number", 0))]

ListOrMissing(raw, key) == key \in DOMAIN raw => raw[key].is = "list"

TopicValid(node, c, host) ==
    LET raw == node.v
        t == ReadTopic(raw, c, host)
        Framed == t.transport # "gatt" /\ ~t.bare IN
    /\ node.is = "map"
    /\ t.transport \in {"gatt", "advertisement", "mesh"}
    /\ t.mode \in {"export", "import", "both"} /\ t.format \in {"struct", "raw", "ros2"}
    /\ PathValid(PathOf(raw, "export_topic", <<>>)) /\ t.topic # <<>> /\ t.message # "" /\ WordOf(raw, "key", "?") # ""
    /\ ListOrMissing(raw, "members_encode") /\ ListOrMissing(raw, "members_decode")
    /\ \A i \in DOMAIN ListOf(raw, "members_encode") : MemberValid(raw.members_encode.v[i])
    /\ \A i \in DOMAIN ListOf(raw, "members_decode") : AssignmentValid(raw.members_decode.v[i])
    /\ t.format = "ros2" \/ t.targets # <<>>
    /\ \A i, j \in DOMAIN t.targets : t.targets[i] = t.targets[j] => i = j
    /\ WordOf(raw, "framing", "channel") \in {"channel", "bare"}
    /\ t.bare => t.transport = "advertisement" /\ "channel_id" \notin DOMAIN raw
    /\ Framed => ParseInteger(t.channel, 1, 65535).ok
    /\ t.transport = "mesh" => /\ ParseInteger(t.destination, 0, 65535).ok
                               /\ ParseInteger(t.opcode, 192, 255).ok
                               /\ ParseInteger(t.company, 0, 65535).ok
                               /\ ParseInteger(t.key, 0, 4095).ok
                               /\ ParseInteger(t.element, 0, 255).ok

\* Within a transport, bridges and channels are distinct.
Distinct(topics) ==
    \A i, j \in DOMAIN topics :
        LET a == topics[i]  b == topics[j] IN
        (i # j /\ a.transport = b.transport)
            => /\ a.bridge # b.bridge
               /\ (a.transport # "gatt" /\ ~a.bare /\ ~b.bare) => a.channel # b.channel

-----------------------------------------------------------------------------
(* One radio plane.                                                          *)

Using(c, transport) == {i \in DOMAIN c.topics : c.topics[i].transport = transport}
Exports(t) == t.mode \in {"export", "both"}
Imports(t) == t.mode \in {"import", "both"}

OneTransport(c) ==
    /\ \A i, j \in DOMAIN c.topics : c.topics[i].transport = c.topics[j].transport
    /\ (\E i \in DOMAIN c.topics : c.topics[i].bare) => Cardinality(Using(c, "advertisement")) = 1
    /\ Using(c, "mesh") # {} => c.flag.enable_mesh
    /\ c.flag.enable_mesh => Using(c, "gatt") = {} /\ Using(c, "advertisement") = {}
    /\ \A i \in Using(c, "advertisement") :
          /\ Exports(c.topics[i]) => c.flag.enable_server
          /\ Imports(c.topics[i]) => c.flag.enable_scan

BroadcastAlone(c) ==
    c.mode = "broadcast" => /\ \A k \in LeRoles \ {"enable_server", "enable_scan"} : ~c.flag[k]
                            /\ c.profiles = <<>> /\ Using(c, "gatt") = {}

MeshAlone(c) ==
    c.flag.enable_mesh => (\A k \in LeRoles : ~c.flag[k]) /\ c.profiles = <<>>

\* The heartbeats of the automatic mode have an opcode of their own.
HeartbeatFree(c) ==
    c.flag.mesh_swarm_auto_provisioning =>
        \A i \in Using(c, "mesh") :
            ~(c.topics[i].company.v = c.number.mesh_company_id /\ c.topics[i].opcode.v = 192)

OnePlane(c) == OneTransport(c) /\ BroadcastAlone(c) /\ MeshAlone(c) /\ HeartbeatFree(c)

\* parse_node_config and load_effective_config.
Effective(doc, host) ==
    LET s == Settings(doc, host)
        c == IF s.flag.mesh_swarm_auto_provisioning THEN Automatic(s) ELSE s
        raw == ListOf(doc, "shared_topics") IN
    [c EXCEPT !.topics = [i \in DOMAIN raw |-> ReadTopic(raw[i].v, c, host)]]

Accepted(doc, host) ==
    LET c == Effective(doc, host)
        raw == ListOf(doc, "shared_topics") IN
    /\ Readable(doc) /\ ChoicesValid(Settings(doc, host))
    /\ c.flag.mesh_swarm_auto_provisioning => MembersValid(c, host)
    /\ \A i \in DOMAIN raw : TopicValid(raw[i], c, host)
    /\ Distinct(c.topics) /\ OnePlane(c)

Load(defaults, overlay, host) ==
    LET file == MergeFile(defaults, overlay) IN
    IF file.is # "map" THEN [ok |-> FALSE, cfg |-> Settings(<<>>, host)]
    ELSE [ok |-> Accepted(file.v, host), cfg |-> Effective(file.v, host)]

\* The services that gatt_layout_signature_for_config lists (profiles are not services),
\* and what a transition of the radio looks at.
Layout(c) ==
    IF ~c.flag.enable_server THEN {}
    ELSE {<<k>> : k \in {f \in {"enable_time_service", "enable_wifi_service"} : c.flag[f]}}
         \cup {<<c.topics[i].bridge, c.topics[i].message, c.topics[i].format, c.topics[i].members>> :
                 i \in {j \in Using(c, "gatt") : Exports(c.topics[j])}}

RadioView(c) ==
    [mesh |-> c.flag.enable_mesh, mode |-> IF c.flag.enable_server THEN c.mode ELSE "none",
     scan |-> c.flag.enable_scan, layout |-> Layout(c), reregister |-> c.strategy = "reregister"]

=============================================================================
