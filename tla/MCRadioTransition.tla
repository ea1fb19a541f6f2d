-------------------------- MODULE MCRadioTransition --------------------------
(* Four overlays: GATT, broadcast with updates in place and with repeated   *)
(* registrations, and Mesh.  They are what the loader makes of files like   *)
(* those of config/, by the rules of ConfigRules.                           *)
EXTENDS RadioTransition, ConfigRules, NetplanChange, TLC

Overlaid(m, d, s, l, r) ==
    [mesh |-> m, mode |-> d, scan |-> s, layout |-> l, reregister |-> r]
Gatt == Overlaid(FALSE, "peripheral", TRUE, "odom", FALSE)
Cast == Overlaid(FALSE, "broadcast", TRUE, "none", FALSE)
Again == Overlaid(FALSE, "broadcast", TRUE, "none", TRUE)
Net == Overlaid(TRUE, "none", FALSE, "none", FALSE)
AllConfigs == {Gatt, Cast, Again, Net}

HostNumber == [uav42 |-> 42, uav99 |-> 99, uav042 |-> 42, ground |-> -1]
Hosts == {"uav42", "uav99"}

Yes == Node("flag", TRUE)
No == Node("flag", FALSE)
N(n) == Node("number", n)
W(w) == Node("word", w)
List(s) == Node("list", s)
P(path) == Node("path", path)
Map(f) == Node("map", f)

\* config/default.yaml, where it differs from the defaults of the code.
Default == Map([auto_connect_enable |-> Yes, advertise_update_strategy |-> W("property"),
                advertise_min_interval |-> N(100), peer_whitelist |-> List(<<>>),
                shared_topics |-> List(<<>>)])

Pair == List(<<W("uav42"), W("uav99")>>)
Layout1 == List(<<Map([target |-> W("sec"), type |-> W("uint32"), expression |-> W("header.stamp.sec")]),
                  Map([target |-> W("x"), type |-> W("float")])>>)
Back == List(<<Map([target |-> W("header.stamp.sec"), expression |-> W("sec")])>>)

GattTopic == [transport |-> W("gatt"), mode |-> W("both"), export_topic |-> P(<<"{hostname}", "odom">>),
              message_type |-> W("Odometry"), members_encode |-> Layout1, members_decode |-> Back]
BareTopic == [transport |-> W("advertising"), framing |-> W("bare"), export_topic |-> P(<<"{hostname}", "odom">>),
              message_type |-> W("Odometry"), members_encode |-> Layout1]
MeshTopic == [transport |-> W("mesh"), channel_id |-> N(1001), export_topic |-> P(<<"{hostname}", "odom">>),
              message_type |-> W("Odometry"), members_encode |-> Layout1, vendor_opcode |-> N(193)]

GattFile == [peer_whitelist |-> Pair, shared_topics |-> List(<<Map(GattTopic)>>)]
CastFile ==
    [k \in {"enable_time_service", "enable_wifi_service", "enable_serial_port_profile",
            "auto_connect_enable", "auto_pair", "auto_trust"} |-> No]
    @@ [advertise_mode |-> W("broadcast"), peer_whitelist |-> Pair,
        shared_topics |-> List(<<Map(BareTopic)>>)]
MeshFile == [enable_mesh |-> Yes, mesh_swarm_auto_provisioning |-> Yes, peer_whitelist |-> Pair,
             mesh_swarm_heartbeat_period |-> N(30), mesh_swarm_provisioner_timeout |-> N(200),
             shared_topics |-> List(<<Map(MeshTopic)>>)]
AgainFile == [k \in {"advertise_update_strategy"} |-> W("reregister")] @@ CastFile
Files == {GattFile, CastFile, MeshFile, AgainFile}
Loaded(file) == Load(Default, Map(file), "uav42")

View(file) ==
    LET r == RadioView(Loaded(file).cfg) IN
    [r EXCEPT !.layout = IF r.layout = {} THEN "none" ELSE "odom"]
\* The modes of the radio, with a name for the layout (service_node.cpp:578).
ASSUME Overlays ==
    <<Gatt, Cast, Again, Net>> =
    <<View(GattFile), View(CastFile), View(AgainFile), View(MeshFile)>>

\* The files of config/ load, alone or over the defaults (config_loader.cpp:1211).
ASSUME FilesLoad ==
    /\ \A file \in Files : Loaded(file).ok
    /\ Load(Default, Null, "uav42").ok

\* An overlay may leave a setting to the defaults by null, but not add one
\* (config_loader.cpp:421, 475).
ASSUME NullKeepsDefault ==
    /\ Loaded([k \in {"auto_connect_enable"} |-> Null] @@ GattFile) = Loaded(GattFile)
    /\ ~Loaded([k \in {"auto_pair"} |-> Null] @@ GattFile).ok

With(file, k, node) == [x \in {k} |-> node] @@ file
Topic1(file, topics) == With(file, "shared_topics", List(topics))
Put1(topic, k, node) == Map([x \in {k} |-> node] @@ topic)

\* One change of an overlay that the loader refuses (config_loader.cpp:461-1200).
Broken ==
    {With(MeshFile, "mesh_?", Yes), With(MeshFile, "mesh_default_ttl", N(1)),
     With(MeshFile, "mesh_crpl", N(0)), With(MeshFile, "mesh_device_uuid", Node("uuid", "00")),
     With(MeshFile, "peer_whitelist", List(<<W("uav99")>>)),
     With(MeshFile, "peer_whitelist", List(<<>>)),
     With(MeshFile, "peer_whitelist", List(<<W("uav42"), W("uav042")>>)),
     With(MeshFile, "peer_whitelist", List(<<W("uav42"), W("ground")>>)),
     With(MeshFile, "mesh_provisioner_preference", W("ground")),
     With(MeshFile, "mesh_swarm_provisioner_timeout", N(60)),
     With(MeshFile, "mesh_swarm_provisioner_timeout", N(631)),
     With(MeshFile, "mesh_swarm_group_address", N(65280)), With(MeshFile, "enable_mesh", No),
     With(MeshFile, "mesh_agent_static_oob", List(<<N(1)>>)),
     With(GattFile, "mesh_auto_join", Yes) @@ [mesh_auto_create_network |-> Yes],
     With(GattFile, "peer_whitelist", List(<<W("uav42"), W("uav42")>>)),
     With(GattFile, "advertise_mode", W("broadcast")), With(GattFile, "enable_mesh", Yes),
     With(GattFile, "serial_port_channel", N(31)), With(GattFile, "advertise_size", W("huge")),
     With(GattFile, "advertise_data", Map([x \in {256} |-> List(<<>>)])),
     With(GattFile, "advertise_data", Map([x \in {255} |-> List(<<N(256)>>)])),
     With(CastFile, "auto_pair", Yes), With(CastFile, "enable_scan", No),
     With(CastFile, "enable_server", No)}
    \cup {Topic1(GattFile, <<Map(GattTopic), Map(GattTopic)>>),
          Topic1(GattFile, <<Put1(GattTopic, "channel_id", N(1)), Map(BareTopic)>>),
          Topic1(GattFile, <<Map(GattTopic), Put1(GattTopic, "export_topic", P(<<"uav99", "odom">>))>>),
          Topic1(GattFile, <<Put1(GattTopic, "export_topic", P(<<>>))>>),
          Topic1(GattFile, <<Put1(GattTopic, "export_topic", P(<<"~?", "odom">>))>>),
          Topic1(GattFile, <<Put1(GattTopic, "transport", W("wifi"))>>),
          Topic1(GattFile, <<Put1(GattTopic, "framing", W("bare"))>>),
          Topic1(GattFile, <<Put1(GattTopic, "message_type", W(""))>>),
          Topic1(GattFile, <<Put1(GattTopic, "members_encode", List(<<>>))>>),
          Topic1(GattFile, <<Put1(GattTopic, "members_encode", List(<<Layout1.v[1], Layout1.v[1]>>))>>),
          Topic1(GattFile, <<Put1(GattTopic, "members_encode",
                                  List(<<Map([target |-> W("x"), type |-> W("int128")])>>))>>),
          Topic1(GattFile, <<Put1(GattTopic, "members_decode", List(<<Map([target |-> W("x")])>>))>>),
          Topic1(CastFile, <<Put1(BareTopic, "channel_id", N(1))>>),
          Topic1(CastFile, <<Put1(BareTopic, "framing", W("channel"))>>),
          Topic1(CastFile, <<Map(BareTopic), Put1(BareTopic, "export_topic", P(<<"pose">>))>>),
          Topic1(MeshFile, <<Put1(MeshTopic, "channel_id", N(0))>>),
          Topic1(MeshFile, <<Put1(MeshTopic, "vendor_opcode", N(192))>>),
          Topic1(MeshFile, <<Map(MeshTopic), Put1(MeshTopic, "export_topic", P(<<"pose">>))>>)}
ASSUME BrokenRefused == \A file \in Broken : ~Loaded(file).ok

\* One change that it admits: another company frees the opcode of the heartbeats, and a
\* named destination takes a bridge out of the reliable delivery
\* (config_loader.cpp:1083, 1191).
ASSUME OtherBridges ==
    /\ Loaded(Topic1(MeshFile, <<Map([company_id |-> N(1), vendor_opcode |-> N(192)] @@ MeshTopic)>>)).ok
    /\ Loaded(MeshFile).cfg.topics[1].reliable
    /\ ~Loaded(Topic1(MeshFile, <<Put1(MeshTopic, "destination", N(49153))>>)).cfg.topics[1].reliable

\* All hosts know a bridge by one name, and by another if the topic is the package's own
\* (config_loader.cpp:945-966); the topics of two peers never meet here, those of one
\* peer meet if they are given one suffix (1033-1040).
ASSUME TopicNames ==
    LET Here(file, host) == Load(Default, Map(file), host).cfg
        Own == Topic1(GattFile, <<Put1(GattTopic, "export_topic", P(<<"~", "odom">>))>>)
        Met == Topic1(GattFile, <<Put1(GattTopic, "import_topic_suffix", P(<<"pose">>)),
                                  Map([import_topic_suffix |-> P(<<"pose">>), export_topic |-> P(<<"imu">>)] @@ GattTopic)>>)
        Shown(cfg, peer, i) == PeerBridgeTopic(cfg.prefix, peer, "mac", cfg.topics[i].suffix) IN
    /\ \A host \in Hosts : /\ Here(GattFile, host).topics[1].bridge = <<"odom">>
                          /\ Here(GattFile, host).topics[1].topic = <<host, "odom">>
                          /\ Here(Own, host).topics[1].bridge = <<"bluetooth", "odom">>
    /\ Shown(Here(GattFile, "uav42"), "uav99", 1) = <<"uav42", "bluetooth", "peers", "uav99", "odom">>
    /\ \A a, b \in {"uav42", "uav99", "ble_device"}, i, j \in {1, 2} :
          (Shown(Here(Met, "uav42"), a, i) = Shown(Here(Met, "uav42"), b, j)) <=> a = b
    /\ Loaded(Met).ok

\* The automatic mode gives up every LE role of the defaults (config_loader.cpp:889).
ASSUME AutomaticGivesUp == \A k \in LeRoles : ~Loaded(MeshFile).cfg.flag[k]

\* The Wi-Fi networks that a transition allows (service_node.cpp:1880), changed over GATT:
\* a new network keeps the old one's password; only a wlan0 that is named without
\* settings gets an address (netplan_manager.cpp:359-373); after a torn write nothing can
\* be changed any more, with the file or without (351-358, 403-408).
ASSUME WifiChanges ==
    LET home == File("wlan", <<Point("home", "secret")>>, "own")
        well == [write |-> "ok", apply |-> TRUE, join |-> TRUE, back |-> "ok"]
        torn == [well EXCEPT !.write = "torn"]
        lost == [well EXCEPT !.join = FALSE, !.back = "torn"] IN
    /\ WriteSsid(home, "field", {"field"}, well).file = File("wlan", <<Point("field", "secret")>>, "own")
    /\ WriteSsid(home, "field", {"home"}, well) = Outcome(FALSE, home)
    /\ WritePassword(home, "new", "field", {}, well).file = File("wlan", <<Point("home", "new")>>, "own")
    /\ ~WritePassword(Absent, "new", "unknown", {}, well).ok
    /\ WriteSsid(Absent, "field", {}, well).file.address = ""
    /\ WriteSsid(File("null", <<>>, ""), "field", {}, well).file.address = "default"
    /\ \A e \in {torn, lost}, later \in Events :
          LET left == WriteSsid(home, "field", {}, e).file IN
          ~WriteSsid(left, "home", {}, later).ok /\ ~WritePassword(left, "new", "home", {}, later).ok
    /\ LET blind == [well EXCEPT !.write = "unnoticed"] IN
       WritePassword(home, "new", "home", {}, blind) = Outcome(TRUE, Torn)
    /\ DefaultHostPart(7) = DefaultHostPart(107)

\* Loading an overlay twice is loading it once (OverlayTwice), over any other.
ASSUME OverlaysReload ==
    \A a, b \in Files : MergeFile(MergeFile(Map(a), Map(b)), Map(b)) = MergeFile(Map(a), Map(b))
=============================================================================
