--------------------------- MODULE RadioTransition ---------------------------
(***************************************************************************)
(* The change of radio modes: ServiceNode::apply_config and what runs      *)
(* beside it without the configuration lock.  A transition switches the    *)
(* controller between GATT (peripheral), connectionless advertisements     *)
(* (broadcast) and Mesh.  It takes seconds, any of its steps may fail, and *)
(* the overlay manager answers a failure by a second transition back.      *)
(* Meanwhile bluetoothd may be replaced, a peer may connect, a connection  *)
(* task may be waiting for its D-Bus reply, a raw payload may be on its    *)
(* way to the advertisement, and the timers correct adapter policy,        *)
(* discovery and the advertisement role.                                   *)
(***************************************************************************)
EXTENDS Naturals

CONSTANTS Config,       \* Overlays, as records (see ConfigShape)
          First,        \* What the service starts with
          MaxEvents     \* Bound: requests for another overlay, steps that fail,
                        \* payloads that need the radio, restarts, together

\* enable_mesh, advertise_mode, enable_scan, the exported layout, and
\* advertise_update_strategy, in the combinations config_loader.cpp admits:
\* Mesh excludes every LE role; broadcast excludes GATT services.
ConfigShape == [mesh: BOOLEAN, mode: {"none", "peripheral", "broadcast"},
                scan: BOOLEAN, layout: STRING, reregister: BOOLEAN]

ASSUME ConfigAssumption ==
    /\ Config \subseteq ConfigShape /\ First \in Config
    /\ \A c \in Config : /\ c.mesh => c.mode = "none" /\ ~c.scan
                         /\ c.mode # "peripheral" => c.layout = "none"

VARIABLES
    active,     \* active_config_
    signature,  \* local_gatt_layout_signature_, "unset" before a success
    bridges,    \* The configuration the bridges were made for
    object,     \* advertisement_: "none" or the mode it was made with
    payload,    \* advertisement_extra_payload_ is present
    allowed,    \* connections_allowed_ of the BlueZ client
    op,         \* The transition that holds config_apply_mutex_
    good,       \* The last transition succeeded
    want,       \* config_ of the overlay manager
    overlay,    \* The overlay manager's request
    rescue,     \* The recovery of a replaced daemon
    recover,    \* bluez_daemon_recovery_requested_
    drift,      \* adapter_state_reconcile_requested_
    fixing,     \* A correction of the adapter in progress, and its policy
    writing,    \* A payload that registers the advertisement anew
    role,       \* Legacy radio: "off", "receive" or "transmit"
    transmit,   \* advertisement_transmit_window_
    sweep,      \* reconcile_peers, between its snapshot and its end
    dial,       \* The connection task
    radio,      \* bluetoothd: registrations, discovery, policy
    link,       \* The LE link to the peer
    mesh,       \* bluetooth-meshd owns the controller
    news,       \* Signals on their way: adapter changed, daemon replaced
    history,    \* What happened to the last transition (see Clean)
    spent       \* Bounded events so far

service == <<active, signature, bridges, object, payload, allowed, good, want>>
threads == <<op, overlay, rescue, fixing, writing, sweep, dial>>
flags == <<recover, drift, role, transmit>>
world == <<radio, link, mesh, news, history, spent>>
vars == <<service, threads, flags, world>>

Exclusive(c) == c.mesh \/ c.mode = "broadcast"
Server(c) == ~c.mesh /\ c.mode # "none"
Connectable(c) == c.mode # "broadcast"
Idle == [pc |-> "idle"]
Quiet == op = Idle
Blank == [adv |-> "none", gatt |-> "none", scan |-> FALSE, connectable |-> TRUE]
Advertised(c) == IF Server(c) THEN c.mode ELSE "none"

\* BlueZ answers Busy to another policy while an advertisement is registered.
Writable(connectable) == radio.adv = "none" \/ radio.connectable = connectable

\* Of the last transition: it skipped the adapter's policy, for a correction was under
\* way; bluetoothd was replaced after it wrote that policy; it was a recovery with a
\* copy of an overlay that is not wanted any more.
Clean == [skipped |-> FALSE, missed |-> FALSE, crossed |-> FALSE]

\* A controller that Mesh has taken is gone for bluetoothd.
Present == ~mesh

TypeOK ==
    /\ active \in Config /\ bridges \in Config /\ want \in Config
    /\ signature \in {"unset"} \cup {c.layout : c \in Config}
    /\ object \in {"none", "peripheral", "broadcast"}
    /\ radio \in [adv: {"none", "peripheral", "broadcast"}, scan: BOOLEAN,
                  gatt: {c.layout : c \in Config} \cup {"none"}, connectable: BOOLEAN]
    /\ link \in {"none", "pending", "up"}
    /\ dial \in {"idle", "call", "wait", "done"}
    /\ role \in {"off", "receive", "transmit"}
    /\ {payload, allowed, good, recover, drift, transmit, mesh} \subseteq BOOLEAN
    /\ history \in [skipped: BOOLEAN, missed: BOOLEAN, crossed: BOOLEAN]
    /\ op.pc = "idle" \/ (op.cfg \in Config /\ op.by \in {"overlay", "rescue"})
    /\ rescue.pc = "idle" \/ (rescue.cfg \in Config /\ ~rescue.cfg.mesh)
    /\ sweep.pc \in {"idle", "cast", "look", "le"}

Init ==
    /\ active = First /\ bridges = First /\ want = First
    /\ signature = "unset" /\ object = "none" /\ payload = FALSE
    /\ allowed = TRUE /\ good = FALSE
    /\ op = Idle /\ rescue = Idle
    /\ overlay = [pc |-> "apply", cfg |-> First, prev |-> First]
    /\ recover = FALSE /\ drift = FALSE /\ fixing = Idle /\ writing = "no"
    /\ role = "off" /\ transmit = FALSE /\ sweep = Idle /\ dial = "idle"
    /\ radio = Blank /\ link = "none"
    /\ mesh \in BOOLEAN       \* A crash may leave the Mesh daemon running
    /\ news = [adapter |-> FALSE, daemon |-> FALSE]
    /\ history = Clean /\ spent = 0

May == spent < MaxEvents
Spend == May /\ spent' = spent + 1

(***************************************************************************)
(* Who asks for a transition.                                              *)
(***************************************************************************)
\* A request of a user node or an operator.
Request(c) ==
    /\ overlay = Idle /\ c # want /\ Spend
    /\ overlay' = [pc |-> "apply", cfg |-> c, prev |-> want] /\ want' = c
    /\ UNCHANGED <<active, signature, bridges, object, payload, allowed, good,
                   op, rescue, fixing, writing, sweep, dial, flags, radio, link, mesh, news, history>>

\* Plausible bug: the recovery does not ask whether Mesh has the controller.
CopyAny ==
    /\ recover /\ Quiet /\ rescue = Idle /\ writing = "no"
    /\ rescue' = [pc |-> "apply", cfg |-> active]
    /\ recover' = FALSE
    /\ UNCHANGED <<service, op, overlay, fixing, writing, sweep, dial,
                   drift, role, transmit, world>>

\* recover_bluez_daemon_if_requested copies the configuration...
Copy ==
    /\ recover /\ Quiet /\ rescue = Idle /\ writing = "no"
    /\ \/ active.mesh /\ rescue' = Idle
       \/ ~active.mesh /\ Present /\ rescue' = [pc |-> "apply", cfg |-> active]
    /\ recover' = FALSE
    /\ UNCHANGED <<service, op, overlay, fixing, writing, sweep, dial,
                   drift, role, transmit, world>>

Ask(by) == IF by = "overlay" THEN overlay ELSE rescue

\* ... and both wait for the configuration lock.  active_config_ changes, and
\* connections are denied, before anything can fail.
Begin(by) ==
    /\ Quiet /\ Ask(by).pc \in {"apply", "back"}
    /\ LET c == Ask(by).cfg IN
       /\ op' = [pc |-> "release", by |-> by, cfg |-> c,
                 handoff |-> signature # "unset" /\ ~Exclusive(c)]
       /\ active' = c
    /\ allowed' = FALSE
    /\ history' = [Clean EXCEPT !.crossed = by = "rescue" /\ rescue.cfg # want]
    /\ UNCHANGED <<signature, bridges, object, payload, good, want, overlay, rescue,
                   fixing, writing, sweep, dial, flags, radio, link, mesh, news, spent>>

Goto(pc) == op' = [op EXCEPT !.pc = pc]

\* Plausible bug: a recovery that fails is not asked for again.
ThrowOnce ==
    /\ Spend /\ op' = Idle /\ good' = FALSE /\ history' = Clean
    /\ allowed' = ~Exclusive(op.cfg)
    /\ IF op.by = "rescue" THEN rescue' = Idle /\ UNCHANGED <<overlay, want, recover>>
       ELSE /\ IF overlay.pc = "apply" /\ overlay.prev # overlay.cfg
               THEN /\ want' = overlay.prev
                    /\ overlay' = [overlay EXCEPT !.pc = "back", !.cfg = overlay.prev]
               ELSE overlay' = Idle /\ UNCHANGED want
            /\ UNCHANGED <<recover, rescue>>
    /\ UNCHANGED <<active, bridges, fixing, writing, sweep, dial, role, transmit, mesh>>

\* An exception ends the transition; connections follow the failed overlay.
\* The overlay manager goes back to what ran before, once; a recovery is tried again.
Throw ==
    /\ Spend /\ op' = Idle /\ good' = FALSE /\ history' = Clean
    /\ allowed' = ~Exclusive(op.cfg)
    /\ IF op.by = "rescue" THEN /\ recover' = TRUE /\ rescue' = Idle
                                /\ UNCHANGED <<overlay, want>>
       ELSE /\ IF overlay.pc = "apply" /\ overlay.prev # overlay.cfg
               THEN /\ want' = overlay.prev
                    /\ overlay' = [overlay EXCEPT !.pc = "back", !.cfg = overlay.prev]
               ELSE overlay' = Idle /\ UNCHANGED want
            /\ UNCHANGED <<recover, rescue>>
    /\ UNCHANGED <<active, bridges, fixing, writing, sweep, dial, role, transmit, mesh>>

(***************************************************************************)
(* The steps of apply_config.                                              *)
(***************************************************************************)
At(pc) == op.pc = pc

\* What only a transition's own step changes stays with all other steps.
Others == UNCHANGED <<active, allowed, good, want, overlay, rescue, fixing,
                      writing, sweep, dial, recover, role, transmit, news>>

\* Dynamic bytes belong to the overlay that produced them; the state lock
\* waits for a payload that is being registered.  Then discovery,
\* subscriptions, connections and unanswered Connect calls are stopped.
Release ==
    /\ At("release") /\ (op.cfg.mode # "broadcast" => writing = "no")
    /\ payload' = (payload /\ op.cfg.mode = "broadcast") /\ Goto("bridges")
    /\ IF ~Exclusive(op.cfg) /\ ~op.handoff
       THEN UNCHANGED <<radio, link>>
       ELSE radio' = [radio EXCEPT !.scan = FALSE] /\ link' = "none"
    /\ UNCHANGED <<signature, bridges, object, drift, mesh, history, spent>> /\ Others
ReleaseFails ==
    /\ At("release") /\ (op.cfg.mode # "broadcast" => writing = "no")
    /\ link # "none" /\ (Exclusive(op.cfg) \/ op.handoff)
    /\ payload' = (payload /\ op.cfg.mode = "broadcast")
    /\ radio' = [radio EXCEPT !.scan = FALSE] /\ Throw
    /\ UNCHANGED <<signature, object, drift, link, news>>

\* The Mesh daemon is stopped, and Adapter1 comes back; the new bridges begin.
\* Broadcast with an advertisement of its own, and a rebuild, scan later.
Bridges ==
    /\ At("bridges") /\ bridges' = op.cfg /\ mesh' = (mesh /\ op.cfg.mesh)
    /\ news' = [news EXCEPT !.adapter = @ \/ (mesh /\ ~op.cfg.mesh)]
    /\ LET c == op.cfg IN radio' = [radio EXCEPT !.scan =
         c.scan /\ ~op.handoff /\ ~(c.mode = "broadcast" /\ Server(c))]
    /\ Goto("retire")
    /\ UNCHANGED <<signature, object, payload, drift, link, history, spent>>
    /\ UNCHANGED <<active, allowed, good, want, overlay, rescue, fixing,
                   writing, sweep, dial, recover, role, transmit>>
StopMeshFails ==
    /\ At("bridges") /\ mesh /\ ~op.cfg.mesh /\ Throw
    /\ UNCHANGED <<signature, object, payload, drift, radio, link, news>>

\* BlueZ refuses adapter policy while an advertisement is registered.
Retire ==
    /\ At("retire") /\ writing = "no" /\ object' = "none"
    /\ radio' = [radio EXCEPT !.adv = "none"] /\ Goto("adapt")
    /\ UNCHANGED <<signature, bridges, payload, drift, link, mesh, history, spent>> /\ Others

\* Plausible bug: the policy is left to the coalesced correction.
AdaptLater ==
    /\ At("adapt") /\ Goto("rebuild") /\ drift' = ~op.cfg.mesh
    /\ UNCHANGED <<signature, bridges, object, payload, radio, link, mesh, history, spent>> /\ Others

\* apply_adapter_state: skipped for Mesh, and when a correction is under way.
Adapt ==
    /\ At("adapt") /\ Goto("rebuild")
    /\ \/ op.cfg.mesh /\ drift' = FALSE /\ UNCHANGED <<radio, news, history>>
       \/ /\ ~op.cfg.mesh /\ fixing # Idle
          /\ history' = [history EXCEPT !.skipped = TRUE] /\ UNCHANGED <<drift, radio, news>>
       \/ /\ ~op.cfg.mesh /\ fixing = Idle /\ Writable(Connectable(op.cfg))
          /\ radio' = [radio EXCEPT !.connectable = Connectable(op.cfg)]
          /\ news' = [news EXCEPT !.adapter = @ \/ radio' # radio]
          /\ UNCHANGED <<drift, history>>
    /\ UNCHANGED <<signature, bridges, object, payload, link, mesh, spent>>
    /\ UNCHANGED <<active, allowed, good, want, overlay, rescue, fixing,
                   writing, sweep, dial, recover, role, transmit>>
AdaptFails ==
    /\ At("adapt") /\ ~op.cfg.mesh /\ fixing = Idle /\ Throw
    /\ UNCHANGED <<signature, object, payload, drift, radio, link, news>>

\* Plausible bug: without a server there is nothing to rebuild.
RebuildServer ==
    /\ At("rebuild")
    /\ radio' = [radio EXCEPT !.adv = IF object = "none" THEN @ ELSE "none",
                              !.gatt = IF Server(op.cfg) THEN op.cfg.layout ELSE @]
    /\ object' = Advertised(op.cfg)
    /\ Goto("advertise")
    /\ UNCHANGED <<signature, bridges, payload, drift, link, mesh, history, spent>> /\ Others

\* rebuild_server_objects: the GATT application; an empty one is not registered.
Rebuild ==
    /\ At("rebuild")
    /\ radio' = [radio EXCEPT !.adv = IF object = "none" THEN @ ELSE "none",
                              !.gatt = IF Server(op.cfg) THEN op.cfg.layout ELSE "none"]
    /\ object' = Advertised(op.cfg)
    /\ Goto("advertise")
    /\ UNCHANGED <<signature, bridges, payload, drift, link, mesh, history, spent>> /\ Others
RebuildFails ==
    /\ At("rebuild") /\ Server(op.cfg) /\ op.cfg.layout # "none" /\ Throw
    /\ radio' = [radio EXCEPT !.gatt = "none"] /\ object' = "none"
    /\ UNCHANGED <<signature, payload, drift, link, news>>

\* refresh_advertisement_registration, with discovery stopped around it.
Advertise ==
    /\ At("advertise") /\ writing = "no" /\ Goto("end")
    /\ radio' = IF object = "none" THEN radio
                ELSE [radio EXCEPT !.adv = object,
                        !.scan = IF object = "broadcast" THEN op.cfg.scan ELSE @]
    /\ UNCHANGED <<signature, bridges, object, payload, drift, link, mesh, history, spent>> /\ Others
AdvertiseFails ==
    /\ At("advertise") /\ writing = "no" /\ object # "none" /\ Throw
    /\ \E adv \in {"none", object} :    \* Or the scan cannot be resumed
         /\ adv = "none" \/ object = "broadcast"
         /\ radio' = [radio EXCEPT !.adv = adv, !.scan = @ /\ object # "broadcast"]
    /\ UNCHANGED <<signature, object, payload, drift, link, news>>

\* Plausible bug: the guard always allows connections when it ends.
EndAllowing ==
    /\ At("end") /\ op' = Idle /\ good' = TRUE /\ allowed' = TRUE
    /\ signature' = op.cfg.layout
    /\ IF op.cfg.mesh
       THEN /\ mesh' = TRUE /\ link' = "none"
            /\ radio' = [Blank EXCEPT !.connectable = radio.connectable]
       ELSE /\ radio' = [radio EXCEPT !.scan = @ \/ (op.handoff /\ op.cfg.scan)]
            /\ UNCHANGED <<mesh, link>>
    /\ IF op.by = "rescue" THEN rescue' = Idle /\ UNCHANGED overlay
                           ELSE overlay' = Idle /\ UNCHANGED rescue
    /\ UNCHANGED <<active, bridges, object, payload, want, fixing,
                   writing, sweep, dial, flags, news, history, spent>>

\* The layout is known; discovery resumes after a handoff; Mesh starts last.
\* The controller leaves bluetoothd and takes every registration with it.
\* Outgoing connections are allowed again when the policy guard ends.
End ==
    /\ At("end") /\ op' = Idle /\ good' = TRUE /\ allowed' = ~Exclusive(op.cfg)
    /\ signature' = op.cfg.layout
    /\ IF op.cfg.mesh
       THEN /\ mesh' = TRUE /\ link' = "none"
            /\ radio' = [Blank EXCEPT !.connectable = radio.connectable]
       ELSE /\ radio' = [radio EXCEPT !.scan = @ \/ (op.handoff /\ op.cfg.scan)]
            /\ UNCHANGED <<mesh, link>>
    /\ IF op.by = "rescue" THEN rescue' = Idle /\ UNCHANGED overlay
                           ELSE overlay' = Idle /\ UNCHANGED rescue
    /\ UNCHANGED <<active, bridges, object, payload, want, fixing,
                   writing, sweep, dial, flags, news, history, spent>>
StartFails ==
    /\ At("end") /\ op.cfg.mesh /\ ~mesh /\ signature' = op.cfg.layout /\ Throw
    /\ UNCHANGED <<object, payload, drift, radio, link, news>>

(***************************************************************************)
(* bluetoothd: replacement, and the signals that tell of it.               *)
(***************************************************************************)
Replace ==
    /\ Present /\ Spend
    /\ history' = [history EXCEPT !.missed = @ \/ op.pc \in {"rebuild", "advertise", "end"}]
    /\ radio' = Blank /\ link' = "none"
    /\ news' = [adapter |-> TRUE, daemon |-> TRUE]
    /\ UNCHANGED <<service, threads, flags, mesh>>

\* "bluez_daemon_restarted" during a transition is not remembered.
DaemonEvent ==
    /\ news.daemon /\ writing = "no" /\ news' = [news EXCEPT !.daemon = FALSE]
    /\ recover' = (recover \/ (Quiet /\ ~active.mesh)) /\ drift' = TRUE
    /\ UNCHANGED <<service, threads, role, transmit, radio, link, mesh, history, spent>>

Drifted == radio.connectable # Connectable(active)

AdapterEvent ==
    /\ news.adapter /\ writing = "no" /\ news' = [news EXCEPT !.adapter = FALSE]
    /\ drift' = (drift \/ (~active.mesh /\ Present /\ Drifted))
    /\ UNCHANGED <<service, threads, recover, role, transmit, radio, link, mesh, history, spent>>

(***************************************************************************)
(* reconcile_adapter_state_if_requested: not under the configuration lock. *)
(***************************************************************************)
Correct ==
    /\ drift /\ Quiet /\ fixing = Idle /\ drift' = FALSE
    /\ fixing' = IF active.mesh \/ ~Drifted THEN Idle
                 ELSE [pc |-> "set", connectable |-> Connectable(active)]
    /\ UNCHANGED <<service, op, overlay, rescue, writing, sweep, dial,
                   recover, role, transmit, world>>

Corrected ==
    /\ fixing # Idle /\ Present /\ Writable(fixing.connectable) /\ fixing' = Idle
    /\ radio' = [radio EXCEPT !.connectable = fixing.connectable]
    /\ news' = [news EXCEPT !.adapter = @ \/ radio' # radio]
    /\ UNCHANGED <<service, op, overlay, rescue, writing, sweep, dial, flags,
                   link, mesh, history, spent>>

CorrectionFails ==
    /\ fixing # Idle /\ fixing' = Idle /\ drift' = TRUE
    /\ UNCHANGED <<service, op, overlay, rescue, writing, sweep, dial,
                   recover, role, transmit, world>>

(***************************************************************************)
(* Payloads of the broadcast advertisement, under the state lock only.     *)
(***************************************************************************)
\* A registered packet gives way to discovery.
Window == IF radio.adv # "none" /\ active.scan
          THEN [radio EXCEPT !.adv = "none", !.scan = TRUE] ELSE radio

\* A registered object is updated in place, or registered anew after a window
\* in which the radio listens.
Write ==
    /\ writing = "no" /\ active.mode = "broadcast" /\ payload' = TRUE
    /\ IF object = "none" \/ (radio.adv # "none" /\ ~active.reregister)
       THEN UNCHANGED <<writing, radio, spent>>
       ELSE writing' = "open" /\ Spend /\ radio' = Window
    /\ UNCHANGED <<active, signature, bridges, object, allowed, good, want, op, overlay,
                   rescue, fixing, sweep, dial, flags, link, mesh, news, history>>

Registered == [radio EXCEPT !.adv = object,
                            !.scan = @ /\ active.mode # "broadcast"]

Register ==
    /\ writing = "open" /\ writing' = "air" /\ transmit' = TRUE /\ radio' = Registered
    /\ UNCHANGED <<service, op, overlay, rescue, fixing, sweep, dial,
                   recover, drift, role, link, mesh, news, history, spent>>
RegisterFails ==
    /\ writing = "open" /\ writing' = "no" /\ transmit' = FALSE
    /\ radio' = [Registered EXCEPT !.adv = "none"]
    /\ UNCHANGED <<service, op, overlay, rescue, fixing, sweep, dial,
                   recover, drift, role, link, mesh, news, history, spent>>

\* The packet stays on air for a radio interval.
OnAir ==
    /\ writing = "air" /\ writing' = "no" /\ transmit' = FALSE
    /\ UNCHANGED <<service, op, overlay, rescue, fixing, sweep, dial,
                   recover, drift, role, world>>

(***************************************************************************)
(* maintain_legacy_advertisement_radio: one role at a time, alternately.   *)
(***************************************************************************)
Legacy == /\ object # "none" /\ radio.adv # "none" /\ payload
          /\ active.scan /\ active.mode = "broadcast" /\ ~active.reregister

Alternate ==
    /\ Quiet /\ writing = "no"
    /\ CASE ~Legacy -> /\ role # "off" /\ role' = "off" /\ transmit' = FALSE
                       /\ UNCHANGED radio
         [] Legacy /\ role = "off" ->
              /\ role' = (IF radio.scan THEN "receive" ELSE "transmit")
              /\ transmit' = ~radio.scan /\ UNCHANGED radio
         [] Legacy /\ role = "receive" ->
              /\ role' = "transmit" /\ transmit' = TRUE
              /\ radio' = [radio EXCEPT !.scan = FALSE]
         [] Legacy /\ role = "transmit" ->
              /\ role' = "receive" /\ transmit' = FALSE
              /\ radio' = [radio EXCEPT !.scan = TRUE]
    /\ UNCHANGED <<service, threads, recover, drift, link, mesh, news, history, spent>>

(***************************************************************************)
(* reconcile_peers: what it read may be old when it acts.                  *)
(***************************************************************************)
SweepBegin ==
    /\ sweep = Idle /\ Quiet /\ ~active.mesh /\ writing = "no"
    /\ IF active.mode = "broadcast"
       THEN sweep' = [pc |-> "cast", up |-> link = "up"] /\ UNCHANGED dial
       ELSE /\ sweep' = [pc |-> "le", scan |-> active.scan /\ link # "up"]
            /\ dial' = IF dial = "idle" /\ link = "none" THEN (IF allowed THEN "call" ELSE dial) ELSE dial
    /\ UNCHANGED <<service, op, overlay, rescue, fixing, writing, flags, world>>

\* Transient links are closed, by a task if the one slot for tasks is free.
SweepCast ==
    /\ sweep.pc = "cast" /\ sweep' = [pc |-> "look", transmit |-> transmit]
    /\ link' = IF sweep.up /\ dial = "idle" THEN "none" ELSE link
    /\ UNCHANGED <<service, op, overlay, rescue, fixing, writing, dial, flags,
                   radio, mesh, news, history, spent>>

SweepScan ==
    /\ sweep.pc \in {"look", "le"} /\ sweep' = Idle
    /\ LET on == IF sweep.pc = "le" THEN sweep.scan ELSE active.scan /\ ~sweep.transmit
       IN radio' = [radio EXCEPT !.scan = on /\ Present]
    /\ UNCHANGED <<service, op, overlay, rescue, fixing, writing, dial, flags,
                   link, mesh, news, history, spent>>

(***************************************************************************)
(* Links.  BluezClient::connect asks whether connections are allowed       *)
(* before its D-Bus call, and again after it.                              *)
(***************************************************************************)
DialCall ==
    /\ dial = "call"
    /\ IF Present /\ link = "none" THEN link' = "pending" /\ dial' = "wait"
                                   ELSE dial' = "idle" /\ UNCHANGED link
    /\ UNCHANGED <<service, op, overlay, rescue, fixing, writing, sweep, flags,
                   radio, mesh, news, history, spent>>

\* A call that Disconnect has cancelled returns with an error.
DialAnswer ==
    /\ dial = "wait"
    /\ \/ link = "pending" /\ link' = "up" /\ dial' = "done"
       \/ link = "pending" /\ link' = "none" /\ dial' = "idle"
       \/ link # "pending" /\ dial' = "idle" /\ UNCHANGED link
    /\ UNCHANGED <<service, op, overlay, rescue, fixing, writing, sweep, flags,
                   radio, mesh, news, history, spent>>

DialCheck ==
    /\ dial = "done" /\ dial' = "idle"
    /\ link' = IF allowed THEN link ELSE "none"
    /\ UNCHANGED <<service, op, overlay, rescue, fixing, writing, sweep, flags,
                   radio, mesh, news, history, spent>>

\* The peer connects while the adapter lets it, and leaves when it likes.
PeerComes ==
    /\ link = "none" /\ Present /\ radio.connectable /\ link' = "up"
    /\ UNCHANGED <<service, threads, flags, radio, mesh, news, history, spent>>
PeerLeaves ==
    /\ link = "up" /\ link' = "none"
    /\ UNCHANGED <<service, threads, flags, radio, mesh, news, history, spent>>

Transition == \/ Release \/ ReleaseFails \/ Bridges \/ StopMeshFails \/ Retire
              \/ Adapt \/ AdaptFails \/ Rebuild \/ RebuildFails
              \/ Advertise \/ AdvertiseFails \/ End \/ StartFails
Sweep == SweepBegin \/ SweepCast \/ SweepScan
Dial == DialCall \/ DialAnswer \/ DialCheck
Air == Register \/ RegisterFails \/ OnAir
Correction == Correct \/ Corrected \/ CorrectionFails

Next ==
    \/ \E c \in Config : Request(c)
    \/ Copy \/ \E by \in {"overlay", "rescue"} : Begin(by)
    \/ Transition \/ Replace \/ DaemonEvent \/ AdapterEvent \/ Correction
    \/ Write \/ Air \/ Alternate \/ Sweep \/ Dial \/ PeerComes \/ PeerLeaves

\* Threads run on, a waiter gets the state or the configuration lock in the
\* end (payloads hold it for one interval each), D-Bus calls return, signals
\* are delivered, and timers fire.  A change of a device or the end of a
\* transition schedules reconcile_peers.
Fairness ==
    /\ WF_vars(Transition) /\ WF_vars(Copy)
    /\ WF_vars(Begin("overlay")) /\ WF_vars(Begin("rescue"))
    /\ WF_vars(DaemonEvent \/ AdapterEvent) /\ WF_vars(Correction)
    /\ WF_vars(Air) /\ WF_vars(Alternate) /\ WF_vars(Sweep) /\ WF_vars(Dial)

Spec == Init /\ [][Next]_vars /\ Fairness
-----------------------------------------------------------------------------
(***************************************************************************)
(* Properties.                                                             *)
(***************************************************************************)
\* Everything the service has built is of one overlay.
Matches(c) ==
    /\ mesh = c.mesh /\ bridges = c /\ allowed = ~Exclusive(c)
    /\ radio.gatt = (IF Server(c) THEN c.layout ELSE "none")
    /\ radio.adv = Advertised(c) \/ c.reregister

\* A replaced daemon whose registrations are not made again yet.
Lost == news.daemon \/ recover \/ rescue # Idle

\* Between transitions, and after one that succeeded, bearer, bridges,
\* registrations and connection policy are those of the active overlay, which
\* is the one the overlay manager holds: nothing is left of an overlay that
\* failed half-way or of a payload, connection or correction that was under
\* way when the mode changed (ServiceNode::apply_config).  The transition did not
\* outlive the bluetoothd it built on, and no recovery undid a newer overlay.
Faithful ==
    Quiet /\ good /\ ~Lost /\ writing = "no"
        => /\ Matches(active) \/ history.missed
           /\ overlay = Idle => active = want \/ history.crossed

\* Mesh is given a controller without LE registrations, with outgoing
\* connections denied (apply_config: "exclusive radio data planes").
OneBearer ==
    [][~mesh /\ mesh' => radio.adv = "none" /\ radio.gatt = "none" /\ ~allowed]_vars

\* When overlays stop changing and the last transition wrote the adapter's policy, the
\* adapter keeps it, and in broadcast mode links end and stay away, also one whose
\* Connect call was under way.  In any case the radio listens again and again beside
\* its transmissions.
Settles ==
    LET Calm == Quiet /\ good /\ active.mode = "broadcast"
        Applied == ~history.skipped /\ ~history.missed IN
    /\ <>[](Quiet /\ good /\ ~active.mesh /\ Applied) => <>[](~Drifted)
    /\ <>[](Calm /\ Applied) => <>[](link = "none")
    /\ <>[](Calm /\ active.scan) => []<>radio.scan

\* A bluetoothd that was replaced gets the service's objects again, whichever steps
\* fail, unless it was replaced under the last steps of the transition
\* (recover_bluez_daemon_if_requested, with its retries).
Recovers == LET Rebuilt == good /\ (Matches(active) \/ history.missed) IN
            /\ []<>(good => Rebuilt)
            /\ recover ~> Rebuilt

(***************************************************************************)
(* What does not hold: see the README's table of divergences.              *)
(***************************************************************************)
\* The active overlay is the overlay manager's.  False when an overlay changes
\* while a recovery waits for the lock with its copy of the old one.
Follows == []<>(Quiet /\ overlay = Idle /\ good => active = want)

\* The adapter gets the policy of the active overlay in the end.  False when the
\* transition skipped it, or lost it, and registered an advertisement: every correction
\* is then answered Busy.
PolicySettles == <>[](Quiet /\ good /\ ~active.mesh) => <>[](~Drifted)

\* A replaced bluetoothd is always built anew.  False when it is replaced under the last
\* steps of a transition and the signal arrives before the end.
AlwaysRecovers == []<>(good => Matches(active))
=============================================================================
