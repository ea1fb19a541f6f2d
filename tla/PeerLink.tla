------------------------------ MODULE PeerLink ------------------------------
(***************************************************************************)
(* Two UAVs in GATT mode and the one LE link between them: the session a   *)
(* service keeps of its peer (peer_manager.cpp), the reconciliation that   *)
(* dials, pairs, repairs and subscribes (service_node_peer_orchestration), *)
(* the import of a topic of the peer (import_bridge_manager.cpp), and the  *)
(* D-Bus callbacks that change the same session, bridge and import while a *)
(* pass has released state_mutex_ or a peer task waits for its reply.      *)
(*                                                                         *)
(* Both sides have auto_connect, auto_pair and a GATT topic in either      *)
(* direction.  bluetoothd is the environment: links, keys, resolved        *)
(* services, subscriptions, and signals that report them later.            *)
(***************************************************************************)
EXTENDS Naturals, FiniteSets

CONSTANTS
    Dialer,     \* the lower host name: dials (one of the two nodes 1 and 2)
    PairOwner,  \* the lower adapter address: pairs first
    MaxFaults,  \* Bound: losses, failures and restarts, together
    Slow,       \* the nodes whose pass other steps may overtake while it has no lock
    Odd         \* circumstances of Circumstance that are admitted

\* "silent": no scan reports the device again; "kept": RemoveDevice fails;
\* "quick": a link comes back before a pass has seen it go; "again": a repair
\* is asked for while the reset of an earlier one is at work; "late": a pass that
\* clears the runtime is overtaken before its StopNotify.
Circumstance == {"silent", "kept", "quick", "again", "late"}

Node == {1, 2}
Other(n) == 3 - n

ASSUME ConstantAssumption == /\ {Dialer, PairOwner} \subseteq Node
                             /\ MaxFaults \in Nat /\ Slow \subseteq Node /\ Odd \subseteq Circumstance

VARIABLES
    real,   \* real[n]: the peer's Device1 at n's bluetoothd
    dev,    \* dev[n]: what n's cache and session have been told of it
    bond,   \* bond[n]: the stored key
    ses,    \* ses[n]: the PeerConnectionSession
    br,     \* br[n]: the time bridge
    sub,    \* sub[n]: the subscription to the peer's time, "dead" if it is mute
    top,    \* top[n]: the import of the peer's topic: "off" without a path, or
            \* with one "on", its StartNotify "refused", "stopped", "lost" with the link
    task,   \* task[n]: what the peer task waits for; a pairing that the other side
            \* has agreed to is "admitted"
    pass,   \* pass[n]: the reconciliation pass, and the device it looked at
    wake,   \* wake[n]: peer_timer_ is armed
    spent,  \* bounded events so far
    crossed \* crossed[n], a history: n's third failure asked for the repair while a
            \* pairing was under way to which n had agreed

vars == <<real, dev, bond, ses, br, sub, top, task, pass, wake, spent, crossed>>

Device == {"gone", "idle", "conn", "res"}
Live(d) == d \in {"conn", "res"}
Linked == Live(real[1])

\* Phases are told apart as far as some branch does; "rest" stands for
\* discovered, disconnected, idle, passive, stale, recovering, disconnecting.
Session == [phase : {"rest", "connecting", "unready", "securing", "ready"},
            repair : {"no", "asked", "issued"}, pairing : BOOLEAN,
            inbound : BOOLEAN, grace : BOOLEAN, since : BOOLEAN, cool : BOOLEAN,
            wait : {"no", "on", "up"}, healthy : BOOLEAN, fails : 0..3,
           turn : {"no", "on", "due"}]

Fresh == [phase |-> "rest", repair |-> "no", pairing |-> FALSE, inbound |-> FALSE,
          grace |-> FALSE, since |-> FALSE, cool |-> FALSE, wait |-> "no",
          healthy |-> FALSE, fails |-> 0, turn |-> "no"]

NoBridge == [status |-> "none", in |-> FALSE, out |-> FALSE]
Bridge == [status : {"none", "failed", "subscribing", "ready"},
           in : BOOLEAN, out : BOOLEAN]

NoPass == [at |-> "none", dev |-> "gone", bonded |-> FALSE, stop |-> FALSE]
Pass == [at : {"none", "clear", "act", "notify"}, dev : Device, bonded : BOOLEAN, stop : BOOLEAN]

Matched == bond[1] /\ bond[2]
Proven(b) == b.in /\ b.out

-----------------------------------------------------------------------------
(* The session (peer_manager.cpp)                                           *)

Waiting(s) == [s EXCEPT !.wait = IF @ = "no" THEN "on" ELSE @, !.phase = "unready"]

ClearReset(s) == [s EXCEPT !.repair = "no", !.fails = 0, !.cool = FALSE]

\* request_device_reset.
Ask(s) == IF s.repair # "no" THEN s
          ELSE [s EXCEPT !.repair = "asked", !.wait = "no", !.fails = 0,
                         !.cool = FALSE, !.phase = "rest"]

\* should_preserve_peer_bridge_runtime_during_expected_services_rediscovery.
Preserved(s, b, d) ==
    d = "conn" /\ s.repair = "no" /\ (b.status = "subscribing" \/ (b.status = "ready" /\ Proven(b)))

\* sync_device for a device that is not connected.
SyncIdle(s, bonded) ==
    [s EXCEPT !.inbound = FALSE, !.pairing = FALSE, !.healthy = FALSE, !.since = FALSE,
              !.wait = "no", !.cool = FALSE, !.fails = IF bonded THEN @ ELSE 0,
              !.phase = IF @ = "connecting" THEN @ ELSE "rest"]

\* A connection that no recent attempt explains is the peer's.  The grace of
\* an attempt is of no use once its connection is seen.
Arrived(s) == IF s.since THEN s
              ELSE IF s.grace THEN [s EXCEPT !.since = TRUE, !.grace = FALSE]
              ELSE [ClearReset(s) EXCEPT !.since = TRUE, !.inbound = TRUE]

\* sync_device for a connected one.
SyncLive(s, b, d, bonded) ==
    LET t == Arrived(s) IN
    IF ~bonded
    THEN [t EXCEPT !.wait = "no", !.fails = 0,
                   !.phase = IF t.pairing THEN "securing" ELSE "unready"]
    ELSE LET ready == b.status = "ready"
             kept  == d = "res" \/ (~ready /\ Preserved(t, b, d))
         IN [t EXCEPT !.pairing = FALSE, !.turn = "no",
                      !.phase = IF ready THEN "ready" ELSE "unready",
                      !.wait = IF kept THEN @ ELSE "no", !.cool = @ /\ kept]

\* Plausible bug: a record that is gone does not end the repair.
GoneForgotten(s) ==
    [s EXCEPT !.healthy = FALSE, !.since = FALSE, !.pairing = FALSE,
              !.wait = "no", !.cool = FALSE, !.phase = "rest"]

\* note_missing_device: a record that is gone ends a repair that waited for it.
SyncGone(s) ==
    LET t == [s EXCEPT !.healthy = FALSE, !.since = FALSE, !.pairing = FALSE,
                       !.wait = "no", !.cool = FALSE, !.phase = "rest"]
    IN IF s.repair = "issued" THEN ClearReset(t) ELSE t

Sync(s, b, d, bonded) ==
    CASE d = "gone" -> SyncGone(s)
      [] d = "idle" -> SyncIdle(s, bonded)
      [] OTHER      -> SyncLive(s, b, d, bonded)

\* device_can_host_peer_bridge.
Hosts(n, d, bonded) == bonded /\ (d = "res" \/ Preserved(ses[n], br[n], d))

-----------------------------------------------------------------------------
(* bluetoothd                                                               *)

SetSession(n, s) == ses' = [ses EXCEPT ![n] = s]
SetBridge(n, b) == br' = [br EXCEPT ![n] = b]
Wake(n) == wake' = [wake EXCEPT ![n] = TRUE]
Spend == spent < MaxFaults /\ spent' = spent + 1

\* The link ends, and the subscriptions with it.
Unlinked(r) == [m \in Node |-> IF Live(r[m]) THEN "idle" ELSE r[m]]
Lost(t) == [m \in Node |-> IF t[m] = "on" THEN "lost" ELSE t[m]]
LinkEnds == /\ real' = Unlinked(real)
            /\ sub' = [m \in Node |-> "off"]
            /\ top' = Lost(top)

\* refresh_import_paths_for_mac: a path that is found is subscribed to once,
\* and StartNotify is not repeated; a device that hosts no bridge loses its path.
Imports(t, hosts, healthy) ==
    IF ~hosts THEN "off" ELSE IF t # "off" THEN t ELSE IF healthy THEN "on" ELSE "refused"

\* refresh_import_bridges_for_device at node n, of the device as d describes it.
Healthy(n, d) == Live(d) /\ Live(real[n]) /\ Matched
Refresh(n, d) ==
    top' = [top EXCEPT ![n] = Imports(@, Hosts(n, d, bond[n]), Healthy(n, d))]

\* A change of the Device1 object reaches the cache and on_cache_event.
Notice(n) ==
    /\ dev[n] # real[n]
    /\ dev' = [dev EXCEPT ![n] = real[n]]
    /\ SetSession(n, Sync(ses[n], br[n], real[n], bond[n]))
    /\ SetBridge(n, IF real[n] = "gone" THEN NoBridge ELSE br[n])
    /\ Refresh(n, real[n]) /\ Wake(n)
    /\ UNCHANGED <<real, bond, sub, task, pass, spent, crossed>>

\* An advertisement changes the RSSI of a device that is not connected.
Seen(n) ==
    /\ "silent" \notin Odd /\ dev[n] = "idle" /\ real[n] = "idle"
    /\ SetSession(n, SyncIdle(ses[n], bond[n]))
    /\ Wake(n)
    /\ UNCHANGED <<real, dev, bond, br, sub, top, task, pass, spent, crossed>>

\* A signal that the cache takes in at once: what it reports is n's own.
Report(n, d) ==
    /\ dev[n] = real[n]
    /\ real' = [real EXCEPT ![n] = d]
    /\ dev' = [dev EXCEPT ![n] = d]
    /\ SetSession(n, Sync(ses[n], br[n], d, bond[n]))
    /\ Refresh(n, d) /\ Wake(n)

\* Discovery makes the object again.
Discover(n) ==
    /\ "silent" \notin Odd /\ real[n] = "gone" /\ Report(n, "idle")
    /\ UNCHANGED <<bond, br, sub, task, pass, spent, crossed>>

Resolve(n) ==
    /\ real[n] = "conn" /\ Report(n, "res")
    /\ UNCHANGED <<bond, br, sub, task, pass, spent, crossed>>

MayAsk(n) == "again" \in Odd \/ task[n] \notin {"disconnect", "remove"}

\* A link cannot be encrypted with a key the peer has lost: bluetoothd reports
\* org.bluez.Reason.Authentication, and the bond is stale.
AuthFail(n) ==
    /\ Linked /\ bond[n] /\ ~Matched /\ dev = real
    /\ MayAsk(n)
    /\ LinkEnds
    /\ SetSession(n, IF ses[n].repair = "no" THEN [Ask(ses[n]) EXCEPT !.inbound = FALSE]
                     ELSE ses[n])
    /\ Wake(n)
    /\ UNCHANGED <<dev, bond, br, task, pass, spent, crossed>>

-----------------------------------------------------------------------------
(* reconcile_peers                                                          *)

\* What a pass works on: the device as it took it from the cache, the bridge and
\* the subscriptions once the runtime of a device that hosts no bridge is cleared,
\* or its imports are refreshed.
View(n, d, bonded) ==
    LET keep == Hosts(n, d, bonded) IN
    [dev |-> d, bonded |-> bonded,
     br |-> IF keep THEN br[n] ELSE NoBridge,
     sub |-> IF keep \/ br[n].status = "none" THEN sub[n] ELSE "off",
     top |-> Imports(top[n], keep, Healthy(n, d)),
     wake |-> FALSE]

\* The peer's time characteristic shows a UAV: no laptop, no longer passive.
Promoted(s, d) == IF s.inbound /\ d = "res" THEN [s EXCEPT !.inbound = FALSE] ELSE s

Free(n) == task[n] = "none"

\* What a branch of the pass leaves behind.
Leave(n, s, v, t) ==
    /\ SetSession(n, s) /\ SetBridge(n, v.br)
    /\ sub' = [sub EXCEPT ![n] = v.sub] /\ top' = [top EXCEPT ![n] = v.top]
    /\ task' = [task EXCEPT ![n] = t]
    /\ wake' = [wake EXCEPT ![n] = v.wake]
EndPass(n) == pass' = [pass EXCEPT ![n] = NoPass]

Again(v) == [v EXCEPT !.wake = TRUE]
Status(v, st) == [v EXCEPT !.br.status = st]

Passive(n, s, v) ==
    /\ s.inbound
    /\ Leave(n, [ClearReset(s) EXCEPT !.pairing = FALSE, !.phase = "rest"], v, task[n])
    /\ EndPass(n)

\* Reset the device once; the flags are set after the task has started.
Repair(n, s, v) ==
    /\ ~s.inbound /\ s.repair # "no"
    /\ IF s.repair = "asked" /\ Free(n)
       THEN Leave(n, [s EXCEPT !.repair = "issued", !.phase = "rest", !.since = FALSE,
                               !.grace = FALSE, !.wait = "no"],
                  [v EXCEPT !.br = NoBridge, !.sub = "off", !.top = "off"], "disconnect")
       ELSE Leave(n, s, v, task[n])
    /\ EndPass(n)

\* The owner pairs, or the other one once its fallback is due.
Secure(n, s, v) ==
    /\ ~s.inbound /\ s.repair = "no" /\ Live(v.dev) /\ ~v.bonded
    /\ \/ /\ n # PairOwner /\ s.turn # "due"
          /\ Leave(n, [s EXCEPT !.pairing = FALSE, !.phase = "securing", !.turn = "on"],
                   Again(v), task[n])
       \/ /\ n = PairOwner \/ s.turn = "due"
          /\ LET attempt == ~s.pairing /\ s.since /\ Free(n)
                 t == [s EXCEPT !.pairing = @ \/ attempt]
             IN Leave(n, [t EXCEPT !.phase = IF t.pairing THEN "securing" ELSE "unready"],
                      Again(v), IF attempt THEN "pair" ELSE task[n])
    /\ EndPass(n)

\* should_attempt_connect; nothing arms another pass if it says no.
MayDial(n, s) == /\ n = Dialer /\ Free(n) /\ dev[n] # "gone"
                 /\ s.phase \notin {"ready", "unready", "securing"}
                 /\ ~(s.phase = "connecting" /\ s.grace)

Dial(n, s, v) ==
    /\ ~s.inbound /\ s.repair = "no" /\ ~Live(v.dev)
    /\ IF MayDial(n, s)
       THEN Leave(n, [s EXCEPT !.grace = TRUE, !.phase = "connecting"], v, "connect")
       ELSE Leave(n, IF n = Dialer THEN s ELSE [s EXCEPT !.phase = "rest"], v, task[n])
    /\ EndPass(n)

\* recover_incomplete_time_bridge once the deadline of the handshake has
\* passed: recycle the link, or try again.
Deadline(n, s, v) ==
    IF s.wait # "up" \/ Proven(v.br) THEN Leave(n, s, v, task[n])
    ELSE IF Free(n) THEN Leave(n, [s EXCEPT !.phase = "rest"], v, "drop")
    ELSE Leave(n, s, Again(v), task[n])

Unresolved(n, s, v) ==
    LET kept == Preserved(s, v.br, "conn") IN
    /\ ~s.inbound /\ s.repair = "no" /\ v.dev = "conn" /\ v.bonded
    /\ IF kept /\ ~Proven(v.br) /\ s.wait = "up"
       THEN Deadline(n, s, v)
       ELSE Leave(n, [s EXCEPT !.phase = IF kept /\ v.br.status = "ready"
                                         THEN "ready" ELSE "unready"], Again(v), task[n])
    /\ EndPass(n)

\* update_peer_time_bridge up to StartNotify, for which it releases the lock.
TimeBridge(n, s, v) ==
    LET notifying == v.sub # "off" /\ v.br.status # "none"
        fetched   == ~notifying /\ dev[n] # "gone"
        calm      == [Waiting(s) EXCEPT !.cool = FALSE]
    IN /\ ~s.inbound /\ s.repair = "no" /\ v.dev = "res" /\ v.bonded
       /\ \/ /\ notifying /\ Proven(v.br)
             /\ Leave(n, [ClearReset(s) EXCEPT !.healthy = TRUE, !.wait = "no", !.phase = "ready"],
                      Status(v, "ready"), task[n])
             /\ EndPass(n)
          \/ /\ notifying /\ ~Proven(v.br)
             /\ Deadline(n, calm, Again(Status(v, "subscribing")))
             /\ EndPass(n)
          \/ \* its characteristics went with the device
             /\ ~notifying /\ dev[n] = "gone"
             /\ Deadline(n, Waiting(s), [Again(v) EXCEPT !.br = NoBridge])
             /\ EndPass(n)
          \/ \* backing off after a failed StartNotify, for one pass
             /\ fetched /\ s.cool
             /\ Deadline(n, calm, Again(Status(v, "failed")))
             /\ EndPass(n)
          \/ /\ fetched /\ ~s.cool /\ v.br.status = "subscribing"
             /\ Deadline(n, Waiting(s), v)
             /\ EndPass(n)
          \/ /\ fetched /\ ~s.cool /\ v.br.status # "subscribing"
             /\ Leave(n, s, Status(v, "subscribing"), task[n])
             /\ pass' = [pass EXCEPT ![n] = [NoPass EXCEPT !.at = "notify"]]

Branch(n, v) ==
    LET s == Promoted(ses[n], v.dev) IN
    \/ Passive(n, s, v) \/ Repair(n, s, v) \/ Secure(n, s, v)
    \/ Dial(n, s, v) \/ Unresolved(n, s, v) \/ TimeBridge(n, s, v)

\* A pass that nothing overtakes.
QuickPass(n) ==
    /\ n \notin Slow /\ wake[n] /\ pass[n].at = "none"
    /\ Branch(n, View(n, dev[n], bond[n]))
    /\ UNCHANGED <<real, dev, bond, spent, crossed>>

\* One that takes a copy of the device, releases the lock to clear the runtime
\* or to refresh the imports, and goes on: what it looked at may be stale.
Look(n) ==
    /\ n \in Slow /\ wake[n] /\ pass[n].at = "none"
    /\ wake' = [wake EXCEPT ![n] = FALSE]
    /\ pass' = [pass EXCEPT ![n] = [NoPass EXCEPT !.at = "clear", !.dev = dev[n],
                                                 !.bonded = bond[n]]]
    /\ UNCHANGED <<real, dev, bond, ses, br, sub, top, task, spent, crossed>>

Clear(n) ==
    LET v == View(n, pass[n].dev, pass[n].bonded) IN
    /\ pass[n].at = "clear"
    /\ SetBridge(n, v.br)
    /\ sub' = [sub EXCEPT ![n] = v.sub] /\ top' = [top EXCEPT ![n] = v.top]
    /\ pass' = [pass EXCEPT ![n].at = "act",
                            ![n].stop = "late" \in Odd /\ top[n] = "on" /\ v.top = "off"]
    /\ UNCHANGED <<real, dev, bond, ses, task, wake, spent, crossed>>

Act(n) ==
    /\ pass[n].at = "act"
    /\ Branch(n, [dev |-> pass[n].dev, bonded |-> pass[n].bonded, br |-> br[n], sub |-> sub[n],
                  top |-> IF pass[n].stop /\ top[n] = "on" THEN "stopped" ELSE top[n],
                  wake |-> wake[n]])
    /\ UNCHANGED <<real, dev, bond, spent, crossed>>

-----------------------------------------------------------------------------
(* StartNotify and the two directions of the time exchange                  *)

\* A subscription that exists already stays what it is.
Notified(n) ==
    /\ pass[n].at = "notify" /\ Live(real[n]) /\ Matched
    /\ EndPass(n)
    /\ \/ sub' = [sub EXCEPT ![n] = IF @ = "off" THEN "on" ELSE @] /\ UNCHANGED spent
       \/ sub[n] = "off" /\ sub' = [sub EXCEPT ![n] = "dead"] /\ Spend
    /\ SetSession(n, [Waiting(ses[n]) EXCEPT !.cool = FALSE])
    /\ Wake(n)
    /\ UNCHANGED <<real, dev, bond, br, top, task, crossed>>

\* Plausible bug: failures that show a stale key are counted, and no repair is asked for.
FailuresCounted(n) ==
    LET security == Live(real[n]) /\ ~Matched
        s == ses[n]
        t == IF br[n].status = "none" THEN s
             ELSE [Waiting(s) EXCEPT !.cool = TRUE,
                                     !.fails = IF security /\ ~s.healthy THEN @ + 1 ELSE @]
    IN /\ pass[n].at = "notify"
       /\ IF Live(real[n]) /\ Matched THEN Spend ELSE UNCHANGED spent
       /\ EndPass(n)
       /\ SetBridge(n, NoBridge)
       /\ SetSession(n, Waiting(IF dev[n] = "gone" THEN t ELSE Sync(t, br[n], dev[n], bond[n])))
       /\ Wake(n)
       /\ UNCHANGED <<real, dev, bond, sub, top, task, crossed>>

\* client_notify_failed (on_gatt_event), and what the pass does on its return.
NotifyFailed(n) ==
    LET security == Live(real[n]) /\ ~Matched
        s == ses[n]
        had == br[n].status # "none"
        counted == had /\ security /\ ~s.healthy
        t == IF ~had THEN s
             ELSE [Waiting(s) EXCEPT !.cool = TRUE, !.fails = IF counted THEN @ + 1 ELSE @]
        u == IF counted /\ t.fails = 3 /\ bond[n] THEN Ask([t EXCEPT !.fails = 0]) ELSE t
        asks == u.repair # s.repair
    IN /\ pass[n].at = "notify" /\ (counted => MayAsk(n))
       /\ IF Live(real[n]) /\ Matched THEN Spend ELSE UNCHANGED spent
       /\ EndPass(n)
       /\ SetBridge(n, NoBridge)
       /\ SetSession(n, Waiting(IF dev[n] = "gone" THEN u ELSE Sync(u, br[n], dev[n], bond[n])))
       /\ top' = [top EXCEPT ![n] = Imports(IF had THEN "off" ELSE @, Hosts(n, dev[n], bond[n]),
                                            Healthy(n, dev[n]))]
       /\ crossed' = [crossed EXCEPT ![n] = @ \/ (asks /\ task[Other(n)] = "admitted")]
       /\ Wake(n)
       /\ UNCHANGED <<real, dev, bond, sub, task>>

Received(n, b) == IF Proven(b) THEN [ses[n] EXCEPT !.healthy = TRUE, !.wait = "no", !.fails = 0]
                  ELSE Waiting(ses[n])
Marked(b) == [b EXCEPT !.status = IF Proven(b) THEN "ready" ELSE "subscribing"]

\* A direction's message reaches node n: it completes its half of the bridge,
\* or clears what a device that hosts no bridge has left.
Receive(n, b) ==
    IF ~Hosts(n, dev[n], bond[n])
    THEN /\ SetBridge(n, NoBridge)
         /\ sub' = [sub EXCEPT ![n] = IF br[n].status = "none" THEN @ ELSE "off"]
         /\ top' = [top EXCEPT ![n] = "off"]
         /\ UNCHANGED ses
    ELSE /\ br[n].status # "none"
         /\ SetBridge(n, Marked(b))
         /\ SetSession(n, Received(n, b))
         /\ UNCHANGED <<sub, top>>

\* on_notification: the peer's time arrives.
Notification(n) ==
    /\ sub[n] = "on"
    /\ Receive(n, [br[n] EXCEPT !.in = TRUE])
    /\ UNCHANGED <<real, dev, bond, task, pass, wake, spent, crossed>>

\* handle_time_writeback: the peer writes back the time n has sent it.
Writeback(n) ==
    /\ sub[Other(n)] = "on" /\ br[Other(n)].in
    /\ Receive(n, [br[n] EXCEPT !.out = TRUE])
    /\ UNCHANGED <<real, dev, bond, task, pass, wake, spent, crossed>>

-----------------------------------------------------------------------------
(* Peer tasks: one at a time, off the executor                              *)

Start(n, t) == task' = [task EXCEPT ![n] = t]
EndTask(n) == Start(n, "none") /\ Wake(n)

\* What takes milliseconds comes before the next link, which takes longer: both
\* have been told of the last link's end, bluetoothd has served a Disconnect of
\* the other side and, unless it is quick, a pass has cleared the bridges and started
\* the reset that the other side has been asked for.  A link that overtakes its
\* RemoveDevice counts as a fault.
Settled(n) ==
    /\ \A m \in Node : dev[m] = real[m] /\ ("quick" \in Odd \/ br[m].status = "none")
    /\ task[Other(n)] \notin {"disconnect", "drop", "admitted"}
    /\ "quick" \in Odd \/ ses[Other(n)].repair # "asked"

Connected(n) ==
    /\ task[n] = "connect" /\ EndTask(n)
    /\ ~Linked /\ real[n] = "idle" /\ Settled(n)
    /\ IF task[Other(n)] = "remove" THEN Spend ELSE UNCHANGED spent
    /\ real' = [m \in Node |-> "conn"]
    /\ UNCHANGED <<dev, bond, ses, br, sub, top, pass, crossed>>

ConnectEnds(n) ==
    /\ task[n] = "connect" /\ EndTask(n)
    /\ IF real[n] = "idle" THEN Spend ELSE UNCHANGED spent
    /\ UNCHANGED <<real, dev, bond, ses, br, sub, top, pass, crossed>>

\* note_pair_attempt_result for a failure.
PairFailure(s) == [s EXCEPT !.pairing = FALSE, !.phase = IF @ = "ready" THEN @ ELSE "unready"]

\* What the policy of node o makes of its session before it decides.
Asked(o) == IF dev[o] = "gone" THEN ses[o] ELSE Sync(ses[o], br[o], dev[o], bond[o])

\* Plausible bug: a pairing is admitted while a repair of the peer is under way.
AdmitsAny(o) == dev[o] # "gone"

\* should_allow_pairing_request of the other side.
Admits(o) == dev[o] # "gone" /\ Asked(o).repair = "no"

\* note_pairing_event for a confirmation, which tells the session of the pairing.
Confirming(s, bonded) ==
    [s EXCEPT !.pairing = TRUE,
              !.phase = IF @ = "ready" \/ (bonded /\ @ = "unready") THEN @ ELSE "securing"]

\* note_pairing_event for a cancellation.
Cancelling(s) == [s EXCEPT !.pairing = FALSE, !.phase = "rest"]

\* The agent of the other side is asked and agrees: to a confirmation, or to an
\* authorization, which the session is not told of.
Admitted(n) ==
    LET o == Other(n) IN
    /\ task[n] = "pair" /\ ~bond[n] /\ Linked /\ Admits(o) /\ Start(n, "admitted")
    /\ \/ SetSession(o, Confirming(Asked(o), bond[o]))
       \/ SetSession(o, Asked(o))
    /\ crossed' = [crossed EXCEPT ![o] = FALSE]
    /\ Wake(o)
    /\ UNCHANGED <<real, dev, bond, br, sub, top, pass, spent>>

\* Pair succeeds at once for a device the cache knows as paired.
Known(n) ==
    /\ task[n] \in {"pair", "admitted"} /\ bond[n] /\ EndTask(n)
    /\ SetSession(n, ClearReset([ses[n] EXCEPT !.pairing = FALSE]))
    /\ UNCHANGED <<real, dev, bond, br, sub, top, pass, spent, crossed>>

\* Both have the key.  One side may have asked for a repair since it agreed: that
\* counts as a fault, and nothing takes the repair back.
Paired(n) ==
    /\ task[n] = "admitted" /\ ~bond[n] /\ Linked /\ Start(n, "none")
    /\ bond' = [m \in Node |-> TRUE]
    /\ ses' = [m \in Node |-> LET s == IF m = n THEN ClearReset([ses[n] EXCEPT !.pairing = FALSE])
                                       ELSE ses[m]
                              IN IF dev[m] = "gone" THEN s ELSE Sync(s, br[m], dev[m], TRUE)]
    /\ IF ses'[Other(n)].repair # "no" THEN Spend ELSE UNCHANGED spent
    /\ top' = [m \in Node |-> IF dev[m] = "gone" THEN top[m]
                              ELSE Imports(top[m], Hosts(m, dev[m], TRUE), TRUE)]
    /\ wake' = [m \in Node |-> TRUE]
    /\ UNCHANGED <<real, dev, br, sub, pass, crossed>>

\* It fails: refused, or the peer is out of reach, or for a fault; the agent that
\* has agreed may be told (Cancel, with the path of the pairing).
PairFailed(n) ==
    LET o == Other(n)
        told == {ses[o], Cancelling(ses[o])}
        heard == CASE task[n] = "admitted" -> IF dev[o] = "gone" THEN {ses[o]} ELSE told
                   [] Linked -> {Asked(o)}
                   [] OTHER -> {ses[o]}
    IN /\ task[n] \in {"pair", "admitted"} /\ ~bond[n] /\ Start(n, "none")
       /\ IF Linked /\ (task[n] = "admitted" \/ Admits(o)) THEN Spend ELSE UNCHANGED spent
       /\ \E s \in heard : ses' = [ses EXCEPT ![n] = PairFailure(@), ![o] = s]
       /\ wake' = [m \in Node |-> wake[m] \/ m = n \/ ses'[o] # ses[o]]
       /\ crossed' = [crossed EXCEPT ![o] = FALSE]
       /\ UNCHANGED <<real, dev, bond, br, sub, top, pass>>

\* The reset task asks before each call whether the repair is still wanted.
ResetLink(n) ==
    /\ task[n] = "disconnect"
    /\ IF ses[n].repair = "no"
       THEN EndTask(n) /\ UNCHANGED <<real, sub, top>>
       ELSE /\ Start(n, "remove") /\ UNCHANGED wake
            /\ IF Linked THEN LinkEnds ELSE UNCHANGED <<real, sub, top>>
    /\ UNCHANGED <<dev, bond, ses, br, pass, spent, crossed>>

RemoveDevice(n) ==
    /\ task[n] = "remove" /\ EndTask(n)
    /\ IF ses[n].repair # "no" /\ "kept" \notin Odd
       THEN /\ bond' = [bond EXCEPT ![n] = FALSE]
            /\ real' = [Unlinked(real) EXCEPT ![n] = "gone"]
            /\ sub' = [m \in Node |-> "off"]
            /\ top' = Lost(top)
            /\ crossed' = [crossed EXCEPT ![n] = FALSE]
       ELSE UNCHANGED <<bond, real, sub, top, crossed>>
    /\ UNCHANGED <<dev, ses, br, pass, spent>>

DropLink(n) ==
    /\ task[n] = "drop" /\ EndTask(n)
    /\ IF Linked THEN LinkEnds ELSE UNCHANGED <<real, sub, top>>
    /\ UNCHANGED <<dev, bond, ses, br, pass, spent, crossed>>

-----------------------------------------------------------------------------
(* Time, and what goes wrong                                                *)

GraceEnds(n) ==
    /\ ses[n].grace /\ task[n] # "connect" /\ dev[n] = real[n]
    /\ SetSession(n, [ses[n] EXCEPT !.grace = FALSE])
    /\ UNCHANGED <<real, dev, bond, br, sub, top, task, pass, wake, spent, crossed>>

\* The fallback period of a side that has let the owner pair first (pairing_fallback_due).
FallbackDue(n) ==
    /\ ses[n].turn = "on"
    /\ SetSession(n, [ses[n] EXCEPT !.turn = "due"])
    /\ UNCHANGED <<real, dev, bond, br, sub, top, task, pass, wake, spent, crossed>>

\* Node m waits for notifications that nothing under way will bring.
Mute(m) == \/ sub[m] = "dead"
           \/ /\ sub[m] = "off" /\ br[m].status = "subscribing"
              /\ pass[m].at = "none" /\ ~wake[m]

Stalled(n) == (~br[n].in /\ Mute(n)) \/ (~br[n].out /\ Mute(Other(n)))

\* kPeerNotifyHandshakeTimeout passes.
WaitEnds(n) ==
    /\ ses[n].wait = "on" /\ Linked
    /\ IF Stalled(n) THEN UNCHANGED spent ELSE Spend
    /\ SetSession(n, [ses[n] EXCEPT !.wait = "up"])
    /\ UNCHANGED <<real, dev, bond, br, sub, top, task, pass, wake, crossed>>

LinkLost ==
    /\ Linked /\ dev = real /\ Spend /\ LinkEnds
    /\ UNCHANGED <<dev, bond, ses, br, task, pass, wake, crossed>>

BondLost(n) ==
    /\ bond[n] /\ ~Linked /\ Spend
    /\ bond' = [bond EXCEPT ![n] = FALSE]
    /\ UNCHANGED <<real, dev, ses, br, sub, top, task, pass, wake, crossed>>

Rediscovery(n) ==
    /\ real[n] = "res" /\ Report(n, "conn") /\ Spend
    /\ UNCHANGED <<bond, br, sub, task, pass, crossed>>

\* The service of n ends and starts again: the link stays, its own
\* subscription goes, and with its GATT application the peer's, whose bridge
\* is cleared for want of the characteristic.
Restart(n) ==
    /\ Spend
    /\ dev' = [dev EXCEPT ![n] = real[n]]
    /\ SetSession(n, Sync(Fresh, NoBridge, real[n], bond[n]))
    /\ br' = [m \in Node |-> NoBridge]
    /\ sub' = [m \in Node |-> "off"] /\ top' = [m \in Node |-> "off"]
    /\ wake' = [m \in Node |-> TRUE]
    /\ Start(n, "none") /\ EndPass(n)
    /\ UNCHANGED <<real, bond, crossed>>
-----------------------------------------------------------------------------
Init ==
    /\ bond \in [Node -> BOOLEAN]
    /\ real = [n \in Node |-> "idle"] /\ dev = real
    /\ ses = [n \in Node |-> Fresh] /\ br = [n \in Node |-> NoBridge]
    /\ sub = [n \in Node |-> "off"] /\ top = sub
    /\ task = [n \in Node |-> "none"] /\ pass = [n \in Node |-> NoPass]
    /\ wake = [n \in Node |-> TRUE] /\ spent = 0 /\ crossed = [n \in Node |-> FALSE]

Task(n) == \/ Connected(n) \/ ConnectEnds(n)
           \/ Admitted(n) \/ Known(n) \/ Paired(n) \/ PairFailed(n)
           \/ ResetLink(n) \/ RemoveDevice(n) \/ DropLink(n)

Next ==
    \/ LinkLost
    \/ \E n \in Node :
        \/ Notice(n) \/ Seen(n) \/ Discover(n) \/ Resolve(n) \/ AuthFail(n)
        \/ QuickPass(n) \/ Look(n) \/ Clear(n) \/ Act(n) \/ Notified(n) \/ NotifyFailed(n)
        \/ Notification(n) \/ Writeback(n) \/ Task(n)
        \/ GraceEnds(n) \/ FallbackDue(n) \/ WaitEnds(n)
        \/ BondLost(n) \/ Rediscovery(n) \/ Restart(n)

Spec == Init /\ [][Next]_vars

Fairness(n) ==
    /\ WF_vars(Notice(n)) /\ WF_vars(Seen(n)) /\ WF_vars(Discover(n)) /\ WF_vars(Resolve(n))
    /\ WF_vars(AuthFail(n)) /\ WF_vars(QuickPass(n) \/ Look(n)) /\ WF_vars(Clear(n) \/ Act(n))
    /\ WF_vars(Notified(n) \/ NotifyFailed(n))
    /\ WF_vars(Notification(n)) /\ WF_vars(Writeback(n)) /\ WF_vars(Task(n))
    /\ WF_vars(GraceEnds(n)) /\ WF_vars(FallbackDue(n)) /\ WF_vars(Stalled(n) /\ WaitEnds(n))

FairSpec == Spec /\ \A n \in Node : Fairness(n)
-----------------------------------------------------------------------------
(* The session of each node and what is known of the peer have their shape:
   the state of peer_session.hpp, the task slot and the pass.               *)
TypeOK ==
    /\ real \in [Node -> Device] /\ dev \in [Node -> Device] /\ bond \in [Node -> BOOLEAN]
    /\ ses \in [Node -> Session] /\ br \in [Node -> Bridge]
    /\ sub \in [Node -> {"off", "on", "dead"}] /\ top \in [Node -> {"off", "on", "refused", "stopped", "lost"}]
    /\ task \in [Node -> {"none", "connect", "pair", "admitted", "disconnect", "remove", "drop"}]
    /\ pass \in [Node -> Pass] /\ wake \in [Node -> BOOLEAN] /\ spent \in 0..MaxFaults
    /\ crossed \in [Node -> BOOLEAN]
    /\ Live(real[1]) = Live(real[2]) /\ (~Linked => \A n \in Node : sub[n] = "off" /\ top[n] # "on")

(* Once the faults are over, both time bridges come up and stay up, and
   every import of a peer's topic has its path and is subscribed to, unless
   the one StartNotify of this path was refused: from any combination of
   stored keys and whatever the faults interrupted (reconcile_peers,
   update_peer_time_bridge, refresh_import_bridges_for_device).             *)
Working(n) == /\ br[n].status = "ready" /\ sub[n] = "on" /\ top[n] \in {"on", "refused"}
              /\ ses[n].phase = "ready"
BothReady == <>[](\A n \in Node : Working(n))

(* A reset removes a stale key, never one that both sides hold: a repair is
   asked for only against a key that the peer lacks, a side that wants one
   agrees to no new key, and the initiator's own ends with it.  What is not
   promised is a key agreed to before the repair was asked for, and made
   after (should_continue_repair, should_allow_pairing_request).            *)
SharedKeyKept ==
    [][Matched /\ ~Matched' => spent' # spent \/ \E n \in Node : crossed[n] /\ ~bond'[n]]_vars

(* Not so of every key.                                                     *)
EverySharedKeyKept == [][Matched /\ ~Matched' => spent' # spent]_vars
=============================================================================
