------------------------ MODULE AdvertisementImport ------------------------
(***************************************************************************)
(* The import side of an advertisement bridge: a peer broadcasts samples   *)
(* from rotating random addresses; bluetoothd keeps one Device1 object per *)
(* address with its last payload; the service's cache follows the objects, *)
(* every cache event takes a snapshot of all devices                       *)
(* (service_node_status.cpp), and the bridge publishes what its history    *)
(* does not hold (transport_bridge_manager.cpp).                           *)
(*                                                                         *)
(* One peer, whose host name is resolved, and one import channel.          *)
(***************************************************************************)
EXTENDS Integers, Sequences, SequencesExt

CONSTANTS
    Addresses,   \* number of random addresses of the peer, in the cache's order
    Payload,     \* payloads a sample may have
    Distinct,    \* the peer's samples are all different, and increase
    History,     \* entries of recent_payloads
    MaxChanges,  \* bound: samples and address rotations of the peer
    MaxRestarts, \* bound: restarts of the service
    MaxDaemons,  \* bound: replacements of bluetoothd
    MaxApplies   \* bound: hot changes of the overlay

ASSUME PeerAssumption == Addresses \in Nat \ {0} /\ Payload \subseteq Nat \ {0} /\ Distinct \in BOOLEAN
ASSUME HistoryAssumption == History \in Nat \ {0}
ASSUME BoundAssumption == {MaxChanges, MaxRestarts, MaxDaemons, MaxApplies} \subseteq Nat

Address == 1..Addresses

VARIABLES
    air,        \* what the peer broadcasts, payload 0 for nothing, and its address
    object,     \* bluetoothd's Device1 objects: the payload of an address, or 0
    signals,    \* changes of objects, and of the owner of org.bluez, that the service's
                \* D-Bus thread has yet to handle
    heard,      \* the service has a discovery session with the present bluetoothd
    lost,       \* the service knows that bluetoothd was replaced
    cache,      \* the service's devices_: the payload, and whether an event told
                \* of it in the last three seconds
    late,       \* history: a snapshot came three seconds after the news it was for
    snapshot,   \* payloads the snapshot in progress still has to handle, by address
    seed,       \* payloads the new bridge generation has still to be seeded with
    mode,       \* "scan", or "starting" (no bridge yet), "stopped" (the old bridge)
                \* or "seeding" (the new bridge) before it
    recent,     \* recent_payloads of the peer, oldest first
    shown,      \* payloads published on the peer's topic
    changes, restarts, daemons, applies

radio == <<heard, lost>>
bounds == <<changes, restarts, daemons, applies>>
vars == <<air, object, signals, cache, snapshot, seed, mode, recent, shown, late, radio, bounds>>

NotSeen == [payload |-> 0, live |-> FALSE]

\* The payloads a loop over some of the devices meets, and the next of them.
Payloads(devices, data) == [a \in Address |-> IF a \in devices THEN data[a].payload ELSE 0]
Nothing == [a \in Address |-> 0]
Foremost(batch, a) == batch[a] # 0 /\ \A b \in Address : batch[b] # 0 => a <= b

-----------------------------------------------------------------------------
(* The peer and bluetoothd                                                  *)

Change(p) ==
    /\ changes < MaxChanges /\ changes' = changes + 1
    /\ p # air.payload /\ (Distinct => p > air.payload)
    /\ air' = [air EXCEPT !.payload = p]
    /\ UNCHANGED <<object, signals, cache, snapshot, seed, mode, recent, shown, late, radio, restarts, daemons, applies>>

Rotate(a) ==
    /\ changes < MaxChanges /\ changes' = changes + 1
    /\ a # air.address /\ air' = [air EXCEPT !.address = a]
    /\ UNCHANGED <<object, signals, cache, snapshot, seed, mode, recent, shown, late, radio, restarts, daemons, applies>>

SetObject(a, p) ==
    /\ object[a] # p /\ object' = [object EXCEPT ![a] = p]
    /\ signals' = Append(signals, [address |-> a, payload |-> p, new |-> object[a] = 0])
    /\ UNCHANGED <<air, cache, snapshot, seed, mode, recent, shown, late, radio, bounds>>

\* A scan report that is new to the object.
Report == mode = "scan" /\ heard /\ SetObject(air.address, air.payload)

\* bluetoothd removes an object it has not heard of for a while.
Forget(a) == a # air.address /\ SetObject(a, 0)

\* bluetoothd is replaced: no object is left, and no discovery.  One that is replaced
\* during a configuration transaction is RadioTransition's subject.
OwnerChanged == [address |-> 1, payload |-> 0, new |-> TRUE]
Replace ==
    /\ mode = "scan" /\ daemons < MaxDaemons /\ daemons' = daemons + 1
    /\ object' = [a \in Address |-> 0] /\ heard' = FALSE
    /\ signals' = Append(signals, OwnerChanged)
    /\ UNCHANGED <<air, cache, snapshot, seed, mode, recent, shown, late, lost, changes, restarts, applies>>

-----------------------------------------------------------------------------
(* The service                                                              *)

\* Plausible bug: only a property change makes a device live, not its arrival.
FollowChanges(signal) ==
    IF signal.new \/ cache[signal.address].payload # 0
    THEN [cache EXCEPT ![signal.address] =
             [payload |-> signal.payload, live |-> signal.payload # 0 /\ @.payload # 0]]
    ELSE cache

\* The cache follows an object; new data proves that it was heard now.  A change of an
\* object the cache does not have is ignored.
Follow(signal) ==
    IF signal.new \/ cache[signal.address].payload # 0
    THEN [cache EXCEPT ![signal.address] = [payload |-> signal.payload, live |-> signal.payload # 0]]
    ELSE cache

\* Every event then waits for the service's lock and takes a snapshot, which handles the
\* devices heard lately.  Until then only the D-Bus thread could change the cache, so the
\* snapshot differs from one taken at once in nothing but what is three seconds old by
\* then, which may be the event's own news.
Signal ==
    /\ snapshot = Nothing /\ signals # <<>> /\ Head(signals) # OwnerChanged /\ signals' = Tail(signals)
    /\ \E held \in BOOLEAN :
          /\ cache' = IF held THEN [Follow(Head(signals)) EXCEPT ![Head(signals).address].live = FALSE]
                      ELSE Follow(Head(signals))
          /\ late' = (late \/ cache' # Follow(Head(signals)))
    /\ snapshot' = Payloads({b \in Address : cache'[b].live}, cache')
    /\ UNCHANGED <<air, object, seed, mode, recent, shown, radio, bounds>>

\* A new bluetoothd: the cache forgets the old one's objects and loads those the new one
\* has by now, if it can.  A transaction under way is not repeated.
Owner ==
    /\ snapshot = Nothing /\ signals # <<>> /\ Head(signals) = OwnerChanged /\ signals' = Tail(signals)
    /\ \E loaded \in BOOLEAN :
          cache' = [a \in Address |-> [payload |-> IF loaded THEN object[a] ELSE 0, live |-> FALSE]]
    /\ lost' = (lost \/ mode = "scan")
    /\ UNCHANGED <<air, object, snapshot, seed, mode, recent, shown, late, heard, bounds>>

\* An event of another kind (RSSI, a connection, another device).
Event ==
    /\ snapshot = Nothing /\ snapshot' = Payloads({b \in Address : cache[b].live}, cache)
    /\ snapshot' # Nothing
    /\ UNCHANGED <<air, object, signals, cache, seed, mode, recent, shown, late, radio, bounds>>

Age(a) ==
    /\ cache[a].live /\ cache' = [cache EXCEPT ![a].live = FALSE]
    /\ UNCHANGED <<air, object, signals, snapshot, seed, mode, recent, shown, late, radio, bounds>>

\* Plausible bugs: a payload enters the history each time it is met, or the
\* history is only the last payload.
RememberAgain(p) == recent' = Append(IF Len(recent) = History THEN Tail(recent) ELSE recent, p)
RememberLast(p) == recent' = <<p>>

Remember(p) ==
    recent' = IF Contains(recent, p) THEN recent
              ELSE Append(IF Len(recent) = History THEN Tail(recent) ELSE recent, p)

Publish(p) ==
    IF Contains(recent, p) THEN UNCHANGED <<recent, shown>>
    ELSE Remember(p) /\ shown' = Append(shown, p)

\* handle_advertisement.  Without bridges it publishes nothing.
Handle(a) ==
    /\ Foremost(snapshot, a) /\ snapshot' = [snapshot EXCEPT ![a] = 0]
    /\ IF mode = "starting" THEN UNCHANGED <<recent, shown>> ELSE Publish(snapshot[a])
    /\ UNCHANGED <<air, object, signals, cache, seed, mode, late, radio, bounds>>

\* apply_config of a broadcast overlay takes a snapshot (an Event) and stops the scan...
Apply ==
    /\ mode = "scan" /\ applies < MaxApplies /\ applies' = applies + 1
    /\ mode' = "stopped"
    /\ UNCHANGED <<air, object, signals, cache, snapshot, seed, recent, shown, late, radio, changes, restarts, daemons>>

\* ...and so does the recovery from a replaced bluetoothd, which applies the active
\* overlay again.
Recover ==
    /\ mode = "scan" /\ lost /\ lost' = FALSE /\ mode' = "stopped"
    /\ UNCHANGED <<air, object, signals, cache, snapshot, seed, recent, shown, late, heard, bounds>>

\* Plausible bug: the new generation is not seeded.
ConfigureUnseeded ==
    /\ mode \in {"starting", "stopped"} /\ mode' = "seeding"
    /\ recent' = <<>> /\ seed' = Nothing
    /\ UNCHANGED <<air, object, signals, cache, snapshot, shown, late, radio, bounds>>

\* ...replaces the bridges, seeds the new ones with all cached payloads...
Configure ==
    /\ mode \in {"starting", "stopped"} /\ mode' = "seeding"
    /\ recent' = <<>> /\ seed' = Payloads(Address, cache)
    /\ UNCHANGED <<air, object, signals, cache, snapshot, shown, late, radio, bounds>>

\* ...and scans again.
Seed ==
    /\ mode = "seeding"
    /\ \/ /\ seed = Nothing /\ mode' = "scan" /\ heard' = TRUE /\ UNCHANGED <<seed, recent>>
       \/ \E a \in Address : /\ Foremost(seed, a) /\ seed' = [seed EXCEPT ![a] = 0]
                            /\ Remember(seed[a]) /\ UNCHANGED <<mode, heard>>
    /\ UNCHANGED <<air, object, signals, cache, snapshot, shown, late, lost, bounds>>

\* Plausible bug: the startup snapshot counts as heard now.
RestartHeard ==
    /\ restarts < MaxRestarts /\ restarts' = restarts + 1
    /\ cache' = [a \in Address |-> [payload |-> object[a], live |-> object[a] # 0]]
    /\ signals' = <<>> /\ snapshot' = Nothing /\ seed' = Nothing /\ mode' = "starting" /\ recent' = <<>>
    /\ heard' = FALSE /\ lost' = FALSE /\ late' = FALSE
    /\ UNCHANGED <<air, object, shown, changes, daemons, applies>>

\* The new process reads the objects that bluetoothd still has.
Restart ==
    /\ restarts < MaxRestarts /\ restarts' = restarts + 1
    /\ cache' = [a \in Address |-> [payload |-> object[a], live |-> FALSE]]
    /\ signals' = <<>> /\ snapshot' = Nothing /\ seed' = Nothing /\ mode' = "starting" /\ recent' = <<>>
    /\ heard' = FALSE /\ lost' = FALSE /\ late' = FALSE
    /\ UNCHANGED <<air, object, shown, changes, daemons, applies>>

-----------------------------------------------------------------------------
Init ==
    /\ air = [payload |-> 0, address |-> 1]
    /\ object = [a \in Address |-> 0] /\ signals = <<>> /\ cache = [a \in Address |-> NotSeen]
    /\ snapshot = Nothing /\ seed = Nothing /\ mode = "starting" /\ recent = <<>> /\ shown = <<>>
    /\ heard = FALSE /\ lost = FALSE /\ late = FALSE
    /\ changes = 0 /\ restarts = 0 /\ daemons = 0 /\ applies = 0

Next ==
    \/ \E p \in Payload : Change(p)
    \/ \E a \in Address : Rotate(a) \/ Forget(a) \/ Age(a) \/ Handle(a)
    \/ Report \/ Replace \/ Signal \/ Owner \/ Event
    \/ Apply \/ Recover \/ Configure \/ Seed \/ Restart

Spec == Init /\ [][Next]_vars

\* The peer is heard while the service scans, D-Bus delivers its signals, the
\* service's threads go on.
Fairness ==
    /\ WF_vars(Report) /\ WF_vars(\E a \in Address : Handle(a)) /\ WF_vars(Configure) /\ WF_vars(Seed)
    /\ SF_vars(Signal) /\ SF_vars(Owner) /\ WF_vars(Recover)

FairSpec == Spec /\ Fairness

-----------------------------------------------------------------------------
(* Properties                                                               *)

TypeOK ==
    /\ air \in [payload : Payload \cup {0}, address : Address]
    /\ object \in [Address -> Payload \cup {0}]
    /\ signals \in Seq([address : Address, payload : Payload \cup {0}, new : BOOLEAN])
    /\ {heard, lost, late} \subseteq BOOLEAN
    /\ cache \in [Address -> [payload : Payload \cup {0}, live : BOOLEAN]]
    /\ {snapshot, seed} \subseteq [Address -> Payload \cup {0}]
    /\ {recent, shown} \subseteq Seq(Payload)
    /\ Len(recent) <= History /\ IsInjective(recent)
    /\ mode \in {"scan", "starting", "stopped", "seeding"}
    /\ changes \in 0..MaxChanges /\ restarts \in 0..MaxRestarts
    /\ daemons \in 0..MaxDaemons /\ applies \in 0..MaxApplies

\* One process, and one bridge generation but for recoveries, since the peer appeared.
Undisturbed == restarts = 0 /\ applies = 0

\* A peer whose samples differ is published in order: no sample twice and none
\* after a later one, however its addresses rotate and objects come and go
\* (transport_bridge_manager.cpp:276-291).
InOrder == Undisturbed /\ daemons = 0 => \A i, j \in DOMAIN shown : i < j => shown[i] < shown[j]

NewsOnly == \A i, j \in DOMAIN shown : i < j => shown[i] <= shown[j]

\* The topic does not go back to an obsolete sample across a restart or a replaced
\* bluetoothd either: what bluetoothd remembers of the peer's former addresses is not
\* news (service_node_status.cpp:298).
NeverBack == applies = 0 => NewsOnly

\* Once the new bridges are seeded and the scan is back, no cached sample of the
\* time before the hot change is published after a later one (service_node.cpp:1867).
SettledNeverBack ==
    [][mode = "scan" /\ shown' # shown => \A i \in DOMAIN shown : shown[i] <= Last(shown')]_vars

\* The newest sample of a peer is the one that its topic shows in the end, also after
\* bluetoothd was replaced (object_manager_cache.cpp:453-490, service_node.cpp:1000),
\* unless a snapshot comes too late for its own news (service_node_status.cpp:302).
NewestShown ==
    <>[](Undisturbed /\ ~late /\ air.payload # 0 => shown # <<>> /\ Last(shown) = air.payload)
=============================================================================
