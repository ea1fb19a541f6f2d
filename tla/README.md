# A verification project for mrs_uav_bluetooth

The service `service_node` of this repository shares ROS topics between UAVs over Bluetooth: over a Mesh
(`bluetooth-meshd`), in advertisements and over GATT (`bluetoothd`). This directory holds TLA+ models of its
stateful parts, TLC runs that check them on small instances, and TLAPS proofs. Paths below are relative to the
repository.

## 1. Inventory

Three kinds of threads meet in the service: the threads of the multi-threaded ROS executor (timers,
subscriptions, service calls; two reentrant callback groups and a mutually exclusive default group), the D-Bus
thread of each connection (signals, replies, method calls of the daemons), and worker threads (serial links).
`config_apply_mutex_` serializes what uses the radio; every component has a mutex of its own for its tables,
held only for single regions. Most hazards come from what happens between two of these regions.

| component | files | state | operations | talks to |
|---|---|---|---|---|
| Mesh turn ring | `app/service_node_mesh.cpp` | permission and silence deadline per channel, outstanding samples, numbers already heard | send, receive, acknowledge, repair, probe, recover | Mesh application, swarm membership |
| Mesh reliable delivery | `app/service_node_mesh.cpp` | newest waiting value, outstanding samples with handles of native transfers, queue of cancellations, receipts, seen table | offer, send, repair, query, cancel, receive | Mesh application, transport bridges |
| Swarm membership | `mesh/swarm_coordinator.cpp` | saved choice, leases of peers, elected provisioner, bootstrap and enrollment progress | heartbeat, join, leave, elect, enroll | Mesh application, turn ring |
| Mesh application | `mesh/mesh_application.cpp` | token, device-key and credentials files, attachment, queue of events, pending add-node | join, import, attach, leave, create, send | `bluetooth-meshd` |
| Overlay lease | `config/overlay_config_manager.cpp`, `app/user_overlay_node.cpp` | active overlay and its path, misses, hold, saved state | activate, revert, reload, lease check, restart | configuration transaction, user nodes |
| Configuration transaction | `app/service_node.cpp` (`apply_config`) | runtime configuration, adapter roles | stop, switch, rollback | every component |
| Transport bridges | `bridge/transport_bridge_manager.cpp` | per bridge: generation, pending value, deadline; replay history | encode, flush, configure, import | turn ring, advertisement, cache |
| Object cache | `bluez/object_manager_cache.cpp`, `app/service_node_cache_events.cpp`, `app/service_node_status.cpp` | copies of BlueZ objects, event queue | signals, reconciliation, snapshots | peer orchestration, import |
| Peer orchestration | `app/service_node_peer_orchestration.cpp`, `peer/peer_manager.cpp` | connection state, backoff, pending work per peer | connect, discover, pair, disconnect | BlueZ, GATT bridges |
| GATT application, bridges | `gatt/`, `bridge/*_bridge_manager.cpp` | registrations, values, subscriptions | register, notify, write | BlueZ, ROS |
| Serial links | `serial/serial_link.cpp` | descriptor, pty, symbolic link and thread per device | attach, forward, detach | serial port profile, `sshd` |
| Network configuration | `network/netplan_manager.cpp` | the Netplan file and its copy in memory | apply, roll back | netplan |
| Codec, configuration, utilities | `bridge/payload_codec.cpp`, `bridge/generic_message_bridge.cpp`, `config/config_loader.cpp`, `util/` | none | conversions, parsing | all |
| Tools | `app/tui_node.cpp`, `app/random_odometry_publisher_node.cpp`, ... | presentation | | service |

What is hard, and what would make each component correct:

* **Turn ring.** Members must alternate on a shared radio, without a coordinator, from views that differ, with
  frames that are lost, repaired, duplicated and late, and with processes that restart. Correct: a permission is
  never in two places, and a lost one is recovered.
* **Reliable delivery.** The native transfers, the receipts and the repairs of several samples overlap, and the
  D-Bus thread handles a receipt before the send call that caused it has returned. Correct: receivers never go back
  to an older value, no native transfer is left without an owner, and everything ends.
* **Swarm membership.** Choices must survive crashes and failing writes; leases must neither drop a healthy peer
  nor keep one that left; nodes elect alone and must agree.
* **Overlay lease.** Operations of several threads run in steps of seconds with metadata unlocked in between.
  Correct: the lease watches what the radio runs; a live user node keeps its overlay; an overlay ends after its
  user node.
* **Transport bridges.** Two locks in two orders; values of a replaced configuration; retries that may overwrite
  newer values; rate boundaries. On import: BlueZ keeps several records of a peer with rotating addresses and the
  service is told of all of them again and again.
* **Mesh application, enrollment.** Callbacks that answer after their request was given up, tokens that are
  told once, persistence before use. Correct: a UAV gets the address of its number and the key of its network, and
  every listed UAV becomes ready.
* **Configuration transaction.** A change of the radio takes seconds, any step may fail, and signals, timers and
  pending connections go on. Correct: afterwards everything that was built is of the active overlay; Mesh has the
  controller to itself; a replaced daemon gets everything again.
* **Peer orchestration.** Two ends of one link hold keys that may differ, dial, pair, reset and subscribe by
  themselves, and each reads its tables before it waits for a reply. Correct: both directions come up and stay up, and a
  reset does not remove a good key.
* **Codec, configuration, network.** Ranges at their boundary, grammars, layouts of open length, rules that a file
  must meet; a change of the network that fails leaves the old one. **Serial links.** Stale symbolic links, threads
  that end by themselves. **Object cache.** Signals that race with a reload.

`PROJECT.json` lists all components with what is modelled of each, and under `hazards` the places where these
behaviours bite, with the properties that watch them.

## 2. Plan

Modules, in the order of their importance; all exist but those of the last item.

1. `MeshTurn`: the ring, with `MeshTurnProofs` for any number of members.
2. `MeshReliable`, which is shown to implement `TopicDelivery`, with `MeshReliableProofs`.
3. `OverlayLease`, with `OverlayLeaseProofs`.
4. `SwarmMembership`, with `SwarmMembershipProofs`, and `MeshEnrollment`, with `MeshEnrollmentProofs`,
   which is what `SwarmMembership` takes for one step: how a node comes to be attached and set up.
5. `BridgeDispatch` (export), and `AdvertisementImport` (import), with
   `TransportBridgeProofs` about both.
6. `RadioTransition`, with `RadioTransitionProofs`: the steps of the transaction that `OverlayLease`, `BridgeDispatch` and `AdvertisementImport` take for
   one; `PeerLink`, with `PeerLinkProofs`: two services and the link between them.
7. What computes: `ConfigRules` (which files are accepted), `NetplanChange`, and the codec in `ScalarCodec`, `MathExpression`
   and `MessageCodec`; the theorems about the first two are in
   `RadioTransitionProofs`, those about scalars in `TransportBridgeProofs`.
8. Left: registration of GATT services, several peers on one adapter, several Mesh channels that share a table, the
   search for absent peers, serial links.

Composition: `MeshTurn` and `MeshReliable` share the sample table; each takes the other's effect as a choice (a value
may be deferred for any reason; a copy may be refused). `RadioTransition` is checked over the overlays that `ConfigRules`
makes of files: `MCRadioTransition` loads them and asserts the modes. In `RadioTransition` the overlay manager is two
steps, request and return; `OverlayLease` has its other side. `MessageCodec` builds on `MathExpression`, which builds on
`ScalarCodec`.

Abstract specifications: `TopicDelivery` for a reliable channel; "old, new, or cut short, never a mixture" for the network
(`FailureCanBeRetried`, `SuccessIsExact`).

## 3. Modules

Modules hold state, actions and properties. `MC...` modules add instances, bounds and symmetries for TLC, and the
assumptions on pure operators, which TLC evaluates before the run that extends them. An operator whose comment begins
with *Plausible bug* is a wrong form of the definition after it and is used by no other definition: it serves to
show that a property would catch that bug.

### MeshTurn

State: `view` (`swarm_member_addresses`), `turn` (`MeshReliableTurn`: `permitted`, `initialized`, `reclaim_at`),
`pc` and `job` (locals of `send_mesh_bridge_payload_impl` between its lock regions), `pending`, `seen`, `net`.
A permission has a name (`Token`): the code stores a flag, the name lets the properties count permissions; no guard
looks at it. Actions: `BeginTurn`/`DenyTurn`/`BeginProbe` (first lock region: may this node send, to whom, who is
the successor), `Commit` (registers the sample, gives the permission up), `Transmit` (one `try_send`: accepted,
refused, or accepted with its reply lost), `Finish` (restores the permission if no copy was admitted), `Repair`,
`QueryReceipt`, `Retire` (expiry), `Release`, `Deadline`, `ForgetSeen`, `ReceiveData`, `ReceiveAck`, `Lose`,
`ViewChange`, `Reset`, `Restart`.

Abstractions: clocks become "the deadline may pass" at any time; the history variable `hasty` says whether it has passed in
a healthy transaction, so that `OneOwner` can speak of behaviours in which it has not. A number is reused only
when no trace of its last use is left, which is what 65536 numbers and a 90 s memory give.

### MeshReliable, TopicDelivery

One sender, its receivers, one channel. State: `latest`, `pending` (samples with targets, `xfer` handles, the
`primary` handle, tries, age, channel), `cancels`, the executor's position (`pc`, `work`, `hand`: a handle that
`try_send` has returned and nobody has recorded), `active` (transfers of the daemon), `receipts`, `seen`, `last`.
The executor's steps `Offer`, `Submit`/`Refuse`, `Remember`/`LoseReply`, `EndSend`, `Tick`, `Check`, `Resume`, `Query`
interleave with `Arrive`, `Complete`, `GetReceipt` of the D-Bus thread. `LoseReply` is a `SendUnqueued` whose 2 s pass without
an answer, or whose answer is lost, although the daemon has admitted the copy: for the executor the send failed, a first value
goes back to the waiting map and is sent once more under another number, and the transfer is an `orphan` whose handle
nobody has. A cancellation that fails may likewise have been carried out. `Faults` names what may fail in an instance:
the daemon's answers, cancellations and receipts, and receivers that restart or are replaced.

`TopicDelivery` says what a receiver may see: values of the source, never an older after a newer.
`Promise == INSTANCE TopicDelivery WITH offered <- offered, last <- last` is the refinement mapping and
`KeepsPromise == Promise!Spec` the property of `reliable_pair`: samples, handles, receipts and repairs are hidden, every step
is an offer, a delivery, a restart of a receiver or a stutter; `TopicDelivery` does not count how often a value is
published, for after a lost answer it may be published twice. The promise holds with two receivers or more. With
one, the channel is released by native completion and the repair of an older sample may follow a newer one
(`NeverOlder`, section 6).

### OverlayLease

State: `disk`, `path` (`overlay_path_`), `cfg` (`config_`, `active_source_`, keepalive topic), `misses`, `hold`, `runtime`
(what the radio was switched to), the operation of each executor thread, user nodes, the service's request
queue. Operations are activate, revert, expire (a revert caused by the lease), reload and check, each a sequence of
steps: `Claim`, `Swap`, `Notify`, `Configure` (the transaction: succeeds or fails and rolls back), `Reconfigure`,
`Persist`, `Clear`, `Release`, `Fail`. `crowded` is a history: at the last claim of a lease so many checks that had looked at the
graph before it (`Stale`) were in progress that their misses suffice to expire it. The environment starts, leaves and kills user nodes, lets the hold pass and
restarts the service, which reads `disk`.

### SwarmMembership

State: `choice` and `disk`, `presence` (leases), `due` (heartbeat), `graced`, `active` (elected provisioner), one
sample in transmission, frames. `Maintain` is the 20 ms timer; `Choose` is `join_swarm`/`leave_swarm`, which save
before they take effect; `Crash` may come between the two. Time is in ticks and nothing that is due waits for the
next tick. Assumptions (`ListAssumption`) are what `config/config_loader.cpp` checks on loading.

### MeshEnrollment

Several UAVs of one list, from the first start to a ready Mesh. State per node: the process (`app`: life state, token,
snapshot of a pass, setup stage, reserved address, pending AddNode, queue of events), the files (`disk`), the
daemon with its stored node and its provisioning session (`daemon`), D-Bus messages in order (`inbox`); configuration
messages on the air (`radio`). Three threads meet: the worker (`Refresh`, then one of `Wait`, `Attach`, `Join`, `Import`,
`PrepareKeys`, `SetUp`, `Enroll`), the D-Bus thread (`Handle`, and `RequestProvData`, which the daemon calls while a
session runs), and the daemon (`Provision`, `JoinExpires`, `GiveUp`, `Deliver`, `Lose`). `ReplyTimeout` is the 30 s of a call,
`Crash`/`Start`, `DaemonStops`/`DaemonStarts` and failing writes are bounded faults. `Lose` takes any configuration
message from the air at any time and is no fault that is counted: the provisioner sends each of its steps once, without
waiting for a status. `history` remembers whose AppKey was lost so (`keyless`) and who was given an address in a session
whose attempt had been given up (`strays`); no guard of the code's steps reads it. A UAV's number is its address and
its UUID; a network and its keys are named by their creator. Delays are nondeterministic: any backoff may be over or not.

A *cast* is a situation chosen in `Init`: who is there, who may wait long enough to create a network, whether answers
come before the code's deadlines (`prompt`), whether the daemon refuses a Cancel without a Join (`strict`), whether faults
spare the moments from which the code does not recover (`careful`, section 6), and how many there are. One run
covers several casts of `MCMeshEnrollment`: `Joining` (three UAVs, one creator), `Creating` (two creators and an
absent third, a fault), `Delayed` (answers that come too late), `Alone` (one, a fault at any time).

### RadioTransition

`apply_config` as `Transition`: `Begin`, then one step per piece of work that may fail, `op.pc` being the place: `Release`
(discovery, connections), `Bridges` (Mesh stopped, new bridges), `Retire` (old advertisement), `Adapt` (adapter
policy), `Rebuild` (GATT application), `Advertise`, `End` (Mesh started). `overlay` is the
overlay manager's request with the configuration to return to, `rescue` the recovery of a replaced `bluetoothd`, which
copies the configuration (`Copy`) and then waits for the lock (`Begin`). Beside it, without that lock: `DaemonEvent`,
`AdapterEvent`, `Correction` (adapter policy), `Write` and `Air` (a payload that registers the advertisement anew),
`Alternate` (one radio that receives or transmits), `Sweep` (`reconcile_peers`, between its snapshot and its end), `Dial` (a
connection task), `PeerComes`/`PeerLeaves`. The environment is `radio` (registrations, discovery and policy of `bluetoothd`),
`link`, `mesh` and signals on their way. `Writable` is the answer Busy that BlueZ gives to a change of the policy while an
advertisement is registered (service_node.cpp:1937-1940): a correction that meets one tries for 5 s and fails. `history`
keeps, of the last transition, what the properties except: it skipped the policy since a correction was under way
(service_node.cpp:898), `bluetoothd` was replaced under its last steps, or it was a recovery whose copy was out of date
when it got the lock.

### PeerLink

Two services and their `bluetoothd`s. State per node: the device as it is (`real`) and as the service was told
(`dev`), the stored key (`bond`), the session of `peer_manager.cpp` (`ses`: phase, repair, waiting and
grace flags, failures), the time bridge (`br`) and its subscription (`sub`), the import of a topic (`top`), what the
peer task waits for (`task`) and the reconciliation pass (`pass`). A pass is `QuickPass`, or, for a node in `Slow`, `Look`,
`Clear`, `Act` and `Notified`/`NotifyFailed` with the mutex released in between, so that signals and callbacks overtake
it. `Task` is the reply of Connect, Pair, Disconnect or RemoveDevice. A pairing has two steps: the other side's agent is
asked (`Admitted`: its policy brings the session up to date, and a confirmation flags it as pairing) and the key is made
(`Paired`), or not (`PairFailed`, with or without the agent's Cancel); anything may happen in between. The owner of
the pairing goes first, the other one after 10 s (`FallbackDue`). `crossed` is a history: a node's third failed
StartNotify asked for a repair while a pairing was under way to which the node had agreed. Faults (`LinkLost`, `BondLost`,
`Rediscovery`, `Restart`) are bounded by `MaxFaults`. `Init` takes every combination of stored keys. `Odd` names the circumstances
under which the promises break (section 6) and is empty in the run.

### BridgeDispatch

State: the bridge's entry (generation, revision, pending value), its deadline, the callback of the worker, the
two locks (`dispatch_mutex`, `config_apply_mutex_`), the transaction. The worker's path is `Message`, `Encode`, or
`Timer`; then `Lock`, `Take`, `Send` (which tries the configuration lock and gives up when it is taken), `Accepted` or
`Keep`. The transaction is `Transact`, `ConfigureExport` (waits for `dispatch_mutex`). Names begin with `Export` where
`AdvertisementImport` has the same, so that one module can be about both sides.

### AdvertisementImport

State: what the peer broadcasts, BlueZ's object per address, signals on their way, the service's cache with its
liveness, the snapshot in progress and the seeding of a new generation (each as what is left of it, by address), `recent` (replay history) and `shown`. `Signal` is an
event of the D-Bus thread: the update of the cache (object_manager_cache.cpp:539-645), the wait for `state_mutex_`
(service_node_cache_events.cpp:141) and the snapshot (453-456). These are one step, for in between only the D-Bus thread could
change the cache, and a configuration of the bridges that comes in between leaves the same as one that finds the snapshot taken but not
handled; what the wait can change is that news is three seconds old when the snapshot is taken
(service_node_status.cpp:302), so the step may leave out its own news, and `late` remembers that it did. `Event` takes a
snapshot for another reason, `Handle` publishes what `recent` does not hold; `Apply`, `Configure`, `Seed` are a hot change
of the overlay; `Restart` starts a process that reads what BlueZ still has. `Replace` replaces `bluetoothd`: its objects
are new, `Owner` is the change of the bus name's owner in the service (it clears and reloads the cache), `Recover` the
recovery that starts discovery again; `heard` and `lost` say where this stands. The recovery makes new bridges, whose
history is empty, so the newest sample is published once more: `InOrder` stops there, `NeverBack` does not.

### ConfigRules

Loading of a configuration file as functions: `MergeWith` (overlay over defaults; a null leaves the default),
`Settings` (types, ranges and dependencies of every rule in `config_loader.cpp`), shared topics with their names as
sequences of segments (`ResolveTopicPath`, `CanonicalTopic`, `PathOf`), the automatic swarm and its addresses
(`Effective`), the exclusion of radio planes, and `RadioView`, what the service reads of an overlay.
`MCRadioTransition` loads files like those of `config/`, has one broken variant per check (`Broken`), and takes the
four overlays of `RadioTransition` from the result.

### NetplanChange

A change of the Wi-Fi network as a function of the Netplan file and of what goes wrong (`Change`): reading, the write,
`netplan apply`, joining, roll back. The manager holds its lock throughout, so a change is one step. Names and
passwords are words; a file is what it says of `wlan0`.

### ScalarCodec, MathExpression, MessageCodec

`ScalarCodec` has the conversions between ROS fields, wire values and bytes: two's complement words, rounding, ranges. A
double is a rational or `NonFinite`; integers beyond `Precision` (2^53 in the code) lose their last digits; `Limit`
is the largest exact integer. `MathExpression` parses a sequence of tokens as both parsers of `math_expression.cpp` do
and evaluates the tree exactly and in doubles. `MessageCodec` has member paths, slices, layouts, encoding and decoding.
`MCBridgeDispatch` compares them with reference definitions: rendering a tree and parsing it (all trees up to
depth 2), encoding a message and decoding it (all layouts of two members over a schema with every kind of field),
exact against floating evaluation.

## 4. Runs

| run | properties | instance | what it shows |
|---|---|---|---|
| `turn_restart` | `TypeOK`, `TokenUnique` | 2 members, loss, restarts, changing views | no permission is in two places |
| `turn_recover` | `OneOwner`, `LowestRecovers` | 2 members, loss, premature deadlines | one permission in use until a deadline is premature; the lowest exporter sends again and again |
| `reliable_pair` | `KeepsPromise` | 2 receivers, loss, lost answers, restarts, new nodes | implements `TopicDelivery` |
| `reliable_single` | `TypeOK`, `TransfersOwned`, `Drains` | 1 receiver, 3 values, sample table of 2, all `Faults` but a restart of the receiver | transfers whose answer came can be cancelled; all of them end |
| `lease_one` | `TypeOK`, `LeaseTracksRuntime`, `LiveUserKeeps`, `OverlayEnds` | 1 user node started twice, a failure, a restart | the lease watches what runs; an overlay lives as long as its user node |
| `swarm_members` | `TypeOK`, `ChoiceSurvives`, `FreshPeerKept`, `LeaverGone` | 2 members, a lost heartbeat, a crash, a leave with a sample unfinished | choices survive, leases are neither too short nor too long |
| `swarm_elect` | `Converges` | 2 members, one preferred, an absent candidate, a crash | they agree on one that is there |
| `enroll_all` | `TypeOK`, `AddressIsNumber`, `KeyOfNetwork`, `AllReady` | 4 casts of up to 3 UAVs, configuration messages lost at will | own addresses, own keys; ready in the end, but for one whose AppKey was lost on the air |
| `radio_modes` | `TypeOK`, `Faithful`, `OneBearer`, `Settles`, `Recovers` | 4 overlays, 2 events | no remains of another overlay; recovery of a daemon that is replaced at any time, overlays that change while a recovery waits |
| `dispatch_rated` | `ExportTypeOK`, `CurrentOnly`, `OncePerPeriod`, `NewestIsSent`, `ApplyEnds` | 3 values, 3 transactions, maintenance, a failing send | rate, generations, no lost newest value, no deadlock; the codec's assumptions |
| `import_peer` | `TypeOK`, `InOrder`, `NeverBack`, `SettledNeverBack`, `NewestShown` | 2 addresses, 3 payloads, a restart, a replaced daemon, a hot change | in order, never back, newest in the end unless its snapshot came three seconds late |
| `peers_link` | `TypeOK`, `SharedKeyKept`, `BothReady` | any stored keys, 1 fault, 1 slow side | both bridges and imports come up; good keys stay, `crossed` ones excepted |

Why these bounds are enough. The ring's rules mention a node, its successor and the lowest member: two members
have all orders, and what holds of `OneOwner` for two is proved for any number. `MaxPending` and `MaxNet` let one sample be repaired
while the next one is on its way. `reliable_single` overflows its table of samples, and a sample may
expire at its second check (`MaxAge = 2`) or be repaired before; what a receiver that restarts publishes is the question of
`reliable_pair`. In `reliable_pair` a receipt that is never delivered stands for
a lost one, as nothing there is about liveness. A lease needs an operation and what
overtakes it. Membership needs an observer and a leaver; the third candidate of `swarm_elect` is one that
never appears; in `swarm_members` one of the two leaves and has a sample unfinished, the other watches it, and two
frames may be in the air, so that a late one of the leaver is met. Enrollment needs a member, a newcomer, and another
that is enrolled or sought meanwhile. In `radio_modes` two events are a request and a failure inside it, a
request inside the return of another, or a replaced daemon and a request; each falls at any step, also inside a transition
and while a recovery waits with its copy.
`dispatch_rated` has more values than periods between transactions. In `import_peer` the history holds as many
entries as there are payloads: in the code it has 4096 and a peer would have to change that often within the life of a
BlueZ record to overflow it. In `peers_link` a link has two ends; one fault may strike at any step of any recovery from any
combination of keys. Runs with `CHECK_DEADLOCK FALSE` stop when their bounds are used up.

Larger instances that take longer than a regular run and show no error: `AdvertisementImport` with `MaxChanges = 4`
(safety 5.2 million states; with `NewestShown`, without restart and hot change, 89 thousand), `MeshReliable_single` with `"restart"` (774 thousand), the
safety of `OverlayLease_one` with a third thread (3.2 million, modulo symmetry), `PeerLink_pair` with `PairOwner = 2`
(524 thousand) and, for `SharedKeyKept`, with `Slow = {1, 2}` (4.0 million); with
two faults with `Slow = {}` (407 thousand).

Further instances are beside the runs: those of section 6.

### Fairness

* The executor, the D-Bus threads and the wall clock go on: weak fairness of the steps they run. The worker timers
  have periods of 20 ms and nothing but their own locks holds them up.
* Cancellations (`MeshReliable`): the daemon accepts one that is tried again and again (strong). A deferred value that
  is resumed again and again is sent (strong): the turn comes round, which is `MeshTurn`'s subject.
* `BridgeDispatch` assumes strong fairness of `ConfigureExport`: the worker leaves `dispatch_mutex` free for most of each
  timer period, so a waiting transaction gets it. Nothing is assumed of starting transactions.
* `AdvertisementImport` assumes strong fairness of `Signal` and `Owner`, as snapshots of other events may come in
  between, and weak fairness of `Recover`, a timer.
* `MeshEnrollment`: weak fairness of each node's timer, bus and process starts; a message on the air arrives or is lost, and
  nobody sends it again; a session ends one way or the other. Strong fairness of `RequestProvData` and `Import`: a
  provisioner that searches on meets a newcomer while it asks to join, and an import is tried at each pass.
* `RadioTransition`: weak fairness of the transition's steps, of the waiters for its lock, of signals and timers. A
  correction of the adapter may fail each time: `Settles` rests on what transitions write.
* `PeerLink`: weak fairness of every step of threads, bus, radio and timers; none of faults. A pairing that is made
  while its other side has asked for a repair counts as a fault, as does a pairing that fails between sides that would agree.
* Nothing is assumed about user nodes, peers, losses, faults, restarts: they may stop, or go on up to their bound.

## 5. Proofs

`MeshTurnProofs` (constants: any set of nonzero addresses, any roles, numbers, tokens, either flag):

* `TypeCorrect`: `Spec => []TypeOK`. The inductive invariant is `TypeInv == TypeOK /\ NotSelf`: types alone are not
  inductive, because a node that sent to itself would enter its own view.
* `TurnNotManufactured`: `Spec => []TokenUnique`, for every interleaving, loss, duplicate, delay, refusal and change of
  view. The inductive invariant is `TokenInv == ~forgot => Books /\ Unique`. `Unique` says that each token is held by
  one node or is in one handoff; it is not inductive alone, as a repair could contradict the frame that is on its
  way. `Books` is what the sender's bookkeeping guarantees: numbers name samples (`PendingNamed`), a claimed number
  is new (`ClaimFresh`), a claimed sample has no frame and no receiver yet (`Unsent`), a sample being sent is
  registered (`Registered`), a marked frame carries its sample's token and goes to its successor (`Marked`), and two
  frames of one number agree (`OneCopy`). `TokenNext` combines `BooksNext` with `UniqueNext`, each with a step per action.
  The lemmas in between (`ClaimBooks`, `SamplesBooks`, `NoNewHandoff`, `OneMoves`) say how a whole class of actions affects
  the books or the permissions.

`forgot` excludes two cases in which a duplicate really arises: a successor that drops its seen table (a restart or
reset) takes an old marked copy for a new turn, and a send that the daemon admitted but whose D-Bus reply was
lost leaves the turn with both ends. The duplicate ends when a holder hears an unmarked copy.

* `GroupHasOneOwner`: `Spec => []OneOwner`, which is about different permissions where `TokenUnique` is about copies of one.
  `BeginTurn` is the only action that mints a permission, and every other one is shown to move at most what moved already
  (`Conserved`). It may mint when nothing of the group was ever heard or its deadline passed, and `Quiet` says that then, unless the
  deadline was premature (`hasty`), no permission is held or on its way: so at most one ever moves (`OneMoving`). `OwnerInv` adds that
  views are complete and nothing is forgotten (`Stable`) and who sends is an exporter with a permission to give (`Senders`);
  its step (`QuietNext`) rests on `Books`: a marked frame carries the permission of its sender's sample and no other.

`MeshReliableProofs` (any receivers, any bounds, either flag; assumed: the bounds are positive numbers):

* `ReliableTypes`: `Spec => []TypeOK`. `TypeInv` is stronger: samples, copies and the executor's locals have their exact
  fields (`Table`, `Outside`, `Locals`), numbers and values were used before, what a receiver has seen included. A full table
  drops its oldest sample, and there is one because numbers are well ordered (`OldestThere`).
* `ChannelKeepsPromise`: `Spec => KeepsPromise` with several receivers (`~Single`), the refinement of `TopicDelivery`. A step
  that publishes is a `Deliver`, a restart a `Forget`, an offer an `Offer`, and every other step a stutter (`PromiseStep`); for
  the first, the copy that arrives must be newer than what its receiver has published (`CopyNewer`). That is not
  inductive. `Orderly` adds: the daemon carries one transfer to a destination (`OneTransfer`); the channel has one sample,
  which blocks it to its end (`OneSample`); that sample has the newest value sent, and other numbers still on
  their way carry older ones (`SampleNewest`); a waiting value, in its map or in the executor's locals, is newer than all
  that was sent (`WaitingNewest`); and nobody knows the number of a sample that may still be withdrawn (`Sending`). `OneSample` is
  what a channel with one receiver lacks (`native_completion_releases_channel`), and there the promise is broken (section 6).
* `TransfersCancellable`: `Spec => []TransfersOwned` with one receiver, where the property holds (with several see section 6), for
  every transfer but the orphans of `LoseReply`: each of those has lost its answer, which the invariant `Recorded` keeps apart.
  The invariant adds `OneTransfer` and `Recorded`: while a handle is in the executor's hand the daemon carries nothing else to
  its destination, and a sample without an admitted copy records none, so withdrawing it drops none.

`OverlayLeaseProofs` (any threads, any user nodes, any bounds; assumed: the bounds are numbers):

* `LeaseTypes`: `Spec => []TypeOK`.
* `LeaseTracks`: `Spec => []LeaseTracksRuntime`. The property speaks of quiet moments only and is not inductive: a step in
  the middle of an operation says nothing about it. `LeaseInv` adds what is known while one operation is in progress:
  there is one (`Alone`), and at each of its places where configuration and radio stand (`Doing`), expressed by what
  will run when it succeeds (`Aim`) and what must run again when it fails (`Back`). Three lemmas cover the three kinds of
  steps: an operation begins, proceeds, or is not concerned.
* `LiveUserKept`: `Spec => []LiveUserKeeps` for one user node (with two it is false, section 6), any finite set of threads and any
  number of misses that expire a lease. `KeepInv` numbers the lives of the user node: who is answered has nothing else in the queue (`Numbered`,
  `InOrder`), a place of an operation goes with its kind (`Places`), and while the user node has its overlay every operation is a
  reload and the file names the overlay (`Kept`). What makes it inductive is `Few`: the checks that looked before the activation and
  have not counted yet, plus the misses counted, are fewer than the misses that expire it, unless the lease is `crowded`. No thread
  is assumed away: the exception is about what a behaviour did before the claim, and TLC shows that it is needed (section 6).

`SwarmMembershipProofs` (any nodes, swarms and whitelist; assumed: the nodes are in the whitelist, the lease is longer than two
periods, which the configuration loader demands, and the configured swarm is a swarm):

* `ChoiceKept`: `Spec => []ChoiceSurvives`. The invariant adds `Restorable`: what the next start would read is a choice that may be
  restored; saving before taking over keeps it.
* `MembershipTypes`: `Spec => []TypeOK`. That an election yields a member of the whitelist needs the least element of a set of
  numbers (`Least`), which follows from the order of finite sets being well founded.
* `PeerKept`: `Spec => []FreshPeerKept`. `Heard` accounts for the age of a lease: it is what is gone of the peer's period (`due`)
  plus a period for a lost heartbeat, or a heartbeat is on its way. A timer that starts anew has just sent one.
* `LeaverForgotten`: `Spec => []LeaverGone`. `Departures` bounds everything that may still say that a node participates: each lease
  (`LeasesEnd`), sample (`SamplesEnd`) and frame (`FramesEnd`) is true, or its remaining life and the age of the node's last
  choice are together at most the bound.

`TransportBridgeProofs`, the export side (any spacing, values, transactions, faults, rated or not; assumed: at least one transaction):

* `DispatchTypes`: `ExportSpec => []ExportTypeOK`.
* `OnlyCurrentSent`: `ExportSpec => CurrentOnly`, an action property. `Locks` says who holds which lock at which place of the worker and
  of the transaction, and `InFlush`, which follows from it, that the generation read under `dispatch_mutex` is still
  the bridge's when the value is handed over.
* `RateKept`: `ExportSpec => OncePerPeriod`. `Slot` ties the use of a period to the distance of the deadline.

`TransportBridgeProofs`, the import side (any number of addresses, payloads, samples, restarts and hot changes):

* `ImportTypes`: `Spec => []TypeOK`.
* `SettledStays`: `Spec => SettledNeverBack`, an action property; `TopicNeverBack`: `Spec => []NeverBack`; `PublishedInOrder`:
  `Spec => []InOrder`. They assume that samples differ and that the history can hold those of the peer, which is sharp:
  with a history shorter by one a record that stays live is published again (section 6). `TopicNeverBack` assumes
  in addition that `bluetoothd` is replaced once at most, which is sharp as well; hot changes are excluded by the property itself.

  The inductive invariant is `NewsInv`. Its heart is `Freshest`: a live sample that neither the history nor the rest of the
  seed holds is in the snapshot in progress, and a sample of the snapshot that is news in this sense is the newest of it and
  not older than the topic. That is so because each event takes its snapshot before the next one is handled, so there
  is never more than one piece of news; `Arriving` and `Timely` (what is on its way is not older than what is
  heard, in a snapshot or shown) carry it through the queue of signals, `Copied` ties the snapshot to the cache and
  `Seeds` says when there is a seed. `Wait` is what the two invariants need besides: from the loss of `bluetoothd` until the next
  scan nothing counts as heard, so nothing is published while the bridges are being seeded. `OneProcess` gives that a
  published sample is still in the history.

`MeshEnrollmentProofs` (any list of UAVs, any set of casts, any number of faults; assumed: UAV numbers are positive, and the
casts have the fields of `Cast`):

* `EnrollmentTypes`: `Spec => []TypeOK`. `TypeInv` is stronger: it gives every record its exact fields, and a session that is
  with nobody has given no address.
* `ReadyWithItsKey`: `Spec => []KeyOfNetwork`, for every cast, prompt or not. Being ready is set by the last step of the setup, and
  the key comes steps earlier and, for a newcomer, from another node: `KeyInv` adds that the setup of a node begins only when
  it has the key, that a key a daemon holds is the one of its network, and that a daemon that still beacons has neither
  address nor key. So a node that loses its store loses the address, the key and being ready together.
* `EnrolledUnderItsNumber`: `Spec => []AddressIsNumber`. The address is reserved by `AddNode`'s caller, drawn in
  `RequestProvData`, and given at the end of the session, and each of these names a peer only through `pend`. `AddressInv` adds
  that attempts do not overlap (`AttemptAt`): the session, its final message on the bus, the event that the worker has not taken
  and the configuration of the newcomer exclude each other and are all about the pending peer, which the
  reservation is for. The lemmas `Fewer...` say what the operations on a queue leave of the final messages. That part needs
  answers before the code's deadlines. The other part holds for a daemon that answers at any time: `DrawInv` says that while an
  attempt is pending the reservation is for its peer, so that an address drawn in its session is the peer's own. Only a
  session that is still open when its attempt has been given up (30 s of the call against its 45 s) draws what is
  reserved for somebody else, and the property names the newcomer of just that session. TLC shows that it does (section 6).

`RadioTransitionProofs` (any set of overlays of the shape `ConfigAssumption` gives, any number of events, failures and
replacements of `bluetoothd`):

* `RadioTypesHold`: `Spec => []TypeOK`. `TypeInv` is stronger: it gives each thread's record its exact fields, idle or at work.
* `BearerExclusive`: `Spec => OneBearer`. `Bearer` says what is known at each place of
  a transition: connections are denied until its end, the old advertisement is gone before the adapter is changed, and
  before Mesh starts nothing is registered that the new overlay does not have, also when a step fails and the
  transition turns back.
* `FaithfulHolds`: `Spec => []Faithful`, with daemons replaced at any time and overlays that change while a recovery
  waits. `Agreed` relates the overlay asked for to the one in transition, through rollback and recovery: they differ only
  after a recovery with an older copy. `Built` says how far the radio follows the overlay: `Doing` within a transition,
  `Done` outside, either as long as no daemon is replaced after the policy was written. It is needed because
  `Faithful` speaks of quiet moments only. The two exceptions are faults of the code (section 6), and nothing else is excepted.

`PeerLinkProofs` (either dialer and pairing owner, any number of faults, passes of either side overtaken, all of
`Circumstance`; from `ConstantAssumption`):

* `LinkTypesHold`: `Spec => []TypeOK`. The bound of the counted failures does not follow from the types: a node without a key
  that had also forgotten the device would go on counting. `Sound` adds that a device without a record has no bridge, so
  that its failures are not counted (`FailureCounts`); with a record they are forgotten when there is no key, and ask for a
  repair when there is one.
* `SharedKeysKept`: `Spec => SharedKeyKept`. `Sound` also says that neither side wants a repair while both hold a key. A
  removal asks first whether the repair is still wanted, so it meets no key that both hold. "Both hold" includes
  a key that is being made after the other side has agreed (`Endangered`), and a side that is `crossed` is excepted:
  the conclusion excepts its own removal, and nothing else. A repair is asked for only when the other side lacks the key
  (`AuthFail`, `NotifyFailed`), and a new key is agreed to only by a side that wants none (`Admits`), while the
  initiator's own repair ends with it (`ClearReset`). What is written between these steps, by
  signals, by passes with a stale device or by a restart, never asks: `Keeps` says so of each
  operation on a session, and `Left` of whatever a pass leaves behind (`BranchLeft`).

About the operators of the modules that compute:

* `ScalarCodec` (any type sizes, any precision; in `TransportBridgeProofs`): `SameBounds` (the exclusive bound of the conversion of
  a double admits the integers the exact conversion admits), `IntegerField` (an integer that fits the wire type comes back),
  `WordKeepsNumber` (two's complement words of any size give the number back).
* `ConfigRules` (any files; in `RadioTransitionProofs`, as the next): `OverlayTwice` (merging an overlay a second time changes
  nothing) and `LoadedOnePlane` (what the loader accepts configures one radio plane).
* `NetplanChange` (any file): `FailureCanBeRetried` says what any failure leaves, that of the rollback included: the old
  file, the new one, or one cut short; and unless it is cut short, the change can be tried again with the same
  result. `SuccessIsExact` is about changes that were written; `AddressesApart` says which UAVs get different addresses.

Only model-checked: liveness, the election of `SwarmMembership` (`Converges`), `AllReady` of `MeshEnrollment` and
`BothReady` of `PeerLink` included: fairness and `ENABLED` are out of the prover's reach. Nothing that needs induction
over data is proved either: parsing and layouts (`MathExpression`, `MessageCodec`) are recursive and compared with their
references over bounded inputs.

## 6. Where code and documentation differ

Each of these instances beside the runs is expected to be violated. Where no configuration file is named, the constant of
the run's own configuration is changed.

| instance | property | difference |
|---|---|---|
| `MeshTurn_oneway` | `ExportersSend` | a lowest member that only imports never starts the ring, so exporters above it never send (service_node.hpp:624-626) |
| `MeshTurn_initiators` | `OneInitiator` | members that have not heard each other each start a ring (service_node_mesh.cpp:1215 expects one initiator) |
| `MeshTurn_overtake` | `EveryoneTakesTurns` | the late unmarked copy of an older sample takes the turn away from its holder (service_node.hpp:624) |
| `MeshReliable_newest` | `NewestArrives` | a value absorbed by a sample that was already published is discarded as a duplicate (service_node_mesh.cpp:725-728) |
| `MeshReliable_handles` | `TransfersOwned` | with two receivers, a handle that is returned late overwrites `primary_transfer`; nobody cancels the first (.ci/patches/README.md:85) |
| `MeshReliable_single`, the invariant without `a.orphan` | `TransfersOwned` | the daemon admits a copy and its answer is lost, or comes after the 2 s of the call: the code takes the send for refused (service_node_mesh.cpp:844, 1307; mesh_application.cpp:32, 1470-1482), nobody has the handle, and the transfer ends by the daemon's own expiry only (.ci/patches/README.md:85) |
| `MeshReliable_older` | `NeverOlder` | a single receiver publishes a repaired older sample after a newer one (service_node_mesh.cpp:729) |
| `MeshReliable_blocking` | `OneBlocking` | the repair of a released sample blocks its channel beside the next sample (.ci/patches/README.md:82) |
| `OverlayLease_owner` | `LiveUserKeeps` | a replaced user node that exits reverts the overlay of the live one (srv/SetActiveConfig.srv:3) |
| `OverlayLease_one`, a third thread, or `MaxMisses = 1`, with the property named here | `LiveUserAlwaysKeeps` | as many checks as `kRequiredMisses`, all of which looked at the graph before the user node came back, count their misses after its activation was confirmed and expire its overlay; the counted misses are not tied to a lease (overlay_config_manager.cpp:212-229). The service has 6 threads for 3 misses (main_service_node.cpp:20, overlay_config_manager.hpp:130), the checks are a second apart, so each must be held up for that long |
| `OverlayLease_overlap` | `ReturnsToDefault` | an expiry that overlaps an activation clears the path of the overlay just switched on; no lease check looks at it, and it stays after its user node has gone (overlay_config_manager.cpp:170, against README.md:98) |
| `SwarmMembership_return` | `DepartureHolds` | the repair of an old sample makes a node that left a member again (swarm_coordinator.hpp:75) |
| `AdvertisementImport_repeat` | `NewestShown` | a payload equal to a remembered one is never published (transport_bridge_manager.hpp:86) |
| `AdvertisementImport_peer`, the property without `~late` | `NewestShown` | an event that waits for `state_mutex_` for three seconds finds its own news too old for the snapshot; when the peer's data changes no more, its newest sample is not published (service_node_cache_events.cpp:141, service_node_status.cpp:302) |
| `AdvertisementImport_hot` | `NewsOnly` | a cache event between `configure` and the seeding publishes an old sample (service_node.cpp:1867) |
| `AdvertisementImport_peer`, `MaxDaemons = 2` | `NeverBack` | the recovery of a replaced `bluetoothd` is a hot change too: when the service learns of a second replacement after the scan is back, records heard meanwhile are live during the next recovery, and an old one is published between `configure` and the seeding (service_node.cpp:1018, 1867) |
| `AdvertisementImport_peer`, `History = 2`, `MaxChanges = 5` | `InOrder` | a live record whose payload the history has dropped meanwhile is published again (transport_bridge_manager.cpp:316-336); the code's limit of 4096 keeps it away |
| `MeshEnrollment_late` | `OwnAddress` | AddNode's reply waits for a session of 45 s, the call for 30 s: the newcomer gets another number, and the coordinator refuses it for ever (swarm_coordinator.cpp:507; README.md:84 "Other listed UAVs join automatically over nearby Bluetooth provisioning.") |
| `MeshEnrollment_lost`, `Casts <- AirCasts`, with the property named here | `EverybodyReady` | each configuration step of a newcomer is sent once (swarm_coordinator.cpp:669-687, 716-723): one lost AppKey leaves it in the keyring of its provisioner, never configured again and never ready (README.md:84, as above). A lost binding of the model is made up for by the newcomer's own set-up |
| `MeshEnrollment_lost` | `AllReady` | a link, daemon or token file lost between AddNodeComplete and the configuration leaves a node in the keyring that never gets the AppKey, or one whose Join is refused for ever |
| `MeshEnrollment_lost`, `Casts <- StrictCasts` | `AllReady` | after a daemon restart in "joining", Cancel throws at each pass; a node that may not create stays "joining" |
| `RadioTransition_modes`, with the property named here | `AlwaysRecovers` | a daemon that is replaced inside a transition is not recovered: the event is dropped while a transition is in progress (service_node_cache_events.cpp:493, against its comment at 489) |
| `RadioTransition_modes`, likewise | `Follows` | a recovery that waits with a copy of the old overlay puts it back (service_node.cpp:1018) |
| `RadioTransition_modes`, likewise | `PolicySettles` | a transition that meets a correction of the adapter leaves the policy to it (service_node.cpp:898) and registers its advertisement, or its daemon is replaced after the policy was written: every later correction is then answered Busy (1937-1940), and a broadcast overlay stays connectable |
| `PeerLink`, with the property named here | `EverySharedKeyKept` | a side agrees to a pairing, its third failed StartNotify asks for a repair (service_node_cache_events.cpp:562-583), and the pairing is made: success clears the repair of the initiator only (service_node_peer_orchestration.cpp:138-142), and the next pass removes the key both sides hold (954-1032), where the comment at 222 has a peer get new keys "without removing either Device1 object" |
| `PeerLink`, `Odd = {"again"}` | `BothReady` | a repair asked for while a reset is at work survives it, and the peer is not dialed again (bluez_client.cpp:870, peer_manager.cpp:275 and 590-600) |
| `PeerLink`, `Odd = {"kept"}` | `BothReady` | a failed RemoveDevice leaves the repair issued |
| `PeerLink`, `Odd = {"quick"}` | `BothReady` | a link that returns before a pass saw it go meets the bridge of the old one, still "subscribing" (service_node_peer_orchestration.cpp, about 655) |
| `PeerLink`, `Odd = {"silent"}`, with `CHECK_DEADLOCK FALSE` | `BothReady` | a record that no scan reports again keeps a stale phase (service_node_peer_orchestration.cpp:695-704) |
| `PeerLink`, `Odd = {"late"}` | `BothReady` | StopNotify after the lock was released ends the subscription of the next runtime (import_bridge_manager.cpp:281-286) |

Such an instance is run with `tlc -config MeshTurn_oneway.cfg MCMeshTurn.tla`, and likewise for the others.

Facts that the assumptions of `MCBridgeDispatch`, `MCRadioTransition` and the text of `NetplanChange` record:

* Two open members of a layout encode and never decode (generic_message_bridge.cpp:1014), an open slice in the middle of a
  path likewise (210, 240); a member's address is lost when a later member grows the same sequence (1047-1057);
  the largest 64-bit integer, as a double, is refused (payload_codec.cpp:47).
* The setting `key` of a shared topic is read but the bridge's key is made of the canonical topic
  (config_loader.cpp:951-966, config_models.hpp:50). A null override of a setting that the defaults do not have makes the load
  fail (421, 475). Two bridges may share an import suffix, so that two streams of a peer meet on one topic (1033-1040).
  Two host names may give one peer token, as `uav-1` and `uav_1` do (service_node_notifications.cpp:55).
* Netplan: a missing file gets no default address (netplan_manager.cpp:372-384); the addresses of UAV n and n+100 coincide
  (255-281); a torn write is not rolled back, and afterwards every change is refused (358-366, 409-417); a write that fails
  when the stream is closed is reported as a success; without a password the old network's is reused; the lock is
  held for 20 s and more, and configuration transactions wait for it; a crash in that time leaves the untried file.

Found by reading, in code that is not modelled: with three absent peers or more, sessions of 45 s and gaps of 55 s
alternate between the first two (swarm_coordinator.cpp:697-741). A cancelled pairing never resets the peer: the branch asks
for an empty path (service_node_cache_events.cpp:639), which the agent does not report (bluez_pairing_agent.cpp:139-155).
`peer_callback_group_` is reentrant, though a comment in
service_node_peer_orchestration.cpp:106 says otherwise. An import's failed StartNotify is not tried again
(import_bridge_manager.cpp:186-192, 233); a mute subscription that is "ready" is not detected; a repair resets
`connected_since` while the link is up (peer_manager.cpp:466-478). `refresh_device_subtree` fetches its snapshot on a
connection of its own and may bring back an object that a signal has removed (object_manager_cache.cpp:336-440). Serial
links: after two crashes stale links of `/dev` refuse an attachment, or lead to another peer's terminal
(serial_link.cpp:318); the master of the terminal is inherited by a forked `sshd`, so its end is not noticed; a detach
waits for a thread that waits for a terminal nobody reads.

What the properties therefore do not claim: `OneOwner` is about stable groups before a premature deadline;
`LiveUserKeeps` about one user node and a lease that was not `crowded` when it was claimed; `LeaseTracksRuntime` about operations that do not overlap; `NewestShown` and
`InOrder` are about samples that differ, and one process, `NewestShown` about snapshots in time for their news (`late`); nothing is claimed about publication while a hot change is in
progress; a sample may be shown again after a restart, but not after a later one (`NeverBack`, with one replaced `bluetoothd`); `AllReady` is about an AppKey that arrives, answers
in time and faults at harmless moments, or other faults without answers that others wait for (the casts); `BothReady` is
about the circumstances outside `Odd`; `SharedKeyKept` excepts a key agreed to before the repair was asked for; `Recovers` and `Settles` except a daemon that is replaced under the last steps of a
transition, and `Settles` a transition that skipped the adapter's policy.

## 7. Not modelled

* Serial links: what decides is what the kernel does on close and fork of descriptors and with names of the file system.
* Registration of GATT objects (`gatt/`): D-Bus plumbing; that registering may fail is a step of `RadioTransition`.
* Of the transaction: GATT profiles, the alternation on old controllers when stopping a scan fails, connections that the
  terminal interface asks for. Of the peers: more than one on an adapter, whitelists, wall-clock backoffs, manual
  pairing. Of the Mesh: several channels in one table, the pacing of queries, manual management calls, the
  search for three absent peers, the cursor of the manual mode. Of the import: several channels, overflow of the history.
* Of the codec: rounding of floating point (numbers are exact rationals below `Precision`), square root and
  trigonometry, sequences of booleans, CDR. Of the configuration: the text of YAML and settings without a rule.
* Presentation (`tui_node`), status messages, logging, launch files and D-Bus connections keep no state that others
  depend on. `bluetoothd`, `bluetooth-meshd` and the patches in `.ci/` are not the program: the models take every
  outcome that the code in `src/` provides for.
