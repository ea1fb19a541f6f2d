-------------------------- MODULE SwarmMembership --------------------------
(***************************************************************************)
(* Logical swarm membership over the Mesh (swarm_coordinator.cpp): each    *)
(* node's saved choice to participate, the leases it keeps on its peers    *)
(* from their heartbeats and data, and the provisioner it elects.          *)
(*                                                                         *)
(* Time is counted in ticks; the 20 ms maintenance timer is much faster, so*)
(* what is due is done, and what is on the air arrives or is lost, before  *)
(* the next tick.  A node that leaves keeps the sample it was sending: the *)
(* reliable layer goes on repairing it, for as long as a sample may live.  *)
(* All nodes run the same whitelist and preference (the fingerprint of a   *)
(* heartbeat makes them ignore any other), and the whitelist has them all: *)
(* the configuration loader refuses an empty one and one without oneself.  *)
(***************************************************************************)
EXTENDS Integers, Sequences, FiniteSets, FiniteSetsExt

CONSTANTS
    Node,         \* unicast addresses, which are UAV numbers
    Swarm,        \* logical swarm identifiers
    Configured,   \* the configured choice, <<mesh_swarm_id, participating>>
    Whitelist,    \* member_priority_: the nodes in order, and perhaps absent ones
    Preferred,    \* preferred_number_, 0 for the ordered election
    Period,       \* mesh_swarm_heartbeat_period, in ticks
    Lease,        \* mesh_swarm_provisioner_timeout, in ticks
    Residue,      \* the life of a sample, in ticks
    MaxChoices,   \* bound: join and leave requests
    MaxLosses,    \* bound: lost heartbeats
    MaxCrashes    \* bound: crashes and detachments

ASSUME NodeAssumption == Node \subseteq Nat \ {0} /\ IsFiniteSet(Node)
ASSUME SwarmAssumption == Swarm \subseteq Nat \ {0} /\ Configured \in Swarm \X BOOLEAN
ASSUME ListAssumption ==
    /\ Whitelist \in Seq(Nat \ {0}) /\ Node \subseteq {Whitelist[i] : i \in DOMAIN Whitelist}
    /\ Preferred = 0 \/ \E i \in DOMAIN Whitelist : Preferred = Whitelist[i]
ASSUME LeaseAssumption == Period \in Nat \ {0} /\ Lease \in Nat /\ Lease > 2 * Period
ASSUME BoundAssumption == {Residue, MaxChoices, MaxLosses, MaxCrashes} \subseteq Nat

VARIABLES
    state,      \* of a node: "down", "ready" (application_ready_), "detached"
                \* (the daemon is away, or the local model not set up)
    choice,     \* <<swarm_id_, swarm_participating_>>
    disk,       \* the saved choice, <<>> before the first one
    presence,   \* peer_presence_: presence[n][m] is <<>> or one entry
    due,        \* ticks until the next heartbeat
    graced,     \* the startup grace of the node is over
    active,     \* active_number_
    sample,     \* the sample being sent and repaired: <<>> or <<[swarm, left]>>
    air,        \* frames on the air
    choices, losses, crashes,
    accepted,   \* history: choices the node may be expected to hold
    missed,     \* history: heartbeats of m that n has missed since it heard one
    since       \* history: ticks since the node's choice last changed

vars == <<state, choice, disk, presence, due, graced, active, sample, air, choices,
          losses, crashes, accepted, missed, since>>
saved == <<choice, disk, accepted, since>>
counts == <<choices, losses, crashes>>

Others(n) == Node \ {n}
SwarmId(n) == choice[n][1]
Participating(n) == choice[n][2]

Candidate == {Whitelist[i] : i \in DOMAIN Whitelist}

\* The first of the whitelist among some of its members.
First(available) == Whitelist[Min({i \in DOMAIN Whitelist : Whitelist[i] \in available})]

Entry == [swarm : Swarm, part : BOOLEAN, left : 0..Lease]
Frame == [kind : {"beat", "data", "ack"}, src : Node, dst : Node, swarm : Swarm, part : BOOLEAN]

Known(n) == {m \in Node : presence[n][m] # <<>>}

Fresh(n, m) == m \in Known(n) /\ presence[n][m][1].left > 0

\* Plausible bug: the expiry of an entry is left to update_selection.
MembersExpired(n) ==
    IF ~Participating(n) THEN {}
    ELSE {m \in Others(n) : /\ m \in Known(n) /\ presence[n][m][1].part
                            /\ presence[n][m][1].swarm = SwarmId(n)}

\* swarm_member_addresses
Members(n) ==
    IF ~Participating(n) THEN {}
    ELSE {m \in Others(n) : /\ Fresh(n, m) /\ presence[n][m][1].part
                            /\ presence[n][m][1].swarm = SwarmId(n)}

-----------------------------------------------------------------------------
(* The provisioner                                                          *)

\* The preferred node, else the first of the whitelist, among those available.
Elect(available) == IF Preferred \in available THEN Preferred ELSE First(available)

Initially == IF Preferred # 0 THEN Preferred ELSE Head(Whitelist)

\* Plausible bug: the election counts entries that have expired.
UpdateKeeps(n) ==
    /\ active' = [active EXCEPT ![n] = Elect({n} \cup Known(n))]
    /\ UNCHANGED presence

\* update_selection forgets expired entries, then elects.
Update(n) ==
    LET stay == {m \in Known(n) : Fresh(n, m)} IN
    /\ presence' = [presence EXCEPT ![n] = [m \in Node |-> IF m \in stay THEN @[m] ELSE <<>>]]
    /\ active' = [active EXCEPT ![n] = Elect({n} \cup stay)]

-----------------------------------------------------------------------------
(* The timer                                                                *)

\* maintain of an attached node: election once the grace is over, and the
\* heartbeat when it is due.  (Local model setup and enrollment: MeshEnrollment.)
Maintain(n) ==
    /\ state[n] = "ready"
    /\ IF graced[n] THEN Update(n) ELSE UNCHANGED <<presence, active>>
    /\ IF due[n] = 0
       THEN /\ ~\E f \in air : f.kind = "beat" /\ f.src = n
            /\ due' = [due EXCEPT ![n] = Period]
            /\ air' = air \cup {[kind |-> "beat", src |-> n, dst |-> m, swarm |-> SwarmId(n),
                                 part |-> Participating(n)] : m \in Others(n)}
       ELSE UNCHANGED <<due, air>>
    /\ UNCHANGED <<state, saved, graced, sample, counts, missed>>

GraceEnds(n) == /\ state[n] # "down" /\ ~graced[n]
                /\ graced' = [graced EXCEPT ![n] = TRUE]
                /\ UNCHANGED <<state, saved, presence, due, active, sample, air, counts, missed>>

\* Restricted to nodes that have done what is due (see above).
Tick ==
    /\ air = {} /\ \A n \in Node : state[n] = "ready" => due[n] > 0
    /\ presence' = [n \in Node |-> [m \in Node |->
          IF Fresh(n, m) THEN <<[presence[n][m][1] EXCEPT !.left = @ - 1]>> ELSE presence[n][m]]]
    /\ due' = [n \in Node |-> IF due[n] = 0 THEN 0 ELSE due[n] - 1]
    /\ sample' = [n \in Node |-> IF sample[n] = <<>> \/ sample[n][1].left = 1 THEN <<>>
                                 ELSE <<[sample[n][1] EXCEPT !.left = @ - 1]>>]
    /\ since' = [n \in Node |-> Min({since[n] + 1, Residue + Lease})]
    /\ UNCHANGED <<state, choice, disk, accepted, graced, active, air, counts, missed>>

-----------------------------------------------------------------------------
(* Frames                                                                   *)

\* An admitted bridge sample.  Its frames carry the swarm of that moment.
Send(n) ==
    /\ state[n] = "ready" /\ Participating(n) /\ sample[n] = <<>> /\ Residue > 0
    /\ sample' = [sample EXCEPT ![n] = <<[swarm |-> SwarmId(n), left |-> Residue]>>]
    /\ UNCHANGED <<state, saved, presence, due, graced, active, air, counts, missed>>

\* First copies, repairs and queries of the sample, whatever the choice is now.
Transmit(n, m) ==
    /\ state[n] = "ready" /\ sample[n] # <<>> /\ m # n
    /\ ~\E f \in air : f.kind # "beat" /\ {f.src, f.dst} = {n, m}
    /\ air' = air \cup {[kind |-> "data", src |-> n, dst |-> m,
                         swarm |-> sample[n][1].swarm, part |-> TRUE]}
    /\ UNCHANGED <<state, saved, presence, due, graced, active, sample, counts, missed>>

\* Every receipt has arrived.
Acknowledged(n) ==
    /\ sample[n] # <<>> /\ sample' = [sample EXCEPT ![n] = <<>>]
    /\ UNCHANGED <<state, saved, presence, due, graced, active, air, counts, missed>>

\* Plausible bug: a heartbeat of a known peer does not renew its lease.
NoteOnce(n, m, swarm, part) ==
    presence' = [presence EXCEPT ![n][m] =
        IF @ # <<>> /\ @[1].swarm = swarm /\ @[1].part = part THEN @
        ELSE <<[swarm |-> swarm, part |-> part, left |-> Lease]>>]

Note(n, m, swarm, part) ==
    presence' = [presence EXCEPT ![n][m] = <<[swarm |-> swarm, part |-> part, left |-> Lease]>>]

\* accept_coordination_frame
ReceiveBeat(f) ==
    /\ f \in air /\ f.kind = "beat" /\ state[f.dst] # "down"
    /\ air' = air \ {f}
    /\ Note(f.dst, f.src, f.swarm, f.part)
    /\ missed' = [missed EXCEPT ![f.dst][f.src] = IF state[f.src] = "ready" THEN 0 ELSE @]
    /\ UNCHANGED <<state, saved, due, graced, active, sample, counts>>

\* accepts_swarm_payload: data and receipts of this node's swarm are evidence of
\* membership.  Accepted data is acknowledged.
ReceivePayload(f) ==
    LET taken == Participating(f.dst) /\ f.swarm = SwarmId(f.dst)
        receipt == [f EXCEPT !.kind = "ack", !.src = f.dst, !.dst = f.src] IN
    /\ f \in air /\ f.kind # "beat" /\ state[f.dst] # "down"
    /\ IF taken THEN Note(f.dst, f.src, f.swarm, TRUE) ELSE UNCHANGED presence
    /\ air' = (air \ {f}) \cup (IF taken /\ f.kind = "data" THEN {receipt} ELSE {})
    /\ UNCHANGED <<state, saved, due, graced, active, sample, counts, missed>>

\* Heartbeats are not repeated.  A node that is not attached hears nothing.
Lose(f) ==
    /\ f \in air /\ air' = air \ {f}
    /\ IF f.kind = "beat"
       THEN /\ \/ state[f.dst] # "ready" /\ UNCHANGED losses
               \/ losses < MaxLosses /\ losses' = losses + 1
            /\ missed' = [missed EXCEPT ![f.dst][f.src] = Min({@ + 1, 2})]
       ELSE UNCHANGED <<losses, missed>>
    /\ UNCHANGED <<state, saved, presence, due, graced, active, sample, choices, crashes>>

-----------------------------------------------------------------------------
(* Requests, crashes and restarts                                           *)

\* Plausible bug: the choice is made before it is saved.
ChooseThenSave(n, c) ==
    /\ state[n] # "down" /\ choices < MaxChoices /\ choices' = choices + 1
    /\ c[1] # 0 /\ (~c[2] => c[1] = SwarmId(n))
    /\ choice' = [choice EXCEPT ![n] = c]
    /\ due' = [due EXCEPT ![n] = 0]
    /\ since' = [since EXCEPT ![n] = 0]
    /\ \/ disk' = [disk EXCEPT ![n] = c] /\ accepted' = [accepted EXCEPT ![n] = {c}]
       \/ UNCHANGED <<disk, accepted>>
    /\ UNCHANGED <<state, presence, graced, active, sample, air, losses, crashes, missed>>

\* Plausible bug: join does not check the identifier.
ChooseAny(n, c) ==
    /\ state[n] # "down" /\ choices < MaxChoices /\ choices' = choices + 1
    /\ ~c[2] => c[1] = SwarmId(n)
    /\ disk' = [disk EXCEPT ![n] = c] /\ accepted' = [accepted EXCEPT ![n] = {c}]
    /\ choice' = [choice EXCEPT ![n] = c]
    /\ due' = [due EXCEPT ![n] = 0]
    /\ since' = [since EXCEPT ![n] = 0]
    /\ UNCHANGED <<state, presence, graced, active, sample, air, losses, crashes, missed>>

\* join_swarm and leave_swarm (which keeps the identifier) save, then take
\* effect, and ask for a heartbeat at once.  A failing write throws.
Choose(n, c) ==
    /\ state[n] # "down" /\ choices < MaxChoices /\ choices' = choices + 1
    /\ c[1] # 0 /\ (~c[2] => c[1] = SwarmId(n))
    /\ \/ /\ disk' = [disk EXCEPT ![n] = c] /\ accepted' = [accepted EXCEPT ![n] = {c}]
          /\ choice' = [choice EXCEPT ![n] = c]
          /\ due' = [due EXCEPT ![n] = 0]
          /\ since' = [since EXCEPT ![n] = 0]
       \/ UNCHANGED <<saved, due>>
    /\ UNCHANGED <<state, presence, graced, active, sample, air, losses, crashes, missed>>

\* What a node's heartbeats have told can no longer be relied upon.
Silent(n) == missed' = [m \in Node |-> [missed[m] EXCEPT ![n] = 2]]

\* The daemon goes away; the process and its entries stay.
Detach(n) ==
    /\ state[n] = "ready" /\ crashes < MaxCrashes /\ crashes' = crashes + 1
    /\ state' = [state EXCEPT ![n] = "detached"]
    /\ sample' = [sample EXCEPT ![n] = <<>>]
    /\ Silent(n)
    /\ UNCHANGED <<saved, presence, due, graced, active, air, choices, losses>>

\* Attached again, and the local model is set up.
Attach(n) ==
    /\ state[n] = "detached" /\ state' = [state EXCEPT ![n] = "ready"]
    /\ UNCHANGED <<saved, presence, due, graced, active, sample, air, counts, missed>>

\* The process dies, perhaps between saving a choice and taking it.
Crash(n) ==
    /\ state[n] # "down" /\ crashes < MaxCrashes /\ crashes' = crashes + 1
    /\ state' = [state EXCEPT ![n] = "down"]
    /\ sample' = [sample EXCEPT ![n] = <<>>]
    /\ \/ UNCHANGED <<disk, accepted, choices>>
       \/ /\ choices < MaxChoices /\ choices' = choices + 1
          /\ \E c \in Swarm \X BOOLEAN :
                /\ ~c[2] => c[1] = SwarmId(n)
                /\ disk' = [disk EXCEPT ![n] = c]
                /\ accepted' = [accepted EXCEPT ![n] = @ \cup {c}]
    /\ Silent(n)
    /\ UNCHANGED <<choice, since, presence, due, graced, active, air, losses>>

\* The constructor restores the saved choice.  A new configuration of the radio
\* replaces the coordinator in the same way.
Restart(n) ==
    /\ state[n] = "down" /\ state' = [state EXCEPT ![n] = "detached"]
    /\ choice' = [choice EXCEPT ![n] = IF disk[n] = <<>> THEN Configured ELSE disk[n]]
    /\ presence' = [presence EXCEPT ![n] = [m \in Node |-> <<>>]]
    /\ due' = [due EXCEPT ![n] = 0]
    /\ graced' = [graced EXCEPT ![n] = FALSE]
    /\ active' = [active EXCEPT ![n] = Initially]
    /\ missed' = [missed EXCEPT ![n] = [m \in Node |-> 2]]
    /\ since' = [since EXCEPT ![n] = IF choice'[n] = choice[n] THEN @ ELSE 0]
    /\ UNCHANGED <<disk, accepted, sample, air, counts>>

-----------------------------------------------------------------------------
Init ==
    /\ state = [n \in Node |-> "detached"]
    /\ choice = [n \in Node |-> Configured] /\ disk = [n \in Node |-> <<>>]
    /\ presence = [n \in Node |-> [m \in Node |-> <<>>]]
    /\ due = [n \in Node |-> 0] /\ graced = [n \in Node |-> FALSE]
    /\ active = [n \in Node |-> Initially]
    /\ sample = [n \in Node |-> <<>>] /\ air = {}
    /\ choices = 0 /\ losses = 0 /\ crashes = 0
    /\ accepted = [n \in Node |-> {Configured}]
    /\ missed = [n \in Node |-> [m \in Node |-> 2]]
    /\ since = [n \in Node |-> Residue + Lease]

Next ==
    \/ Tick
    \/ \E n \in Node :
          \/ Maintain(n) \/ GraceEnds(n) \/ Send(n) \/ Acknowledged(n)
          \/ Detach(n) \/ Attach(n) \/ Crash(n) \/ Restart(n)
          \/ \E m \in Node : Transmit(n, m)
          \/ \E c \in (Swarm \cup {0}) \X BOOLEAN : Choose(n, c)
    \/ \E f \in air : ReceiveBeat(f) \/ ReceivePayload(f) \/ Lose(f)

Spec == Init /\ [][Next]_vars

\* Time goes on, timers fire, frames do not stay on the air.  A node that is down
\* or detached may stay so.
Fairness ==
    /\ WF_vars(Tick)
    /\ \A n \in Node : WF_vars(Maintain(n)) /\ WF_vars(GraceEnds(n))
    /\ WF_vars(\E f \in air : ReceiveBeat(f) \/ ReceivePayload(f) \/ Lose(f))

FairSpec == Spec /\ Fairness

-----------------------------------------------------------------------------
(* Properties                                                               *)

TypeOK ==
    /\ state \in [Node -> {"down", "detached", "ready"}]
    /\ choice \in [Node -> Swarm \X BOOLEAN]
    /\ disk \in [Node -> (Swarm \X BOOLEAN) \cup {<<>>}]
    /\ \A n, m \in Node : presence[n][m] = <<>> \/ presence[n][m][1] \in Entry
    /\ due \in [Node -> 0..Period] /\ graced \in [Node -> BOOLEAN]
    /\ active \in [Node -> Candidate]
    /\ \A n \in Node : sample[n] = <<>> \/ sample[n][1] \in [swarm : Swarm, left : 1..Residue]
    /\ air \subseteq Frame
    /\ choices \in 0..MaxChoices /\ losses \in 0..MaxLosses /\ crashes \in 0..MaxCrashes
    /\ accepted \in [Node -> SUBSET (Swarm \X BOOLEAN)]
    /\ missed \in [Node -> [Node -> 0..2]] /\ since \in [Node -> 0..(Residue + Lease)]

\* A running node holds the last choice that was acknowledged to its operator,
\* or one whose request was cut short: never one that was refused, and never an
\* older one, through failing writes, crashes and restarts.
ChoiceSurvives == \A n \in Node : state[n] # "down" => choice[n] \in accepted[n]

\* A peer stays known while at most one heartbeat in a row is lost, whatever the
\* phase of its heartbeats and of the observer's timer.
FreshPeerKept ==
    \A n \in Node, m \in Node :
        n # m /\ state[n] # "down" /\ missed[n][m] < 2 => Fresh(n, m)

\* A node that has left a swarm is not a member of it in anybody's eyes once a
\* sample's life and a lease have passed, even when no heartbeat is heard.
LeaverGone ==
    \A n \in Node : \A m \in Members(n) :
        since[m] >= Residue + Lease => choice[m] = <<SwarmId(n), TRUE>>

\* Once failures end, all nodes that are attached elect the same provisioner, one
\* of them, and those of a swarm see each other.
Converges ==
    LET Ready == {n \in Node : state[n] = "ready"} IN
    <>[](\A n, m \in Ready :
            /\ active[n] = active[m] /\ active[n] \in Ready
            /\ Participating(n) /\ choice[n] = choice[m] /\ n # m => m \in Members(n))

\* Leaving announces the departure: a node that is known to have left becomes a
\* member again only when it participates again.
DepartureHolds ==
    [][\A n, m \in Node :
          /\ Fresh(n, m) /\ ~presence[n][m][1].part
          /\ presence'[n][m] # <<>> /\ presence'[n][m][1].part
          => Participating(m)]_vars
=============================================================================
