--------------------------- MODULE MeshEnrollment ---------------------------
(***************************************************************************)
(* Automatic Mesh setup (mesh_application.cpp, swarm_coordinator.cpp,      *)
(* service_node_mesh.cpp): how a UAV gets its identity, its address and    *)
(* the application key.  A node without a token asks to join and is        *)
(* provisioned by any attached node in range, or creates a private network *)
(* once it has waited long enough; every ready node provisions the absent  *)
(* peers of its list, one at a time, and sends them the application key.   *)
(*                                                                         *)
(* Three threads meet at a node: the worker, which takes a snapshot of the *)
(* status (Refresh) and acts on it (Bootstrap, SetUp, Enroll); the D-Bus   *)
(* thread, which takes the daemon's messages in order (Handle) and answers *)
(* RequestProvData at any time; and the daemon, which is external: its     *)
(* actions say only what the code relies upon.                             *)
(*                                                                         *)
(* Nodes are UAV numbers, and the unicast address and the UUID of a node   *)
(* are its number.  A network, its NetKey and its AppKey are named by the  *)
(* node that created it.  All delays (retries, 55 s between attempts, the  *)
(* startup grace and the 90 s per priority) are nondeterministic.          *)
(***************************************************************************)
EXTENDS Naturals, Sequences, SequencesExt

CONSTANTS
    Node,       \* UAV numbers of the list (1..32767)
    Casts       \* situations that a behaviour may be in

\* present: who is there; creators: who may wait long enough to create a network;
\* prompt: the daemon's messages come before the code's deadlines; strict: it refuses
\* Cancel when no Join is in progress; careful: faults strike only when nobody waits
\* for a key or a file; faults: a bound on crashes, daemon restarts, failing writes
\* and lost links.
Cast == [present : SUBSET Node, creators : SUBSET Node, prompt : BOOLEAN,
         strict : BOOLEAN, careful : BOOLEAN, faults : Nat]

ASSUME NodeNumbers == Node \subseteq Nat \ {0}
ASSUME CastsAssumption == Casts \subseteq Cast

VARIABLES
    app,        \* app[n]: the process of n, its MeshApplication and coordinator
    disk,       \* disk[n]: the token, device-key and credentials files
    daemon,     \* daemon[n]: bluetooth-meshd of n with its stored node
    inbox,      \* inbox[n]: D-Bus messages from the daemon to the application
    radio,      \* configuration messages on the air
    cast,       \* the situation, chosen once
    faults,
    history     \* who drew an address too late; whose AppKey was lost on the air

vars == <<app, disk, daemon, inbox, radio, cast, faults, history>>

Creators == cast.creators
Prompt == cast.prompt
Strict == cast.strict
Careful == cast.careful
MaxFaults == cast.faults

Nobody == 0
MaybeNode == Node \cup {Nobody}

-----------------------------------------------------------------------------
(* State                                                                    *)

Snapshot == [taken : BOOLEAN, token : BOOLEAN, state : STRING]
NoSnapshot == [taken |-> FALSE, token |-> FALSE, state |-> ""]

LifeState == {"exported", "joining", "importing", "provisioned", "attached",
              "join_failed", "daemon_unavailable"}

\* The members of Status, of MeshApplication and of MeshSwarmCoordinator.
NewApp(token) ==
    [up |-> TRUE, token |-> token, state |-> IF token THEN "provisioned" ELSE "exported",
     attached |-> FALSE, bound |-> FALSE, snap |-> NoSnapshot,
     ready |-> FALSE, stage |-> 0, starting |-> FALSE, reserved |-> Nobody,
     pend |-> Nobody, last |-> Nobody, clock |-> "off", remote |-> 0, events |-> <<>>]

NoSession == [to |-> Nobody, addr |-> Nobody]

\* net and addr of the stored node; the network whose AppKey it holds; whether
\* the model is bound; device keys of others; the application attached; a Join in
\* progress; the provisioning session it conducts.
NewDaemon == [up |-> TRUE, net |-> Nobody, addr |-> Nobody, appkey |-> Nobody,
              bound |-> FALSE, ring |-> {}, serving |-> FALSE, beacon |-> FALSE,
              session |-> NoSession]

Message == [kind : {"join_complete", "join_failed", "join_error", "import_error",
                    "bound", "add_started", "add_refused", "add_failed", "add_complete"},
            uuid : MaybeNode, addr : MaybeNode]

Plain(kind) == [kind |-> kind, uuid |-> Nobody, addr |-> Nobody]
About(kind, m, a) == [kind |-> kind, uuid |-> m, addr |-> a]

ByToken(n) == IF app[n].token THEN "provisioned" ELSE "exported"

Tell(n, message) == inbox' = [inbox EXCEPT ![n] = Append(@, message)]

-----------------------------------------------------------------------------
(* The worker: refresh_status, then maintain                                *)

\* Plausible bug: only a daemon that is seen to be away ends an attachment.
RefreshAttached(n) ==
    /\ app[n].up /\ ~app[n].snap.taken
    /\ Prompt => inbox[n] = <<>>
    /\ IF ~daemon[n].up
       THEN app' = [app EXCEPT ![n].attached = FALSE, ![n].ready = FALSE, ![n].stage = 0,
                        ![n].state = IF @ = "joining" THEN @ ELSE "daemon_unavailable"]
       ELSE LET state == IF app[n].state = "daemon_unavailable" THEN ByToken(n) ELSE app[n].state IN
            /\ ~app[n].attached
            /\ app' = [app EXCEPT ![n].state = state,
                 ![n].snap = [taken |-> TRUE, token |-> app[n].token, state |-> state]]
    /\ UNCHANGED <<disk, daemon, inbox, radio, faults, history, cast>>

\* Without the daemon only a Join keeps its state, and the coordinator starts over.
\* A node object that is gone (the daemon restarted) means attaching again.  The
\* pass over a node that is not attached works with what it has read here.
Refresh(n) ==
    /\ app[n].up /\ ~app[n].snap.taken
    /\ Prompt => inbox[n] = <<>>
    /\ IF ~daemon[n].up
       THEN app' = [app EXCEPT ![n].attached = FALSE, ![n].ready = FALSE, ![n].stage = 0,
                        ![n].state = IF @ = "joining" THEN @ ELSE "daemon_unavailable"]
       ELSE LET state == IF app[n].attached \/ app[n].state = "daemon_unavailable"
                         THEN ByToken(n) ELSE app[n].state IN
            /\ ~(app[n].attached /\ daemon[n].serving)
            /\ app' = [app EXCEPT ![n].attached = FALSE, ![n].state = state,
                 ![n].snap = [taken |-> TRUE, token |-> app[n].token, state |-> state]]
    /\ UNCHANGED <<disk, daemon, inbox, radio, faults, history, cast>>

Unattached(n) == app[n].snap.taken

\* The coordinator's part of every pass over a node that is not attached.
StartOver(a) == [a EXCEPT !.ready = FALSE, !.stage = 0, !.snap = NoSnapshot]

\* A pass that has nothing to do, or whose call throws.  A pass that finds a
\* retry delay running is a pass that is taken later.
Wait(n) ==
    /\ Unattached(n)
    /\ IF app[n].snap.token THEN ~daemon[n].up \/ daemon[n].addr = Nobody
       ELSE app[n].snap.state \in {"joining", "importing"}
    /\ app' = [app EXCEPT ![n] = StartOver(@)]
    /\ UNCHANGED <<disk, daemon, inbox, radio, faults, history, cast>>

\* set_token: memory first, then the file; a failing write is only reported.
SetToken(n) ==
    \/ disk' = [disk EXCEPT ![n].token = TRUE] /\ UNCHANGED faults
    \/ faults < MaxFaults /\ ~Careful /\ faults' = faults + 1 /\ UNCHANGED disk

Attach(n) ==
    /\ Unattached(n) /\ app[n].snap.token
    /\ daemon[n].up /\ daemon[n].addr # Nobody
    /\ daemon' = [daemon EXCEPT ![n].serving = TRUE]
    /\ app' = [app EXCEPT ![n] = [StartOver(@) EXCEPT !.attached = TRUE,
                  !.state = "attached", !.bound = daemon[n].bound]]
    /\ SetToken(n)
    /\ UNCHANGED <<inbox, radio, history, cast>>

\* The daemon neither joins nor imports a node that it has already.
Existing(n) == ~daemon[n].up \/ daemon[n].addr # Nobody

\* The one slot of a pending Join: what is still to come without its error.
Answers(n) ==
    LET errors == {i \in DOMAIN inbox[n] : inbox[n][i].kind = "join_error"} IN
    IF errors = {} THEN inbox[n] ELSE RemoveAt(inbox[n], CHOOSE i \in errors : TRUE)

\* The state is set before the call; its error comes as a message.
Join(n) ==
    /\ Unattached(n) /\ ~app[n].snap.token
    /\ app[n].snap.state \notin {"joining", "importing"}
    /\ app' = [app EXCEPT ![n] = [StartOver(@) EXCEPT !.state = "joining"]]
    /\ inbox' = [inbox EXCEPT ![n] = IF Existing(n) THEN Append(Answers(n), Plain("join_error"))
                                     ELSE Answers(n)]
    /\ daemon' = [daemon EXCEPT ![n].beacon = @ \/ ~Existing(n)]
    /\ UNCHANGED <<disk, radio, faults, history, cast>>

\* cancel_join comes first when the node is joining: the daemon drops the Join,
\* and its pending error is abandoned.
MayCreate(n) ==
    /\ Unattached(n) /\ ~app[n].snap.token
    /\ n \in Creators /\ app[n].snap.state # "importing"
    /\ app[n].snap.state = "joining" => daemon[n].up /\ (Strict => daemon[n].beacon)

AfterCancel(n) == IF app[n].snap.state = "joining" THEN ByToken(n) ELSE app[n].state

\* import_auto_identity writes the credentials, then the device key, which an
\* enrolled node must not lack, and the call throws; then the daemon imports.
Import(n) ==
    /\ MayCreate(n)
    /\ LET joining == app[n].snap.state = "joining"
           keyed == disk[n].device \/ ~app[n].token
           left == IF joining THEN Answers(n) ELSE inbox[n] IN
       /\ disk' = [disk EXCEPT ![n].creds = TRUE, ![n].device = @ \/ keyed]
       /\ app' = [app EXCEPT ![n] = [StartOver(@) EXCEPT
                     !.state = IF keyed THEN "importing" ELSE AfterCancel(n)]]
       /\ LET made == keyed /\ ~Existing(n) IN
          /\ daemon' = [daemon EXCEPT ![n].beacon = @ /\ ~joining /\ ~made,
                ![n].net = IF made THEN n ELSE @, ![n].addr = IF made THEN n ELSE @]
          /\ inbox' = [inbox EXCEPT ![n] =
                IF ~keyed THEN left
                ELSE Append(left, Plain(IF made THEN "join_complete" ELSE "import_error"))]
    /\ UNCHANGED <<radio, faults, history, cast>>

-----------------------------------------------------------------------------
(* The worker at an attached node                                           *)

\* A pass over an attached node whose object answers.  "refusing unsafe reuse":
\* a node that has another address does nothing.
Attached(n) == /\ app[n].up /\ app[n].attached /\ daemon[n].up /\ daemon[n].serving
               /\ daemon[n].addr = n

Serving(n) == daemon[n].up /\ daemon[n].serving

Config(n, m, kind) == [src |-> n, dst |-> m, kind |-> kind]

SetUpPass(n) == Attached(n) /\ ~app[n].ready

\* Plausible bug: the private keys of an earlier network are not told apart.
PrepareKeysOfCreator(n) ==
    /\ SetUpPass(n) /\ app[n].stage = 0
    /\ LET creator == disk[n].creds IN
       /\ daemon' = [daemon EXCEPT ![n].appkey = IF creator /\ @ = Nobody THEN n ELSE @]
       /\ app' = [app EXCEPT ![n] = [@ EXCEPT
                     !.stage = IF creator \/ daemon[n].appkey # Nobody THEN 1 ELSE 0]]
    /\ UNCHANGED <<disk, inbox, radio, faults, history, cast>>

\* prepare_auto_keys: the creator of the attached network installs its private
\* AppKey; anybody else waits for the one its provisioner sends.
PrepareKeys(n) ==
    /\ SetUpPass(n) /\ app[n].stage = 0
    /\ LET creator == disk[n].creds /\ daemon[n].net = n IN
       /\ daemon' = [daemon EXCEPT ![n].appkey = IF creator /\ @ = Nobody THEN n ELSE @]
       /\ app' = [app EXCEPT ![n] = [@ EXCEPT
                     !.stage = IF creator \/ daemon[n].appkey # Nobody THEN 1 ELSE 0]]
    /\ UNCHANGED <<disk, inbox, radio, faults, history, cast>>

\* The key and the model of the local node are configured by messages to itself,
\* which the daemon loops back; only its report of the binding makes the node ready.
SetUp(n) ==
    /\ SetUpPass(n) /\ app[n].stage > 0
    /\ LET done == app[n].stage = 3 /\ app[n].bound IN
       app' = [app EXCEPT ![n].ready = done,
                 ![n].stage = IF @ < 3 THEN @ + 1 ELSE IF done THEN 3 ELSE 1]
    /\ IF app[n].stage = 2 /\ daemon[n].appkey # Nobody /\ ~daemon[n].bound
       THEN daemon' = [daemon EXCEPT ![n].bound = TRUE] /\ Tell(n, Plain("bound"))
       ELSE UNCHANGED <<daemon, inbox>>
    /\ UNCHANGED <<disk, radio, faults, history, cast>>

-----------------------------------------------------------------------------
(* Enrollment: the events of the D-Bus thread, the deadline, one            *)
(* configuration step, one new attempt (maintain_auto_enrollment)           *)

Forget(a) == [a EXCEPT !.pend = Nobody, !.clock = "off"]

\* The events of one pass, in order: a failure of the attempt in progress ends it, and so does
\* an address that differs; those that come after its end are about nobody.
TakeEvents(a) ==
    LET mine == {i \in DOMAIN a.events : a.events[i].uuid = a.pend}
        ends == {i \in mine : a.events[i].kind # "add_complete" \/ a.events[i].addr # a.pend}
        added == \E i \in mine : \A j \in ends : i < j
        failed == \E i \in ends : a.events[i].kind # "add_complete" /\ \A j \in ends : i <= j
        met == [a EXCEPT !.events = <<>>, !.clock = IF added THEN "off" ELSE @,
                         !.remote = IF failed THEN 0 ELSE IF added THEN 1 ELSE @]
    IN IF ends = {} THEN met ELSE Forget(met)

\* 50 s have passed since AddNode; the daemon gives up after 45 s.
Deadline(n, a) ==
    /\ a.clock = "running"
    /\ Prompt => daemon[n].session.to = Nobody /\ ~a.starting /\ a.events = <<>>
                 /\ \A i \in DOMAIN inbox[n] : inbox[n][i].uuid # a.pend

Afterwards(n, a) == {a} \cup (IF Deadline(n, a) THEN {Forget(a)} ELSE {})

\* Plausible bug: the configuration does not end after its second step.
StepOn(n, a) ==
    CASE a.remote = 0 -> [next |-> a, sent |-> {}]
      [] a.remote = 1 -> [next |-> [a EXCEPT !.remote = 2], sent |-> {Config(n, a.pend, "appkey")}]
      [] OTHER -> [next |-> [a EXCEPT !.remote = @ + 1], sent |-> {Config(n, a.pend, "model")}]

\* The next step of the newcomer's configuration, confirmed by nobody.
Step(n, a) ==
    CASE a.remote = 0 -> [next |-> a, sent |-> {}]
      [] a.remote = 1 -> [next |-> [a EXCEPT !.remote = 2], sent |-> {Config(n, a.pend, "appkey")}]
      [] OTHER -> [next |-> [Forget(a) EXCEPT !.remote = 0], sent |-> {Config(n, a.pend, "model")}]

\* Plausible bug: a reservation that was not used is kept for the next newcomer.
AttemptKeeping(a, m) ==
    LET tried == [a EXCEPT !.reserved = IF @ = Nobody THEN m ELSE @, !.last = m] IN
    IF a.starting THEN tried
    ELSE [tried EXCEPT !.starting = TRUE, !.pend = m, !.clock = "running"]

\* One attempt; the address is reserved even when another request is still
\* starting and add_node throws.
Attempt(a, m) ==
    LET tried == [a EXCEPT !.reserved = m, !.last = m] IN
    IF a.starting THEN tried
    ELSE [tried EXCEPT !.starting = TRUE, !.pend = m, !.clock = "running"]

\* AddNode: refused while another session is in progress.  The reply may come late.
Request(n, m) ==
    IF daemon[n].session.to # Nobody
    THEN Tell(n, About("add_refused", m, Nobody)) /\ UNCHANGED daemon
    ELSE /\ daemon' = [daemon EXCEPT ![n].session = [to |-> m, addr |-> Nobody]]
         /\ \/ Tell(n, About("add_started", m, Nobody))
            \/ ~Prompt /\ UNCHANGED inbox

\* Peers without a device key in the keyring that are not heard.  The peer of the
\* last attempt waits for its 55 s while there is another one.
Heard(n) == {m \in Node : app[m].up /\ app[m].ready /\ daemon[m].net = daemon[n].net}
Absent(n) == Node \ ({n} \cup daemon[n].ring \cup Heard(n))
Sought(n, a) == IF Absent(n) \subseteq {a.last} THEN Absent(n) ELSE Absent(n) \ {a.last}

Enroll(n) ==
    /\ Attached(n) /\ app[n].ready
    /\ \E a \in Afterwards(n, TakeEvents(app[n])) :
          LET step == Step(n, a) IN
          /\ radio' = radio \cup step.sent
          /\ \/ /\ step.next.pend # Nobody \/ Absent(n) = {}
                /\ app' = [app EXCEPT ![n] = step.next] /\ UNCHANGED <<daemon, inbox>>
             \/ /\ step.next.pend = Nobody
                /\ \E m \in Sought(n, step.next) :
                      /\ app' = [app EXCEPT ![n] = Attempt(step.next, m)]
                      /\ IF step.next.starting THEN UNCHANGED <<daemon, inbox>>
                         ELSE Request(n, m)
    /\ UNCHANGED <<disk, faults, history, cast>>

-----------------------------------------------------------------------------
(* The D-Bus thread                                                         *)

\* One message of the daemon.  A JoinComplete that is answered makes the node
\* permanent; a join that fails is tried again by a later pass.
Handle(n) ==
    /\ app[n].up /\ inbox[n] # <<>>
    /\ LET message == Head(inbox[n]) IN
       /\ inbox' = [inbox EXCEPT ![n] = Tail(@)]
       /\ CASE message.kind = "join_complete" ->
                 /\ app' = [app EXCEPT ![n].token = TRUE, ![n].state = "provisioned"]
                 /\ SetToken(n)
            [] message.kind = "join_failed" ->
                 /\ app' = [app EXCEPT ![n].state = "join_failed"]
                 /\ UNCHANGED <<disk, faults>>
            [] message.kind = "join_error" ->
                 /\ app' = [app EXCEPT ![n].state = IF @ = "joining" THEN ByToken(n) ELSE @]
                 /\ UNCHANGED <<disk, faults>>
            [] message.kind = "import_error" ->
                 /\ app' = [app EXCEPT ![n].state = ByToken(n)]
                 /\ UNCHANGED <<disk, faults>>
            [] message.kind = "bound" ->
                 app' = [app EXCEPT ![n].bound = TRUE] /\ UNCHANGED <<disk, faults>>
            [] message.kind = "add_started" ->
                 app' = [app EXCEPT ![n].starting = FALSE] /\ UNCHANGED <<disk, faults>>
            [] OTHER ->
                 /\ app' = [app EXCEPT ![n].events = Append(@, message),
                      ![n].starting = @ /\ message.kind # "add_refused"]
                 /\ UNCHANGED <<disk, faults>>
    /\ UNCHANGED <<daemon, radio, history, cast>>

\* The call of AddNode is given up after 30 s, whatever the daemon does.
ReplyTimeout(n) ==
    /\ ~Prompt /\ app[n].up /\ app[n].starting /\ daemon[n].session.to # Nobody
    /\ \A i \in DOMAIN inbox[n] : inbox[n][i].kind \notin {"add_started", "add_refused"}
    /\ Tell(n, About("add_refused", daemon[n].session.to, Nobody))
    /\ UNCHANGED <<app, disk, daemon, radio, faults, history, cast>>

\* RequestProvData: the reserved address is given away once, whichever attempt it was
\* reserved for; a stray session is one whose attempt has been given up.
RequestProvData(n) ==
    LET m == daemon[n].session.to IN
    /\ Serving(n) /\ m # Nobody /\ daemon[n].session.addr = Nobody
    /\ daemon[m].up /\ daemon[m].beacon
    /\ app' = [app EXCEPT ![n].reserved = Nobody]
    /\ IF app[n].reserved # Nobody
       THEN /\ daemon' = [daemon EXCEPT ![n].session.addr = app[n].reserved]
            /\ UNCHANGED inbox
       ELSE /\ daemon' = [daemon EXCEPT ![n].session = NoSession]
            /\ Tell(n, About("add_failed", m, Nobody))
    /\ history' = [history EXCEPT !.strays = IF app[n].pend = m THEN @ ELSE @ \cup {m}]
    /\ UNCHANGED <<disk, radio, faults, cast>>

-----------------------------------------------------------------------------
(* The daemon                                                               *)

\* Nobody has come for a beacon (60 s).
JoinExpires(n) ==
    /\ daemon[n].beacon
    /\ \A p \in Node : daemon[p].session.to = n => daemon[p].session.addr = Nobody
    /\ daemon' = [daemon EXCEPT ![n].beacon = FALSE]
    /\ Tell(n, Plain("join_failed"))
    /\ UNCHANGED <<app, disk, radio, faults, history, cast>>

\* The newcomer takes its address; the link may be lost before the provisioner
\* knows.
Provision(n) ==
    LET m == daemon[n].session.to
        a == daemon[n].session.addr IN
    /\ Serving(n) /\ a # Nobody /\ daemon[m].up /\ daemon[m].beacon
    /\ \E known \in BOOLEAN :
          /\ IF known THEN UNCHANGED faults
             ELSE ~Careful /\ faults < MaxFaults /\ faults' = faults + 1
          /\ daemon' = [daemon EXCEPT ![m].net = daemon[n].net, ![m].addr = a,
                ![m].beacon = FALSE, ![n].session = NoSession,
                ![n].ring = IF known THEN @ \cup {a} ELSE @]
          /\ LET joined == [inbox EXCEPT ![m] = Append(@, Plain("join_complete"))] IN
             inbox' = [joined EXCEPT ![n] = Append(@, IF known THEN About("add_complete", m, a)
                                                      ELSE About("add_failed", m, Nobody))]
    /\ UNCHANGED <<app, disk, radio, history, cast>>

\* The session ends without a newcomer.  Its 45 s outlast the pause of 5 s between
\* two Joins: somebody who searches for a provisioner is found.
Searches(m) == app[m].up /\ daemon[m].up /\ daemon[m].addr = Nobody

GiveUp(n) ==
    LET m == daemon[n].session.to IN
    /\ Serving(n) /\ m # Nobody
    /\ daemon' = [daemon EXCEPT ![n].session = NoSession]
    /\ Tell(n, About("add_failed", m, Nobody))
    /\ IF ~Searches(m) THEN UNCHANGED faults
       ELSE faults < MaxFaults /\ faults' = faults + 1
    /\ UNCHANGED <<app, disk, radio, history, cast>>

\* A configuration message arrives, at a node of the same network.
Deliver(c) ==
    LET m == c.dst IN
    /\ c \in radio /\ radio' = radio \ {c}
    /\ IF ~daemon[m].up \/ daemon[m].addr # m \/ daemon[m].net # daemon[c.src].net
       THEN UNCHANGED <<daemon, inbox>>
       ELSE IF c.kind = "appkey"
       THEN /\ daemon' = [daemon EXCEPT ![m].appkey = IF @ = Nobody THEN daemon[c.src].appkey ELSE @]
            /\ UNCHANGED inbox
       ELSE IF daemon[m].appkey = Nobody THEN UNCHANGED <<daemon, inbox>>
       ELSE /\ daemon' = [daemon EXCEPT ![m].bound = TRUE]
            /\ IF daemon[m].serving /\ ~daemon[m].bound THEN Tell(m, Plain("bound")) ELSE UNCHANGED inbox
    /\ UNCHANGED <<app, disk, faults, history, cast>>

\* A configuration message is sent once: nobody waits for its status or repeats it.
Lose(c) ==
    /\ c \in radio /\ radio' = radio \ {c}
    /\ history' = [history EXCEPT !.keyless = IF c.kind = "appkey" THEN @ \cup {c.dst} ELSE @]
    /\ UNCHANGED <<app, disk, daemon, inbox, faults, cast>>

-----------------------------------------------------------------------------
(* Faults                                                                   *)

\* Somebody's key, or the file of a token, depends on n at this moment.
Needed(n) ==
    \/ daemon[n].session.to # Nobody \/ app[n].remote # 0 \/ inbox[n] # <<>>
    \/ \E c \in radio : n \in {c.src, c.dst}
    \/ \E m \in daemon[n].ring \ history.keyless : daemon[m].appkey = Nobody
    \/ \E p \in Node : n \in {app[p].pend, daemon[p].session.to}
    \/ daemon[n].addr # Nobody /\ ~disk[n].token
    \/ app[n].state = "joining" /\ n \notin Creators

Strike(n) == /\ Careful => ~Needed(n)
             /\ faults < MaxFaults /\ faults' = faults + 1

\* The process dies, with it its registration, its sessions and its messages; a
\* node whose JoinComplete nobody has answered is dropped.
Crash(n) ==
    /\ app[n].up /\ Strike(n)
    /\ app' = [app EXCEPT ![n] = [NewApp(FALSE) EXCEPT !.up = FALSE]]
    /\ inbox' = [inbox EXCEPT ![n] = <<>>]
    /\ LET unborn == \E i \in DOMAIN inbox[n] : inbox[n][i].kind = "join_complete" IN
       daemon' = [daemon EXCEPT ![n] =
           IF unborn THEN [NewDaemon EXCEPT !.up = daemon[n].up]
           ELSE [@ EXCEPT !.beacon = FALSE, !.serving = FALSE, !.session = NoSession]]
    /\ UNCHANGED <<disk, radio, history, cast>>

Start(n) ==
    /\ ~app[n].up /\ n \in cast.present
    /\ app' = [app EXCEPT ![n] = NewApp(disk[n].token)]
    /\ UNCHANGED <<disk, daemon, inbox, radio, faults, history, cast>>

\* The daemon stops; request_daemon_activation starts it again.
DaemonStops(n) ==
    /\ daemon[n].up /\ Strike(n)
    /\ daemon' = [daemon EXCEPT ![n] = [@ EXCEPT !.up = FALSE, !.beacon = FALSE,
                     !.serving = FALSE, !.session = NoSession]]
    /\ UNCHANGED <<app, disk, inbox, radio, history, cast>>

DaemonStarts(n) ==
    /\ ~daemon[n].up /\ daemon' = [daemon EXCEPT ![n].up = TRUE]
    /\ UNCHANGED <<app, disk, inbox, radio, faults, history, cast>>

-----------------------------------------------------------------------------
Init ==
    /\ cast \in Casts
    /\ app = [n \in Node |-> [NewApp(FALSE) EXCEPT !.up = n \in cast.present]]
    /\ disk = [n \in Node |-> [token |-> FALSE, device |-> FALSE, creds |-> FALSE]]
    /\ daemon = [n \in Node |-> NewDaemon]
    /\ inbox = [n \in Node |-> <<>>]
    /\ radio = {} /\ faults = 0
    /\ history = [strays |-> {}, keyless |-> {}]

Pass(n) == Wait(n) \/ Attach(n) \/ Join(n) \/ Import(n)
           \/ PrepareKeys(n) \/ SetUp(n) \/ Enroll(n)

Next ==
    \/ \E n \in Node :
          \/ Refresh(n) \/ Pass(n) \/ Handle(n) \/ ReplyTimeout(n)
          \/ RequestProvData(n) \/ Provision(n) \/ JoinExpires(n) \/ GiveUp(n)
          \/ Crash(n) \/ Start(n) \/ DaemonStops(n) \/ DaemonStarts(n)
    \/ \E c \in radio : Deliver(c) \/ Lose(c)

Spec == Init /\ [][Next]_vars

\* The worker's timer and the bus never stop; a node that waits long enough comes
\* to its turn; a search that goes on meets the Joins of its newcomer.
Fairness ==
    \A n \in Node :
       /\ WF_vars(Refresh(n)) /\ WF_vars(Pass(n))
       /\ WF_vars(Handle(n)) /\ WF_vars(Start(n))
       /\ WF_vars(DaemonStarts(n))
       /\ WF_vars(GiveUp(n) \/ Provision(n))
       /\ WF_vars(\E c \in radio : c.dst = n /\ (Deliver(c) \/ Lose(c)))
       /\ SF_vars(RequestProvData(n))
       /\ SF_vars(Import(n))

FairSpec == Spec /\ Fairness

-----------------------------------------------------------------------------
(* Properties                                                               *)

TypeOK ==
    /\ \A n \in Node :
          LET a == app[n] d == daemon[n] IN
          /\ {a.up, a.token, a.attached, a.bound, a.ready, a.starting, a.snap.taken} \subseteq BOOLEAN
          /\ a.state \in LifeState
          /\ a.snap.state \in LifeState \cup {""}
          /\ a.stage \in 0..3 /\ a.remote \in 0..2 /\ a.clock \in {"off", "running"}
          /\ {a.reserved, a.pend, a.last} \subseteq MaybeNode
          /\ a.events \in Seq(Message) /\ inbox[n] \in Seq(Message)
          /\ disk[n] \in [token : BOOLEAN, device : BOOLEAN, creds : BOOLEAN]
          /\ {d.up, d.bound, d.serving, d.beacon} \subseteq BOOLEAN
          /\ {d.net, d.addr, d.appkey, d.session.to, d.session.addr} \subseteq MaybeNode
          /\ d.ring \subseteq Node
    /\ cast \in Casts /\ faults \in 0..MaxFaults
    /\ history \in [strays : SUBSET Node, keyless : SUBSET MaybeNode]

\* A node is given its own number as its address, whatever sessions fail, are
\* refused or overlap with the events of earlier ones.  A daemon that answers late
\* may ask for the address after AddNode was given up, when that of the next newcomer
\* is reserved: then only the newcomer of that very session gets another number.
OwnAddress == \A n \in Node : daemon[n].addr \in {Nobody, n}
AddressIsNumber ==
    \A n \in Node : daemon[n].addr \in {Nobody, n} \/ (n \in history.strays /\ ~Prompt)

\* A node that serves applications has the AppKey of the network it is in, also
\* when it has prepared a network of its own before.
KeyOfNetwork == \A n \in Node : app[n].ready => daemon[n].appkey = daemon[n].net

\* Every node that is there becomes ready in the end, and stays so, whatever careful
\* faults strike, but for one whose AppKey was lost on the air: that is sent once, while
\* a lost binding of the model is made up for by the newcomer's own set-up.
AllReady == Prompt => <>[](\A n \in cast.present \ history.keyless : app[n].ready)

\* What the exemption is for (README, divergences).
EverybodyReady == Prompt => <>[](\A n \in cast.present : app[n].ready)
=============================================================================
