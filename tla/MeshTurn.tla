------------------------------ MODULE MeshTurn ------------------------------
(***************************************************************************)
(* The turn ring of one automatic Mesh channel (mesh_reliable_turns_ in    *)
(* service_node_mesh.cpp).  Every member keeps a permission flag.  A       *)
(* permitted exporter fans its newest value out to all fresh members and   *)
(* marks the copy of its sorted successor as the handoff; a receiver that  *)
(* publishes the value is permitted iff its copy was marked.  The lowest   *)
(* address of its own view initializes the ring and recovers a silent one. *)
(*                                                                         *)
(* The executor thread that sends and repairs (serialized by               *)
(* config_apply_mutex_) and the D-Bus thread that receives interleave      *)
(* whenever mesh_reliable_mutex_ is released: a send is therefore Begin... *)
(* (first lock region), Commit (the next two), one Transmit per            *)
(* destination and Finish.                                                 *)
(*                                                                         *)
(* Permission is named: each time a node grants itself the turn it takes a *)
(* fresh element of Token, which then travels with the handoff.  The code  *)
(* stores only "permitted", here token # NoToken; the name is history, and *)
(* no guard of a handler depends on which token it is.                     *)
(*                                                                         *)
(* Left to MeshReliable: payload values, repair budgets, receipts' queue.  *)
(***************************************************************************)
EXTENDS Naturals, FiniteSets

CONSTANTS
    Node,       \* unicast addresses; nonzero and ordered
    Exporter,   \* nodes whose bridge entry has mode export or both
    Importer,   \* nodes whose bridge entry has mode import or both
    SeqNo,      \* transfer sequence numbers (65536 of them in the code)
    NoSeq,
    Token, NoToken,
    Lossy,      \* frames may be lost, handoffs may expire unreceived
    Disruptive  \* membership may change, processes may restart or reset

ASSUME NodeAssumption  == Node \subseteq Nat \ {0}
ASSUME RoleAssumption  == Exporter \subseteq Node /\ Importer \subseteq Node
ASSUME TokenAssumption == NoToken \notin Token /\ NoSeq \notin SeqNo
ASSUME FlagAssumption  == {Lossy, Disruptive} \subseteq BOOLEAN

NoNode == 0

VARIABLES
    view,       \* view[n]: fresh same-swarm members, swarm_member_addresses()
    turn,       \* turn[n]: MeshReliableTurn of the channel
    pc,         \* where the sending thread of n stands
    job,        \* the send in progress: locals of send_mesh_bridge_payload_impl
    pending,    \* pending[n]: mesh_reliable_pending_
    seen,       \* seen[n]: delivered entries of mesh_reliable_seen_
    net,        \* frames in flight
    forgot,     \* history: a seen table was dropped, or a send reply was lost
    hasty       \* history: a silence deadline passed in a healthy transaction

vars == <<view, turn, pc, job, pending, seen, net, forgot, hasty>>

-----------------------------------------------------------------------------
MaybeToken == Token \cup {NoToken}
MaybeNode  == Node \cup {NoNode}

\* clock: whether the record is initialized, and whether reclaim_at has passed.
TurnState == [token : MaybeToken, clock : {"unset", "running", "due"}]

Job == [seq : SeqNo \cup {NoSeq}, targets : SUBSET Node, succ : MaybeNode,
        token : MaybeToken, left : SUBSET Node, sent : SUBSET Node]

Sample == [seq : SeqNo, succ : MaybeNode, token : MaybeToken,
           targets : SUBSET Node, awaiting : SUBSET Node,
           channel : {"blocked", "free"}]

\* A data frame with turn # NoToken is kReliableData, otherwise
\* kReliableDataNoTurn; a receipt is kReliableAck.
Data(s, d, q, t) == [kind |-> "data", src |-> s, dst |-> d, seq |-> q, turn |-> t]
Receipt(s, d, q) == [kind |-> "ack", src |-> s, dst |-> d, seq |-> q, turn |-> NoToken]

Frame == [kind : {"data", "ack"}, src : Node, dst : Node, seq : SeqNo,
          turn : MaybeToken]

NoTurnState == [token |-> NoToken, clock |-> "unset"]
NoJob == [seq |-> NoSeq, targets |-> {}, succ |-> NoNode, token |-> NoToken,
          left |-> {}, sent |-> {}]

-----------------------------------------------------------------------------
(* The ring, as each node computes it from its own view (mesh_turn_members) *)

IsLowest(n) == \A m \in view[n] : n < m

IsSuccessor(n, d) ==
    /\ d \in view[n]
    /\ IF \E m \in view[n] : n < m
       THEN n < d /\ \A m \in view[n] : n < m => d <= m
       ELSE \A m \in view[n] : d <= m

Unheard(n) == Node \ (view[n] \cup {n})

Busy(n) == \E p \in pending[n] : p.channel = "blocked"

(* The 16-bit counter starts at the process clock and skips pending numbers; *)
(* it comes round only after every trace of the old number is gone.          *)
Fresh(n, q) ==
    /\ \A p \in pending[n] : p.seq # q
    /\ \A m \in net : ~(m.kind = "data" /\ m.src = n /\ m.seq = q)
    /\ \A m \in net : ~(m.kind = "ack" /\ m.dst = n /\ m.seq = q)
    /\ \A d \in Node : <<n, q>> \notin seen[d]

(* A handoff of token t by s under number q that its successor has not taken. *)
Handoff(s, q, t) ==
    \/ \E p \in pending[s] :
          p.seq = q /\ p.token = t /\ p.succ \in Node /\ <<s, q>> \notin seen[p.succ]
    \/ \E m \in net :
          /\ m.kind = "data" /\ m.src = s /\ m.seq = q /\ m.turn = t
          /\ <<s, q>> \notin seen[m.dst]

Holds(n, t) == turn[n].token = t \/ (pc[n] = "claimed" /\ job[n].token = t)

Live(t) == \/ \E n \in Node : Holds(n, t)
           \/ \E s \in Node, q \in SeqNo : Handoff(s, q, t)

\* A permission that some healthy transaction will still use or pass on.
Moving(t) == \/ \E n \in Exporter : Holds(n, t)
             \/ \E s \in Node, q \in SeqNo : Handoff(s, q, t)

\* Plausible bug: the order of the addresses is not checked.
MayMintAnyone(n) == turn[n].clock = "unset" \/ (turn[n].token = NoToken /\ turn[n].clock = "due")

MayMint(n) == /\ IsLowest(n)
              /\ turn[n].clock = "unset" \/ (turn[n].token = NoToken /\ turn[n].clock = "due")

-----------------------------------------------------------------------------
(* The sending thread                                                       *)

CanBegin(n) == n \in Exporter /\ pc[n] = "idle" /\ ~Busy(n)

Claim(n, q, targets, d, t) ==
    /\ pc' = [pc EXCEPT ![n] = "claimed"]
    /\ job' = [job EXCEPT ![n] = [seq |-> q, targets |-> targets, succ |-> d,
                  token |-> t, left |-> targets, sent |-> {}]]

\* A permitted node, or the lowest node that initializes or recovers the
\* turn, claims it for one value.  At most one unheard address is probed.
BeginTurn(n) ==
    /\ CanBegin(n) /\ view[n] # {}
    /\ \E q \in SeqNo, d \in view[n], t \in Token, probe \in SUBSET Unheard(n) :
          /\ Fresh(n, q) /\ IsSuccessor(n, d) /\ Cardinality(probe) <= 1
          /\ IF turn[n].token # NoToken THEN t = turn[n].token
             ELSE MayMint(n) /\ ~Live(t)
          /\ turn' = [turn EXCEPT ![n] = [token |-> t,
                clock |-> IF turn[n].clock = "due" THEN "due" ELSE "running"]]
          /\ Claim(n, q, view[n] \cup probe, d, t)
    /\ UNCHANGED <<view, pending, seen, net, forgot, hasty>>

\* Without permission the value goes back to mesh_reliable_latest_; the
\* attempt still initializes the turn record.
DenyTurn(n) ==
    /\ CanBegin(n) /\ view[n] # {}
    /\ turn[n].token = NoToken /\ ~MayMint(n) /\ turn[n].clock = "unset"
    /\ turn' = [turn EXCEPT ![n].clock = "running"]
    /\ UNCHANGED <<view, pc, job, pending, seen, net, forgot, hasty>>

\* With no fresh member at all, a probe of one configured address goes out
\* without any permission and without a successor.
BeginProbe(n) ==
    /\ CanBegin(n) /\ view[n] = {}
    /\ \E q \in SeqNo, d \in Unheard(n) :
          Fresh(n, q) /\ Claim(n, q, {d}, NoNode, NoToken)
    /\ UNCHANGED <<view, turn, pending, seen, net, forgot, hasty>>

\* Register the pending sample, then give the permission up.
Commit(n) ==
    /\ pc[n] = "claimed"
    /\ pending' = [pending EXCEPT ![n] = @ \cup
          {[seq |-> job[n].seq, succ |-> job[n].succ, token |-> job[n].token,
            targets |-> job[n].targets, awaiting |-> job[n].targets,
            channel |-> "blocked"]}]
    /\ turn' = IF job[n].succ = NoNode THEN turn
               ELSE [turn EXCEPT ![n] = [token |-> NoToken, clock |-> "running"]]
    /\ pc' = [pc EXCEPT ![n] = "sending"]
    /\ UNCHANGED <<view, job, seen, net, forgot, hasty>>

Copy(n, d, q, succ, t) == Data(n, d, q, IF d = succ THEN t ELSE NoToken)

\* One try_send: accepted, refused (Busy or an error), or accepted by the
\* daemon while the D-Bus reply is lost, which the code reads as an error.
Transmit(n, d) ==
    /\ pc[n] = "sending" /\ d \in job[n].left
    /\ LET frame == Copy(n, d, job[n].seq, job[n].succ, job[n].token) IN
       \/ /\ net' = net \cup {frame}
          /\ job' = [job EXCEPT ![n].left = @ \ {d}, ![n].sent = @ \cup {d}]
          /\ UNCHANGED forgot
       \/ /\ job' = [job EXCEPT ![n].left = @ \ {d}]
          /\ Lossy
          /\ UNCHANGED <<net, forgot>>
       \/ /\ net' = net \cup {frame}
          /\ job' = [job EXCEPT ![n].left = @ \ {d}]
          /\ Disruptive /\ forgot' = TRUE
    /\ UNCHANGED <<view, turn, pc, pending, seen, hasty>>

\* Plausible bug: a single refused copy already restores the permission.
FinishRestoresOnRefusal(n) ==
    /\ pc[n] = "sending" /\ job[n].left = {}
    /\ pc' = [pc EXCEPT ![n] = "idle"]
    /\ IF job[n].sent = job[n].targets THEN UNCHANGED turn
       ELSE turn' = IF job[n].succ = NoNode THEN turn
                    ELSE [turn EXCEPT ![n].token = job[n].token]
    /\ job' = [job EXCEPT ![n] = NoJob]
    /\ UNCHANGED <<view, pending, seen, net, forgot, hasty>>

\* When no copy was admitted the sample is withdrawn and the turn is kept.
Finish(n) ==
    /\ pc[n] = "sending" /\ job[n].left = {}
    /\ pc' = [pc EXCEPT ![n] = "idle"]
    /\ IF job[n].sent # {} THEN UNCHANGED <<pending, turn>>
       ELSE /\ pending' = [pending EXCEPT ![n] =
                              {p \in @ : p.seq # job[n].seq}]
            /\ turn' = IF job[n].succ = NoNode THEN turn
                       ELSE [turn EXCEPT ![n].token = job[n].token]
    /\ job' = [job EXCEPT ![n] = NoJob]
    /\ UNCHANGED <<view, seen, net, forgot, hasty>>

-----------------------------------------------------------------------------
(* Maintenance, on the same thread between sends                            *)

\* A missing receipt is repaired by a new copy; an accepted copy blocks the
\* channel again (remember_mesh_transfer).
Repair(n) ==
    /\ pc[n] = "idle"
    /\ \E p \in pending[n] : \E d \in p.awaiting :
          /\ Copy(n, d, p.seq, p.succ, p.token) \notin net
          /\ net' = net \cup {Copy(n, d, p.seq, p.succ, p.token)}
          /\ pending' = [pending EXCEPT ![n] =
                (@ \ {p}) \cup {[p EXCEPT !.channel = "blocked"]}]
    /\ UNCHANGED <<view, turn, pc, job, seen, forgot, hasty>>

\* A receipt query asks the peer to repeat a receipt it has already earned.
QueryReceipt(n) ==
    /\ pc[n] = "idle"
    /\ \E p \in pending[n] : \E d \in p.awaiting :
          /\ <<n, p.seq>> \in seen[d]
          /\ net' = net \cup {Receipt(d, n, p.seq)}
    /\ UNCHANGED <<view, turn, pc, job, pending, seen, forgot, hasty>>

\* Plausible bug: a sample whose receipt never comes does not expire.
RetireAcknowledged(n) ==
    /\ pc[n] = "idle"
    /\ \E p \in pending[n] :
          p.awaiting = {} /\ pending' = [pending EXCEPT ![n] = @ \ {p}]
    /\ UNCHANGED <<view, turn, pc, job, seen, net, forgot, hasty>>

\* Every receipt arrived, or (30 s) the sample expired.
Retire(n) ==
    /\ pc[n] = "idle"
    /\ \E p \in pending[n] :
          /\ p.awaiting = {} \/ Lossy
          /\ pending' = [pending EXCEPT ![n] = @ \ {p}]
    /\ UNCHANGED <<view, turn, pc, job, seen, net, forgot, hasty>>

\* Native completion of a single unicast releases the channel early.
Release(n) ==
    /\ pc[n] = "idle"
    /\ \E p \in pending[n] :
          /\ Cardinality(p.targets) = 1 /\ p.channel = "blocked" /\ p.awaiting # {}
          /\ pending' = [pending EXCEPT ![n] =
                (@ \ {p}) \cup {[p EXCEPT !.channel = "free"]}]
    /\ UNCHANGED <<view, turn, pc, job, seen, net, forgot, hasty>>

\* The silence deadline kMeshTurnRecovery passes at n.
Deadline(n) ==
    /\ turn[n].clock = "running"
    /\ turn' = [turn EXCEPT ![n].clock = "due"]
    /\ hasty' = (hasty \/ \E t \in Token : Moving(t))
    /\ UNCHANGED <<view, pc, job, pending, seen, net, forgot>>

\* A seen entry ages out (90 s), long after the sample and its copies.
ForgetSeen(n) ==
    /\ \E e \in seen[n] :
          /\ \A p \in pending[e[1]] : p.seq # e[2]
          /\ \A m \in net : ~(m.src = e[1] /\ m.dst = n /\ m.seq = e[2])
          /\ job[e[1]].seq # e[2]
          /\ seen' = [seen EXCEPT ![n] = @ \ {e}]
    /\ UNCHANGED <<view, turn, pc, job, pending, net, forgot, hasty>>

-----------------------------------------------------------------------------
(* The D-Bus thread                                                         *)

\* A data frame marks its source as a live member; its first copy is
\* published, acknowledged and decides the permission; later copies are only
\* acknowledged.  A bridge that does not import rejects the frame.
ReceiveData(m) ==
    /\ m.kind = "data"
    /\ LET n == m.dst
           first == <<m.src, m.seq>> \notin seen[n] IN
       /\ view' = [view EXCEPT ![n] = @ \cup {m.src}]
       /\ IF first /\ n \in Importer
          THEN /\ seen' = [seen EXCEPT ![n] = @ \cup {<<m.src, m.seq>>}]
               /\ turn' = [turn EXCEPT ![n] =
                     [token |-> m.turn, clock |-> "running"]]
          ELSE UNCHANGED <<seen, turn>>
       /\ net' = (net \ {m}) \cup
             (IF ~first \/ n \in Importer THEN {Receipt(n, m.src, m.seq)} ELSE {})
    /\ UNCHANGED <<pc, job, pending, forgot, hasty>>

\* A receipt also proves its source alive.
ReceiveAck(m) ==
    /\ m.kind = "ack"
    /\ view' = [view EXCEPT ![m.dst] = @ \cup {m.src}]
    /\ pending' = [pending EXCEPT ![m.dst] =
          {IF p.seq = m.seq THEN [p EXCEPT !.awaiting = @ \ {m.src}] ELSE p :
             p \in pending[m.dst]}]
    /\ net' = net \ {m}
    /\ UNCHANGED <<turn, pc, job, seen, forgot, hasty>>

Lose(m) ==
    /\ Lossy
    /\ net' = net \ {m}
    /\ UNCHANGED <<view, turn, pc, job, pending, seen, forgot, hasty>>

-----------------------------------------------------------------------------
(* Membership and restarts                                                  *)

\* Plausible bug: the own heartbeat, relayed back, is not told apart.
ViewChangeSelf(n) ==
    /\ Disruptive
    /\ \E m \in Node :
          view' = [view EXCEPT ![n] = IF m \in @ THEN @ \ {m} ELSE @ \cup {m}]
    /\ UNCHANGED <<turn, pc, job, pending, seen, net, forgot, hasty>>

\* A heartbeat is heard or a lease runs out.
ViewChange(n) ==
    /\ Disruptive
    /\ \E m \in Node \ {n} :
          view' = [view EXCEPT ![n] = IF m \in @ THEN @ \ {m} ELSE @ \cup {m}]
    /\ UNCHANGED <<turn, pc, job, pending, seen, net, forgot, hasty>>

\* clear_mesh_reliable_state after a new node token, at the start of a tick.
Reset(n) ==
    /\ Disruptive /\ pc[n] = "idle"
    /\ turn' = [turn EXCEPT ![n] = NoTurnState]
    /\ pending' = [pending EXCEPT ![n] = {}]
    /\ seen' = [seen EXCEPT ![n] = {}]
    /\ forgot' = TRUE
    /\ UNCHANGED <<view, pc, job, net, hasty>>

\* The process restarts; frames the daemon accepted are still on their way.
Restart(n) ==
    /\ Disruptive
    /\ view' = [view EXCEPT ![n] = {}]
    /\ turn' = [turn EXCEPT ![n] = NoTurnState]
    /\ pc' = [pc EXCEPT ![n] = "idle"]
    /\ job' = [job EXCEPT ![n] = NoJob]
    /\ pending' = [pending EXCEPT ![n] = {}]
    /\ seen' = [seen EXCEPT ![n] = {}]
    /\ forgot' = TRUE
    /\ UNCHANGED <<net, hasty>>

-----------------------------------------------------------------------------
Init ==
    /\ view \in [Node -> SUBSET Node]
    /\ \A n \in Node : n \notin view[n]
    /\ ~Disruptive => \A n \in Node : view[n] = Node \ {n}
    /\ turn = [n \in Node |-> NoTurnState]
    /\ pc = [n \in Node |-> "idle"]
    /\ job = [n \in Node |-> NoJob]
    /\ pending = [n \in Node |-> {}]
    /\ seen = [n \in Node |-> {}]
    /\ net = {}
    /\ forgot = FALSE /\ hasty = FALSE

Sender(n) ==
    \/ BeginTurn(n) \/ DenyTurn(n) \/ BeginProbe(n) \/ Commit(n) \/ Finish(n)
    \/ \E d \in Node : Transmit(n, d)

Maintain(n) ==
    Repair(n) \/ QueryReceipt(n) \/ Retire(n) \/ Release(n) \/ Deadline(n) \/ ForgetSeen(n)

Receive == \E m \in net : ReceiveData(m) \/ ReceiveAck(m)

Next ==
    \/ \E n \in Node : Sender(n) \/ Maintain(n)
    \/ Receive
    \/ \E m \in net : Lose(m)
    \/ \E n \in Node : ViewChange(n) \/ Reset(n) \/ Restart(n)

Spec == Init /\ [][Next]_vars

\* The 20 ms worker, the D-Bus loop and the wall clock never stop; a source
\* that keeps publishing always has a newest value to send.
Fairness ==
    /\ \A n \in Node :
          /\ WF_vars(Sender(n)) /\ WF_vars(Repair(n)) /\ WF_vars(Retire(n))
          /\ WF_vars(Deadline(n)) /\ WF_vars(ForgetSeen(n))
    /\ \A s, d \in Node :
          /\ WF_vars(\E m \in net : m.src = s /\ m.dst = d /\ ReceiveData(m))
          /\ WF_vars(\E m \in net : m.src = s /\ m.dst = d /\ ReceiveAck(m))

FairSpec == Spec /\ Fairness

-----------------------------------------------------------------------------
(* Properties                                                               *)

TypeOK ==
    /\ view \in [Node -> SUBSET Node] /\ \A n \in Node : n \notin view[n]
    /\ turn \in [Node -> TurnState]
    /\ pc \in [Node -> {"idle", "claimed", "sending"}]
    /\ job \in [Node -> Job]
    /\ pending \in [Node -> SUBSET Sample]
    /\ seen \in [Node -> SUBSET (Node \X SeqNo)]
    /\ net \subseteq Frame
    /\ {forgot, hasty} \subseteq BOOLEAN

\* A permission is never manufactured: while no seen table was dropped and no
\* send reply was lost, a permission minted once is with one node or on the
\* way in one handoff, whatever is lost, repaired, duplicated, refused, late,
\* or renumbered by membership changes.
TokenUnique ==
    ~forgot => \A t \in Token :
        /\ \A n, m \in Node : Holds(n, t) /\ Holds(m, t) => n = m
        /\ \A n, s \in Node, q \in SeqNo : ~(Holds(n, t) /\ Handoff(s, q, t))
        /\ \A r, s \in Node, p, q \in SeqNo :
              Handoff(r, p, t) /\ Handoff(s, q, t) => r = s /\ p = q

\* As long as no silence deadline passes in the middle of a healthy
\* transaction, the channel of a stable group has one owner: the permission of
\* at most one value is held or on its way anywhere, even when frames are lost.
OneOwner ==
    ~hasty /\ ~Disruptive => \A t, u \in Token : Moving(t) /\ Moving(u) => t = u

\* Simultaneous restarts have one initiator: of all members that start with
\* whatever part of the group they have heard, at most one mints a permission.
OneInitiator == ~forgot => \A t, u \in Token : Moving(t) /\ Moving(u) => t = u

TakesTurn(n) == pc[n] = "sending" /\ job[n].succ # NoNode

\* Every member of a stable, loss-free group that both imports and exports
\* gets the turn again and again.
EveryoneTakesTurns == \A n \in Node : []<>TakesTurn(n)

\* Every exporter of a stable, loss-free group gets the turn at least once,
\* whatever the other members' modes are.
ExportersSend == \A n \in Exporter : <>TakesTurn(n)

\* Whatever is lost, the lowest exporter recovers the turn again and again.
LowestRecovers ==
    \A n \in Exporter : (\A m \in Node : n <= m) => []<>TakesTurn(n)
=============================================================================
