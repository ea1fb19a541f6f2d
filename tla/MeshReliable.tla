---------------------------- MODULE MeshReliable ----------------------------
(***************************************************************************)
(* Reliable delivery of one Mesh topic channel from one sender to its live *)
(* members (service_node_mesh.cpp).  The sender keeps one newest waiting   *)
(* value (mesh_reliable_latest_) and the outstanding samples               *)
(* (mesh_reliable_pending_); the Mesh daemon carries each copy in a native *)
(* transfer named by a handle; a receiver publishes the first copy of a    *)
(* number and answers every copy with a receipt.                           *)
(*                                                                         *)
(* The executor thread runs Offer, Tick and what follows them under        *)
(* config_apply_mutex_; the D-Bus thread runs Arrive and GetReceipt at any *)
(* point in between.  Values and numbers are 1, 2, ... in the order the    *)
(* source and the counter produce them; time is the age of a sample in     *)
(* ticks.  The turn of the channel is MeshTurn's subject: here a value may *)
(* be deferred for any reason.                                             *)
(***************************************************************************)
EXTENDS Naturals, FiniteSets

CONSTANTS
    Peer,       \* the live members
    MaxValue,   \* bound: values the source offers
    MaxSeq,     \* bound: numbers the sender uses, far below 2^16
    MaxPending, \* kMaxPendingMeshSamples
    MaxTries,   \* repairs of one target (3 in the code)
    MaxAge,     \* ticks until a sample expires (30 s in the code)
    Faults      \* what may go wrong

ASSUME BoundAssumption ==
    {MaxValue, MaxSeq, MaxPending, MaxTries, MaxAge} \subseteq Nat \ {0}
\* A call or a transfer fails; the answer to a call is lost; a receipt is lost; a receiver
\* restarts; the sender is given a new node.
ASSUME FaultAssumption == Faults \subseteq {"failure", "answer", "receipt", "restart", "reattach"}

NoValue == 0
NoHandle == <<>>

VARIABLES
    offered,    \* values the source has published so far
    latest,     \* mesh_reliable_latest_: the newest waiting value, or NoValue
    pending,    \* mesh_reliable_pending_
    used,       \* mesh_reliable_next_sequence_
    pc,         \* where the executor thread stands between lock regions
    work,       \* its locals
    hand,       \* the handle a try_send has returned and nobody has recorded
    cancels,    \* mesh_transfer_cancellations_
    active,     \* transfers the daemon is carrying
    receipts,   \* receipts queued by a receiver or in flight
    seen,       \* seen[p]: numbers in the receiver's mesh_reliable_seen_
    last        \* last[p]: the value p has published last

vars == <<offered, latest, pending, used, pc, work, hand, cancels, active,
          receipts, seen, last>>
senderVars == <<offered, latest, pending, used, pc, work, hand, cancels>>

-----------------------------------------------------------------------------
Value  == 1..MaxValue
SeqNo  == 1..MaxSeq
Handle == SeqNo \X Peer \X (0..MaxTries)    \* number, destination, try

Sample == [seq : SeqNo, val : Value, wait : SUBSET Peer,
           xfer : [Peer -> Handle \cup {NoHandle}],
           primary : Handle \cup {NoHandle},
           tries : [Peer -> 0..MaxTries], age : 0..MaxAge,
           channel : {"blocked", "free"}]

\* A transfer is an orphan when the answer that named its handle was lost.
Transfer == [id : Handle, val : Value, arrived : BOOLEAN, orphan : BOOLEAN]

Work == [seq : SeqNo \cup {0}, val : Value \cup {NoValue},
         left : SUBSET (SeqNo \X Peer), any : BOOLEAN]

Idle == [seq |-> 0, val |-> NoValue, left |-> {}, any |-> FALSE]

Seq(h) == h[1]
Dest(h) == h[2]

\* The handles a sample, or the whole application, still accounts for.
Handles(s) == ({s.xfer[p] : p \in s.wait} \cup {s.primary}) \ {NoHandle}
Owned == (UNION {Handles(s) : s \in pending}) \cup cancels \cup ({hand} \ {NoHandle})

Busy == \E s \in pending : s.channel = "blocked"
NativeBusy(p) == \E a \in active : Dest(a.id) = p

\* native_completion_releases_channel: the only target.
Single == Cardinality(Peer) = 1

NewSample(q, v) == [seq |-> q, val |-> v, wait |-> Peer,
                    xfer |-> [p \in Peer |-> NoHandle], primary |-> NoHandle,
                    tries |-> [p \in Peer |-> 0], age |-> 0, channel |-> "blocked"]

Oldest == {s \in pending : \A r \in pending : s.seq <= r.seq}

\* Clear a recorded transfer without touching the others.
Without(s, p) == [s EXCEPT !.xfer[p] = NoHandle]

Replace(old, new) == (pending \ {old}) \cup {new}

-----------------------------------------------------------------------------
(* send_mesh_bridge_payload_impl                                            *)

\* Plausible bug: the full table is noticed one sample too late.
BeginLate(v) ==
    /\ used < MaxSeq
    /\ LET evicted == IF Cardinality(pending) > MaxPending THEN Oldest ELSE {} IN
       /\ pending' = (pending \ evicted) \cup {NewSample(used + 1, v)}
       /\ cancels' = cancels \cup UNION {Handles(s) : s \in evicted}
    /\ used' = used + 1
    /\ pc' = "send"
    /\ work' = [seq |-> used + 1, val |-> v, left |-> {used + 1} \X Peer,
                any |-> FALSE]

\* Register the sample before any copy is sent; a full table drops its oldest.
Begin(v) ==
    /\ used < MaxSeq
    /\ LET evicted == IF Cardinality(pending) >= MaxPending THEN Oldest ELSE {} IN
       /\ pending' = (pending \ evicted) \cup {NewSample(used + 1, v)}
       /\ cancels' = cancels \cup UNION {Handles(s) : s \in evicted}
    /\ used' = used + 1
    /\ pc' = "send"
    /\ work' = [seq |-> used + 1, val |-> v, left |-> {used + 1} \X Peer,
                any |-> FALSE]

\* Plausible bug: a value sent at once does not replace the waiting one.
OfferKeepsWaiting ==
    /\ pc = "idle" /\ offered < MaxValue
    /\ offered' = offered + 1
    /\ \/ /\ latest' = offered + 1
          /\ UNCHANGED <<pending, used, pc, work, cancels>>
       \/ /\ ~Busy /\ UNCHANGED latest
          /\ Begin(offered + 1)
    /\ UNCHANGED <<hand, active, receipts, seen, last>>

\* The source publishes: the value waits (setup, busy channel, no turn) or is
\* sent at once; either way it replaces the waiting one.
Offer ==
    /\ pc = "idle" /\ offered < MaxValue
    /\ offered' = offered + 1
    /\ \/ /\ latest' = offered + 1
          /\ UNCHANGED <<pending, used, pc, work, cancels>>
       \/ /\ ~Busy /\ latest' = NoValue
          /\ Begin(offered + 1)
    /\ UNCHANGED <<hand, active, receipts, seen, last>>

\* One try_send of a first copy ("send") or of a repair ("repair"): the daemon
\* accepts unless it still carries a transfer to that destination.
Submit(item) ==
    /\ pc \in {"send", "repair"} /\ hand = NoHandle /\ item \in work.left
    /\ ~NativeBusy(item[2])
    /\ \E s \in pending :
          /\ s.seq = item[1]
          /\ hand' = <<item[1], item[2], s.tries[item[2]]>>
          /\ active' = active \cup
                {[id |-> hand', val |-> s.val, arrived |-> FALSE, orphan |-> FALSE]}
    /\ UNCHANGED <<offered, latest, pending, used, pc, work, cancels, receipts, seen, last>>

\* Plausible bug: a handle that comes after the receipt of its copy is dropped.
RememberUnanswered ==
    /\ hand # NoHandle
    /\ pending' = {IF s.seq = Seq(hand) /\ Dest(hand) \in s.wait
                   THEN [s EXCEPT !.xfer[Dest(hand)] = hand, !.channel = "blocked"]
                   ELSE s : s \in pending}
    /\ work' = [work EXCEPT !.left = @ \ {<<Seq(hand), Dest(hand)>>}, !.any = TRUE]
    /\ hand' = NoHandle
    /\ UNCHANGED <<offered, latest, used, pc, cancels, active, receipts, seen, last>>

\* remember_mesh_transfer, after the call has returned.
Remember ==
    /\ hand # NoHandle
    /\ LET waiting == {s \in pending : s.seq = Seq(hand)} IN
       IF waiting = {}
       THEN cancels' = cancels \cup {hand} /\ UNCHANGED pending
       ELSE /\ \E s \in waiting :
                 pending' = Replace(s,
                    IF Dest(hand) \in s.wait
                    THEN [s EXCEPT !.xfer[Dest(hand)] = hand, !.channel = "blocked"]
                    ELSE [s EXCEPT !.primary = hand])
            /\ UNCHANGED cancels
    /\ work' = [work EXCEPT !.left = @ \ {<<Seq(hand), Dest(hand)>>}, !.any = TRUE]
    /\ hand' = NoHandle
    /\ UNCHANGED <<offered, latest, used, pc, active, receipts, seen, last>>

\* The daemon has admitted the copy, but its answer does not come within
\* kTransferCallTimeout: the exception counts like a refusal, and nobody holds the handle.
LoseReply ==
    /\ "answer" \in Faults /\ hand # NoHandle
    /\ active' = {IF a.id = hand THEN [a EXCEPT !.orphan = TRUE] ELSE a : a \in active}
    /\ work' = [work EXCEPT !.left = @ \ {<<Seq(hand), Dest(hand)>>}]
    /\ hand' = NoHandle
    /\ UNCHANGED <<offered, latest, pending, used, pc, cancels, receipts, seen, last>>

\* The daemon does not admit the copy.  A busy destination keeps its repair budget; an
\* error does not.
Refuse(item) ==
    /\ pc \in {"send", "repair"} /\ hand = NoHandle /\ item \in work.left
    /\ work' = [work EXCEPT !.left = @ \ {item}]
    /\ \/ /\ NativeBusy(item[2])
          /\ pending' = {IF s.seq = item[1] /\ item[2] \in s.wait /\ s.tries[item[2]] > 0
                         THEN [s EXCEPT !.tries[item[2]] = @ - 1] ELSE s : s \in pending}
       \/ "failure" \in Faults /\ ~NativeBusy(item[2]) /\ UNCHANGED pending
    /\ UNCHANGED <<offered, latest, used, pc, hand, cancels, active, receipts, seen, last>>

\* Without one copy known to be admitted the sample is withdrawn and its value waits
\* again, to be sent under a new number.  config_apply_mutex_ keeps the source out meanwhile, so no newer
\* value can be waiting here or in Resume.
EndSend ==
    /\ pc = "send" /\ hand = NoHandle /\ work.left = {}
    /\ pc' = "idle" /\ work' = Idle
    /\ IF work.any THEN UNCHANGED <<pending, latest>>
       ELSE /\ pending' = {s \in pending : s.seq # work.seq}
            /\ latest' = work.val
    /\ UNCHANGED <<offered, used, hand, cancels, active, receipts, seen, last>>

-----------------------------------------------------------------------------
(* maintain_mesh_reliable                                                   *)

\* Plausible bug: only receipts end a sample.
ExpiredNever(s) == FALSE

Expired(s) == s.age = MaxAge

CanRepair(s, p) == p \in s.wait /\ s.tries[p] < MaxTries

\* The samples that stay; the oldest of them takes over the waiting value as its data.
Kept == {s \in pending : s.wait # {} /\ ~Expired(s)}

Ticked(repairs, s) ==
    [s EXCEPT !.age = IF @ < MaxAge THEN @ + 1 ELSE @,
              !.val = IF (\A r \in Kept : s.seq <= r.seq) /\ latest # NoValue THEN latest ELSE @,
              !.tries = [p \in Peer |->
                  IF <<s.seq, p>> \in repairs THEN s.tries[p] + 1 ELSE s.tries[p]]]

Due == {<<s.seq, p>> : s \in Kept, p \in Peer}

\* The locked part of a tick.  Completed samples go; expired ones go with
\* their transfers; some missing targets are repaired.  A waiting value is taken out
\* for sending when no sample is left.
Tick ==
    /\ pc = "idle" /\ (pending # {} \/ latest # NoValue \/ cancels # {})
    /\ \E repairs \in SUBSET Due :
          /\ \A s \in Kept, p \in Peer : <<s.seq, p>> \in repairs => CanRepair(s, p)
          /\ \A x, y \in repairs : x[2] = y[2] => x = y
          /\ pending' = {Ticked(repairs, s) : s \in Kept}
          /\ work' = [Idle EXCEPT !.left = repairs, !.val = IF Kept = {} THEN latest ELSE NoValue]
    /\ cancels' = cancels \cup UNION {Handles(s) : s \in pending \ Kept}
    /\ latest' = NoValue /\ pc' = "check"
    /\ UNCHANGED <<offered, used, hand, active, receipts, seen, last>>

\* Native completion of the only copy releases the channel; then the queued
\* cancellations reach the daemon.  When the call for one fails, and that one may have
\* been carried out all the same, they stay queued; that those before it do not is
\* left out, for a cancellation of what has ended does nothing.
Check ==
    /\ pc = "check" /\ pc' = "repair"
    /\ \E checked \in SUBSET {s \in pending : Single} :
          pending' = (pending \ checked) \cup
             {IF \E p \in s.wait : /\ s.xfer[p] # NoHandle
                                   /\ \A a \in active : a.id # s.xfer[p]
              THEN [s EXCEPT !.xfer = [p \in Peer |-> NoHandle], !.channel = "free"]
              ELSE s : s \in checked}
    /\ \/ cancels' = {} /\ active' = {a \in active : a.id \notin cancels}
       \/ /\ \E h \in cancels :
                \/ "failure" \in Faults /\ UNCHANGED active
                \/ "answer" \in Faults /\ active' = {a \in active : a.id # h}
          /\ UNCHANGED cancels
    /\ UNCHANGED <<offered, latest, used, work, hand, receipts, seen, last>>

\* After the repairs, the value taken out is sent or deferred again.
Resume ==
    /\ pc = "repair" /\ hand = NoHandle /\ work.left = {}
    /\ \/ /\ pc' = "idle" /\ work' = Idle
          /\ latest' = work.val
          /\ UNCHANGED <<pending, used, cancels>>
       \/ /\ work.val # NoValue
          /\ Begin(work.val)
          /\ UNCHANGED latest
    /\ UNCHANGED <<offered, hand, active, receipts, seen, last>>

\* A receipt query makes a receiver repeat the receipt of what it published.
Query(s, p) ==
    /\ pc = "repair" /\ p \in s.wait /\ ~NativeBusy(p)
    /\ s.seq \in seen[p]
    /\ receipts' = receipts \cup {<<p, s.seq>>}
    /\ UNCHANGED <<senderVars, active, seen, last>>

\* clear_mesh_reliable_state(true) when the daemon has given a new token: the
\* old attachment's transfers are void.
Reset ==
    /\ "reattach" \in Faults /\ pc = "idle"
    /\ pending' = {} /\ cancels' = {} /\ active' = {}
    /\ UNCHANGED <<offered, latest, used, pc, work, hand, receipts, seen, last>>

-----------------------------------------------------------------------------
(* The daemon, and the D-Bus threads of both sides                          *)

\* The complete copy reaches the receiver: the first copy of a number is
\* published, each copy is answered.
Arrive(a) ==
    /\ ~a.arrived
    /\ active' = (active \ {a}) \cup {[a EXCEPT !.arrived = TRUE]}
    /\ LET p == Dest(a.id)
           q == Seq(a.id) IN
       /\ IF q \in seen[p] THEN UNCHANGED <<seen, last>>
          ELSE /\ seen' = [seen EXCEPT ![p] = @ \cup {q}]
               /\ last' = [last EXCEPT ![p] = a.val]
       /\ receipts' = receipts \cup {<<p, q>>}
    /\ UNCHANGED senderVars

\* Native acknowledgement of the copy, or the daemon gives up.
Complete(a) ==
    /\ a.arrived \/ "failure" \in Faults
    /\ active' = active \ {a}
    /\ UNCHANGED <<senderVars, receipts, seen, last>>

\* A receipt ends the wait for its target and the transfer recorded for it.
GetReceipt(r) ==
    /\ LET answered == {s \in pending : s.seq = r[2] /\ r[1] \in s.wait} IN
       /\ pending' = (pending \ answered) \cup
             {[Without(s, r[1]) EXCEPT !.wait = @ \ {r[1]}] : s \in answered}
       /\ cancels' = cancels \cup ({s.xfer[r[1]] : s \in answered} \ {NoHandle})
    /\ receipts' = receipts \ {r}
    /\ UNCHANGED <<offered, latest, used, pc, work, hand, active, seen, last>>

LoseReceipt(r) ==
    /\ "receipt" \in Faults
    /\ receipts' = receipts \ {r}
    /\ UNCHANGED <<senderVars, active, seen, last>>

\* The receiving process restarts.
RestartPeer(p) ==
    /\ "restart" \in Faults
    /\ seen' = [seen EXCEPT ![p] = {}]
    /\ last' = [last EXCEPT ![p] = NoValue]
    /\ UNCHANGED <<senderVars, active, receipts>>

-----------------------------------------------------------------------------
Init ==
    /\ offered = 0 /\ latest = NoValue /\ pending = {} /\ used = 0
    /\ pc = "idle" /\ work = Idle /\ hand = NoHandle /\ cancels = {}
    /\ active = {} /\ receipts = {}
    /\ seen = [p \in Peer |-> {}]
    /\ last = [p \in Peer |-> NoValue]

Executor ==
    \/ Offer \/ Remember \/ LoseReply \/ EndSend \/ Tick \/ Check \/ Resume
    \/ \E item \in work.left : Submit(item) \/ Refuse(item)

Next ==
    \/ Executor
    \/ Reset
    \/ \E s \in pending, p \in Peer : Query(s, p)
    \/ \E a \in active : Arrive(a) \/ Complete(a)
    \/ \E r \in receipts : GetReceipt(r) \/ LoseReceipt(r)
    \/ \E p \in Peer : RestartPeer(p)

Spec == Init /\ [][Next]_vars

\* The executor's worker and the D-Bus loops never stop, a cancellation that
\* is tried again and again succeeds, and a value that is resumed again and
\* again is sent.
Fairness ==
    /\ WF_vars(Remember \/ LoseReply) /\ WF_vars(EndSend) /\ WF_vars(Tick) /\ WF_vars(Check)
    /\ WF_vars(Resume) /\ WF_vars(\E item \in work.left : Submit(item) \/ Refuse(item))
    /\ WF_vars(\E a \in active : Arrive(a)) /\ WF_vars(\E a \in active : Complete(a))
    /\ WF_vars(\E r \in receipts : GetReceipt(r))
    /\ SF_vars(Check /\ cancels' = {}) /\ SF_vars(Resume /\ pc' = "send")

FairSpec == Spec /\ Fairness

-----------------------------------------------------------------------------
(* Properties                                                               *)

TypeOK ==
    /\ offered \in 0..MaxValue /\ latest \in Value \cup {NoValue}
    /\ used \in 0..MaxSeq
    /\ \A s \in pending :
          /\ s.seq \in 1..used /\ s.val \in 1..offered /\ s.wait \subseteq Peer
          /\ s.primary \in Handle \cup {NoHandle} /\ s.age \in 0..MaxAge
          /\ \A p \in Peer : /\ s.xfer[p] \in Handle \cup {NoHandle}
                             /\ s.tries[p] \in 0..MaxTries
          /\ s.channel \in {"blocked", "free"}
    /\ Cardinality(pending) <= MaxPending
    /\ \A s, r \in pending : s.seq = r.seq => s = r
    /\ pc \in {"idle", "send", "check", "repair"} /\ work \in Work
    /\ hand \in Handle \cup {NoHandle} /\ cancels \subseteq Handle
    /\ active \subseteq Transfer
    /\ receipts \subseteq Peer \X SeqNo
    /\ seen \in [Peer -> SUBSET SeqNo] /\ last \in [Peer -> 0..offered]

\* Every transfer the daemon carries can still be cancelled: it is recorded
\* in a sample, queued for cancellation or in the executor's hand.  Only the
\* lost answer to its own send leaves one that nobody holds.
TransfersOwned == \A a \in active : a.orphan \/ a.id \in Owned

\* Each channel holds at most one blocking transaction.
OneBlocking == \A s, r \in pending :
                  s.channel = "blocked" /\ r.channel = "blocked" => s = r

\* What a receiver publishes is what TopicDelivery promises: values of the
\* source, never an older one after a newer one, whatever is repaired,
\* absorbed, expired, evicted, lost or restarted.
Promise == INSTANCE TopicDelivery WITH offered <- offered, last <- last
KeepsPromise == Promise!Spec

\* No receiver publishes an older value after a newer one.
NeverOlder == [][\A p \in Peer : last'[p] \in {last[p], NoValue} \/ last'[p] > last[p]]_vars

\* Every sample ends, by receipts or by expiry, and its transfers with it.
Drains == <>[](pending = {} /\ cancels = {} /\ active = {})

\* The newest value of a source that falls silent reaches every receiver.
NewestArrives == offered = MaxValue ~> \A p \in Peer : last[p] = MaxValue
=============================================================================
