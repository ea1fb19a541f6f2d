--------------------------- MODULE MeshTurnProofs ---------------------------
(***************************************************************************)
(* Proofs about MeshTurn for any set of members, modes, numbers and        *)
(* permissions: types, that a permission is never manufactured, and that a *)
(* stable group has one owner.                                             *)
(***************************************************************************)
EXTENDS MeshTurn, TLAPS

-----------------------------------------------------------------------------
(* Types                                                                    *)

\* Nobody sends to itself, and a send in progress has a number.
NotSelf ==
    /\ \A m \in net : m.src # m.dst
    /\ \A n \in Node : n \notin job[n].targets /\ n \notin job[n].left
    /\ \A n \in Node : \A p \in pending[n] : n \notin p.awaiting
    /\ \A n \in Node : pc[n] # "idle" => job[n].seq \in SeqNo

TypeInv == TypeOK /\ NotSelf

\* The ring starts well formed.
LEMMA TypeInit == Init => TypeInv
<1>1. NoTurnState \in TurnState
  BY DEF NoTurnState, TurnState, MaybeToken
<1>2. NoJob \in Job
  BY DEF NoJob, Job, MaybeToken, MaybeNode
<1>3. Init => TypeOK
  BY <1>1, <1>2 DEF Init, TypeOK
<1>4. Init => NotSelf
  BY DEF Init, NotSelf, NoJob
<1> QED BY <1>3, <1>4 DEF TypeInv

\* What claiming a turn or a probe does to the types.
LEMMA ClaimType ==
    ASSUME TypeInv, NEW n \in Node, NEW q \in SeqNo, NEW targets \in SUBSET Node,
           NEW d \in MaybeNode, NEW t \in MaybeToken, n \notin targets,
           Claim(n, q, targets, d, t)
    PROVE  /\ pc' \in [Node -> {"idle", "claimed", "sending"}]
           /\ job' \in [Node -> Job]
           /\ \A i \in Node : i \notin job'[i].targets /\ i \notin job'[i].left
           /\ \A i \in Node : pc'[i] # "idle" => job'[i].seq \in SeqNo
<1> DEFINE new == [seq |-> q, targets |-> targets, succ |-> d,
                  token |-> t, left |-> targets, sent |-> {}]
<1>1. new \in Job /\ new.targets = targets /\ new.left = targets /\ new.seq = q
  BY DEF Job
<1>2. job' = [job EXCEPT ![n] = new] /\ pc' = [pc EXCEPT ![n] = "claimed"]
  BY DEF Claim
<1> HIDE DEF new
<1> QED BY <1>1, <1>2 DEF TypeInv, TypeOK, NotSelf

\* A copy of a sample is a frame, whichever destination it is for.
LEMMA CopyType ==
    ASSUME NEW n \in Node, NEW d \in Node, NEW q \in SeqNo,
           NEW succ \in MaybeNode, NEW t \in MaybeToken
    PROVE  /\ Copy(n, d, q, succ, t) \in Frame
           /\ Copy(n, d, q, succ, t).src = n
           /\ Copy(n, d, q, succ, t).dst = d
  BY DEF Copy, Data, Frame, MaybeToken

\* Giving a permission up keeps the turn record well formed.
LEMMA GiveUpType ==
    ASSUME TypeOK, NEW n \in Node
    PROVE  [turn EXCEPT ![n] = [token |-> NoToken, clock |-> "running"]]
             \in [Node -> TurnState]
  BY DEF TypeOK, TurnState, MaybeToken

\* Every step keeps the ring well formed.
LEMMA TypeNext == TypeInv /\ [Next]_vars => TypeInv'
<1> SUFFICES ASSUME TypeInv, [Next]_vars PROVE TypeInv'
  OBVIOUS
<1> USE DEF TypeInv
<1>1. ASSUME NEW n \in Node, BeginTurn(n) PROVE TypeInv'
  <2>1. PICK q \in SeqNo, d \in view[n], t \in Token, probe \in SUBSET Unheard(n) :
          /\ turn' = [turn EXCEPT ![n] = [token |-> t,
                clock |-> IF turn[n].clock = "due" THEN "due" ELSE "running"]]
          /\ Claim(n, q, view[n] \cup probe, d, t)
    BY <1>1 DEF BeginTurn
  <2>2. UNCHANGED <<view, pending, seen, net, forgot, hasty>>
    BY <1>1 DEF BeginTurn
  <2>3. turn' \in [Node -> TurnState]
    BY <2>1 DEF TypeOK, TurnState, MaybeToken
  <2>4. /\ view[n] \cup probe \in SUBSET Node /\ n \notin view[n] \cup probe
        /\ d \in MaybeNode /\ t \in MaybeToken
    BY DEF Unheard, TypeOK, MaybeNode, MaybeToken
  <2>5. /\ pc' \in [Node -> {"idle", "claimed", "sending"}]
        /\ job' \in [Node -> Job]
        /\ \A i \in Node : i \notin job'[i].targets /\ i \notin job'[i].left
        /\ \A i \in Node : pc'[i] # "idle" => job'[i].seq \in SeqNo
    BY <2>1, <2>4, ClaimType
  <2> QED BY <2>2, <2>3, <2>5 DEF TypeOK, NotSelf
<1>2. ASSUME NEW n \in Node, DenyTurn(n) PROVE TypeInv'
  <2>2. turn' \in [Node -> TurnState]
    BY <1>2 DEF DenyTurn, TypeOK, TurnState
  <2> QED BY <1>2, <2>2 DEF DenyTurn, TypeOK, NotSelf
<1>3. ASSUME NEW n \in Node, BeginProbe(n) PROVE TypeInv'
  <2>1. PICK q \in SeqNo, d \in Unheard(n) : Claim(n, q, {d}, NoNode, NoToken)
    BY <1>3 DEF BeginProbe
  <2>2. /\ {d} \in SUBSET Node /\ n \notin {d}
        /\ NoNode \in MaybeNode /\ NoToken \in MaybeToken
    BY DEF Unheard, MaybeNode, MaybeToken
  <2>3. /\ pc' \in [Node -> {"idle", "claimed", "sending"}]
        /\ job' \in [Node -> Job]
        /\ \A i \in Node : i \notin job'[i].targets /\ i \notin job'[i].left
        /\ \A i \in Node : pc'[i] # "idle" => job'[i].seq \in SeqNo
    BY <2>1, <2>2, ClaimType
  <2> QED BY <1>3, <2>3 DEF BeginProbe, TypeOK, NotSelf
<1>4. ASSUME NEW n \in Node, Commit(n) PROVE TypeInv'
  <2> DEFINE sample == [seq |-> job[n].seq, succ |-> job[n].succ,
                token |-> job[n].token, targets |-> job[n].targets,
                awaiting |-> job[n].targets, channel |-> "blocked"]
  <2>1. pending' = [pending EXCEPT ![n] = @ \cup {sample}]
    BY <1>4 DEF Commit
  <2>2. sample \in Sample /\ n \notin sample.awaiting
    BY <1>4 DEF Commit, TypeOK, NotSelf, Job, Sample
  <2>3. pending' \in [Node -> SUBSET Sample]
    BY <2>1, <2>2 DEF TypeOK
  <2>4. turn' \in [Node -> TurnState]
    BY <1>4, GiveUpType DEF Commit, TypeOK
  <2>5. \A i \in Node : \A p \in pending'[i] : i \notin p.awaiting
    BY <2>1, <2>2 DEF TypeOK, NotSelf
  <2> HIDE DEF sample
  <2> QED BY <1>4, <2>3, <2>4, <2>5 DEF Commit, TypeOK, NotSelf
<1>5. ASSUME NEW n \in Node, NEW d \in Node, Transmit(n, d) PROVE TypeInv'
  <2>1. job[n] \in Job /\ n \notin job[n].targets /\ n \notin job[n].left
    BY DEF TypeOK, NotSelf
  <2>2. PICK s \in SUBSET Node :
          job' = [job EXCEPT ![n] = [job[n] EXCEPT !.left = @ \ {d}, !.sent = s]]
    <3>1. CASE job' = [job EXCEPT ![n].left = @ \ {d}, ![n].sent = @ \cup {d}]
      BY <3>1, <2>1 DEF Job
    <3>2. CASE job' = [job EXCEPT ![n].left = @ \ {d}]
      <4>1. [job[n] EXCEPT !.left = @ \ {d}]
              = [job[n] EXCEPT !.left = @ \ {d}, !.sent = job[n].sent]
        BY <2>1 DEF Job
      <4> QED BY <3>2, <4>1, <2>1 DEF Job
    <3> QED BY <1>5, <3>1, <3>2 DEF Transmit
  <2>3. [job[n] EXCEPT !.left = @ \ {d}, !.sent = s] \in Job
    BY <2>1 DEF Job
  <2>4. /\ [job[n] EXCEPT !.left = @ \ {d}, !.sent = s].targets = job[n].targets
        /\ [job[n] EXCEPT !.left = @ \ {d}, !.sent = s].left = job[n].left \ {d}
        /\ [job[n] EXCEPT !.left = @ \ {d}, !.sent = s].seq = job[n].seq
    BY <2>1 DEF Job
  <2>5. job[n].seq \in SeqNo /\ d # n
        /\ job[n].succ \in MaybeNode /\ job[n].token \in MaybeToken
    BY <1>5, <2>1 DEF Transmit, TypeOK, NotSelf, Job
  <2>6. LET frame == Copy(n, d, job[n].seq, job[n].succ, job[n].token) IN
        frame \in Frame /\ frame.src = n /\ frame.dst = d
    BY <2>5, CopyType
  <2>7. net' \subseteq Frame /\ \A m \in net' : m.src # m.dst
    BY <1>5, <2>5, <2>6 DEF Transmit, TypeOK, NotSelf
  <2>8. /\ job' \in [Node -> Job]
        /\ \A i \in Node : i \notin job'[i].targets /\ i \notin job'[i].left
        /\ \A i \in Node : job'[i].seq = job[i].seq
    BY <2>2, <2>3, <2>4 DEF TypeOK, NotSelf
  <2> QED BY <1>5, <2>7, <2>8 DEF Transmit, TypeOK, NotSelf
<1>6. ASSUME NEW n \in Node, Finish(n) PROVE TypeInv'
  <2>1. job[n].token \in MaybeToken /\ NoJob \in Job
    BY DEF TypeOK, Job, NoJob, MaybeToken, MaybeNode
  <2>2. turn' \in [Node -> TurnState]
    <3>1. turn' = turn \/ turn' = [turn EXCEPT ![n].token = job[n].token]
      BY <1>6 DEF Finish
    <3> QED BY <3>1, <2>1 DEF TypeOK, TurnState
  <2>3. pending' \in [Node -> SUBSET Sample]
        /\ \A i \in Node : pending'[i] \subseteq pending[i]
    BY <1>6 DEF Finish, TypeOK
  <2>4. /\ job' \in [Node -> Job] /\ pc' \in [Node -> {"idle", "claimed", "sending"}]
        /\ \A i \in Node : i \notin job'[i].targets /\ i \notin job'[i].left
        /\ \A i \in Node : pc'[i] # "idle" => job'[i].seq \in SeqNo
    BY <1>6, <2>1 DEF Finish, TypeOK, NotSelf, NoJob
  <2> QED BY <1>6, <2>2, <2>3, <2>4 DEF Finish, TypeOK, NotSelf
<1>7. ASSUME NEW n \in Node, Repair(n) PROVE TypeInv'
  <2>0. PICK p \in pending[n] : \E d \in p.awaiting :
          /\ net' = net \cup {Copy(n, d, p.seq, p.succ, p.token)}
          /\ pending' = [pending EXCEPT ![n] =
                (@ \ {p}) \cup {[p EXCEPT !.channel = "blocked"]}]
    BY <1>7 DEF Repair
  <2>1. PICK d \in p.awaiting :
          /\ net' = net \cup {Copy(n, d, p.seq, p.succ, p.token)}
          /\ pending' = [pending EXCEPT ![n] =
                (@ \ {p}) \cup {[p EXCEPT !.channel = "blocked"]}]
    BY <2>0
  <2>2. p \in Sample /\ d \in Node /\ d # n
    BY DEF TypeOK, NotSelf, Sample
  <2>3. net' \subseteq Frame /\ \A m \in net' : m.src # m.dst
    BY <2>1, <2>2, CopyType DEF TypeOK, NotSelf, Sample
  <2>4. [p EXCEPT !.channel = "blocked"] \in Sample
        /\ [p EXCEPT !.channel = "blocked"].awaiting = p.awaiting
    BY <2>2 DEF Sample
  <2>5. pending' \in [Node -> SUBSET Sample]
        /\ \A i \in Node : \A r \in pending'[i] : i \notin r.awaiting
    BY <2>1, <2>4 DEF TypeOK, NotSelf
  <2> QED BY <1>7, <2>3, <2>5 DEF Repair, TypeOK, NotSelf
<1>8. ASSUME NEW n \in Node, QueryReceipt(n) PROVE TypeInv'
  BY <1>8 DEF QueryReceipt, Sample, Frame, Receipt, MaybeToken, TypeOK, NotSelf
<1>9. ASSUME NEW n \in Node, Retire(n) PROVE TypeInv'
  BY <1>9 DEF Retire, TypeOK, NotSelf
<1>10. ASSUME NEW n \in Node, Release(n) PROVE TypeInv'
  <2>1. PICK p \in pending[n] :
          pending' = [pending EXCEPT ![n] =
                (@ \ {p}) \cup {[p EXCEPT !.channel = "free"]}]
    BY <1>10 DEF Release
  <2>2. [p EXCEPT !.channel = "free"] \in Sample
        /\ [p EXCEPT !.channel = "free"].awaiting = p.awaiting
    BY DEF TypeOK, Sample
  <2>3. pending' \in [Node -> SUBSET Sample]
        /\ \A i \in Node : \A r \in pending'[i] : i \notin r.awaiting
    BY <2>1, <2>2 DEF TypeOK, NotSelf
  <2> QED BY <1>10, <2>3 DEF Release, TypeOK, NotSelf
<1>11. ASSUME NEW n \in Node, Deadline(n) PROVE TypeInv'
  BY <1>11 DEF Deadline, TypeOK, NotSelf, TurnState
<1>12. ASSUME NEW n \in Node, ForgetSeen(n) PROVE TypeInv'
  BY <1>12 DEF ForgetSeen, TypeOK, NotSelf
<1>13. ASSUME NEW m \in net, ReceiveData(m) PROVE TypeInv'
  <2>1. m.dst \in Node /\ m.src \in Node /\ m.src # m.dst /\ m.seq \in SeqNo
        /\ m.turn \in MaybeToken
    BY DEF TypeOK, NotSelf, Frame
  <2>2. view' \in [Node -> SUBSET Node] /\ \A n \in Node : n \notin view'[n]
    BY <1>13, <2>1 DEF ReceiveData, TypeOK
  <2>3. [token |-> m.turn, clock |-> "running"] \in TurnState
    BY <2>1 DEF TurnState
  <2>4. turn' \in [Node -> TurnState] /\ seen' \in [Node -> SUBSET (Node \X SeqNo)]
    BY <1>13, <2>1, <2>3 DEF ReceiveData, TypeOK
  <2>5. Receipt(m.dst, m.src, m.seq) \in Frame
        /\ Receipt(m.dst, m.src, m.seq).src = m.dst
        /\ Receipt(m.dst, m.src, m.seq).dst = m.src
    BY <2>1 DEF Receipt, Frame, MaybeToken
  <2>6. net' \subseteq Frame /\ \A k \in net' : k.src # k.dst
    BY <1>13, <2>1, <2>5 DEF ReceiveData, TypeOK, NotSelf
  <2> QED BY <1>13, <2>2, <2>4, <2>6 DEF ReceiveData, TypeOK, NotSelf
<1>14. ASSUME NEW m \in net, ReceiveAck(m) PROVE TypeInv'
  <2> DEFINE strip(p) == IF p.seq = m.seq
                         THEN [p EXCEPT !.awaiting = @ \ {m.src}] ELSE p
  <2>1. m.dst \in Node /\ m.src \in Node /\ m.src # m.dst
    BY DEF TypeOK, NotSelf, Frame
  <2>2. view' \in [Node -> SUBSET Node] /\ \A n \in Node : n \notin view'[n]
    BY <1>14, <2>1 DEF ReceiveAck, TypeOK
  <2>3. \A p \in Sample : strip(p) \in Sample /\ strip(p).awaiting \subseteq p.awaiting
    BY DEF Sample
  <2>4. pending' = [pending EXCEPT ![m.dst] = {strip(p) : p \in pending[m.dst]}]
    BY <1>14 DEF ReceiveAck
  <2> HIDE DEF strip
  <2>5. pending' \in [Node -> SUBSET Sample]
        /\ \A i \in Node : \A r \in pending'[i] : i \notin r.awaiting
    BY <2>1, <2>3, <2>4 DEF TypeOK, NotSelf
  <2> QED BY <1>14, <2>2, <2>5 DEF ReceiveAck, TypeOK, NotSelf
<1>15. ASSUME NEW m \in net, Lose(m) PROVE TypeInv'
  BY <1>15 DEF Lose, TypeOK, NotSelf
<1>16. ASSUME NEW n \in Node, ViewChange(n) PROVE TypeInv'
  BY <1>16 DEF ViewChange, TypeOK, NotSelf
<1>17. ASSUME NEW n \in Node, Reset(n) PROVE TypeInv'
  BY <1>17 DEF Reset, NoTurnState, TypeOK, NotSelf, TurnState, MaybeToken
<1>18. ASSUME NEW n \in Node, Restart(n) PROVE TypeInv'
  BY <1>18 DEF Restart, NoTurnState, NoJob, Job, TypeOK, NotSelf, TurnState, MaybeToken, MaybeNode
<1>19. ASSUME UNCHANGED vars PROVE TypeInv'
  BY <1>19 DEF vars, TypeOK, NotSelf
<1> QED
  BY <1>1, <1>2, <1>3, <1>4, <1>5, <1>6, <1>7, <1>8, <1>9, <1>10, <1>11,
     <1>12, <1>13, <1>14, <1>15, <1>16, <1>17, <1>18, <1>19
  DEF Next, Sender, Maintain, Receive

\* Every state of the ring is well formed.
THEOREM TypeCorrect == Spec => []TypeOK
<1>1. Spec => []TypeInv
  BY TypeInit, TypeNext, PTL DEF Spec
<1> QED BY <1>1, PTL DEF TypeInv

-----------------------------------------------------------------------------
(* A permission is never manufactured                                       *)

Sends(n, m) == m.kind = "data" /\ m.src = n

\* A number names one outstanding sample.
PendingNamed == \A n \in Node : \A p, r \in pending[n] : p.seq = r.seq => p = r

\* A claimed number is not in use, and an unsent one has left no trace.
ClaimFresh == \A n \in Node : \A p \in pending[n] :
                 pc[n] = "claimed" => p.seq # job[n].seq

NoTrace(n, q) == /\ \A m \in net : Sends(n, m) => m.seq # q
                 /\ \A d \in Node : <<n, q>> \notin seen[d]

Unsent == \A n \in Node :
             pc[n] = "claimed" \/ (pc[n] = "sending" /\ job[n].sent = {})
               => NoTrace(n, job[n].seq)

\* The sample of a send in progress is outstanding.
Registered == \A n \in Node : pc[n] = "sending" =>
                 \E p \in pending[n] : /\ p.seq = job[n].seq
                                       /\ p.token = job[n].token
                                       /\ p.succ = job[n].succ

\* A marked copy agrees with its sample; all marked copies have one destination.
Marked == \A m \in net : \A p \in pending[m.src] :
             m.kind = "data" /\ m.turn \in Token /\ p.seq = m.seq
               => p.succ = m.dst /\ p.token = m.turn

OneCopy == \A m, k \in net :
              /\ m.kind = "data" /\ m.turn \in Token
              /\ k.kind = "data" /\ k.turn \in Token
              /\ m.src = k.src /\ m.seq = k.seq
              => m.dst = k.dst

Books == PendingNamed /\ ClaimFresh /\ Unsent /\ Registered /\ Marked /\ OneCopy

Unique ==
    \A t \in Token :
        /\ \A n, m \in Node : Holds(n, t) /\ Holds(m, t) => n = m
        /\ \A n, s \in Node, q \in SeqNo : ~(Holds(n, t) /\ Handoff(s, q, t))
        /\ \A r, s \in Node, p, q \in SeqNo :
              Handoff(r, p, t) /\ Handoff(s, q, t) => r = s /\ p = q

TokenInv == ~forgot => Books /\ Unique

\* No permission exists before the first is minted.
LEMMA TokenInit == Init => TokenInv
<1> SUFFICES ASSUME Init PROVE Books /\ Unique
  BY DEF TokenInv
<1>1. \A n \in Node : /\ turn[n].token = NoToken /\ pc[n] = "idle"
                      /\ pending[n] = {} /\ net = {}
  BY DEF Init, NoTurnState
<1>2. Books
  BY <1>1 DEF Init, Books, PendingNamed, ClaimFresh, Unsent, Registered, Marked, OneCopy
<1>3. \A t \in Token : /\ \A n \in Node : ~Holds(n, t)
                       /\ \A s \in Node, q \in SeqNo : ~Handoff(s, q, t)
  BY <1>1, TokenAssumption DEF Init, Holds, Handoff
<1> QED BY <1>2, <1>3 DEF Unique

\* A step that creates neither a holder nor a handoff keeps permissions unique.
LEMMA NothingNew ==
    ASSUME Unique,
           \A n \in Node, t \in Token : Holds(n, t)' => Holds(n, t),
           \A s \in Node, q \in SeqNo, t \in Token : Handoff(s, q, t)' => Handoff(s, q, t)
    PROVE  Unique'
<1> HIDE DEF Holds, Handoff
<1> QED BY DEF Unique

\* Claiming an unused number leaves the books in order.
LEMMA ClaimBooks ==
    ASSUME TypeInv, Books, NEW n \in Node, NEW q \in SeqNo, NEW targets, NEW d, NEW t,
           Fresh(n, q), Claim(n, q, targets, d, t), UNCHANGED <<pending, seen, net>>
    PROVE  Books'
<1>1. /\ pc' = [pc EXCEPT ![n] = "claimed"]
      /\ \A i \in Node : i # n => job'[i] = job[i] /\ pc'[i] = pc[i]
      /\ job'[n].seq = q /\ pc'[n] = "claimed"
  BY DEF Claim, TypeInv, TypeOK
<1>2. NoTrace(n, q) /\ \A p \in pending[n] : p.seq # q
  BY DEF Fresh, NoTrace, Sends
<1> QED
  BY <1>1, <1>2
  DEF Books, PendingNamed, ClaimFresh, Unsent, Registered, Marked, OneCopy, NoTrace

\* Samples p and r agree on what the books look at.
SameSample(p, r) == p.seq = r.seq /\ p.succ = r.succ /\ p.token = r.token

\* A copy that an idle sender, such as Repair, makes of its own sample.
Backed(m) == /\ pc[m.src] = "idle"
             /\ \E p \in pending[m.src] :
                   /\ p.seq = m.seq
                   /\ m.turn \in Token => m.dst = p.succ /\ m.turn = p.token

\* A step that keeps the number, successor and permission of every sample, and
\* sends only copies of them from idle senders, leaves the books in order.
LEMMA SamplesBooks ==
    ASSUME TypeInv, TypeInv', Books, UNCHANGED <<pc, job, seen>>, PendingNamed',
           \A n \in Node : \A r \in pending'[n] : \E p \in pending[n] : SameSample(p, r),
           \A n \in Node : \A p \in pending[n] : \E r \in pending'[n] : SameSample(p, r),
           \A m \in net' : m.kind = "data" => m \in net \/ Backed(m)
    PROVE  Books'
<1> USE DEF Books, SameSample
<1>1. ClaimFresh'
  BY DEF ClaimFresh
<1>2. \A m \in net' : m \in Frame /\ m.src \in Node
  BY DEF TypeInv, TypeOK, Frame
<1>4. Unsent'
  BY <1>2 DEF Unsent, NoTrace, Sends, Backed
<1>5. Registered'
  BY DEF Registered
<1>6. \A m \in net' : m.kind = "data" /\ m.turn \in Token =>
        \A p \in pending[m.src] : p.seq = m.seq => p.succ = m.dst /\ p.token = m.turn
  BY <1>2 DEF Marked, PendingNamed, Backed
<1>7. Marked'
  BY <1>2, <1>6 DEF Marked
<1>8. OneCopy'
  BY <1>2, <1>6 DEF OneCopy, Backed
<1> QED BY <1>1, <1>4, <1>5, <1>7, <1>8

\* Every step keeps the books in order.
LEMMA BooksNext ==
    ASSUME TypeInv, TypeInv', Books, ~forgot', [Next]_vars
    PROVE  Books'
<1> USE DEF Books
<1>1. ASSUME NEW n \in Node, BeginTurn(n) PROVE Books'
  <2>1. PICK q \in SeqNo, d \in view[n], t \in Token, probe \in SUBSET Unheard(n) :
          Fresh(n, q) /\ Claim(n, q, view[n] \cup probe, d, t)
    BY <1>1 DEF BeginTurn
  <2> QED BY <1>1, <2>1, ClaimBooks DEF BeginTurn
<1>3. ASSUME NEW n \in Node, BeginProbe(n) PROVE Books'
  <2>1. PICK q \in SeqNo, d \in Unheard(n) : 
          Fresh(n, q) /\ Claim(n, q, {d}, NoNode, NoToken)
    BY <1>3 DEF BeginProbe
  <2> QED BY <1>3, <2>1, ClaimBooks DEF BeginProbe
<1>2. ASSUME NEW n \in Node, DenyTurn(n) PROVE Books'
  BY <1>2 DEF DenyTurn, PendingNamed, ClaimFresh, Unsent, Registered, Marked, OneCopy, NoTrace
<1>4. ASSUME NEW n \in Node, Commit(n) PROVE Books'
  <2> DEFINE sample == [seq |-> job[n].seq, succ |-> job[n].succ,
                token |-> job[n].token, targets |-> job[n].targets,
                awaiting |-> job[n].targets, channel |-> "blocked"]
  <2>1. /\ pending' = [pending EXCEPT ![n] = @ \cup {sample}]
        /\ pc' = [pc EXCEPT ![n] = "sending"]
        /\ pc[n] = "claimed" /\ UNCHANGED <<job, seen, net>>
    BY <1>4 DEF Commit
  <2>2. /\ sample.seq = job[n].seq /\ sample.succ = job[n].succ
        /\ sample.token = job[n].token
    OBVIOUS
  <2>3. \A p \in pending[n] : p.seq # sample.seq
    BY <2>1, <2>2 DEF ClaimFresh
  <2>4. \A m \in net : m.kind = "data" => m.src # n \/ m.seq # sample.seq
    BY <2>1, <2>2 DEF Unsent, NoTrace, Sends
  <2>5. pending'[n] = pending[n] \cup {sample} /\ pc'[n] = "sending"
        /\ \A i \in Node \ {n} : pending'[i] = pending[i] /\ pc'[i] = pc[i]
    BY <2>1 DEF TypeInv, TypeOK
  <2> HIDE DEF sample
  <2>6. PendingNamed' /\ ClaimFresh'
    BY <2>1, <2>3, <2>5 DEF PendingNamed, ClaimFresh
  <2>7. Unsent' /\ Registered'
    BY <2>1, <2>2, <2>5 DEF Unsent, Registered, NoTrace, Sends
  <2>8. Marked' /\ OneCopy'
    BY <2>1, <2>2, <2>4, <2>5 DEF Marked, OneCopy, TypeInv, TypeOK, Frame
  <2> QED BY <2>6, <2>7, <2>8
<1>5. ASSUME NEW n \in Node, NEW d \in Node, Transmit(n, d) PROVE Books'
  <2> DEFINE frame == Copy(n, d, job[n].seq, job[n].succ, job[n].token)
  <2>1. /\ pc[n] = "sending" /\ UNCHANGED <<pc, pending, seen>>
        /\ \/ net' = net /\ job'[n].sent = job[n].sent
           \/ net' = net \cup {frame} /\ job'[n].sent # {}
        /\ \A i \in Node : /\ job'[i].seq = job[i].seq
                           /\ job'[i].token = job[i].token
                           /\ job'[i].succ = job[i].succ
                           /\ i # n => job'[i] = job[i]
    <3>1. job[n] \in Job /\ job \in [Node -> Job]
      BY DEF TypeInv, TypeOK
    <3>2. CASE /\ net' = net \cup {frame}
               /\ job' = [job EXCEPT ![n].left = @ \ {d}, ![n].sent = @ \cup {d}]
      BY <1>5, <3>1, <3>2 DEF Transmit, Job
    <3>3. CASE net' = net /\ job' = [job EXCEPT ![n].left = @ \ {d}]
      BY <1>5, <3>1, <3>3 DEF Transmit, Job
    <3> QED BY <1>5, <3>2, <3>3 DEF Transmit
  <2>2. /\ frame.src = n /\ frame.seq = job[n].seq
        /\ frame.turn \in Token => frame.dst = job[n].succ /\ frame.turn = job[n].token
    BY TokenAssumption DEF Copy, Data
  <2>3. PICK p \in pending[n] : /\ p.seq = job[n].seq /\ p.token = job[n].token
                                /\ p.succ = job[n].succ
    BY <2>1 DEF Registered
  <2> HIDE DEF frame
  <2>4. PendingNamed' /\ ClaimFresh' /\ Registered'
    BY <2>1 DEF PendingNamed, ClaimFresh, Registered
  <2>5. Unsent'
    BY <2>1, <2>2 DEF Unsent, NoTrace, Sends
  <2>6. Marked' /\ OneCopy'
    BY <2>1, <2>2, <2>3 DEF PendingNamed, Marked, OneCopy
  <2> QED BY <2>4, <2>5, <2>6
<1>6. ASSUME NEW n \in Node, Finish(n) PROVE Books'
  <2>1. /\ \A i \in Node : pending'[i] \subseteq pending[i]
        /\ \A i \in Node \ {n} : pending'[i] = pending[i] /\ pc'[i] = pc[i] /\ job'[i] = job[i]
        /\ pc'[n] = "idle" /\ UNCHANGED <<seen, net>>
    BY <1>6 DEF Finish, TypeInv, TypeOK
  <2>2. PendingNamed' /\ ClaimFresh'
    BY <2>1 DEF PendingNamed, ClaimFresh
  <2>3. Unsent' /\ Registered'
    BY <2>1 DEF Unsent, Registered, NoTrace
  <2>4. Marked' /\ OneCopy'
    BY <2>1 DEF Marked, OneCopy, TypeInv, TypeOK, Frame
  <2> QED BY <2>2, <2>3, <2>4
<1>7. ASSUME NEW n \in Node, Repair(n) PROVE Books'
  <2>1. PICK p \in pending[n] : \E d \in p.awaiting :
          /\ net' = net \cup {Copy(n, d, p.seq, p.succ, p.token)}
          /\ pending' = [pending EXCEPT ![n] =
                (@ \ {p}) \cup {[p EXCEPT !.channel = "blocked"]}]
    BY <1>7 DEF Repair
  <2>2. p \in Sample /\ SameSample(p, [p EXCEPT !.channel = "blocked"])
    BY DEF SameSample, Sample, TypeInv, TypeOK
  <2>3. \A m \in net' : m \in net \/ Backed(m)
    BY <1>7, <2>1, TokenAssumption DEF Repair, Backed, Copy, Data
  <2>4. /\ pending'[n] = (pending[n] \ {p}) \cup {[p EXCEPT !.channel = "blocked"]}
        /\ \A i \in Node \ {n} : pending'[i] = pending[i]
    BY <2>1 DEF TypeInv, TypeOK
  <2> DEFINE r == [p EXCEPT !.channel = "blocked"]
  <2>5. PendingNamed'
    <3>1. r.seq = p.seq /\ pending'[n] = (pending[n] \ {p}) \cup {r}
      BY <2>2, <2>4 DEF SameSample
    <3> HIDE DEF r
    <3>2. \A x, y \in pending'[n] : x.seq = y.seq => x = y
      BY <3>1 DEF PendingNamed
    <3> QED BY <3>2, <2>4 DEF PendingNamed
  <2>6. /\ \A i \in Node : \A x \in pending'[i] : \E y \in pending[i] : SameSample(y, x)
        /\ \A i \in Node : \A y \in pending[i] : \E x \in pending'[i] : SameSample(y, x)
    BY <2>2, <2>4 DEF SameSample, r
  <2> QED BY <1>7, <2>3, <2>5, <2>6, SamplesBooks DEF Repair
<1>8. ASSUME NEW n \in Node, QueryReceipt(n) PROVE Books'
  BY <1>8 DEF QueryReceipt, PendingNamed, ClaimFresh, Unsent, Registered, Marked, OneCopy, NoTrace, Sends, Receipt
<1>9. ASSUME NEW n \in Node, Retire(n) PROVE Books'
  BY <1>9 DEF Retire, PendingNamed, ClaimFresh, Unsent, Registered, Marked, OneCopy, NoTrace, TypeInv, TypeOK
<1>10. ASSUME NEW n \in Node, Release(n) PROVE Books'
  <2>1. PICK p \in pending[n] :
          pending' = [pending EXCEPT ![n] =
                (@ \ {p}) \cup {[p EXCEPT !.channel = "free"]}]
    BY <1>10 DEF Release
  <2>2. p \in Sample /\ SameSample(p, [p EXCEPT !.channel = "free"])
    BY DEF SameSample, Sample, TypeInv, TypeOK
  <2>3. /\ pending'[n] = (pending[n] \ {p}) \cup {[p EXCEPT !.channel = "free"]}
        /\ \A i \in Node \ {n} : pending'[i] = pending[i]
    BY <2>1 DEF TypeInv, TypeOK
  <2> DEFINE r == [p EXCEPT !.channel = "free"]
  <2>5. PendingNamed'
    <3>1. r.seq = p.seq /\ pending'[n] = (pending[n] \ {p}) \cup {r}
      BY <2>2, <2>3 DEF SameSample
    <3> HIDE DEF r
    <3>2. \A x, y \in pending'[n] : x.seq = y.seq => x = y
      BY <3>1 DEF PendingNamed
    <3> QED BY <3>2, <2>3 DEF PendingNamed
  <2>6. /\ \A i \in Node : \A x \in pending'[i] : \E y \in pending[i] : SameSample(y, x)
        /\ \A i \in Node : \A y \in pending[i] : \E x \in pending'[i] : SameSample(y, x)
    BY <2>2, <2>3 DEF SameSample, r
  <2> QED BY <1>10, <2>5, <2>6, SamplesBooks DEF Release
<1>11. ASSUME NEW n \in Node, Deadline(n) PROVE Books'
  BY <1>11 DEF Deadline, PendingNamed, ClaimFresh, Unsent, Registered, Marked, OneCopy, NoTrace
<1>12. ASSUME NEW n \in Node, ForgetSeen(n) PROVE Books'
  BY <1>12 DEF ForgetSeen, PendingNamed, ClaimFresh, Unsent, Registered, Marked, OneCopy, NoTrace, TypeInv, TypeOK
<1>13. ASSUME NEW m \in net, ReceiveData(m) PROVE Books'
  <2>1. /\ UNCHANGED <<pc, job, pending>>
        /\ \A k \in net' : k.kind = "data" => k \in net
    BY <1>13 DEF ReceiveData, Receipt
  <2>2. m.kind = "data" /\ m \in net /\ m.dst \in Node
    BY <1>13 DEF ReceiveData, TypeInv, TypeOK, Frame
  <2>3. \A i \in Node : seen'[i] \subseteq seen[i] \cup {<<m.src, m.seq>>}
    BY <1>13, <2>2 DEF ReceiveData, TypeInv, TypeOK
  <2>4. \A i \in Node : \A q : NoTrace(i, q) => NoTrace(i, q)'
    BY <2>1, <2>2, <2>3 DEF NoTrace, Sends
  <2> QED
    BY <2>1, <2>4 DEF PendingNamed, ClaimFresh, Unsent, Registered, Marked, OneCopy
<1>14. ASSUME NEW m \in net, ReceiveAck(m) PROVE Books'
  <2> DEFINE strip(p) == IF p.seq = m.seq
                         THEN [p EXCEPT !.awaiting = @ \ {m.src}] ELSE p
  <2>1. pending' = [pending EXCEPT ![m.dst] = {strip(p) : p \in pending[m.dst]}]
    BY <1>14 DEF ReceiveAck
  <2>2. \A p \in Sample : SameSample(p, strip(p))
    BY DEF SameSample, Sample
  <2>3. m.dst \in Node /\ \A i \in Node : pending[i] \subseteq Sample
    BY DEF TypeInv, TypeOK, Frame
  <2> HIDE DEF strip
  <2>4. /\ pending'[m.dst] = {strip(p) : p \in pending[m.dst]}
        /\ \A i \in Node \ {m.dst} : pending'[i] = pending[i]
    BY <2>1, <2>3 DEF TypeInv, TypeOK
  <2>5. /\ \A i \in Node : \A r \in pending'[i] : \E p \in pending[i] : SameSample(p, r)
        /\ \A i \in Node : \A p \in pending[i] : \E r \in pending'[i] : SameSample(p, r)
    BY <2>2, <2>3, <2>4 DEF SameSample
  <2>6. PendingNamed'
    BY <2>2, <2>3, <2>4 DEF PendingNamed, SameSample
  <2> QED BY <1>14, <2>5, <2>6, SamplesBooks DEF ReceiveAck
<1>15. ASSUME NEW m \in net, Lose(m) PROVE Books'
  BY <1>15 DEF Lose, PendingNamed, ClaimFresh, Unsent, Registered, Marked, OneCopy, NoTrace, Sends
<1>16. ASSUME NEW n \in Node, ViewChange(n) PROVE Books'
  BY <1>16 DEF ViewChange, PendingNamed, ClaimFresh, Unsent, Registered, Marked, OneCopy, NoTrace
<1>17. ASSUME NEW n \in Node, Reset(n) PROVE Books'
  BY <1>17 DEF Reset
<1>18. ASSUME NEW n \in Node, Restart(n) PROVE Books'
  BY <1>18 DEF Restart
<1>19. ASSUME UNCHANGED vars PROVE Books'
  BY <1>19 DEF vars, PendingNamed, ClaimFresh, Unsent, Registered, Marked, OneCopy, NoTrace
<1> QED
  BY <1>1, <1>2, <1>3, <1>4, <1>5, <1>6, <1>7, <1>8, <1>9, <1>10, <1>11,
     <1>12, <1>13, <1>14, <1>15, <1>16, <1>17, <1>18, <1>19
  DEF Next, Sender, Maintain, Receive

\* Frame m is a copy of an outstanding sample of its source.
CopyOfSample(m) == \E p \in pending[m.src] :
                      /\ p.seq = m.seq
                      /\ m.turn \in Token => m.dst = p.succ /\ m.turn = p.token

\* A step that keeps every sample's name, successor and permission, forgets no
\* delivery, and sends only copies of outstanding samples creates no handoff.
LEMMA NoNewHandoff ==
    ASSUME TypeInv, TypeInv',
           \A n \in Node : \A r \in pending'[n] : \E p \in pending[n] : SameSample(p, r),
           \A n \in Node : seen[n] \subseteq seen'[n],
           \A m \in net' : m.kind = "data" => m \in net \/ CopyOfSample(m)
    PROVE  \A s \in Node, q \in SeqNo, t \in Token : Handoff(s, q, t)' => Handoff(s, q, t)
<1> SUFFICES ASSUME NEW s \in Node, NEW q \in SeqNo, NEW t \in Token, Handoff(s, q, t)'
             PROVE  Handoff(s, q, t)
  OBVIOUS
<1>1. CASE \E r \in pending'[s] :
             r.seq = q /\ r.token = t /\ r.succ \in Node /\ <<s, q>> \notin seen'[r.succ]
  BY <1>1 DEF Handoff, SameSample
<1>2. CASE \E m \in net' : /\ m.kind = "data" /\ m.src = s /\ m.seq = q /\ m.turn = t
                          /\ <<s, q>> \notin seen'[m.dst]
  <2>1. PICK m \in net' : /\ m.kind = "data" /\ m.src = s /\ m.seq = q /\ m.turn = t
                          /\ <<s, q>> \notin seen'[m.dst]
    BY <1>2
  <2>2. m.dst \in Node /\ <<s, q>> \notin seen[m.dst]
    BY <2>1 DEF TypeInv, TypeOK, Frame
  <2> QED BY <2>1, <2>2 DEF Handoff, CopyOfSample
<1> QED BY <1>1, <1>2 DEF Handoff

\* A step that moves one permission to one place keeps permissions unique.
LEMMA OneMoves ==
    ASSUME Unique, NEW t \in Token,
           \A u \in Token \ {t} :
              /\ \A n \in Node : Holds(n, u)' => Holds(n, u)
              /\ \A s \in Node, q \in SeqNo : Handoff(s, q, u)' => Handoff(s, q, u),
           \/ /\ \E h \in Node : \A n \in Node : Holds(n, t)' => n = h
              /\ \A s \in Node, q \in SeqNo : ~Handoff(s, q, t)'
           \/ /\ \A n \in Node : ~Holds(n, t)'
              /\ \E s0 \in Node, q0 \in SeqNo : \A s \in Node, q \in SeqNo :
                    Handoff(s, q, t)' => s = s0 /\ q = q0
    PROVE  Unique'
<1>1. ASSUME NEW u \in Token \ {t}
      PROVE  /\ \A n, m \in Node : Holds(n, u)' /\ Holds(m, u)' => n = m
             /\ \A n, s \in Node, q \in SeqNo : ~(Holds(n, u)' /\ Handoff(s, q, u)')
             /\ \A r, s \in Node, p, q \in SeqNo :
                   Handoff(r, p, u)' /\ Handoff(s, q, u)' => r = s /\ p = q
  BY DEF Unique
<1>2. /\ \A n, m \in Node : Holds(n, t)' /\ Holds(m, t)' => n = m
      /\ \A n, s \in Node, q \in SeqNo : ~(Holds(n, t)' /\ Handoff(s, q, t)')
      /\ \A r, s \in Node, p, q \in SeqNo :
            Handoff(r, p, t)' /\ Handoff(s, q, t)' => r = s /\ p = q
  OBVIOUS
<1> QED BY <1>1, <1>2 DEF Unique

\* Every step keeps permissions unique.
LEMMA UniqueNext ==
    ASSUME TypeInv, TypeInv', Books, Unique, ~forgot', [Next]_vars
    PROVE  Unique'
<1>1. ASSUME NEW n \in Node, BeginTurn(n) PROVE Unique'
  <2>1. PICK t \in Token :
          /\ \/ turn[n].token = t
             \/ ~Live(t)
          /\ turn'[n].token = t /\ job'[n].token = t
          /\ \A i \in Node \ {n} : turn'[i] = turn[i] /\ job'[i] = job[i] /\ pc'[i] = pc[i]
    BY <1>1 DEF BeginTurn, Claim, TypeInv, TypeOK
  <2>2. \A s \in Node, q \in SeqNo, u \in Token : Handoff(s, q, u)' <=> Handoff(s, q, u)
    BY <1>1 DEF BeginTurn, Handoff
  <2>3. \A i \in Node, u \in Token : Holds(i, u)' => Holds(i, u) \/ (i = n /\ u = t)
    BY <2>1 DEF Holds
  <2>4. \/ Holds(n, t)
        \/ /\ \A i \in Node : ~Holds(i, t)
           /\ \A s \in Node, q \in SeqNo : ~Handoff(s, q, t)
    BY <2>1 DEF Holds, Live
  <2>5. /\ \A i \in Node : Holds(i, t)' => i = n
        /\ \A s \in Node, q \in SeqNo : ~Handoff(s, q, t)'
    BY <2>2, <2>3, <2>4 DEF Unique
  <2> QED BY <2>2, <2>3, <2>5, OneMoves
<1>2. ASSUME NEW n \in Node, DenyTurn(n) PROVE Unique'
  <2>1. \A i \in Node : turn'[i].token = turn[i].token
    BY <1>2 DEF DenyTurn, TypeInv, TypeOK, TurnState
  <2> QED BY <1>2, <2>1, NothingNew DEF DenyTurn, Holds, Handoff
<1>3. ASSUME NEW n \in Node, BeginProbe(n) PROVE Unique'
  <2>1. job'[n].token = NoToken /\ \A i \in Node \ {n} : job'[i] = job[i] /\ pc'[i] = pc[i]
    BY <1>3 DEF BeginProbe, Claim, TypeInv, TypeOK
  <2> QED BY <1>3, <2>1, NothingNew, TokenAssumption DEF BeginProbe, Holds, Handoff
<1>4. ASSUME NEW n \in Node, Commit(n) PROVE Unique'
  <2> DEFINE sample == [seq |-> job[n].seq, succ |-> job[n].succ,
                token |-> job[n].token, targets |-> job[n].targets,
                awaiting |-> job[n].targets, channel |-> "blocked"]
  <2>1. /\ pending'[n] = pending[n] \cup {sample} /\ pc[n] = "claimed" /\ pc'[n] = "sending"
        /\ \A i \in Node \ {n} : pending'[i] = pending[i] /\ pc'[i] = pc[i] /\ turn'[i] = turn[i]
        /\ \/ job[n].succ = NoNode /\ turn' = turn
           \/ job[n].succ # NoNode /\ turn'[n].token = NoToken
        /\ UNCHANGED <<seen, net, job>>
    BY <1>4 DEF Commit, TypeInv, TypeOK
  <2>2. /\ sample.seq = job[n].seq /\ sample.succ = job[n].succ
        /\ sample.token = job[n].token
    OBVIOUS
  <2>3. job[n].seq \in SeqNo /\ job[n].token \in MaybeToken /\ NoNode \notin Node
    BY <2>1, NodeAssumption DEF TypeInv, TypeOK, NotSelf, Job, NoNode
  <2> HIDE DEF sample
  <2>4. \A s \in Node, q \in SeqNo, u \in Token :
          Handoff(s, q, u)' => \/ Handoff(s, q, u)
                               \/ /\ s = n /\ q = job[n].seq /\ u = job[n].token
                                  /\ job[n].succ \in Node
    BY <2>1, <2>2 DEF Handoff
  <2>5. \A i \in Node, u \in Token : Holds(i, u)' => Holds(i, u)
    BY <2>1, TokenAssumption DEF Holds
  <2>6. CASE job[n].succ = NoNode \/ job[n].token = NoToken
    BY <2>3, <2>4, <2>5, <2>6, NothingNew, TokenAssumption
  <2>7. CASE job[n].succ # NoNode /\ job[n].token # NoToken
    <3>1. PICK t \in Token : t = job[n].token
      BY <2>3, <2>7 DEF MaybeToken
    <3>2. Holds(n, t) /\ ~Holds(n, t)'
      BY <2>1, <2>7, <3>1, TokenAssumption DEF Holds
    <3>3. /\ \A i \in Node : ~Holds(i, t)'
          /\ \A s \in Node, q \in SeqNo : Handoff(s, q, t)' => s = n /\ q = job[n].seq
      BY <2>4, <2>5, <3>2 DEF Unique
    <3>4. \A u \in Token \ {t} :
              /\ \A i \in Node : Holds(i, u)' => Holds(i, u)
              /\ \A s \in Node, q \in SeqNo : Handoff(s, q, u)' => Handoff(s, q, u)
      BY <2>4, <2>5, <3>1
    <3> QED BY <2>3, <3>3, <3>4, OneMoves
  <2> QED BY <2>6, <2>7
<1>5. ASSUME NEW n \in Node, NEW d \in Node, Transmit(n, d) PROVE Unique'
  <2>1. /\ pc[n] = "sending" /\ UNCHANGED <<turn, pc, pending, seen>>
        /\ net' \subseteq net \cup {Copy(n, d, job[n].seq, job[n].succ, job[n].token)}
        /\ \A i \in Node \ {n} : job'[i] = job[i]
    BY <1>5 DEF Transmit, TypeInv, TypeOK
  <2>2. \A m \in net' : m \in net \/ CopyOfSample(m)
    BY <2>1, TokenAssumption DEF Registered, Books, CopyOfSample, Copy, Data
  <2>3. \A s \in Node, q \in SeqNo, t \in Token : Handoff(s, q, t)' => Handoff(s, q, t)
    BY <2>1, <2>2, NoNewHandoff DEF SameSample
  <2> QED BY <2>1, <2>3, NothingNew DEF Holds
<1>6. ASSUME NEW n \in Node, Finish(n) PROVE Unique'
  <2>1. /\ \A i \in Node : pending'[i] \subseteq pending[i]
        /\ \A i \in Node \ {n} : turn'[i] = turn[i] /\ pc'[i] = pc[i] /\ job'[i] = job[i]
        /\ pc[n] = "sending" /\ pc'[n] = "idle" /\ UNCHANGED <<seen, net>>
    BY <1>6 DEF Finish, TypeInv, TypeOK
  <2>2. \A s \in Node, q \in SeqNo, t \in Token : Handoff(s, q, t)' => Handoff(s, q, t)
    BY <2>1, NoNewHandoff DEF SameSample
  <2>3. CASE turn' = turn
    BY <2>1, <2>2, <2>3, NothingNew DEF Holds
  <2>4. CASE turn' # turn
    <3>1. /\ job[n].sent = {} /\ job[n].succ # NoNode
          /\ pending'[n] = {p \in pending[n] : p.seq # job[n].seq}
          /\ turn'[n].token = job[n].token
      BY <1>6, <2>4 DEF Finish, TypeInv, TypeOK, TurnState
    <3>2. /\ job[n].succ \in Node /\ job[n].seq \in SeqNo /\ job[n].token \in MaybeToken
      BY <2>1, <3>1 DEF TypeInv, TypeOK, NotSelf, Job, MaybeNode
    <3>3. NoTrace(n, job[n].seq)
      BY <2>1, <3>1 DEF Books, Unsent
    <3>6. \A i \in Node, u \in Token : Holds(i, u)' =>
              Holds(i, u) \/ (i = n /\ u = job[n].token)
      BY <2>1, <3>1 DEF Holds
    <3>7. CASE job[n].token = NoToken
      BY <2>2, <3>6, <3>7, NothingNew, TokenAssumption
    <3>8. CASE job[n].token \in Token
      <4>1. PICK t \in Token, q \in SeqNo : t = job[n].token /\ q = job[n].seq
        BY <3>2, <3>8
      <4>2. Handoff(n, q, t)
        BY <2>1, <3>2, <3>3, <4>1 DEF Books, Registered, Handoff, NoTrace
      <4>3. ~Handoff(n, q, t)'
        BY <2>1, <3>1, <3>3, <4>1 DEF Handoff, NoTrace, Sends
      <4>4. /\ \A i \in Node : Holds(i, t)' => i = n
            /\ \A s \in Node, r \in SeqNo : ~Handoff(s, r, t)'
        BY <2>2, <3>6, <4>2, <4>3 DEF Unique
      <4> QED BY <2>2, <3>6, <4>1, <4>4, OneMoves
    <3> QED BY <3>2, <3>7, <3>8 DEF MaybeToken
  <2> QED BY <2>3, <2>4
<1>7. ASSUME NEW n \in Node, Repair(n) PROVE Unique'
  <2>1. PICK p \in pending[n] : \E d \in p.awaiting :
          /\ net' = net \cup {Copy(n, d, p.seq, p.succ, p.token)}
          /\ pending' = [pending EXCEPT ![n] =
                (@ \ {p}) \cup {[p EXCEPT !.channel = "blocked"]}]
    BY <1>7 DEF Repair
  <2>2. SameSample(p, [p EXCEPT !.channel = "blocked"])
    BY DEF SameSample, Sample, TypeInv, TypeOK
  <2>3. \A m \in net' : m \in net \/ CopyOfSample(m)
    BY <2>1, TokenAssumption DEF CopyOfSample, Copy, Data
  <2>4. \A i \in Node : \A r \in pending'[i] : \E y \in pending[i] : SameSample(y, r)
    <3>1. /\ pending'[n] = (pending[n] \ {p}) \cup {[p EXCEPT !.channel = "blocked"]}
          /\ \A i \in Node \ {n} : pending'[i] = pending[i]
      BY <2>1 DEF TypeInv, TypeOK
    <3> QED BY <2>2, <3>1 DEF SameSample
  <2>5. \A s \in Node, q \in SeqNo, t \in Token : Handoff(s, q, t)' => Handoff(s, q, t)
    BY <1>7, <2>3, <2>4, NoNewHandoff DEF Repair
  <2> QED BY <1>7, <2>5, NothingNew DEF Repair, Holds
<1>8. ASSUME NEW n \in Node, QueryReceipt(n) PROVE Unique'
  BY <1>8, NothingNew, NoNewHandoff DEF QueryReceipt, Holds, SameSample, Receipt
<1>9. ASSUME NEW n \in Node, Retire(n) PROVE Unique'
  BY <1>9, NothingNew, NoNewHandoff DEF Retire, Holds, SameSample, TypeInv, TypeOK
<1>10. ASSUME NEW n \in Node, Release(n) PROVE Unique'
  <2>1. PICK p \in pending[n] :
          pending' = [pending EXCEPT ![n] =
                (@ \ {p}) \cup {[p EXCEPT !.channel = "free"]}]
    BY <1>10 DEF Release
  <2>2. SameSample(p, [p EXCEPT !.channel = "free"])
    BY DEF SameSample, Sample, TypeInv, TypeOK
  <2>3. \A i \in Node : \A r \in pending'[i] : \E y \in pending[i] : SameSample(y, r)
    BY <2>1, <2>2 DEF SameSample, TypeInv, TypeOK
  <2>4. \A s \in Node, q \in SeqNo, t \in Token : Handoff(s, q, t)' => Handoff(s, q, t)
    BY <1>10, <2>3, NoNewHandoff DEF Release
  <2> QED BY <1>10, <2>4, NothingNew DEF Release, Holds
<1>11. ASSUME NEW n \in Node, Deadline(n) PROVE Unique'
  <2>1. \A i \in Node : turn'[i].token = turn[i].token
    BY <1>11 DEF Deadline, TypeInv, TypeOK, TurnState
  <2> QED BY <1>11, <2>1, NothingNew DEF Deadline, Holds, Handoff
<1>12. ASSUME NEW n \in Node, ForgetSeen(n) PROVE Unique'
  <2>1. PICK e \in seen[n] :
          /\ \A p \in pending[e[1]] : p.seq # e[2]
          /\ \A m \in net : ~(m.src = e[1] /\ m.dst = n /\ m.seq = e[2])
          /\ seen' = [seen EXCEPT ![n] = @ \ {e}]
    BY <1>12 DEF ForgetSeen
  <2>2. e = <<e[1], e[2]>>
    BY DEF TypeInv, TypeOK
  <2>3. \A s \in Node, q \in SeqNo, t \in Token : Handoff(s, q, t)' => Handoff(s, q, t)
    BY <1>12, <2>1, <2>2 DEF ForgetSeen, Handoff, TypeInv, TypeOK
  <2> QED BY <1>12, <2>3, NothingNew DEF ForgetSeen, Holds
<1>13. ASSUME NEW m \in net, ReceiveData(m) PROVE Unique'
  <2>1. /\ m.dst \in Node /\ m.src \in Node /\ m.seq \in SeqNo /\ m.turn \in MaybeToken
        /\ m.kind = "data" /\ UNCHANGED <<pc, job, pending>>
        /\ \A k \in net' : k.kind = "data" => k \in net
        /\ \A i \in Node : seen[i] \subseteq seen'[i]
    BY <1>13 DEF ReceiveData, Receipt, TypeInv, TypeOK, Frame
  <2>2. \A s \in Node, q \in SeqNo, t \in Token : Handoff(s, q, t)' => Handoff(s, q, t)
    BY <2>1, NoNewHandoff DEF SameSample
  <2>3. CASE turn' = turn
    BY <2>1, <2>2, <2>3, NothingNew DEF Holds
  <2>4. CASE turn' # turn
    <3>1. /\ <<m.src, m.seq>> \notin seen[m.dst] /\ <<m.src, m.seq>> \in seen'[m.dst]
          /\ turn'[m.dst].token = m.turn
          /\ \A i \in Node \ {m.dst} : turn'[i] = turn[i]
      BY <1>13, <2>1, <2>4 DEF ReceiveData, TypeInv, TypeOK
    <3>2. \A i \in Node, u \in Token : Holds(i, u)' =>
              Holds(i, u) \/ (i = m.dst /\ u = m.turn)
      BY <2>1, <3>1 DEF Holds
    <3>3. CASE m.turn = NoToken
      BY <2>2, <3>2, <3>3, NothingNew, TokenAssumption
    <3>4. CASE m.turn \in Token
      <4>1. Handoff(m.src, m.seq, m.turn)
        BY <2>1, <3>1 DEF Handoff
      <4>2. \A p \in pending[m.src] : p.seq = m.seq => p.succ = m.dst
        BY <2>1, <3>4 DEF Books, Marked
      <4>3. \A k \in net' : k.kind = "data" /\ k.src = m.src /\ k.seq = m.seq
                               /\ k.turn = m.turn => k.dst = m.dst
        BY <2>1, <3>4 DEF Books, OneCopy
      <4>4. ~Handoff(m.src, m.seq, m.turn)'
        BY <2>1, <3>1, <4>2, <4>3 DEF Handoff
      <4>5. /\ \A i \in Node : Holds(i, m.turn)' => i = m.dst
            /\ \A s \in Node, q \in SeqNo : ~Handoff(s, q, m.turn)'
        BY <2>1, <2>2, <3>2, <3>4, <4>1, <4>4 DEF Unique
      <4> QED BY <2>1, <2>2, <3>2, <3>4, <4>5, OneMoves
    <3> QED BY <2>1, <3>3, <3>4 DEF MaybeToken
  <2> QED BY <2>3, <2>4
<1>14. ASSUME NEW m \in net, ReceiveAck(m) PROVE Unique'
  <2> DEFINE strip(p) == IF p.seq = m.seq
                         THEN [p EXCEPT !.awaiting = @ \ {m.src}] ELSE p
  <2>1. pending' = [pending EXCEPT ![m.dst] = {strip(p) : p \in pending[m.dst]}]
    BY <1>14 DEF ReceiveAck
  <2>2. \A p \in Sample : SameSample(p, strip(p))
    BY DEF SameSample, Sample
  <2> HIDE DEF strip
  <2>3. \A i \in Node : \A r \in pending'[i] : \E y \in pending[i] : SameSample(y, r)
    BY <2>1, <2>2 DEF SameSample, TypeInv, TypeOK
  <2>4. \A s \in Node, q \in SeqNo, t \in Token : Handoff(s, q, t)' => Handoff(s, q, t)
    BY <1>14, <2>3, NoNewHandoff DEF ReceiveAck
  <2> QED BY <1>14, <2>4, NothingNew DEF ReceiveAck, Holds
<1>15. ASSUME NEW m \in net, Lose(m) PROVE Unique'
  BY <1>15, NothingNew, NoNewHandoff DEF Lose, Holds, SameSample
<1>16. ASSUME NEW n \in Node, ViewChange(n) PROVE Unique'
  BY <1>16, NothingNew DEF ViewChange, Holds, Handoff
<1>17. ASSUME NEW n \in Node, Reset(n) PROVE Unique'
  BY <1>17 DEF Reset
<1>18. ASSUME NEW n \in Node, Restart(n) PROVE Unique'
  BY <1>18 DEF Restart
<1>19. ASSUME UNCHANGED vars PROVE Unique'
  BY <1>19, NothingNew DEF vars, Holds, Handoff
<1> QED
  BY <1>1, <1>2, <1>3, <1>4, <1>5, <1>6, <1>7, <1>8, <1>9, <1>10, <1>11,
     <1>12, <1>13, <1>14, <1>15, <1>16, <1>17, <1>18, <1>19
  DEF Next, Sender, Maintain, Receive

\* Every step keeps the books in order and permissions unique.
LEMMA TokenNext == TypeInv /\ TokenInv /\ [Next]_vars => TokenInv'
<1> SUFFICES ASSUME TypeInv, TokenInv, [Next]_vars, ~forgot' PROVE Books' /\ Unique'
  BY DEF TokenInv
<1>1. ~forgot
  BY DEF Next, vars, Sender, Maintain, Receive, BeginTurn, DenyTurn, BeginProbe,
         Commit, Transmit, Finish, Repair, QueryReceipt, Retire, Release, Deadline,
         ForgetSeen, ReceiveData, ReceiveAck, Lose, ViewChange, Reset, Restart
<1>2. TypeInv'
  BY TypeNext
<1> QED BY <1>1, <1>2, BooksNext, UniqueNext DEF TokenInv

\* However frames are lost, repaired, duplicated or delayed and however the
\* views change, no permission is ever manufactured.
THEOREM TurnNotManufactured == Spec => []TokenUnique
<1>1. TypeInv /\ TokenInv => TokenUnique
  BY DEF TokenInv, Unique, TokenUnique
<1> QED
  BY <1>1, TypeInit, TypeNext, TokenInit, TokenNext, PTL DEF Spec

-----------------------------------------------------------------------------
(* A stable group has one owner                                             *)

\* Nothing is forgotten, and each member knows all others.
Stable == ~forgot /\ \A n \in Node : view[n] = Node \ {n}

\* Who sends is an exporter, and gives a permission when it has a successor.
Senders == \A n \in Node : pc[n] # "idle" =>
              n \in Exporter /\ (job[n].succ # NoNode => job[n].token \in Token)

\* A permission is minted when none is held or on its way.
Quiet == \A n \in Node : MayMint(n) => \A t \in Token : ~Moving(t)

OneMoving == \A t, u \in Token : Moving(t) /\ Moving(u) => t = u

OwnerInv == Stable /\ Senders /\ (~hasty => Quiet /\ OneMoving)

\* No permission starts to move.
Conserved == \A t \in Token : Moving(t)' => Moving(t)

\* A step that creates neither a holder among exporters nor a handoff.
LEMMA ConservedBy ==
    ASSUME \A n \in Exporter, t \in Token : Holds(n, t)' => Moving(t),
           \A s \in Node, q \in SeqNo, t \in Token : Handoff(s, q, t)' => Moving(t)
    PROVE  Conserved
  BY DEF Conserved, Moving

\* The usual step: it leaves the turns and jobs of all nodes as they are.
LEMMA ConservedSamples ==
    ASSUME \A n \in Node, t \in Token : Holds(n, t)' => Holds(n, t),
           \A s \in Node, q \in SeqNo, t \in Token : Handoff(s, q, t)' => Handoff(s, q, t)
    PROVE  Conserved
<1>1. Exporter \subseteq Node
  BY RoleAssumption
<1>2. \A n \in Exporter, t \in Token : Holds(n, t)' => Moving(t)
  BY <1>1 DEF Moving
<1>3. \A s \in Node, q \in SeqNo, t \in Token : Handoff(s, q, t)' => Moving(t)
  BY DEF Moving
<1> QED BY <1>2, <1>3, ConservedBy

LEMMA OwnerInit == ASSUME ~Disruptive, Init PROVE OwnerInv
<1>1. \A n \in Node : turn[n].token = NoToken /\ pc[n] = "idle" /\ pending[n] = {}
  BY DEF Init, NoTurnState
<1>2. net = {}
  BY DEF Init
<1>3. \A t \in Token : ~Moving(t)
  BY <1>1, <1>2, TokenAssumption, RoleAssumption DEF Moving, Holds, Handoff
<1>4. Stable /\ Senders
  BY <1>1 DEF Init, Stable, Senders
<1> QED BY <1>3, <1>4 DEF OwnerInv, Quiet, OneMoving

\* Without a disruption views stay complete and nothing is forgotten.
LEMMA StableNext ==
    ASSUME ~Disruptive, TypeInv, Stable, [Next]_vars PROVE Stable'
<1>1. ASSUME NEW m \in net, ReceiveData(m) \/ ReceiveAck(m) PROVE Stable'
  <2>1. m.src \in Node /\ m.dst \in Node /\ m.src # m.dst
    BY DEF TypeInv, TypeOK, NotSelf, Frame
  <2>2. view' = [view EXCEPT ![m.dst] = @ \cup {m.src}] /\ forgot' = forgot
    BY <1>1 DEF ReceiveData, ReceiveAck
  <2> QED BY <2>1, <2>2 DEF Stable, TypeInv, TypeOK
<1>2. ASSUME ~Receive PROVE view' = view /\ forgot' = forgot
  BY <1>2 DEF Next, vars, Sender, Maintain, BeginTurn, DenyTurn, BeginProbe, Commit, Transmit,
     Finish, Repair, QueryReceipt, Retire, Release, Deadline, ForgetSeen, Lose, ViewChange,
     Reset, Restart
<1> QED BY <1>1, <1>2 DEF Stable, Receive

LEMMA SendersNext == ASSUME TypeInv, Senders, [Next]_vars PROVE Senders'
<1>1. ASSUME NEW n \in Node, BeginTurn(n) PROVE Senders'
  <2>1. PICK q \in SeqNo, d \in view[n], t \in Token, probe \in SUBSET Unheard(n) :
          Claim(n, q, view[n] \cup probe, d, t)
    BY <1>1 DEF BeginTurn
  <2>2. n \in Exporter /\ job'[n].token = t
        /\ \A i \in Node \ {n} : job'[i] = job[i] /\ pc'[i] = pc[i]
    BY <1>1, <2>1 DEF BeginTurn, CanBegin, Claim, TypeInv, TypeOK
  <2> QED BY <2>2 DEF Senders, NoNode
<1>2. ASSUME NEW n \in Node, BeginProbe(n) PROVE Senders'
  <2>1. n \in Exporter /\ job'[n].succ = NoNode
        /\ \A i \in Node \ {n} : job'[i] = job[i] /\ pc'[i] = pc[i]
    BY <1>2 DEF BeginProbe, CanBegin, Claim, TypeInv, TypeOK
  <2> QED BY <2>1 DEF Senders, NoNode
<1>3. ASSUME NEW n \in Node, Commit(n) PROVE Senders'
  BY <1>3 DEF Commit, Senders, TypeInv, TypeOK, NoNode
<1>4. ASSUME NEW n \in Node, NEW d \in Node, Transmit(n, d) PROVE Senders'
  <2>1. pc' = pc /\ job[n] \in Job /\ \A i \in Node \ {n} : job'[i] = job[i]
    BY <1>4 DEF Transmit, TypeInv, TypeOK
  <2>2. job'[n].succ = job[n].succ /\ job'[n].token = job[n].token
    <3>1. CASE job' = [job EXCEPT ![n].left = @ \ {d}, ![n].sent = @ \cup {d}]
      BY <2>1, <3>1 DEF Job, TypeInv, TypeOK
    <3>2. CASE job' = [job EXCEPT ![n].left = @ \ {d}]
      BY <2>1, <3>2 DEF Job, TypeInv, TypeOK
    <3> QED BY <1>4, <3>1, <3>2 DEF Transmit
  <2> QED BY <2>1, <2>2 DEF Senders, NoNode
<1>5. ASSUME NEW n \in Node, Finish(n) \/ Restart(n) PROVE Senders'
  <2>1. pc'[n] = "idle" /\ \A i \in Node \ {n} : job'[i] = job[i] /\ pc'[i] = pc[i]
    BY <1>5 DEF Finish, Restart, TypeInv, TypeOK
  <2> QED BY <2>1 DEF Senders, NoNode
<1>6. ASSUME UNCHANGED <<pc, job>> PROVE Senders'
  BY <1>6 DEF Senders, NoNode
<1>7. ASSUME NEW n \in Node, DenyTurn(n) \/ Maintain(n) \/ ViewChange(n) \/ Reset(n) PROVE Senders'
  BY <1>6, <1>7 DEF DenyTurn, Maintain, Repair, QueryReceipt, Retire, Release, Deadline,
     ForgetSeen, ViewChange, Reset
<1>8. ASSUME NEW m \in net, ReceiveData(m) \/ ReceiveAck(m) \/ Lose(m) PROVE Senders'
  BY <1>6, <1>8 DEF ReceiveData, ReceiveAck, Lose
<1>9. CASE UNCHANGED vars
  BY <1>6, <1>9 DEF vars
<1> QED BY <1>1, <1>2, <1>3, <1>4, <1>5, <1>7, <1>8, <1>9 DEF Next, Sender, Receive

\* A step that neither claims nor grants: no permission starts to move.
LEMMA ConservedSender ==
    ASSUME TypeInv, TypeInv', Books, Senders, NEW n \in Node,
           Commit(n) \/ (\E d \in Node : Transmit(n, d)) \/ Finish(n)
    PROVE  Conserved
<1>0. Exporter \subseteq Node
  BY RoleAssumption
<1>1. CASE Commit(n)
  <2> DEFINE sample == [seq |-> job[n].seq, succ |-> job[n].succ,
                token |-> job[n].token, targets |-> job[n].targets,
                awaiting |-> job[n].targets, channel |-> "blocked"]
  <2>1. /\ pending'[n] = pending[n] \cup {sample} /\ pc[n] = "claimed" /\ pc'[n] = "sending"
        /\ \A i \in Node \ {n} : pending'[i] = pending[i] /\ pc'[i] = pc[i] /\ turn'[i] = turn[i]
        /\ \/ job[n].succ = NoNode /\ turn' = turn
           \/ job[n].succ # NoNode /\ turn'[n].token = NoToken
        /\ UNCHANGED <<seen, net, job>>
    BY <1>1 DEF Commit, TypeInv, TypeOK
  <2>2. /\ sample.seq = job[n].seq /\ sample.succ = job[n].succ
        /\ sample.token = job[n].token
    OBVIOUS
  <2> HIDE DEF sample
  <2>3. \A s \in Node, q \in SeqNo, u \in Token :
          Handoff(s, q, u)' => Handoff(s, q, u) \/ Holds(n, u)
    BY <2>1, <2>2 DEF Handoff, Holds
  <2>4. \A i \in Node, u \in Token : Holds(i, u)' => Holds(i, u)
    BY <2>1, TokenAssumption DEF Holds
  <2>5. n \in Exporter
    BY <2>1 DEF Senders
  <2>6. \A s \in Node, q \in SeqNo, u \in Token : Handoff(s, q, u)' => Moving(u)
    BY <2>3, <2>5 DEF Moving
  <2>7. \A i \in Exporter, u \in Token : Holds(i, u)' => Moving(u)
    BY <1>0, <2>4 DEF Moving
  <2> QED BY <2>6, <2>7, ConservedBy
<1>2. ASSUME NEW d \in Node, Transmit(n, d) PROVE Conserved
  <2>1. /\ pc[n] = "sending" /\ UNCHANGED <<turn, pc, pending, seen>>
        /\ net' \subseteq net \cup {Copy(n, d, job[n].seq, job[n].succ, job[n].token)}
        /\ \A i \in Node \ {n} : job'[i] = job[i]
    BY <1>2 DEF Transmit, TypeInv, TypeOK
  <2>2. \A m \in net' : m \in net \/ CopyOfSample(m)
    BY <2>1, TokenAssumption DEF Registered, Books, CopyOfSample, Copy, Data
  <2>3. \A s \in Node, q \in SeqNo, t \in Token : Handoff(s, q, t)' => Handoff(s, q, t)
    BY <2>1, <2>2, NoNewHandoff DEF SameSample
  <2>4. \A i \in Node, t \in Token : Holds(i, t)' => Holds(i, t)
    BY <2>1 DEF Holds
  <2> QED BY <2>3, <2>4, ConservedSamples
<1>3. CASE Finish(n)
  <2>1. /\ \A i \in Node : pending'[i] \subseteq pending[i]
        /\ \A i \in Node \ {n} : turn'[i] = turn[i] /\ pc'[i] = pc[i] /\ job'[i] = job[i]
        /\ pc[n] = "sending" /\ pc'[n] = "idle" /\ UNCHANGED <<seen, net>>
    BY <1>3 DEF Finish, TypeInv, TypeOK
  <2>2. \A s \in Node, q \in SeqNo, t \in Token : Handoff(s, q, t)' => Handoff(s, q, t)
    BY <2>1, NoNewHandoff DEF SameSample
  <2>3. CASE turn' = turn
    <3>1. \A i \in Node, t \in Token : Holds(i, t)' => Holds(i, t)
      BY <2>1, <2>3 DEF Holds
    <3> QED BY <2>2, <3>1, ConservedSamples
  <2>4. CASE turn' # turn
    <3>1. job[n].sent = {} /\ job[n].succ # NoNode /\ turn'[n].token = job[n].token
      BY <1>3, <2>4 DEF Finish, TypeInv, TypeOK, TurnState
    <3>2. /\ job[n].succ \in Node /\ job[n].seq \in SeqNo /\ job[n].token \in Token
      BY <2>1, <3>1 DEF TypeInv, TypeOK, NotSelf, Job, MaybeNode, Senders
    <3>3. NoTrace(n, job[n].seq)
      BY <2>1, <3>1 DEF Books, Unsent
    <3>4. Handoff(n, job[n].seq, job[n].token)
      BY <2>1, <3>2, <3>3 DEF Books, Registered, Handoff, NoTrace
    <3>5. \A i \in Node, u \in Token : Holds(i, u)' => Holds(i, u) \/ u = job[n].token
      BY <2>1, <3>1 DEF Holds
    <3>6. \A i \in Exporter, u \in Token : Holds(i, u)' => Moving(u)
      BY <1>0, <3>2, <3>4, <3>5 DEF Moving
    <3>7. \A s \in Node, q \in SeqNo, u \in Token : Handoff(s, q, u)' => Moving(u)
      BY <2>2 DEF Moving
    <3> QED BY <3>6, <3>7, ConservedBy
  <2> QED BY <2>3, <2>4
<1> QED BY <1>1, <1>2, <1>3

LEMMA ConservedMaintain ==
    ASSUME TypeInv, TypeInv', Books, NEW n \in Node, Maintain(n) PROVE Conserved
<1>1. \A i \in Node, t \in Token : Holds(i, t)' => Holds(i, t)
  <2>1. pc' = pc /\ job' = job /\ \A i \in Node : turn'[i].token = turn[i].token
    BY DEF Maintain, Repair, QueryReceipt, Retire, Release, Deadline, ForgetSeen, TypeInv, TypeOK,
       TurnState
  <2> QED BY <2>1 DEF Holds
<1>2. \A s \in Node, q \in SeqNo, t \in Token : Handoff(s, q, t)' => Handoff(s, q, t)
  <2>1. CASE Repair(n)
    <3>1. PICK p \in pending[n] : \E d \in p.awaiting :
            /\ net' = net \cup {Copy(n, d, p.seq, p.succ, p.token)}
            /\ pending' = [pending EXCEPT ![n] =
                  (@ \ {p}) \cup {[p EXCEPT !.channel = "blocked"]}]
      BY <2>1 DEF Repair
    <3>2. SameSample(p, [p EXCEPT !.channel = "blocked"])
      BY DEF SameSample, Sample, TypeInv, TypeOK
    <3>3. \A m \in net' : m \in net \/ CopyOfSample(m)
      BY <3>1, TokenAssumption DEF CopyOfSample, Copy, Data
    <3>4. \A i \in Node : \A r \in pending'[i] : \E y \in pending[i] : SameSample(y, r)
      <4>1. /\ pending'[n] = (pending[n] \ {p}) \cup {[p EXCEPT !.channel = "blocked"]}
            /\ \A i \in Node \ {n} : pending'[i] = pending[i]
        BY <3>1 DEF TypeInv, TypeOK
      <4> QED BY <3>2, <4>1 DEF SameSample
    <3> QED BY <2>1, <3>3, <3>4, NoNewHandoff DEF Repair
  <2>2. CASE QueryReceipt(n)
    BY <2>2, NoNewHandoff DEF QueryReceipt, SameSample, Receipt
  <2>3. CASE Retire(n)
    BY <2>3, NoNewHandoff DEF Retire, SameSample, TypeInv, TypeOK
  <2>4. CASE Release(n)
    <3>1. PICK p \in pending[n] :
            pending' = [pending EXCEPT ![n] = (@ \ {p}) \cup {[p EXCEPT !.channel = "free"]}]
      BY <2>4 DEF Release
    <3>2. SameSample(p, [p EXCEPT !.channel = "free"])
      BY DEF SameSample, Sample, TypeInv, TypeOK
    <3>3. \A i \in Node : \A r \in pending'[i] : \E y \in pending[i] : SameSample(y, r)
      BY <3>1, <3>2 DEF SameSample, TypeInv, TypeOK
    <3> QED BY <2>4, <3>3, NoNewHandoff DEF Release
  <2>5. CASE Deadline(n)
    BY <2>5 DEF Deadline, Handoff
  <2>6. CASE ForgetSeen(n)
    <3>1. PICK e \in seen[n] :
            /\ \A p \in pending[e[1]] : p.seq # e[2]
            /\ \A m \in net : ~(m.src = e[1] /\ m.dst = n /\ m.seq = e[2])
            /\ seen' = [seen EXCEPT ![n] = @ \ {e}]
      BY <2>6 DEF ForgetSeen
    <3>2. e = <<e[1], e[2]>>
      BY DEF TypeInv, TypeOK
    <3> QED BY <2>6, <3>1, <3>2 DEF ForgetSeen, Handoff, TypeInv, TypeOK
  <2> QED BY <2>1, <2>2, <2>3, <2>4, <2>5, <2>6 DEF Maintain
<1> QED BY <1>1, <1>2, ConservedSamples

\* A permission that a frame brings was on its way.
LEMMA ConservedReceive ==
    ASSUME TypeInv, TypeInv', NEW m \in net, ReceiveData(m) \/ ReceiveAck(m) \/ Lose(m)
    PROVE  Conserved
<1>1. CASE ReceiveData(m)
  <2>1. /\ m.dst \in Node /\ m.src \in Node /\ m.seq \in SeqNo
        /\ m.kind = "data" /\ UNCHANGED <<pc, job, pending>>
        /\ \A k \in net' : k.kind = "data" => k \in net
        /\ \A i \in Node : seen[i] \subseteq seen'[i]
    BY <1>1 DEF ReceiveData, Receipt, TypeInv, TypeOK, Frame
  <2>2. \A s \in Node, q \in SeqNo, t \in Token : Handoff(s, q, t)' => Handoff(s, q, t)
    BY <2>1, NoNewHandoff DEF SameSample
  <2>3. CASE turn' = turn
    <3>1. \A i \in Node, t \in Token : Holds(i, t)' => Holds(i, t)
      BY <2>1, <2>3 DEF Holds
    <3> QED BY <2>2, <3>1, ConservedSamples
  <2>4. CASE turn' # turn
    <3>1. /\ <<m.src, m.seq>> \notin seen[m.dst] /\ turn'[m.dst].token = m.turn
          /\ \A i \in Node \ {m.dst} : turn'[i] = turn[i]
      BY <1>1, <2>1, <2>4 DEF ReceiveData, TypeInv, TypeOK
    <3>2. \A i \in Node, u \in Token : Holds(i, u)' => Holds(i, u) \/ Handoff(m.src, m.seq, u)
      BY <2>1, <3>1 DEF Holds, Handoff
    <3>3. \A i \in Exporter, u \in Token : Holds(i, u)' => Moving(u)
      BY <2>1, <3>2, RoleAssumption DEF Moving
    <3>4. \A s \in Node, q \in SeqNo, u \in Token : Handoff(s, q, u)' => Moving(u)
      BY <2>2 DEF Moving
    <3> QED BY <3>3, <3>4, ConservedBy
  <2> QED BY <2>3, <2>4
<1>2. CASE ReceiveAck(m)
  <2> DEFINE strip(p) == IF p.seq = m.seq
                         THEN [p EXCEPT !.awaiting = @ \ {m.src}] ELSE p
  <2>1. pending' = [pending EXCEPT ![m.dst] = {strip(p) : p \in pending[m.dst]}]
    BY <1>2 DEF ReceiveAck
  <2>2. \A p \in Sample : SameSample(p, strip(p))
    BY DEF SameSample, Sample
  <2> HIDE DEF strip
  <2>3. \A i \in Node : \A r \in pending'[i] : \E y \in pending[i] : SameSample(y, r)
    BY <2>1, <2>2 DEF SameSample, TypeInv, TypeOK
  <2>4. \A s \in Node, q \in SeqNo, t \in Token : Handoff(s, q, t)' => Handoff(s, q, t)
    BY <1>2, <2>3, NoNewHandoff DEF ReceiveAck
  <2>5. \A i \in Node, t \in Token : Holds(i, t)' => Holds(i, t)
    BY <1>2 DEF ReceiveAck, Holds
  <2> QED BY <2>4, <2>5, ConservedSamples
<1>3. CASE Lose(m)
  <2>1. \A s \in Node, q \in SeqNo, t \in Token : Handoff(s, q, t)' => Handoff(s, q, t)
    BY <1>3, NoNewHandoff DEF Lose, SameSample
  <2>2. \A i \in Node, t \in Token : Holds(i, t)' => Holds(i, t)
    BY <1>3 DEF Lose, Holds
  <2> QED BY <2>1, <2>2, ConservedSamples
<1> QED BY <1>1, <1>2, <1>3

\* The lowest member of a stable group is the same in all views, and there is one.
LEMMA LowestSame ==
    ASSUME Stable, Stable'
    PROVE  /\ \A n \in Node : IsLowest(n)' <=> IsLowest(n)
           /\ \A n, m \in Node : IsLowest(n) /\ IsLowest(m) => n = m
<1>1. \A n \in Node : IsLowest(n)' <=> IsLowest(n)
  BY DEF Stable, IsLowest
<1>2. ASSUME NEW n \in Node, NEW m \in Node, IsLowest(n), IsLowest(m), n # m PROVE FALSE
  <2>1. n < m /\ m < n
    BY <1>2 DEF Stable, IsLowest
  <2>2. n \in Nat /\ m \in Nat
    BY NodeAssumption
  <2> QED BY <2>1, <2>2
<1> QED BY <1>1, <1>2

\* A step that starts no permission, and lets nobody mint who might not, keeps one owner.
LEMMA QuietBy ==
    ASSUME Stable, Stable', Quiet, OneMoving, Conserved,
           \A n \in Node : \/ turn'[n] = turn[n]
                           \/ turn'[n].clock # "unset" /\ turn'[n].token # NoToken
                           \/ turn'[n].clock = "running"
                           \/ turn'[n].clock = turn[n].clock /\ turn'[n].token # NoToken
    PROVE  Quiet' /\ OneMoving'
<1>1. \A n \in Node : MayMint(n)' => MayMint(n)
  BY LowestSame DEF MayMint
<1> QED BY <1>1 DEF Quiet, OneMoving, Conserved

LEMMA QuietNext ==
    ASSUME ~Disruptive, TypeInv, TypeInv', Books, Stable, Stable', Senders, Quiet, OneMoving,
           ~hasty', [Next]_vars
    PROVE  Quiet' /\ OneMoving'
<1>0. Exporter \subseteq Node
  BY RoleAssumption
<1>1. ASSUME NEW n \in Node, BeginTurn(n) PROVE Quiet' /\ OneMoving'
  <2>1. PICK t \in Token :
          /\ IF turn[n].token # NoToken THEN t = turn[n].token ELSE MayMint(n)
          /\ turn'[n].token = t /\ turn'[n].clock # "unset" /\ job'[n].token = t
          /\ \A i \in Node \ {n} : turn'[i] = turn[i] /\ job'[i] = job[i] /\ pc'[i] = pc[i]
    BY <1>1 DEF BeginTurn, Claim, TypeInv, TypeOK
  <2>2. \A s \in Node, q \in SeqNo, u \in Token : Handoff(s, q, u)' => Moving(u)
    BY <1>1 DEF BeginTurn, Handoff, Moving
  <2>3. \A i \in Node, u \in Token : Holds(i, u)' => Holds(i, u) \/ (i = n /\ u = t)
    BY <2>1 DEF Holds
  <2>4. \A u \in Token : Moving(u)' => Moving(u) \/ u = t
    BY <1>0, <2>2, <2>3 DEF Moving
  <2>5. t # NoToken
    BY TokenAssumption
  <2>6. CASE turn[n].token = t
    <3>1. n \in Exporter
      BY <1>1 DEF BeginTurn, CanBegin
    <3>2. Moving(t)
      BY <2>6, <3>1 DEF Moving, Holds
    <3>3. Conserved
      BY <2>4, <3>2 DEF Conserved
    <3> QED BY <2>1, <2>5, <3>3, QuietBy
  <2>7. CASE MayMint(n)
    <3>1. \A u \in Token : ~Moving(u)
      BY <2>7 DEF Quiet
    <3>2. OneMoving'
      BY <2>4, <3>1 DEF OneMoving
    <3>3. ~MayMint(n)'
      BY <2>1, <2>5 DEF MayMint
    <3>4. \A m \in Node : MayMint(m)' => m = n
      BY <2>7, LowestSame DEF MayMint
    <3> QED BY <3>2, <3>3, <3>4 DEF Quiet
  <2> QED BY <2>1, <2>6, <2>7
<1>2. ASSUME NEW n \in Node, DenyTurn(n) PROVE Quiet' /\ OneMoving'
  <2>1. turn'[n].clock = "running" /\ \A i \in Node : turn'[i].token = turn[i].token
    BY <1>2 DEF DenyTurn, TypeInv, TypeOK, TurnState
  <2>2. \A i \in Node \ {n} : turn'[i] = turn[i]
    BY <1>2 DEF DenyTurn, TypeInv, TypeOK
  <2>3. Conserved
    BY <1>2, <2>1, ConservedSamples DEF DenyTurn, Holds, Handoff
  <2> QED BY <2>1, <2>2, <2>3, QuietBy
<1>3. ASSUME NEW n \in Node, BeginProbe(n) PROVE Quiet' /\ OneMoving'
  <2>1. job'[n].token = NoToken /\ \A i \in Node \ {n} : job'[i] = job[i] /\ pc'[i] = pc[i]
    BY <1>3 DEF BeginProbe, Claim, TypeInv, TypeOK
  <2>2. \A i \in Node, u \in Token : Holds(i, u)' => Holds(i, u)
    BY <1>3, <2>1, TokenAssumption DEF BeginProbe, Holds
  <2>3. \A s \in Node, q \in SeqNo, u \in Token : Handoff(s, q, u)' => Handoff(s, q, u)
    BY <1>3 DEF BeginProbe, Handoff
  <2>4. turn' = turn
    BY <1>3 DEF BeginProbe
  <2> QED BY <2>2, <2>3, <2>4, ConservedSamples, QuietBy
<1>4. ASSUME NEW n \in Node, Commit(n) \/ (\E d \in Node : Transmit(n, d)) \/ Finish(n)
      PROVE  Quiet' /\ OneMoving'
  <2>1. Conserved
    BY <1>4, ConservedSender
  <2>2. CASE Commit(n)
    BY <2>1, <2>2, QuietBy DEF Commit, TypeInv, TypeOK
  <2>3. ASSUME NEW d \in Node, Transmit(n, d) PROVE Quiet' /\ OneMoving'
    BY <2>1, <2>3, QuietBy DEF Transmit
  <2>4. CASE Finish(n) /\ turn' # turn
    <3>1. /\ turn'[n].clock = turn[n].clock /\ turn'[n].token = job[n].token
          /\ job[n].succ # NoNode /\ pc[n] # "idle"
          /\ \A i \in Node \ {n} : turn'[i] = turn[i]
      BY <2>4 DEF Finish, TypeInv, TypeOK, TurnState
    <3>2. turn'[n].token # NoToken
      BY <3>1, TokenAssumption DEF Senders
    <3> QED BY <2>1, <3>1, <3>2, QuietBy
  <2>5. CASE turn' = turn
    BY <2>1, <2>5, QuietBy
  <2> QED BY <1>4, <2>2, <2>3, <2>4, <2>5
<1>5. ASSUME NEW n \in Node, Maintain(n) PROVE Quiet' /\ OneMoving'
  <2>1. Conserved
    BY <1>5, ConservedMaintain
  <2>2. CASE turn' = turn
    BY <2>1, <2>2, QuietBy
  <2>3. CASE Deadline(n)
    <3>1. \A t \in Token : ~Moving(t)
      BY <2>3 DEF Deadline
    <3>2. \A t \in Token : ~Moving(t)'
      BY <2>1, <3>1 DEF Conserved
    <3> QED BY <3>2 DEF Quiet, OneMoving
  <2> QED BY <1>5, <2>2, <2>3 DEF Maintain, Repair, QueryReceipt, Retire, Release, ForgetSeen
<1>6. ASSUME NEW m \in net, ReceiveData(m) \/ ReceiveAck(m) \/ Lose(m) PROVE Quiet' /\ OneMoving'
  <2>1. Conserved
    BY <1>6, ConservedReceive
  <2>2. \A n \in Node : turn'[n] = turn[n] \/ turn'[n].clock = "running"
    BY <1>6 DEF ReceiveData, ReceiveAck, Lose, TypeInv, TypeOK, Frame
  <2> QED BY <2>1, <2>2, QuietBy
<1>7. CASE UNCHANGED vars
  BY <1>7, ConservedSamples, QuietBy DEF vars, Holds, Handoff
<1>8. ASSUME NEW n \in Node, ViewChange(n) \/ Reset(n) \/ Restart(n) PROVE FALSE
  BY <1>8 DEF ViewChange, Reset, Restart
<1> QED BY <1>1, <1>2, <1>3, <1>4, <1>5, <1>6, <1>7, <1>8 DEF Next, Sender, Receive

LEMMA OwnerNext ==
    ASSUME ~Disruptive, TypeInv, TokenInv, OwnerInv, [Next]_vars PROVE OwnerInv'
<1>1. TypeInv' /\ Books
  BY TypeNext DEF OwnerInv, Stable, TokenInv
<1>2. Stable' /\ Senders'
  BY StableNext, SendersNext DEF OwnerInv
<1>3. hasty => hasty'
  BY DEF Next, vars, Sender, Maintain, Receive, BeginTurn, DenyTurn, BeginProbe,
         Commit, Transmit, Finish, Repair, QueryReceipt, Retire, Release, Deadline,
         ForgetSeen, ReceiveData, ReceiveAck, Lose, ViewChange, Reset, Restart
<1>4. ASSUME ~hasty' PROVE Quiet' /\ OneMoving'
  BY <1>1, <1>2, <1>3, <1>4, QuietNext DEF OwnerInv
<1> QED BY <1>2, <1>4 DEF OwnerInv

\* In a stable group, until a silence deadline passes in a healthy transaction, the permission
\* of at most one value is held by an exporter or on its way, whatever is lost, repaired,
\* delayed or refused: kMeshTurnRecovery is all that makes a second one.
THEOREM GroupHasOneOwner == Spec => []OneOwner
<1>1. CASE Disruptive
  <2>1. OneOwner
    BY <1>1 DEF OneOwner
  <2> QED BY <2>1, PTL
<1>2. CASE ~Disruptive
  <2>1. Init => OwnerInv
    BY <1>2, OwnerInit
  <2>2. TypeInv /\ TokenInv /\ OwnerInv /\ [Next]_vars => OwnerInv'
    BY <1>2, OwnerNext
  <2>3. OwnerInv => OneOwner
    BY DEF OwnerInv, OneMoving, OneOwner
  <2> QED BY <2>1, <2>2, <2>3, TypeInit, TypeNext, TokenInit, TokenNext, PTL DEF Spec
<1> QED BY <1>1, <1>2
=============================================================================
