------------------------ MODULE MeshEnrollmentProofs ------------------------
(***************************************************************************)
(* Theorems about MeshEnrollment, for every list of nodes and every set of *)
(* situations.                                                             *)
(***************************************************************************)
EXTENDS MeshEnrollment, SequenceTheorems, TLAPS

SnapRecord == [taken : BOOLEAN, token : BOOLEAN, state : LifeState \cup {""}]

AppRecord ==
    [up : BOOLEAN, token : BOOLEAN, state : LifeState, attached : BOOLEAN, bound : BOOLEAN,
     snap : SnapRecord,
     ready : BOOLEAN, stage : 0..3, starting : BOOLEAN, reserved : MaybeNode,
     pend : MaybeNode, last : MaybeNode, clock : {"off", "running"}, remote : 0..2,
     events : Seq(Message)]

DiskRecord == [token : BOOLEAN, device : BOOLEAN, creds : BOOLEAN]

SessionRecord == {s \in [to : MaybeNode, addr : MaybeNode] : s.to = Nobody => s.addr = Nobody}

DaemonRecord ==
    [up : BOOLEAN, net : MaybeNode, addr : MaybeNode, appkey : MaybeNode, bound : BOOLEAN,
     ring : SUBSET Node, serving : BOOLEAN, beacon : BOOLEAN,
     session : SessionRecord]

Letter == [src : Node, dst : MaybeNode, kind : {"appkey", "model"}]

HistoryRecord == [strays : SUBSET Node, keyless : SUBSET MaybeNode]

\* Every variable in the set its values come from.
TypeInv ==
    /\ app \in [Node -> AppRecord]
    /\ disk \in [Node -> DiskRecord]
    /\ daemon \in [Node -> DaemonRecord]
    /\ inbox \in [Node -> Seq(Message)]
    /\ radio \subseteq Letter
    /\ cast \in Casts
    /\ faults \in 0..MaxFaults
    /\ history \in HistoryRecord

-----------------------------------------------------------------------------
(* The operators of the model                                               *)

\* What is left of a sequence without one of its elements.
LEMMA WithoutOne ==
    ASSUME NEW S, NEW q \in Seq(S), NEW i \in DOMAIN q
    PROVE  /\ RemoveAt(q, i) \in Seq(S)
           /\ Len(RemoveAt(q, i)) = Len(q) - 1
           /\ \A j \in DOMAIN RemoveAt(q, i) :
                 RemoveAt(q, i)[j] = IF j < i THEN q[j] ELSE q[j + 1]
  <1> DEFINE front == SubSeq(q, 1, i - 1)
             back == SubSeq(q, i + 1, Len(q))
  <1>1. i \in 1..Len(q) /\ Len(q) \in Nat  BY LenProperties
  <1>2. front \in Seq(S) /\ Len(front) = i - 1 /\ \A j \in 1..(i - 1) : front[j] = q[j]
    BY <1>1, SubSeqProperties
  <1>3. back \in Seq(S) /\ Len(back) = Len(q) - i
        /\ \A j \in 1..(Len(q) - i) : back[j] = q[i + j]
    BY <1>1, SubSeqProperties
  <1> HIDE DEF front, back
  <1>4. RemoveAt(q, i) = front \o back  BY DEF RemoveAt, front, back
  <1>5. front \o back \in Seq(S) /\ Len(front \o back) = Len(q) - 1
    BY <1>1, <1>2, <1>3, ConcatProperties
  <1>6. \A j \in 1..(Len(q) - 1) : (front \o back)[j] = IF j < i THEN q[j] ELSE q[j + 1]
    BY <1>1, <1>2, <1>3, ConcatProperties, SMTT(30)
  <1> QED  BY <1>4, <1>5, <1>6, LenProperties

\* r holds elements of q, each at most once.
DrawnFrom(r, q) ==
    \E f \in [DOMAIN r -> DOMAIN q] :
       /\ \A i \in DOMAIN r : r[i] = q[f[i]]
       /\ \A i, j \in DOMAIN r : f[i] = f[j] => i = j

\* Abandoning the error of a Join leaves messages of the inbox.
LEMMA AnswersKept ==
    ASSUME TypeInv, NEW n \in Node
    PROVE  Answers(n) \in Seq(Message) /\ DrawnFrom(Answers(n), inbox[n])
  <1> DEFINE q == inbox[n]
             errors == {i \in DOMAIN q : q[i].kind = "join_error"}
             k == CHOOSE i \in errors : TRUE
  <1>1. q \in Seq(Message)  BY DEF TypeInv
  <1>2. CASE errors = {}
    <2>1. Answers(n) = q  BY <1>2 DEF Answers
    <2> DEFINE g == [i \in DOMAIN q |-> i]
    <2>2. g \in [DOMAIN q -> DOMAIN q]  OBVIOUS
    <2>3. /\ \A i \in DOMAIN q : q[i] = q[g[i]]
          /\ \A i, j \in DOMAIN q : g[i] = g[j] => i = j
      OBVIOUS
    <2> HIDE DEF g, q
    <2>4. DrawnFrom(q, q)  BY <2>2, <2>3 DEF DrawnFrom
    <2> QED  BY <1>1, <2>1, <2>4 DEF q
  <1>3. CASE errors # {}
    <2>1. k \in DOMAIN q  BY <1>3
    <2>2. Answers(n) = RemoveAt(q, k)  BY <1>3 DEF Answers
    <2> HIDE DEF k
    <2>3. /\ RemoveAt(q, k) \in Seq(Message)
          /\ Len(RemoveAt(q, k)) = Len(q) - 1
          /\ \A j \in DOMAIN RemoveAt(q, k) :
                 RemoveAt(q, k)[j] = IF j < k THEN q[j] ELSE q[j + 1]
      BY <1>1, <2>1, WithoutOne
    <2> DEFINE r == RemoveAt(q, k)
               g == [j \in DOMAIN r |-> IF j < k THEN j ELSE j + 1]
    <2>4. DOMAIN r = 1..(Len(q) - 1) /\ DOMAIN q = 1..Len(q) /\ Len(q) \in Nat
      BY <1>1, <2>3, LenProperties
    <2> HIDE DEF q, r
    <2>5. k \in 1..Len(q)  BY <2>1, <2>4
    <2>6. g \in [DOMAIN r -> DOMAIN q]  BY <2>4, <2>5
    <2>7. \A j \in DOMAIN r : r[j] = q[g[j]]  BY <2>3, <2>4 DEF r
    <2>8. \A i, j \in DOMAIN r : g[i] = g[j] => i = j  BY <2>4, <2>5
    <2> HIDE DEF g
    <2>9. DrawnFrom(r, q)  BY <2>6, <2>7, <2>8 DEF DrawnFrom
    <2> QED  BY <2>2, <2>3, <2>9 DEF q, r
  <1> QED  BY <1>2, <1>3

\* The operators on the record of an application give such a record.
LEMMA ByTokenType ==
    ASSUME NEW n \in Node
    PROVE  ByToken(n) \in LifeState
  BY DEF ByToken, LifeState

LEMMA StartOverType ==
    ASSUME NEW a \in AppRecord
    PROVE  StartOver(a) \in AppRecord
  <1>1. NoSnapshot \in SnapRecord  BY DEF NoSnapshot, SnapRecord
  <1>2. 0 \in 0..3  OBVIOUS
  <1> QED  BY <1>1, <1>2 DEF StartOver, AppRecord

LEMMA ForgetType ==
    ASSUME NEW a \in AppRecord
    PROVE  Forget(a) \in AppRecord
  BY DEF Forget, AppRecord, MaybeNode

LEMMA TakeEventsType ==
    ASSUME NEW a \in AppRecord
    PROVE  TakeEvents(a) \in AppRecord
  <1> DEFINE mine == {i \in DOMAIN a.events : a.events[i].uuid = a.pend}
             ends == {i \in mine : a.events[i].kind # "add_complete" \/ a.events[i].addr # a.pend}
             added == \E i \in mine : \A j \in ends : i < j
             failed == \E i \in ends : a.events[i].kind # "add_complete" /\ \A j \in ends : i <= j
             met == [a EXCEPT !.events = <<>>, !.clock = IF added THEN "off" ELSE @,
                              !.remote = IF failed THEN 0 ELSE IF added THEN 1 ELSE @]
  <1>1. TakeEvents(a) = IF ends = {} THEN met ELSE Forget(met)  BY DEF TakeEvents
  <1> DEFINE clock == IF added THEN "off" ELSE a.clock
             remote == IF failed THEN 0 ELSE IF added THEN 1 ELSE a.remote
  <1>2. clock \in {"off", "running"} /\ remote \in 0..2  BY DEF AppRecord
  <1>3. <<>> \in Seq(Message)  OBVIOUS
  <1>4. met = [a EXCEPT !.events = <<>>, !.clock = clock, !.remote = remote]
    BY DEF AppRecord
  <1> HIDE DEF added, failed, ends, clock, remote
  <1>5. met \in AppRecord  BY <1>2, <1>3, <1>4 DEF AppRecord
  <1> QED  BY <1>1, <1>5, ForgetType

LEMMA StepType ==
    ASSUME NEW n \in Node, NEW a \in AppRecord
    PROVE  Step(n, a).next \in AppRecord /\ Step(n, a).sent \subseteq Letter
  <1>4. \A kind \in {"appkey", "model"} : Config(n, a.pend, kind) \in Letter
    BY DEF AppRecord, Letter, Config
  <1>1. CASE a.remote = 0  BY <1>1 DEF Step
  <1>2. CASE a.remote = 1
    <2>1. Step(n, a) = [next |-> [a EXCEPT !.remote = 2], sent |-> {Config(n, a.pend, "appkey")}]
      BY <1>2 DEF Step
    <2>2. [a EXCEPT !.remote = 2] \in AppRecord  BY DEF AppRecord
    <2> QED  BY <2>1, <2>2, <1>4
  <1>3. CASE a.remote \notin {0, 1}
    <2>1. Step(n, a) = [next |-> [Forget(a) EXCEPT !.remote = 0],
                        sent |-> {Config(n, a.pend, "model")}]
      BY <1>3 DEF Step
    <2>2. [Forget(a) EXCEPT !.remote = 0] \in AppRecord
      <3> DEFINE b == Forget(a)
      <3>1. b \in AppRecord  BY ForgetType
      <3> HIDE DEF b
      <3>2. [b EXCEPT !.remote = 0] \in AppRecord  BY <3>1, SMTT(30) DEF AppRecord
      <3> QED  BY <3>2 DEF b
    <2> QED  BY <2>1, <2>2, <1>4
  <1> QED  BY <1>1, <1>2, <1>3

LEMMA AttemptType ==
    ASSUME NEW a \in AppRecord, NEW m \in Node
    PROVE  Attempt(a, m) \in AppRecord
  BY DEF Attempt, AppRecord, MaybeNode

-----------------------------------------------------------------------------
(* Types                                                                    *)

MessageKinds == {"join_complete", "join_failed", "join_error", "import_error", "bound",
                 "add_started", "add_refused", "add_failed", "add_complete"}

LEMMA MessageType ==
    ASSUME NEW kind \in MessageKinds, NEW m \in MaybeNode, NEW a \in MaybeNode
    PROVE  Plain(kind) \in Message /\ About(kind, m, a) \in Message
  BY DEF Plain, About, Message, MessageKinds, MaybeNode

LEMMA TellType ==
    ASSUME inbox \in [Node -> Seq(Message)], NEW n, NEW message \in Message, Tell(n, message)
    PROVE  inbox' \in [Node -> Seq(Message)]
  <1>1. CASE n \in Node
    <2>1. Append(inbox[n], message) \in Seq(Message)  BY <1>1, AppendProperties
    <2> QED  BY <1>1, <2>1 DEF Tell
  <1>2. CASE n \notin Node  BY <1>2 DEF Tell
  <1> QED  BY <1>1, <1>2

LEMMA CastFacts ==
    ASSUME TypeInv
    PROVE  cast \in Cast /\ Prompt \in BOOLEAN /\ MaxFaults \in Nat /\ faults \in 0..MaxFaults
  BY CastsAssumption DEF TypeInv, Cast, Prompt, MaxFaults

\* One fault more is still within the bound.
LEMMA FaultType ==
    ASSUME TypeInv, faults < MaxFaults, faults' = faults + 1, UNCHANGED cast
    PROVE  faults' \in 0..MaxFaults'
  BY CastFacts DEF MaxFaults

LEMMA NewAppType ==
    ASSUME NEW token \in BOOLEAN, NEW up \in BOOLEAN
    PROVE  [NewApp(token) EXCEPT !.up = up] \in AppRecord /\ NewApp(token) \in AppRecord
  <1> DEFINE state == IF token THEN "provisioned" ELSE "exported"
  <1>1. state \in LifeState  BY DEF LifeState
  <1>2. NoSnapshot \in SnapRecord  BY DEF NoSnapshot, SnapRecord
  <1>3. <<>> \in Seq(Message) /\ 0 \in 0..3 /\ 0 \in 0..2 /\ Nobody \in MaybeNode
    BY DEF MaybeNode
  <1>4. NewApp(token) = [up |-> TRUE, token |-> token, state |-> state,
           attached |-> FALSE, bound |-> FALSE, snap |-> NoSnapshot,
           ready |-> FALSE, stage |-> 0, starting |-> FALSE, reserved |-> Nobody,
           pend |-> Nobody, last |-> Nobody, clock |-> "off", remote |-> 0, events |-> <<>>]
    BY DEF NewApp
  <1> HIDE DEF state
  <1>5. NewApp(token) \in AppRecord
    BY <1>1, <1>2, <1>3, <1>4 DEF AppRecord
  <1> QED  BY <1>5 DEF AppRecord

LEMMA NewDaemonType == NewDaemon \in DaemonRecord /\ NoSession \in SessionRecord
  <1>1. NoSession \in SessionRecord  BY DEF NoSession, SessionRecord, MaybeNode
  <1> QED  BY <1>1 DEF NewDaemon, DaemonRecord, MaybeNode

LEMMA TypesInit == Init => TypeInv
  <1> SUFFICES ASSUME Init PROVE TypeInv  OBVIOUS
  <1>2. <<>> \in Seq(Message)  OBVIOUS
  <1>3. \A n \in Node : [NewApp(FALSE) EXCEPT !.up = n \in cast.present] \in AppRecord
    <2> TAKE n \in Node
    <2>1. (n \in cast.present) \in BOOLEAN  OBVIOUS
    <2> QED  BY <2>1, NewAppType
  <1>4. NewDaemon \in DaemonRecord  BY NewDaemonType
  <1>5. app \in [Node -> AppRecord]
    BY <1>3 DEF Init
  <1>6. faults \in 0..MaxFaults
    BY CastsAssumption DEF Init, Cast, MaxFaults
  <1>7. history \in HistoryRecord  BY DEF Init, HistoryRecord
  <1> QED  BY <1>2, <1>4, <1>5, <1>6, <1>7 DEF Init, TypeInv, DiskRecord

LEMMA RefreshTypes ==
    ASSUME TypeInv, NEW n \in Node, Refresh(n)
    PROVE  TypeInv'
  <1>1. app[n] \in AppRecord  BY DEF TypeInv
  <1>2. CASE ~daemon[n].up
    <2> DEFINE state == IF app[n].state = "joining" THEN app[n].state ELSE "daemon_unavailable"
               next == [app[n] EXCEPT !.attached = FALSE, !.ready = FALSE, !.stage = 0,
                                      !.state = state]
    <2>1. app' = [app EXCEPT ![n] = next]  BY <1>2 DEF Refresh
    <2>2. state \in LifeState /\ 0 \in 0..3  BY <1>1 DEF AppRecord, LifeState
    <2> HIDE DEF state
    <2>3. next \in AppRecord  BY <1>1, <2>2 DEF AppRecord
    <2> HIDE DEF next
    <2> QED  BY <2>1, <2>3 DEF Refresh, TypeInv, MaxFaults
  <1>3. CASE daemon[n].up
    <2> DEFINE state == IF app[n].attached \/ app[n].state = "daemon_unavailable"
                        THEN ByToken(n) ELSE app[n].state
               snap == [taken |-> TRUE, token |-> app[n].token, state |-> state]
               next == [app[n] EXCEPT !.attached = FALSE, !.state = state, !.snap = snap]
    <2>1. app' = [app EXCEPT ![n] = next]  BY <1>3 DEF Refresh
    <2>2. state \in LifeState  BY <1>1, ByTokenType DEF AppRecord
    <2> HIDE DEF state
    <2>3. snap \in SnapRecord  BY <1>1, <2>2 DEF AppRecord, SnapRecord
    <2> HIDE DEF snap
    <2>4. next \in AppRecord  BY <1>1, <2>2, <2>3 DEF AppRecord
    <2> HIDE DEF next
    <2> QED  BY <2>1, <2>4 DEF Refresh, TypeInv, MaxFaults
  <1>4. daemon[n].up \in BOOLEAN  BY DEF TypeInv, DaemonRecord
  <1> QED  BY <1>2, <1>3, <1>4

LEMMA SetTokenTypes ==
    ASSUME TypeInv, NEW n \in Node, SetToken(n), UNCHANGED cast
    PROVE  disk' \in [Node -> DiskRecord] /\ faults' \in 0..MaxFaults'
  <1>1. [disk[n] EXCEPT !.token = TRUE] \in DiskRecord  BY DEF TypeInv, DiskRecord
  <1>2. CASE disk' = [disk EXCEPT ![n].token = TRUE] /\ UNCHANGED faults
    BY <1>1, <1>2 DEF TypeInv, MaxFaults
  <1>3. CASE faults < MaxFaults /\ faults' = faults + 1 /\ UNCHANGED disk
    BY <1>3, FaultType DEF TypeInv
  <1> QED  BY <1>2, <1>3 DEF SetToken

LEMMA WaitTypes ==
    ASSUME TypeInv, NEW n \in Node, Wait(n)
    PROVE  TypeInv'
  BY StartOverType DEF Wait, TypeInv, MaxFaults

LEMMA AttachTypes ==
    ASSUME TypeInv, NEW n \in Node, Attach(n)
    PROVE  TypeInv'
  <1>1. app[n] \in AppRecord /\ daemon[n] \in DaemonRecord  BY DEF TypeInv
  <1>2. [daemon[n] EXCEPT !.serving = TRUE] \in DaemonRecord  BY <1>1 DEF DaemonRecord
  <1>3. daemon[n].bound \in BOOLEAN  BY <1>1 DEF DaemonRecord
  <1> DEFINE next == [StartOver(app[n]) EXCEPT !.attached = TRUE, !.state = "attached",
                                               !.bound = daemon[n].bound]
  <1>4. next \in AppRecord
    <2> DEFINE b == StartOver(app[n])
               bound == daemon[n].bound
    <2>1. b \in AppRecord /\ bound \in BOOLEAN  BY <1>1, <1>3, StartOverType
    <2> HIDE DEF b, bound
    <2>2. "attached" \in LifeState  BY DEF LifeState
    <2>3. [b EXCEPT !.attached = TRUE, !.state = "attached", !.bound = bound] \in AppRecord
      BY <2>1, <2>2 DEF AppRecord
    <2> QED  BY <2>3 DEF b, bound
  <1>5. app' = [app EXCEPT ![n] = next]  BY DEF Attach
  <1> HIDE DEF next
  <1>6. daemon' = [daemon EXCEPT ![n] = [daemon[n] EXCEPT !.serving = TRUE]]  BY DEF Attach
  <1>7. UNCHANGED <<inbox, radio, history, cast>> /\ SetToken(n)  BY DEF Attach
  <1> QED  BY <1>2, <1>4, <1>5, <1>6, <1>7, SetTokenTypes DEF TypeInv

LEMMA JoinTypes ==
    ASSUME TypeInv, NEW n \in Node, Join(n)
    PROVE  TypeInv'
  <1>1. app[n] \in AppRecord /\ daemon[n] \in DaemonRecord  BY DEF TypeInv
  <1> DEFINE next == [StartOver(app[n]) EXCEPT !.state = "joining"]
             left == IF Existing(n) THEN Append(Answers(n), Plain("join_error")) ELSE Answers(n)
             beacon == daemon[n].beacon \/ ~Existing(n)
             node == [daemon[n] EXCEPT !.beacon = beacon]
  <1>2. next \in AppRecord
    <2> DEFINE b == StartOver(app[n])
    <2>1. b \in AppRecord  BY <1>1, StartOverType
    <2> HIDE DEF b
    <2>2. "joining" \in LifeState  BY DEF LifeState
    <2>3. [b EXCEPT !.state = "joining"] \in AppRecord  BY <2>1, <2>2 DEF AppRecord
    <2> QED  BY <2>3 DEF b
  <1>3. left \in Seq(Message)
    BY AnswersKept, MessageType, AppendProperties DEF MessageKinds, MaybeNode
  <1>4. beacon \in BOOLEAN  OBVIOUS
  <1> HIDE DEF beacon
  <1>5. node \in DaemonRecord  BY <1>1, <1>4 DEF DaemonRecord
  <1>6. app' = [app EXCEPT ![n] = next] /\ inbox' = [inbox EXCEPT ![n] = left]
        /\ daemon' = [daemon EXCEPT ![n] = node]
    BY DEF Join, beacon
  <1>7. UNCHANGED <<disk, radio, faults, history, cast>>  BY DEF Join
  <1> HIDE DEF next, left, node
  <1> QED  BY <1>2, <1>3, <1>5, <1>6, <1>7 DEF TypeInv, MaxFaults

LEMMA ImportTypes ==
    ASSUME TypeInv, NEW n \in Node, Import(n)
    PROVE  TypeInv'
  <1>1. app[n] \in AppRecord /\ daemon[n] \in DaemonRecord /\ disk[n] \in DiskRecord
    BY DEF TypeInv
  <1> DEFINE joining == app[n].snap.state = "joining"
             keyed == disk[n].device \/ ~app[n].token
             made == keyed /\ ~Existing(n)
             left == IF joining THEN Answers(n) ELSE inbox[n]
             file == [disk[n] EXCEPT !.creds = TRUE, !.device = @ \/ keyed]
             state == IF keyed THEN "importing" ELSE AfterCancel(n)
             next == [StartOver(app[n]) EXCEPT !.state = state]
             beacon == daemon[n].beacon /\ ~joining /\ ~made
             net == IF made THEN n ELSE daemon[n].net
             addr == IF made THEN n ELSE daemon[n].addr
             node == [daemon[n] EXCEPT !.beacon = beacon, !.net = net, !.addr = addr]
             answer == Plain(IF made THEN "join_complete" ELSE "import_error")
             mail == IF ~keyed THEN left ELSE Append(left, answer)
  <1>2. /\ disk' = [disk EXCEPT ![n] = file] /\ app' = [app EXCEPT ![n] = next]
        /\ daemon' = [daemon EXCEPT ![n] = node] /\ inbox' = [inbox EXCEPT ![n] = mail]
        /\ UNCHANGED <<radio, faults, history, cast>>
    BY DEF Import
  <1>3. state \in LifeState
    BY <1>1, ByTokenType DEF AfterCancel, AppRecord, LifeState
  <1>4. beacon \in BOOLEAN /\ net \in MaybeNode /\ addr \in MaybeNode
    BY <1>1 DEF DaemonRecord, MaybeNode
  <1>5. left \in Seq(Message) /\ answer \in Message
    BY AnswersKept, MessageType DEF TypeInv, MessageKinds, MaybeNode
  <1> HIDE DEF left, answer, made
  <1>6. mail \in Seq(Message)  BY <1>5, AppendProperties
  <1> HIDE DEF beacon, net, addr, state
  <1>7. next \in AppRecord  BY <1>1, <1>3, StartOverType DEF AppRecord
  <1>8. node \in DaemonRecord  BY <1>1, <1>4 DEF DaemonRecord
  <1>9. file \in DiskRecord  BY <1>1 DEF DiskRecord
  <1> HIDE DEF next, node, file, mail
  <1> QED  BY <1>2, <1>6, <1>7, <1>8, <1>9 DEF TypeInv, MaxFaults

LEMMA PrepareKeysTypes ==
    ASSUME TypeInv, NEW n \in Node, PrepareKeys(n)
    PROVE  TypeInv'
  <1>1. app[n] \in AppRecord /\ daemon[n] \in DaemonRecord  BY DEF TypeInv
  <1> DEFINE creator == disk[n].creds /\ daemon[n].net = n
             key == IF creator /\ daemon[n].appkey = Nobody THEN n ELSE daemon[n].appkey
             stage == IF creator \/ daemon[n].appkey # Nobody THEN 1 ELSE 0
             node == [daemon[n] EXCEPT !.appkey = key]
             next == [app[n] EXCEPT !.stage = stage]
  <1>2. /\ daemon' = [daemon EXCEPT ![n] = node] /\ app' = [app EXCEPT ![n] = next]
        /\ UNCHANGED <<disk, inbox, radio, faults, history, cast>>
    BY DEF PrepareKeys
  <1>3. key \in MaybeNode /\ stage \in 0..3  BY <1>1 DEF DaemonRecord, MaybeNode
  <1> HIDE DEF key, stage
  <1>4. node \in DaemonRecord /\ next \in AppRecord
    BY <1>1, <1>3 DEF DaemonRecord, AppRecord
  <1> HIDE DEF node, next
  <1> QED  BY <1>2, <1>4 DEF TypeInv, MaxFaults

LEMMA SetUpTypes ==
    ASSUME TypeInv, NEW n \in Node, SetUp(n)
    PROVE  TypeInv'
  <1>1. app[n] \in AppRecord /\ daemon[n] \in DaemonRecord  BY DEF TypeInv
  <1> DEFINE done == app[n].stage = 3 /\ app[n].bound
             stage == IF app[n].stage < 3 THEN app[n].stage + 1 ELSE IF done THEN 3 ELSE 1
             next == [app[n] EXCEPT !.ready = done, !.stage = stage]
  <1>2. app' = [app EXCEPT ![n] = next]  BY <1>1 DEF SetUp, AppRecord
  <1>3. stage \in 0..3 /\ done \in BOOLEAN  BY <1>1 DEF AppRecord
  <1>6. UNCHANGED <<disk, radio, faults, history, cast>>  BY DEF SetUp
  <1> HIDE DEF stage, done
  <1>4. next \in AppRecord  BY <1>1, <1>3 DEF AppRecord
  <1> HIDE DEF next
  <1>5. daemon' \in [Node -> DaemonRecord] /\ inbox' \in [Node -> Seq(Message)]
    <2>1. CASE daemon' = [daemon EXCEPT ![n].bound = TRUE] /\ Tell(n, Plain("bound"))
      <3>1. [daemon[n] EXCEPT !.bound = TRUE] \in DaemonRecord  BY <1>1 DEF DaemonRecord
      <3>2. Plain("bound") \in Message  BY MessageType DEF MessageKinds, MaybeNode
      <3>3. inbox' \in [Node -> Seq(Message)]  BY <2>1, <3>2, TellType DEF TypeInv
      <3> QED  BY <2>1, <3>1, <3>3 DEF TypeInv
    <2>2. CASE UNCHANGED <<daemon, inbox>>  BY <2>2 DEF TypeInv
    <2> QED  BY <2>1, <2>2 DEF SetUp
  <1> QED  BY <1>2, <1>4, <1>5, <1>6 DEF TypeInv, MaxFaults

\* A request of AddNode leaves the daemons and the inboxes of their types.
LEMMA RequestTypes ==
    ASSUME TypeInv, NEW n \in Node, NEW m \in Node, Request(n, m)
    PROVE  daemon' \in [Node -> DaemonRecord] /\ inbox' \in [Node -> Seq(Message)]
  <1>1. daemon[n] \in DaemonRecord  BY DEF TypeInv
  <1>2. About("add_refused", m, Nobody) \in Message /\ About("add_started", m, Nobody) \in Message
    BY MessageType DEF MessageKinds, MaybeNode
  <1>3. CASE daemon[n].session.to # Nobody
    BY <1>2, <1>3, TellType DEF Request, TypeInv
  <1>4. CASE daemon[n].session.to = Nobody
    <2> DEFINE session == [to |-> m, addr |-> Nobody]
    <2>1. session \in SessionRecord  BY DEF SessionRecord, MaybeNode
    <2>2. daemon' = [daemon EXCEPT ![n].session = session]  BY <1>4 DEF Request
    <2> HIDE DEF session
    <2>3. [daemon[n] EXCEPT !.session = session] \in DaemonRecord
      BY <1>1, <2>1 DEF DaemonRecord
    <2>4. daemon' \in [Node -> DaemonRecord]  BY <2>2, <2>3 DEF TypeInv
    <2>5. Tell(n, About("add_started", m, Nobody)) \/ UNCHANGED inbox
      BY <1>4 DEF Request
    <2>6. inbox' \in [Node -> Seq(Message)]  BY <1>2, <2>5, TellType DEF TypeInv
    <2> QED  BY <2>4, <2>6
  <1> QED  BY <1>3, <1>4

LEMMA EnrollTypes ==
    ASSUME TypeInv, NEW n \in Node, Enroll(n)
    PROVE  TypeInv'
  <1>1. app[n] \in AppRecord  BY DEF TypeInv
  <1>2. PICK a \in Afterwards(n, TakeEvents(app[n])) :
          LET step == Step(n, a) IN
          /\ radio' = radio \cup step.sent
          /\ \/ /\ step.next.pend # Nobody \/ Absent(n) = {}
                /\ app' = [app EXCEPT ![n] = step.next] /\ UNCHANGED <<daemon, inbox>>
             \/ /\ step.next.pend = Nobody
                /\ \E m \in Sought(n, step.next) :
                      /\ app' = [app EXCEPT ![n] = Attempt(step.next, m)]
                      /\ IF step.next.starting THEN UNCHANGED <<daemon, inbox>>
                         ELSE Request(n, m)
    BY Zenon DEF Enroll
  <1>3. a \in AppRecord
    BY <1>1, TakeEventsType, ForgetType DEF Afterwards
  <1> DEFINE step == Step(n, a)
  <1>4. step.next \in AppRecord /\ step.sent \subseteq Letter  BY <1>3, StepType
  <1> HIDE DEF step
  <1>5. radio' \subseteq Letter  BY <1>2, <1>4 DEF step, TypeInv
  <1>6. /\ app' \in [Node -> AppRecord]
        /\ daemon' \in [Node -> DaemonRecord] /\ inbox' \in [Node -> Seq(Message)]
    <2>1. CASE app' = [app EXCEPT ![n] = step.next] /\ UNCHANGED <<daemon, inbox>>
      BY <2>1, <1>4 DEF TypeInv
    <2>2. CASE \E m \in Sought(n, step.next) :
                      /\ app' = [app EXCEPT ![n] = Attempt(step.next, m)]
                      /\ IF step.next.starting THEN UNCHANGED <<daemon, inbox>>
                         ELSE Request(n, m)
      <3>1. PICK m \in Sought(n, step.next) :
                      /\ app' = [app EXCEPT ![n] = Attempt(step.next, m)]
                      /\ IF step.next.starting THEN UNCHANGED <<daemon, inbox>>
                         ELSE Request(n, m)
        BY <2>2
      <3>2. m \in Node  BY DEF Sought, Absent
      <3>3. Attempt(step.next, m) \in AppRecord  BY <1>4, <3>2, AttemptType
      <3>4. daemon' \in [Node -> DaemonRecord] /\ inbox' \in [Node -> Seq(Message)]
        BY <3>1, <3>2, RequestTypes DEF TypeInv
      <3> QED  BY <3>1, <3>3, <3>4 DEF TypeInv
    <2> QED  BY <1>2, <2>1, <2>2 DEF step
  <1>7. UNCHANGED <<disk, faults, history, cast>>  BY DEF Enroll
  <1> QED  BY <1>5, <1>6, <1>7 DEF TypeInv, MaxFaults

LEMMA HandleTypes ==
    ASSUME TypeInv, NEW n \in Node, Handle(n)
    PROVE  TypeInv'
  <1>1. app[n] \in AppRecord /\ inbox[n] \in Seq(Message) /\ inbox[n] # <<>>
    BY DEF TypeInv, Handle
  <1> DEFINE message == Head(inbox[n])
  <1>2. message \in Message /\ Tail(inbox[n]) \in Seq(Message)
    BY <1>1, HeadTailProperties
  <1>3. inbox' \in [Node -> Seq(Message)]
    <2>1. inbox' = [inbox EXCEPT ![n] = Tail(inbox[n])]  BY DEF Handle
    <2> QED  BY <1>2, <2>1 DEF TypeInv
  <1>4. UNCHANGED <<daemon, radio, history, cast>>  BY DEF Handle
  <1> HIDE DEF message
  <1>5. \A a \in AppRecord : app' = [app EXCEPT ![n] = a] => app' \in [Node -> AppRecord]
    BY DEF TypeInv
  <1>6. UNCHANGED <<disk, faults>> => disk' \in [Node -> DiskRecord] /\ faults' \in 0..MaxFaults'
    BY <1>4 DEF TypeInv, MaxFaults
  <1>7. app' \in [Node -> AppRecord] /\ disk' \in [Node -> DiskRecord] /\ faults' \in 0..MaxFaults'
    <2>1. CASE message.kind = "join_complete"
      <3>1. app' = [app EXCEPT ![n] = [app[n] EXCEPT !.token = TRUE, !.state = "provisioned"]]
            /\ SetToken(n)
        BY <2>1 DEF Handle, message
      <3>2. [app[n] EXCEPT !.token = TRUE, !.state = "provisioned"] \in AppRecord
        BY <1>1 DEF AppRecord, LifeState
      <3> QED  BY <1>4, <1>5, <3>1, <3>2, SetTokenTypes
    <2>2. CASE message.kind = "join_failed"
      <3>1. app' = [app EXCEPT ![n] = [app[n] EXCEPT !.state = "join_failed"]]
            /\ UNCHANGED <<disk, faults>>
        BY <2>2 DEF Handle, message
      <3>2. [app[n] EXCEPT !.state = "join_failed"] \in AppRecord
        BY <1>1 DEF AppRecord, LifeState
      <3> QED  BY <1>5, <1>6, <3>1, <3>2
    <2>3. CASE message.kind = "join_error"
      <3> DEFINE state == IF app[n].state = "joining" THEN ByToken(n) ELSE app[n].state
      <3>1. app' = [app EXCEPT ![n] = [app[n] EXCEPT !.state = state]]
            /\ UNCHANGED <<disk, faults>>
        BY <2>3 DEF Handle, message
      <3>2. state \in LifeState  BY <1>1, ByTokenType DEF AppRecord
      <3> HIDE DEF state
      <3>3. [app[n] EXCEPT !.state = state] \in AppRecord  BY <1>1, <3>2 DEF AppRecord
      <3> QED  BY <1>5, <1>6, <3>1, <3>3
    <2>4. CASE message.kind = "import_error"
      <3>1. app' = [app EXCEPT ![n] = [app[n] EXCEPT !.state = ByToken(n)]]
            /\ UNCHANGED <<disk, faults>>
        BY <2>4 DEF Handle, message
      <3>2. [app[n] EXCEPT !.state = ByToken(n)] \in AppRecord
        BY <1>1, ByTokenType DEF AppRecord
      <3> QED  BY <1>5, <1>6, <3>1, <3>2
    <2>5. CASE message.kind = "bound"
      <3>1. app' = [app EXCEPT ![n] = [app[n] EXCEPT !.bound = TRUE]]
            /\ UNCHANGED <<disk, faults>>
        BY <2>5 DEF Handle, message
      <3>2. [app[n] EXCEPT !.bound = TRUE] \in AppRecord  BY <1>1 DEF AppRecord
      <3> QED  BY <1>5, <1>6, <3>1, <3>2
    <2>6. CASE message.kind = "add_started"
      <3>1. app' = [app EXCEPT ![n] = [app[n] EXCEPT !.starting = FALSE]]
            /\ UNCHANGED <<disk, faults>>
        BY <2>6 DEF Handle, message
      <3>2. [app[n] EXCEPT !.starting = FALSE] \in AppRecord  BY <1>1 DEF AppRecord
      <3> QED  BY <1>5, <1>6, <3>1, <3>2
    <2>7. CASE message.kind \notin {"join_complete", "join_failed", "join_error", "import_error",
                                    "bound", "add_started"}
      <3> DEFINE starting == app[n].starting /\ message.kind # "add_refused"
                 events == Append(app[n].events, message)
      <3>1. app' = [app EXCEPT ![n] = [app[n] EXCEPT !.events = events, !.starting = starting]]
            /\ UNCHANGED <<disk, faults>>
        BY <2>7 DEF Handle, message
      <3>2. events \in Seq(Message) /\ starting \in BOOLEAN
        BY <1>1, <1>2, AppendProperties DEF AppRecord
      <3> HIDE DEF events, starting
      <3>3. [app[n] EXCEPT !.events = events, !.starting = starting] \in AppRecord
        BY <1>1, <3>2 DEF AppRecord
      <3> QED  BY <1>5, <1>6, <3>1, <3>3
    <2> QED  BY <2>1, <2>2, <2>3, <2>4, <2>5, <2>6, <2>7
  <1> QED  BY <1>3, <1>4, <1>7 DEF TypeInv

LEMMA ReplyTimeoutTypes ==
    ASSUME TypeInv, NEW n \in Node, ReplyTimeout(n)
    PROVE  TypeInv'
  <1>1. daemon[n].session.to \in MaybeNode  BY DEF TypeInv, DaemonRecord, SessionRecord
  <1>2. About("add_refused", daemon[n].session.to, Nobody) \in Message
    BY <1>1, MessageType DEF MessageKinds, MaybeNode
  <1>3. inbox' \in [Node -> Seq(Message)]
    BY <1>2, TellType DEF ReplyTimeout, TypeInv
  <1>4. UNCHANGED <<app, disk, daemon, radio, faults, history, cast>>  BY DEF ReplyTimeout
  <1> QED  BY <1>3, <1>4 DEF TypeInv, MaxFaults

LEMMA RequestProvDataTypes ==
    ASSUME TypeInv, NEW n \in Node, RequestProvData(n)
    PROVE  TypeInv'
  <1>1. app[n] \in AppRecord /\ daemon[n] \in DaemonRecord  BY DEF TypeInv
  <1>2. daemon[n].session \in SessionRecord /\ app[n].reserved \in MaybeNode
    BY <1>1 DEF AppRecord, DaemonRecord
  <1>3. app' \in [Node -> AppRecord]
    <2>1. [app[n] EXCEPT !.reserved = Nobody] \in AppRecord  BY <1>1 DEF AppRecord, MaybeNode
    <2>2. app' = [app EXCEPT ![n] = [app[n] EXCEPT !.reserved = Nobody]]  BY DEF RequestProvData
    <2> QED  BY <2>1, <2>2 DEF TypeInv
  <1>6. history' \in HistoryRecord
    <2>1. daemon[n].session.to \in Node  BY <1>2 DEF SessionRecord, MaybeNode, RequestProvData
    <2>2. history \in HistoryRecord  BY DEF TypeInv
    <2>3. CASE app[n].pend = daemon[n].session.to
      BY <2>2, <2>3 DEF RequestProvData, HistoryRecord
    <2>4. CASE app[n].pend # daemon[n].session.to
      BY <2>1, <2>2, <2>4 DEF RequestProvData, HistoryRecord
    <2> QED  BY <2>3, <2>4
  <1>4. CASE app[n].reserved # Nobody
    <2> DEFINE session == [daemon[n].session EXCEPT !.addr = app[n].reserved]
    <2>1. session \in SessionRecord  BY <1>2 DEF SessionRecord, RequestProvData
    <2>2. daemon' = [daemon EXCEPT ![n] = [daemon[n] EXCEPT !.session = session]]
          /\ UNCHANGED inbox
      BY <1>4 DEF RequestProvData
    <2> HIDE DEF session
    <2>3. [daemon[n] EXCEPT !.session = session] \in DaemonRecord
      BY <1>1, <2>1 DEF DaemonRecord
    <2> QED  BY <1>3, <1>6, <2>2, <2>3 DEF RequestProvData, TypeInv, MaxFaults
  <1>5. CASE app[n].reserved = Nobody
    <2>1. daemon' = [daemon EXCEPT ![n].session = NoSession]
          /\ Tell(n, About("add_failed", daemon[n].session.to, Nobody))
      BY <1>5 DEF RequestProvData
    <2>2. NoSession \in SessionRecord  BY NewDaemonType
    <2>3. [daemon[n] EXCEPT !.session = NoSession] \in DaemonRecord
      BY <1>1, <2>2 DEF DaemonRecord
    <2>4. About("add_failed", daemon[n].session.to, Nobody) \in Message
      BY <1>2, MessageType DEF SessionRecord, MessageKinds, MaybeNode
    <2>5. inbox' \in [Node -> Seq(Message)]  BY <2>1, <2>4, TellType DEF TypeInv
    <2>6. daemon' \in [Node -> DaemonRecord]  BY <2>1, <2>3 DEF TypeInv
    <2> QED  BY <1>3, <1>6, <2>5, <2>6 DEF RequestProvData, TypeInv, MaxFaults
  <1> QED  BY <1>4, <1>5

LEMMA JoinExpiresTypes ==
    ASSUME TypeInv, NEW n \in Node, JoinExpires(n)
    PROVE  TypeInv'
  <1>1. daemon' \in [Node -> DaemonRecord]
    <2> daemon[n] \in DaemonRecord  BY DEF TypeInv
    <2>1. [daemon[n] EXCEPT !.beacon = FALSE] \in DaemonRecord  BY DEF DaemonRecord
    <2>2. daemon' = [daemon EXCEPT ![n] = [daemon[n] EXCEPT !.beacon = FALSE]]  BY DEF JoinExpires
    <2> QED  BY <2>1, <2>2 DEF TypeInv
  <1>2. Plain("join_failed") \in Message  BY MessageType DEF MessageKinds, MaybeNode
  <1>3. inbox' \in [Node -> Seq(Message)]  BY <1>2, TellType DEF JoinExpires, TypeInv
  <1>4. UNCHANGED <<app, disk, radio, faults, history, cast>>  BY DEF JoinExpires
  <1> QED  BY <1>1, <1>3, <1>4 DEF TypeInv, MaxFaults

\* A provisioning is what happens at the newcomer, then what happens at the
\* provisioner, in the daemons and in their messages.
LEMMA ProvisionEffect ==
    ASSUME TypeInv, NEW n \in Node, Provision(n)
    PROVE  LET m == daemon[n].session.to
               a == daemon[n].session.addr
               new == [daemon[m] EXCEPT !.net = daemon[n].net, !.addr = a, !.beacon = FALSE]
               d == [daemon EXCEPT ![m] = new]
               q == [inbox EXCEPT ![m] = Append(inbox[m], Plain("join_complete"))] IN
           /\ m \in Node /\ a \in Node /\ daemon[m].beacon
           /\ d \in [Node -> DaemonRecord] /\ q \in [Node -> Seq(Message)]
           /\ \E ring \in SUBSET Node, kind \in {"add_complete", "add_failed"}, b \in MaybeNode :
                 /\ daemon' = [d EXCEPT ![n] = [d[n] EXCEPT !.session = NoSession, !.ring = ring]]
                 /\ inbox' = [q EXCEPT ![n] = Append(q[n], About(kind, m, b))]
           /\ faults' \in 0..MaxFaults'
           /\ UNCHANGED <<app, disk, radio, history, cast>>
  <1> DEFINE m == daemon[n].session.to
             a == daemon[n].session.addr
             new == [daemon[m] EXCEPT !.net = daemon[n].net, !.addr = a, !.beacon = FALSE]
             d == [daemon EXCEPT ![m] = new]
             q == [inbox EXCEPT ![m] = Append(inbox[m], Plain("join_complete"))]
  <1>1. m \in Node /\ a \in Node
    <2>1. daemon[n].session \in SessionRecord  BY DEF TypeInv, DaemonRecord
    <2>2. a # Nobody  BY DEF Provision
    <2> QED  BY <2>1, <2>2 DEF SessionRecord, MaybeNode
  <1>2. daemon[m] \in DaemonRecord /\ daemon[n] \in DaemonRecord  BY <1>1 DEF TypeInv
  <1>3. daemon[m].beacon /\ UNCHANGED <<app, disk, radio, history, cast>>  BY DEF Provision
  <1>4. new \in DaemonRecord  BY <1>1, <1>2 DEF DaemonRecord, MaybeNode
  <1>5. Append(inbox[m], Plain("join_complete")) \in Seq(Message)
    BY <1>1, MessageType, AppendProperties DEF TypeInv, MessageKinds, MaybeNode
  <1>6. d \in [Node -> DaemonRecord] /\ q \in [Node -> Seq(Message)]
    <2> HIDE DEF new, m
    <2> QED  BY <1>1, <1>4, <1>5 DEF TypeInv
  <1>7. PICK known \in BOOLEAN :
          /\ IF known THEN UNCHANGED faults
             ELSE ~Careful /\ faults < MaxFaults /\ faults' = faults + 1
          /\ daemon' = [daemon EXCEPT ![m].net = daemon[n].net, ![m].addr = a,
                ![m].beacon = FALSE, ![n].session = NoSession,
                ![n].ring = IF known THEN @ \cup {a} ELSE @]
          /\ inbox' = [q EXCEPT ![n] = Append(@, IF known THEN About("add_complete", m, a)
                                                 ELSE About("add_failed", m, Nobody))]
    BY Zenon DEF Provision
  <1>8. faults' \in 0..MaxFaults'
    BY <1>3, <1>7, FaultType DEF TypeInv, MaxFaults
  <1> DEFINE ring == IF known THEN d[n].ring \cup {a} ELSE d[n].ring
             kind == IF known THEN "add_complete" ELSE "add_failed"
             b == IF known THEN a ELSE Nobody
  <1>9. ring \in SUBSET Node /\ kind \in {"add_complete", "add_failed"} /\ b \in MaybeNode
    <2>1. d[n].ring \in SUBSET Node  BY <1>6 DEF DaemonRecord
    <2> HIDE DEF d, a
    <2> QED  BY <2>1, <1>1 DEF MaybeNode
  <1>10. daemon' = [d EXCEPT ![n] = [d[n] EXCEPT !.session = NoSession, !.ring = ring]]
    <2> DEFINE d1 == [daemon EXCEPT ![m].net = daemon[n].net, ![m].addr = a, ![m].beacon = FALSE]
    <2>1. d1 = d  BY <1>1, <1>2 DEF TypeInv, DaemonRecord
    <2>2. daemon' = [d1 EXCEPT ![n].session = NoSession,
                               ![n].ring = IF known THEN @ \cup {a} ELSE @]
      BY <1>7, ZenonT(60)
    <2> HIDE DEF d1, d, a
    <2>3. daemon' = [d EXCEPT ![n].session = NoSession,
                               ![n].ring = IF known THEN @ \cup {a} ELSE @]
      BY <2>1, <2>2
    <2>4. d[n] \in DaemonRecord  BY <1>6
    <2>5. daemon' = [d EXCEPT ![n].session = NoSession, ![n].ring = ring]
      BY <2>3, <2>4, <1>6 DEF DaemonRecord, ring
    <2> QED  BY <2>5, <1>6
  <1>11. inbox' = [q EXCEPT ![n] = Append(q[n], About(kind, m, b))]
    <2>1. About(kind, m, b) = IF known THEN About("add_complete", m, a)
                                       ELSE About("add_failed", m, Nobody)
      OBVIOUS
    <2> HIDE DEF q, kind, b, m
    <2> QED  BY <1>7, <2>1
  <1> HIDE DEF ring, kind, b
  <1>12. \E r \in SUBSET Node, k \in {"add_complete", "add_failed"}, c \in MaybeNode :
                 /\ daemon' = [d EXCEPT ![n] = [d[n] EXCEPT !.session = NoSession, !.ring = r]]
                 /\ inbox' = [q EXCEPT ![n] = Append(q[n], About(k, m, c))]
    <2> HIDE DEF d, q, m
    <2> QED  BY <1>9, <1>10, <1>11, Zenon
  <1> QED  BY <1>1, <1>3, <1>6, <1>8, <1>12, Zenon

LEMMA ProvisionTypes ==
    ASSUME TypeInv, NEW n \in Node, Provision(n)
    PROVE  TypeInv'
  <1> DEFINE m == daemon[n].session.to
             a == daemon[n].session.addr
             new == [daemon[m] EXCEPT !.net = daemon[n].net, !.addr = a, !.beacon = FALSE]
             d == [daemon EXCEPT ![m] = new]
             q == [inbox EXCEPT ![m] = Append(inbox[m], Plain("join_complete"))]
  <1>1. /\ m \in Node /\ d \in [Node -> DaemonRecord] /\ q \in [Node -> Seq(Message)]
        /\ faults' \in 0..MaxFaults' /\ UNCHANGED <<app, disk, radio, history, cast>>
    BY ProvisionEffect, Zenon
  <1>2. PICK ring \in SUBSET Node, kind \in {"add_complete", "add_failed"}, b \in MaybeNode :
                 /\ daemon' = [d EXCEPT ![n] = [d[n] EXCEPT !.session = NoSession, !.ring = ring]]
                 /\ inbox' = [q EXCEPT ![n] = Append(q[n], About(kind, m, b))]
    BY ProvisionEffect, Zenon
  <1> HIDE DEF d, q, m
  <1>3. NoSession \in SessionRecord  BY NewDaemonType
  <1>4. [d[n] EXCEPT !.session = NoSession, !.ring = ring] \in DaemonRecord
    <2>1. d[n] \in DaemonRecord  BY <1>1
    <2> QED  BY <2>1, <1>3 DEF DaemonRecord
  <1>5. Append(q[n], About(kind, m, b)) \in Seq(Message)
    BY <1>1, MessageType, AppendProperties DEF MessageKinds, MaybeNode
  <1> QED  BY <1>1, <1>2, <1>4, <1>5 DEF TypeInv

LEMMA GiveUpTypes ==
    ASSUME TypeInv, NEW n \in Node, GiveUp(n)
    PROVE  TypeInv'
  <1>1. daemon[n] \in DaemonRecord  BY DEF TypeInv
  <1>2. daemon[n].session \in SessionRecord  BY <1>1 DEF DaemonRecord
  <1>3. NoSession \in SessionRecord  BY NewDaemonType
  <1>4. [daemon[n] EXCEPT !.session = NoSession] \in DaemonRecord
    BY <1>1, <1>3 DEF DaemonRecord
  <1>5. daemon' = [daemon EXCEPT ![n].session = NoSession]
        /\ Tell(n, About("add_failed", daemon[n].session.to, Nobody))
    BY DEF GiveUp
  <1>6. daemon' \in [Node -> DaemonRecord]  BY <1>4, <1>5 DEF TypeInv
  <1>7. About("add_failed", daemon[n].session.to, Nobody) \in Message
    BY <1>2, MessageType DEF SessionRecord, MessageKinds, MaybeNode
  <1>8. inbox' \in [Node -> Seq(Message)]  BY <1>5, <1>7, TellType DEF TypeInv
  <1>9. UNCHANGED <<app, disk, radio, history, cast>>  BY DEF GiveUp
  <1>10. faults' \in 0..MaxFaults'
    BY <1>9, FaultType DEF GiveUp, TypeInv, MaxFaults
  <1> QED  BY <1>6, <1>8, <1>9, <1>10 DEF TypeInv

LEMMA DeliverTypes ==
    ASSUME TypeInv, NEW c \in radio, Deliver(c)
    PROVE  TypeInv'
  <1> DEFINE m == c.dst
             key == IF daemon[m].appkey = Nobody THEN daemon[c.src].appkey ELSE daemon[m].appkey
  <1>1. c.src \in Node /\ radio' \subseteq Letter  BY DEF TypeInv, Letter, Deliver
  <1>2. UNCHANGED <<app, disk, faults, history, cast>>  BY DEF Deliver
  <1>3. daemon' \in [Node -> DaemonRecord] /\ inbox' \in [Node -> Seq(Message)]
    <2>1. CASE UNCHANGED <<daemon, inbox>>  BY <2>1 DEF TypeInv
    <2>2. CASE daemon' = [daemon EXCEPT ![m] = [daemon[m] EXCEPT !.appkey = key]]
               /\ UNCHANGED inbox
      <3>1. CASE m \in Node
        <4>1. daemon[m] \in DaemonRecord /\ daemon[c.src] \in DaemonRecord
          BY <1>1, <3>1 DEF TypeInv
        <4>2. key \in MaybeNode  BY <4>1 DEF DaemonRecord
        <4> HIDE DEF key, m
        <4>3. [daemon[m] EXCEPT !.appkey = key] \in DaemonRecord  BY <4>1, <4>2 DEF DaemonRecord
        <4> QED  BY <2>2, <4>3 DEF TypeInv
      <3>2. CASE m \notin Node  BY <2>2, <3>2 DEF TypeInv
      <3> QED  BY <3>1, <3>2
    <2>3. CASE /\ daemon' = [daemon EXCEPT ![m] = [daemon[m] EXCEPT !.bound = TRUE]]
               /\ Tell(m, Plain("bound")) \/ UNCHANGED inbox
      <3>1. Plain("bound") \in Message  BY MessageType DEF MessageKinds, MaybeNode
      <3>2. inbox' \in [Node -> Seq(Message)]
        <4> HIDE DEF m
        <4> QED  BY <2>3, <3>1, TellType DEF TypeInv
      <3>3. CASE m \in Node
        <4>1. daemon[m] \in DaemonRecord  BY <3>3 DEF TypeInv
        <4> HIDE DEF m
        <4>2. [daemon[m] EXCEPT !.bound = TRUE] \in DaemonRecord  BY <4>1 DEF DaemonRecord
        <4> QED  BY <2>3, <3>2, <4>2 DEF TypeInv
      <3>4. CASE m \notin Node  BY <2>3, <3>2, <3>4 DEF TypeInv
      <3> QED  BY <3>3, <3>4
    <2> QED  BY <2>1, <2>2, <2>3 DEF Deliver
  <1> QED  BY <1>1, <1>2, <1>3 DEF TypeInv, MaxFaults

LEMMA LoseTypes ==
    ASSUME TypeInv, NEW c \in radio, Lose(c)
    PROVE  TypeInv'
  <1>1. c.dst \in MaybeNode /\ radio' \subseteq Letter  BY DEF TypeInv, Letter, Lose
  <1>2. history' \in HistoryRecord
    <2>1. history \in HistoryRecord  BY DEF TypeInv
    <2>2. CASE c.kind = "appkey"  BY <1>1, <2>1, <2>2 DEF Lose, HistoryRecord
    <2>3. CASE c.kind # "appkey"  BY <2>1, <2>3 DEF Lose, HistoryRecord
    <2> QED  BY <2>2, <2>3
  <1>3. UNCHANGED <<app, disk, daemon, inbox, faults, cast>>  BY DEF Lose
  <1> QED  BY <1>1, <1>2, <1>3 DEF TypeInv, MaxFaults

LEMMA CrashTypes ==
    ASSUME TypeInv, NEW n \in Node, Crash(n)
    PROVE  TypeInv'
  <1>1. app' \in [Node -> AppRecord]
    <2>1. [NewApp(FALSE) EXCEPT !.up = FALSE] \in AppRecord  BY NewAppType
    <2>2. app' = [app EXCEPT ![n] = [NewApp(FALSE) EXCEPT !.up = FALSE]]  BY DEF Crash
    <2> QED  BY <2>1, <2>2 DEF TypeInv
  <1>2. inbox' \in [Node -> Seq(Message)]
    <2>1. inbox' = [inbox EXCEPT ![n] = <<>>] /\ <<>> \in Seq(Message)  BY DEF Crash
    <2> QED  BY <2>1 DEF TypeInv
  <1>3. daemon' \in [Node -> DaemonRecord]
    <2> DEFINE unborn == \E i \in DOMAIN inbox[n] : inbox[n][i].kind = "join_complete"
               node == IF unborn THEN [NewDaemon EXCEPT !.up = daemon[n].up]
                       ELSE [daemon[n] EXCEPT !.beacon = FALSE, !.serving = FALSE,
                                              !.session = NoSession]
    <2>1. daemon' = [daemon EXCEPT ![n] = node]  BY DEF Crash
    <2>2. daemon[n] \in DaemonRecord  BY DEF TypeInv
    <2>3. [NewDaemon EXCEPT !.up = daemon[n].up] \in DaemonRecord
      BY <2>2, NewDaemonType DEF DaemonRecord
    <2>4. [daemon[n] EXCEPT !.beacon = FALSE, !.serving = FALSE, !.session = NoSession]
             \in DaemonRecord
      BY <2>2, NewDaemonType DEF DaemonRecord
    <2>5. node \in DaemonRecord  BY <2>3, <2>4
    <2> HIDE DEF node
    <2> QED  BY <2>1, <2>5 DEF TypeInv
  <1>4. UNCHANGED <<disk, radio, history, cast>>  BY DEF Crash
  <1>5. faults' \in 0..MaxFaults'  BY <1>4, FaultType DEF Crash, Strike
  <1> QED  BY <1>1, <1>2, <1>3, <1>4, <1>5 DEF TypeInv

LEMMA StartTypes ==
    ASSUME TypeInv, NEW n \in Node, Start(n)
    PROVE  TypeInv'
  <1>1. disk[n].token \in BOOLEAN  BY DEF TypeInv, DiskRecord
  <1>2. NewApp(disk[n].token) \in AppRecord  BY <1>1, NewAppType
  <1>3. app' = [app EXCEPT ![n] = NewApp(disk[n].token)]
        /\ UNCHANGED <<disk, daemon, inbox, radio, faults, history, cast>>
    BY DEF Start
  <1> QED  BY <1>2, <1>3 DEF TypeInv, MaxFaults

LEMMA DaemonStopsTypes ==
    ASSUME TypeInv, NEW n \in Node, DaemonStops(n)
    PROVE  TypeInv'
  <1> DEFINE node == [daemon[n] EXCEPT !.up = FALSE, !.beacon = FALSE, !.serving = FALSE,
                                       !.session = NoSession]
  <1>1. daemon[n] \in DaemonRecord  BY DEF TypeInv
  <1>2. node \in DaemonRecord  BY <1>1, NewDaemonType DEF DaemonRecord
  <1>3. daemon' = [daemon EXCEPT ![n] = node]  BY DEF DaemonStops
  <1> HIDE DEF node
  <1>4. UNCHANGED <<app, disk, inbox, radio, history, cast>>  BY DEF DaemonStops
  <1>5. faults' \in 0..MaxFaults'  BY <1>4, FaultType DEF DaemonStops, Strike
  <1> QED  BY <1>2, <1>3, <1>4, <1>5 DEF TypeInv

LEMMA DaemonStartsTypes ==
    ASSUME TypeInv, NEW n \in Node, DaemonStarts(n)
    PROVE  TypeInv'
  <1>1. daemon[n] \in DaemonRecord  BY DEF TypeInv
  <1>2. [daemon[n] EXCEPT !.up = TRUE] \in DaemonRecord  BY <1>1 DEF DaemonRecord
  <1>3. daemon' = [daemon EXCEPT ![n] = [daemon[n] EXCEPT !.up = TRUE]]
        /\ UNCHANGED <<app, disk, inbox, radio, faults, history, cast>>
    BY DEF DaemonStarts
  <1> QED  BY <1>2, <1>3 DEF TypeInv, MaxFaults

LEMMA TypesStep == TypeInv /\ [Next]_vars => TypeInv'
  <1> SUFFICES ASSUME TypeInv, [Next]_vars PROVE TypeInv'  OBVIOUS
  <1>1. ASSUME NEW n \in Node, Pass(n) PROVE TypeInv'
    BY <1>1, WaitTypes, AttachTypes, JoinTypes, ImportTypes, PrepareKeysTypes, SetUpTypes,
       EnrollTypes DEF Pass
  <1>2. ASSUME NEW n \in Node,
               \/ Refresh(n) \/ Handle(n) \/ ReplyTimeout(n)
               \/ RequestProvData(n) \/ Provision(n) \/ JoinExpires(n) \/ GiveUp(n)
               \/ Crash(n) \/ Start(n) \/ DaemonStops(n) \/ DaemonStarts(n)
        PROVE TypeInv'
    BY <1>2, RefreshTypes, HandleTypes, ReplyTimeoutTypes, RequestProvDataTypes,
       ProvisionTypes, JoinExpiresTypes, GiveUpTypes, CrashTypes, StartTypes,
       DaemonStopsTypes, DaemonStartsTypes
  <1>3. ASSUME NEW c \in radio, Deliver(c) \/ Lose(c) PROVE TypeInv'
    BY <1>3, DeliverTypes, LoseTypes
  <1>4. CASE UNCHANGED vars  BY <1>4 DEF vars, TypeInv, MaxFaults
  <1> QED  BY <1>1, <1>2, <1>3, <1>4 DEF Next

LEMMA TypesAlways == Spec => []TypeInv
  BY TypesInit, TypesStep, PTL DEF Spec

\* EnrollmentTypes: whatever sessions fail, messages come late or processes die, the
\* members of the applications, of the coordinators and of the daemons keep to their types.
THEOREM EnrollmentTypes == Spec => []TypeOK
  <1>1. TypeInv => TypeOK
    <2> SUFFICES ASSUME TypeInv PROVE TypeOK  OBVIOUS
    <2>1. /\ cast \in Casts /\ faults \in 0..MaxFaults
          /\ history \in [strays : SUBSET Node, keyless : SUBSET MaybeNode]
      BY DEF TypeInv, HistoryRecord
    <2>2. ASSUME NEW n \in Node
          PROVE  LET a == app[n] d == daemon[n] IN
                 /\ {a.up, a.token, a.attached, a.bound, a.ready, a.starting, a.snap.taken} \subseteq BOOLEAN
                 /\ a.state \in LifeState
                 /\ a.snap.state \in LifeState \cup {""}
                 /\ a.stage \in 0..3 /\ a.remote \in 0..2 /\ a.clock \in {"off", "running"}
                 /\ {a.reserved, a.pend, a.last} \subseteq MaybeNode
                 /\ a.events \in Seq(Message) /\ inbox[n] \in Seq(Message)
                 /\ disk[n] \in [token : BOOLEAN, device : BOOLEAN, creds : BOOLEAN]
                 /\ {d.up, d.bound, d.serving, d.beacon} \subseteq BOOLEAN
                 /\ {d.net, d.addr, d.appkey, d.session.to, d.session.addr} \subseteq MaybeNode
                 /\ d.ring \subseteq Node
      <3>1. app[n] \in AppRecord /\ daemon[n] \in DaemonRecord /\ disk[n] \in DiskRecord
            /\ inbox[n] \in Seq(Message)
        BY DEF TypeInv
      <3>2. app[n].snap \in SnapRecord /\ daemon[n].session \in SessionRecord
        BY <3>1 DEF AppRecord, DaemonRecord
      <3>3. /\ app[n].snap.taken \in BOOLEAN /\ app[n].snap.state \in LifeState \cup {""}
            /\ daemon[n].session.to \in MaybeNode /\ daemon[n].session.addr \in MaybeNode
        BY <3>2 DEF SnapRecord, SessionRecord
      <3>4. /\ {app[n].up, app[n].token, app[n].attached, app[n].bound, app[n].ready,
                 app[n].starting} \subseteq BOOLEAN
            /\ app[n].state \in LifeState
            /\ app[n].stage \in 0..3 /\ app[n].remote \in 0..2
            /\ app[n].clock \in {"off", "running"}
            /\ {app[n].reserved, app[n].pend, app[n].last} \subseteq MaybeNode
            /\ app[n].events \in Seq(Message)
        BY <3>1 DEF AppRecord
      <3>5. /\ {daemon[n].up, daemon[n].bound, daemon[n].serving, daemon[n].beacon} \subseteq BOOLEAN
            /\ {daemon[n].net, daemon[n].addr, daemon[n].appkey} \subseteq MaybeNode
            /\ daemon[n].ring \subseteq Node
        BY <3>1 DEF DaemonRecord
      <3> QED  BY <3>1, <3>3, <3>4, <3>5 DEF DiskRecord
    <2> QED  BY <2>1, <2>2 DEF TypeOK
  <1> QED  BY <1>1, TypesAlways, PTL

-----------------------------------------------------------------------------
(* The application key                                                      *)

\* The key a daemon holds is that of its network; only a node in a network has one, only
\* a node in none answers to provisioners, and an application past the first step of its
\* setup has a key.
KeyAt(n) ==
    /\ daemon[n].appkey \in {Nobody, daemon[n].net}
    /\ daemon[n].addr = Nobody => daemon[n].appkey = Nobody
    /\ daemon[n].beacon => daemon[n].addr = Nobody
    /\ app[n].ready \/ app[n].stage > 0 => daemon[n].appkey # Nobody

KeyInv == \A n \in Node : KeyAt(n)

\* A step that touches at n nothing that KeyAt is about, or only ends it.
QuietAt(n) ==
    /\ daemon'[n].net = daemon[n].net /\ daemon'[n].addr = daemon[n].addr
    /\ daemon'[n].appkey = daemon[n].appkey
    /\ daemon'[n].beacon => daemon[n].beacon
    /\ app'[n].ready \/ app'[n].stage > 0 => app[n].ready \/ app[n].stage > 0

LEMMA QuietKeeps ==
    ASSUME NEW n \in Node, KeyAt(n), QuietAt(n)
    PROVE  KeyAt(n)'
  BY DEF KeyAt, QuietAt

\* What is the same in two records of an application, whatever becomes of an attempt.
SameSetup(a, b) == a.up = b.up /\ a.ready = b.ready /\ a.stage = b.stage

LEMMA EnrollSetup ==
    ASSUME NEW n \in Node, NEW a \in AppRecord, NEW m \in Node
    PROVE  /\ SameSetup(Forget(a), a) /\ SameSetup(TakeEvents(a), a)
           /\ SameSetup(Step(n, a).next, a) /\ SameSetup(Attempt(a, m), a)
  <1>1. SameSetup(Forget(a), a)  BY DEF SameSetup, Forget, AppRecord
  <1>2. SameSetup(TakeEvents(a), a)
    <2> DEFINE mine == {i \in DOMAIN a.events : a.events[i].uuid = a.pend}
               ends == {i \in mine : a.events[i].kind # "add_complete" \/ a.events[i].addr # a.pend}
               added == \E i \in mine : \A j \in ends : i < j
               failed == \E i \in ends : a.events[i].kind # "add_complete" /\ \A j \in ends : i <= j
               met == [a EXCEPT !.events = <<>>, !.clock = IF added THEN "off" ELSE @,
                                !.remote = IF failed THEN 0 ELSE IF added THEN 1 ELSE @]
    <2>1. TakeEvents(a) = IF ends = {} THEN met ELSE Forget(met)  BY DEF TakeEvents
    <2> HIDE DEF added, failed, ends
    <2>2. SameSetup(met, a) /\ SameSetup(Forget(met), a)  BY DEF SameSetup, Forget, AppRecord
    <2> QED  BY <2>1, <2>2
  <1>3. SameSetup(Step(n, a).next, a)
    <2>1. Step(n, a).next \in {a, [a EXCEPT !.remote = 2], [Forget(a) EXCEPT !.remote = 0]}
      BY DEF Step
    <2>2. SameSetup(a, a) /\ SameSetup([a EXCEPT !.remote = 2], a)
          /\ SameSetup([Forget(a) EXCEPT !.remote = 0], a)
      BY DEF SameSetup, Forget, AppRecord
    <2> QED  BY <2>1, <2>2
  <1>4. SameSetup(Attempt(a, m), a)
    <2> DEFINE tried == [a EXCEPT !.reserved = m, !.last = m]
    <2>1. SameSetup(tried, a)
          /\ SameSetup([tried EXCEPT !.starting = TRUE, !.pend = m, !.clock = "running"], a)
      BY DEF SameSetup, AppRecord
    <2> QED  BY <2>1 DEF Attempt
  <1> QED  BY <1>1, <1>2, <1>3, <1>4

\* The daemons are untouched by an enrollment but for the session of the provisioner.
LEMMA EnrollQuiet ==
    ASSUME TypeInv, NEW n \in Node, Enroll(n), NEW k \in Node
    PROVE  QuietAt(k)
  <1>1. app[n] \in AppRecord  BY DEF TypeInv
  <1>2. PICK a \in Afterwards(n, TakeEvents(app[n])) :
          LET step == Step(n, a) IN
             \/ app' = [app EXCEPT ![n] = step.next] /\ UNCHANGED <<daemon, inbox>>
             \/ \E m \in Sought(n, step.next) :
                      /\ app' = [app EXCEPT ![n] = Attempt(step.next, m)]
                      /\ IF step.next.starting THEN UNCHANGED <<daemon, inbox>>
                         ELSE Request(n, m)
    BY Zenon DEF Enroll
  <1>3. a \in AppRecord
    BY <1>1, TakeEventsType, ForgetType DEF Afterwards
  <1> DEFINE b == Step(n, a).next
  <1>4. b \in AppRecord  BY <1>3, StepType
  <1>5. SameSetup(b, app[n])
    BY <1>1, <1>3, TakeEventsType, ForgetType, EnrollSetup DEF Afterwards, SameSetup
  <1> HIDE DEF b
  <1>6. CASE app' = [app EXCEPT ![n] = b] /\ UNCHANGED <<daemon, inbox>>
    BY <1>5, <1>6 DEF TypeInv, QuietAt, SameSetup
  <1>7. CASE \E m \in Sought(n, b) :
                      /\ app' = [app EXCEPT ![n] = Attempt(b, m)]
                      /\ UNCHANGED daemon \/ Request(n, m)
    <2>1. PICK m \in Node :
                      /\ app' = [app EXCEPT ![n] = Attempt(b, m)]
                      /\ UNCHANGED daemon \/ Request(n, m)
      BY <1>7 DEF Sought, Absent
    <2>2. SameSetup(Attempt(b, m), app[n])  BY <1>4, <1>5, EnrollSetup DEF SameSetup
    <2>3. UNCHANGED daemon \/ \E s : daemon' = [daemon EXCEPT ![n].session = s]
      BY <2>1 DEF Request
    <2>4. app' = [app EXCEPT ![n] = Attempt(b, m)]  BY <2>1
    <2>5. /\ daemon'[k].net = daemon[k].net /\ daemon'[k].addr = daemon[k].addr
          /\ daemon'[k].appkey = daemon[k].appkey /\ daemon'[k].beacon = daemon[k].beacon
      <3>1. daemon[n] \in DaemonRecord /\ daemon \in [Node -> DaemonRecord]  BY DEF TypeInv
      <3>2. CASE UNCHANGED daemon  BY <3>2
      <3>3. ASSUME NEW s, daemon' = [daemon EXCEPT ![n].session = s]
            PROVE  /\ daemon'[k].net = daemon[k].net /\ daemon'[k].addr = daemon[k].addr
                   /\ daemon'[k].appkey = daemon[k].appkey /\ daemon'[k].beacon = daemon[k].beacon
        BY <3>1, <3>3 DEF DaemonRecord
      <3> QED  BY <2>3, <3>2, <3>3
    <2>6. app'[k].ready = app[k].ready /\ app'[k].stage = app[k].stage
      BY <2>2, <2>4 DEF TypeInv, SameSetup
    <2> QED  BY <2>5, <2>6 DEF QuietAt
  <1> QED  BY <1>2, <1>6, <1>7 DEF b

\* The worker's pass at a node that is not attached: its setup is over.
LEMMA StartOverEnds ==
    ASSUME NEW a \in AppRecord
    PROVE  ~StartOver(a).ready /\ StartOver(a).stage = 0
  BY DEF StartOver, AppRecord

LEMMA RefreshQuiet ==
    ASSUME TypeInv, NEW n \in Node, Refresh(n), NEW k \in Node
    PROVE  QuietAt(k)
  <1>1. app[n] \in AppRecord /\ UNCHANGED daemon  BY DEF TypeInv, Refresh
  <1>2. CASE ~daemon[n].up
    <2> DEFINE state == IF app[n].state = "joining" THEN app[n].state ELSE "daemon_unavailable"
               next == [app[n] EXCEPT !.attached = FALSE, !.ready = FALSE, !.stage = 0,
                                      !.state = state]
    <2>1. app' = [app EXCEPT ![n] = next]  BY <1>2 DEF Refresh
    <2> HIDE DEF state
    <2>2. ~next.ready /\ next.stage = 0  BY <1>1 DEF AppRecord
    <2> HIDE DEF next
    <2> QED  BY <1>1, <2>1, <2>2 DEF TypeInv, QuietAt
  <1>3. CASE daemon[n].up
    <2> DEFINE state == IF app[n].attached \/ app[n].state = "daemon_unavailable"
                        THEN ByToken(n) ELSE app[n].state
               snap == [taken |-> TRUE, token |-> app[n].token, state |-> state]
               next == [app[n] EXCEPT !.attached = FALSE, !.state = state, !.snap = snap]
    <2>1. app' = [app EXCEPT ![n] = next]  BY <1>3 DEF Refresh
    <2> HIDE DEF state, snap
    <2>2. next.ready = app[n].ready /\ next.stage = app[n].stage  BY <1>1 DEF AppRecord
    <2> HIDE DEF next
    <2> QED  BY <1>1, <2>1, <2>2 DEF TypeInv, QuietAt
  <1>4. daemon[n].up \in BOOLEAN  BY DEF TypeInv, DaemonRecord
  <1> QED  BY <1>2, <1>3, <1>4

LEMMA WaitQuiet ==
    ASSUME TypeInv, NEW n \in Node, Wait(n), NEW k \in Node
    PROVE  QuietAt(k)
  <1>1. app[n] \in AppRecord  BY DEF TypeInv
  <1>2. app' = [app EXCEPT ![n] = StartOver(app[n])] /\ UNCHANGED daemon  BY DEF Wait
  <1> QED  BY <1>1, <1>2, StartOverEnds DEF TypeInv, QuietAt

LEMMA AttachQuiet ==
    ASSUME TypeInv, NEW n \in Node, Attach(n), NEW k \in Node
    PROVE  QuietAt(k)
  <1>1. app[n] \in AppRecord /\ daemon[n] \in DaemonRecord  BY DEF TypeInv
  <1> DEFINE next == [StartOver(app[n]) EXCEPT !.attached = TRUE, !.state = "attached",
                                               !.bound = daemon[n].bound]
             node == [daemon[n] EXCEPT !.serving = TRUE]
  <1>2. app' = [app EXCEPT ![n] = next] /\ daemon' = [daemon EXCEPT ![n] = node]
    BY DEF Attach
  <1>3. ~next.ready /\ next.stage = 0  BY <1>1, StartOverType, StartOverEnds DEF AppRecord
  <1>4. /\ node.net = daemon[n].net /\ node.addr = daemon[n].addr
        /\ node.appkey = daemon[n].appkey /\ node.beacon = daemon[n].beacon
    BY <1>1 DEF DaemonRecord
  <1> HIDE DEF next, node
  <1> QED  BY <1>2, <1>3, <1>4 DEF TypeInv, QuietAt

LEMMA SetUpQuiet ==
    ASSUME TypeInv, NEW n \in Node, SetUp(n), NEW k \in Node
    PROVE  QuietAt(k)
  <1>1. app[n] \in AppRecord /\ daemon[n] \in DaemonRecord  BY DEF TypeInv
  <1>2. app[n].stage > 0  BY DEF SetUp
  <1>3. \A m \in Node \ {n} : app'[m] = app[m]  BY DEF SetUp, TypeInv
  <1>4. \E node \in {daemon[n], [daemon[n] EXCEPT !.bound = TRUE]} :
           daemon' = [daemon EXCEPT ![n] = node]
    BY DEF SetUp, TypeInv
  <1>5. PICK node \in {daemon[n], [daemon[n] EXCEPT !.bound = TRUE]} :
           daemon' = [daemon EXCEPT ![n] = node]
    BY <1>4
  <1>6. /\ node.net = daemon[n].net /\ node.addr = daemon[n].addr
        /\ node.appkey = daemon[n].appkey /\ node.beacon = daemon[n].beacon
    BY <1>1 DEF DaemonRecord
  <1> QED  BY <1>2, <1>3, <1>5, <1>6 DEF TypeInv, QuietAt

LEMMA HandleQuiet ==
    ASSUME TypeInv, NEW n \in Node, Handle(n), NEW k \in Node
    PROVE  QuietAt(k)
  <1>1. app[n] \in AppRecord /\ UNCHANGED daemon  BY DEF TypeInv, Handle
  <1> DEFINE message == Head(inbox[n])
             events == Append(app[n].events, message)
             starting == app[n].starting /\ message.kind # "add_refused"
             state == IF app[n].state = "joining" THEN ByToken(n) ELSE app[n].state
             nexts == {[app[n] EXCEPT !.token = TRUE, !.state = "provisioned"],
                       [app[n] EXCEPT !.state = "join_failed"],
                       [app[n] EXCEPT !.state = state], [app[n] EXCEPT !.state = ByToken(n)],
                       [app[n] EXCEPT !.bound = TRUE], [app[n] EXCEPT !.starting = FALSE],
                       [app[n] EXCEPT !.events = events, !.starting = starting]}
  <1>2. \E next \in nexts : app' = [app EXCEPT ![n] = next]
    BY Zenon DEF Handle
  <1>3. PICK next \in nexts : app' = [app EXCEPT ![n] = next]  BY <1>2
  <1> HIDE DEF events, starting, state
  <1>4. next.ready = app[n].ready /\ next.stage = app[n].stage  BY <1>1 DEF AppRecord
  <1> QED  BY <1>1, <1>3, <1>4 DEF TypeInv, QuietAt

\* RequestProvData, the ends of a Join and of a session, and the daemon's stop and start.
LEMMA DaemonQuiet ==
    ASSUME TypeInv, NEW n \in Node, NEW k \in Node,
           \/ RequestProvData(n) \/ JoinExpires(n) \/ GiveUp(n)
           \/ DaemonStops(n) \/ DaemonStarts(n) \/ ReplyTimeout(n)
    PROVE  QuietAt(k)
  <1>1. app[n] \in AppRecord /\ daemon[n] \in DaemonRecord  BY DEF TypeInv
  <1> DEFINE Alike(node) == /\ node.net = daemon[n].net /\ node.addr = daemon[n].addr
                            /\ node.appkey = daemon[n].appkey
                            /\ node.beacon => daemon[n].beacon
  <1>2. ASSUME NEW node, Alike(node), daemon' = [daemon EXCEPT ![n] = node],
               app'[k].ready = app[k].ready, app'[k].stage = app[k].stage
        PROVE  QuietAt(k)
    BY <1>2 DEF TypeInv, QuietAt
  <1>3. \A s : Alike([daemon[n] EXCEPT !.session = s])  BY <1>1 DEF DaemonRecord
  <1>4. CASE RequestProvData(n)
    <2> DEFINE s == IF app[n].reserved # Nobody
                    THEN [daemon[n].session EXCEPT !.addr = app[n].reserved] ELSE NoSession
    <2>1. daemon' = [daemon EXCEPT ![n] = [daemon[n] EXCEPT !.session = s]]
      <3>1. CASE app[n].reserved # Nobody  BY <1>4, <3>1 DEF RequestProvData
      <3>2. CASE app[n].reserved = Nobody  BY <1>4, <3>2 DEF RequestProvData
      <3> QED  BY <3>1, <3>2
    <2> HIDE DEF s
    <2>2. app' = [app EXCEPT ![n] = [app[n] EXCEPT !.reserved = Nobody]]
      BY <1>4 DEF RequestProvData
    <2>3. app'[k].ready = app[k].ready /\ app'[k].stage = app[k].stage
      BY <1>1, <2>2 DEF TypeInv, AppRecord
    <2> HIDE DEF Alike
    <2> QED  BY <1>2, <1>3, <2>1, <2>3
  <1>5. CASE JoinExpires(n)
    <2>1. Alike([daemon[n] EXCEPT !.beacon = FALSE])  BY <1>1 DEF DaemonRecord
    <2>2. daemon' = [daemon EXCEPT ![n] = [daemon[n] EXCEPT !.beacon = FALSE]] /\ UNCHANGED app
      BY <1>5 DEF JoinExpires
    <2> HIDE DEF Alike
    <2> QED  BY <1>2, <2>1, <2>2
  <1>6. CASE GiveUp(n)
    <2>1. daemon' = [daemon EXCEPT ![n] = [daemon[n] EXCEPT !.session = NoSession]] /\ UNCHANGED app
      BY <1>6 DEF GiveUp
    <2> HIDE DEF Alike
    <2> QED  BY <1>2, <1>3, <2>1
  <1>7. CASE DaemonStops(n)
    <2> DEFINE node == [daemon[n] EXCEPT !.up = FALSE, !.beacon = FALSE, !.serving = FALSE,
                                         !.session = NoSession]
    <2>1. Alike(node)  BY <1>1 DEF DaemonRecord
    <2>2. daemon' = [daemon EXCEPT ![n] = node] /\ UNCHANGED app  BY <1>7 DEF DaemonStops
    <2> HIDE DEF Alike, node
    <2> QED  BY <1>2, <2>1, <2>2
  <1>8. CASE DaemonStarts(n)
    <2>1. Alike([daemon[n] EXCEPT !.up = TRUE])  BY <1>1 DEF DaemonRecord
    <2>2. daemon' = [daemon EXCEPT ![n] = [daemon[n] EXCEPT !.up = TRUE]] /\ UNCHANGED app
      BY <1>8 DEF DaemonStarts
    <2> HIDE DEF Alike
    <2> QED  BY <1>2, <2>1, <2>2
  <1>9. CASE ReplyTimeout(n)  BY <1>9 DEF ReplyTimeout, QuietAt
  <1> QED  BY <1>4, <1>5, <1>6, <1>7, <1>8, <1>9

LEMMA StartQuiet ==
    ASSUME TypeInv, NEW n \in Node, Start(n), NEW k \in Node
    PROVE  QuietAt(k)
  <1>1. app' = [app EXCEPT ![n] = NewApp(disk[n].token)] /\ UNCHANGED daemon  BY DEF Start
  <1>2. ~NewApp(disk[n].token).ready /\ NewApp(disk[n].token).stage = 0  BY DEF NewApp
  <1> QED  BY <1>1, <1>2 DEF TypeInv, QuietAt

LEMMA JoinKeys ==
    ASSUME TypeInv, KeyInv, NEW n \in Node, Join(n)
    PROVE  KeyInv'
  <1>1. app[n] \in AppRecord /\ daemon[n] \in DaemonRecord  BY DEF TypeInv
  <1> DEFINE next == [StartOver(app[n]) EXCEPT !.state = "joining"]
             beacon == daemon[n].beacon \/ ~Existing(n)
             node == [daemon[n] EXCEPT !.beacon = beacon]
  <1>2. app' = [app EXCEPT ![n] = next] /\ daemon' = [daemon EXCEPT ![n] = node]
    BY DEF Join
  <1>3. ~next.ready /\ next.stage = 0  BY <1>1, StartOverType, StartOverEnds DEF AppRecord
  <1>4. beacon => daemon[n].addr = Nobody  BY DEF KeyInv, KeyAt, Existing
  <1> HIDE DEF beacon, next
  <1>5. /\ node.net = daemon[n].net /\ node.addr = daemon[n].addr
        /\ node.appkey = daemon[n].appkey /\ node.beacon = beacon
    BY <1>1 DEF DaemonRecord
  <1> HIDE DEF node
  <1> QED  BY <1>2, <1>3, <1>4, <1>5 DEF TypeInv, KeyInv, KeyAt

\* A network is created only by a node in none, which has no key either.
LEMMA ImportKeys ==
    ASSUME TypeInv, KeyInv, NEW n \in Node, Import(n)
    PROVE  KeyInv'
  <1>1. app[n] \in AppRecord /\ daemon[n] \in DaemonRecord  BY DEF TypeInv
  <1> DEFINE joining == app[n].snap.state = "joining"
             keyed == disk[n].device \/ ~app[n].token
             made == keyed /\ ~Existing(n)
             state == IF keyed THEN "importing" ELSE AfterCancel(n)
             next == [StartOver(app[n]) EXCEPT !.state = state]
             beacon == daemon[n].beacon /\ ~joining /\ ~made
             net == IF made THEN n ELSE daemon[n].net
             addr == IF made THEN n ELSE daemon[n].addr
             node == [daemon[n] EXCEPT !.beacon = beacon, !.net = net, !.addr = addr]
  <1>2. app' = [app EXCEPT ![n] = next] /\ daemon' = [daemon EXCEPT ![n] = node]
    BY DEF Import
  <1>3. made => daemon[n].addr = Nobody /\ daemon[n].appkey = Nobody
    BY DEF KeyInv, KeyAt, Existing
  <1> HIDE DEF state
  <1>4. ~next.ready /\ next.stage = 0  BY <1>1, StartOverType, StartOverEnds DEF AppRecord
  <1> HIDE DEF next, made
  <1>5. /\ daemon[n].appkey \in {Nobody, net}
        /\ addr = Nobody => daemon[n].appkey = Nobody
        /\ beacon => addr = Nobody
    BY <1>3 DEF KeyInv, KeyAt
  <1> HIDE DEF beacon, net, addr
  <1>6. /\ node.net = net /\ node.addr = addr
        /\ node.appkey = daemon[n].appkey /\ node.beacon = beacon
    BY <1>1 DEF DaemonRecord
  <1> HIDE DEF node
  <1> QED  BY <1>2, <1>4, <1>5, <1>6 DEF TypeInv, KeyInv, KeyAt

LEMMA NobodyNumber ==
    ASSUME NEW n \in Node
    PROVE  n # Nobody
  BY NodeNumbers DEF Nobody

\* The creator installs its own key, and only where it created the network.
LEMMA PrepareKeysKeys ==
    ASSUME TypeInv, KeyInv, NEW n \in Node, PrepareKeys(n)
    PROVE  KeyInv'
  <1>1. app[n] \in AppRecord /\ daemon[n] \in DaemonRecord  BY DEF TypeInv
  <1> DEFINE creator == disk[n].creds /\ daemon[n].net = n
             key == IF creator /\ daemon[n].appkey = Nobody THEN n ELSE daemon[n].appkey
             stage == IF creator \/ daemon[n].appkey # Nobody THEN 1 ELSE 0
             node == [daemon[n] EXCEPT !.appkey = key]
             next == [app[n] EXCEPT !.stage = stage]
  <1>2. daemon' = [daemon EXCEPT ![n] = node] /\ app' = [app EXCEPT ![n] = next]
    BY DEF PrepareKeys
  <1>3. daemon[n].addr = n /\ n # Nobody /\ ~app[n].ready
    BY NobodyNumber DEF PrepareKeys, SetUpPass, Attached
  <1>4. key \in {Nobody, daemon[n].net} /\ (stage > 0 => key # Nobody)
    BY <1>3 DEF KeyInv, KeyAt
  <1> HIDE DEF key, stage
  <1>5. /\ node.net = daemon[n].net /\ node.addr = daemon[n].addr
        /\ node.appkey = key /\ node.beacon = daemon[n].beacon
        /\ next.ready = app[n].ready /\ next.stage = stage
    BY <1>1 DEF DaemonRecord, AppRecord
  <1> HIDE DEF node, next
  <1> QED  BY <1>2, <1>3, <1>4, <1>5 DEF TypeInv, KeyInv, KeyAt

\* A newcomer was in no network and so had no key and no setup in progress.
LEMMA ProvisionKeys ==
    ASSUME TypeInv, KeyInv, NEW n \in Node, Provision(n)
    PROVE  KeyInv'
  <1> DEFINE m == daemon[n].session.to
             a == daemon[n].session.addr
             new == [daemon[m] EXCEPT !.net = daemon[n].net, !.addr = a, !.beacon = FALSE]
             d == [daemon EXCEPT ![m] = new]
  <1>1. /\ m \in Node /\ a \in Node /\ d \in [Node -> DaemonRecord] /\ UNCHANGED app
        /\ daemon[m].beacon
    BY ProvisionEffect, Zenon
  <1>2. PICK ring \in SUBSET Node :
                 daemon' = [d EXCEPT ![n] = [d[n] EXCEPT !.session = NoSession, !.ring = ring]]
    BY ProvisionEffect, Zenon
  <1>3. daemon[m].addr = Nobody /\ daemon[m].appkey = Nobody
        /\ ~app[m].ready /\ ~(app[m].stage > 0)
    BY <1>1 DEF KeyInv, KeyAt
  <1>4. daemon[m] \in DaemonRecord  BY <1>1 DEF TypeInv
  <1>5. new.appkey = Nobody /\ new.addr = a /\ new.beacon = FALSE
    BY <1>3, <1>4 DEF DaemonRecord
  <1>6. a # Nobody  BY <1>1, NobodyNumber
  <1>7. ASSUME NEW k \in Node
        PROVE  /\ d[k].appkey \in {Nobody, d[k].net}
               /\ d[k].addr = Nobody => d[k].appkey = Nobody
               /\ d[k].beacon => d[k].addr = Nobody
               /\ app[k].ready \/ app[k].stage > 0 => d[k].appkey # Nobody
    <2> HIDE DEF m, a, new
    <2>1. CASE k = m  BY <2>1, <1>1, <1>3, <1>5, <1>6 DEF TypeInv
    <2>2. CASE k # m
      <3>1. d[k] = daemon[k]  BY <2>2
      <3> QED  BY <3>1 DEF KeyInv, KeyAt
    <2> QED  BY <2>1, <2>2
  <1> HIDE DEF d, m, a
  <1>8. ASSUME NEW k \in Node
        PROVE  /\ daemon'[k].net = d[k].net /\ daemon'[k].addr = d[k].addr
               /\ daemon'[k].appkey = d[k].appkey /\ daemon'[k].beacon = d[k].beacon
    BY <1>1, <1>2 DEF DaemonRecord
  <1> QED  BY <1>1, <1>7, <1>8 DEF KeyInv, KeyAt

\* An AppKey is taken only from a provisioner of the same network.
LEMMA DeliverKeys ==
    ASSUME TypeInv, KeyInv, NEW c \in radio, Deliver(c)
    PROVE  KeyInv'
  <1> DEFINE m == c.dst
             key == IF daemon[m].appkey = Nobody THEN daemon[c.src].appkey ELSE daemon[m].appkey
  <1>1. c.src \in Node /\ m \in MaybeNode /\ UNCHANGED app  BY DEF TypeInv, Letter, Deliver
  <1>2. CASE UNCHANGED daemon  BY <1>1, <1>2 DEF KeyInv, KeyAt
  <1>3. CASE m \notin Node /\ \E node : daemon' = [daemon EXCEPT ![m] = node]
    <2>1. UNCHANGED daemon  BY <1>3 DEF TypeInv
    <2> QED  BY <1>1, <2>1 DEF KeyInv, KeyAt
  <1>4. CASE /\ m \in Node /\ daemon[m].addr = m /\ daemon[m].net = daemon[c.src].net
             /\ daemon' = [daemon EXCEPT ![m] = [daemon[m] EXCEPT !.appkey = key]]
    <2>1. m # Nobody  BY <1>4, NobodyNumber
    <2>2. key \in {Nobody, daemon[m].net} /\ (daemon[m].appkey # Nobody => key # Nobody)
      BY <1>1, <1>4 DEF KeyInv, KeyAt
    <2> DEFINE node == [daemon[m] EXCEPT !.appkey = key]
    <2> HIDE DEF key, m
    <2>3. daemon[m] \in DaemonRecord  BY <1>4 DEF TypeInv
    <2>4. /\ node.net = daemon[m].net /\ node.addr = daemon[m].addr
          /\ node.appkey = key /\ node.beacon = daemon[m].beacon
      BY <2>3 DEF DaemonRecord
    <2>5. daemon' = [daemon EXCEPT ![m] = node]  BY <1>4
    <2> HIDE DEF node
    <2> QED  BY <1>1, <1>4, <2>1, <2>2, <2>4, <2>5 DEF TypeInv, KeyInv, KeyAt
  <1>5. CASE m \in Node /\ daemon' = [daemon EXCEPT ![m] = [daemon[m] EXCEPT !.bound = TRUE]]
    <2> HIDE DEF m
    <2>1. daemon[m] \in DaemonRecord  BY <1>5 DEF TypeInv
    <2>2. \A k \in Node : QuietAt(k)
      BY <1>1, <1>5, <2>1 DEF TypeInv, DaemonRecord, QuietAt
    <2> QED  BY <2>2, QuietKeeps DEF KeyInv
  <1>6. \/ UNCHANGED daemon
        \/ /\ daemon[m].addr = m /\ daemon[m].net = daemon[c.src].net
           /\ daemon' = [daemon EXCEPT ![m] = [daemon[m] EXCEPT !.appkey = key]]
        \/ daemon' = [daemon EXCEPT ![m] = [daemon[m] EXCEPT !.bound = TRUE]]
    BY DEF Deliver
  <1> QED  BY <1>2, <1>3, <1>4, <1>5, <1>6

LEMMA CrashKeys ==
    ASSUME TypeInv, KeyInv, NEW n \in Node, Crash(n)
    PROVE  KeyInv'
  <1> DEFINE unborn == \E i \in DOMAIN inbox[n] : inbox[n][i].kind = "join_complete"
             dropped == [NewDaemon EXCEPT !.up = daemon[n].up]
             left == [daemon[n] EXCEPT !.beacon = FALSE, !.serving = FALSE,
                                       !.session = NoSession]
             node == IF unborn THEN dropped ELSE left
  <1>1. daemon[n] \in DaemonRecord  BY DEF TypeInv
  <1>2. daemon' = [daemon EXCEPT ![n] = node]  BY DEF Crash
  <1>3. ~app'[n].ready /\ app'[n].stage = 0 /\ \A k \in Node \ {n} : app'[k] = app[k]
    BY DEF Crash, TypeInv, NewApp
  <1>4. dropped.appkey = Nobody /\ dropped.beacon = FALSE  BY DEF NewDaemon
  <1>5. left.net = daemon[n].net /\ left.addr = daemon[n].addr
        /\ left.appkey = daemon[n].appkey /\ left.beacon = FALSE
    BY <1>1 DEF DaemonRecord
  <1> HIDE DEF unborn, dropped, left
  <1>6. /\ node.appkey \in {Nobody, node.net} /\ node.beacon = FALSE
        /\ node.addr = Nobody => node.appkey = Nobody
    BY <1>4, <1>5 DEF KeyInv, KeyAt
  <1> HIDE DEF node
  <1> QED  BY <1>2, <1>3, <1>6 DEF TypeInv, KeyInv, KeyAt

LEMMA KeyInit == Init => KeyInv
  BY SMTT(30) DEF Init, KeyInv, KeyAt, NewApp, NewDaemon

LEMMA KeyStep == TypeInv /\ KeyInv /\ [Next]_vars => KeyInv'
  <1> SUFFICES ASSUME TypeInv, KeyInv, [Next]_vars PROVE KeyInv'  OBVIOUS
  <1>1. ASSUME NEW n \in Node,
               \/ Refresh(n) \/ Wait(n) \/ Attach(n) \/ SetUp(n) \/ Enroll(n) \/ Handle(n)
               \/ ReplyTimeout(n) \/ RequestProvData(n) \/ JoinExpires(n) \/ GiveUp(n)
               \/ Start(n) \/ DaemonStops(n) \/ DaemonStarts(n)
        PROVE  KeyInv'
    <2>1. \A k \in Node : QuietAt(k)
      BY <1>1, RefreshQuiet, WaitQuiet, AttachQuiet, SetUpQuiet, EnrollQuiet, HandleQuiet,
         DaemonQuiet, StartQuiet
    <2> QED  BY <2>1, QuietKeeps DEF KeyInv
  <1>2. ASSUME NEW n \in Node,
               Join(n) \/ Import(n) \/ PrepareKeys(n) \/ Provision(n) \/ Crash(n)
        PROVE  KeyInv'
    BY <1>2, JoinKeys, ImportKeys, PrepareKeysKeys, ProvisionKeys, CrashKeys
  <1>3. ASSUME NEW c \in radio, Deliver(c) \/ Lose(c) PROVE KeyInv'
    <2>1. Lose(c) => UNCHANGED <<app, daemon>>  BY DEF Lose
    <2> QED  BY <1>3, <2>1, DeliverKeys DEF KeyInv, KeyAt
  <1>4. CASE UNCHANGED vars  BY <1>4 DEF vars, KeyInv, KeyAt
  <1> QED  BY <1>1, <1>2, <1>3, <1>4 DEF Next, Pass

\* ReadyWithItsKey: a node that serves applications has the AppKey of the network it is in,
\* whatever networks it has prepared before, whoever configures it and whatever faults strike.
THEOREM ReadyWithItsKey == Spec => []KeyOfNetwork
  <1>1. KeyInv => KeyOfNetwork  BY DEF KeyInv, KeyAt, KeyOfNetwork
  <1>2. Spec => []KeyInv  BY KeyInit, KeyStep, TypesAlways, PTL DEF Spec
  <1> QED  BY <1>1, <1>2, PTL

-----------------------------------------------------------------------------
(* The address                                                              *)

\* The messages that end an attempt, and where they are in a sequence.
FinalKinds == {"add_refused", "add_failed", "add_complete"}
Finals(q) == {i \in DOMAIN q : q[i].kind \in FinalKinds}

\* With a daemon that answers in time, attempts do not overlap: the session, the final
\* message under way, the event that is not taken and the configuration of the newcomer
\* exclude each other, and all are about the peer that is pending, for which the
\* reservation is.  a, s and q are an application, its daemon's session and its inbox.
AttemptAt(a, s, q) ==
    /\ a.pend = Nobody => /\ s.to = Nobody /\ Finals(q) = {} /\ a.events = <<>> /\ a.remote = 0
    /\ s.to # Nobody => /\ a.pend = s.to /\ a.remote = 0 /\ a.events = <<>> /\ Finals(q) = {}
                        /\ a.reserved \in {Nobody, s.to} /\ s.addr \in {Nobody, s.to}
    /\ \A i \in Finals(q) : q[i].uuid = a.pend /\ \A j \in Finals(q) : i = j
    /\ Finals(q) # {} => a.events = <<>> /\ a.remote = 0
    /\ a.events # <<>> => Len(a.events) = 1 /\ a.events[1].uuid = a.pend /\ a.remote = 0
    /\ a.remote # 0 => a.clock = "off"
    /\ ~a.up => a.pend = Nobody

AddressInv ==
    Prompt => \A n \in Node : /\ AttemptAt(app[n], daemon[n].session, inbox[n])
                              /\ daemon[n].addr \in {Nobody, n}

SameAttempt(b, a) ==
    /\ b.up = a.up /\ b.pend = a.pend /\ b.reserved = a.reserved
    /\ b.remote = a.remote /\ b.clock = a.clock /\ b.events = a.events

\* r has at most the final messages of q.
FewerFinals(r, q) ==
    /\ \A i \in Finals(r) : \E k \in Finals(q) : r[i] = q[k]
    /\ (\A i, j \in Finals(q) : i = j) => \A i, j \in Finals(r) : i = j

LEMMA FewerKeeps ==
    ASSUME NEW a, NEW b, NEW s, NEW q, NEW r,
           AttemptAt(a, s, q), SameAttempt(b, a), FewerFinals(r, q)
    PROVE  AttemptAt(b, s, r)
  <1>1. Finals(q) = {} => Finals(r) = {}  BY DEF FewerFinals
  <1>2. \A i \in Finals(r) : r[i].uuid = a.pend
    BY DEF FewerFinals, AttemptAt
  <1>3. \A i, j \in Finals(r) : i = j
    BY DEF FewerFinals, AttemptAt
  <1> HIDE DEF Finals
  <1> QED  BY <1>1, <1>2, <1>3 DEF AttemptAt, SameAttempt

LEMMA FewerSame ==
    ASSUME NEW q
    PROVE  FewerFinals(q, q)
  BY DEF FewerFinals

LEMMA FewerThrough ==
    ASSUME NEW q, NEW r, NEW t, FewerFinals(t, r), FewerFinals(r, q)
    PROVE  FewerFinals(t, q)
  <1>1. ASSUME NEW i \in Finals(t) PROVE \E k \in Finals(q) : t[i] = q[k]
    <2>1. PICK j \in Finals(r) : t[i] = r[j]  BY DEF FewerFinals
    <2>2. PICK k \in Finals(q) : r[j] = q[k]  BY DEF FewerFinals
    <2> QED  BY <2>1, <2>2
  <1>2. (\A i, j \in Finals(q) : i = j) => \A i, j \in Finals(t) : i = j
    BY DEF FewerFinals
  <1> QED  BY <1>1, <1>2 DEF FewerFinals

LEMMA FewerAppend ==
    ASSUME NEW q \in Seq(Message), NEW message \in Message, message.kind \notin FinalKinds
    PROVE  FewerFinals(Append(q, message), q)
  <1> DEFINE r == Append(q, message)
  <1>1. /\ DOMAIN q = 1..Len(q) /\ Len(q) \in Nat /\ DOMAIN r = 1..(Len(q) + 1)
        /\ r[Len(q) + 1] = message /\ \A i \in 1..Len(q) : r[i] = q[i]
    BY AppendProperties, LenProperties
  <1> HIDE DEF r
  <1>2. \A i \in Finals(r) : i \in Finals(q) /\ r[i] = q[i]
    <2> TAKE i \in Finals(r)
    <2>1. i \in 1..(Len(q) + 1) /\ r[i].kind \in FinalKinds  BY <1>1 DEF Finals
    <2>2. i # Len(q) + 1  BY <1>1, <2>1
    <2>3. i \in 1..Len(q)  BY <1>1, <2>1, <2>2
    <2> QED  BY <1>1, <2>1, <2>3 DEF Finals
  <1> QED  BY <1>2 DEF FewerFinals, r

LEMMA FewerTail ==
    ASSUME NEW q \in Seq(Message), q # <<>>
    PROVE  /\ FewerFinals(Tail(q), q)
           /\ Head(q).kind \in FinalKinds /\ (\A i, j \in Finals(q) : i = j)
                 => Finals(Tail(q)) = {}
           /\ Head(q).kind \in FinalKinds => \E i \in Finals(q) : Head(q) = q[i]
  <1> DEFINE r == Tail(q)
  <1>1. /\ DOMAIN q = 1..Len(q) /\ Len(q) \in Nat /\ Len(q) # 0 /\ Head(q) = q[1]
        /\ DOMAIN r = 1..(Len(q) - 1) /\ \A i \in 1..(Len(q) - 1) : r[i] = q[i + 1]
    BY HeadTailProperties, LenProperties, EmptySeq
  <1> HIDE DEF r
  <1>2. \A i \in Finals(r) : i \in Nat /\ i + 1 \in Finals(q) /\ r[i] = q[i + 1] /\ i + 1 # 1
    BY <1>1 DEF Finals
  <1>3. Head(q).kind \in FinalKinds => 1 \in Finals(q)  BY <1>1 DEF Finals
  <1>4. FewerFinals(r, q)
    <2>1. \A i \in Finals(r) : \E k \in Finals(q) : r[i] = q[k]  BY <1>2
    <2>2. ASSUME \A i, j \in Finals(q) : i = j, NEW i \in Finals(r), NEW j \in Finals(r)
          PROVE  i = j
      <3>1. i + 1 = j + 1  BY <1>2, <2>2
      <3>2. i \in Nat /\ j \in Nat  BY <1>2
      <3> QED  BY <3>1, <3>2
    <2> QED  BY <2>1, <2>2 DEF FewerFinals
  <1>5. ASSUME Head(q).kind \in FinalKinds, \A i, j \in Finals(q) : i = j
        PROVE  Finals(r) = {}
    BY <1>2, <1>3, <1>5
  <1>6. Head(q).kind \in FinalKinds => \E i \in Finals(q) : Head(q) = q[i]
    BY <1>1, <1>3
  <1> QED  BY <1>4, <1>5, <1>6 DEF r

LEMMA FewerDrawn ==
    ASSUME NEW q, NEW r, DrawnFrom(r, q)
    PROVE  FewerFinals(r, q)
  <1>1. PICK f \in [DOMAIN r -> DOMAIN q] :
       /\ \A i \in DOMAIN r : r[i] = q[f[i]]
       /\ \A i, j \in DOMAIN r : f[i] = f[j] => i = j
    BY DEF DrawnFrom
  <1>2. \A i \in Finals(r) : i \in DOMAIN r /\ f[i] \in Finals(q) /\ r[i] = q[f[i]]
    BY <1>1 DEF Finals
  <1> QED  BY <1>1, <1>2 DEF FewerFinals

LEMMA FinalsAppend ==
    ASSUME NEW q \in Seq(Message), NEW message \in Message, message.kind \in FinalKinds,
           Finals(q) = {}
    PROVE  /\ \A i \in Finals(Append(q, message)) : Append(q, message)[i] = message
           /\ \A i, j \in Finals(Append(q, message)) : i = j
  <1> DEFINE r == Append(q, message)
  <1>1. /\ DOMAIN q = 1..Len(q) /\ Len(q) \in Nat /\ DOMAIN r = 1..(Len(q) + 1)
        /\ r[Len(q) + 1] = message /\ \A i \in 1..Len(q) : r[i] = q[i]
    BY AppendProperties, LenProperties
  <1> HIDE DEF r
  <1>2. \A i \in Finals(r) : i = Len(q) + 1
    <2> SUFFICES ASSUME NEW i \in Finals(r), i # Len(q) + 1 PROVE FALSE  OBVIOUS
    <2>1. i \in 1..Len(q) /\ r[i].kind \in FinalKinds  BY <1>1 DEF Finals
    <2>2. i \in Finals(q)  BY <1>1, <2>1 DEF Finals
    <2> QED  BY <2>2
  <1> QED  BY <1>1, <1>2 DEF r

\* A session ends with its final message.
LEMMA SessionEnds ==
    ASSUME NEW a, NEW b, NEW s, NEW q \in Seq(Message), NEW message \in Message,
           AttemptAt(a, s, q), b.up = a.up, b.pend = a.pend, b.remote = a.remote,
           b.events = a.events, s.to # Nobody, message.kind \in FinalKinds, message.uuid = s.to
    PROVE  AttemptAt(b, NoSession, Append(q, message))
  <1> DEFINE r == Append(q, message)
  <1>1. /\ a.pend = s.to /\ a.remote = 0 /\ a.events = <<>> /\ Finals(q) = {}
        /\ ~a.up => a.pend = Nobody
    BY DEF AttemptAt
  <1>2. /\ \A i \in Finals(r) : r[i] = message
        /\ \A i, j \in Finals(r) : i = j
    BY <1>1, FinalsAppend
  <1> HIDE DEF r
  <1>3. NoSession.to = Nobody  BY DEF NoSession
  <1> QED  BY <1>1, <1>2, <1>3 DEF AttemptAt, r

\* The final message becomes the event of its attempt.
LEMMA FinalTaken ==
    ASSUME NEW a, NEW b, NEW s, NEW q \in Seq(Message), q # <<>>, a.events \in Seq(Message),
           AttemptAt(a, s, q), b.up = a.up, b.pend = a.pend, b.remote = a.remote,
           b.events = Append(a.events, Head(q)), Head(q).kind \in FinalKinds
    PROVE  AttemptAt(b, s, Tail(q))
  <1>1. PICK i \in Finals(q) : Head(q) = q[i]  BY FewerTail
  <1>2. /\ Head(q).uuid = a.pend /\ a.events = <<>> /\ a.remote = 0 /\ s.to = Nobody
        /\ a.pend # Nobody
    BY <1>1 DEF AttemptAt
  <1>3. Finals(Tail(q)) = {}  BY FewerTail DEF AttemptAt
  <1>4. b.events = <<Head(q)>>  BY <1>2
  <1>5. Len(b.events) = 1 /\ b.events[1].uuid = a.pend  BY <1>2, <1>4
  <1>6. ~a.up => a.pend = Nobody  BY DEF AttemptAt
  <1> QED  BY <1>2, <1>3, <1>5, <1>6 DEF AttemptAt

\* The events of a pass end the attempt or begin the configuration of its newcomer; then
\* no session is in progress and no final message is under way.
LEMMA EventsTaken ==
    ASSUME NEW a \in AppRecord, NEW s, NEW q, AttemptAt(a, s, q)
    PROVE  AttemptAt(TakeEvents(a), s, q) /\ TakeEvents(a).events = <<>>
  <1> DEFINE mine == {i \in DOMAIN a.events : a.events[i].uuid = a.pend}
             ends == {i \in mine : a.events[i].kind # "add_complete" \/ a.events[i].addr # a.pend}
             added == \E i \in mine : \A j \in ends : i < j
             failed == \E i \in ends : a.events[i].kind # "add_complete" /\ \A j \in ends : i <= j
             met == [a EXCEPT !.events = <<>>, !.clock = IF added THEN "off" ELSE @,
                              !.remote = IF failed THEN 0 ELSE IF added THEN 1 ELSE @]
  <1>1. TakeEvents(a) = IF ends = {} THEN met ELSE Forget(met)  BY DEF TakeEvents
  <1>2. CASE a.events = <<>>
    <2>1. mine = {}  BY <1>2
    <2>2. ends = {} /\ ~added /\ ~failed  BY <2>1
    <2> HIDE DEF ends, added, failed
    <2>3. SameAttempt(met, a) /\ met.events = <<>>  BY <1>2, <2>2 DEF AppRecord, SameAttempt
    <2> HIDE DEF met
    <2> QED  BY <1>1, <2>2, <2>3, FewerSame, FewerKeeps
  <1>3. CASE a.events # <<>>
    <2>1. /\ Len(a.events) = 1 /\ a.events[1].uuid = a.pend /\ a.remote = 0
          /\ Finals(q) = {} /\ s.to = Nobody /\ a.pend # Nobody /\ (~a.up => a.pend = Nobody)
      BY <1>3 DEF AttemptAt
    <2>2. DOMAIN a.events = {1}  BY <2>1, LenProperties DEF AppRecord
    <2>3. mine = {1}  BY <2>1, <2>2
    <2>4. CASE ends = {}
      <3>0. added  BY <2>3, <2>4
      <3> HIDE DEF ends, added, failed
      <3>1. met.events = <<>> /\ met.up = a.up /\ met.pend = a.pend /\ met.clock = "off"
        BY <3>0 DEF AppRecord
      <3> HIDE DEF met
      <3> QED  BY <1>1, <2>1, <2>4, <3>1 DEF AttemptAt
    <2>5. CASE ends # {}
      <3>1. ends = {1}  BY <2>3, <2>5
      <3>2. ~added  BY <2>3, <3>1
      <3> HIDE DEF ends, added, failed
      <3>3. /\ Forget(met).events = <<>> /\ Forget(met).up = a.up
            /\ Forget(met).pend = Nobody /\ Forget(met).remote = 0
        BY <2>1, <3>2 DEF AppRecord, Forget
      <3> HIDE DEF met
      <3> QED  BY <1>1, <2>1, <2>5, <3>3 DEF AttemptAt
    <2> QED  BY <2>4, <2>5
  <1> QED  BY <1>2, <1>3

\* A pass forgets the peer only when its attempt has ended.
LEMMA PassKeepsAttempt ==
    ASSUME NEW n \in Node, TypeInv, Prompt, AttemptAt(app[n], daemon[n].session, inbox[n]),
           NEW a \in Afterwards(n, TakeEvents(app[n]))
    PROVE  AttemptAt(Step(n, a).next, daemon[n].session, inbox[n])
  <1> DEFINE b == TakeEvents(app[n])
             s == daemon[n].session
             q == inbox[n]
  <1>1. app[n] \in AppRecord  BY DEF TypeInv
  <1>2. AttemptAt(b, s, q) /\ b.events = <<>> /\ b \in AppRecord
    BY <1>1, EventsTaken, TakeEventsType
  <1>3. a \in AppRecord /\ AttemptAt(a, s, q) /\ a.events = <<>>
    <2>1. CASE a = b  BY <1>2, <2>1
    <2>2. CASE Deadline(n, b) /\ a = Forget(b)
      <3>1. s.to = Nobody /\ \A i \in DOMAIN q : q[i].uuid # b.pend
        BY <2>2 DEF Deadline
      <3>2. Finals(q) = {}  BY <1>2, <3>1 DEF AttemptAt, Finals
      <3>3. a.events = <<>> /\ a.up = b.up /\ a.pend = Nobody /\ a.remote = b.remote
        BY <1>2, <2>2 DEF Forget, AppRecord
      <3>4. b.remote = 0  BY <1>2, <2>2 DEF Deadline, AttemptAt
      <3> QED  BY <1>2, <2>2, <3>1, <3>2, <3>3, <3>4, ForgetType DEF AttemptAt
    <2> QED  BY <2>1, <2>2 DEF Afterwards
  <1> HIDE DEF b, s, q
  <1>4. CASE a.remote = 0
    <2>1. Step(n, a).next = a  BY <1>4 DEF Step
    <2> QED  BY <1>3, <2>1 DEF s, q
  <1>5. CASE a.remote # 0
    <2>1. /\ s.to = Nobody /\ Finals(q) = {} /\ a.pend # Nobody /\ a.clock = "off"
          /\ ~a.up => a.pend = Nobody
      BY <1>3, <1>5 DEF AttemptAt
    <2>2. Step(n, a).next \in {[a EXCEPT !.remote = 2], [Forget(a) EXCEPT !.remote = 0]}
      BY <1>5 DEF Step
    <2>3. PICK c \in {[a EXCEPT !.remote = 2], [Forget(a) EXCEPT !.remote = 0]} :
             c = Step(n, a).next
      BY <2>2
    <2>4. /\ c.events = <<>> /\ c.up = a.up /\ c.clock \in {a.clock, "off"}
          /\ c.pend = a.pend \/ (c.pend = Nobody /\ c.remote = 0)
      BY <1>3 DEF Forget, AppRecord
    <2>5. AttemptAt(c, s, q)  BY <2>1, <2>4 DEF AttemptAt
    <2> QED  BY <2>3, <2>5 DEF s, q
  <1> QED  BY <1>4, <1>5

\* A new attempt finds nothing of an earlier one, whether AddNode is called or not.
LEMMA AttemptBegins ==
    ASSUME NEW a \in AppRecord, NEW s, NEW q \in Seq(Message), NEW m \in Node,
           AttemptAt(a, s, q), a.pend = Nobody, a.up
    PROVE  /\ a.starting => AttemptAt(Attempt(a, m), s, q)
           /\ ~a.starting => AttemptAt(Attempt(a, m), [to |-> m, addr |-> Nobody],
                                       Append(q, About("add_started", m, Nobody)))
  <1>1. s.to = Nobody /\ Finals(q) = {} /\ a.events = <<>> /\ a.remote = 0
    BY DEF AttemptAt
  <1>2. m # Nobody  BY NobodyNumber
  <1> DEFINE b == Attempt(a, m)
             message == About("add_started", m, Nobody)
  <1>3. /\ b.up /\ b.events = <<>> /\ b.remote = 0 /\ b.reserved = m
        /\ b.pend = IF a.starting THEN Nobody ELSE m
    BY <1>1 DEF Attempt, AppRecord
  <1>4. message \in Message /\ message.kind \notin FinalKinds
    BY MessageType DEF MessageKinds, MaybeNode, About, FinalKinds
  <1>5. FewerFinals(Append(q, message), q)  BY <1>4, FewerAppend
  <1>6. Finals(Append(q, message)) = {}  BY <1>1, <1>5 DEF FewerFinals
  <1> HIDE DEF b, message
  <1>7. ASSUME a.starting PROVE AttemptAt(b, s, q)  BY <1>1, <1>3, <1>7 DEF AttemptAt
  <1>8. ASSUME ~a.starting
        PROVE  AttemptAt(b, [to |-> m, addr |-> Nobody], Append(q, message))
    BY <1>2, <1>3, <1>6, <1>8 DEF AttemptAt
  <1> QED  BY <1>7, <1>8 DEF b, message

\* What AddressInv says of one node, under the promise of a prompt daemon.
AddressAt(n) ==
    AttemptAt(app[n], daemon[n].session, inbox[n]) /\ daemon[n].addr \in {Nobody, n}

\* A step that changes at k neither an attempt, nor a session, nor the address.
LEMMA AddressKeeps ==
    ASSUME NEW k \in Node, AddressAt(k), SameAttempt(app'[k], app[k]),
           daemon'[k].session = daemon[k].session, daemon'[k].addr = daemon[k].addr,
           FewerFinals(inbox'[k], inbox[k])
    PROVE  AddressAt(k)'
  <1>1. AttemptAt(app'[k], daemon[k].session, inbox'[k])  BY FewerKeeps DEF AddressAt
  <1> QED  BY <1>1 DEF AddressAt

LEMMA TellFewer ==
    ASSUME TypeInv, NEW n \in Node, NEW k \in Node, NEW message \in Message,
           message.kind \notin FinalKinds, Tell(n, message)
    PROVE  FewerFinals(inbox'[k], inbox[k])
  <1>1. inbox[n] \in Seq(Message)  BY DEF TypeInv
  <1>2. CASE k = n
    <2>1. inbox'[k] = Append(inbox[k], message)  BY <1>2 DEF Tell, TypeInv
    <2> QED  BY <1>1, <1>2, <2>1, FewerAppend
  <1>3. CASE k # n
    <2>1. inbox'[k] = inbox[k]  BY <1>3 DEF Tell, TypeInv
    <2> QED  BY <2>1, FewerSame
  <1> QED  BY <1>2, <1>3

LEMMA PlainFacts ==
    ASSUME NEW kind \in MessageKinds \ (FinalKinds \cup {"add_started"})
    PROVE  Plain(kind) \in Message /\ Plain(kind).kind \notin FinalKinds
  BY MessageType DEF Plain, MessageKinds, FinalKinds, MaybeNode

\* The worker's pass over a node that is not attached, and the passes of a setup.
LEMMA StartOverSame ==
    ASSUME NEW a \in AppRecord
    PROVE  SameAttempt(StartOver(a), a)
  BY DEF SameAttempt, StartOver, AppRecord

LEMMA RefreshAddress ==
    ASSUME TypeInv, NEW n \in Node, Refresh(n), NEW k \in Node, AddressAt(k)
    PROVE  AddressAt(k)'
  <1>1. app[n] \in AppRecord /\ UNCHANGED <<daemon, inbox>>  BY DEF TypeInv, Refresh
  <1> DEFINE down == IF app[n].state = "joining" THEN app[n].state ELSE "daemon_unavailable"
             state == IF app[n].attached \/ app[n].state = "daemon_unavailable"
                      THEN ByToken(n) ELSE app[n].state
             snap == [taken |-> TRUE, token |-> app[n].token, state |-> state]
             nexts == {[app[n] EXCEPT !.attached = FALSE, !.ready = FALSE, !.stage = 0,
                                      !.state = down],
                       [app[n] EXCEPT !.attached = FALSE, !.state = state, !.snap = snap]}
  <1>2. \E next \in nexts : app' = [app EXCEPT ![n] = next]  BY DEF Refresh
  <1>3. PICK next \in nexts : app' = [app EXCEPT ![n] = next]  BY <1>2
  <1> HIDE DEF down, state, snap
  <1>4. SameAttempt(next, app[n])  BY <1>1 DEF SameAttempt, AppRecord
  <1>5. SameAttempt(app'[k], app[k])  BY <1>3, <1>4 DEF TypeInv, SameAttempt
  <1> QED  BY <1>1, <1>5, FewerSame, AddressKeeps

LEMMA WaitAddress ==
    ASSUME TypeInv, NEW n \in Node, Wait(n), NEW k \in Node, AddressAt(k)
    PROVE  AddressAt(k)'
  <1>1. app[n] \in AppRecord  BY DEF TypeInv
  <1>2. app' = [app EXCEPT ![n] = StartOver(app[n])] /\ UNCHANGED <<daemon, inbox>>  BY DEF Wait
  <1>3. SameAttempt(app'[k], app[k])
    BY <1>1, <1>2, StartOverSame DEF TypeInv, SameAttempt
  <1> QED  BY <1>2, <1>3, FewerSame, AddressKeeps

LEMMA AttachAddress ==
    ASSUME TypeInv, NEW n \in Node, Attach(n), NEW k \in Node, AddressAt(k)
    PROVE  AddressAt(k)'
  <1>1. app[n] \in AppRecord /\ daemon[n] \in DaemonRecord  BY DEF TypeInv
  <1> DEFINE next == [StartOver(app[n]) EXCEPT !.attached = TRUE, !.state = "attached",
                                               !.bound = daemon[n].bound]
             node == [daemon[n] EXCEPT !.serving = TRUE]
  <1>2. app' = [app EXCEPT ![n] = next] /\ daemon' = [daemon EXCEPT ![n] = node]
        /\ UNCHANGED inbox
    BY DEF Attach
  <1>3. SameAttempt(next, app[n])
    BY <1>1, StartOverType, StartOverSame DEF AppRecord, SameAttempt
  <1>4. node.session = daemon[n].session /\ node.addr = daemon[n].addr  BY <1>1 DEF DaemonRecord
  <1> HIDE DEF next, node
  <1>5. SameAttempt(app'[k], app[k])  BY <1>2, <1>3 DEF TypeInv, SameAttempt
  <1>6. daemon'[k].session = daemon[k].session /\ daemon'[k].addr = daemon[k].addr
    BY <1>2, <1>4 DEF TypeInv
  <1> QED  BY <1>2, <1>5, <1>6, FewerSame, AddressKeeps

LEMMA JoinAddress ==
    ASSUME TypeInv, NEW n \in Node, Join(n), NEW k \in Node, AddressAt(k)
    PROVE  AddressAt(k)'
  <1>1. app[n] \in AppRecord /\ daemon[n] \in DaemonRecord  BY DEF TypeInv
  <1> DEFINE next == [StartOver(app[n]) EXCEPT !.state = "joining"]
             beacon == daemon[n].beacon \/ ~Existing(n)
             node == [daemon[n] EXCEPT !.beacon = beacon]
             left == IF Existing(n) THEN Append(Answers(n), Plain("join_error")) ELSE Answers(n)
  <1>2. app' = [app EXCEPT ![n] = next] /\ daemon' = [daemon EXCEPT ![n] = node]
        /\ inbox' = [inbox EXCEPT ![n] = left]
    BY DEF Join
  <1>3. SameAttempt(next, app[n])
    BY <1>1, StartOverType, StartOverSame DEF AppRecord, SameAttempt
  <1> HIDE DEF beacon
  <1>4. node.session = daemon[n].session /\ node.addr = daemon[n].addr  BY <1>1 DEF DaemonRecord
  <1>5. FewerFinals(left, inbox[n])
    <2>1. Answers(n) \in Seq(Message) /\ FewerFinals(Answers(n), inbox[n])
      BY AnswersKept, FewerDrawn
    <2>2. FewerFinals(Append(Answers(n), Plain("join_error")), Answers(n))
      BY <2>1, PlainFacts, FewerAppend DEF MessageKinds, FinalKinds
    <2>3. FewerFinals(Append(Answers(n), Plain("join_error")), inbox[n])
      BY <2>1, <2>2, FewerThrough
    <2> QED  BY <2>1, <2>3
  <1> HIDE DEF next, node, left
  <1>6. SameAttempt(app'[k], app[k])  BY <1>2, <1>3 DEF TypeInv, SameAttempt
  <1>7. daemon'[k].session = daemon[k].session /\ daemon'[k].addr = daemon[k].addr
    BY <1>2, <1>4 DEF TypeInv
  <1>8. FewerFinals(inbox'[k], inbox[k])
    BY <1>2, <1>5, FewerSame DEF TypeInv
  <1> QED  BY <1>6, <1>7, <1>8, AddressKeeps

\* The creator of a network has the address of its number.
LEMMA ImportAddress ==
    ASSUME TypeInv, NEW n \in Node, Import(n), NEW k \in Node, AddressAt(k)
    PROVE  AddressAt(k)'
  <1>1. app[n] \in AppRecord /\ daemon[n] \in DaemonRecord  BY DEF TypeInv
  <1> DEFINE joining == app[n].snap.state = "joining"
             keyed == disk[n].device \/ ~app[n].token
             made == keyed /\ ~Existing(n)
             left == IF joining THEN Answers(n) ELSE inbox[n]
             state == IF keyed THEN "importing" ELSE AfterCancel(n)
             next == [StartOver(app[n]) EXCEPT !.state = state]
             beacon == daemon[n].beacon /\ ~joining /\ ~made
             net == IF made THEN n ELSE daemon[n].net
             addr == IF made THEN n ELSE daemon[n].addr
             node == [daemon[n] EXCEPT !.beacon = beacon, !.net = net, !.addr = addr]
             answer == Plain(IF made THEN "join_complete" ELSE "import_error")
             mail == IF ~keyed THEN left ELSE Append(left, answer)
  <1>2. /\ app' = [app EXCEPT ![n] = next] /\ daemon' = [daemon EXCEPT ![n] = node]
        /\ inbox' = [inbox EXCEPT ![n] = mail]
    BY DEF Import
  <1> HIDE DEF state
  <1>3. SameAttempt(next, app[n])
    BY <1>1, StartOverType, StartOverSame DEF AppRecord, SameAttempt
  <1>4. left \in Seq(Message) /\ FewerFinals(left, inbox[n])
    BY AnswersKept, FewerDrawn, FewerSame DEF TypeInv
  <1>5. answer \in Message /\ answer.kind \notin FinalKinds
    BY PlainFacts DEF MessageKinds, FinalKinds
  <1> HIDE DEF left, answer, next
  <1>6. FewerFinals(mail, inbox[n])
    <2>1. FewerFinals(Append(left, answer), left)  BY <1>4, <1>5, FewerAppend
    <2>2. FewerFinals(Append(left, answer), inbox[n])  BY <1>4, <2>1, FewerThrough
    <2> QED  BY <1>4, <2>2
  <1>7. addr \in {n, daemon[n].addr}  OBVIOUS
  <1> HIDE DEF beacon, net, addr, made, mail
  <1>8. node.session = daemon[n].session /\ node.addr = addr  BY <1>1 DEF DaemonRecord
  <1> HIDE DEF node
  <1>9. SameAttempt(app'[k], app[k])  BY <1>2, <1>3 DEF TypeInv, SameAttempt
  <1>10. FewerFinals(inbox'[k], inbox[k])  BY <1>2, <1>6, FewerSame DEF TypeInv
  <1>11. daemon'[k].session = daemon[k].session /\ daemon'[k].addr \in {k, daemon[k].addr}
    BY <1>2, <1>7, <1>8 DEF TypeInv
  <1>12. AttemptAt(app'[k], daemon[k].session, inbox'[k])
    BY <1>9, <1>10, FewerKeeps DEF AddressAt
  <1> QED  BY <1>11, <1>12 DEF AddressAt

LEMMA PrepareKeysAddress ==
    ASSUME TypeInv, NEW n \in Node, PrepareKeys(n), NEW k \in Node, AddressAt(k)
    PROVE  AddressAt(k)'
  <1>1. app[n] \in AppRecord /\ daemon[n] \in DaemonRecord  BY DEF TypeInv
  <1> DEFINE creator == disk[n].creds /\ daemon[n].net = n
             key == IF creator /\ daemon[n].appkey = Nobody THEN n ELSE daemon[n].appkey
             stage == IF creator \/ daemon[n].appkey # Nobody THEN 1 ELSE 0
             node == [daemon[n] EXCEPT !.appkey = key]
             next == [app[n] EXCEPT !.stage = stage]
  <1>2. daemon' = [daemon EXCEPT ![n] = node] /\ app' = [app EXCEPT ![n] = next]
        /\ UNCHANGED inbox
    BY DEF PrepareKeys
  <1> HIDE DEF key, stage
  <1>3. SameAttempt(next, app[n])  BY <1>1 DEF AppRecord, SameAttempt
  <1>4. node.session = daemon[n].session /\ node.addr = daemon[n].addr  BY <1>1 DEF DaemonRecord
  <1> HIDE DEF next, node
  <1>5. SameAttempt(app'[k], app[k])  BY <1>2, <1>3 DEF TypeInv, SameAttempt
  <1>6. daemon'[k].session = daemon[k].session /\ daemon'[k].addr = daemon[k].addr
    BY <1>2, <1>4 DEF TypeInv
  <1> QED  BY <1>2, <1>5, <1>6, FewerSame, AddressKeeps

LEMMA SetUpAddress ==
    ASSUME TypeInv, NEW n \in Node, SetUp(n), NEW k \in Node, AddressAt(k)
    PROVE  AddressAt(k)'
  <1>1. app[n] \in AppRecord /\ daemon[n] \in DaemonRecord  BY DEF TypeInv
  <1> DEFINE done == app[n].stage = 3 /\ app[n].bound
             stage == IF app[n].stage < 3 THEN app[n].stage + 1 ELSE IF done THEN 3 ELSE 1
             next == [app[n] EXCEPT !.ready = done, !.stage = stage]
  <1>2. app' = [app EXCEPT ![n] = next]  BY <1>1 DEF SetUp, AppRecord
  <1> HIDE DEF done, stage
  <1>3. SameAttempt(next, app[n])  BY <1>1 DEF AppRecord, SameAttempt
  <1> HIDE DEF next
  <1>4. SameAttempt(app'[k], app[k])  BY <1>2, <1>3 DEF TypeInv, SameAttempt
  <1>5. CASE UNCHANGED <<daemon, inbox>>  BY <1>4, <1>5, FewerSame, AddressKeeps
  <1>6. CASE daemon' = [daemon EXCEPT ![n].bound = TRUE] /\ Tell(n, Plain("bound"))
    <2>1. FewerFinals(inbox'[k], inbox[k])
      BY <1>6, PlainFacts, TellFewer DEF MessageKinds, FinalKinds
    <2>2. daemon'[k].session = daemon[k].session /\ daemon'[k].addr = daemon[k].addr
      BY <1>1, <1>6 DEF TypeInv, DaemonRecord
    <2> QED  BY <1>4, <2>1, <2>2, AddressKeeps
  <1> QED  BY <1>5, <1>6 DEF SetUp

LEMMA EnrollAddress ==
    ASSUME TypeInv, Prompt, NEW n \in Node, Enroll(n), NEW k \in Node, AddressAt(k), AddressAt(n)
    PROVE  AddressAt(k)'
  <1>1. app[n] \in AppRecord /\ daemon[n] \in DaemonRecord /\ inbox[n] \in Seq(Message)
    BY DEF TypeInv
  <1>2. PICK a \in Afterwards(n, TakeEvents(app[n])) :
          LET step == Step(n, a) IN
             \/ app' = [app EXCEPT ![n] = step.next] /\ UNCHANGED <<daemon, inbox>>
             \/ /\ step.next.pend = Nobody
                /\ \E m \in Sought(n, step.next) :
                      /\ app' = [app EXCEPT ![n] = Attempt(step.next, m)]
                      /\ IF step.next.starting THEN UNCHANGED <<daemon, inbox>>
                         ELSE Request(n, m)
    BY Zenon DEF Enroll
  <1> DEFINE b == Step(n, a).next
  <1>3. b \in AppRecord /\ AttemptAt(b, daemon[n].session, inbox[n]) /\ b.up
    <2>1. a \in AppRecord /\ SameSetup(a, app[n])
      BY <1>1, TakeEventsType, ForgetType, EnrollSetup DEF Afterwards, SameSetup
    <2>2. app[n].up  BY DEF Enroll, Attached
    <2>3. b \in AppRecord /\ SameSetup(b, a)  BY <2>1, StepType, EnrollSetup
    <2>4. AttemptAt(b, daemon[n].session, inbox[n])  BY PassKeepsAttempt DEF AddressAt
    <2> QED  BY <2>1, <2>2, <2>3, <2>4 DEF SameSetup
  <1> HIDE DEF b
  <1>4. CASE k # n
    <2>1. app'[k] = app[k]  BY <1>2, <1>4 DEF TypeInv
    <2>2. UNCHANGED <<daemon, inbox>> \/ \E m : Request(n, m)  BY <1>2
    <2>3. daemon'[k] = daemon[k] /\ inbox'[k] = inbox[k]
      BY <2>2, <1>4 DEF Request, Tell, TypeInv
    <2> QED  BY <2>1, <2>3 DEF AddressAt
  <1>5. CASE k = n
    <2>1. CASE app' = [app EXCEPT ![n] = b] /\ UNCHANGED <<daemon, inbox>>
      BY <1>3, <1>5, <2>1 DEF AddressAt, TypeInv
    <2>2. CASE /\ b.pend = Nobody
               /\ \E m \in Sought(n, b) :
                      /\ app' = [app EXCEPT ![n] = Attempt(b, m)]
                      /\ IF b.starting THEN UNCHANGED <<daemon, inbox>> ELSE Request(n, m)
      <3>1. PICK m \in Node :
                      /\ app' = [app EXCEPT ![n] = Attempt(b, m)]
                      /\ IF b.starting THEN UNCHANGED <<daemon, inbox>> ELSE Request(n, m)
        BY <2>2 DEF Sought, Absent
      <3>2. app'[n] = Attempt(b, m)  BY <3>1 DEF TypeInv
      <3>3. CASE b.starting
        <4>1. AttemptAt(Attempt(b, m), daemon[n].session, inbox[n])
          BY <1>1, <1>3, <2>2, <3>3, AttemptBegins
        <4> QED  BY <1>5, <3>1, <3>2, <3>3, <4>1 DEF AddressAt
      <3>4. CASE ~b.starting
        <4> DEFINE s == [to |-> m, addr |-> Nobody]
                   r == Append(inbox[n], About("add_started", m, Nobody))
        <4>1. daemon[n].session.to = Nobody  BY <1>3, <2>2 DEF AttemptAt
        <4>2. Request(n, m)  BY <3>1, <3>4
        <4>3. daemon' = [daemon EXCEPT ![n].session = s] /\ inbox' = [inbox EXCEPT ![n] = r]
          BY <4>1, <4>2 DEF Request, Tell
        <4>4. AttemptAt(Attempt(b, m), s, r)  BY <1>1, <1>3, <2>2, <3>4, AttemptBegins
        <4> HIDE DEF s, r
        <4>5. daemon'[n].session = s /\ daemon'[n].addr = daemon[n].addr /\ inbox'[n] = r
          BY <1>1, <4>3 DEF TypeInv, DaemonRecord
        <4> QED  BY <1>5, <3>2, <4>4, <4>5 DEF AddressAt
      <3> QED  BY <3>3, <3>4
    <2> QED  BY <1>2, <2>1, <2>2 DEF b
  <1> QED  BY <1>4, <1>5

LEMMA HandleAddress ==
    ASSUME TypeInv, NEW n \in Node, Handle(n), NEW k \in Node, AddressAt(k)
    PROVE  AddressAt(k)'
  <1>1. app[n] \in AppRecord /\ inbox[n] \in Seq(Message) /\ inbox[n] # <<>> /\ UNCHANGED daemon
    BY DEF TypeInv, Handle
  <1>2. inbox' = [inbox EXCEPT ![n] = Tail(inbox[n])]  BY DEF Handle
  <1> DEFINE message == Head(inbox[n])
             events == Append(app[n].events, message)
             starting == app[n].starting /\ message.kind # "add_refused"
             state == IF app[n].state = "joining" THEN ByToken(n) ELSE app[n].state
             last == [app[n] EXCEPT !.events = events, !.starting = starting]
             nexts == {[app[n] EXCEPT !.token = TRUE, !.state = "provisioned"],
                       [app[n] EXCEPT !.state = "join_failed"],
                       [app[n] EXCEPT !.state = state], [app[n] EXCEPT !.state = ByToken(n)],
                       [app[n] EXCEPT !.bound = TRUE], [app[n] EXCEPT !.starting = FALSE]}
  <1>3. CASE k # n
    <2>1. app'[k] = app[k]
      <3>1. \E next : app' = [app EXCEPT ![n] = next]
        BY Zenon DEF Handle
      <3> QED  BY <1>3, <3>1 DEF TypeInv
    <2>2. inbox'[k] = inbox[k]  BY <1>2, <1>3 DEF TypeInv
    <2> QED  BY <1>1, <2>1, <2>2 DEF AddressAt
  <1>4. CASE k = n /\ message.kind \in FinalKinds
    <2>1. app' = [app EXCEPT ![n] = last]  BY <1>4 DEF Handle, FinalKinds
    <2> HIDE DEF message, starting
    <2>2. /\ last.up = app[n].up /\ last.pend = app[n].pend /\ last.remote = app[n].remote
          /\ last.clock = app[n].clock /\ last.events = events
      BY <1>1 DEF AppRecord
    <2>3. app[n].events \in Seq(Message)  BY <1>1 DEF AppRecord
    <2> HIDE DEF last
    <2>4. AttemptAt(last, daemon[n].session, Tail(inbox[n]))
      BY <1>1, <1>4, <2>2, <2>3, FinalTaken DEF AddressAt, message
    <2>5. app'[n] = last /\ inbox'[n] = Tail(inbox[n])  BY <1>2, <2>1 DEF TypeInv
    <2> QED  BY <1>1, <1>4, <2>4, <2>5 DEF AddressAt
  <1>5. CASE k = n /\ message.kind \notin FinalKinds
    <2>1. message \in Message  BY <1>1, HeadTailProperties
    <2>2. message.kind \in {"join_complete", "join_failed", "join_error", "import_error",
                            "bound", "add_started"}
      BY <1>5, <2>1 DEF Message, FinalKinds
    <2>3. \E next \in nexts : app' = [app EXCEPT ![n] = next]
      <3>1. CASE message.kind = "join_complete"  BY <3>1 DEF Handle
      <3>2. CASE message.kind = "join_failed"  BY <3>2 DEF Handle
      <3>3. CASE message.kind = "join_error"  BY <3>3 DEF Handle
      <3>4. CASE message.kind = "import_error"  BY <3>4 DEF Handle
      <3>5. CASE message.kind = "bound"  BY <3>5 DEF Handle
      <3>6. CASE message.kind = "add_started"  BY <3>6 DEF Handle
      <3> QED  BY <2>2, <3>1, <3>2, <3>3, <3>4, <3>5, <3>6
    <2>4. PICK next \in nexts : app' = [app EXCEPT ![n] = next]  BY <2>3
    <2> HIDE DEF state, message
    <2>5. SameAttempt(next, app[n])  BY <1>1 DEF AppRecord, SameAttempt
    <2>6. SameAttempt(app'[k], app[k])  BY <1>5, <2>4, <2>5 DEF TypeInv
    <2>7. FewerFinals(inbox'[k], inbox[k])  BY <1>1, <1>2, <1>5, FewerTail DEF TypeInv
    <2> QED  BY <1>1, <2>6, <2>7, AddressKeeps
  <1> QED  BY <1>3, <1>4, <1>5

\* What is over at n ends with a final message to n; nobody else is concerned.
LEMMA EndAddress ==
    ASSUME TypeInv, NEW n \in Node, NEW k \in Node, AddressAt(k), NEW message \in Message,
           daemon[n].session.to # Nobody, message.kind \in FinalKinds,
           message.uuid = daemon[n].session.to, Tell(n, message),
           daemon' = [daemon EXCEPT ![n].session = NoSession], UNCHANGED app
    PROVE  AddressAt(k)'
  <1>1. daemon[n] \in DaemonRecord /\ inbox[n] \in Seq(Message)  BY DEF TypeInv
  <1>2. CASE k # n
    <2>1. daemon'[k] = daemon[k] /\ inbox'[k] = inbox[k]
      BY <1>2 DEF TypeInv, Tell
    <2> QED  BY <2>1 DEF AddressAt
  <1>3. CASE k = n
    <2>2. AttemptAt(app[n], NoSession, Append(inbox[n], message))
      BY <1>1, <1>3, SessionEnds DEF AddressAt
    <2>3. inbox'[n] = Append(inbox[n], message) /\ daemon'[n].session = NoSession
          /\ daemon'[n].addr = daemon[n].addr
      BY <1>1 DEF Tell, TypeInv, DaemonRecord
    <2> QED  BY <1>3, <2>2, <2>3 DEF AddressAt
  <1> QED  BY <1>2, <1>3

LEMMA AboutFacts ==
    ASSUME NEW kind \in FinalKinds, NEW m \in MaybeNode, NEW b \in MaybeNode
    PROVE  /\ About(kind, m, b) \in Message /\ About(kind, m, b).kind \in FinalKinds
           /\ About(kind, m, b).uuid = m
  BY MessageType DEF About, FinalKinds, MessageKinds

LEMMA RequestProvDataAddress ==
    ASSUME TypeInv, NEW n \in Node, RequestProvData(n), NEW k \in Node, AddressAt(k), AddressAt(n)
    PROVE  AddressAt(k)'
  <1>1. app[n] \in AppRecord /\ daemon[n] \in DaemonRecord /\ inbox[n] \in Seq(Message)
    BY DEF TypeInv
  <1>2. daemon[n].session \in SessionRecord /\ app[n].reserved \in MaybeNode
    BY <1>1 DEF AppRecord, DaemonRecord
  <1> DEFINE next == [app[n] EXCEPT !.reserved = Nobody]
             m == daemon[n].session.to
  <1>3. app' = [app EXCEPT ![n] = next] /\ m # Nobody  BY DEF RequestProvData
  <1>4. /\ next.up = app[n].up /\ next.pend = app[n].pend /\ next.remote = app[n].remote
        /\ next.clock = app[n].clock /\ next.events = app[n].events /\ next.reserved = Nobody
    BY <1>1 DEF AppRecord
  <1>5. m \in MaybeNode  BY <1>2 DEF SessionRecord
  <1> HIDE DEF next
  <1>6. CASE app[n].reserved # Nobody
    <2> DEFINE s == [daemon[n].session EXCEPT !.addr = app[n].reserved]
    <2>1. daemon' = [daemon EXCEPT ![n] = [daemon[n] EXCEPT !.session = s]] /\ UNCHANGED inbox
      BY <1>6 DEF RequestProvData
    <2>2. s.to = m /\ s.addr = app[n].reserved  BY <1>2 DEF SessionRecord
    <2>3. app[n].reserved = m  BY <1>3, <1>6 DEF AddressAt, AttemptAt
    <2>4. AttemptAt(next, s, inbox[n])
      <3> HIDE DEF s, m
      <3> QED  BY <1>3, <1>4, <2>2, <2>3 DEF AddressAt, AttemptAt, m
    <2> HIDE DEF s, m
    <2>5. daemon'[n].session = s /\ daemon'[n].addr = daemon[n].addr
      BY <1>1, <2>1 DEF TypeInv, DaemonRecord
    <2>6. CASE k = n  BY <1>3, <2>1, <2>4, <2>5, <2>6 DEF AddressAt, TypeInv
    <2>7. CASE k # n  BY <1>3, <2>1, <2>7 DEF AddressAt, TypeInv
    <2> QED  BY <2>6, <2>7
  <1>7. CASE app[n].reserved = Nobody
    <2>1. daemon' = [daemon EXCEPT ![n].session = NoSession]
          /\ Tell(n, About("add_failed", m, Nobody))
      BY <1>7 DEF RequestProvData
    <2>2. next = app[n]  BY <1>1, <1>7 DEF next, AppRecord
    <2>3. app' = app  BY <1>3, <2>2 DEF TypeInv
    <2>5. /\ About("add_failed", m, Nobody) \in Message
          /\ About("add_failed", m, Nobody).kind \in FinalKinds
          /\ About("add_failed", m, Nobody).uuid = m
      BY <1>5, AboutFacts DEF FinalKinds, MaybeNode
    <2> QED  BY <1>3, <2>1, <2>3, <2>5, EndAddress
  <1> QED  BY <1>6, <1>7

LEMMA GiveUpAddress ==
    ASSUME TypeInv, NEW n \in Node, GiveUp(n), NEW k \in Node, AddressAt(k)
    PROVE  AddressAt(k)'
  <1> DEFINE m == daemon[n].session.to
  <1>1. daemon[n].session \in SessionRecord  BY DEF TypeInv, DaemonRecord
  <1>2. m \in MaybeNode  BY <1>1 DEF SessionRecord
  <1>3. /\ daemon' = [daemon EXCEPT ![n].session = NoSession] /\ m # Nobody
        /\ Tell(n, About("add_failed", m, Nobody)) /\ UNCHANGED app
    BY DEF GiveUp
  <1>5. /\ About("add_failed", m, Nobody) \in Message
        /\ About("add_failed", m, Nobody).kind \in FinalKinds
        /\ About("add_failed", m, Nobody).uuid = m
    BY <1>2, AboutFacts DEF FinalKinds, MaybeNode
  <1> QED  BY <1>3, <1>5, EndAddress

\* The newcomer takes the address of the session, which is its number.
LEMMA ProvisionAddress ==
    ASSUME TypeInv, NEW n \in Node, Provision(n), NEW k \in Node, AddressAt(k), AddressAt(n)
    PROVE  AddressAt(k)'
  <1> DEFINE m == daemon[n].session.to
             a == daemon[n].session.addr
             new == [daemon[m] EXCEPT !.net = daemon[n].net, !.addr = a, !.beacon = FALSE]
             d == [daemon EXCEPT ![m] = new]
             q == [inbox EXCEPT ![m] = Append(inbox[m], Plain("join_complete"))]
  <1>1. /\ m \in Node /\ a \in Node /\ UNCHANGED app
        /\ d \in [Node -> DaemonRecord] /\ q \in [Node -> Seq(Message)]
    BY ProvisionEffect, Zenon
  <1>2. PICK ring \in SUBSET Node, kind \in {"add_complete", "add_failed"}, b \in MaybeNode :
                 /\ daemon' = [d EXCEPT ![n] = [d[n] EXCEPT !.session = NoSession, !.ring = ring]]
                 /\ inbox' = [q EXCEPT ![n] = Append(q[n], About(kind, m, b))]
    BY ProvisionEffect, Zenon
  <1>3. m # Nobody /\ a # Nobody  BY <1>1, NobodyNumber
  <1>4. a = m  BY <1>3 DEF AddressAt, AttemptAt
  \* At the newcomer: its address and a message that ends nothing.
  <1>5. ASSUME NEW p \in Node
        PROVE  /\ d[p].session = daemon[p].session
               /\ d[p].addr \in {p, daemon[p].addr}
               /\ FewerFinals(q[p], inbox[p])
    <2>1. daemon[m] \in DaemonRecord /\ inbox[m] \in Seq(Message)  BY <1>1 DEF TypeInv
    <2>2. new.session = daemon[m].session /\ new.addr = a  BY <2>1 DEF DaemonRecord
    <2>3. FewerFinals(Append(inbox[m], Plain("join_complete")), inbox[m])
      BY <2>1, PlainFacts, FewerAppend DEF MessageKinds, FinalKinds
    <2> HIDE DEF new, m, a
    <2>4. CASE p = m  BY <1>1, <1>4, <2>2, <2>3, <2>4 DEF TypeInv
    <2>5. CASE p # m
      <3>1. d[p] = daemon[p] /\ q[p] = inbox[p]  BY <2>5
      <3> QED  BY <3>1, FewerSame
    <2> QED  BY <2>4, <2>5
  <1> HIDE DEF d, q
  <1>6. ASSUME NEW p \in Node
        PROVE  daemon'[p].addr = d[p].addr
    BY <1>1, <1>2 DEF DaemonRecord
  <1>7. CASE k # n
    <2>1. daemon'[k] = d[k] /\ inbox'[k] = q[k]  BY <1>1, <1>2, <1>7
    <2>2. AttemptAt(app[k], daemon[k].session, q[k])
      BY <1>5, FewerKeeps DEF AddressAt, SameAttempt
    <2> QED  BY <1>1, <1>5, <2>1, <2>2 DEF AddressAt
  \* At the provisioner: the end of its session.
  <1>8. CASE k = n
    <2>1. AttemptAt(app[n], daemon[n].session, q[n])
      BY <1>5, <1>8, FewerKeeps DEF AddressAt, SameAttempt
    <2>2. /\ About(kind, m, b) \in Message /\ About(kind, m, b).kind \in FinalKinds
          /\ About(kind, m, b).uuid = m
      BY <1>1, AboutFacts DEF FinalKinds, MaybeNode
    <2>3. AttemptAt(app[n], NoSession, Append(q[n], About(kind, m, b)))
      BY <1>1, <1>3, <2>1, <2>2, SessionEnds
    <2> HIDE DEF m, a
    <2>4. inbox'[n] = Append(q[n], About(kind, m, b)) /\ daemon'[n].session = NoSession
      BY <1>1, <1>2 DEF DaemonRecord
    <2> QED  BY <1>1, <1>5, <1>6, <1>8, <2>3, <2>4 DEF AddressAt
  <1> QED  BY <1>7, <1>8

LEMMA JoinExpiresAddress ==
    ASSUME TypeInv, NEW n \in Node, JoinExpires(n), NEW k \in Node, AddressAt(k)
    PROVE  AddressAt(k)'
  <1>1. daemon[n] \in DaemonRecord  BY DEF TypeInv
  <1>2. daemon' = [daemon EXCEPT ![n] = [daemon[n] EXCEPT !.beacon = FALSE]]
        /\ Tell(n, Plain("join_failed")) /\ UNCHANGED app
    BY DEF JoinExpires
  <1>3. daemon'[k].session = daemon[k].session /\ daemon'[k].addr = daemon[k].addr
    BY <1>1, <1>2 DEF TypeInv, DaemonRecord
  <1>4. FewerFinals(inbox'[k], inbox[k])
    BY <1>2, PlainFacts, TellFewer DEF MessageKinds, FinalKinds
  <1>5. SameAttempt(app'[k], app[k])  BY <1>2 DEF SameAttempt
  <1> QED  BY <1>3, <1>4, <1>5, AddressKeeps

LEMMA DeliverAddress ==
    ASSUME TypeInv, NEW c \in radio, Deliver(c), NEW k \in Node, AddressAt(k)
    PROVE  AddressAt(k)'
  <1> DEFINE m == c.dst
             key == IF daemon[m].appkey = Nobody THEN daemon[c.src].appkey ELSE daemon[m].appkey
  <1>1. m \in MaybeNode /\ UNCHANGED app  BY DEF TypeInv, Letter, Deliver
  <1>2. \/ UNCHANGED daemon
        \/ daemon' = [daemon EXCEPT ![m] = [daemon[m] EXCEPT !.appkey = key]]
        \/ daemon' = [daemon EXCEPT ![m] = [daemon[m] EXCEPT !.bound = TRUE]]
    BY DEF Deliver
  <1>3. UNCHANGED inbox \/ Tell(m, Plain("bound"))  BY DEF Deliver
  <1> HIDE DEF key, m
  <1>4. daemon'[k].session = daemon[k].session /\ daemon'[k].addr = daemon[k].addr
    <2>1. daemon[k] \in DaemonRecord /\ daemon \in [Node -> DaemonRecord]  BY DEF TypeInv
    <2>2. CASE UNCHANGED daemon  BY <2>2
    <2>3. CASE daemon' = [daemon EXCEPT ![m] = [daemon[m] EXCEPT !.appkey = key]]
      BY <2>1, <2>3 DEF DaemonRecord
    <2>4. CASE daemon' = [daemon EXCEPT ![m] = [daemon[m] EXCEPT !.bound = TRUE]]
      BY <2>1, <2>4 DEF DaemonRecord
    <2> QED  BY <1>2, <2>2, <2>3, <2>4
  <1>5. FewerFinals(inbox'[k], inbox[k])
    <2>1. CASE UNCHANGED inbox  BY <2>1, FewerSame
    <2>2. CASE Tell(m, Plain("bound")) /\ m \in Node
      BY <2>2, PlainFacts, TellFewer DEF MessageKinds, FinalKinds
    <2>3. CASE Tell(m, Plain("bound")) /\ m \notin Node
      <3>1. inbox'[k] = inbox[k]  BY <2>3 DEF Tell, TypeInv
      <3> QED  BY <3>1, FewerSame
    <2> QED  BY <1>3, <2>1, <2>2, <2>3
  <1>6. SameAttempt(app'[k], app[k])  BY <1>1 DEF SameAttempt
  <1> QED  BY <1>4, <1>5, <1>6, AddressKeeps

\* A session that has never begun.
LEMMA NothingAt ==
    ASSUME NEW a, NEW q, a.pend = Nobody, a.remote = 0, a.events = <<>>, Finals(q) = {}
    PROVE  AttemptAt(a, NoSession, q)
  BY DEF AttemptAt, NoSession

LEMMA CrashAddress ==
    ASSUME TypeInv, NEW n \in Node, Crash(n), NEW k \in Node, AddressAt(k)
    PROVE  AddressAt(k)'
  <1> DEFINE unborn == \E i \in DOMAIN inbox[n] : inbox[n][i].kind = "join_complete"
             dropped == [NewDaemon EXCEPT !.up = daemon[n].up]
             left == [daemon[n] EXCEPT !.beacon = FALSE, !.serving = FALSE,
                                       !.session = NoSession]
             node == IF unborn THEN dropped ELSE left
             next == [NewApp(FALSE) EXCEPT !.up = FALSE]
  <1>1. daemon[n] \in DaemonRecord  BY DEF TypeInv
  <1>2. daemon' = [daemon EXCEPT ![n] = node] /\ app' = [app EXCEPT ![n] = next]
        /\ inbox' = [inbox EXCEPT ![n] = <<>>]
    BY DEF Crash
  <1>3. next.pend = Nobody /\ next.remote = 0 /\ next.events = <<>>  BY DEF NewApp
  <1>4. dropped.session = NoSession /\ dropped.addr = Nobody  BY DEF NewDaemon
  <1>5. left.session = NoSession /\ left.addr = daemon[n].addr  BY <1>1 DEF DaemonRecord
  <1> HIDE DEF unborn, dropped, left, next
  <1>6. node.session = NoSession /\ node.addr \in {Nobody, daemon[n].addr}  BY <1>4, <1>5
  <1>7. Finals(<<>>) = {}  BY DEF Finals
  <1> HIDE DEF node
  <1>8. CASE k # n  BY <1>2, <1>8 DEF AddressAt, TypeInv
  <1>9. CASE k = n
    <2>1. AttemptAt(next, NoSession, <<>>)  BY <1>3, <1>7, NothingAt
    <2>2. app'[n] = next /\ inbox'[n] = <<>> /\ daemon'[n] = node  BY <1>2 DEF TypeInv
    <2> QED  BY <1>6, <1>9, <2>1, <2>2 DEF AddressAt
  <1> QED  BY <1>8, <1>9

LEMMA StartAddress ==
    ASSUME TypeInv, NEW n \in Node, Start(n), NEW k \in Node, AddressAt(k)
    PROVE  AddressAt(k)'
  <1> DEFINE next == NewApp(disk[n].token)
  <1>1. app' = [app EXCEPT ![n] = next] /\ UNCHANGED <<daemon, inbox>> /\ ~app[n].up  BY DEF Start
  <1>2. next.pend = Nobody /\ next.remote = 0 /\ next.events = <<>>  BY DEF NewApp
  <1> HIDE DEF next
  <1>3. CASE k # n  BY <1>1, <1>3 DEF AddressAt, TypeInv
  <1>4. CASE k = n
    <2>1. daemon[n].session.to = Nobody /\ Finals(inbox[n]) = {}
      BY <1>1, <1>4 DEF AddressAt, AttemptAt
    <2>2. daemon[n].session \in SessionRecord  BY DEF TypeInv, DaemonRecord
    <2>3. AttemptAt(next, daemon[n].session, inbox[n])  BY <1>2, <2>1 DEF AttemptAt
    <2>4. app'[n] = next  BY <1>1 DEF TypeInv
    <2> QED  BY <1>1, <1>4, <2>3, <2>4 DEF AddressAt
  <1> QED  BY <1>3, <1>4

LEMMA DaemonStopsAddress ==
    ASSUME TypeInv, NEW n \in Node, DaemonStops(n), NEW k \in Node, AddressAt(k)
    PROVE  AddressAt(k)'
  <1> DEFINE node == [daemon[n] EXCEPT !.up = FALSE, !.beacon = FALSE, !.serving = FALSE,
                                       !.session = NoSession]
  <1>1. daemon[n] \in DaemonRecord  BY DEF TypeInv
  <1>2. daemon' = [daemon EXCEPT ![n] = node] /\ UNCHANGED <<app, inbox>>  BY DEF DaemonStops
  <1>3. node.session = NoSession /\ node.addr = daemon[n].addr  BY <1>1 DEF DaemonRecord
  <1> HIDE DEF node
  <1>4. CASE k # n  BY <1>2, <1>4 DEF AddressAt, TypeInv
  <1>5. CASE k = n
    <2>1. NoSession.to = Nobody  BY DEF NoSession
    <2>2. AttemptAt(app[n], NoSession, inbox[n])  BY <1>5, <2>1 DEF AddressAt, AttemptAt
    <2>3. daemon'[n] = node  BY <1>2 DEF TypeInv
    <2> QED  BY <1>2, <1>3, <1>5, <2>2, <2>3 DEF AddressAt
  <1> QED  BY <1>4, <1>5

LEMMA DaemonStartsAddress ==
    ASSUME TypeInv, NEW n \in Node, DaemonStarts(n), NEW k \in Node, AddressAt(k)
    PROVE  AddressAt(k)'
  <1>1. daemon[n] \in DaemonRecord  BY DEF TypeInv
  <1>2. daemon' = [daemon EXCEPT ![n] = [daemon[n] EXCEPT !.up = TRUE]] /\ UNCHANGED <<app, inbox>>
    BY DEF DaemonStarts
  <1>3. daemon'[k].session = daemon[k].session /\ daemon'[k].addr = daemon[k].addr
    BY <1>1, <1>2 DEF TypeInv, DaemonRecord
  <1> QED  BY <1>2, <1>3 DEF AddressAt

LEMMA AddressInit == Init => AddressInv
  <1> SUFFICES ASSUME Init, NEW n \in Node PROVE AddressAt(n)  BY DEF AddressInv, AddressAt
  <1>1. daemon[n].session = NoSession /\ daemon[n].addr = Nobody  BY DEF Init, NewDaemon
  <1>2. app[n].pend = Nobody /\ app[n].remote = 0 /\ app[n].events = <<>>  BY DEF Init, NewApp
  <1>3. Finals(inbox[n]) = {}  BY DEF Init, Finals
  <1> QED  BY <1>1, <1>2, <1>3, NothingAt DEF AddressAt

LEMMA AddressStep == TypeInv /\ AddressInv /\ [Next]_vars => AddressInv'
  <1> SUFFICES ASSUME TypeInv, AddressInv, [Next]_vars, Prompt', NEW k \in Node
               PROVE  AddressAt(k)'
    BY DEF AddressInv, AddressAt
  <1>1. Prompt
    <2>1. ASSUME NEW n \in Node, Pass(n) PROVE UNCHANGED cast
      BY <2>1, Zenon DEF Pass, Wait, Attach, Join, Import, PrepareKeys, SetUp, Enroll
    <2>2. ASSUME NEW n \in Node, \/ Refresh(n) \/ Handle(n) \/ ReplyTimeout(n)
                                 \/ RequestProvData(n) \/ Provision(n)
          PROVE  UNCHANGED cast
      BY <2>2, Zenon DEF Refresh, Handle, ReplyTimeout, RequestProvData, Provision
    <2>3. ASSUME NEW n \in Node, \/ JoinExpires(n) \/ GiveUp(n) \/ Crash(n)
                                 \/ Start(n) \/ DaemonStops(n) \/ DaemonStarts(n)
          PROVE  UNCHANGED cast
      BY <2>3, Zenon DEF JoinExpires, GiveUp, Crash, Start, DaemonStops, DaemonStarts
    <2>4. ASSUME NEW c \in radio, Deliver(c) \/ Lose(c) PROVE UNCHANGED cast
      BY <2>4, Zenon DEF Deliver, Lose
    <2>5. UNCHANGED vars => UNCHANGED cast  BY DEF vars
    <2>6. UNCHANGED cast  BY <2>1, <2>2, <2>3, <2>4, <2>5 DEF Next
    <2> QED  BY <2>6 DEF Prompt
  <1>2. \A n \in Node : AddressAt(n)  BY <1>1 DEF AddressInv, AddressAt
  <1>3. ASSUME NEW n \in Node, Pass(n) PROVE AddressAt(k)'
    BY <1>1, <1>2, <1>3, WaitAddress, AttachAddress, JoinAddress, ImportAddress,
       PrepareKeysAddress, SetUpAddress, EnrollAddress DEF Pass
  <1>4. ASSUME NEW n \in Node,
               \/ Refresh(n) \/ Handle(n)
               \/ RequestProvData(n) \/ Provision(n) \/ JoinExpires(n) \/ GiveUp(n)
               \/ Crash(n) \/ Start(n) \/ DaemonStops(n) \/ DaemonStarts(n)
        PROVE AddressAt(k)'
    BY <1>2, <1>4, RefreshAddress, HandleAddress, RequestProvDataAddress, ProvisionAddress,
       JoinExpiresAddress, GiveUpAddress, CrashAddress, StartAddress, DaemonStopsAddress,
       DaemonStartsAddress
  <1>5. ASSUME NEW n \in Node, ReplyTimeout(n) PROVE FALSE  BY <1>1, <1>5 DEF ReplyTimeout
  <1>6. ASSUME NEW c \in radio, Deliver(c) \/ Lose(c) PROVE AddressAt(k)'
    <2>1. Lose(c) => UNCHANGED <<app, daemon, inbox>>  BY DEF Lose
    <2> QED  BY <1>2, <1>6, <2>1, DeliverAddress DEF AddressAt
  <1>7. CASE UNCHANGED vars  BY <1>2, <1>7 DEF vars, AddressAt
  <1> QED  BY <1>3, <1>4, <1>5, <1>6, <1>7 DEF Next

-----------------------------------------------------------------------------
(* The address when answers come late                                       *)

\* While an attempt is pending the reservation is for its peer; an address that has been
\* drawn is the session's own, and a node's is its number, but for a session that drew it
\* after its attempt had been given up.
DrawnAt(n) ==
    /\ app[n].pend # Nobody => app[n].reserved \in {Nobody, app[n].pend}
    /\ \/ daemon[n].session.addr \in {Nobody, daemon[n].session.to}
       \/ daemon[n].session.to \in history.strays
    /\ daemon[n].addr \in {Nobody, n} \/ n \in history.strays

DrawInv == \A n \in Node : DrawnAt(n)

\* A step that reserves nothing, draws nothing and gives no other address at n.
CalmAt(n) ==
    /\ app'[n].pend # Nobody => app'[n].pend = app[n].pend /\ app'[n].reserved = app[n].reserved
    /\ daemon'[n].session = daemon[n].session \/ daemon'[n].session.addr = Nobody
    /\ daemon'[n].addr \in {Nobody, n, daemon[n].addr}
    /\ history.strays \subseteq history'.strays

LEMMA CalmKeeps ==
    ASSUME NEW n \in Node, DrawnAt(n), CalmAt(n)
    PROVE  DrawnAt(n)'
  BY DEF DrawnAt, CalmAt

SameRequest(b, a) == b.pend = a.pend /\ b.reserved = a.reserved

LEMMA CalmApp ==
    ASSUME TypeInv, NEW n \in Node, NEW next, app' = [app EXCEPT ![n] = next],
           SameRequest(next, app[n]) \/ next.pend = Nobody, UNCHANGED history,
           NEW k \in Node,
           daemon'[k].session = daemon[k].session \/ daemon'[k].session.addr = Nobody,
           daemon'[k].addr \in {Nobody, k, daemon[k].addr}
    PROVE  CalmAt(k)
  <1>1. CASE k = n  BY <1>1 DEF TypeInv, CalmAt, SameRequest
  <1>2. CASE k # n  BY <1>2 DEF TypeInv, CalmAt
  <1> QED  BY <1>1, <1>2

LEMMA DaemonAt ==
    ASSUME TypeInv, NEW n \in Node, NEW d, daemon' = [daemon EXCEPT ![n] = d], NEW k \in Node
    PROVE  daemon'[k] = IF k = n THEN d ELSE daemon[k]
  BY DEF TypeInv

LEMMA RefreshCalm ==
    ASSUME TypeInv, NEW n \in Node, Refresh(n), NEW k \in Node
    PROVE  CalmAt(k)
  <1> DEFINE away == [app[n] EXCEPT !.attached = FALSE, !.ready = FALSE, !.stage = 0,
                        !.state = IF @ = "joining" THEN @ ELSE "daemon_unavailable"]
             state == IF app[n].attached \/ app[n].state = "daemon_unavailable"
                      THEN ByToken(n) ELSE app[n].state
             here == [app[n] EXCEPT !.attached = FALSE, !.state = state,
                 !.snap = [taken |-> TRUE, token |-> app[n].token, state |-> state]]
  <1>1. app[n] \in AppRecord /\ UNCHANGED <<daemon, history>>  BY DEF TypeInv, Refresh
  <1>2. SameRequest(away, app[n])  BY <1>1 DEF AppRecord, SameRequest
  <1>3. SameRequest(here, app[n])  BY <1>1 DEF AppRecord, SameRequest
  <1>4. app' = [app EXCEPT ![n] = away] \/ app' = [app EXCEPT ![n] = here]  BY DEF Refresh
  <1> HIDE DEF away, here, state
  <1> QED  BY <1>1, <1>2, <1>3, <1>4, CalmApp

LEMMA StartOverRequest ==
    ASSUME NEW a \in AppRecord
    PROVE  SameRequest(StartOver(a), a)
  BY DEF StartOver, AppRecord, SameRequest

LEMMA PassCalm ==
    ASSUME TypeInv, NEW n \in Node, NEW k \in Node,
           \/ Wait(n) \/ Attach(n) \/ Join(n) \/ Import(n) \/ PrepareKeys(n) \/ SetUp(n)
    PROVE  CalmAt(k)
  <1> DEFINE a == StartOver(app[n])
  <1>1. /\ app[n] \in AppRecord /\ a \in AppRecord /\ SameRequest(a, app[n])
        /\ daemon[k] \in DaemonRecord /\ daemon[n] \in DaemonRecord
    BY StartOverRequest, StartOverType DEF TypeInv
  <1> HIDE DEF a
  <1>2. \E next : app' = [app EXCEPT ![n] = next] /\ SameRequest(next, app[n])
    <2>1. CASE Wait(n)  BY <1>1, <2>1 DEF Wait, a
    <2>2. CASE Attach(n)
      <3> DEFINE next == [a EXCEPT !.attached = TRUE, !.state = "attached",
                                   !.bound = daemon[n].bound]
      <3>1. SameRequest(next, app[n])  BY <1>1 DEF AppRecord, SameRequest
      <3>2. app' = [app EXCEPT ![n] = next]  BY <2>2 DEF Attach, a
      <3> QED  BY <3>1, <3>2
    <2>3. CASE Join(n)
      <3> DEFINE next == [a EXCEPT !.state = "joining"]
      <3>1. SameRequest(next, app[n])  BY <1>1 DEF AppRecord, SameRequest
      <3>2. app' = [app EXCEPT ![n] = next]  BY <2>3 DEF Join, a
      <3> QED  BY <3>1, <3>2
    <2>4. CASE Import(n)
      <3> DEFINE keyed == disk[n].device \/ ~app[n].token
                 state == IF keyed THEN "importing" ELSE AfterCancel(n)
                 next == [a EXCEPT !.state = state]
      <3>1. app' = [app EXCEPT ![n] = next]  BY <2>4 DEF Import, a
      <3> HIDE DEF state
      <3>2. SameRequest(next, app[n])  BY <1>1 DEF AppRecord, SameRequest
      <3> QED  BY <3>1, <3>2
    <2>5. CASE PrepareKeys(n)
      <3> DEFINE stage == IF (disk[n].creds /\ daemon[n].net = n) \/ daemon[n].appkey # Nobody
                          THEN 1 ELSE 0
                 next == [app[n] EXCEPT !.stage = stage]
      <3>1. app' = [app EXCEPT ![n] = next]  BY <2>5 DEF PrepareKeys
      <3> HIDE DEF stage
      <3>2. SameRequest(next, app[n])  BY <1>1 DEF AppRecord, SameRequest
      <3> QED  BY <3>1, <3>2
    <2>6. CASE SetUp(n)
      <3> DEFINE done == app[n].stage = 3 /\ app[n].bound
                 stage == IF app[n].stage < 3 THEN app[n].stage + 1 ELSE IF done THEN 3 ELSE 1
                 next == [app[n] EXCEPT !.ready = done, !.stage = stage]
      <3>1. app' = [app EXCEPT ![n] = next]  BY <2>6 DEF SetUp
      <3> HIDE DEF stage, done
      <3>2. SameRequest(next, app[n])  BY <1>1 DEF AppRecord, SameRequest
      <3> QED  BY <3>1, <3>2
    <2> QED  BY <2>1, <2>2, <2>3, <2>4, <2>5, <2>6
  <1>3. UNCHANGED history
    BY Zenon DEF Wait, Attach, Join, Import, PrepareKeys, SetUp
  <1>4. daemon'[k].session = daemon[k].session /\ daemon'[k].addr \in {k, daemon[k].addr}
    <2>1. CASE Wait(n)  BY <2>1 DEF Wait
    <2>2. CASE Attach(n)  BY <1>1, <2>2 DEF Attach, TypeInv, DaemonRecord
    <2>3. CASE Join(n)  BY <1>1, <2>3 DEF Join, TypeInv, DaemonRecord
    <2>4. CASE Import(n)
      <3>1. \E b, net, addr : /\ addr \in {n, daemon[n].addr}
               /\ daemon' = [daemon EXCEPT ![n] =
                               [daemon[n] EXCEPT !.beacon = b, !.net = net, !.addr = addr]]
        BY <2>4 DEF Import
      <3> QED  BY <1>1, <3>1 DEF TypeInv, DaemonRecord
    <2>5. CASE PrepareKeys(n)  BY <1>1, <2>5 DEF PrepareKeys, TypeInv, DaemonRecord
    <2>6. CASE SetUp(n)
      <3>1. UNCHANGED daemon \/ daemon' = [daemon EXCEPT ![n] = [daemon[n] EXCEPT !.bound = TRUE]]
        BY <2>6 DEF SetUp
      <3> DEFINE d == [daemon[n] EXCEPT !.bound = TRUE]
      <3>2. d.session = daemon[n].session /\ d.addr = daemon[n].addr  BY <1>1 DEF DaemonRecord
      <3> HIDE DEF d
      <3>3. daemon' = [daemon EXCEPT ![n] = d] => daemon'[k] = IF k = n THEN d ELSE daemon[k]
        BY DaemonAt
      <3> QED  BY <3>1, <3>2, <3>3 DEF d
    <2> QED  BY <2>1, <2>2, <2>3, <2>4, <2>5, <2>6
  <1> QED  BY <1>2, <1>3, <1>4, CalmApp

LEMMA HandleCalm ==
    ASSUME TypeInv, NEW n \in Node, Handle(n), NEW k \in Node
    PROVE  CalmAt(k)
  <1> DEFINE message == Head(inbox[n])
             state == IF app[n].state = "joining" THEN ByToken(n) ELSE app[n].state
             events == Append(app[n].events, message)
             starting == app[n].starting /\ message.kind # "add_refused"
             nexts == {[app[n] EXCEPT !.token = TRUE, !.state = "provisioned"],
                       [app[n] EXCEPT !.state = "join_failed"],
                       [app[n] EXCEPT !.state = state], [app[n] EXCEPT !.state = ByToken(n)],
                       [app[n] EXCEPT !.bound = TRUE], [app[n] EXCEPT !.starting = FALSE],
                       [app[n] EXCEPT !.events = events, !.starting = starting]}
  <1>1. app[n] \in AppRecord /\ UNCHANGED <<daemon, history>>  BY DEF TypeInv, Handle
  <1>2. \E next \in nexts : app' = [app EXCEPT ![n] = next]  BY Zenon DEF Handle
  <1> HIDE DEF state, events, starting
  <1>3. \A next \in nexts : SameRequest(next, app[n])  BY <1>1 DEF AppRecord, SameRequest
  <1> HIDE DEF nexts
  <1> QED  BY <1>1, <1>2, <1>3, CalmApp

\* The other actions of the daemon and of the faults.
LEMMA RestCalm ==
    ASSUME TypeInv, NEW n \in Node, NEW k \in Node,
           \/ ReplyTimeout(n) \/ JoinExpires(n) \/ GiveUp(n) \/ Crash(n) \/ Start(n)
           \/ DaemonStops(n) \/ DaemonStarts(n)
    PROVE  CalmAt(k)
  <1>1. daemon[k] \in DaemonRecord /\ daemon[n] \in DaemonRecord  BY DEF TypeInv
  <1>2. NoSession.addr = Nobody  BY DEF NoSession
  <1>3. UNCHANGED history
    BY Zenon DEF ReplyTimeout, JoinExpires, GiveUp, Crash, Start, DaemonStops, DaemonStarts
  <1>4. \/ UNCHANGED app
        \/ \E next : app' = [app EXCEPT ![n] = next] /\ next.pend = Nobody
    <2>1. CASE ReplyTimeout(n) \/ JoinExpires(n) \/ GiveUp(n) \/ DaemonStops(n) \/ DaemonStarts(n)
      BY <2>1, Zenon DEF ReplyTimeout, JoinExpires, GiveUp, DaemonStops, DaemonStarts
    <2>2. CASE Crash(n)
      <3> DEFINE next == [NewApp(FALSE) EXCEPT !.up = FALSE]
      <3>1. next.pend = Nobody  BY DEF NewApp
      <3>2. app' = [app EXCEPT ![n] = next]  BY <2>2 DEF Crash
      <3> HIDE DEF next
      <3> QED  BY <3>1, <3>2
    <2>3. CASE Start(n)
      <3> DEFINE next == NewApp(disk[n].token)
      <3>1. next.pend = Nobody  BY DEF NewApp
      <3>2. app' = [app EXCEPT ![n] = next]  BY <2>3 DEF Start
      <3> HIDE DEF next
      <3> QED  BY <3>1, <3>2
    <2> QED  BY <2>1, <2>2, <2>3
  <1>5. /\ daemon'[k].session = daemon[k].session \/ daemon'[k].session.addr = Nobody
        /\ daemon'[k].addr \in {Nobody, daemon[k].addr}
    <2>1. CASE ReplyTimeout(n) \/ Start(n)  BY <2>1 DEF ReplyTimeout, Start
    <2>2. CASE JoinExpires(n)  BY <1>1, <2>2 DEF JoinExpires, TypeInv, DaemonRecord
    <2>3. CASE GiveUp(n)
      BY <1>1, <1>2, <2>3 DEF GiveUp, TypeInv, DaemonRecord
    <2>4. CASE DaemonStops(n)
      BY <1>1, <1>2, <2>4 DEF DaemonStops, TypeInv, DaemonRecord
    <2>5. CASE DaemonStarts(n)  BY <1>1, <2>5 DEF DaemonStarts, TypeInv, DaemonRecord
    <2>6. CASE Crash(n)
      <3> DEFINE dropped == [NewDaemon EXCEPT !.up = daemon[n].up]
                 left == [daemon[n] EXCEPT !.beacon = FALSE, !.serving = FALSE,
                                           !.session = NoSession]
      <3>1. daemon' = [daemon EXCEPT ![n] = dropped] \/ daemon' = [daemon EXCEPT ![n] = left]
        BY <2>6 DEF Crash
      <3>2. dropped.session.addr = Nobody /\ dropped.addr = Nobody  BY <1>2 DEF NewDaemon
      <3>3. left.session.addr = Nobody /\ left.addr = daemon[n].addr
        BY <1>1, <1>2 DEF DaemonRecord
      <3> HIDE DEF dropped, left
      <3> QED  BY <3>1, <3>2, <3>3 DEF TypeInv
    <2> QED  BY <2>1, <2>2, <2>3, <2>4, <2>5, <2>6
  <1>6. CASE UNCHANGED app  BY <1>3, <1>5, <1>6 DEF CalmAt
  <1>7. CASE \E next : app' = [app EXCEPT ![n] = next] /\ next.pend = Nobody
    BY <1>3, <1>5, <1>7, CalmApp
  <1> QED  BY <1>4, <1>6, <1>7

LEMMA RadioCalm ==
    ASSUME TypeInv, NEW c \in radio, Deliver(c) \/ Lose(c), NEW k \in Node
    PROVE  CalmAt(k)
  <1> DEFINE m == c.dst
             key == IF daemon[m].appkey = Nobody THEN daemon[c.src].appkey ELSE daemon[m].appkey
  <1>1. UNCHANGED app  BY DEF Deliver, Lose
  <1>2. \/ UNCHANGED daemon
        \/ daemon' = [daemon EXCEPT ![m] = [daemon[m] EXCEPT !.appkey = key]]
        \/ daemon' = [daemon EXCEPT ![m] = [daemon[m] EXCEPT !.bound = TRUE]]
    BY DEF Deliver, Lose
  <1>3. history.strays \subseteq history'.strays
    <2>1. history \in HistoryRecord  BY DEF TypeInv
    <2> QED  BY <2>1 DEF Deliver, Lose, HistoryRecord
  <1> HIDE DEF key, m
  <1>4. daemon'[k].session = daemon[k].session /\ daemon'[k].addr = daemon[k].addr
    <2>1. daemon[k] \in DaemonRecord /\ daemon \in [Node -> DaemonRecord]  BY DEF TypeInv
    <2>2. CASE UNCHANGED daemon  BY <2>2
    <2>3. CASE daemon' = [daemon EXCEPT ![m] = [daemon[m] EXCEPT !.appkey = key]]
      BY <2>1, <2>3 DEF DaemonRecord
    <2>4. CASE daemon' = [daemon EXCEPT ![m] = [daemon[m] EXCEPT !.bound = TRUE]]
      BY <2>1, <2>4 DEF DaemonRecord
    <2> QED  BY <1>2, <2>2, <2>3, <2>4
  <1> QED  BY <1>1, <1>3, <1>4 DEF CalmAt
\* What becomes of an attempt in a pass: it goes on with its reservation, or ends.
GoesOn(b, a) == b.reserved = a.reserved /\ b.pend \in {Nobody, a.pend}

LEMMA PassGoesOn ==
    ASSUME NEW n \in Node, NEW a \in AppRecord
    PROVE  GoesOn(Forget(a), a) /\ GoesOn(TakeEvents(a), a) /\ GoesOn(Step(n, a).next, a)
  <1>1. GoesOn(Forget(a), a)  BY DEF GoesOn, Forget, AppRecord
  <1>2. GoesOn(TakeEvents(a), a)
    <2> DEFINE mine == {i \in DOMAIN a.events : a.events[i].uuid = a.pend}
               ends == {i \in mine : a.events[i].kind # "add_complete" \/ a.events[i].addr # a.pend}
               added == \E i \in mine : \A j \in ends : i < j
               failed == \E i \in ends : a.events[i].kind # "add_complete" /\ \A j \in ends : i <= j
               met == [a EXCEPT !.events = <<>>, !.clock = IF added THEN "off" ELSE @,
                                !.remote = IF failed THEN 0 ELSE IF added THEN 1 ELSE @]
    <2>1. TakeEvents(a) = met \/ TakeEvents(a) = Forget(met)  BY DEF TakeEvents
    <2>2. met.pend = a.pend /\ met.reserved = a.reserved /\ DOMAIN met = DOMAIN a
      BY DEF AppRecord
    <2> HIDE DEF mine, ends, added, failed, met
    <2>3. GoesOn(Forget(met), met)  BY <2>2 DEF GoesOn, Forget, AppRecord
    <2> QED  BY <2>1, <2>2, <2>3 DEF GoesOn
  <1>3. GoesOn(Step(n, a).next, a)
    <2>1. GoesOn(a, a)  BY DEF GoesOn
    <2>2. GoesOn([a EXCEPT !.remote = 2], a)  BY DEF GoesOn, AppRecord
    <2>3. GoesOn([Forget(a) EXCEPT !.remote = 0], a)
      <3> DEFINE b == Forget(a)
      <3>1. b \in AppRecord /\ GoesOn(b, a)  BY <1>1, ForgetType
      <3> HIDE DEF b
      <3>2. GoesOn([b EXCEPT !.remote = 0], a)  BY <3>1 DEF GoesOn, AppRecord
      <3> QED  BY <3>2 DEF b
    <2>4. Step(n, a).next \in {a, [a EXCEPT !.remote = 2], [Forget(a) EXCEPT !.remote = 0]}
      <3>1. CASE a.remote = 0  BY <3>1 DEF Step
      <3>2. CASE a.remote = 1  BY <3>2 DEF Step
      <3>3. CASE a.remote \notin {0, 1}  BY <3>3 DEF Step
      <3> QED  BY <3>1, <3>2, <3>3
    <2> QED  BY <2>1, <2>2, <2>3, <2>4
  <1> QED  BY <1>1, <1>2, <1>3

LEMMA EnrollDrawn ==
    ASSUME TypeInv, NEW n \in Node, Enroll(n), NEW k \in Node, DrawnAt(k)
    PROVE  DrawnAt(k)'
  <1>1. app[n] \in AppRecord /\ daemon[n] \in DaemonRecord /\ UNCHANGED history
    BY DEF TypeInv, Enroll
  <1>2. PICK a \in Afterwards(n, TakeEvents(app[n])) :
          LET step == Step(n, a) IN
             \/ app' = [app EXCEPT ![n] = step.next] /\ UNCHANGED <<daemon, inbox>>
             \/ /\ step.next.pend = Nobody
                /\ \E m \in Sought(n, step.next) :
                      /\ app' = [app EXCEPT ![n] = Attempt(step.next, m)]
                      /\ IF step.next.starting THEN UNCHANGED <<daemon, inbox>>
                         ELSE Request(n, m)
    BY Zenon DEF Enroll
  <1> DEFINE b == Step(n, a).next
  <1>3. b \in AppRecord /\ GoesOn(b, app[n])
    <2> DEFINE taken == TakeEvents(app[n])
    <2>1. taken \in AppRecord /\ GoesOn(taken, app[n])  BY <1>1, TakeEventsType, PassGoesOn
    <2> HIDE DEF taken
    <2>2. a \in AppRecord /\ GoesOn(a, taken)
      BY <2>1, ForgetType, PassGoesOn DEF Afterwards, GoesOn, taken
    <2>3. b \in AppRecord /\ GoesOn(b, a)  BY <2>2, StepType, PassGoesOn
    <2> HIDE DEF b
    <2> QED  BY <2>1, <2>2, <2>3 DEF GoesOn
  <1> HIDE DEF b
  <1>4. /\ daemon'[k].addr = daemon[k].addr
        /\ daemon'[k].session = daemon[k].session \/ daemon'[k].session.addr = Nobody
    <2>1. CASE UNCHANGED daemon  BY <2>1
    <2>2. CASE \E m : daemon' = [daemon EXCEPT ![n] =
                       [daemon[n] EXCEPT !.session = [to |-> m, addr |-> Nobody]]]
      <3>1. PICK m : daemon' = [daemon EXCEPT ![n] =
                       [daemon[n] EXCEPT !.session = [to |-> m, addr |-> Nobody]]]
        BY <2>2
      <3> DEFINE s == [to |-> m, addr |-> Nobody]
                 d == [daemon[n] EXCEPT !.session = s]
      <3>2. s.addr = Nobody  OBVIOUS
      <3> HIDE DEF s
      <3>3. d.session = s /\ d.addr = daemon[n].addr  BY <1>1 DEF DaemonRecord
      <3>4. daemon' = [daemon EXCEPT ![n] = d]  BY <3>1 DEF s
      <3> HIDE DEF d
      <3>5. daemon'[k] = IF k = n THEN d ELSE daemon[k]  BY <3>4, DaemonAt
      <3> QED  BY <3>2, <3>3, <3>5
    <2> QED  BY <1>2, <2>1, <2>2 DEF Request
  <1>5. app'[k].pend # Nobody => app'[k].reserved \in {Nobody, app'[k].pend}
    <2>1. CASE k # n
      <3>1. app'[k] = app[k]  BY <1>2, <2>1 DEF TypeInv
      <3> QED  BY <3>1 DEF DrawnAt
    <2>2. CASE k = n /\ app' = [app EXCEPT ![n] = b]
      <3>1. app'[k] = b  BY <2>2 DEF TypeInv
      <3> QED  BY <1>3, <2>2, <3>1 DEF GoesOn, DrawnAt
    <2>3. CASE k = n /\ b.pend = Nobody /\ \E m : app' = [app EXCEPT ![n] = Attempt(b, m)]
      <3>1. PICK m : app' = [app EXCEPT ![n] = Attempt(b, m)]  BY <2>3
      <3>2. app'[k] = Attempt(b, m)  BY <2>3, <3>1 DEF TypeInv
      <3>3. CASE b.starting
        <4>1. Attempt(b, m).pend = Nobody  BY <1>3, <2>3, <3>3 DEF Attempt, AppRecord
        <4> QED  BY <3>2, <4>1
      <3>4. CASE ~b.starting
        <4>1. Attempt(b, m).pend = m /\ Attempt(b, m).reserved = m
          BY <1>3, <3>4 DEF Attempt, AppRecord
        <4> QED  BY <3>2, <4>1
      <3> QED  BY <3>3, <3>4
    <2> QED  BY <1>2, <2>1, <2>2, <2>3 DEF b
  <1> QED  BY <1>1, <1>4, <1>5 DEF DrawnAt

\* The reservation that is drawn is for the peer of the session while its attempt is
\* pending; otherwise the peer is a stray.
LEMMA RequestProvDataDrawn ==
    ASSUME TypeInv, NEW n \in Node, RequestProvData(n), NEW k \in Node, DrawnAt(k), DrawnAt(n)
    PROVE  DrawnAt(k)'
  <1> DEFINE m == daemon[n].session.to
             next == [app[n] EXCEPT !.reserved = Nobody]
             drawn == [daemon[n].session EXCEPT !.addr = app[n].reserved]
  <1>1. /\ app[n] \in AppRecord /\ daemon[n] \in DaemonRecord /\ history \in HistoryRecord
        /\ m # Nobody
    BY DEF TypeInv, RequestProvData
  <1>2. daemon[n].session \in SessionRecord  BY <1>1 DEF DaemonRecord
  <1>3. /\ history.strays \subseteq history'.strays
        /\ app[n].pend # m => m \in history'.strays
    BY <1>1 DEF RequestProvData, HistoryRecord
  <1>4. app' = [app EXCEPT ![n] = next] /\ next.reserved = Nobody
    BY <1>1 DEF RequestProvData, AppRecord
  <1>5. drawn.to = m /\ drawn.addr = app[n].reserved  BY <1>2 DEF SessionRecord
  <1>6. daemon' = [daemon EXCEPT ![n] = [daemon[n] EXCEPT !.session = drawn]]
        \/ daemon' = [daemon EXCEPT ![n] = [daemon[n] EXCEPT !.session = NoSession]]
    BY DEF RequestProvData
  <1> HIDE DEF next, drawn, m
  <1>7. daemon'[k].addr = daemon[k].addr
    <2> DEFINE d(s) == [daemon[n] EXCEPT !.session = s]
    <2>1. d(drawn).addr = daemon[n].addr /\ d(NoSession).addr = daemon[n].addr
      BY <1>1 DEF DaemonRecord
    <2>2. daemon'[k] \in {daemon[k], d(drawn), d(NoSession)} /\ (k # n => daemon'[k] = daemon[k])
      BY <1>6, DaemonAt
    <2> HIDE DEF d
    <2> QED  BY <2>1, <2>2
  <1>8. app'[k].pend # Nobody => app'[k].reserved \in {Nobody, app'[k].pend}
    BY <1>4 DEF TypeInv, DrawnAt
  <1>9. \/ daemon'[k].session.addr \in {Nobody, daemon'[k].session.to}
        \/ daemon'[k].session.to \in history'.strays
    <2>1. CASE k # n
      <3>1. daemon'[k] = daemon[k]  BY <1>6, <2>1 DEF TypeInv
      <3> QED  BY <1>3, <3>1 DEF DrawnAt
    <2>2. CASE k = n /\ daemon' = [daemon EXCEPT ![n] = [daemon[n] EXCEPT !.session = drawn]]
      <3>1. daemon'[k].session = drawn  BY <1>1, <2>2 DEF TypeInv, DaemonRecord
      <3>2. app[n].pend = m => app[n].reserved \in {Nobody, m}  BY <1>1 DEF DrawnAt
      <3> QED  BY <1>3, <1>5, <3>1, <3>2
    <2>3. CASE k = n /\ daemon' = [daemon EXCEPT ![n] = [daemon[n] EXCEPT !.session = NoSession]]
      <3>1. daemon'[k].session = NoSession  BY <1>1, <2>3 DEF TypeInv, DaemonRecord
      <3> QED  BY <3>1 DEF NoSession
    <2> QED  BY <1>6, <2>1, <2>2, <2>3
  <1> QED  BY <1>3, <1>7, <1>8, <1>9 DEF DrawnAt

LEMMA ProvisionDrawn ==
    ASSUME TypeInv, NEW n \in Node, Provision(n), NEW k \in Node, DrawnAt(k), DrawnAt(n)
    PROVE  DrawnAt(k)'
  <1> DEFINE m == daemon[n].session.to
             a == daemon[n].session.addr
             new == [daemon[m] EXCEPT !.net = daemon[n].net, !.addr = a, !.beacon = FALSE]
             d == [daemon EXCEPT ![m] = new]
  <1>1. /\ m \in Node /\ a \in Node /\ UNCHANGED <<app, history>>
        /\ d \in [Node -> DaemonRecord]
    BY ProvisionEffect, Zenon
  <1>2. PICK ring \in SUBSET Node :
                 daemon' = [d EXCEPT ![n] = [d[n] EXCEPT !.session = NoSession, !.ring = ring]]
    BY ProvisionEffect, Zenon
  <1>3. m # Nobody /\ a # Nobody  BY <1>1, NobodyNumber
  <1>4. a = m \/ m \in history.strays  BY <1>3 DEF DrawnAt
  <1>5. /\ d[k].session = daemon[k].session
        /\ d[k].addr = IF k = m THEN a ELSE daemon[k].addr
    <2>1. daemon[m] \in DaemonRecord  BY <1>1 DEF TypeInv
    <2>2. new.session = daemon[m].session /\ new.addr = a  BY <2>1 DEF DaemonRecord
    <2> HIDE DEF new, m, a
    <2> QED  BY <1>1, <2>2 DEF TypeInv
  <1> HIDE DEF d, m, a
  <1>6. /\ daemon'[k].addr = d[k].addr
        /\ daemon'[k].session = d[k].session \/ daemon'[k].session = NoSession
    BY <1>1, <1>2 DEF DaemonRecord
  <1>7. NoSession.addr = Nobody  BY DEF NoSession
  <1> QED  BY <1>1, <1>4, <1>5, <1>6, <1>7 DEF DrawnAt

LEMMA DrawInit == Init => DrawInv
  <1> SUFFICES ASSUME Init, NEW n \in Node PROVE DrawnAt(n)  BY DEF DrawInv
  <1>1. daemon[n].session = NoSession /\ daemon[n].addr = Nobody  BY DEF Init, NewDaemon
  <1>2. app[n].pend = Nobody  BY DEF Init, NewApp
  <1> QED  BY <1>1, <1>2 DEF DrawnAt, NoSession

LEMMA DrawStep == TypeInv /\ DrawInv /\ [Next]_vars => DrawInv'
  <1> SUFFICES ASSUME TypeInv, DrawInv, [Next]_vars, NEW k \in Node PROVE DrawnAt(k)'
    BY DEF DrawInv
  <1>1. \A n \in Node : DrawnAt(n)  BY DEF DrawInv
  <1>2. ASSUME NEW n \in Node,
               \/ Refresh(n) \/ Wait(n) \/ Attach(n) \/ Join(n) \/ Import(n) \/ PrepareKeys(n)
               \/ SetUp(n) \/ Handle(n) \/ ReplyTimeout(n) \/ JoinExpires(n) \/ GiveUp(n)
               \/ Crash(n) \/ Start(n) \/ DaemonStops(n) \/ DaemonStarts(n)
        PROVE  DrawnAt(k)'
    <2>1. CalmAt(k)  BY <1>2, RefreshCalm, PassCalm, HandleCalm, RestCalm
    <2> QED  BY <1>1, <2>1, CalmKeeps
  <1>3. ASSUME NEW n \in Node, Enroll(n) \/ RequestProvData(n) \/ Provision(n)
        PROVE  DrawnAt(k)'
    BY <1>1, <1>3, EnrollDrawn, RequestProvDataDrawn, ProvisionDrawn
  <1>4. ASSUME NEW c \in radio, Deliver(c) \/ Lose(c) PROVE DrawnAt(k)'
    BY <1>1, <1>4, RadioCalm, CalmKeeps
  <1>5. CASE UNCHANGED vars  BY <1>1, <1>5 DEF vars, DrawnAt
  <1> QED  BY <1>2, <1>3, <1>4, <1>5 DEF Next, Pass

\* EnrolledUnderItsNumber: a node gets its own number as its address, whatever attempts fail,
\* are refused or come twice and whoever dies: every node when the daemon answers in time,
\* and otherwise every one but the newcomer of a session that asked for its address
\* after its attempt had been given up.
THEOREM EnrolledUnderItsNumber == Spec => []AddressIsNumber
  <1>1. AddressInv /\ DrawInv => AddressIsNumber
    BY DEF AddressInv, DrawInv, DrawnAt, AddressIsNumber
  <1>2. Spec => []AddressInv  BY AddressInit, AddressStep, TypesAlways, PTL DEF Spec
  <1>3. Spec => []DrawInv  BY DrawInit, DrawStep, TypesAlways, PTL DEF Spec
  <1> QED  BY <1>1, <1>2, <1>3, PTL
=============================================================================
