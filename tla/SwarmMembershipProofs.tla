----------------------- MODULE SwarmMembershipProofs -----------------------
(***************************************************************************)
(* Proofs about SwarmMembership for any set of nodes, swarms and periods:  *)
(* saved choices survive, states are well formed, a peer that is heard is  *)
(* kept, and a departed member is forgotten.                               *)
(***************************************************************************)
EXTENDS SwarmMembership, FiniteSetTheorems, TLAPS

\* What a restart would restore is a choice that the operator may expect, too.
Restorable ==
    \A n \in Node :
        /\ disk[n] = <<>> => Configured \in accepted[n]
        /\ disk[n] # <<>> => disk[n] \in accepted[n]

Tables ==
    /\ choice \in [Node -> Swarm \X BOOLEAN]
    /\ disk \in [Node -> (Swarm \X BOOLEAN) \cup {<<>>}]
    /\ accepted \in [Node -> SUBSET (Swarm \X BOOLEAN)]
    /\ DOMAIN state = Node

ChoiceInv == Tables /\ Restorable /\ ChoiceSurvives

\* A node starts from its configuration.
LEMMA ChoiceInit == Init => ChoiceInv
  BY SwarmAssumption DEF Init, ChoiceInv, Tables, Restorable, ChoiceSurvives

\* Steps that touch neither the choice nor what is saved, and stop no node.
LEMMA ChoiceUntouched ==
    ASSUME ChoiceInv, UNCHANGED <<choice, disk, accepted>>, DOMAIN state' = Node,
           \A n \in Node : state'[n] # "down" => state[n] # "down"
    PROVE  ChoiceInv'
  BY DEF ChoiceInv, Tables, Restorable, ChoiceSurvives

\* Every step keeps the saved choice restorable and the running one expected.
LEMMA ChoiceNext == ChoiceInv /\ [Next]_vars => ChoiceInv'
<1> SUFFICES ASSUME ChoiceInv, [Next]_vars PROVE ChoiceInv'
  OBVIOUS
<1>0. DOMAIN state = Node
  BY DEF ChoiceInv, Tables
<1>1. CASE Tick
  BY <1>0, <1>1, ChoiceUntouched DEF Tick
<1>2. ASSUME NEW n \in Node,
             \/ Maintain(n) \/ GraceEnds(n) \/ Send(n) \/ Acknowledged(n)
             \/ \E m \in Node : Transmit(n, m)
      PROVE  ChoiceInv'
  BY <1>0, <1>2, ChoiceUntouched
     DEF Maintain, GraceEnds, Send, Acknowledged, Transmit, saved
<1>3. ASSUME NEW f \in air, ReceiveBeat(f) \/ ReceivePayload(f) \/ Lose(f)
      PROVE  ChoiceInv'
  BY <1>0, <1>3, ChoiceUntouched DEF ReceiveBeat, ReceivePayload, Lose, saved
<1>4. ASSUME NEW n \in Node, Detach(n) \/ Attach(n) PROVE ChoiceInv'
  <2>1. UNCHANGED <<choice, disk, accepted>> /\ DOMAIN state' = Node
    BY <1>0, <1>4 DEF Detach, Attach, saved
  <2>2. \A m \in Node : state'[m] # "down" => state[m] # "down"
    BY <1>0, <1>4 DEF Detach, Attach
  <2> QED BY <2>1, <2>2, ChoiceUntouched
<1>5. ASSUME NEW n \in Node, NEW c \in (Swarm \cup {0}) \X BOOLEAN, Choose(n, c)
      PROVE  ChoiceInv'
  <2>1. UNCHANGED state
    BY <1>5 DEF Choose
  <2>2. CASE UNCHANGED <<choice, disk, accepted>>
    BY <1>0, <2>1, <2>2, ChoiceUntouched
  <2>3. CASE /\ disk' = [disk EXCEPT ![n] = c] /\ accepted' = [accepted EXCEPT ![n] = {c}]
             /\ choice' = [choice EXCEPT ![n] = c]
    <3>1. c \in Swarm \X BOOLEAN /\ c # <<>>
      BY <1>5 DEF Choose
    <3> QED BY <2>1, <2>3, <3>1 DEF ChoiceInv, Tables, Restorable, ChoiceSurvives
  <2> QED BY <1>5, <2>2, <2>3 DEF Choose, saved
<1>6. ASSUME NEW n \in Node, Crash(n) PROVE ChoiceInv'
  <2>1. state' = [state EXCEPT ![n] = "down"] /\ UNCHANGED choice
    BY <1>6 DEF Crash
  <2>2. CASE UNCHANGED <<disk, accepted>>
    BY <1>0, <2>1, <2>2, ChoiceUntouched
  <2>3. ASSUME NEW c \in Swarm \X BOOLEAN,
               disk' = [disk EXCEPT ![n] = c], accepted' = [accepted EXCEPT ![n] = @ \cup {c}]
        PROVE  ChoiceInv'
    <3>1. c # <<>>
      OBVIOUS
    <3> QED BY <2>1, <2>3, <3>1 DEF ChoiceInv, Tables, Restorable, ChoiceSurvives
  <2> QED BY <1>6, <2>2, <2>3 DEF Crash
<1>7. ASSUME NEW n \in Node, Restart(n) PROVE ChoiceInv'
  <2>1. /\ state' = [state EXCEPT ![n] = "detached"]
        /\ choice' = [choice EXCEPT ![n] = IF disk[n] = <<>> THEN Configured ELSE disk[n]]
        /\ UNCHANGED <<disk, accepted>>
    BY <1>7 DEF Restart
  <2>2. (IF disk[n] = <<>> THEN Configured ELSE disk[n]) \in accepted[n] \cap (Swarm \X BOOLEAN)
    BY SwarmAssumption DEF ChoiceInv, Tables, Restorable
  <2> QED BY <2>1, <2>2 DEF ChoiceInv, Tables, Restorable, ChoiceSurvives
<1>8. CASE UNCHANGED vars
  BY <1>0, <1>8, ChoiceUntouched DEF vars
<1> QED BY <1>1, <1>2, <1>3, <1>4, <1>5, <1>6, <1>7, <1>8 DEF Next

\* A running node holds the last choice that was acknowledged to its operator, or
\* one whose request was cut short (swarm_coordinator.cpp: saving before taking).
THEOREM ChoiceKept == Spec => []ChoiceSurvives
<1>1. ChoiceInv => ChoiceSurvives
  BY DEF ChoiceInv
<1> QED BY <1>1, ChoiceInit, ChoiceNext, PTL DEF Spec

-----------------------------------------------------------------------------
(***************************************************************************)
(* Types                                                                   *)
(***************************************************************************)
One(S) == {<<>>} \cup {<<e>> : e \in S}
Sample == [swarm : Swarm, left : 1..Residue]

TypeInv ==
    /\ state \in [Node -> {"down", "detached", "ready"}]
    /\ choice \in [Node -> Swarm \X BOOLEAN]
    /\ disk \in [Node -> (Swarm \X BOOLEAN) \cup {<<>>}]
    /\ presence \in [Node -> [Node -> One(Entry)]]
    /\ due \in [Node -> 0..Period] /\ graced \in [Node -> BOOLEAN]
    /\ active \in [Node -> Candidate]
    /\ sample \in [Node -> One(Sample)]
    /\ air \subseteq Frame
    /\ choices \in 0..MaxChoices /\ losses \in 0..MaxLosses /\ crashes \in 0..MaxCrashes
    /\ accepted \in [Node -> SUBSET (Swarm \X BOOLEAN)]
    /\ missed \in [Node -> [Node -> 0..2]] /\ since \in [Node -> 0..(Residue + Lease)]

LEMMA Bounds == /\ Period \in Nat /\ Period > 0 /\ Lease \in Nat /\ Lease > 2 * Period
                /\ Residue \in Nat /\ MaxChoices \in Nat /\ MaxLosses \in Nat /\ MaxCrashes \in Nat
  BY LeaseAssumption, BoundAssumption

LEMMA Entries == ASSUME NEW S, NEW x \in One(S) PROVE x = <<>> \/ (x # <<>> /\ x[1] \in S /\ x = <<x[1]>>)
  BY DEF One

LEMMA Single == ASSUME NEW S, NEW e \in S PROVE <<e>> \in One(S) /\ <<>> \in One(S) /\ <<e>> # <<>>
  BY DEF One

LEMMA TypesImply == TypeInv => TypeOK
<1> SUFFICES ASSUME TypeInv PROVE TypeOK
  OBVIOUS
<1>1. \A n, m \in Node : presence[n][m] = <<>> \/ presence[n][m][1] \in Entry
  BY Entries DEF TypeInv
<1>2. \A n \in Node : sample[n] = <<>> \/ sample[n][1] \in Sample
  BY Entries DEF TypeInv
<1> QED BY <1>1, <1>2 DEF TypeInv, TypeOK, Sample

\* The least of two numbers.
LEMMA MinOfTwo == ASSUME NEW a \in Int, NEW b \in Int
                  PROVE  Min({a, b}) = IF a <= b THEN a ELSE b
<1>1. CASE a <= b
  <2>1. \A x \in {a, b} : (\A y \in {a, b} : x =< y) <=> x = a
    BY <1>1
  <2> QED BY <1>1, <2>1 DEF Min
<1>2. CASE ~(a <= b)
  <2>1. \A x \in {a, b} : (\A y \in {a, b} : x =< y) <=> x = b
    BY <1>2
  <2> QED BY <1>2, <2>1 DEF Min
<1> QED BY <1>1, <1>2

\* A set of numbers has a least one: intervals are finite, and the order of finite
\* sets is well founded.
LEMMA Least == ASSUME NEW S \in SUBSET Nat, S # {} PROVE \E i \in S : \A j \in S : i <= j
<1> DEFINE Below == {0..i : i \in S}
           Order == StrictSubsetOrdering(Nat)
<1>1. Below \subseteq FiniteSubsetsOf(Nat) /\ Below # {}
  <2>1. ASSUME NEW i \in S PROVE 0..i \in FiniteSubsetsOf(Nat)
    <3>1. IsFiniteSet(0..i) /\ 0..i \subseteq Nat
      BY FS_Interval
    <3> QED BY <3>1 DEF FiniteSubsetsOf
  <2> QED BY <2>1
<1>2. \E T \in Below : \A U \in Below : ~ (<<U, T>> \in Order)
  <2> HIDE DEF Below, Order
  <2>1. IsWellFoundedOn(Order, FiniteSubsetsOf(Nat))
    BY FS_StrictSubsetOrderingWellFounded DEF Order
  <2> QED BY ONLY <1>1, <2>1, WFMin
<1>3. PICK i \in S : \A U \in Below : ~ (<<U, 0..i>> \in Order)
  BY <1>2
<1>4. ASSUME NEW j \in S, j < i PROVE FALSE
  <2>1. 0..j \subseteq 0..i /\ 0..j # 0..i
    <3>1. i \in 0..i /\ i \notin 0..j
      BY <1>4
    <3> QED BY <1>4, <3>1
  <2>2. <<0..j, 0..i>> \in Order
    BY <2>1 DEF StrictSubsetOrdering
  <2> QED BY <1>3, <2>2
<1> QED BY <1>4

\* An election among nodes of the list yields a member of the list.
LEMMA Elected == ASSUME NEW available \in SUBSET Node, available # {} PROVE Elect(available) \in Candidate
<1> DEFINE Places == {i \in DOMAIN Whitelist : Whitelist[i] \in available}
<1>1. Places # {} /\ Places \subseteq Nat
  BY ListAssumption
<1>2. \E i \in Places : \A j \in Places : i <= j
  BY <1>1, Least
<1>3. Min(Places) \in Places
  BY <1>2 DEF Min
<1>4. First(available) \in Candidate
  BY <1>3 DEF First, Candidate
<1>5. Preferred \in available => Preferred \in Candidate
  BY ListAssumption DEF Candidate
<1> QED BY <1>4, <1>5 DEF Elect

LEMMA FirstActive == ASSUME NEW n \in Node PROVE Initially \in Candidate
<1>1. Whitelist # <<>> /\ Whitelist \in Seq(Nat \ {0})
  BY ListAssumption
<1>2. Head(Whitelist) = Whitelist[1] /\ 1 \in DOMAIN Whitelist
  BY <1>1
<1> QED BY <1>2, ListAssumption DEF Initially, Candidate

LEMMA TypesInit == Init => TypeInv
<1> SUFFICES ASSUME Init PROVE TypeInv
  OBVIOUS
<1>1. \A S : <<>> \in One(S)
  BY DEF One
<1>2. active \in [Node -> Candidate]
  BY FirstActive DEF Init
<1>3. Configured \in Swarm \X BOOLEAN
  BY SwarmAssumption
<1> QED BY <1>1, <1>2, <1>3, Bounds DEF Init, TypeInv

\* The entries of a lease table.
LEMMA NoteTypes ==
    ASSUME TypeInv, NEW n \in Node, NEW m \in Node, NEW swarm \in Swarm, NEW part \in BOOLEAN,
           Note(n, m, swarm, part)
    PROVE  presence' \in [Node -> [Node -> One(Entry)]]
<1>1. [swarm |-> swarm, part |-> part, left |-> Lease] \in Entry
  BY Bounds DEF Entry
<1>2. <<[swarm |-> swarm, part |-> part, left |-> Lease]>> \in One(Entry)
  BY <1>1, Single
<1> QED BY <1>2 DEF Note, TypeInv

LEMMA UpdateTypes ==
    ASSUME TypeInv, NEW n \in Node, Update(n)
    PROVE  presence' \in [Node -> [Node -> One(Entry)]] /\ active' \in [Node -> Candidate]
<1> DEFINE stay == {m \in Known(n) : Fresh(n, m)}
<1>1. <<>> \in One(Entry)
  BY DEF One
<1>2. {n} \cup stay \in SUBSET Node /\ {n} \cup stay # {}
  BY DEF Known
<1>3. Elect({n} \cup stay) \in Candidate
  BY <1>2, Elected
<1>4. presence' = [presence EXCEPT ![n] = [m \in Node |-> IF m \in stay THEN presence[n][m] ELSE <<>>]]
  BY DEF Update, TypeInv
<1> QED BY <1>1, <1>3, <1>4 DEF Update, TypeInv

LEMMA TickTypes == ASSUME TypeInv, Tick PROVE TypeInv'
<1>1. ASSUME NEW n \in Node, NEW m \in Node
      PROVE  (IF Fresh(n, m) THEN <<[presence[n][m][1] EXCEPT !.left = @ - 1]>> ELSE presence[n][m])
                \in One(Entry)
  <2>0. presence[n][m] \in One(Entry)
    BY DEF TypeInv
  <2>1. CASE Fresh(n, m)
    <3>1. presence[n][m][1] \in Entry /\ presence[n][m][1].left > 0
      BY <2>0, <2>1, Entries DEF Fresh, Known
    <3>2. [presence[n][m][1] EXCEPT !.left = @ - 1] \in Entry
      BY <3>1, Bounds DEF Entry
    <3> QED BY <2>1, <3>2, Single
  <2> QED BY <2>0, <2>1
<1>2. ASSUME NEW n \in Node
      PROVE  (IF sample[n] = <<>> \/ sample[n][1].left = 1 THEN <<>>
              ELSE <<[sample[n][1] EXCEPT !.left = @ - 1]>>) \in One(Sample)
  <2>0. sample[n] \in One(Sample) /\ <<>> \in One(Sample)
    BY DEF TypeInv, One
  <2>1. CASE ~(sample[n] = <<>> \/ sample[n][1].left = 1)
    <3>1. sample[n][1] \in Sample
      BY <2>0, <2>1, Entries
    <3>2. [sample[n][1] EXCEPT !.left = @ - 1] \in Sample
      BY <2>1, <3>1, Bounds DEF Sample
    <3> QED BY <2>1, <3>2, Single
  <2> QED BY <2>0, <2>1
<1>3. ASSUME NEW n \in Node PROVE Min({since[n] + 1, Residue + Lease}) \in 0..(Residue + Lease)
  <2>1. since[n] \in 0..(Residue + Lease)
    BY DEF TypeInv
  <2>2. Min({since[n] + 1, Residue + Lease})
           = IF since[n] + 1 <= Residue + Lease THEN since[n] + 1 ELSE Residue + Lease
    BY <2>1, Bounds, MinOfTwo
  <2> QED BY <2>1, <2>2, Bounds
<1>4. due' \in [Node -> 0..Period]
  BY Bounds DEF Tick, TypeInv
<1> QED BY <1>1, <1>2, <1>3, <1>4 DEF Tick, TypeInv, counts

LEMMA FrameTypes ==
    ASSUME TypeInv, NEW f \in air, ReceiveBeat(f) \/ ReceivePayload(f) \/ Lose(f)
    PROVE  TypeInv'
<1>0. f \in Frame
  BY DEF TypeInv
<1>f. f.src \in Node /\ f.dst \in Node /\ f.swarm \in Swarm /\ f.part \in BOOLEAN
  BY <1>0 DEF Frame
<1>1. CASE ReceiveBeat(f)
  <2>1. presence' \in [Node -> [Node -> One(Entry)]]
    BY <1>f, <1>1, NoteTypes DEF ReceiveBeat
  <2>2. missed' \in [Node -> [Node -> 0..2]]
    BY <1>f, <1>1 DEF ReceiveBeat, TypeInv
  <2> QED BY <1>1, <2>1, <2>2 DEF ReceiveBeat, TypeInv, saved, counts
<1>2. CASE ReceivePayload(f)
  <2> DEFINE receipt == [f EXCEPT !.kind = "ack", !.src = f.dst, !.dst = f.src]
  <2>1. presence' \in [Node -> [Node -> One(Entry)]]
    BY <1>f, <1>2, NoteTypes DEF ReceivePayload, TypeInv
  <2>2. receipt \in Frame
    BY <1>0, <1>f DEF Frame
  <2>3. air' \subseteq Frame
    BY <1>2, <2>2 DEF ReceivePayload, TypeInv
  <2> QED BY <1>2, <2>1, <2>3 DEF ReceivePayload, TypeInv, saved, counts
<1>3. CASE Lose(f)
  <2>1. Min({missed[f.dst][f.src] + 1, 2}) \in 0..2
    <3>1. missed[f.dst][f.src] \in 0..2
      BY <1>f DEF TypeInv
    <3>2. Min({missed[f.dst][f.src] + 1, 2})
             = IF missed[f.dst][f.src] + 1 <= 2 THEN missed[f.dst][f.src] + 1 ELSE 2
      BY <3>1, MinOfTwo
    <3> QED BY <3>1, <3>2
  <2>2. missed' \in [Node -> [Node -> 0..2]]
    <3> DEFINE one == Min({missed[f.dst][f.src] + 1, 2})
    <3>1. missed' = [missed EXCEPT ![f.dst] = [missed[f.dst] EXCEPT ![f.src] = one]] \/ missed' = missed
      BY <1>3 DEF Lose
    <3>2. one \in 0..2 /\ missed \in [Node -> [Node -> 0..2]]
      BY <2>1 DEF TypeInv
    <3> QED BY <1>f, <3>1, <3>2
  <2>3. losses' \in 0..MaxLosses
    BY <1>3, Bounds DEF Lose, TypeInv
  <2> QED BY <1>3, <2>2, <2>3 DEF Lose, TypeInv, saved
<1> QED BY <1>1, <1>2, <1>3

LEMMA NodeTypes ==
    ASSUME TypeInv, NEW n \in Node,
           \/ Maintain(n) \/ GraceEnds(n) \/ Send(n) \/ Acknowledged(n)
           \/ \E m \in Node : Transmit(n, m)
    PROVE  TypeInv'
<1>1. CASE Maintain(n)
  <2>1. presence' \in [Node -> [Node -> One(Entry)]] /\ active' \in [Node -> Candidate]
    BY <1>1, UpdateTypes DEF Maintain, TypeInv
  <2>2. due' \in [Node -> 0..Period]
    BY <1>1, Bounds DEF Maintain, TypeInv
  <2>3. SwarmId(n) \in Swarm /\ Participating(n) \in BOOLEAN
    BY DEF SwarmId, Participating, TypeInv
  <2>4. air' \subseteq Frame
    BY <1>1, <2>3 DEF Maintain, TypeInv, Frame, Others
  <2> QED BY <1>1, <2>1, <2>2, <2>4 DEF Maintain, TypeInv, saved, counts
<1>2. CASE GraceEnds(n)
  BY <1>2 DEF GraceEnds, TypeInv, saved, counts
<1>3. CASE Send(n)
  <2>1. [swarm |-> SwarmId(n), left |-> Residue] \in Sample
    BY <1>3, Bounds DEF Send, Sample, SwarmId, TypeInv
  <2>2. <<[swarm |-> SwarmId(n), left |-> Residue]>> \in One(Sample)
    BY <2>1, Single
  <2> QED BY <1>3, <2>2 DEF Send, TypeInv, saved, counts
<1>4. CASE Acknowledged(n)
  BY <1>4 DEF Acknowledged, TypeInv, One, saved, counts
<1>5. ASSUME NEW m \in Node, Transmit(n, m) PROVE TypeInv'
  <2>1. sample[n][1] \in Sample
    BY <1>5, Entries DEF Transmit, TypeInv
  <2>2. air' \subseteq Frame
    <3>1. [kind |-> "data", src |-> n, dst |-> m, swarm |-> sample[n][1].swarm, part |-> TRUE] \in Frame
      BY <2>1 DEF Frame, Sample
    <3> QED BY <1>5, <3>1 DEF Transmit, TypeInv
  <2> QED BY <1>5, <2>2 DEF Transmit, TypeInv, saved, counts
<1> QED BY <1>1, <1>2, <1>3, <1>4, <1>5

LEMMA FaultTypes ==
    ASSUME TypeInv, NEW n \in Node,
           \/ Detach(n) \/ Attach(n) \/ Crash(n) \/ Restart(n)
           \/ \E c \in (Swarm \cup {0}) \X BOOLEAN : Choose(n, c)
    PROVE  TypeInv'
<1>s. Silent(n) => missed' \in [Node -> [Node -> 0..2]]
  BY DEF Silent, TypeInv
<1>e. <<>> \in One(Sample) /\ <<>> \in One(Entry)
  BY DEF One
<1>1. CASE Detach(n)
  BY <1>s, <1>e, <1>1, Bounds DEF Detach, TypeInv, saved
<1>2. CASE Attach(n)
  BY <1>2 DEF Attach, TypeInv, saved, counts
<1>3. CASE Crash(n)
  <2>1. /\ disk' \in [Node -> (Swarm \X BOOLEAN) \cup {<<>>}]
        /\ accepted' \in [Node -> SUBSET (Swarm \X BOOLEAN)]
        /\ choices' \in 0..MaxChoices
    <3>1. CASE UNCHANGED <<disk, accepted, choices>>
      BY <3>1 DEF TypeInv
    <3>2. ASSUME NEW c \in Swarm \X BOOLEAN, choices < MaxChoices, choices' = choices + 1,
                 disk' = [disk EXCEPT ![n] = c], accepted' = [accepted EXCEPT ![n] = @ \cup {c}]
          PROVE  /\ disk' \in [Node -> (Swarm \X BOOLEAN) \cup {<<>>}]
                 /\ accepted' \in [Node -> SUBSET (Swarm \X BOOLEAN)]
                 /\ choices' \in 0..MaxChoices
      BY <3>2, Bounds DEF TypeInv
    <3> QED BY <1>3, <3>1, <3>2 DEF Crash
  <2>2. /\ state' \in [Node -> {"down", "detached", "ready"}] /\ sample' \in [Node -> One(Sample)]
        /\ missed' \in [Node -> [Node -> 0..2]] /\ crashes' \in 0..MaxCrashes
    BY <1>s, <1>e, <1>3, Bounds DEF Crash, TypeInv
  <2>3. UNCHANGED <<choice, since, presence, due, graced, active, air, losses>>
    BY <1>3 DEF Crash
  <2> QED BY <2>1, <2>2, <2>3 DEF TypeInv
<1>4. CASE Restart(n)
  <2>1. choice' \in [Node -> Swarm \X BOOLEAN]
    BY <1>4, SwarmAssumption DEF Restart, TypeInv
  <2>2. active' \in [Node -> Candidate]
    BY <1>4, FirstActive DEF Restart, TypeInv
  <2>3. presence' \in [Node -> [Node -> One(Entry)]]
    BY <1>e, <1>4 DEF Restart, TypeInv
  <2>4. since' \in [Node -> 0..(Residue + Lease)] /\ due' \in [Node -> 0..Period]
    BY <1>4, Bounds DEF Restart, TypeInv
  <2> QED BY <1>4, <2>1, <2>2, <2>3, <2>4 DEF Restart, TypeInv, counts
<1>5. ASSUME NEW c \in (Swarm \cup {0}) \X BOOLEAN, Choose(n, c) PROVE TypeInv'
  <2>1. c \in Swarm \X BOOLEAN
    BY <1>5 DEF Choose
  <2>2. choices' \in 0..MaxChoices
    BY <1>5, Bounds DEF Choose, TypeInv
  <2>3. CASE UNCHANGED <<saved, due>>
    BY <1>5, <2>2, <2>3 DEF Choose, TypeInv, saved
  <2>4. CASE /\ disk' = [disk EXCEPT ![n] = c] /\ accepted' = [accepted EXCEPT ![n] = {c}]
             /\ choice' = [choice EXCEPT ![n] = c] /\ due' = [due EXCEPT ![n] = 0]
             /\ since' = [since EXCEPT ![n] = 0]
    BY <1>5, <2>1, <2>2, <2>4, Bounds DEF Choose, TypeInv
  <2> QED BY <1>5, <2>3, <2>4 DEF Choose
<1> QED BY <1>1, <1>2, <1>3, <1>4, <1>5

LEMMA TypesNext == TypeInv /\ [Next]_vars => TypeInv'
<1> SUFFICES ASSUME TypeInv, [Next]_vars PROVE TypeInv'
  OBVIOUS
<1>1. CASE UNCHANGED vars
  BY <1>1 DEF vars, TypeInv
<1> QED BY <1>1, TickTypes, FrameTypes, NodeTypes, FaultTypes DEF Next

\* Every reachable state of the nodes, their leases, their frames and their saved
\* choices is well formed, and an election never leaves the whitelist
\* (swarm_coordinator.cpp, update_selection).
THEOREM MembershipTypes == Spec => []TypeOK
BY TypesInit, TypesNext, TypesImply, PTL DEF Spec

-----------------------------------------------------------------------------
(***************************************************************************)
(* A peer that is heard.  How old a lease can be is told by the peer's     *)
(* heartbeat timer and by whether a heartbeat is on its way; losing one    *)
(* costs a period.                                                         *)
(***************************************************************************)
Waited(n, m) == IF missed[n][m] = 0 THEN Period ELSE 2 * Period
Left(n, m) == presence[n][m][1].left
Coming(n, m) == \E f \in air : f.kind = "beat" /\ f.src = m /\ f.dst = n

HeardBy(n, m) ==
    /\ state[m] = "ready" /\ m \in Known(n)
    /\ Left(n, m) >= Lease - Waited(n, m)
    /\ Left(n, m) >= Lease - Waited(n, m) + due[m] \/ Coming(n, m)

Heard ==
    \A n, m \in Node : n # m /\ state[n] # "down" /\ missed[n][m] < 2 => HeardBy(n, m)

LEMMA LeftTypes ==
    ASSUME TypeInv, NEW n \in Node, NEW m \in Known(n) PROVE Left(n, m) \in 0..Lease
<1>1. presence[n][m] \in One(Entry) /\ presence[n][m] # <<>>
  BY DEF TypeInv, Known
<1>2. presence[n][m][1] \in Entry
  BY <1>1, Entries
<1> QED BY <1>2 DEF Entry, Left

LEMMA DueTypes == ASSUME TypeInv, NEW m \in Node PROVE due[m] \in 0..Period /\ due[m] \in Nat /\ due[m] <= due[m]
<1>1. due[m] \in 0..Period
  BY DEF TypeInv
<1> QED BY <1>1, Bounds

LEMMA Elsewhere ==
    ASSUME NEW T, NEW t \in [Node -> [Node -> T]], NEW d \in Node, NEW s \in Node, NEW v,
           NEW n \in Node, NEW m \in Node, d # n \/ s # m
    PROVE  [t EXCEPT ![d] = [t[d] EXCEPT ![s] = v]][n][m] = t[n][m]
  OBVIOUS

LEMMA NotedElsewhere ==
    ASSUME TypeInv, NEW d \in Node, NEW s \in Node, NEW swarm, NEW part, Note(d, s, swarm, part),
           NEW n \in Node, NEW m \in Node, d # n \/ s # m
    PROVE  presence'[n][m] = presence[n][m]
  BY Elsewhere DEF Note, TypeInv

LEMMA PresenceElsewhere ==
    ASSUME TypeInv, NEW d \in Node, NEW s \in Node, NEW v,
           presence' = [presence EXCEPT ![d] = [presence[d] EXCEPT ![s] = v]],
           NEW n \in Node, NEW m \in Node, d # n \/ s # m
    PROVE  presence'[n][m] = presence[n][m]
  BY Elsewhere DEF TypeInv

LEMMA MissedElsewhere ==
    ASSUME TypeInv, NEW d \in Node, NEW s \in Node, NEW v,
           missed' = [missed EXCEPT ![d] = [missed[d] EXCEPT ![s] = v]],
           NEW n \in Node, NEW m \in Node, d # n \/ s # m
    PROVE  missed'[n][m] = missed[n][m]
  BY Elsewhere DEF TypeInv

LEMMA WaitedTypes ==
    ASSUME NEW n, NEW m PROVE Waited(n, m) \in {Period, 2 * Period} /\ Waited(n, m) \in Nat
  BY Bounds DEF Waited

LEMMA HeardFresh == TypeInv /\ Heard => FreshPeerKept
<1> SUFFICES ASSUME TypeInv, Heard, NEW n \in Node, NEW m \in Node,
                    n # m, state[n] # "down", missed[n][m] < 2
             PROVE  Fresh(n, m)
  BY DEF FreshPeerKept
<1>1. m \in Known(n) /\ Left(n, m) >= Lease - Waited(n, m)
  BY DEF Heard, HeardBy
<1>2. Left(n, m) > 0
  BY <1>1, LeftTypes, WaitedTypes, Bounds
<1> QED BY <1>1, <1>2 DEF Fresh, Left

LEMMA HeardInit == Init => Heard
  BY DEF Init, Heard

\* A node whose lease on a peer and whose count of lost heartbeats do not change,
\* while the peer's timer does not start anew.
LEMMA HeardStays ==
    ASSUME TypeInv, Heard, TypeInv',
           NEW n \in Node, NEW m \in Node, n # m, state[n] # "down", missed[n][m] < 2,
           missed'[n][m] = missed[n][m], state'[m] = state[m], presence'[n][m] = presence[n][m],
           due'[m] <= due[m], Coming(n, m) => Coming(n, m)'
    PROVE  HeardBy(n, m)'
<1>1. HeardBy(n, m)
  BY DEF Heard
<1>2. Waited(n, m)' = Waited(n, m) /\ Left(n, m)' = Left(n, m) /\ m \in Known(n)'
  BY <1>1 DEF Waited, Left, Known, HeardBy
<1>3. Left(n, m) \in Nat /\ due[m] \in Nat /\ due'[m] \in Nat /\ Waited(n, m) \in Nat
  <2>1. due[m] \in Nat /\ Waited(n, m) \in Nat
    BY DueTypes, WaitedTypes
  <2>2. due'[m] \in 0..Period
    BY DEF TypeInv
  <2>3. Left(n, m) \in 0..Lease
    BY <1>1, LeftTypes DEF HeardBy
  <2> QED BY <2>1, <2>2, <2>3, Bounds
<1>4. Left(n, m) >= Lease - Waited(n, m) + due[m] => Left(n, m) >= Lease - Waited(n, m) + due'[m]
  BY <1>3, Bounds
<1> QED BY <1>1, <1>2, <1>4 DEF HeardBy

\* A node that has just heard a peer, by whatever frame, has a whole lease.
LEMMA HeardAnew ==
    ASSUME TypeInv, TypeInv', NEW n \in Node, NEW m \in Node, NEW swarm \in Swarm, NEW part \in BOOLEAN,
           Note(n, m, swarm, part), state'[m] = "ready"
    PROVE  HeardBy(n, m)'
<1>1. presence'[n][m] = <<[swarm |-> swarm, part |-> part, left |-> Lease]>>
  BY DEF Note, TypeInv
<1>2. m \in Known(n)' /\ Left(n, m)' = Lease
  BY <1>1 DEF Known, Left
<1>3. Waited(n, m)' \in {Period, 2 * Period}
  BY DEF Waited
<1>4. due'[m] \in 0..Period
  BY DEF TypeInv
<1>5. Lease >= Lease - Waited(n, m)' + due'[m] /\ Lease >= Lease - Waited(n, m)'
  BY <1>3, <1>4, Bounds
<1> QED BY <1>2, <1>5 DEF HeardBy

LEMMA HeardTick == ASSUME TypeInv, Heard, TypeInv', Tick PROVE Heard'
<1> SUFFICES ASSUME NEW n \in Node, NEW m \in Node, n # m, state'[n] # "down", missed'[n][m] < 2
             PROVE  HeardBy(n, m)'
  BY DEF Heard
<1>0. UNCHANGED <<state, air, missed>> /\ air = {}
  BY DEF Tick
<1>1. HeardBy(n, m) /\ ~Coming(n, m)
  BY <1>0 DEF Heard, Coming
<1>2. due[m] > 0 /\ due[m] \in 0..Period /\ due'[m] = due[m] - 1
  BY <1>1, Bounds DEF Tick, HeardBy, TypeInv
<1>3. Left(n, m) \in 0..Lease /\ Left(n, m) >= Lease - Waited(n, m) + due[m] /\ Waited(n, m)' = Waited(n, m)
  BY <1>0, <1>1, LeftTypes DEF HeardBy, Waited
<1>4. Left(n, m) > 0 /\ m \in Known(n) /\ Waited(n, m) \in {Period, 2 * Period}
  BY <1>1, <1>2, <1>3, WaitedTypes, Bounds DEF HeardBy
<1>5. presence'[n][m] = <<[presence[n][m][1] EXCEPT !.left = @ - 1]>>
  BY <1>4 DEF Tick, Fresh, Left
<1>6. presence[n][m][1] \in Entry
  BY <1>4, Entries DEF TypeInv, Known
<1>7. m \in Known(n)' /\ Left(n, m)' = Left(n, m) - 1
  <2> DEFINE entry == presence[n][m][1]
             next == [entry EXCEPT !.left = @ - 1]
  <2>1. next.left = entry.left - 1
    BY <1>6 DEF Entry
  <2>2. presence'[n][m] = <<next>>
    BY <1>5
  <2> HIDE DEF next
  <2>3. presence'[n][m] # <<>> /\ presence'[n][m][1] = next
    BY <2>2
  <2> QED BY <2>1, <2>3 DEF Known, Left
<1>8. Left(n, m)' >= Lease - Waited(n, m)' + due'[m] /\ Left(n, m)' >= Lease - Waited(n, m)'
  BY <1>2, <1>3, <1>4, <1>7, Bounds
<1> QED BY <1>0, <1>1, <1>7, <1>8 DEF HeardBy

\* The timer of a node drops no fresh lease, and starts its period anew only with
\* a heartbeat to everybody.
LEMMA HeardMaintain == ASSUME TypeInv, Heard, TypeInv', NEW k \in Node, Maintain(k) PROVE Heard'
<1> SUFFICES ASSUME NEW n \in Node, NEW m \in Node, n # m, state'[n] # "down", missed'[n][m] < 2
             PROVE  HeardBy(n, m)'
  BY DEF Heard
<1>0. UNCHANGED <<state, missed>> /\ air \subseteq air'
  BY DEF Maintain
<1>1. HeardBy(n, m) /\ (Coming(n, m) => Coming(n, m)')
  BY <1>0 DEF Heard, Coming
<1>2. presence'[n][m] = presence[n][m]
  <2>1. Fresh(n, m)
    BY <1>0, HeardFresh DEF FreshPeerKept
  <2>2. CASE Update(k)
    BY <1>1, <2>1, <2>2 DEF Update, TypeInv, HeardBy, Known
  <2> QED BY <2>2 DEF Maintain
<1>3. CASE due'[m] <= due[m]
  BY <1>0, <1>1, <1>2, <1>3, HeardStays
<1>4. CASE k = m /\ due[m] = 0
  <2>1. Coming(n, m)'
    <3>1. [kind |-> "beat", src |-> m, dst |-> n, swarm |-> SwarmId(m), part |-> Participating(m)] \in air'
      BY <1>4 DEF Maintain, Others
    <3> QED BY <3>1 DEF Coming
  <2>2. Waited(n, m)' = Waited(n, m) /\ Left(n, m)' = Left(n, m) /\ m \in Known(n)'
    BY <1>0, <1>1, <1>2 DEF Waited, Left, Known, HeardBy
  <2> QED BY <1>0, <1>1, <2>1, <2>2 DEF HeardBy
<1>5. due'[m] = due[m] \/ (k = m /\ due[m] = 0)
  BY DEF Maintain, TypeInv
<1>6. due[m] <= due[m]
  BY Bounds DEF TypeInv
<1> QED BY <1>3, <1>4, <1>5, <1>6

LEMMA HeardFrame ==
    ASSUME TypeInv, Heard, TypeInv', NEW f \in air, ReceiveBeat(f) \/ ReceivePayload(f) \/ Lose(f)
    PROVE  Heard'
<1> SUFFICES ASSUME NEW n \in Node, NEW m \in Node, n # m, state'[n] # "down", missed'[n][m] < 2
             PROVE  HeardBy(n, m)'
  BY DEF Heard
<1>0. UNCHANGED <<state, due>> /\ air \ {f} \subseteq air'
  BY DEF ReceiveBeat, ReceivePayload, Lose, saved
<1>f. f.src \in Node /\ f.dst \in Node /\ f.swarm \in Swarm /\ f.part \in BOOLEAN
  BY DEF TypeInv, Frame
<1>d. due[m] <= due[m]
  BY Bounds DEF TypeInv
<1>1. CASE ReceiveBeat(f)
  <2>1. CASE f.dst = n /\ f.src = m
    <3>1. CASE state[m] = "ready"
      BY <1>0, <1>f, <1>1, <2>1, <3>1, HeardAnew DEF ReceiveBeat
    <3>2. CASE state[m] # "ready"
      <4>1. missed'[n][m] = missed[n][m]
        BY <1>1, <2>1, <3>2 DEF ReceiveBeat, TypeInv
      <4> QED BY <1>0, <4>1, <3>2 DEF Heard, HeardBy
    <3> QED BY <3>1, <3>2
  <2>2. CASE f.dst # n \/ f.src # m
    <3>1. presence'[n][m] = presence[n][m] /\ missed'[n][m] = missed[n][m]
      <4> DEFINE one == IF state[f.src] = "ready" THEN 0 ELSE missed[f.dst][f.src]
      <4>1. missed' = [missed EXCEPT ![f.dst] = [missed[f.dst] EXCEPT ![f.src] = one]]
        BY <1>1 DEF ReceiveBeat
      <4> HIDE DEF one
      <4>2. missed'[n][m] = missed[n][m]
        BY <1>f, <2>2, <4>1, MissedElsewhere
      <4>3. presence'[n][m] = presence[n][m]
        BY <1>f, <1>1, <2>2, NotedElsewhere DEF ReceiveBeat
      <4> QED BY <4>2, <4>3
    <3>2. Coming(n, m) => Coming(n, m)'
      BY <1>0, <2>2 DEF Coming
    <3> QED BY <1>0, <1>d, <3>1, <3>2, HeardStays
  <2> QED BY <2>1, <2>2
<1>2. CASE ReceivePayload(f)
  <2>0. UNCHANGED missed /\ f.kind # "beat"
    BY <1>2 DEF ReceivePayload
  <2>1. CASE Note(f.dst, f.src, f.swarm, TRUE) /\ f.dst = n /\ f.src = m
    <3>1. state[m] = "ready"
      BY <1>0, <2>0 DEF Heard, HeardBy
    <3> QED BY <1>0, <1>f, <2>1, <3>1, HeardAnew
  <2>2. CASE ~(Note(f.dst, f.src, f.swarm, TRUE) /\ f.dst = n /\ f.src = m)
    <3>1. presence'[n][m] = presence[n][m]
      <4>1. CASE UNCHANGED presence
        BY <4>1
      <4>2. CASE Note(f.dst, f.src, f.swarm, TRUE) /\ (f.dst # n \/ f.src # m)
        <5>1. ASSUME NEW d \in Node, NEW s \in Node, NEW w, Note(d, s, w, TRUE), d # n \/ s # m
              PROVE  presence'[n][m] = presence[n][m]
          BY <5>1, Elsewhere DEF Note, TypeInv
        <5> QED BY <1>f, <4>2, <5>1
      <4> QED BY <1>2, <2>2, <4>1, <4>2 DEF ReceivePayload
    <3>2. Coming(n, m) => Coming(n, m)'
      BY <1>0, <2>0 DEF Coming
    <3> QED BY <1>0, <1>d, <2>0, <3>1, <3>2, HeardStays
  <2> QED BY <2>1, <2>2
<1>3. CASE Lose(f)
  <2>0. UNCHANGED presence
    BY <1>3 DEF Lose
  <2>1. CASE f.kind = "beat" /\ f.dst = n /\ f.src = m
    <3>0. missed[n][m] \in 0..2
      BY DEF TypeInv
    <3>1. missed'[n][m] = Min({missed[n][m] + 1, 2})
      <4> DEFINE one == Min({missed[n][m] + 1, 2})
      <4>1. missed' = [missed EXCEPT ![n] = [missed[n] EXCEPT ![m] = one]]
        BY <1>3, <2>1 DEF Lose
      <4> HIDE DEF one
      <4>2. missed'[n][m] = one
        BY <4>1 DEF TypeInv
      <4> QED BY <4>2 DEF one
    <3>2. missed[n][m] = 0 /\ missed'[n][m] = 1
      BY <3>0, <3>1, MinOfTwo
    <3>3. HeardBy(n, m)
      BY <1>0, <3>2 DEF Heard
    <3>4. Left(n, m)' = Left(n, m) /\ Left(n, m) \in Nat /\ m \in Known(n)'
      BY <2>0, <3>3, LeftTypes, Bounds DEF Left, Known, HeardBy
    <3>5. Left(n, m) >= Lease - Period
      BY <3>2, <3>3 DEF HeardBy, Waited
    <3>6. Waited(n, m)' = 2 * Period
      BY <3>2 DEF Waited
    <3>7. due[m] \in 0..Period
      BY DEF TypeInv
    <3>8. /\ Left(n, m)' >= Lease - Waited(n, m)' + due'[m]
          /\ Left(n, m)' >= Lease - Waited(n, m)'
      BY <1>0, <3>4, <3>5, <3>6, <3>7, Bounds
    <3> QED BY <1>0, <3>3, <3>4, <3>8 DEF HeardBy
  <2>2. CASE ~(f.kind = "beat" /\ f.dst = n /\ f.src = m)
    <3>1. missed'[n][m] = missed[n][m]
      <4>1. CASE f.kind = "beat"
        <5> DEFINE one == Min({missed[f.dst][f.src] + 1, 2})
        <5>1. missed' = [missed EXCEPT ![f.dst] = [missed[f.dst] EXCEPT ![f.src] = one]]
          BY <1>3, <4>1 DEF Lose
        <5>2. f.dst # n \/ f.src # m
          BY <2>2, <4>1
        <5> HIDE DEF one
        <5> QED BY <1>f, <5>1, <5>2, MissedElsewhere
      <4> QED BY <1>3, <4>1 DEF Lose
    <3>2. Coming(n, m) => Coming(n, m)'
      BY <1>0, <2>2 DEF Coming
    <3> QED BY <1>0, <1>d, <2>0, <3>1, <3>2, HeardStays
  <2> QED BY <2>1, <2>2
<1> QED BY <1>1, <1>2, <1>3

\* A node that stops is not counted on any more, and one that starts counts on nobody.
LEMMA HeardOthers ==
    ASSUME TypeInv, Heard, TypeInv', NEW k \in Node,
           \/ GraceEnds(k) \/ Send(k) \/ Acknowledged(k) \/ \E m \in Node : Transmit(k, m)
           \/ Detach(k) \/ Attach(k) \/ Crash(k) \/ Restart(k)
           \/ \E c \in (Swarm \cup {0}) \X BOOLEAN : Choose(k, c)
    PROVE  Heard'
<1> SUFFICES ASSUME NEW n \in Node, NEW m \in Node, n # m, state'[n] # "down", missed'[n][m] < 2
             PROVE  HeardBy(n, m)'
  BY DEF Heard
<1>0. Coming(n, m) => Coming(n, m)'
  BY DEF Coming, GraceEnds, Send, Acknowledged, Transmit, Detach, Attach, Crash, Restart, Choose
<1>1. CASE GraceEnds(k) \/ Send(k) \/ Acknowledged(k) \/ \E i \in Node : Transmit(k, i)
  <2>1. UNCHANGED <<state, presence, due, missed>> /\ due[m] <= due[m]
    BY <1>1, DueTypes DEF GraceEnds, Send, Acknowledged, Transmit
  <2> QED BY <1>0, <2>1, HeardStays
<1>2. ASSUME NEW c \in (Swarm \cup {0}) \X BOOLEAN, Choose(k, c) PROVE HeardBy(n, m)'
  <2>1. UNCHANGED <<state, presence, missed>> /\ due'[m] <= due[m]
    <3>1. due' = due \/ due' = [due EXCEPT ![k] = 0]
      BY <1>2 DEF Choose
    <3>2. due'[m] = due[m] \/ due'[m] = 0
      BY <3>1 DEF TypeInv
    <3> QED BY <1>2, <3>2, DueTypes DEF Choose
  <2> QED BY <1>0, <2>1, HeardStays
<1>3. CASE Detach(k) \/ Crash(k)
  <2>1. k # m /\ missed'[n][m] = missed[n][m]
    <3>1. missed' = [i \in Node |-> [missed[i] EXCEPT ![k] = 2]]
      BY <1>3 DEF Detach, Crash, Silent
    <3> QED BY <3>1 DEF TypeInv
  <2>2. state[n] # "down" /\ state'[m] = state[m] /\ UNCHANGED <<presence, due>> /\ due[m] <= due[m]
    <3>1. \E s \in {"down", "detached"} : state' = [state EXCEPT ![k] = s] /\ (s = "down" \/ state[k] = "ready")
      BY <1>3 DEF Detach, Crash
    <3>2. state[n] # "down" /\ state'[m] = state[m]
      BY <2>1, <3>1 DEF TypeInv
    <3> QED BY <1>3, <3>2, DueTypes DEF Detach, Crash
  <2> QED BY <1>0, <2>1, <2>2, HeardStays
<1>4. CASE Attach(k) \/ Restart(k)
  <2>1. state[k] # "ready" /\ state[n] # "down" /\ missed'[n][m] = missed[n][m]
    <3>1. CASE Attach(k)
      BY <3>1 DEF Attach, TypeInv, counts
    <3>2. CASE Restart(k)
      <4>1. missed' = [missed EXCEPT ![k] = [i \in Node |-> 2]]
        BY <3>2 DEF Restart
      <4>2. k # n /\ missed'[n][m] = missed[n][m]
        BY <4>1 DEF TypeInv
      <4> QED BY <3>2, <4>2 DEF Restart, TypeInv
    <3> QED BY <1>4, <3>1, <3>2
  <2>2. k # m
    BY <2>1 DEF Heard, HeardBy
  <2>3. k # n \/ Attach(k)
    BY <1>4 DEF Restart, TypeInv
  <2>4. state'[m] = state[m] /\ presence'[n][m] = presence[n][m] /\ due'[m] = due[m] /\ due[m] <= due[m]
    BY <1>4, <2>2, <2>3, Bounds DEF Attach, Restart, TypeInv
  <2> QED BY <1>0, <2>1, <2>4, HeardStays
<1> QED BY <1>1, <1>2, <1>3, <1>4

LEMMA HeardNext == TypeInv /\ Heard /\ [Next]_vars => Heard'
<1> SUFFICES ASSUME TypeInv, Heard, [Next]_vars PROVE Heard'
  OBVIOUS
<1>1. TypeInv'
  BY TypesNext
<1>2. CASE UNCHANGED vars
  BY <1>2 DEF vars, Heard, HeardBy, Waited, Left, Coming, Known
<1> QED BY <1>1, <1>2, HeardTick, HeardMaintain, HeardFrame, HeardOthers DEF Next

\* A peer stays known while at most one of its heartbeats in a row is lost, for every
\* period and lease the configuration admits and whatever the phases of the timers
\* (swarm_coordinator.cpp, maintain and accept_coordination_frame).
THEOREM PeerKept == Spec => []FreshPeerKept
<1>1. Init => TypeInv /\ Heard
  BY TypesInit, HeardInit
<1>2. TypeInv /\ Heard /\ [Next]_vars => (TypeInv /\ Heard)'
  BY TypesNext, HeardNext
<1> QED BY <1>1, <1>2, HeardFresh, PTL DEF Spec

-----------------------------------------------------------------------------
(***************************************************************************)
(* A member that has left.  Whatever still says that a node participates   *)
(* in a swarm (a lease, the sample it was sending, a frame) either is true *)
(* or is no older than the node's last choice and ends with it.            *)
(***************************************************************************)
Chosen(m, swarm) == choice[m] = <<swarm, TRUE>>
Claimed(m, swarm, left, bound) == Chosen(m, swarm) \/ since[m] + left <= bound

LeasesEnd ==
    \A n, m \in Node, e \in Entry :
        presence[n][m] = <<e>> /\ e.part /\ e.left > 0 => Claimed(m, e.swarm, e.left, Residue + Lease)

SamplesEnd ==
    \A m \in Node, e \in Sample : sample[m] = <<e>> => Claimed(m, e.swarm, e.left, Residue)

FramesEnd ==
    \A f \in air : f.part \/ f.kind # "beat" => Claimed(f.src, f.swarm, 0, Residue)

Departures == LeasesEnd /\ SamplesEnd /\ FramesEnd

LEMMA SinceTypes == ASSUME TypeInv, NEW m \in Node PROVE since[m] \in 0..(Residue + Lease) /\ since[m] \in Nat
<1>1. since[m] \in 0..(Residue + Lease)
  BY DEF TypeInv
<1> QED BY <1>1, Bounds

LEMMA Says == ASSUME TypeInv, NEW n \in Node, Participating(n) PROVE choice[n] = <<SwarmId(n), TRUE>>
<1>1. choice[n] \in Swarm \X BOOLEAN
  BY DEF TypeInv
<1>2. PICK swarm \in Swarm, part \in BOOLEAN : choice[n] = <<swarm, part>>
  BY <1>1
<1>3. SwarmId(n) = swarm /\ (Participating(n) <=> part)
  BY <1>2 DEF SwarmId, Participating
<1>4. part = TRUE
  BY <1>3
<1> QED BY <1>2, <1>3, <1>4

LEMMA DeparturesImply == TypeInv /\ Departures => LeaverGone
<1> SUFFICES ASSUME TypeInv, Departures, NEW n \in Node, NEW m \in Members(n), since[m] >= Residue + Lease
             PROVE  choice[m] = <<SwarmId(n), TRUE>>
  BY DEF LeaverGone
<1>1. /\ m \in Node /\ presence[n][m] # <<>> /\ presence[n][m][1].left > 0
      /\ presence[n][m][1].part /\ presence[n][m][1].swarm = SwarmId(n)
  BY DEF Members, Fresh, Others, Known
<1>2. PICK e \in Entry : presence[n][m] = <<e>>
  BY <1>1, Entries DEF TypeInv
<1>3. e.part /\ e.left > 0 /\ e.swarm = SwarmId(n) /\ e.left \in 0..Lease
  BY <1>1, <1>2 DEF Entry
<1>4. Claimed(m, e.swarm, e.left, Residue + Lease)
  BY <1>1, <1>2, <1>3 DEF Departures, LeasesEnd
<1>5. Chosen(m, e.swarm)
  BY <1>1, <1>3, <1>4, SinceTypes, Bounds DEF Claimed
<1> QED BY <1>3, <1>5 DEF Chosen

LEMMA DeparturesInit == Init => Departures
  BY DEF Init, Departures, LeasesEnd, SamplesEnd, FramesEnd

\* A choice that is made starts the count anew: what was claimed of the node may still
\* be said of it for as long as before.
LEMMA ClaimKept ==
    ASSUME NEW m \in Node, NEW swarm, NEW left \in Nat, NEW bound \in Nat, left <= bound,
           Claimed(m, swarm, left, bound),
           since'[m] = 0 \/ (since'[m] = since[m] /\ choice'[m] = choice[m])
    PROVE  Claimed(m, swarm, left, bound)'
<1>1. CASE since'[m] = 0
  BY <1>1 DEF Claimed
<1>2. CASE since'[m] = since[m] /\ choice'[m] = choice[m]
  <2>1. Chosen(m, swarm) => Chosen(m, swarm)'
    BY <1>2 DEF Chosen
  <2> QED BY <1>2, <2>1 DEF Claimed
<1> QED BY <1>1, <1>2

\* The three kinds of claims are bounded.
LEMMA ClaimBounds ==
    /\ \A e \in Entry : e.left \in Nat /\ e.left <= Residue + Lease
    /\ \A e \in Sample : e.left \in Nat /\ e.left <= Residue
    /\ Residue \in Nat /\ Residue + Lease \in Nat /\ 0 <= Residue
  BY Bounds DEF Entry, Sample

Counted == \A m \in Node : since'[m] = 0 \/ (since'[m] = since[m] /\ choice'[m] = choice[m])

LEMMA LeasesStay ==
    ASSUME TypeInv, LeasesEnd, Counted,
           \A n, m \in Node : presence'[n][m] = presence[n][m] \/ presence'[n][m] = <<>>
    PROVE  LeasesEnd'
<1> SUFFICES ASSUME NEW n \in Node, NEW m \in Node, NEW e \in Entry,
                    presence'[n][m] = <<e>>, e.part, e.left > 0
             PROVE  Claimed(m, e.swarm, e.left, Residue + Lease)'
  BY DEF LeasesEnd
<1>1. presence[n][m] = <<e>>
  <2>1. <<e>> # <<>>
    OBVIOUS
  <2> QED BY <2>1
<1>2. Claimed(m, e.swarm, e.left, Residue + Lease)
  BY <1>1 DEF LeasesEnd
<1> QED BY <1>2, ClaimBounds, ClaimKept DEF Counted

LEMMA SamplesStay ==
    ASSUME TypeInv, SamplesEnd, Counted, \A m \in Node : sample'[m] = sample[m] \/ sample'[m] = <<>>
    PROVE  SamplesEnd'
<1> SUFFICES ASSUME NEW m \in Node, NEW e \in Sample, sample'[m] = <<e>>
             PROVE  Claimed(m, e.swarm, e.left, Residue)'
  BY DEF SamplesEnd
<1>1. sample[m] = <<e>>
  <2>1. <<e>> # <<>>
    OBVIOUS
  <2> QED BY <2>1
<1>2. Claimed(m, e.swarm, e.left, Residue)
  BY <1>1 DEF SamplesEnd
<1> QED BY <1>2, ClaimBounds, ClaimKept DEF Counted

LEMMA FramesStay ==
    ASSUME TypeInv, FramesEnd, Counted,
           \A f \in air' : f \in air \/ (f.src \in Node /\ Claimed(f.src, f.swarm, 0, Residue)')
    PROVE  FramesEnd'
<1> SUFFICES ASSUME NEW f \in air, f \in air', f.part \/ f.kind # "beat"
             PROVE  Claimed(f.src, f.swarm, 0, Residue)'
  BY DEF FramesEnd
<1>1. Claimed(f.src, f.swarm, 0, Residue) /\ f.src \in Node
  BY DEF FramesEnd, TypeInv, Frame
<1> QED BY <1>1, ClaimBounds, ClaimKept DEF Counted


\* A new lease says what a frame said, which was true or is no older than a sample.
LEMMA LeaseNoted ==
    ASSUME TypeInv, TypeInv', LeasesEnd, Counted, NEW n \in Node, NEW m \in Node, NEW swarm \in Swarm,
           NEW part \in BOOLEAN, Note(n, m, swarm, part), part => Claimed(m, swarm, 0, Residue)'
    PROVE  LeasesEnd'
<1> SUFFICES ASSUME NEW a \in Node, NEW b \in Node, NEW e \in Entry,
                    presence'[a][b] = <<e>>, e.part, e.left > 0
             PROVE  Claimed(b, e.swarm, e.left, Residue + Lease)'
  BY DEF LeasesEnd
<1>1. CASE a = n /\ b = m
  <2>1. presence'[n][m] = <<[swarm |-> swarm, part |-> part, left |-> Lease]>>
    BY DEF Note, TypeInv
  <2>2. e = [swarm |-> swarm, part |-> part, left |-> Lease]
    BY <1>1, <2>1
  <2>3. part /\ e.swarm = swarm /\ e.left = Lease
    BY <2>2
  <2>4. Claimed(m, swarm, 0, Residue)'
    BY <2>3
  <2>5. since'[m] \in Nat
    <3>1. since'[m] \in 0..(Residue + Lease)
      BY DEF TypeInv
    <3> QED BY <3>1, Bounds
  <2>6. Claimed(m, swarm, Lease, Residue + Lease)'
    BY <2>4, <2>5, Bounds DEF Claimed
  <2> QED BY <1>1, <2>3, <2>6
<1>2. CASE a # n \/ b # m
  <2>1. presence[a][b] = <<e>>
    <3> DEFINE entry == <<[swarm |-> swarm, part |-> part, left |-> Lease]>>
    <3>1. presence' = [presence EXCEPT ![n] = [presence[n] EXCEPT ![m] = entry]]
      BY DEF Note
    <3> HIDE DEF entry
    <3>2. presence'[a][b] = presence[a][b]
      BY <1>2, <3>1, PresenceElsewhere
    <3> QED BY <3>2
  <2>2. Claimed(b, e.swarm, e.left, Residue + Lease)
    BY <2>1 DEF LeasesEnd
  <2> QED BY <2>2, ClaimBounds, ClaimKept DEF Counted
<1> QED BY <1>1, <1>2

\* Time takes from a claim what it adds to the age of the choice.
LEMMA DeparturesTick == ASSUME TypeInv, Departures, Tick PROVE Departures'
<1>0. UNCHANGED choice /\ air = {} /\ air' = {}
  BY DEF Tick
<1>s. ASSUME NEW m \in Node, NEW swarm, NEW left \in Nat, left > 0, NEW bound \in Nat,
             Claimed(m, swarm, left, bound)
      PROVE  Claimed(m, swarm, left - 1, bound)'
  <2>1. since'[m] = Min({since[m] + 1, Residue + Lease})
    BY DEF Tick
  <2>2. since'[m] = IF since[m] + 1 <= Residue + Lease THEN since[m] + 1 ELSE Residue + Lease
    BY <2>1, SinceTypes, MinOfTwo, Bounds
  <2>3. since'[m] <= since[m] + 1 /\ since'[m] \in Nat
    BY <2>2, SinceTypes, Bounds
  <2>4. Chosen(m, swarm) => Chosen(m, swarm)'
    BY <1>0 DEF Chosen
  <2> QED BY <1>s, <2>3, <2>4, SinceTypes DEF Claimed
<1>1. LeasesEnd'
  <2> SUFFICES ASSUME NEW n \in Node, NEW m \in Node, NEW e \in Entry,
                      presence'[n][m] = <<e>>, e.part, e.left > 0
               PROVE  Claimed(m, e.swarm, e.left, Residue + Lease)'
    BY DEF LeasesEnd
  <2>1. presence'[n][m] = IF Fresh(n, m) THEN <<[presence[n][m][1] EXCEPT !.left = @ - 1]>> ELSE presence[n][m]
    BY DEF Tick
  <2>2. presence[n][m] # <<>>
    BY <2>1 DEF Fresh, Known
  <2>3. PICK old \in Entry : presence[n][m] = <<old>>
    BY <2>2, Entries DEF TypeInv
  <2>4. Fresh(n, m)
    <3>1. CASE ~Fresh(n, m)
      <4>1. presence[n][m][1].left > 0
        BY <2>1, <3>1
      <4> QED BY <2>2, <4>1 DEF Fresh, Known
    <3> QED BY <3>1
  <2>5. e = [old EXCEPT !.left = @ - 1]
    BY <2>1, <2>3, <2>4
  <2>6. e.swarm = old.swarm /\ e.part = old.part /\ e.left = old.left - 1 /\ old.left > 0
    <3>1. old.left > 0
      BY <2>3, <2>4 DEF Fresh
    <3>2. e.swarm = old.swarm /\ e.left = old.left - 1
      BY <2>5 DEF Entry
    <3>3. e.part = old.part
      BY <2>5 DEF Entry
    <3> QED BY <3>1, <3>2, <3>3
  <2>7. Claimed(m, old.swarm, old.left, Residue + Lease)
    BY <2>3, <2>6 DEF Departures, LeasesEnd
  <2> QED BY <1>s, <2>6, <2>7, ClaimBounds
<1>2. SamplesEnd'
  <2> SUFFICES ASSUME NEW m \in Node, NEW e \in Sample, sample'[m] = <<e>>
               PROVE  Claimed(m, e.swarm, e.left, Residue)'
    BY DEF SamplesEnd
  <2>1. sample'[m] = IF sample[m] = <<>> \/ sample[m][1].left = 1 THEN <<>>
                     ELSE <<[sample[m][1] EXCEPT !.left = @ - 1]>>
    BY DEF Tick
  <2>2. sample[m] # <<>> /\ sample'[m] = <<[sample[m][1] EXCEPT !.left = @ - 1]>>
    BY <2>1
  <2>3. PICK old \in Sample : sample[m] = <<old>>
    BY <2>2, Entries DEF TypeInv
  <2>4. e = [old EXCEPT !.left = @ - 1]
    BY <2>2, <2>3
  <2>5. e.swarm = old.swarm /\ e.left = old.left - 1 /\ old.left > 0
    BY <2>4, Bounds DEF Sample
  <2>6. Claimed(m, old.swarm, old.left, Residue)
    BY <2>3 DEF Departures, SamplesEnd
  <2> QED BY <1>s, <2>5, <2>6, ClaimBounds
<1>3. FramesEnd'
  BY <1>0 DEF FramesEnd
<1> QED BY <1>1, <1>2, <1>3 DEF Departures

LEMMA DeparturesFrame ==
    ASSUME TypeInv, TypeInv', Departures, NEW f \in air, ReceiveBeat(f) \/ ReceivePayload(f) \/ Lose(f)
    PROVE  Departures'
<1>0. Counted /\ UNCHANGED <<choice, since, sample>>
  BY DEF Counted, ReceiveBeat, ReceivePayload, Lose, saved
<1>f. f.src \in Node /\ f.dst \in Node /\ f.swarm \in Swarm /\ f.part \in BOOLEAN
  BY DEF TypeInv, Frame
<1>c. f.part \/ f.kind # "beat" => Claimed(f.src, f.swarm, 0, Residue)'
  <2>1. ASSUME f.part \/ f.kind # "beat" PROVE Claimed(f.src, f.swarm, 0, Residue)'
    <3>1. Claimed(f.src, f.swarm, 0, Residue)
      BY <2>1 DEF Departures, FramesEnd
    <3> QED BY <1>0, <1>f, <3>1, ClaimBounds, ClaimKept DEF Counted
  <2> QED BY <2>1
<1>1. SamplesEnd'
  BY <1>0, SamplesStay DEF Departures
<1>2. CASE ReceiveBeat(f)
  <2>1. LeasesEnd'
    BY <1>0, <1>f, <1>c, <1>2, LeaseNoted DEF ReceiveBeat, Departures
  <2>2. FramesEnd'
    BY <1>0, <1>2, FramesStay DEF ReceiveBeat, Departures
  <2> QED BY <1>1, <2>1, <2>2 DEF Departures
<1>3. CASE Lose(f)
  BY <1>0, <1>1, <1>3, LeasesStay, FramesStay DEF Lose, Departures
<1>4. CASE ReceivePayload(f)
  <2> DEFINE taken == Participating(f.dst) /\ f.swarm = SwarmId(f.dst)
             receipt == [f EXCEPT !.kind = "ack", !.src = f.dst, !.dst = f.src]
  <2>1. LeasesEnd'
    <3>1. CASE UNCHANGED presence
      BY <1>0, <3>1, LeasesStay DEF Departures
    <3>2. CASE Note(f.dst, f.src, f.swarm, TRUE)
      <4>1. Claimed(f.src, f.swarm, 0, Residue)'
        BY <1>c, <1>4 DEF ReceivePayload
      <4> QED BY <1>0, <1>f, <3>2, <4>1, LeaseNoted DEF Departures
    <3> QED BY <1>4, <3>1, <3>2 DEF ReceivePayload
  <2>2. taken => Claimed(f.dst, f.swarm, 0, Residue)'
    <3> SUFFICES ASSUME taken PROVE Claimed(f.dst, f.swarm, 0, Residue)'
      OBVIOUS
    <3>1. choice[f.dst] = <<f.swarm, TRUE>>
      BY <1>f, Says
    <3>2. Chosen(f.dst, f.swarm)'
      BY <1>0, <3>1 DEF Chosen
    <3> QED BY <3>2 DEF Claimed
  <2>3. receipt.src = f.dst /\ receipt.swarm = f.swarm
    BY DEF TypeInv, Frame
  <2>4. \A g \in air' : g \in air \/ (g = receipt /\ taken)
    BY <1>4 DEF ReceivePayload
  <2> HIDE DEF taken, receipt
  <2>5. \A g \in air' : g \in air \/ (g.src \in Node /\ Claimed(g.src, g.swarm, 0, Residue)')
    <3> SUFFICES ASSUME NEW g \in air', g \notin air
                 PROVE  g.src \in Node /\ Claimed(g.src, g.swarm, 0, Residue)'
      OBVIOUS
    <3>1. g.src = f.dst /\ g.swarm = f.swarm /\ taken
      BY <2>3, <2>4
    <3> QED BY <1>f, <2>2, <3>1
  <2>6. FramesEnd'
    BY <1>0, <2>5, FramesStay DEF Departures
  <2> QED BY <1>1, <2>1, <2>6 DEF Departures
<1> QED BY <1>2, <1>3, <1>4

\* What a node says of itself is true when it is said.
LEMMA DeparturesSpeak ==
    ASSUME TypeInv, TypeInv', Departures, NEW n \in Node,
           Maintain(n) \/ Send(n) \/ \E m \in Node : Transmit(n, m)
    PROVE  Departures'
<1>0. Counted /\ UNCHANGED <<choice, since>>
  BY DEF Counted, Maintain, Send, Transmit, saved
<1>1. CASE Maintain(n)
  <2>1. LeasesEnd'
    <3>1. \A a, b \in Node : presence'[a][b] = presence[a][b] \/ presence'[a][b] = <<>>
      <4>1. CASE Update(n)
        BY <4>1 DEF Update, TypeInv
      <4> QED BY <1>1, <4>1 DEF Maintain
    <3> QED BY <1>0, <3>1, LeasesStay DEF Departures
  <2>2. SamplesEnd'
    BY <1>0, <1>1, SamplesStay DEF Maintain, Departures
  <2>3. FramesEnd'
    <3> SUFFICES ASSUME NEW f \in air', f.part \/ f.kind # "beat"
                 PROVE  Claimed(f.src, f.swarm, 0, Residue)'
      BY DEF FramesEnd
    <3>1. CASE f \in air
      <4>1. Claimed(f.src, f.swarm, 0, Residue) /\ f.src \in Node
        BY <3>1 DEF Departures, FramesEnd, TypeInv, Frame
      <4> QED BY <1>0, <4>1, ClaimBounds, ClaimKept DEF Counted
    <3>2. CASE f \notin air
      <4>1. f.kind = "beat" /\ f.src = n /\ f.swarm = SwarmId(n) /\ f.part = Participating(n)
        BY <1>1, <3>2 DEF Maintain
      <4>2. choice[n] = <<f.swarm, TRUE>>
        <5>1. f.part /\ Participating(n)
          BY <4>1
        <5> QED BY <4>1, <5>1, Says
      <4>3. Chosen(n, f.swarm)'
        BY <1>0, <4>2 DEF Chosen
      <4> QED BY <4>1, <4>3 DEF Claimed
    <3> QED BY <3>1, <3>2
  <2> QED BY <2>1, <2>2, <2>3 DEF Departures
<1>2. CASE Send(n)
  <2>1. LeasesEnd' /\ FramesEnd'
    BY <1>0, <1>2, LeasesStay, FramesStay DEF Send, Departures
  <2>2. SamplesEnd'
    <3> SUFFICES ASSUME NEW m \in Node, NEW e \in Sample, sample'[m] = <<e>>
                 PROVE  Claimed(m, e.swarm, e.left, Residue)'
      BY DEF SamplesEnd
    <3>1. CASE m = n
      <4>1. e = [swarm |-> SwarmId(n), left |-> Residue]
        BY <1>2, <3>1 DEF Send, TypeInv
      <4>2. choice[n] = <<e.swarm, TRUE>>
        BY <1>2, <4>1, Says DEF Send
      <4>3. Chosen(n, e.swarm)'
        BY <1>0, <4>2 DEF Chosen
      <4> QED BY <3>1, <4>3 DEF Claimed
    <3>2. CASE m # n
      <4>1. sample[m] = <<e>>
        BY <1>2, <3>2 DEF Send, TypeInv
      <4>2. Claimed(m, e.swarm, e.left, Residue)
        BY <4>1 DEF Departures, SamplesEnd
      <4> QED BY <1>0, <4>2, ClaimBounds, ClaimKept DEF Counted
    <3> QED BY <3>1, <3>2
  <2> QED BY <2>1, <2>2 DEF Departures
<1>3. ASSUME NEW m \in Node, Transmit(n, m) PROVE Departures'
  <2>1. LeasesEnd' /\ SamplesEnd'
    BY <1>0, <1>3, LeasesStay, SamplesStay DEF Transmit, Departures
  <2>2. PICK e \in Sample : sample[n] = <<e>>
    BY <1>3, Entries DEF Transmit, TypeInv
  <2>3. Claimed(n, e.swarm, 0, Residue)'
    <3>1. Claimed(n, e.swarm, e.left, Residue)
      BY <2>2 DEF Departures, SamplesEnd
    <3>2. Claimed(n, e.swarm, 0, Residue)
      BY <3>1, SinceTypes, ClaimBounds DEF Claimed
    <3> QED BY <1>0, <3>2, ClaimBounds, ClaimKept DEF Counted
  <2>4. \A g \in air' : g \in air \/ (g.src \in Node /\ Claimed(g.src, g.swarm, 0, Residue)')
    <3> SUFFICES ASSUME NEW g \in air', g \notin air
                 PROVE  g.src \in Node /\ Claimed(g.src, g.swarm, 0, Residue)'
      OBVIOUS
    <3>1. g.src = n /\ g.swarm = e.swarm
      BY <1>3, <2>2 DEF Transmit
    <3> QED BY <2>3, <3>1
  <2>5. FramesEnd'
    BY <1>0, <2>4, FramesStay DEF Departures
  <2> QED BY <2>1, <2>5 DEF Departures
<1> QED BY <1>1, <1>2, <1>3

\* Requests, crashes and restarts: a node that changes its choice counts from there.
LEMMA DeparturesChange ==
    ASSUME TypeInv, Departures, NEW n \in Node,
           \/ GraceEnds(n) \/ Acknowledged(n) \/ Detach(n) \/ Attach(n) \/ Crash(n) \/ Restart(n)
           \/ \E c \in (Swarm \cup {0}) \X BOOLEAN : Choose(n, c)
    PROVE  Departures'
<1>1. Counted
  <2>1. CASE Restart(n)
    BY <2>1 DEF Restart, Counted, TypeInv
  <2>2. ASSUME NEW c \in (Swarm \cup {0}) \X BOOLEAN, Choose(n, c) PROVE Counted
    BY <2>2 DEF Choose, Counted, TypeInv, saved
  <2>3. CASE UNCHANGED <<choice, since>>
    BY <2>3 DEF Counted
  <2> QED BY <2>1, <2>2, <2>3 DEF GraceEnds, Acknowledged, Detach, Attach, Crash, saved
<1>2. \A a, b \in Node : presence'[a][b] = presence[a][b] \/ presence'[a][b] = <<>>
  <2>1. CASE Restart(n)
    BY <2>1 DEF Restart, TypeInv
  <2>2. CASE UNCHANGED presence
    BY <2>2
  <2> QED BY <2>1, <2>2 DEF GraceEnds, Acknowledged, Detach, Attach, Crash, Choose
<1>3. \A m \in Node : sample'[m] = sample[m] \/ sample'[m] = <<>>
  BY DEF GraceEnds, Acknowledged, Detach, Attach, Crash, Restart, Choose, TypeInv
<1>4. UNCHANGED air
  BY DEF GraceEnds, Acknowledged, Detach, Attach, Crash, Restart, Choose
<1> QED BY <1>1, <1>2, <1>3, <1>4, LeasesStay, SamplesStay, FramesStay DEF Departures

LEMMA DeparturesNext == TypeInv /\ Departures /\ [Next]_vars => Departures'
<1> SUFFICES ASSUME TypeInv, Departures, [Next]_vars PROVE Departures'
  OBVIOUS
<1>1. TypeInv'
  BY TypesNext
<1>2. CASE UNCHANGED vars
  BY <1>2, LeasesStay, SamplesStay, FramesStay DEF vars, Counted, Departures
<1> QED BY <1>1, <1>2, DeparturesTick, DeparturesFrame, DeparturesSpeak, DeparturesChange DEF Next

\* A node that has left a swarm is in nobody's membership of it once the life of a sample
\* and a lease have passed, whatever is lost, repaired or restarted
\* (swarm_coordinator.cpp, accepts_swarm_payload and update_selection).
THEOREM LeaverForgotten == Spec => []LeaverGone
<1>1. Init => TypeInv /\ Departures
  BY TypesInit, DeparturesInit
<1>2. TypeInv /\ Departures /\ [Next]_vars => (TypeInv /\ Departures)'
  BY TypesNext, DeparturesNext
<1> QED BY <1>1, <1>2, DeparturesImply, PTL DEF Spec
=============================================================================
