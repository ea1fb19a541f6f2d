------------------------- MODULE MeshReliableProofs -------------------------
(***************************************************************************)
(* Proofs about MeshReliable for any receivers and any bounds: types; that *)
(* with several receivers the channel implements TopicDelivery; and that   *)
(* with one receiver every transfer can be cancelled.                      *)
(***************************************************************************)
EXTENDS MeshReliable, FiniteSetTheorems, WellFoundedInduction, TLAPS

-----------------------------------------------------------------------------
(* The invariants                                                           *)

\* The table of samples: as large as it may be, one sample of a number, with numbers
\* and values that were used.
Table ==
    /\ pending \subseteq Sample /\ IsFiniteSet(pending) /\ Cardinality(pending) <= MaxPending
    /\ \A s \in pending : s.seq <= used /\ s.val <= offered
    /\ \A s, r \in pending : s.seq = r.seq => s = r

\* The counters, and the executor's locals at its place in the code.
Locals ==
    /\ offered \in 0..MaxValue /\ latest \in 0..offered /\ used \in 0..MaxSeq
    /\ pc \in {"idle", "send", "check", "repair"} /\ work \in Work /\ work.val <= offered
    /\ hand \in Handle \cup {NoHandle} /\ cancels \subseteq Handle
    /\ pc \in {"idle", "check"} => hand = NoHandle

\* What is on its way, and what receivers know.
Outside ==
    /\ active \subseteq Transfer /\ receipts \subseteq Peer \X SeqNo
    /\ \A a \in active : a.val <= offered /\ Seq(a.id) <= used
    /\ seen \in [Peer -> SUBSET (1..used)] /\ last \in [Peer -> 0..offered]

TypeInv == Table /\ Locals /\ Outside

\* The daemon carries one transfer to a destination.
OneTransfer == \A a, b \in active : Dest(a.id) = Dest(b.id) => a = b

\* A value as new as everything sent.  It may have been sent before: the answers to its
\* copies were lost, and it waits again.
Above(v) == /\ \A s \in pending : s.val <= v
            /\ \A a \in active : a.val <= v
            /\ \A p \in Peer : last[p] <= v

\* With several receivers a sample blocks the channel until it ends, so there is one.
OneSample == /\ \A s, r \in pending : s = r
             /\ \A s \in pending : s.channel = "blocked"

\* A waiting value, in mesh_reliable_latest_ or taken out for sending, is the newest.
WaitingNewest ==
    /\ latest # NoValue => pc = "idle" /\ Above(latest)
    /\ pc \in {"check", "repair"} /\ work.val # NoValue => pending = {} /\ Above(work.val)

\* The sample that is being sent.
Sending == pc = "send" => \E s \in pending : s.seq = work.seq /\ s.val = work.val

\* A sample has the newest value that was sent, and no copy on its way a newer one.
SampleNewest ==
    \A s \in pending : /\ \A a \in active : a.val <= s.val
                       /\ \A p \in Peer : last[p] <= s.val

\* A copy that is going to be published is not older than what was published last.
CopyNewer == \A a \in active : Seq(a.id) \notin seen[Dest(a.id)] => last[Dest(a.id)] <= a.val

Orderly == OneTransfer /\ OneSample /\ WaitingNewest /\ Sending /\ SampleNewest /\ CopyNewer

\* Handles are recorded with their sample, none before a copy was admitted, and while
\* one is in the executor's hand its destination has no other transfer.
Recorded ==
    /\ hand # NoHandle => \A a \in active : Dest(a.id) = Dest(hand) => a.id = hand
    /\ pc = "send" /\ ~work.any => \A s \in pending : s.seq = work.seq => Handles(s) = {}

OwnedInv == OneTransfer /\ Recorded /\ TransfersOwned

-----------------------------------------------------------------------------
(* Types                                                                    *)

\* The bounds are positive numbers.
LEMMA Bounds == /\ MaxValue \in Nat /\ MaxSeq \in Nat /\ MaxTries \in Nat /\ MaxAge \in Nat
                /\ MaxPending \in Nat /\ MaxPending > 0 /\ MaxSeq > 0 /\ MaxValue > 0
  BY BoundAssumption

LEMMA TypesImply == TypeInv => TypeOK
<1> SUFFICES ASSUME TypeInv PROVE TypeOK
  OBVIOUS
<1> USE Bounds DEF TypeInv, Table, Locals, Outside
<1>1. \A s \in pending :
          /\ s.seq \in 1..used /\ s.val \in 1..offered /\ s.wait \subseteq Peer
          /\ s.primary \in Handle \cup {NoHandle} /\ s.age \in 0..MaxAge
          /\ \A p \in Peer : /\ s.xfer[p] \in Handle \cup {NoHandle}
                             /\ s.tries[p] \in 0..MaxTries
          /\ s.channel \in {"blocked", "free"}
  BY DEF Sample, SeqNo, Value
<1>2. latest \in Value \cup {NoValue}
  BY DEF Value, NoValue
<1>3. seen \in [Peer -> SUBSET SeqNo]
  BY DEF SeqNo
<1> QED BY <1>1, <1>2, <1>3 DEF TypeOK

\* The image of a finite set is finite, and not larger.
LEMMA ImageFinite ==
    ASSUME NEW S, IsFiniteSet(S), NEW f
    PROVE  LET T == {f[x] : x \in S} IN IsFiniteSet(T) /\ Cardinality(T) <= Cardinality(S)
<1> DEFINE T == {f[x] : x \in S}
           g == [x \in S |-> f[x]]
<1>1. g \in Surjection(S, T)
  BY DEF Surjection
<1> HIDE DEF T, g
<1>2. IsFiniteSet(T) /\ Cardinality(T) <= Cardinality(S)
  BY <1>1, FS_Surjection
<1> QED BY <1>2 DEF T

\* Steps that drop samples, and change others but not their numbers, keep the table.
LEMMA TableMapped ==
    ASSUME Table, used \in Nat, NEW S \in SUBSET pending, NEW f,
           \A s \in S : f[s] \in Sample /\ f[s].seq = s.seq /\ f[s].val <= offered',
           pending' = {f[s] : s \in S}, used' = used
    PROVE  Table'
<1>1. IsFiniteSet(S) /\ Cardinality(S) <= Cardinality(pending) /\ Cardinality(S) \in Nat
      /\ Cardinality(pending) \in Nat
  BY FS_Subset, FS_CardinalityType DEF Table
<1>2. IsFiniteSet(pending') /\ Cardinality(pending') <= Cardinality(S) /\ Cardinality(pending') \in Nat
  BY <1>1, ImageFinite, FS_CardinalityType
<1>3. Cardinality(pending') <= MaxPending
  BY <1>1, <1>2, Bounds DEF Table
<1>4. pending' \subseteq Sample
  OBVIOUS
<1>5. \A s \in pending' : s.seq <= used' /\ s.val <= offered'
  BY DEF Table
<1>6. \A s, r \in pending' : s.seq = r.seq => s = r
  BY DEF Table
<1> QED BY <1>2, <1>3, <1>4, <1>5, <1>6 DEF Table

\* A set of numbers has a least one: intervals are finite, and the order of finite
\* sets is well founded.
LEMMA Smallest == ASSUME NEW S \in SUBSET Nat, S # {} PROVE \E i \in S : \A j \in S : i <= j
<1> DEFINE Below == {0..i : i \in S}
           Order == StrictSubsetOrdering(Nat)
<1>1. Below \subseteq FiniteSubsetsOf(Nat) /\ Below # {}
  <2>1. ASSUME NEW i \in S PROVE 0..i \in FiniteSubsetsOf(Nat)
    <3>1. IsFiniteSet(0..i) /\ 0..i \subseteq Nat
      BY FS_Interval
    <3> QED BY <3>1 DEF FiniteSubsetsOf
  <2> QED BY <2>1
<1>2. \E T \in Below : \A U \in Below : ~ (<<U, T>> \in Order)
  <2> HIDE DEF Below, Order
  <2>1. IsWellFoundedOn(Order, FiniteSubsetsOf(Nat))
    BY FS_StrictSubsetOrderingWellFounded DEF Order
  <2> QED BY ONLY <1>1, <2>1, WFMin
<1>3. PICK i \in S : \A U \in Below : ~ (<<U, 0..i>> \in Order)
  BY <1>2
<1>4. ASSUME NEW j \in S, j < i PROVE FALSE
  <2>1. 0..j \subseteq 0..i /\ 0..j # 0..i
    <3>1. i \in 0..i /\ i \notin 0..j
      BY <1>4
    <3> QED BY <1>4, <3>1
  <2>2. <<0..j, 0..i>> \in Order
    BY <2>1 DEF StrictSubsetOrdering
  <2> QED BY <1>3, <2>2
<1> QED BY <1>4

\* A table that is not empty has an oldest sample.
LEMMA OldestThere == ASSUME Table, pending # {} PROVE Oldest # {} /\ Oldest \subseteq pending
<1> DEFINE Numbers == {s.seq : s \in pending}
<1>1. Numbers \in SUBSET Nat /\ Numbers # {}
  BY Bounds DEF Table, Sample, SeqNo
<1>2. PICK i \in Numbers : \A j \in Numbers : i <= j
  BY <1>1, Smallest
<1>3. PICK s \in pending : s.seq = i
  BY <1>2
<1>4. s \in Oldest
  BY <1>2, <1>3 DEF Oldest
<1> QED BY <1>4 DEF Oldest

\* A new sample.
LEMMA NewFields ==
    ASSUME NEW q \in SeqNo, NEW v \in Value
    PROVE  /\ NewSample(q, v) \in Sample
           /\ NewSample(q, v).seq = q /\ NewSample(q, v).val = v
           /\ NewSample(q, v).channel = "blocked"
           /\ Handles(NewSample(q, v)) = {}
<1>1. /\ NewSample(q, v) \in Sample
      /\ NewSample(q, v).seq = q /\ NewSample(q, v).val = v
      /\ NewSample(q, v).channel = "blocked"
  BY Bounds DEF NewSample, Sample
<1>2. Handles(NewSample(q, v)) = {}
  BY DEF NewSample, Handles
<1> QED BY <1>1, <1>2

\* A new sample drops the oldest of a full table.
LEMMA TableBegins ==
    ASSUME Table, Locals, NEW v \in Value, v <= offered', Begin(v),
           offered <= offered', offered' \in Nat
    PROVE  Table'
<1> DEFINE evicted == IF Cardinality(pending) >= MaxPending THEN Oldest ELSE {}
           left == pending \ evicted
           s == NewSample(used + 1, v)
<1>1. used' = used + 1 /\ used + 1 \in SeqNo /\ pending' = left \cup {s}
  BY Bounds DEF Begin, Locals, SeqNo
<1>2. s \in Sample /\ s.seq = used + 1 /\ s.val = v
  BY <1>1, NewFields
<1> HIDE DEF s
<1>3. IsFiniteSet(left) /\ Cardinality(left) < MaxPending /\ Cardinality(left) \in Nat
  <2>0. Cardinality(pending) \in Nat /\ IsFiniteSet(pending)
    BY FS_CardinalityType DEF Table
  <2>1. CASE Cardinality(pending) >= MaxPending
    <3>1. pending # {}
      BY <2>0, <2>1, FS_EmptySet, Bounds
    <3>2. PICK o \in Oldest : o \in pending
      BY <3>1, OldestThere
    <3>3. /\ IsFiniteSet(pending \ {o}) /\ Cardinality(pending \ {o}) = Cardinality(pending) - 1
          /\ left \in SUBSET (pending \ {o})
      BY <2>0, <2>1, <3>2, FS_RemoveElement
    <3>4. IsFiniteSet(left) /\ Cardinality(left) <= Cardinality(pending) - 1
      BY <3>3, FS_Subset
    <3>5. Cardinality(left) \in Nat
      BY <3>4, FS_CardinalityType
    <3> QED BY <2>0, <3>4, <3>5, Bounds DEF Table
  <2>2. CASE ~(Cardinality(pending) >= MaxPending)
    <3>1. left = pending
      BY <2>2
    <3> QED BY <2>0, <2>2, <3>1, Bounds
  <2> QED BY <2>1, <2>2
<1>4. left \subseteq pending
  OBVIOUS
<1> HIDE DEF left
<1>5. IsFiniteSet(pending') /\ Cardinality(pending') <= MaxPending
  <2>1. /\ IsFiniteSet(left \cup {s})
        /\ Cardinality(left \cup {s}) \in {Cardinality(left), Cardinality(left) + 1}
    BY ONLY <1>3, FS_AddElement
  <2> QED BY ONLY <1>1, <1>3, <2>1, Bounds
<1>6. pending' \subseteq Sample
  BY <1>1, <1>2, <1>4 DEF Table
<1>7. \A r \in pending' : r.seq <= used' /\ r.val <= offered'
  <2> SUFFICES ASSUME NEW r \in pending' PROVE r.seq <= used' /\ r.val <= offered'
    OBVIOUS
  <2>1. CASE r = s
    BY <1>1, <1>2, <2>1 DEF Locals
  <2>2. CASE r \in left
    <3>1. r \in Sample /\ r.seq <= used /\ r.val <= offered
      BY <1>4, <2>2 DEF Table
    <3>2. r.seq \in Nat /\ r.val \in Nat
      BY <3>1, Bounds DEF Sample, SeqNo, Value
    <3> QED BY <1>1, <3>1, <3>2 DEF Locals
  <2> QED BY <1>1, <2>1, <2>2
<1>8. \A r, t \in pending' : r.seq = t.seq => r = t
  <2>1. \A r \in left : r.seq # s.seq
    <3> SUFFICES ASSUME NEW r \in left PROVE r.seq # s.seq
      OBVIOUS
    <3>1. r \in Sample /\ r.seq <= used
      BY <1>4 DEF Table
    <3>2. r.seq \in Nat
      BY <3>1, Bounds DEF Sample, SeqNo
    <3> QED BY <1>2, <3>1, <3>2 DEF Locals
  <2> QED BY <1>1, <1>4, <2>1 DEF Table
<1> QED BY <1>5, <1>6, <1>7, <1>8 DEF Table

\* How the steps that keep a sample change it.
Remembering(s) ==
    IF s.seq # Seq(hand) THEN s
    ELSE IF Dest(hand) \in s.wait
    THEN [s EXCEPT !.xfer[Dest(hand)] = hand, !.channel = "blocked"]
    ELSE [s EXCEPT !.primary = hand]

Refusing(item, s) ==
    IF NativeBusy(item[2]) /\ s.seq = item[1] /\ item[2] \in s.wait /\ s.tries[item[2]] > 0
    THEN [s EXCEPT !.tries[item[2]] = @ - 1] ELSE s

Checking(checked, s) ==
    IF s \in checked /\ \E p \in s.wait : s.xfer[p] # NoHandle /\ \A a \in active : a.id # s.xfer[p]
    THEN [s EXCEPT !.xfer = [p \in Peer |-> NoHandle], !.channel = "free"]
    ELSE s

Losing(a) == IF a.id = hand THEN [a EXCEPT !.orphan = TRUE] ELSE a

Answering(r, s) ==
    IF s.seq = r[2] /\ r[1] \in s.wait
    THEN [Without(s, r[1]) EXCEPT !.wait = @ \ {r[1]}] ELSE s

LEMMA Handles3 == ASSUME NEW h \in Handle
                  PROVE  Seq(h) \in SeqNo /\ Dest(h) \in Peer /\ h # NoHandle
  BY DEF Handle, Seq, Dest, NoHandle

\* They keep its number, and the samples are samples.
LEMMA RememberingKeeps ==
    ASSUME NEW s \in Sample, hand \in Handle
    PROVE  LET t == Remembering(s) IN
           /\ t \in Sample /\ t.seq = s.seq /\ t.val = s.val /\ t.wait = s.wait
           /\ t.channel \in {s.channel, "blocked"}
<1> DEFINE d == Dest(hand)
<1>1. d \in Peer
  BY Handles3
<1> HIDE DEF d
<1>2. CASE s.seq = Seq(hand) /\ d \in s.wait
  <2>1. Remembering(s) = [s EXCEPT !.xfer[d] = hand, !.channel = "blocked"]
    BY <1>2 DEF Remembering, d
  <2>2. s.xfer \in [Peer -> Handle \cup {NoHandle}]
    BY DEF Sample
  <2>3. [s.xfer EXCEPT ![d] = hand] \in [Peer -> Handle \cup {NoHandle}]
    BY <2>2
  <2> QED BY <2>1, <2>3 DEF Sample
<1>3. CASE s.seq = Seq(hand) /\ d \notin s.wait
  <2>1. Remembering(s) = [s EXCEPT !.primary = hand]
    BY <1>3 DEF Remembering, d
  <2> QED BY <2>1 DEF Sample
<1>4. CASE s.seq # Seq(hand)
  BY <1>4 DEF Remembering
<1> QED BY <1>2, <1>3, <1>4

LEMMA RefusingKeeps ==
    ASSUME NEW s \in Sample, NEW item \in SeqNo \X Peer
    PROVE  LET t == Refusing(item, s) IN
           /\ t \in Sample /\ t.seq = s.seq /\ t.val = s.val /\ t.channel = s.channel
           /\ t.wait = s.wait /\ t.xfer = s.xfer /\ t.primary = s.primary
<1> DEFINE p == item[2]
<1>1. p \in Peer /\ s.tries \in [Peer -> 0..MaxTries]
  BY DEF Sample
<1> HIDE DEF p
<1>2. CASE s.tries[p] > 0
  <2>1. [s.tries EXCEPT ![p] = @ - 1] \in [Peer -> 0..MaxTries]
    BY <1>1, <1>2, Bounds
  <2> QED BY <2>1 DEF Refusing, Sample, p
<1>3. CASE ~(s.tries[p] > 0)
  BY <1>3 DEF Refusing, p
<1> QED BY <1>2, <1>3

LEMMA TickedKeeps ==
    ASSUME NEW s \in Sample, NEW repairs, latest \in 0..offered, offered \in 0..MaxValue,
           \A p \in Peer : <<s.seq, p>> \in repairs => CanRepair(s, p)
    PROVE  LET t == Ticked(repairs, s) IN
           /\ t \in Sample /\ t.seq = s.seq /\ t.channel = s.channel
           /\ t.wait = s.wait /\ t.xfer = s.xfer /\ t.primary = s.primary
           /\ t.val = IF (\A r \in Kept : s.seq <= r.seq) /\ latest # NoValue THEN latest ELSE s.val
<1> DEFINE tried == [p \in Peer |-> IF <<s.seq, p>> \in repairs THEN s.tries[p] + 1 ELSE s.tries[p]]
           older == IF s.age < MaxAge THEN s.age + 1 ELSE s.age
           v == IF (\A r \in Kept : s.seq <= r.seq) /\ latest # NoValue THEN latest ELSE s.val
<1>1. tried \in [Peer -> 0..MaxTries]
  <2> SUFFICES ASSUME NEW p \in Peer
               PROVE  (IF <<s.seq, p>> \in repairs THEN s.tries[p] + 1 ELSE s.tries[p]) \in 0..MaxTries
    OBVIOUS
  <2>1. s.tries[p] \in 0..MaxTries
    BY DEF Sample
  <2>2. <<s.seq, p>> \in repairs => s.tries[p] < MaxTries
    BY DEF CanRepair
  <2> QED BY <2>1, <2>2, Bounds
<1>2. older \in 0..MaxAge
  BY Bounds DEF Sample
<1>3. v \in Value
  BY Bounds DEF Sample, Value, NoValue
<1>4. Ticked(repairs, s) = [s EXCEPT !.age = older, !.val = v, !.tries = tried]
  BY DEF Ticked, Sample
<1> HIDE DEF tried, older, v
<1>5. LET t == Ticked(repairs, s) IN
      /\ t \in Sample /\ t.seq = s.seq /\ t.channel = s.channel
      /\ t.wait = s.wait /\ t.xfer = s.xfer /\ t.primary = s.primary /\ t.val = v
  BY <1>1, <1>2, <1>3, <1>4 DEF Sample
<1> QED BY <1>5 DEF v

LEMMA CheckingKeeps ==
    ASSUME NEW s \in Sample, NEW checked
    PROVE  LET t == Checking(checked, s) IN
           /\ t \in Sample /\ t.seq = s.seq /\ t.val = s.val
           /\ t.wait = s.wait /\ t.primary = s.primary
           /\ s \notin checked => t = s
<1>1. [p \in Peer |-> NoHandle] \in [Peer -> Handle \cup {NoHandle}]
  OBVIOUS
<1> QED BY <1>1 DEF Checking, Sample

LEMMA LosingKeeps ==
    ASSUME NEW a \in Transfer
    PROVE  /\ Losing(a) \in Transfer
           /\ Losing(a).id = a.id /\ Losing(a).val = a.val /\ Losing(a).arrived = a.arrived
           /\ a.orphan \/ a.id = hand => Losing(a).orphan
  BY DEF Losing, Transfer

LEMMA AnsweringKeeps ==
    ASSUME NEW s \in Sample, NEW r \in Peer \X SeqNo
    PROVE  LET t == Answering(r, s) IN
           /\ t \in Sample /\ t.seq = s.seq /\ t.val = s.val /\ t.channel = s.channel
           /\ t.primary = s.primary
           /\ IF s.seq = r[2] /\ r[1] \in s.wait
              THEN t.wait = s.wait \ {r[1]} /\ t.xfer = [s.xfer EXCEPT ![r[1]] = NoHandle]
              ELSE t = s
<1>1. r[1] \in Peer /\ s.xfer \in [Peer -> Handle \cup {NoHandle}]
  BY DEF Sample
<1>2. CASE s.seq = r[2] /\ r[1] \in s.wait
  <2> DEFINE x == [s.xfer EXCEPT ![r[1]] = NoHandle]
             w == s.wait \ {r[1]}
  <2>1. x \in [Peer -> Handle \cup {NoHandle}] /\ w \in SUBSET Peer
    BY <1>1 DEF Sample
  <2>2. Answering(r, s) = [s EXCEPT !.xfer = x, !.wait = w]
    BY <1>2 DEF Answering, Without, Sample
  <2> HIDE DEF x, w
  <2>3. LET t == Answering(r, s) IN
           /\ t \in Sample /\ t.seq = s.seq /\ t.val = s.val /\ t.channel = s.channel
           /\ t.primary = s.primary /\ t.wait = w /\ t.xfer = x
    BY <2>1, <2>2 DEF Sample
  <2> QED BY <1>2, <2>3 DEF x, w
<1>3. CASE ~(s.seq = r[2] /\ r[1] \in s.wait)
  BY <1>3 DEF Answering
<1> QED BY <1>2, <1>3

\* What the steps do to the table.
LEMMA RememberTable ==
    ASSUME Table, Remember
    PROVE  /\ pending' = {Remembering(s) : s \in pending}
           /\ cancels' = cancels \cup
                (IF \E s \in pending : s.seq = Seq(hand) THEN {} ELSE {hand})
<1> DEFINE waiting == {s \in pending : s.seq = Seq(hand)}
<1>1. CASE waiting = {}
  <2>1. pending' = pending /\ cancels' = cancels \cup {hand}
    BY <1>1 DEF Remember
  <2>2. \A s \in pending : Remembering(s) = s
    BY <1>1 DEF Remembering
  <2> QED BY <1>1, <2>1, <2>2
<1>2. CASE waiting # {}
  <2>1. PICK s \in waiting :
           pending' = Replace(s, IF Dest(hand) \in s.wait
                    THEN [s EXCEPT !.xfer[Dest(hand)] = hand, !.channel = "blocked"]
                    ELSE [s EXCEPT !.primary = hand])
    BY <1>2 DEF Remember
  <2>2. cancels' = cancels
    BY <1>2 DEF Remember
  <2>3. pending' = (pending \ {s}) \cup {Remembering(s)}
    BY <2>1 DEF Replace, Remembering
  <2>4. \A r \in pending \ {s} : Remembering(r) = r
    BY <2>1 DEF Table, Remembering
  <2> QED BY <2>1, <2>2, <2>3, <2>4
<1> QED BY <1>1, <1>2

LEMMA RefuseTable ==
    ASSUME NEW item, Refuse(item)
    PROVE  pending' = {Refusing(item, s) : s \in pending}
<1>1. CASE NativeBusy(item[2])
  BY <1>1 DEF Refuse, Refusing
<1>2. CASE ~NativeBusy(item[2])
  <2>1. pending' = pending
    BY <1>2 DEF Refuse
  <2> QED BY <1>2, <2>1 DEF Refusing
<1> QED BY <1>1, <1>2

LEMMA CheckTable ==
    ASSUME Check
    PROVE  \E checked \in SUBSET {s \in pending : Single} :
              pending' = {Checking(checked, s) : s \in pending}
<1>1. PICK checked \in SUBSET {s \in pending : Single} :
          pending' = (pending \ checked) \cup
             {IF \E p \in s.wait : /\ s.xfer[p] # NoHandle
                                   /\ \A a \in active : a.id # s.xfer[p]
              THEN [s EXCEPT !.xfer = [p \in Peer |-> NoHandle], !.channel = "free"]
              ELSE s : s \in checked}
  BY DEF Check
<1>2. pending' = (pending \ checked) \cup {Checking(checked, s) : s \in checked}
  BY <1>1 DEF Checking
<1>3. \A s \in pending \ checked : Checking(checked, s) = s
  BY DEF Checking
<1>4. pending' = {Checking(checked, s) : s \in pending}
  BY <1>2, <1>3
<1> QED BY <1>4

LEMMA AnswerTable ==
    ASSUME NEW r \in receipts, GetReceipt(r)
    PROVE  pending' = {Answering(r, s) : s \in pending}
<1> DEFINE answered == {s \in pending : s.seq = r[2] /\ r[1] \in s.wait}
<1>1. pending' = (pending \ answered) \cup {Answering(r, s) : s \in answered}
  BY DEF GetReceipt, Answering
<1>2. \A s \in pending \ answered : Answering(r, s) = s
  BY DEF Answering
<1> QED BY <1>1, <1>2

LEMMA IdleWork == Idle \in Work /\ Idle.val = NoValue
  BY DEF Idle, Work, NoValue

LEMMA TypeInit == Init => TypeInv
<1> SUFFICES ASSUME Init PROVE TypeInv
  OBVIOUS
<1>1. Table
  BY FS_EmptySet, Bounds DEF Init, Table
<1>2. Locals
  BY IdleWork, Bounds DEF Init, Locals, NoValue
<1>3. Outside
  BY DEF Init, Outside, NoValue
<1> QED BY <1>1, <1>2, <1>3 DEF TypeInv

\* Handles of samples are handles.
LEMMA HandlesType == ASSUME NEW s \in Sample PROVE Handles(s) \subseteq Handle
  BY DEF Handles, Sample

\* A sample begins.
LEMMA BeginTypes ==
    ASSUME TypeInv, NEW v \in Value, v <= offered', Begin(v),
           offered <= offered', offered' \in 0..MaxValue
    PROVE  /\ Table'
           /\ used' = used + 1 /\ used' \in 0..MaxSeq
           /\ pc' = "send" /\ work' \in Work /\ work'.val = v
           /\ cancels' \subseteq Handle
<1>1. Table'
  BY TableBegins, Bounds DEF TypeInv
<1>2. used' = used + 1 /\ used' \in 0..MaxSeq /\ pc' = "send" /\ used + 1 \in SeqNo
  BY Bounds DEF Begin, TypeInv, Locals, SeqNo
<1>3. work' = [seq |-> used + 1, val |-> v, left |-> {used + 1} \X Peer, any |-> FALSE]
  BY DEF Begin
<1>4. {used + 1} \X Peer \in SUBSET (SeqNo \X Peer)
  BY <1>2
<1>5. work' \in Work /\ work'.val = v
  BY <1>2, <1>3, <1>4 DEF Work
<1>6. cancels' \subseteq Handle
  <2>1. \A s \in Oldest : Handles(s) \subseteq Handle
    BY HandlesType DEF Oldest, TypeInv, Table
  <2> QED BY <2>1 DEF Begin, TypeInv, Locals
<1> QED BY <1>1, <1>2, <1>5, <1>6

\* Values and numbers only grow.
LEMMA OutsideGrows ==
    ASSUME TypeInv, UNCHANGED <<active, receipts, seen, last>>,
           offered <= offered', offered' \in Nat, used <= used', used' \in Nat
    PROVE  Outside'
<1>1. offered \in Nat /\ used \in Nat
  BY Bounds DEF TypeInv, Locals
<1>2. \A a \in active : a.val \in Nat /\ Seq(a.id) \in Nat
  BY Handles3, Bounds DEF TypeInv, Outside, Transfer, Value, SeqNo
<1>3. \A a \in active' : a.val <= offered' /\ Seq(a.id) <= used'
  BY <1>1, <1>2 DEF TypeInv, Outside
<1>4. 1..used \subseteq 1..used' /\ 0..offered \subseteq 0..offered'
  BY <1>1
<1>5. seen' \in [Peer -> SUBSET (1..used')] /\ last' \in [Peer -> 0..offered']
  BY <1>4 DEF TypeInv, Outside
<1> QED BY <1>3, <1>5 DEF TypeInv, Outside

\* What the executor thread does.
LEMMA OfferTypes == ASSUME TypeInv, Offer PROVE TypeInv'
<1>1. offered' = offered + 1 /\ offered' \in 0..MaxValue /\ offered + 1 \in Value /\ offered \in Nat
      /\ hand' = hand /\ used \in Nat
  BY Bounds DEF Offer, TypeInv, Locals, Value
<1>2. CASE latest' = offered + 1 /\ UNCHANGED <<pending, used, pc, work, cancels>>
  <2>1. Table'
    <3>1. \A s \in pending : s.val <= offered'
      BY <1>1, Bounds DEF TypeInv, Table, Sample, Value
    <3> QED BY <1>2, <3>1 DEF TypeInv, Table
  <2>2. Locals'
    <3>1. work.val \in Nat
      BY Bounds DEF TypeInv, Locals, Work, Value, NoValue
    <3> QED BY <1>1, <1>2, <3>1 DEF TypeInv, Locals
  <2>3. Outside'
    BY <1>1, <1>2, OutsideGrows DEF Offer
  <2> QED BY <2>1, <2>2, <2>3 DEF TypeInv
<1>3. CASE latest' = NoValue /\ Begin(offered + 1)
  <2>1. /\ Table'
        /\ used' = used + 1 /\ used' \in 0..MaxSeq
        /\ pc' = "send" /\ work' \in Work /\ work'.val = offered + 1
        /\ cancels' \subseteq Handle
    BY <1>1, <1>3, BeginTypes
  <2>2. Locals'
    BY <1>1, <1>3, <2>1 DEF TypeInv, Locals, NoValue
  <2>3. Outside'
    BY <1>1, <2>1, OutsideGrows, Bounds DEF Offer
  <2> QED BY <2>1, <2>2, <2>3 DEF TypeInv
<1> QED BY <1>2, <1>3 DEF Offer

LEMMA SubmitTypes == ASSUME TypeInv, NEW item \in work.left, Submit(item) PROVE TypeInv'
<1>1. item \in SeqNo \X Peer
  BY DEF TypeInv, Locals, Work
<1>2. PICK s \in pending :
          /\ s.seq = item[1]
          /\ hand' = <<item[1], item[2], s.tries[item[2]]>>
          /\ active' = active \cup {[id |-> hand', val |-> s.val, arrived |-> FALSE, orphan |-> FALSE]}
  BY DEF Submit
<1>3. s \in Sample /\ s.seq <= used /\ s.val <= offered
  BY DEF TypeInv, Table
<1>4. s.tries[item[2]] \in 0..MaxTries
  BY <1>1, <1>3 DEF Sample
<1>5. hand' \in Handle /\ Seq(hand') = s.seq
  BY <1>1, <1>2, <1>4 DEF Handle, Seq
<1> DEFINE a == [id |-> hand', val |-> s.val, arrived |-> FALSE, orphan |-> FALSE]
<1>6. a \in Transfer /\ a.val = s.val /\ a.id = hand'
  BY <1>3, <1>5 DEF Transfer, Sample
<1>7. active' = active \cup {a}
  BY <1>2
<1> HIDE DEF a
<1>8. Outside'
  BY <1>3, <1>5, <1>6, <1>7 DEF TypeInv, Outside, Submit
<1>9. Locals'
  BY <1>5 DEF TypeInv, Locals, Submit
<1> QED BY <1>8, <1>9 DEF TypeInv, Table, Submit

\* A step that rewrites samples, and leaves counters and the network alone.
LEMMA RewriteTypes ==
    ASSUME TypeInv, NEW S \in SUBSET pending, NEW f,
           \A s \in S : f[s] \in Sample /\ f[s].seq = s.seq /\ f[s].val <= offered,
           pending' = {f[s] : s \in S}, UNCHANGED <<offered, used>>
    PROVE  Table'
<1>1. used \in Nat
  BY Bounds DEF TypeInv, Locals
<1> QED BY <1>1, TableMapped DEF TypeInv

LEMMA RememberTypes == ASSUME TypeInv, Remember PROVE TypeInv'
<1> DEFINE f == [s \in pending |-> Remembering(s)]
<1>1. hand \in Handle /\ hand # NoHandle
  BY DEF Remember, TypeInv, Locals
<1>2. pending' = {Remembering(s) : s \in pending}
      /\ cancels' \in {cancels, cancels \cup {hand}}
  BY RememberTable DEF TypeInv
<1>3. \A s \in pending : f[s] \in Sample /\ f[s].seq = s.seq /\ f[s].val <= offered
  BY <1>1, RememberingKeeps DEF TypeInv, Table
<1>4. pending' = {f[s] : s \in pending}
  BY <1>2
<1> HIDE DEF f
<1>5. Table'
  BY <1>3, <1>4, RewriteTypes DEF Remember
<1>6. work' \in Work /\ work'.val = work.val
  <2>1. work' = [work EXCEPT !.left = work.left \ {<<Seq(hand), Dest(hand)>>}, !.any = TRUE]
    BY DEF Remember
  <2> QED BY <2>1 DEF TypeInv, Locals, Work
<1>7. Locals'
  BY <1>1, <1>2, <1>6 DEF TypeInv, Locals, Remember
<1>8. Outside'
  BY DEF TypeInv, Outside, Remember
<1> QED BY <1>5, <1>7, <1>8 DEF TypeInv

LEMMA LoseReplyTypes == ASSUME TypeInv, LoseReply PROVE TypeInv'
<1>1. active' = {Losing(a) : a \in active}
  BY DEF LoseReply, Losing
<1>2. \A a \in active : /\ Losing(a) \in Transfer
                         /\ Losing(a).val <= offered /\ Seq(Losing(a).id) <= used
  BY LosingKeeps DEF TypeInv, Outside
<1>3. \A b \in active' : b \in Transfer /\ b.val <= offered /\ Seq(b.id) <= used
  BY <1>1, <1>2
<1>4. Outside'
  BY <1>3 DEF TypeInv, Outside, LoseReply
<1>5. work' \in Work /\ work'.val = work.val
  <2>1. work' = [work EXCEPT !.left = work.left \ {<<Seq(hand), Dest(hand)>>}]
    BY DEF LoseReply
  <2> QED BY <2>1 DEF TypeInv, Locals, Work
<1>6. Locals' /\ Table'
  BY <1>5 DEF TypeInv, Locals, Table, LoseReply
<1> QED BY <1>4, <1>6 DEF TypeInv

LEMMA RefuseTypes == ASSUME TypeInv, NEW item \in work.left, Refuse(item) PROVE TypeInv'
<1> DEFINE f == [s \in pending |-> Refusing(item, s)]
<1>1. item \in SeqNo \X Peer
  BY DEF TypeInv, Locals, Work
<1>3. \A s \in pending : f[s] \in Sample /\ f[s].seq = s.seq /\ f[s].val <= offered
  BY <1>1, RefusingKeeps DEF TypeInv, Table
<1>4. pending' = {f[s] : s \in pending}
  BY RefuseTable
<1> HIDE DEF f
<1>5. Table'
  BY <1>3, <1>4, RewriteTypes DEF Refuse
<1>6. work' \in Work /\ work'.val = work.val
  BY DEF Refuse, TypeInv, Locals, Work
<1>7. Locals'
  BY <1>6 DEF TypeInv, Locals, Refuse
<1>8. Outside'
  BY DEF TypeInv, Outside, Refuse
<1> QED BY <1>5, <1>7, <1>8 DEF TypeInv

LEMMA EndSendTypes == ASSUME TypeInv, EndSend PROVE TypeInv'
<1> DEFINE S == IF work.any THEN pending ELSE {s \in pending : s.seq # work.seq}
           f == [s \in S |-> s]
<1>1. S \in SUBSET pending /\ pending' = {f[s] : s \in S}
  BY DEF EndSend
<1>2. \A s \in S : f[s] \in Sample /\ f[s].seq = s.seq /\ f[s].val <= offered
  BY DEF TypeInv, Table
<1> HIDE DEF S, f
<1>3. Table'
  BY <1>1, <1>2, RewriteTypes DEF EndSend
<1>4. latest' \in 0..offered
  BY Bounds DEF EndSend, TypeInv, Locals, Work, Value, NoValue
<1>5. Locals'
  BY <1>4, IdleWork, Bounds DEF EndSend, TypeInv, Locals, NoValue
<1> QED BY <1>3, <1>5 DEF TypeInv, Outside, EndSend

LEMMA TickTypes == ASSUME TypeInv, Tick PROVE TypeInv'
<1>1. PICK repairs \in SUBSET Due :
          /\ \A s \in Kept, p \in Peer : <<s.seq, p>> \in repairs => CanRepair(s, p)
          /\ pending' = {Ticked(repairs, s) : s \in Kept}
          /\ work' = [Idle EXCEPT !.left = repairs, !.val = IF Kept = {} THEN latest ELSE NoValue]
  BY DEF Tick
<1>2. Kept \in SUBSET pending
  BY DEF Kept
<1> DEFINE f == [s \in Kept |-> Ticked(repairs, s)]
<1>3. \A s \in Kept : f[s] \in Sample /\ f[s].seq = s.seq /\ f[s].val <= offered
  <2> SUFFICES ASSUME NEW s \in Kept
               PROVE  f[s] \in Sample /\ f[s].seq = s.seq /\ f[s].val <= offered
    OBVIOUS
  <2>1. s \in Sample /\ s.val <= offered
    BY <1>2 DEF TypeInv, Table
  <2>2. \A p \in Peer : <<s.seq, p>> \in repairs => CanRepair(s, p)
    BY <1>1
  <2>3. latest \in 0..offered /\ offered \in 0..MaxValue /\ latest <= offered
    BY Bounds DEF TypeInv, Locals
  <2> QED BY <2>1, <2>2, <2>3, TickedKeeps
<1>4. pending' = {f[s] : s \in Kept}
  BY <1>1
<1> HIDE DEF f
<1>5. Table'
  BY <1>2, <1>3, <1>4, RewriteTypes DEF Tick
<1>6. repairs \in SUBSET (SeqNo \X Peer)
  <2>1. \A s \in Kept : s.seq \in SeqNo
    BY <1>2 DEF TypeInv, Table, Sample
  <2>2. Due \subseteq SeqNo \X Peer
    BY <2>1 DEF Due
  <2> QED BY <2>2
<1>7. work' \in Work /\ work'.val \in {latest, NoValue}
  <2> DEFINE v == IF Kept = {} THEN latest ELSE NoValue
  <2>1. v \in Value \cup {NoValue} /\ v \in {latest, NoValue}
    BY Bounds DEF TypeInv, Locals, Value, NoValue
  <2> HIDE DEF v
  <2>2. work' = [seq |-> 0, val |-> v, left |-> repairs, any |-> FALSE]
    BY <1>1 DEF Idle, v
  <2> QED BY <1>6, <2>1, <2>2 DEF Work
<1>8. cancels' \subseteq Handle
  <2>1. \A s \in pending : Handles(s) \subseteq Handle
    BY HandlesType DEF TypeInv, Table
  <2> QED BY <2>1 DEF Tick, TypeInv, Locals
<1>9. Locals'
  BY <1>7, <1>8, Bounds DEF Tick, TypeInv, Locals, NoValue
<1> QED BY <1>5, <1>9 DEF TypeInv, Outside, Tick

LEMMA CheckTypes == ASSUME TypeInv, Check PROVE TypeInv'
<1>1. PICK checked : pending' = {Checking(checked, s) : s \in pending}
  BY CheckTable
<1> DEFINE f == [s \in pending |-> Checking(checked, s)]
<1>2. \A s \in pending : f[s] \in Sample /\ f[s].seq = s.seq /\ f[s].val <= offered
  BY CheckingKeeps DEF TypeInv, Table
<1>3. pending' = {f[s] : s \in pending}
  BY <1>1
<1> HIDE DEF f
<1>4. Table'
  BY <1>2, <1>3, RewriteTypes DEF Check
<1>5. cancels' \subseteq Handle /\ active' \subseteq active
  BY DEF Check, TypeInv, Locals
<1>6. Locals'
  BY <1>5 DEF Check, TypeInv, Locals
<1>7. Outside'
  BY <1>5 DEF Check, TypeInv, Outside
<1> QED BY <1>4, <1>6, <1>7 DEF TypeInv

LEMMA ResumeTypes == ASSUME TypeInv, Resume PROVE TypeInv'
<1>1. work.val \in 0..offered /\ offered \in 0..MaxValue /\ offered \in Nat
  BY Bounds DEF TypeInv, Locals, Work, Value, NoValue
<1>2. CASE pc' = "idle" /\ work' = Idle /\ latest' = work.val /\ UNCHANGED <<pending, used, cancels>>
  <2>1. Locals'
    BY <1>1, <1>2, IdleWork DEF TypeInv, Locals, Resume, NoValue
  <2> QED BY <1>2, <2>1 DEF TypeInv, Table, Outside, Resume
<1>3. CASE work.val # NoValue /\ Begin(work.val) /\ UNCHANGED latest
  <2>0. work.val \in Value /\ work.val <= offered' /\ offered' = offered
    BY <1>1, <1>3 DEF Resume, TypeInv, Locals, Work
  <2>1. /\ Table'
        /\ used' = used + 1 /\ used' \in 0..MaxSeq
        /\ pc' = "send" /\ work' \in Work /\ work'.val = work.val
        /\ cancels' \subseteq Handle
    BY <1>1, <1>3, <2>0, BeginTypes
  <2>2. Locals'
    BY <1>1, <1>3, <2>0, <2>1 DEF TypeInv, Locals, Resume
  <2>3. used \in Nat /\ used' \in Nat /\ used <= used'
    BY <2>1, Bounds DEF TypeInv, Locals
  <2>4. Outside'
    BY <1>1, <2>0, <2>3, OutsideGrows DEF Resume
  <2> QED BY <2>1, <2>2, <2>4 DEF TypeInv
<1> QED BY <1>2, <1>3 DEF Resume

\* The D-Bus thread, the daemon and the receivers.
LEMMA ResetTypes == ASSUME TypeInv, Reset PROVE TypeInv'
<1>1. Table'
  BY FS_EmptySet, Bounds DEF Reset, Table
<1>2. Locals' /\ Outside'
  BY DEF Reset, TypeInv, Locals, Outside
<1> QED BY <1>1, <1>2 DEF TypeInv

LEMMA ArriveTypes == ASSUME TypeInv, NEW a \in active, Arrive(a) PROVE TypeInv'
<1> DEFINE p == Dest(a.id)
           q == Seq(a.id)
           b == [a EXCEPT !.arrived = TRUE]
<1>1. p \in Peer /\ q \in SeqNo /\ q \in 1..used /\ a.val \in 0..offered
  BY Handles3, Bounds DEF TypeInv, Outside, Transfer, SeqNo, Value, Locals
<1>2. b \in Transfer /\ b.val = a.val /\ b.id = a.id
  BY DEF TypeInv, Outside, Transfer
<1>3. active' = (active \ {a}) \cup {b} /\ UNCHANGED senderVars
  BY DEF Arrive
<1>4. \/ UNCHANGED <<seen, last>>
      \/ /\ seen' = [seen EXCEPT ![p] = @ \cup {q}]
         /\ last' = [last EXCEPT ![p] = a.val]
  BY DEF Arrive
<1>5. receipts' = receipts \cup {<<p, q>>}
  BY DEF Arrive
<1> HIDE DEF p, q, b
<1>6. seen' \in [Peer -> SUBSET (1..used)] /\ last' \in [Peer -> 0..offered]
  BY <1>1, <1>4 DEF TypeInv, Outside
<1>7. \A c \in active' : c \in Transfer /\ c.val <= offered /\ Seq(c.id) <= used
  BY <1>2, <1>3 DEF TypeInv, Outside
<1>8. receipts' \subseteq Peer \X SeqNo
  BY <1>1, <1>5 DEF TypeInv, Outside
<1>9. Table' /\ Locals'
  BY <1>3 DEF senderVars, TypeInv, Table, Locals
<1> QED BY <1>3, <1>6, <1>7, <1>8, <1>9 DEF senderVars, TypeInv, Outside

LEMMA GetReceiptTypes == ASSUME TypeInv, NEW r \in receipts, GetReceipt(r) PROVE TypeInv'
<1> DEFINE f == [s \in pending |-> Answering(r, s)]
<1>1. r \in Peer \X SeqNo
  BY DEF TypeInv, Outside
<1>2. \A s \in pending : f[s] \in Sample /\ f[s].seq = s.seq /\ f[s].val <= offered
  BY <1>1, AnsweringKeeps DEF TypeInv, Table
<1>3. pending' = {f[s] : s \in pending}
  BY AnswerTable
<1> HIDE DEF f
<1>4. Table'
  BY <1>2, <1>3, RewriteTypes DEF GetReceipt
<1>5. cancels' \subseteq Handle
  <2>1. \A s \in pending : s.xfer[r[1]] \in Handle \cup {NoHandle}
    BY <1>1 DEF TypeInv, Table, Sample
  <2> QED BY <2>1 DEF GetReceipt, TypeInv, Locals
<1>6. Locals'
  BY <1>5 DEF GetReceipt, TypeInv, Locals
<1>7. Outside'
  BY DEF GetReceipt, TypeInv, Outside
<1> QED BY <1>4, <1>6, <1>7 DEF TypeInv

LEMMA OtherTypes ==
    ASSUME TypeInv,
           \/ \E s \in pending, p \in Peer : Query(s, p)
           \/ \E a \in active : Complete(a)
           \/ \E r \in receipts : LoseReceipt(r)
           \/ \E p \in Peer : RestartPeer(p)
           \/ UNCHANGED vars
    PROVE  TypeInv'
<1>1. ASSUME NEW s \in pending, NEW p \in Peer, Query(s, p) PROVE TypeInv'
  <2>1. <<p, s.seq>> \in Peer \X SeqNo
    BY DEF TypeInv, Table, Sample
  <2> QED BY <1>1, <2>1 DEF Query, senderVars, TypeInv, Table, Locals, Outside
<1>2. ASSUME NEW a \in active, Complete(a) PROVE TypeInv'
  BY <1>2 DEF Complete, senderVars, TypeInv, Table, Locals, Outside
<1>3. ASSUME NEW r \in receipts, LoseReceipt(r) PROVE TypeInv'
  BY <1>3 DEF LoseReceipt, senderVars, TypeInv, Table, Locals, Outside
<1>4. ASSUME NEW p \in Peer, RestartPeer(p) PROVE TypeInv'
  <2>1. seen' \in [Peer -> SUBSET (1..used)] /\ last' \in [Peer -> 0..offered]
    BY <1>4, Bounds DEF RestartPeer, TypeInv, Outside, Locals, NoValue
  <2> QED BY <1>4, <2>1 DEF RestartPeer, senderVars, TypeInv, Table, Locals, Outside
<1>5. ASSUME UNCHANGED vars PROVE TypeInv'
  BY <1>5 DEF vars, TypeInv, Table, Locals, Outside
<1> QED BY <1>1, <1>2, <1>3, <1>4, <1>5

LEMMA TypeNext == TypeInv /\ [Next]_vars => TypeInv'
  BY OfferTypes, SubmitTypes, RememberTypes, LoseReplyTypes, RefuseTypes, EndSendTypes, TickTypes, CheckTypes,
     ResumeTypes, ResetTypes, ArriveTypes, GetReceiptTypes, OtherTypes DEF Next, Executor

LEMMA TypeAlways == Spec => []TypeInv
  BY TypeInit, TypeNext, PTL DEF Spec

\* Every reachable state of the sender's table and locals, of the transfers, the receipts
\* and the receivers is well formed; the table never exceeds its limit, and a number
\* names one sample (service_node_mesh.cpp:575-608, 760-770).
THEOREM ReliableTypes == Spec => []TypeOK
  BY TypesImply, TypeAlways, PTL

-----------------------------------------------------------------------------
(* One receiver: every transfer can be cancelled                            *)

LEMMA OwnedBy == ASSUME NEW h
                 PROVE  h \in Owned <=> \/ \E s \in pending : h \in Handles(s)
                                        \/ h \in cancels
                                        \/ h = hand /\ hand # NoHandle
<1> DEFINE U == UNION {Handles(s) : s \in pending}
<1>1. h \in U <=> \E s \in pending : h \in Handles(s)
  BY Zenon
<1>2. Owned = U \cup cancels \cup ({hand} \ {NoHandle})
  BY Zenon DEF Owned
<1> HIDE DEF U
<1> QED BY <1>1, <1>2

LEMMA OwnedByNext == ASSUME NEW h
                     PROVE  h \in Owned' <=> \/ \E s \in pending' : h \in Handles(s)
                                             \/ h \in cancels'
                                             \/ h = hand' /\ hand' # NoHandle
<1> DEFINE U == UNION {Handles(s) : s \in pending}
<1>1. h \in U' <=> \E s \in pending' : h \in Handles(s)
  <2>1. U' = UNION {Handles(s) : s \in pending'}
    BY DEF Handles
  <2>2. h \in UNION {Handles(s) : s \in pending'} <=> \E s \in pending' : h \in Handles(s)
    BY Zenon
  <2> HIDE DEF U
  <2> QED BY <2>1, <2>2
<1>2. Owned' = U' \cup cancels' \cup ({hand'} \ {NoHandle})
  BY Zenon DEF Owned, NoHandle
<1> HIDE DEF U
<1> QED BY <1>1, <1>2

\* A destination takes one transfer at a time: the daemon refuses the next.
LEMMA OneTransferNext == TypeInv /\ OneTransfer /\ [Next]_vars => OneTransfer'
<1> SUFFICES ASSUME TypeInv, OneTransfer, [Next]_vars PROVE OneTransfer'
  OBVIOUS
<1>1. ASSUME active' \subseteq active PROVE OneTransfer'
  BY <1>1 DEF OneTransfer
<1>2. ASSUME NEW item \in work.left, Submit(item) PROVE OneTransfer'
  <2>1. PICK s \in pending :
          /\ hand' = <<item[1], item[2], s.tries[item[2]]>>
          /\ active' = active \cup {[id |-> hand', val |-> s.val, arrived |-> FALSE, orphan |-> FALSE]}
    BY <1>2 DEF Submit
  <2> DEFINE n == [id |-> hand', val |-> s.val, arrived |-> FALSE, orphan |-> FALSE]
  <2>2. \A a \in active : Dest(a.id) # item[2]
    BY <1>2 DEF Submit, NativeBusy
  <2>3. Dest(n.id) = item[2] /\ active' = active \cup {n}
    BY <2>1 DEF Dest
  <2> HIDE DEF n
  <2> QED BY <2>2, <2>3 DEF OneTransfer
<1>3. ASSUME NEW a \in active, Arrive(a) PROVE OneTransfer'
  <2> DEFINE b == [a EXCEPT !.arrived = TRUE]
  <2>1. b.id = a.id
    BY DEF TypeInv, Outside, Transfer
  <2>2. active' = (active \ {a}) \cup {b}
    BY <1>3 DEF Arrive
  <2> HIDE DEF b
  <2> QED BY <2>1, <2>2 DEF OneTransfer
<1>6. CASE LoseReply
  <2>1. active' = {Losing(a) : a \in active}
    BY <1>6 DEF LoseReply, Losing
  <2>2. \A a \in active : Losing(a).id = a.id
    BY LosingKeeps DEF TypeInv, Outside
  <2> QED BY <2>1, <2>2 DEF OneTransfer
<1>4. CASE Next
  <2>1. ASSUME Offer \/ Remember \/ EndSend \/ Tick \/ Check \/ Resume \/ Reset PROVE OneTransfer'
    <3>1. active' \subseteq active
      BY <2>1 DEF Offer, Remember, EndSend, Tick, Check, Resume, Reset
    <3> QED BY <3>1, <1>1
  <2>2. ASSUME NEW item \in work.left, Refuse(item) PROVE OneTransfer'
    BY <2>2, <1>1 DEF Refuse
  <2>3. ASSUME NEW s \in pending, NEW p \in Peer, Query(s, p) PROVE OneTransfer'
    BY <2>3, <1>1 DEF Query
  <2>4. ASSUME NEW a \in active, Complete(a) PROVE OneTransfer'
    BY <2>4, <1>1 DEF Complete
  <2>5. ASSUME NEW r \in receipts, GetReceipt(r) \/ LoseReceipt(r) PROVE OneTransfer'
    BY <2>5, <1>1 DEF GetReceipt, LoseReceipt
  <2>6. ASSUME NEW p \in Peer, RestartPeer(p) PROVE OneTransfer'
    BY <2>6, <1>1 DEF RestartPeer
  <2>7. CASE Executor
    BY <1>2, <1>6, <2>1, <2>2, <2>7 DEF Executor
  <2> QED BY <1>3, <1>4, <2>1, <2>3, <2>4, <2>5, <2>6, <2>7 DEF Next
<1>5. CASE UNCHANGED vars
  BY <1>5, <1>1 DEF vars
<1> QED BY <1>4, <1>5

\* A new sample records no transfer, and those of a sample that is dropped for it are
\* queued for cancellation.
LEMMA BeginOwned ==
    ASSUME TypeInv, NEW v \in Value, Begin(v), OwnedInv, hand' = hand, hand = NoHandle, active' = active
    PROVE  Recorded' /\ TransfersOwned'
<1> DEFINE evicted == IF Cardinality(pending) >= MaxPending THEN Oldest ELSE {}
<1>1. used + 1 \in SeqNo /\ \A s \in pending : s.seq # used + 1
  <2>1. used \in Nat /\ used + 1 \in SeqNo
    BY Bounds DEF Begin, SeqNo, TypeInv, Locals
  <2>2. \A s \in pending : s.seq \in Nat /\ s.seq <= used
    BY Bounds DEF TypeInv, Table, Sample, SeqNo
  <2> QED BY <2>1, <2>2
<1>2. /\ pending' = (pending \ evicted) \cup {NewSample(used + 1, v)}
      /\ cancels' = cancels \cup UNION {Handles(s) : s \in evicted}
      /\ evicted \subseteq pending
      /\ work'.seq = used + 1
  BY DEF Begin, Oldest
<1> HIDE DEF evicted
<1>3. Handles(NewSample(used + 1, v)) = {}
  BY <1>1, NewFields
<1>4. TransfersOwned'
  <2> SUFFICES ASSUME NEW a \in active', ~a.orphan PROVE a.id \in Owned'
    BY DEF TransfersOwned
  <2>1. a.id \in Owned
    BY DEF OwnedInv, TransfersOwned
  <2>2. \/ \E s \in pending : a.id \in Handles(s)
        \/ a.id \in cancels
    BY <2>1, OwnedBy
  <2>3. \/ \E s \in pending' : a.id \in Handles(s)
        \/ a.id \in cancels'
    BY <1>2, <2>2
  <2> QED BY <2>3, OwnedByNext
<1>5. \A s \in pending' : s.seq = used + 1 => Handles(s) = {}
  BY <1>1, <1>2, <1>3
<1>6. Recorded'
  BY <1>2, <1>5 DEF Recorded, Handles
<1> QED BY <1>4, <1>6

\* Each transfer is one that was carried before, and an orphan stays one.
Continued == \A b \in active' : \E a \in active : a.id = b.id /\ (a.orphan => b.orphan)

LEMMA ContinuedSubset == ASSUME active' \subseteq active PROVE Continued
  BY DEF Continued

\* A step that submits nothing, and keeps for each recorded handle a place where it is
\* recorded or makes it void, keeps the account of them.
LEMMA OwnedKept ==
    ASSUME OwnedInv, Continued,
           \A h \in {a.id : a \in active'} :
              (\E s \in pending : h \in Handles(s)) =>
                 (\E s \in pending' : h \in Handles(s)) \/ h \in cancels',
           \A h \in {a.id : a \in active'} : h \in cancels => h \in cancels',
           hand' = hand
    PROVE  TransfersOwned'
<1> SUFFICES ASSUME NEW a \in active', ~a.orphan PROVE a.id \in Owned'
  BY DEF TransfersOwned
<1>1. a.id \in Owned
  BY DEF OwnedInv, TransfersOwned, Continued
<1>2. \/ \E s \in pending : a.id \in Handles(s)
      \/ a.id \in cancels
      \/ a.id = hand /\ hand # NoHandle
  BY <1>1, OwnedBy
<1> QED BY <1>2, OwnedByNext

LEMMA HandlesAre == ASSUME NEW s, NEW h
                    PROVE  h \in Handles(s) <=> /\ h # NoHandle
                                                /\ h = s.primary \/ \E p \in s.wait : h = s.xfer[p]
  BY DEF Handles

\* A step that leaves what it does not submit where it is keeps the rest of the invariant.
LEMMA RecordedKept ==
    ASSUME OwnedInv, Continued, hand' = hand,
           pc' = "send" => /\ pc = "send" /\ work'.any = work.any /\ work'.seq = work.seq
                           /\ \A t \in pending' : t.seq = work.seq =>
                                 \E s \in pending : s.seq = t.seq /\ Handles(t) \subseteq Handles(s)
    PROVE  Recorded'
<1>1. hand' # NoHandle => \A a \in active' : Dest(a.id) = Dest(hand') => a.id = hand'
  <2> SUFFICES ASSUME hand # NoHandle, NEW a \in active', Dest(a.id) = Dest(hand) PROVE a.id = hand
    OBVIOUS
  <2>1. PICK b \in active : b.id = a.id
    BY DEF Continued
  <2> QED BY <2>1 DEF OwnedInv, Recorded
<1>2. ASSUME pc' = "send", ~work'.any, NEW t \in pending', t.seq = work'.seq PROVE Handles(t) = {}
  <2>1. pc = "send" /\ ~work.any /\ t.seq = work.seq
    BY <1>2
  <2>2. PICK s \in pending : s.seq = t.seq /\ Handles(t) \subseteq Handles(s)
    BY <1>2, <2>1
  <2>3. Handles(s) = {}
    BY <2>1, <2>2 DEF OwnedInv, Recorded
  <2> QED BY <2>2, <2>3
<1>3. pc' = "send" /\ ~work'.any => \A t \in pending' : t.seq = work'.seq => Handles(t) = {}
  BY <1>2
<1> QED BY <1>1, <1>3 DEF Recorded, Handles

LEMMA OfferOwned == ASSUME TypeInv, OwnedInv, Offer PROVE Recorded' /\ TransfersOwned'
<1>0. hand = NoHandle /\ hand' = hand /\ active' = active
  BY DEF Offer, TypeInv, Locals
<1>1. CASE pending' = pending /\ pc' = pc /\ work' = work /\ cancels' = cancels
  BY <1>0, <1>1, OwnedKept, RecordedKept, ContinuedSubset
<1>2. CASE Begin(offered + 1)
  <2>1. offered + 1 \in Value
    BY Bounds DEF Offer, TypeInv, Locals, Value
  <2> QED BY <1>0, <1>2, <2>1, BeginOwned
<1> QED BY <1>1, <1>2 DEF Offer

LEMMA ResumeOwned == ASSUME TypeInv, OwnedInv, Resume PROVE Recorded' /\ TransfersOwned'
<1>0. hand = NoHandle /\ hand' = hand /\ active' = active
  BY DEF Resume
<1>1. CASE pending' = pending /\ pc' = "idle" /\ cancels' = cancels
  BY <1>0, <1>1, OwnedKept, RecordedKept, ContinuedSubset
<1>2. CASE work.val # NoValue /\ Begin(work.val)
  <2>1. work.val \in Value
    BY <1>2 DEF TypeInv, Locals, Work
  <2> QED BY <1>0, <1>2, <2>1, BeginOwned
<1> QED BY <1>1, <1>2 DEF Resume

\* What the daemon may carry to the only receiver is the transfer it admits here.
LEMMA SubmitOwned ==
    ASSUME NEW p, Peer = {p}, TypeInv, OwnedInv, NEW item \in work.left, Submit(item)
    PROVE  Recorded' /\ TransfersOwned'
<1>1. PICK s \in pending :
        /\ hand' = <<item[1], item[2], s.tries[item[2]]>>
        /\ active' = active \cup {[id |-> hand', val |-> s.val, arrived |-> FALSE, orphan |-> FALSE]}
  BY DEF Submit
<1> DEFINE n == [id |-> hand', val |-> s.val, arrived |-> FALSE, orphan |-> FALSE]
<1>2. active = {}
  <2>1. item \in SeqNo \X Peer
    BY DEF TypeInv, Locals, Work
  <2>2. \A a \in active : Dest(a.id) \in Peer
    BY Handles3 DEF TypeInv, Outside, Transfer
  <2> QED BY <2>1, <2>2 DEF Submit, NativeBusy
<1>3. active' = {n} /\ n.id = hand' /\ hand' # NoHandle
  BY <1>1, <1>2 DEF NoHandle
<1> HIDE DEF n
<1>4. TransfersOwned'
  <2>1. hand' \in Owned'
    BY <1>3, OwnedByNext
  <2> QED BY <1>3, <2>1 DEF TransfersOwned
<1>5. Recorded'
  <2>1. pc' = pc /\ work' = work /\ pending' = pending
    BY DEF Submit
  <2>2. \A a \in active' : a.id = hand'
    BY <1>3
  <2> QED BY <2>1, <2>2 DEF OwnedInv, Recorded, Handles, NoHandle, Dest
<1> QED BY <1>4, <1>5

\* The handle the call returns is recorded with its sample, or queued for cancellation.
LEMMA RememberOwned ==
    ASSUME NEW p, Peer = {p}, TypeInv, OwnedInv, Remember PROVE Recorded' /\ TransfersOwned'
<1>1. /\ pending' = {Remembering(s) : s \in pending}
      /\ cancels' = cancels \cup (IF \E s \in pending : s.seq = Seq(hand) THEN {} ELSE {hand})
  BY RememberTable DEF TypeInv
<1>2. hand \in Handle /\ hand # NoHandle /\ hand' = NoHandle /\ active' = active /\ work'.any
  BY DEF Remember, TypeInv, Locals, Work
<1>3. hand \in Owned'
  <2>1. ASSUME NEW s \in pending, s.seq = Seq(hand) PROVE hand \in Owned'
    <3>1. s \in Sample
      BY DEF TypeInv, Table
    <3>2. Dest(hand) \in Peer /\ s.xfer \in [Peer -> Handle \cup {NoHandle}]
      BY <1>2, <3>1, Handles3 DEF Sample
    <3>3. \/ Dest(hand) \in Remembering(s).wait /\ Remembering(s).xfer[Dest(hand)] = hand
          \/ Remembering(s).primary = hand
      <4> DEFINE x == [s.xfer EXCEPT ![Dest(hand)] = hand]
      <4>1. x[Dest(hand)] = hand
        BY <3>2
      <4>2. CASE Dest(hand) \in s.wait
        <5>1. Remembering(s) = [s EXCEPT !.xfer = x, !.channel = "blocked"]
          BY <2>1, <4>2 DEF Remembering
        <5> HIDE DEF x
        <5> QED BY <3>1, <4>1, <4>2, <5>1 DEF Sample
      <4>3. CASE Dest(hand) \notin s.wait
        BY <2>1, <3>1, <4>3 DEF Remembering, Sample
      <4> QED BY <4>2, <4>3
    <3>4. hand \in Handles(Remembering(s))
      <4>1. hand = Remembering(s).primary \/ \E q \in Remembering(s).wait : hand = Remembering(s).xfer[q]
        BY <3>3
      <4> QED BY <1>2, <4>1, HandlesAre
    <3> QED BY <1>1, <3>4, OwnedByNext
  <2>2. ASSUME \A s \in pending : s.seq # Seq(hand) PROVE hand \in Owned'
    BY <1>1, <2>2, OwnedByNext
  <2> QED BY <2>1, <2>2
<1>4. \A a \in active : a.id = hand
  <2>1. \A a \in active : Dest(a.id) \in Peer
    BY Handles3 DEF TypeInv, Outside, Transfer
  <2>2. Dest(hand) \in Peer
    BY <1>2, Handles3
  <2> QED BY <1>2, <2>1, <2>2 DEF OwnedInv, Recorded
<1>5. TransfersOwned'
  BY <1>2, <1>3, <1>4 DEF TransfersOwned
<1>6. Recorded'
  BY <1>2 DEF Recorded
<1> QED BY <1>5, <1>6

\* The transfer whose answer is lost is an orphan from then on.
LEMMA LoseReplyOwned ==
    ASSUME NEW p, Peer = {p}, TypeInv, OwnedInv, LoseReply PROVE Recorded' /\ TransfersOwned'
<1>1. /\ active' = {Losing(a) : a \in active} /\ hand \in Handle /\ hand # NoHandle
      /\ hand' = NoHandle /\ pending' = pending /\ pc' = pc
      /\ work'.any = work.any /\ work'.seq = work.seq
  BY DEF LoseReply, Losing, TypeInv, Locals, Work
<1>2. ASSUME NEW a \in active PROVE a.id = hand
  <2>1. Dest(a.id) \in Peer /\ Dest(hand) \in Peer
    BY <1>1, Handles3 DEF TypeInv, Outside, Transfer
  <2> QED BY <1>1, <2>1 DEF OwnedInv, Recorded
<1>3. ASSUME NEW a \in active PROVE Losing(a).orphan
  <2>1. a \in Transfer
    BY DEF TypeInv, Outside
  <2> QED BY <1>2, <2>1, LosingKeeps
<1>4. TransfersOwned'
  BY <1>1, <1>3 DEF TransfersOwned
<1>5. Recorded'
  BY <1>1 DEF OwnedInv, Recorded, Handles, NoHandle
<1> QED BY <1>4, <1>5

\* A refusal changes the budget of one repair, and no handle.
LEMMA RefuseOwned ==
    ASSUME TypeInv, OwnedInv, NEW item \in work.left, Refuse(item) PROVE Recorded' /\ TransfersOwned'
<1>1. pending' = {Refusing(item, s) : s \in pending}
  BY RefuseTable
<1>2. ASSUME NEW s \in pending
      PROVE  Refusing(item, s).seq = s.seq /\ Handles(Refusing(item, s)) = Handles(s)
  <2>1. item \in SeqNo \X Peer /\ s \in Sample
    BY DEF TypeInv, Locals, Work, Table
  <2>2. LET t == Refusing(item, s) IN
           t.seq = s.seq /\ t.wait = s.wait /\ t.xfer = s.xfer /\ t.primary = s.primary
    BY <2>1, RefusingKeeps
  <2> HIDE DEF Refusing
  <2> QED BY <2>2 DEF Handles
<1>3. /\ cancels' = cancels /\ active' = active /\ hand' = hand /\ pc' = pc
      /\ work'.any = work.any /\ work'.seq = work.seq
  BY DEF Refuse, TypeInv, Locals, Work
<1>4. \A s \in pending : \E t \in pending' : Handles(t) = Handles(s)
  BY <1>1, <1>2
<1>5. TransfersOwned'
  BY <1>3, <1>4, OwnedKept, ContinuedSubset
<1>6. \A t \in pending' : \E s \in pending : s.seq = t.seq /\ Handles(t) \subseteq Handles(s)
  BY <1>1, <1>2
<1> QED BY <1>3, <1>5, <1>6, RecordedKept, ContinuedSubset

\* A sample that is withdrawn has no transfer.
LEMMA EndSendOwned == ASSUME TypeInv, OwnedInv, EndSend PROVE Recorded' /\ TransfersOwned'
<1>1. /\ pending' \subseteq pending /\ cancels' = cancels /\ active' = active /\ hand' = hand
      /\ pc = "send" /\ pc' = "idle"
  BY DEF EndSend
<1>2. \A s \in pending : s \notin pending' => Handles(s) = {}
  BY DEF EndSend, OwnedInv, Recorded
<1>3. TransfersOwned'
  BY <1>1, <1>2, OwnedKept, ContinuedSubset
<1> QED BY <1>1, <1>3, RecordedKept, ContinuedSubset

\* The transfers of a sample that ends are queued for cancellation.
LEMMA TickOwned == ASSUME TypeInv, OwnedInv, Tick PROVE Recorded' /\ TransfersOwned'
<1>1. PICK repairs \in SUBSET Due :
          /\ \A s \in Kept, p \in Peer : <<s.seq, p>> \in repairs => CanRepair(s, p)
          /\ pending' = {Ticked(repairs, s) : s \in Kept}
  BY DEF Tick
<1>2. /\ cancels' = cancels \cup UNION {Handles(s) : s \in pending \ Kept}
      /\ active' = active /\ hand' = hand /\ pc' = "check"
  BY DEF Tick
<1>3. ASSUME NEW s \in Kept PROVE Handles(Ticked(repairs, s)) = Handles(s)
  <2>1. s \in Sample
    BY DEF TypeInv, Table, Kept
  <2>2. latest \in 0..offered /\ offered \in 0..MaxValue
    BY DEF TypeInv, Locals
  <2>3. \A p \in Peer : <<s.seq, p>> \in repairs => CanRepair(s, p)
    BY <1>1
  <2>4. LET t == Ticked(repairs, s) IN
           t.wait = s.wait /\ t.xfer = s.xfer /\ t.primary = s.primary
    BY <2>1, <2>2, <2>3, TickedKeeps
  <2> QED BY <2>4 DEF Handles
<1>4. ASSUME NEW h, NEW s \in pending, h \in Handles(s)
      PROVE  (\E t \in pending' : h \in Handles(t)) \/ h \in cancels'
  BY <1>1, <1>2, <1>3, <1>4
<1>5. TransfersOwned'
  BY <1>2, <1>4, OwnedKept, ContinuedSubset
<1> QED BY <1>2, <1>5, RecordedKept, ContinuedSubset

\* Completion clears handles whose transfer has ended, and what is cancelled ends.
LEMMA CheckOwned ==
    ASSUME NEW p, Peer = {p}, TypeInv, OwnedInv, Check PROVE Recorded' /\ TransfersOwned'
<1>1. PICK checked : pending' = {Checking(checked, s) : s \in pending}
  BY CheckTable
<1>2. /\ hand' = hand /\ pc' = "repair" /\ active' \subseteq active
      /\ \A a \in active' : a.id \in cancels => a.id \in cancels'
  BY DEF Check
<1>3. ASSUME NEW s \in pending, NEW a \in active, a.id \in Handles(s)
      PROVE  a.id \in Handles(Checking(checked, s))
  <2>1. CASE Checking(checked, s) = s
    BY <1>3, <2>1
  <2>2. CASE /\ \E q \in s.wait : s.xfer[q] # NoHandle /\ \A b \in active : b.id # s.xfer[q]
             /\ Checking(checked, s) = [s EXCEPT !.xfer = [q \in Peer |-> NoHandle], !.channel = "free"]
    <3>1. s \in Sample
      BY DEF TypeInv, Table
    <3>2. \A q \in s.wait : s.xfer[q] # a.id
      BY <2>2, <3>1 DEF Sample
    <3>3. a.id # NoHandle /\ a.id = s.primary
      BY <1>3, <3>2, HandlesAre
    <3>4. Checking(checked, s).primary = s.primary
      BY <3>1, CheckingKeeps
    <3> QED BY <3>3, <3>4, HandlesAre
  <2> QED BY <2>1, <2>2 DEF Checking
<1>4. TransfersOwned'
  <2>1. ASSUME NEW a \in active', NEW s \in pending, a.id \in Handles(s)
        PROVE  \E t \in pending' : a.id \in Handles(t)
    BY <1>1, <1>2, <1>3, <2>1
  <2> QED BY <1>2, <2>1, OwnedKept, ContinuedSubset
<1> QED BY <1>2, <1>4, RecordedKept, ContinuedSubset

\* The transfer whose receipt has come is queued for cancellation.
LEMMA GetReceiptOwned ==
    ASSUME TypeInv, OwnedInv, NEW r \in receipts, GetReceipt(r) PROVE Recorded' /\ TransfersOwned'
<1>1. pending' = {Answering(r, s) : s \in pending}
  BY AnswerTable
<1>2. /\ cancels \subseteq cancels'
      /\ active' = active /\ hand' = hand /\ pc' = pc /\ work' = work
      /\ \A s \in pending : s.seq = r[2] /\ r[1] \in s.wait /\ s.xfer[r[1]] # NoHandle
            => s.xfer[r[1]] \in cancels'
  BY DEF GetReceipt
<1>3. ASSUME NEW s \in pending
      PROVE  /\ Answering(r, s).seq = s.seq
             /\ Handles(Answering(r, s)) \subseteq Handles(s)
             /\ \A h \in Handles(s) : h \in Handles(Answering(r, s)) \/ h \in cancels'
  <2>1. s \in Sample /\ r \in Peer \X SeqNo
    BY DEF TypeInv, Table, Outside
  <2> DEFINE t == Answering(r, s)
  <2>2. /\ t.seq = s.seq /\ t.primary = s.primary
        /\ IF s.seq = r[2] /\ r[1] \in s.wait
              THEN t.wait = s.wait \ {r[1]} /\ t.xfer = [s.xfer EXCEPT ![r[1]] = NoHandle]
              ELSE t = s
    BY <2>1, AnsweringKeeps
  <2>3. CASE s.seq = r[2] /\ r[1] \in s.wait
    <3>1. \A q \in t.wait : q \in s.wait /\ q # r[1] /\ t.xfer[q] = s.xfer[q]
      BY <2>1, <2>2, <2>3 DEF Sample
    <3>2. \A q \in s.wait : q # r[1] => q \in t.wait
      BY <2>2, <2>3
    <3> HIDE DEF t
    <3>3. \A h \in Handles(t) : h \in Handles(s)
      BY <2>2, <3>1, HandlesAre
    <3>4. \A h \in Handles(s) : h \in Handles(t) \/ (h = s.xfer[r[1]] /\ h # NoHandle)
      BY <2>2, <3>1, <3>2, HandlesAre
    <3>5. t.seq = s.seq /\ Handles(t) \subseteq Handles(s)
          /\ \A h \in Handles(s) : h \in Handles(t) \/ h \in cancels'
      BY <1>2, <2>2, <2>3, <3>3, <3>4
    <3> QED BY <3>5 DEF t
  <2>4. CASE ~(s.seq = r[2] /\ r[1] \in s.wait)
    BY <2>2, <2>4
  <2> QED BY <2>3, <2>4
<1>4. TransfersOwned'
  <2>1. ASSUME NEW h, NEW s \in pending, h \in Handles(s)
        PROVE  (\E t \in pending' : h \in Handles(t)) \/ h \in cancels'
    BY <1>1, <1>3, <2>1
  <2> QED BY <1>2, <2>1, OwnedKept, ContinuedSubset
<1>5. \A t \in pending' : \E s \in pending : s.seq = t.seq /\ Handles(t) \subseteq Handles(s)
  BY <1>1, <1>3
<1> QED BY <1>2, <1>4, <1>5, RecordedKept, ContinuedSubset

\* A copy that arrives is still its transfer.
LEMMA ArriveOwned ==
    ASSUME TypeInv, OwnedInv, NEW a \in active, Arrive(a) PROVE Recorded' /\ TransfersOwned'
<1> DEFINE b == [a EXCEPT !.arrived = TRUE]
<1>1. b.id = a.id /\ b.orphan = a.orphan
  BY DEF TypeInv, Outside, Transfer
<1>2. active' = (active \ {a}) \cup {b} /\ UNCHANGED senderVars
  BY DEF Arrive
<1> HIDE DEF b
<1>3. Continued
  BY <1>1, <1>2 DEF Continued
<1> QED BY <1>2, <1>3, OwnedKept, RecordedKept DEF senderVars

LEMMA OthersOwned ==
    ASSUME TypeInv, OwnedInv,
           \/ Reset \/ UNCHANGED vars
           \/ \E s \in pending, p \in Peer : Query(s, p)
           \/ \E a \in active : Complete(a)
           \/ \E r \in receipts : LoseReceipt(r)
           \/ \E p \in Peer : RestartPeer(p)
    PROVE  Recorded' /\ TransfersOwned'
<1>1. CASE Reset
  BY <1>1 DEF Reset, Recorded, TransfersOwned
<1>2. CASE UNCHANGED senderVars /\ active' \subseteq active
  BY <1>2, OwnedKept, RecordedKept, ContinuedSubset DEF senderVars
<1> QED BY <1>1, <1>2 DEF vars, senderVars, Query, Complete, LoseReceipt, RestartPeer

LEMMA OwnedNext ==
    ASSUME NEW p, Peer = {p}, TypeInv, OwnedInv, [Next]_vars PROVE OwnedInv'
<1>1. OneTransfer'
  BY OneTransferNext DEF OwnedInv
<1>2. Recorded' /\ TransfersOwned'
  <2>1. CASE Executor
    BY <2>1, OfferOwned, RememberOwned, LoseReplyOwned, EndSendOwned, TickOwned, CheckOwned, ResumeOwned,
       SubmitOwned, RefuseOwned DEF Executor
  <2>2. ASSUME NEW a \in active, Arrive(a) PROVE Recorded' /\ TransfersOwned'
    BY <2>2, ArriveOwned
  <2>3. ASSUME NEW r \in receipts, GetReceipt(r) PROVE Recorded' /\ TransfersOwned'
    BY <2>3, GetReceiptOwned
  <2> QED BY <2>1, <2>2, <2>3, OthersOwned DEF Next
<1> QED BY <1>1, <1>2 DEF OwnedInv

LEMMA OwnedInit == Init => OwnedInv
  BY DEF Init, OwnedInv, OneTransfer, Recorded, TransfersOwned

\* With one receiver, whose native completion ends a sample, the sender can still cancel
\* every transfer that the daemon carries for it (remember_mesh_transfer,
\* flush_mesh_transfer_cancellations), but for one whose SendUnqueued was answered too
\* late: none else is left to its own fate.
THEOREM TransfersCancellable == ASSUME NEW CONSTANT p, Peer = {p} PROVE Spec => []TransfersOwned
<1>1. Init => OwnedInv
  BY OwnedInit
<1>2. TypeInv /\ OwnedInv /\ [Next]_vars => OwnedInv'
  BY OwnedNext
<1>3. OwnedInv => TransfersOwned
  BY DEF OwnedInv
<1> QED BY <1>1, <1>2, <1>3, TypeAlways, PTL DEF Spec

-----------------------------------------------------------------------------
(* Several receivers: what they publish is what TopicDelivery promises      *)

LEMMA Figures ==
    ASSUME TypeInv
    PROVE  /\ offered \in Nat /\ used \in Nat
           /\ \A s \in pending : /\ s.val \in Nat /\ 0 < s.val /\ s.val <= offered
                                 /\ s.seq \in Nat /\ s.seq <= used
           /\ \A a \in active : /\ a.val \in Nat /\ 0 < a.val /\ a.val <= offered
                                /\ Seq(a.id) \in Nat /\ Seq(a.id) <= used /\ Dest(a.id) \in Peer
           /\ \A p \in Peer : last[p] \in Nat /\ last[p] <= offered /\ seen[p] \subseteq 1..used
<1>1. offered \in Nat /\ used \in Nat
  BY Bounds DEF TypeInv, Locals
<1>2. \A s \in pending : /\ s.val \in Nat /\ 0 < s.val /\ s.val <= offered
                         /\ s.seq \in Nat /\ s.seq <= used
  BY Bounds DEF TypeInv, Table, Sample, Value, SeqNo
<1>3. ASSUME NEW a \in active
      PROVE  /\ a.val \in Nat /\ 0 < a.val /\ a.val <= offered
             /\ Seq(a.id) \in Nat /\ Seq(a.id) <= used /\ Dest(a.id) \in Peer
  <2>1. a.val \in Value /\ a.id \in Handle /\ a.val <= offered /\ Seq(a.id) <= used
    BY DEF TypeInv, Outside, Transfer
  <2>2. Seq(a.id) \in SeqNo /\ Dest(a.id) \in Peer
    BY <2>1, Handles3
  <2> QED BY <2>1, <2>2, Bounds DEF Value, SeqNo
<1>4. \A p \in Peer : last[p] \in Nat /\ last[p] <= offered /\ seen[p] \subseteq 1..used
  BY <1>1 DEF TypeInv, Outside
<1> QED BY <1>1, <1>2, <1>3, <1>4

\* Steps that keep the numbers and values of samples, and those of copies.
SameSamples ==
    /\ \A t \in pending' : /\ t.channel = "blocked"
                           /\ \E s \in pending : s.seq = t.seq /\ s.val = t.val
    /\ \A s \in pending : \E t \in pending' : s.seq = t.seq /\ s.val = t.val

SameCopies == \A b \in active' : \E a \in active : a.id = b.id /\ a.val = b.val

\* A step that does not publish, and keeps numbers and values of samples and copies,
\* keeps the order.
LEMMA OrderlyKept ==
    ASSUME TypeInv, TypeInv', Orderly, OneTransfer',
           SameSamples, SameCopies,
           seen' = seen, last' = last, latest' = latest,
           pc' = pc \/ (pc = "check" /\ pc' = "repair"),
           work'.seq = work.seq, work'.val = work.val
    PROVE  Orderly'
<1>0. /\ \A t \in pending' : /\ t.channel = "blocked"
                             /\ \E s \in pending : s.seq = t.seq /\ s.val = t.val
      /\ \A s \in pending : \E t \in pending' : s.seq = t.seq /\ s.val = t.val
      /\ \A b \in active' : \E a \in active : a.id = b.id /\ a.val = b.val
  BY DEF SameSamples, SameCopies
<1>1. OneSample'
  <2>1. ASSUME NEW t \in pending', NEW u \in pending' PROVE t = u
    <3>1. PICK s \in pending : s.seq = t.seq
      BY <1>0
    <3>2. PICK r \in pending : r.seq = u.seq
      BY <1>0
    <3>3. t.seq = u.seq
      BY <3>1, <3>2 DEF Orderly, OneSample
    <3> QED BY <3>3 DEF TypeInv, Table
  <2> QED BY <1>0, <2>1 DEF OneSample
<1>2. ASSUME NEW v, Above(v) PROVE Above(v)'
  <2>1. \A t \in pending' : t.val <= v
    BY <1>0, <1>2 DEF Above
  <2>2. \A b \in active' : b.val <= v
    BY <1>0, <1>2 DEF Above
  <2> QED BY <1>2, <2>1, <2>2 DEF Above
<1>3. WaitingNewest'
  <2>1. latest # NoValue => pc = "idle" /\ Above(latest)
    BY DEF Orderly, WaitingNewest
  <2>2. pc \in {"check", "repair"} /\ work.val # NoValue => pending = {} /\ Above(work.val)
    BY DEF Orderly, WaitingNewest
  <2>3. latest' # NoValue => pc' = "idle" /\ Above(latest)'
    BY <2>1, <1>2 DEF Above
  <2>4. pending = {} => pending' = {}
    BY <1>0
  <2>5. pc' \in {"check", "repair"} /\ work'.val # NoValue => pending' = {} /\ Above(work.val)'
    BY <2>2, <2>4, <1>2 DEF Above
  <2> QED BY <2>3, <2>5 DEF WaitingNewest, NoValue
<1>4. Sending'
  BY <1>0 DEF Orderly, Sending
<1>5. SampleNewest'
  <2> SUFFICES ASSUME NEW t \in pending'
               PROVE  /\ \A b \in active' : b.val <= t.val
                      /\ \A p \in Peer : last[p] <= t.val
    BY DEF SampleNewest
  <2>1. PICK s \in pending : s.seq = t.seq /\ s.val = t.val
    BY <1>0
  <2>2. /\ \A a \in active : a.val <= s.val
        /\ \A p \in Peer : last[p] <= s.val
    BY DEF Orderly, SampleNewest
  <2> QED BY <1>0, <2>1, <2>2
<1>6. CopyNewer'
  <2> SUFFICES ASSUME NEW b \in active', Seq(b.id) \notin seen[Dest(b.id)]
               PROVE  last[Dest(b.id)] <= b.val
    BY DEF CopyNewer, Seq, Dest
  <2>1. PICK a \in active : a.id = b.id /\ a.val = b.val
    BY <1>0
  <2> QED BY <2>1 DEF Orderly, CopyNewer
<1> QED BY <1>1, <1>3, <1>4, <1>5, <1>6 DEF Orderly

LEMMA NoneBusy == ASSUME Orderly, ~Busy PROVE pending = {}
  BY DEF Orderly, OneSample, Busy

\* A value as new as all that was sent begins a sample.
LEMMA BeginOrderly ==
    ASSUME TypeInv, Orderly, NEW v \in Value, Begin(v), pending = {}, Above(v),
           latest' = NoValue, active' = active, last' = last, seen' = seen
    PROVE  Orderly'
<1> DEFINE n == NewSample(used + 1, v)
<1>1. used + 1 \in SeqNo
  BY Figures, Bounds DEF Begin, SeqNo
<1>2. n.seq = used + 1 /\ n.val = v /\ n.channel = "blocked"
  BY <1>1, NewFields
<1>3. pending' = {n} /\ pc' = "send" /\ work'.seq = used + 1 /\ work'.val = v
  BY DEF Begin, Oldest
<1> HIDE DEF n
<1>6. OneTransfer'
  BY DEF Orderly, OneTransfer, Dest
<1>7. OneSample'
  BY <1>2, <1>3 DEF OneSample
<1>8. WaitingNewest'
  BY <1>3 DEF WaitingNewest, NoValue
<1>9. Sending'
  BY <1>2, <1>3 DEF Sending
<1>10. SampleNewest'
  BY <1>2, <1>3 DEF Above, SampleNewest
<1>11. CopyNewer'
  BY DEF Orderly, CopyNewer, Seq, Dest
<1> QED BY <1>6, <1>7, <1>8, <1>9, <1>10, <1>11 DEF Orderly

LEMMA OfferOrderly == ASSUME TypeInv, Orderly, Offer PROVE Orderly'
<1> DEFINE v == offered + 1
<1>1. v \in Value /\ Above(v)
  <2>1. v \in Value
    BY Bounds, Figures DEF Offer, Value
  <2>2. Above(v)
    BY Figures DEF Above
  <2> QED BY <2>1, <2>2
<1>2. pc = "idle" /\ active' = active /\ last' = last /\ seen' = seen /\ hand' = hand
  BY DEF Offer
<1> HIDE DEF v
<1>3. CASE latest' = v /\ pending' = pending /\ pc' = pc /\ work' = work
  <2>1. Above(latest)'
    BY <1>1, <1>2, <1>3 DEF Above
  <2>2. WaitingNewest'
    BY <1>2, <1>3, <2>1 DEF WaitingNewest
  <2>3. OneTransfer' /\ OneSample' /\ Sending' /\ SampleNewest' /\ CopyNewer'
    BY <1>2, <1>3
       DEF Orderly, OneTransfer, OneSample, Sending, SampleNewest, CopyNewer, Seq, Dest, NoHandle
  <2> QED BY <2>2, <2>3 DEF Orderly
<1>4. CASE ~Busy /\ latest' = NoValue /\ Begin(v)
  BY <1>1, <1>2, <1>4, NoneBusy, BeginOrderly
<1> QED BY <1>3, <1>4 DEF Offer, v

LEMMA ResumeOrderly == ASSUME TypeInv, Orderly, Resume PROVE Orderly'
<1>1. pc = "repair" /\ active' = active /\ last' = last /\ seen' = seen /\ hand' = hand
  BY DEF Resume
<1>2. latest = NoValue /\ (work.val # NoValue => pending = {} /\ Above(work.val))
  BY <1>1 DEF Orderly, WaitingNewest
<1>3. CASE pc' = "idle" /\ latest' = work.val /\ pending' = pending
  <2>1. latest' # NoValue => Above(latest)'
    BY <1>1, <1>2, <1>3 DEF Above
  <2>2. WaitingNewest'
    BY <1>3, <2>1 DEF WaitingNewest, NoValue
  <2>3. OneTransfer' /\ OneSample' /\ Sending' /\ SampleNewest' /\ CopyNewer'
    BY <1>1, <1>3
       DEF Orderly, OneTransfer, OneSample, Sending, SampleNewest, CopyNewer, Seq, Dest
  <2> QED BY <2>2, <2>3 DEF Orderly
<1>4. CASE work.val # NoValue /\ Begin(work.val) /\ latest' = latest
  <2>1. work.val \in Value
    BY <1>4 DEF TypeInv, Locals, Work
  <2> QED BY <1>1, <1>2, <1>4, <2>1, BeginOrderly
<1> QED BY <1>3, <1>4 DEF Resume

\* A copy takes the value its sample has now.
LEMMA SubmitOrderly ==
    ASSUME TypeInv, Orderly, OneTransfer', NEW item \in work.left, Submit(item) PROVE Orderly'
<1>1. PICK s \in pending :
        /\ s.seq = item[1]
        /\ hand' = <<item[1], item[2], s.tries[item[2]]>>
        /\ active' = active \cup {[id |-> hand', val |-> s.val, arrived |-> FALSE, orphan |-> FALSE]}
  BY DEF Submit
<1> DEFINE n == [id |-> hand', val |-> s.val, arrived |-> FALSE, orphan |-> FALSE]
<1>2. /\ active' = active \cup {n} /\ Seq(n.id) = s.seq /\ n.val = s.val /\ Dest(n.id) \in Peer
      /\ hand' # NoHandle
  BY <1>1 DEF Seq, Dest, NoHandle, TypeInv, Locals, Work
<1> HIDE DEF n
<1>3. /\ pc \in {"send", "repair"} /\ pc' = pc /\ work' = work /\ pending' = pending
      /\ latest' = latest /\ seen' = seen /\ last' = last
  BY DEF Submit
<1>4. OneSample' /\ Sending'
  BY <1>2, <1>3 DEF Orderly, OneSample, Sending, NoHandle
<1>5. WaitingNewest'
  <2>1. latest = NoValue /\ ~(pc = "repair" /\ work.val # NoValue)
    BY <1>3 DEF Orderly, WaitingNewest
  <2> QED BY <1>3, <2>1 DEF WaitingNewest, NoValue
<1>6. SampleNewest'
  <2>1. \A r \in pending : r = s
    BY DEF Orderly, OneSample
  <2>2. s.val <= s.val
    BY Figures
  <2> QED BY <1>2, <1>3, <2>1, <2>2 DEF Orderly, SampleNewest, Seq
<1>7. CopyNewer'
  <2>1. \A a \in active : Seq(a.id) \notin seen[Dest(a.id)] => last[Dest(a.id)] <= a.val
    BY DEF Orderly, CopyNewer
  <2>2. last[Dest(n.id)] <= n.val
    BY <1>2 DEF Orderly, SampleNewest
  <2> QED BY <1>2, <1>3, <2>1, <2>2 DEF CopyNewer, Seq, Dest
<1> QED BY <1>4, <1>5, <1>6, <1>7 DEF Orderly

LEMMA RememberOrderly == ASSUME TypeInv, TypeInv', Orderly, OneTransfer', Remember PROVE Orderly'
<1>1. pending' = {Remembering(s) : s \in pending}
  BY RememberTable DEF TypeInv
<1>2. /\ hand \in Handle /\ work'.any /\ work'.seq = work.seq /\ work'.val = work.val
      /\ active' = active /\ seen' = seen /\ last' = last /\ latest' = latest /\ pc' = pc
  BY DEF Remember, TypeInv, Locals, Work
<1>3. ASSUME NEW s \in pending
      PROVE  /\ Remembering(s).seq = s.seq /\ Remembering(s).val = s.val
             /\ Remembering(s).channel = "blocked"
  <2>1. s \in Sample /\ s.channel = "blocked"
    BY DEF TypeInv, Table, Orderly, OneSample
  <2> QED BY <1>2, <2>1, RememberingKeeps
<1>4. SameSamples
  BY <1>1, <1>3 DEF SameSamples
<1>5. SameCopies
  BY <1>2 DEF SameCopies
<1> QED BY <1>2, <1>4, <1>5, OrderlyKept, Zenon

LEMMA LoseReplyOrderly == ASSUME TypeInv, TypeInv', Orderly, OneTransfer', LoseReply PROVE Orderly'
<1>1. /\ work'.seq = work.seq /\ work'.val = work.val /\ pending' = pending
      /\ seen' = seen /\ last' = last /\ latest' = latest /\ pc' = pc
      /\ active' = {Losing(a) : a \in active}
  BY DEF LoseReply, Losing, TypeInv, Locals, Work
<1>2. \A a \in active : Losing(a).id = a.id /\ Losing(a).val = a.val
  BY LosingKeeps DEF TypeInv, Outside
<1>3. SameSamples
  BY <1>1 DEF SameSamples, Orderly, OneSample
<1>4. SameCopies
  BY <1>1, <1>2 DEF SameCopies
<1> QED BY <1>1, <1>3, <1>4, OrderlyKept, Zenon

LEMMA RefuseOrderly ==
    ASSUME TypeInv, TypeInv', Orderly, OneTransfer', NEW item \in work.left, Refuse(item)
    PROVE  Orderly'
<1>1. pending' = {Refusing(item, s) : s \in pending}
  BY RefuseTable
<1>2. /\ work'.any = work.any /\ work'.seq = work.seq /\ work'.val = work.val /\ hand' = hand
      /\ active' = active /\ seen' = seen /\ last' = last /\ latest' = latest /\ pc' = pc
  BY DEF Refuse, TypeInv, Locals, Work
<1>3. ASSUME NEW s \in pending
      PROVE  /\ Refusing(item, s).seq = s.seq /\ Refusing(item, s).val = s.val
             /\ Refusing(item, s).channel = "blocked"
  <2>1. s \in Sample /\ s.channel = "blocked" /\ item \in SeqNo \X Peer
    BY DEF TypeInv, Table, Orderly, OneSample, Locals, Work
  <2> QED BY <2>1, RefusingKeeps
<1>4. SameSamples
  BY <1>1, <1>3 DEF SameSamples
<1>5. SameCopies
  BY <1>2 DEF SameCopies
<1> QED BY <1>2, <1>4, <1>5, OrderlyKept, Zenon

\* A sample without a copy known to be admitted is withdrawn: no value is newer than its own.
LEMMA EndSendOrderly == ASSUME TypeInv, Orderly, EndSend PROVE Orderly'
<1>1. /\ pc = "send" /\ pc' = "idle" /\ hand = NoHandle
      /\ active' = active /\ seen' = seen /\ last' = last
  BY DEF EndSend
<1>2. latest = NoValue
  BY <1>1 DEF Orderly, WaitingNewest
<1>3. CASE work.any /\ pending' = pending /\ latest' = latest
  BY <1>1, <1>2, <1>3 DEF Orderly, OneTransfer, OneSample, WaitingNewest, Sending,
     SampleNewest, CopyNewer, Seq, Dest, NoValue
<1>4. CASE ~work.any /\ pending' = {s \in pending : s.seq # work.seq} /\ latest' = work.val
  <2>1. PICK s \in pending : s.seq = work.seq /\ s.val = work.val
    BY <1>1 DEF Orderly, Sending
  <2>2. pending' = {}
    BY <1>4, <2>1 DEF Orderly, OneSample
  <2>5. Above(latest)'
    BY <1>1, <1>4, <2>1, <2>2 DEF Orderly, SampleNewest, Above
  <2>6. WaitingNewest'
    BY <1>1, <2>5 DEF WaitingNewest
  <2> QED BY <1>1, <2>2, <2>6 DEF Orderly, OneTransfer, OneSample, Sending,
     SampleNewest, CopyNewer, Seq, Dest
<1> QED BY <1>3, <1>4 DEF EndSend

\* The sample that stays takes over the waiting value, which is as new as all copies; a
\* value is taken out when no sample stays.
LEMMA TickOrderly == ASSUME TypeInv, Orderly, Tick PROVE Orderly'
<1>1. PICK repairs \in SUBSET Due :
          /\ \A s \in Kept, p \in Peer : <<s.seq, p>> \in repairs => CanRepair(s, p)
          /\ pending' = {Ticked(repairs, s) : s \in Kept}
          /\ work' = [Idle EXCEPT !.left = repairs, !.val = IF Kept = {} THEN latest ELSE NoValue]
  BY DEF Tick
<1>2. /\ pc' = "check" /\ latest' = NoValue
      /\ active' = active /\ seen' = seen /\ last' = last
  BY DEF Tick
<1>3. work'.val = IF Kept = {} THEN latest ELSE NoValue
  BY <1>1 DEF Idle
<1>4. latest # NoValue => Above(latest)
  BY DEF Orderly, WaitingNewest
<1>5. ASSUME NEW s \in Kept
      PROVE  /\ s \in pending /\ Kept = {s}
             /\ Ticked(repairs, s).seq = s.seq /\ Ticked(repairs, s).channel = "blocked"
             /\ Ticked(repairs, s).val = IF latest # NoValue THEN latest ELSE s.val
  <2>1. s \in pending /\ Kept = {s}
    BY DEF Kept, Orderly, OneSample
  <2>2. s \in Sample /\ s.channel = "blocked" /\ latest \in 0..offered /\ offered \in 0..MaxValue
    BY <2>1 DEF TypeInv, Table, Locals, Orderly, OneSample
  <2>3. \A p \in Peer : <<s.seq, p>> \in repairs => CanRepair(s, p)
    BY <1>1
  <2>4. LET t == Ticked(repairs, s) IN
           /\ t.seq = s.seq /\ t.channel = s.channel
           /\ t.val = IF (\A r \in Kept : s.seq <= r.seq) /\ latest # NoValue THEN latest ELSE s.val
    BY <2>2, <2>3, TickedKeeps
  <2>5. \A r \in Kept : s.seq <= r.seq
    BY <2>1, Figures
  <2> QED BY <2>1, <2>2, <2>4, <2>5
<1>6. OneSample'
  BY <1>1, <1>5 DEF OneSample
<1>7. WaitingNewest'
  <2>1. ASSUME work'.val # NoValue PROVE pending' = {} /\ Above(work.val)'
    <3>1. Kept = {} /\ work'.val = latest
      BY <1>3, <2>1
    <3>2. pending' = {}
      BY <1>1, <3>1
    <3> QED BY <1>2, <1>4, <2>1, <3>1, <3>2 DEF Above
  <2> QED BY <1>2, <2>1 DEF WaitingNewest, NoValue
<1>8. SampleNewest'
  <2> SUFFICES ASSUME NEW t \in pending'
               PROVE  /\ \A a \in active : a.val <= t.val
                      /\ \A p \in Peer : last[p] <= t.val
    BY <1>2 DEF SampleNewest
  <2>1. PICK s \in Kept : t = Ticked(repairs, s)
    BY <1>1
  <2>2. s \in pending /\ t.seq = s.seq /\ t.val = IF latest # NoValue THEN latest ELSE s.val
    BY <1>5, <2>1
  <2>3. CASE latest = NoValue
    BY <2>2, <2>3 DEF Orderly, SampleNewest
  <2>4. CASE latest # NoValue
    <3>1. latest \in Nat
      BY Figures DEF TypeInv, Locals
    <3> QED BY <1>4, <2>2, <2>4, <3>1, Figures DEF Above
  <2> QED BY <2>3, <2>4
<1>9. OneTransfer' /\ CopyNewer' /\ Sending'
  BY <1>2 DEF Orderly, OneTransfer, CopyNewer, Sending, Seq, Dest
<1> QED BY <1>6, <1>7, <1>8, <1>9 DEF Orderly

\* With several receivers native completion releases no sample.
LEMMA CheckOrderly ==
    ASSUME ~Single, TypeInv, TypeInv', Orderly, OneTransfer', Check PROVE Orderly'
<1>1. pending' = pending
  BY DEF Check
<1>2. /\ pc = "check" /\ pc' = "repair" /\ active' \subseteq active /\ hand' = hand /\ work' = work
      /\ seen' = seen /\ last' = last /\ latest' = latest
  BY DEF Check
<1>3. \A s \in pending : s.channel = "blocked"
  BY DEF Orderly, OneSample
<1>4. SameSamples /\ SameCopies
  BY <1>1, <1>2, <1>3 DEF SameSamples, SameCopies
<1> QED BY <1>2, <1>4, OrderlyKept

LEMMA ResetOrderly == ASSUME TypeInv, Orderly, Reset PROVE Orderly'
<1>1. /\ pc = "idle" /\ pc' = pc /\ pending' = {} /\ active' = {} /\ last' = last /\ seen' = seen
      /\ latest' = latest /\ work' = work
  BY DEF Reset
<1>2. latest' # NoValue => Above(latest)'
  BY <1>1 DEF Orderly, WaitingNewest, Above
<1> QED BY <1>1, <1>2
    DEF Orderly, OneTransfer, OneSample, WaitingNewest, Sending, SampleNewest, CopyNewer, NoValue

LEMMA GetReceiptOrderly ==
    ASSUME TypeInv, TypeInv', Orderly, OneTransfer', NEW r \in receipts, GetReceipt(r) PROVE Orderly'
<1>1. pending' = {Answering(r, s) : s \in pending}
  BY AnswerTable
<1>2. /\ work' = work /\ hand' = hand /\ active' = active /\ seen' = seen /\ last' = last
      /\ latest' = latest /\ pc' = pc
  BY DEF GetReceipt
<1>3. ASSUME NEW s \in pending
      PROVE  /\ Answering(r, s).seq = s.seq /\ Answering(r, s).val = s.val
             /\ Answering(r, s).channel = "blocked"
  <2>1. s \in Sample /\ s.channel = "blocked" /\ r \in Peer \X SeqNo
    BY DEF TypeInv, Table, Orderly, OneSample, Outside
  <2> QED BY <2>1, AnsweringKeeps
<1>4. SameSamples
  BY <1>1, <1>3 DEF SameSamples
<1>5. SameCopies
  BY <1>2 DEF SameCopies
<1> QED BY <1>2, <1>4, <1>5, OrderlyKept, Zenon

\* A copy that arrives is not older than what its receiver has published, and afterwards no
\* other copy is on its way to it.
LEMMA ArriveOrderly == ASSUME TypeInv, Orderly, OneTransfer', NEW a \in active, Arrive(a) PROVE Orderly'
<1> DEFINE b == [a EXCEPT !.arrived = TRUE]
           p == Dest(a.id)
           q == Seq(a.id)
<1>1. b.id = a.id /\ b.val = a.val
  BY DEF TypeInv, Outside, Transfer
<1>2. /\ active' = (active \ {a}) \cup {b}
      /\ pending' = pending /\ work' = work /\ hand' = hand /\ pc' = pc /\ latest' = latest
      /\ IF q \in seen[p] THEN seen' = seen /\ last' = last
         ELSE seen' = [seen EXCEPT ![p] = @ \cup {q}] /\ last' = [last EXCEPT ![p] = a.val]
  BY DEF Arrive, senderVars
<1> HIDE DEF b
<1>3. p \in Peer
  BY Figures
<1> HIDE DEF p, q
<1>4. SameCopies
  BY <1>1, <1>2 DEF SameCopies
<1>5. CASE q \in seen[p]
  <2>1. OneSample' /\ WaitingNewest' /\ Sending'
    BY <1>2, <1>4, <1>5
       DEF SameCopies, Orderly, OneSample, WaitingNewest, Above, Sending, Seq, NoHandle, NoValue
  <2>2. SampleNewest' /\ CopyNewer'
    BY <1>2, <1>4, <1>5 DEF SameCopies, Orderly, SampleNewest, CopyNewer, Seq, Dest
  <2> QED BY <2>1, <2>2 DEF Orderly
<1>6. CASE q \notin seen[p]
  <2>1. /\ seen'[p] = seen[p] \cup {q} /\ last'[p] = a.val
        /\ \A r \in Peer : r # p => seen'[r] = seen[r] /\ last'[r] = last[r]
    BY <1>2, <1>3, <1>6 DEF TypeInv, Outside
  <2>2. OneSample'
    BY <1>2 DEF Orderly, OneSample
  <2>3. ASSUME NEW v, Above(v) PROVE Above(v)'
    <3>1. \A c \in active' : c.val <= v
      BY <1>4, <2>3 DEF Above, SameCopies
    <3>2. \A r \in Peer : last'[r] <= v
      BY <2>1, <2>3 DEF Above
    <3> QED BY <1>2, <2>3, <3>1, <3>2 DEF Above
  <2>4. WaitingNewest'
    <3>1. latest' # NoValue => pc' = "idle" /\ Above(latest)'
      BY <1>2, <2>3 DEF Orderly, WaitingNewest, Above
    <3>2. pc' \in {"check", "repair"} /\ work'.val # NoValue => pending' = {} /\ Above(work.val)'
      BY <1>2, <2>3 DEF Orderly, WaitingNewest, Above
    <3> QED BY <3>1, <3>2 DEF WaitingNewest, NoValue
  <2>5. Sending'
    BY <1>2 DEF Orderly, Sending
  <2>6. SampleNewest'
    <3> SUFFICES ASSUME NEW s \in pending
                 PROVE  /\ \A c \in active' : c.val <= s.val
                        /\ \A r \in Peer : last'[r] <= s.val
      BY <1>2 DEF SampleNewest
    <3>1. /\ \A c \in active : c.val <= s.val
          /\ \A r \in Peer : last[r] <= s.val
      BY DEF Orderly, SampleNewest
    <3>2. \A c \in active' : c.val <= s.val
      BY <1>4, <3>1 DEF SameCopies
    <3> QED BY <2>1, <3>1, <3>2
  <2>7. CopyNewer'
    <3> SUFFICES ASSUME NEW c \in active', Seq(c.id) \notin seen'[Dest(c.id)]
                 PROVE  last'[Dest(c.id)] <= c.val
      BY DEF CopyNewer, Seq, Dest
    <3>1. CASE c = b
      BY <1>1, <2>1, <3>1 DEF p, q
    <3>2. CASE c \in active /\ c # b
      <4>1. Dest(c.id) # p
        BY <1>1, <1>2, <3>2 DEF OneTransfer, Dest, p
      <4>2. Dest(c.id) \in Peer
        BY <3>2, Figures
      <4> QED BY <2>1, <3>2, <4>1, <4>2 DEF Orderly, CopyNewer
    <3> QED BY <1>2, <3>1, <3>2
  <2> QED BY <2>2, <2>4, <2>5, <2>6, <2>7 DEF Orderly
<1> QED BY <1>5, <1>6

\* A restarted receiver has published nothing, and everything is newer.
LEMMA RestartOrderly ==
    ASSUME TypeInv, Orderly, NEW p \in Peer, RestartPeer(p) PROVE Orderly'
<1>1. /\ \A r \in Peer : seen'[r] = (IF r = p THEN {} ELSE seen[r])
                         /\ last'[r] = (IF r = p THEN 0 ELSE last[r])
      /\ active' = active /\ pending' = pending /\ work' = work /\ hand' = hand /\ pc' = pc
      /\ latest' = latest
  BY DEF RestartPeer, senderVars, TypeInv, Outside, NoValue
<1>2. OneTransfer' /\ OneSample'
  BY <1>1 DEF Orderly, OneTransfer, OneSample, Dest
<1>3. ASSUME NEW v \in Nat, Above(v) PROVE Above(v)'
  BY <1>1, <1>3 DEF Above
<1>4. WaitingNewest'
  <2>1. latest \in Nat /\ work.val \in Nat
    BY Bounds, Figures DEF TypeInv, Locals, Work, Value, NoValue
  <2>2. latest' # NoValue => pc' = "idle" /\ Above(latest)'
    BY <1>1, <1>3, <2>1 DEF Orderly, WaitingNewest, Above, NoValue
  <2>3. pc' \in {"check", "repair"} /\ work'.val # NoValue => pending' = {} /\ Above(work.val)'
    BY <1>1, <1>3, <2>1 DEF Orderly, WaitingNewest, Above, NoValue
  <2> QED BY <2>2, <2>3 DEF WaitingNewest, NoValue
<1>5. Sending'
  BY <1>1 DEF Orderly, Sending, Seq, NoHandle
<1>6. SampleNewest'
  <2>1. \A s \in pending : 0 < s.val /\ 0 <= s.val
    BY Figures
  <2> QED BY <1>1, <2>1 DEF Orderly, SampleNewest, Seq
<1>7. CopyNewer'
  <2>1. \A a \in active : 0 <= a.val /\ Dest(a.id) \in Peer
    BY Figures
  <2> QED BY <1>1, <2>1 DEF Orderly, CopyNewer, Seq, Dest
<1> QED BY <1>2, <1>4, <1>5, <1>6, <1>7 DEF Orderly

LEMMA OthersOrderly ==
    ASSUME TypeInv, TypeInv', Orderly, OneTransfer',
           \/ UNCHANGED vars
           \/ \E s \in pending, p \in Peer : Query(s, p)
           \/ \E a \in active : Complete(a)
           \/ \E r \in receipts : LoseReceipt(r)
    PROVE  Orderly'
<1>1. UNCHANGED senderVars /\ active' \subseteq active /\ seen' = seen /\ last' = last
  BY DEF vars, senderVars, Query, Complete, LoseReceipt
<1>2. SameSamples /\ SameCopies
  BY <1>1 DEF SameSamples, SameCopies, senderVars, Orderly, OneSample
<1>3. pc' = pc /\ work' = work /\ hand' = hand /\ latest' = latest
  BY <1>1 DEF senderVars
<1> QED BY <1>1, <1>2, <1>3, OrderlyKept

LEMMA OrderlyNext == ASSUME ~Single, TypeInv, Orderly, [Next]_vars PROVE Orderly'
<1>1. TypeInv' /\ OneTransfer'
  BY TypeNext, OneTransferNext DEF Orderly
<1>2. CASE Executor
  BY <1>1, <1>2, OfferOrderly, RememberOrderly, LoseReplyOrderly, EndSendOrderly, TickOrderly, CheckOrderly,
     ResumeOrderly, SubmitOrderly, RefuseOrderly DEF Executor
<1>3. ASSUME NEW a \in active, Arrive(a) PROVE Orderly'
  BY <1>1, <1>3, ArriveOrderly
<1>4. ASSUME NEW r \in receipts, GetReceipt(r) PROVE Orderly'
  BY <1>1, <1>4, GetReceiptOrderly
<1>5. ASSUME NEW p \in Peer, RestartPeer(p) PROVE Orderly'
  BY <1>5, RestartOrderly
<1>6. CASE Reset
  BY <1>6, ResetOrderly
<1> QED BY <1>1, <1>2, <1>3, <1>4, <1>5, <1>6, OthersOrderly DEF Next

LEMMA OrderlyInit == Init => Orderly
  BY DEF Init, Idle, Orderly, OneTransfer, OneSample, WaitingNewest, Sending, SampleNewest,
     CopyNewer, NoValue

\* Each step is a step of the promise, or publishes nothing.
LEMMA PromiseStep ==
    ASSUME TypeInv, Orderly, [Next]_vars
    PROVE  Promise!Next \/ UNCHANGED <<offered, last>>
<1>1. CASE Offer
  BY <1>1 DEF Offer, Promise!Next, Promise!Offer
<1>2. ASSUME NEW a \in active, Arrive(a) PROVE Promise!Next \/ UNCHANGED <<offered, last>>
  <2> DEFINE p == Dest(a.id)
  <2>1. CASE Seq(a.id) \in seen[p]
    BY <1>2, <2>1 DEF Arrive, senderVars
  <2>2. CASE Seq(a.id) \notin seen[p]
    <3>1. last' = [last EXCEPT ![p] = a.val] /\ offered' = offered
      BY <1>2, <2>2 DEF Arrive, senderVars
    <3>2. last[p] <= a.val
      BY <2>2 DEF Orderly, CopyNewer
    <3>3. p \in Peer /\ last[p] \in Nat /\ a.val \in Nat /\ a.val <= offered /\ offered \in Nat
      BY Figures
    <3> HIDE DEF p
    <3>4. CASE last[p] = a.val
      <4>1. last' = last
        BY <3>1, <3>3, <3>4 DEF TypeInv, Outside
      <4> QED BY <3>1, <4>1
    <3>5. CASE last[p] < a.val
      <4>1. a.val \in (last[p] + 1)..offered
        BY <3>3, <3>5
      <4>2. Promise!Deliver(p)
        BY <3>1, <4>1 DEF Promise!Deliver
      <4> QED BY <3>3, <4>2 DEF Promise!Next
    <3> QED BY <3>2, <3>3, <3>4, <3>5
  <2> QED BY <2>1, <2>2
<1>3. ASSUME NEW p \in Peer, RestartPeer(p) PROVE Promise!Next
  BY <1>3 DEF RestartPeer, senderVars, NoValue, Promise!Next, Promise!Forget
<1>4. CASE Remember \/ LoseReply \/ EndSend \/ Tick \/ Check \/ Resume \/ Reset \/ UNCHANGED vars
  BY <1>4 DEF Remember, LoseReply, EndSend, Tick, Check, Resume, Begin, Reset, vars
<1>5. ASSUME NEW item \in work.left, Submit(item) \/ Refuse(item) PROVE UNCHANGED <<offered, last>>
  BY <1>5 DEF Submit, Refuse
<1>6. ASSUME NEW s \in pending, NEW p \in Peer, Query(s, p) PROVE UNCHANGED <<offered, last>>
  BY <1>6 DEF Query, senderVars
<1>7. ASSUME NEW a \in active, Complete(a) PROVE UNCHANGED <<offered, last>>
  BY <1>7 DEF Complete, senderVars
<1>8. ASSUME NEW r \in receipts, GetReceipt(r) \/ LoseReceipt(r) PROVE UNCHANGED <<offered, last>>
  BY <1>8 DEF GetReceipt, LoseReceipt, senderVars
<1> QED BY <1>1, <1>2, <1>3, <1>4, <1>5, <1>6, <1>7, <1>8 DEF Next, Executor

\* With several receivers the channel keeps what TopicDelivery promises them, whatever is
\* repaired, lost, expired or restarted: no receiver publishes an older value after a newer
\* one.  native_completion_releases_channel is what a channel with one receiver lacks.
THEOREM ChannelKeepsPromise == ASSUME ~Single PROVE Spec => KeepsPromise
<1>1. Init => Promise!Init
  BY DEF Init, Promise!Init, NoValue
<1>2. TypeInv /\ Orderly /\ [Next]_vars => Orderly'
  BY OrderlyNext
<1>3. TypeInv /\ Orderly /\ [Next]_vars => [Promise!Next]_<<offered, last>>
  BY PromiseStep
<1> QED BY <1>1, <1>2, <1>3, OrderlyInit, TypeAlways, PTL DEF Spec, KeepsPromise, Promise!Spec
=============================================================================
