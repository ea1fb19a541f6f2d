----------------------- MODULE TransportBridgeProofs -----------------------
(***************************************************************************)
(* Proofs about both sides of a connectionless bridge, and about the       *)
(* scalars it carries.  Import: AdvertisementImport for any number of      *)
(* addresses, samples and disturbances (types, and that a peer's topic     *)
(* does not go back).  Export: BridgeDispatch for any rate and any bounds  *)
(* (types, that only values of the configuration in force are sent, and    *)
(* that the rate is kept).                                                 *)
(***************************************************************************)
EXTENDS AdvertisementImport, BridgeDispatch, ScalarCodec,
        SequenceTheorems, FiniteSetTheorems, TLAPS

-----------------------------------------------------------------------------
(* The history                                                              *)

\* The bounds are numbers.
LEMMA Bounds ==
    /\ History \in Nat \ {0} /\ Addresses \in Nat \ {0} /\ Payload \subseteq Nat \ {0}
    /\ MaxChanges \in Nat /\ MaxRestarts \in Nat /\ MaxDaemons \in Nat /\ MaxApplies \in Nat
  BY PeerAssumption, HistoryAssumption, BoundAssumption

\* A history has each payload once.
IsHistory(s) == s \in Seq(Payload) /\ Len(s) <= History /\ IsInjective(s)

\* Remembering a payload keeps the history one.
LEMMA RememberHistory ==
    ASSUME IsHistory(recent), NEW p \in Payload, Remember(p)
    PROVE  IsHistory(recent')
<1>1. CASE Contains(recent, p)
  BY <1>1 DEF Remember
<1>2. CASE ~Contains(recent, p)
  <2> DEFINE s == IF Len(recent) = History THEN Tail(recent) ELSE recent
  <2>1. recent \in Seq(Payload) /\ Len(recent) \in Nat /\ Len(recent) <= History
        /\ \A i, j \in 1..Len(recent) : recent[i] = recent[j] => i = j
    BY DEF IsHistory, IsInjective
  <2>2. \A i \in 1..Len(recent) : recent[i] # p
    BY <1>2 DEF Contains
  <2>3. /\ s \in Seq(Payload) /\ Len(s) \in Nat /\ Len(s) < History
        /\ \A i \in 1..Len(s) : s[i] # p
        /\ \A i, j \in 1..Len(s) : s[i] = s[j] => i = j
    <3>1. CASE Len(recent) = History
      <4>1. recent # <<>> /\ Len(recent) \in Nat \ {0}
        BY <2>1, <3>1, Bounds, EmptySeq
      <4>2. Tail(recent) \in Seq(Payload) /\ Len(Tail(recent)) = Len(recent) - 1
            /\ \A i \in 1..Len(Tail(recent)) : Tail(recent)[i] = recent[i + 1]
        BY <2>1, <4>1, HeadTailProperties
      <4>3. \A i \in 1..Len(Tail(recent)) : i + 1 \in 1..Len(recent)
        BY <4>1, <4>2
      <4>4. \A i, j \in 1..Len(Tail(recent)) : i + 1 = j + 1 => i = j
        OBVIOUS
      <4> QED BY <2>1, <2>2, <3>1, <4>1, <4>2, <4>3, <4>4
    <3>2. CASE Len(recent) # History
      BY <2>1, <2>2, <3>2, Bounds
    <3> QED BY <3>1, <3>2
  <2>4. recent' = Append(s, p)
    BY <1>2 DEF Remember
  <2> HIDE DEF s
  <2>5. recent' \in Seq(Payload) /\ Len(recent') = Len(s) + 1
        /\ (\A i \in 1..Len(s) : recent'[i] = s[i]) /\ recent'[Len(s) + 1] = p
    BY <2>3, <2>4, AppendProperties
  <2>6. Len(recent') <= History
    BY <2>3, <2>5, Bounds
  <2>7. ASSUME NEW i \in 1..Len(recent'), NEW j \in 1..Len(recent'), recent'[i] = recent'[j]
        PROVE  i = j
    <3>1. (i \in 1..Len(s) \/ i = Len(s) + 1) /\ (j \in 1..Len(s) \/ j = Len(s) + 1)
      BY <2>3, <2>5
    <3> QED BY <2>3, <2>5, <2>7, <3>1
  <2>8. DOMAIN recent' = 1..Len(recent')
    BY <2>5
  <2> QED BY <2>5, <2>6, <2>7, <2>8 DEF IsHistory, IsInjective
<1> QED BY <1>1, <1>2

\* A history that can hold all payloads is not full while it lacks one.
LEMMA RoomLeft ==
    ASSUME IsFiniteSet(Payload), Cardinality(Payload) <= History, IsHistory(recent),
           NEW p \in Payload, ~Contains(recent, p)
    PROVE  Len(recent) # History
<1> SUFFICES ASSUME Len(recent) = History PROVE FALSE
  OBVIOUS
<1>1. recent \in Seq(Payload) /\ DOMAIN recent = 1..History
      /\ \A i \in 1..History : recent[i] \in Payload \ {p}
  <2>1. recent \in Seq(Payload)
    BY DEF IsHistory
  <2>2. \A i \in 1..History : recent[i] \in Payload /\ recent[i] # p
    BY <2>1, ElementOfSeq DEF Contains
  <2> QED BY <2>1, <2>2
<1>2. recent \in [1..History -> Payload \ {p}]
  BY <1>1
<1>3. IsFiniteSet(1..History) /\ Cardinality(1..History) = History
  BY FS_Interval, Bounds
<1>4. IsFiniteSet(Payload \ {p}) /\ Cardinality(Payload \ {p}) < History
  <2>1. Cardinality(Payload) \in Nat
    BY FS_CardinalityType
  <2>2. IsFiniteSet(Payload \ {p}) /\ Cardinality(Payload \ {p}) = Cardinality(Payload) - 1
    BY FS_RemoveElement
  <2> QED BY <2>1, <2>2, Bounds
<1>5. \E i, j \in 1..History : i # j /\ recent[i] = recent[j]
  BY <1>2, <1>3, <1>4, FS_PigeonHole
<1> QED BY <1>1, <1>5 DEF IsHistory, IsInjective

\* A history that can hold all payloads forgets none.
LEMMA RememberAll ==
    ASSUME IsFiniteSet(Payload), Cardinality(Payload) <= History, IsHistory(recent),
           NEW p \in Payload, Remember(p)
    PROVE  \A x : Contains(recent', x) <=> Contains(recent, x) \/ x = p
<1>1. CASE Contains(recent, p)
  BY <1>1 DEF Remember
<1>2. CASE ~Contains(recent, p)
  <2>1. recent' = Append(recent, p) /\ recent \in Seq(Payload)
    BY <1>2, RoomLeft DEF Remember, IsHistory
  <2>2. Len(recent') = Len(recent) + 1 /\ recent'[Len(recent) + 1] = p
        /\ \A i \in 1..Len(recent) : recent'[i] = recent[i]
    BY <2>1, AppendProperties
  <2>3. Len(recent) \in Nat
    BY <2>1
  <2> QED BY <2>2, <2>3 DEF Contains
<1> QED BY <1>1, <1>2

-----------------------------------------------------------------------------
(* Types                                                                    *)

Batch == [Address -> Payload \cup {0}]
Record == [payload : Payload \cup {0}, live : BOOLEAN]
SignalRecord == [address : Address, payload : Payload \cup {0}, new : BOOLEAN]

LEMMA BatchType ==
    ASSUME NEW devices, NEW data \in [Address -> Record]
    PROVE  /\ Payloads(devices, data) \in Batch /\ Nothing \in Batch
           /\ \A a \in Address : Payloads(devices, data)[a] = IF a \in devices THEN data[a].payload ELSE 0
           /\ \A a \in Address : Nothing[a] = 0
  BY DEF Payloads, Nothing, Batch, Record

LEMMA MessageType ==
    /\ OwnerChanged \in SignalRecord /\ OwnerChanged.payload = 0 /\ OwnerChanged.new
    /\ \A a \in Address, p \in Payload \cup {0}, n \in BOOLEAN :
          [address |-> a, payload |-> p, new |-> n] \in SignalRecord
  BY Bounds DEF OwnerChanged, SignalRecord, Address

\* The first message of the queue.
LEMMA FirstMessage ==
    ASSUME TypeOK, signals # <<>>
    PROVE  /\ Head(signals) \in SignalRecord /\ Tail(signals) \in Seq(SignalRecord)
           /\ 1 \in DOMAIN signals /\ Head(signals) = signals[1]
           /\ \A i \in DOMAIN Tail(signals) : i \in Nat /\ i + 1 \in DOMAIN signals /\ i + 1 > 1
                                              /\ Tail(signals)[i] = signals[i + 1]
<1>1. signals \in Seq(SignalRecord)
  BY DEF TypeOK, SignalRecord
<1>2. Len(signals) \in Nat \ {0} /\ Head(signals) = signals[1]
  BY <1>1, EmptySeq
<1>3. Tail(signals) \in Seq(SignalRecord) /\ Len(Tail(signals)) = Len(signals) - 1 /\ Head(signals) \in SignalRecord
      /\ \A i \in 1..Len(Tail(signals)) : Tail(signals)[i] = signals[i + 1]
  BY <1>1, HeadTailProperties
<1>4. DOMAIN signals = 1..Len(signals) /\ DOMAIN Tail(signals) = 1..Len(Tail(signals))
  BY <1>1, <1>3
<1> QED BY <1>2, <1>3, <1>4

\* A message joins the queue.
LEMMA LastMessage ==
    ASSUME TypeOK, NEW m \in SignalRecord, signals' = Append(signals, m)
    PROVE  /\ signals' \in Seq(SignalRecord)
           /\ \E n \in Nat : /\ DOMAIN signals' = DOMAIN signals \cup {n}
                             /\ signals'[n] = m /\ \A i \in DOMAIN signals : i \in Nat /\ i < n
           /\ \A i \in DOMAIN signals : signals'[i] = signals[i]
<1>1. signals \in Seq(SignalRecord) /\ Len(signals) \in Nat
  BY DEF TypeOK, SignalRecord
<1>2. signals' \in Seq(SignalRecord) /\ Len(signals') = Len(signals) + 1
      /\ (\A i \in 1..Len(signals) : signals'[i] = signals[i]) /\ signals'[Len(signals) + 1] = m
  BY <1>1, AppendProperties
<1>3. DOMAIN signals = 1..Len(signals) /\ DOMAIN signals' = 1..(Len(signals) + 1)
  BY <1>1, <1>2
<1> QED BY <1>1, <1>2, <1>3

\* What an event makes of the cache, also when its snapshot is late: its own sample, or
\* what was there before.
LEMMA CacheFollows ==
    ASSUME TypeOK, Signal
    PROVE  /\ cache' \in [Address -> Record] /\ late' \in BOOLEAN
           /\ \A a \in Address : cache'[a].live =>
                 \/ cache[a].live /\ cache'[a].payload = cache[a].payload
                 \/ cache'[a].payload = Head(signals).payload /\ Head(signals).payload # 0
<1> DEFINE m == Head(signals)
           f == Follow(m)
<1>1. cache \in [Address -> Record] /\ m \in SignalRecord
  BY FirstMessage DEF TypeOK, Record, Signal
<1>2. m.address \in Address /\ m.payload \in Payload \cup {0}
  BY <1>1 DEF SignalRecord
<1> DEFINE r == [payload |-> m.payload, live |-> m.payload # 0]
<1>3. f = cache \/ f = [cache EXCEPT ![m.address] = r]
  BY DEF Follow
<1>0. r \in Record /\ r.payload = m.payload /\ (r.live => m.payload # 0)
  BY <1>2 DEF Record
<1> HIDE DEF f, m, r
<1>4. f \in [Address -> Record]
  BY <1>0, <1>1, <1>3
<1>5. \A a \in Address : f[a].live =>
         \/ cache[a].live /\ f[a].payload = cache[a].payload
         \/ f[a].payload = m.payload /\ m.payload # 0
  BY <1>0, <1>1, <1>2, <1>3
<1>6. (cache' = f \/ cache' = [f EXCEPT ![m.address].live = FALSE]) /\ late' = (late \/ cache' # f)
  BY DEF Signal, f, m
<1>7. late' \in BOOLEAN
  BY <1>6 DEF TypeOK
<1>8. CASE cache' = f
  BY <1>4, <1>5, <1>7, <1>8 DEF m
<1>9. CASE cache' = [f EXCEPT ![m.address].live = FALSE]
  <2>1. cache' \in [Address -> Record]
    BY <1>2, <1>4, <1>9 DEF Record
  <2>2. \A a \in Address : cache'[a].payload = f[a].payload /\ (cache'[a].live => f[a].live)
    BY <1>2, <1>4, <1>9 DEF Record
  <2> QED BY <1>5, <1>7, <2>1, <2>2 DEF m
<1> QED BY <1>6, <1>8, <1>9

LEMMA TypeInit == Init => TypeOK
<1> SUFFICES ASSUME Init PROVE TypeOK
  OBVIOUS
<1>1. 1 \in Address /\ <<>> \in Seq(Payload) /\ Len(<<>>) = 0 /\ <<>> \in Seq(SignalRecord)
  BY Bounds, EmptySeq DEF Address
<1>2. IsInjective(<<>>)
  BY DEF IsInjective
<1>3. {snapshot, seed} \subseteq [Address -> Payload \cup {0}]
  BY DEF Init, Nothing
<1>4. {recent, shown} \subseteq Seq(Payload) /\ Len(recent) <= History /\ IsInjective(recent)
  BY <1>1, <1>2, Bounds DEF Init
<1>5. /\ air \in [payload : Payload \cup {0}, address : Address]
      /\ object \in [Address -> Payload \cup {0}]
      /\ cache \in [Address -> [payload : Payload \cup {0}, live : BOOLEAN]]
  BY <1>1 DEF Init, NotSeen
<1>6. /\ changes \in 0..MaxChanges /\ restarts \in 0..MaxRestarts
      /\ daemons \in 0..MaxDaemons /\ applies \in 0..MaxApplies
  BY Bounds DEF Init
<1> QED BY <1>1, <1>3, <1>4, <1>5, <1>6 DEF TypeOK, Init, SignalRecord

\* The objects and the messages about them are well formed.
LEMMA ObjectType ==
    ASSUME TypeOK, NEW a \in Address, NEW p \in Payload \cup {0}, SetObject(a, p)
    PROVE  TypeOK'
<1>1. [address |-> a, payload |-> p, new |-> object[a] = 0] \in SignalRecord
  BY MessageType
<1>2. signals' \in Seq(SignalRecord) /\ object' \in [Address -> Payload \cup {0}]
  BY <1>1, LastMessage DEF SetObject, TypeOK
<1>3. UNCHANGED <<air, cache, snapshot, seed, mode, recent, shown, late, heard, lost, changes, restarts, daemons, applies>>
  BY DEF SetObject, radio, bounds
<1> QED BY <1>2, <1>3 DEF TypeOK, SignalRecord

\* Every step keeps everything well formed.
LEMMA TypeNext == ASSUME TypeOK, [Next]_vars PROVE TypeOK'
<1>0. /\ cache \in [Address -> Record] /\ snapshot \in Batch /\ seed \in Batch
      /\ IsHistory(recent) /\ shown \in Seq(Payload)
  BY DEF TypeOK, Record, Batch, IsHistory
<1>1. ASSUME NEW p \in Payload, Change(p) PROVE TypeOK'
  <2>1. air' \in [payload : Payload \cup {0}, address : Address]
    BY <1>1 DEF TypeOK, Change
  <2>2. changes' \in 0..MaxChanges
    BY <1>1, Bounds DEF TypeOK, Change
  <2> QED BY <1>1, <2>1, <2>2 DEF TypeOK, Change, radio
<1>2. ASSUME NEW a \in Address, Rotate(a) PROVE TypeOK'
  <2>1. air' \in [payload : Payload \cup {0}, address : Address]
    BY <1>2 DEF TypeOK, Rotate
  <2>2. changes' \in 0..MaxChanges
    BY <1>2, Bounds DEF TypeOK, Rotate
  <2> QED BY <1>2, <2>1, <2>2 DEF TypeOK, Rotate, radio
<1>3. ASSUME NEW a \in Address, Forget(a) PROVE TypeOK'
  BY <1>3, ObjectType DEF Forget
<1>4. CASE Report
  <2>1. air.address \in Address /\ air.payload \in Payload \cup {0}
    BY DEF TypeOK
  <2> QED BY <1>4, <2>1, ObjectType DEF Report
<1>5. CASE Replace
  <2>1. signals' \in Seq(SignalRecord)
    BY <1>5, MessageType, LastMessage DEF Replace
  <2>2. object' \in [Address -> Payload \cup {0}] /\ heard' = FALSE /\ daemons' \in 0..MaxDaemons
    BY <1>5, Bounds DEF Replace, TypeOK
  <2> QED BY <1>5, <2>1, <2>2 DEF TypeOK, Replace, SignalRecord
<1>6. CASE Signal
  <2>1. Head(signals) \in SignalRecord /\ signals' \in Seq(SignalRecord)
    BY <1>6, FirstMessage DEF Signal
  <2>2. cache' \in [Address -> Record] /\ late' \in BOOLEAN
    BY <1>6, CacheFollows
  <2>3. snapshot' \in Batch
    BY <1>6, <2>2, BatchType DEF Signal
  <2> QED BY <1>6, <2>1, <2>2, <2>3 DEF TypeOK, Signal, SignalRecord, Record, Batch, radio, bounds
<1>7. CASE Owner
  <2>1. signals' \in Seq(SignalRecord)
    BY <1>7, FirstMessage DEF Owner
  <2>2. cache' \in [Address -> Record]
    BY <1>0, <1>7 DEF Owner, Record, TypeOK
  <2>3. lost' \in BOOLEAN
    BY <1>7 DEF Owner
  <2> QED BY <1>7, <2>1, <2>2, <2>3 DEF TypeOK, Owner, SignalRecord, Record, bounds
<1>8. CASE Event
  <2>1. snapshot' \in Batch
    BY <1>0, <1>8, BatchType DEF Event
  <2> QED BY <1>8, <2>1 DEF TypeOK, Event, Batch, radio, bounds
<1>9. ASSUME NEW a \in Address, Age(a) PROVE TypeOK'
  <2>1. cache' \in [Address -> Record]
    BY <1>0, <1>9 DEF Age, Record
  <2> QED BY <1>9, <2>1 DEF TypeOK, Age, Record, radio, bounds
<1>10. ASSUME NEW a \in Address, Handle(a) PROVE TypeOK'
  <2>1. snapshot[a] \in Payload /\ snapshot' \in Batch
    BY <1>0, <1>10 DEF Handle, Foremost, Batch
  <2>2. IsHistory(recent') /\ shown' \in Seq(Payload)
    <3>1. CASE UNCHANGED <<recent, shown>>
      BY <1>0, <3>1
    <3>2. CASE Remember(snapshot[a]) /\ shown' = Append(shown, snapshot[a])
      BY <1>0, <2>1, <3>2, RememberHistory, AppendProperties
    <3> QED BY <1>10, <3>1, <3>2 DEF Handle, Publish
  <2> QED BY <1>10, <2>1, <2>2 DEF TypeOK, Handle, Batch, IsHistory, radio, bounds
<1>11. CASE Apply
  BY <1>11, Bounds DEF TypeOK, Apply, radio
<1>12. CASE Recover
  BY <1>12 DEF TypeOK, Recover, bounds
<1>13. CASE Configure
  <2>1. seed' \in Batch
    BY <1>0, <1>13, BatchType DEF Configure
  <2>2. recent' \in Seq(Payload) /\ Len(recent') <= History /\ IsInjective(recent')
    BY <1>13, EmptySeq, Bounds DEF Configure, IsInjective
  <2> QED BY <1>13, <2>1, <2>2 DEF TypeOK, Configure, Batch, radio, bounds
<1>14. CASE Seed
  <2>1. CASE UNCHANGED <<seed, recent>> /\ mode' = "scan" /\ heard' = TRUE
    BY <1>14, <2>1 DEF TypeOK, Seed, bounds
  <2>2. ASSUME NEW a \in Address, Foremost(seed, a), seed' = [seed EXCEPT ![a] = 0],
               Remember(seed[a]), UNCHANGED <<mode, heard>>
        PROVE  TypeOK'
    <3>1. seed[a] \in Payload /\ seed' \in Batch
      BY <1>0, <2>2 DEF Foremost, Batch
    <3>2. IsHistory(recent')
      BY <1>0, <2>2, <3>1, RememberHistory
    <3> QED BY <1>14, <2>2, <3>1, <3>2 DEF TypeOK, Seed, Batch, IsHistory, bounds
  <2> QED BY <1>14, <2>1, <2>2 DEF Seed
<1>15. CASE Restart
  <2>1. cache' \in [Address -> Record]
    BY <1>15 DEF Restart, Record, TypeOK
  <2>2. recent' \in Seq(Payload) /\ Len(recent') <= History /\ IsInjective(recent')
        /\ signals' \in Seq(SignalRecord)
    BY <1>15, EmptySeq, Bounds DEF Restart, IsInjective
  <2>3. {snapshot', seed'} \subseteq Batch
    BY <1>15 DEF Restart, Nothing, Batch
  <2>4. restarts' \in 0..MaxRestarts /\ heard' = FALSE /\ lost' = FALSE /\ mode' = "starting"
    BY <1>15, Bounds DEF Restart, TypeOK
  <2> QED BY <1>15, <2>1, <2>2, <2>3, <2>4 DEF TypeOK, Restart, Record, Batch, SignalRecord
<1>16. CASE UNCHANGED vars
  BY <1>16 DEF TypeOK, vars, radio, bounds
<1> QED BY <1>1, <1>2, <1>3, <1>4, <1>5, <1>6, <1>7, <1>8, <1>9, <1>10, <1>11, <1>12, <1>13, <1>14, <1>15, <1>16
        DEF Next

\* ImportTypes: every variable keeps its type, the history its size, and no payload is in
\* it twice (TransportBridgeManager::handle_advertisement).
THEOREM ImportTypes == Spec => []TypeOK
<1>1. Init => TypeOK
  BY TypeInit
<1>2. TypeOK /\ [Next]_vars => TypeOK'
  BY TypeNext
<1> QED BY <1>1, <1>2, PTL DEF Spec

-----------------------------------------------------------------------------
(* No sample after a later one                                              *)

\* A payload the peer's history lacks, and one that neither the history nor the rest of
\* the seed has: the next snapshot that meets it publishes it.
New(x) == ~Contains(recent, x)
Seeded(x) == \E a \in Address : seed[a] = x
Fresh(x) == x # 0 /\ New(x) /\ ~Seeded(x)

\* What is still to come from bluetoothd and from the peer is not older than x.
Ahead(x) == /\ \A i \in DOMAIN signals : signals[i].payload # 0 => x <= signals[i].payload
            /\ x <= air.payload

\* Samples arrive in the order they were sent, after all that is heard now or published.
Arriving ==
    /\ \A i, j \in DOMAIN signals : i < j /\ signals[j].payload # 0 => signals[i].payload <= signals[j].payload
    /\ \A i \in DOMAIN signals : signals[i].payload <= air.payload
Timely ==
    /\ \A i \in DOMAIN shown : Ahead(shown[i])
    /\ \A a \in Address : cache[a].live => Ahead(cache[a].payload)
    /\ \A a \in Address : Ahead(snapshot[a])

\* A snapshot in progress still shows the cache: no signal is handled meanwhile.
Copied == \A a \in Address : /\ snapshot[a] # 0 => snapshot[a] = cache[a].payload
                             /\ cache[a].live => cache[a].payload # 0

\* News heard now is in the snapshot, and at most one sample is news: the newest.
Freshest ==
    mode # "starting" =>
        /\ \A a \in Address : cache[a].live /\ Fresh(cache[a].payload) =>
              \E b \in Address : snapshot[b] = cache[a].payload
        /\ \A a \in Address : Fresh(snapshot[a]) =>
              /\ \A b \in Address : snapshot[b] <= snapshot[a]
              /\ \A i \in DOMAIN shown : shown[i] <= snapshot[a]

\* Only a new generation of bridges is being seeded.
Seeds == mode # "seeding" => seed = Nothing

NewsInv == Arriving /\ Timely /\ Copied /\ Freshest /\ Seeds

\* All that is compared is a number.
LEMMA Numbers ==
    ASSUME TypeOK
    PROVE  /\ air.payload \in Nat /\ air.address \in Address /\ air.payload \in Payload \cup {0}
           /\ \A a \in Address : /\ snapshot[a] \in Nat /\ seed[a] \in Nat /\ cache[a].payload \in Nat
                                 /\ snapshot[a] \in Payload \cup {0} /\ seed[a] \in Payload \cup {0}
                                 /\ cache[a].payload \in Payload \cup {0} /\ cache[a].live \in BOOLEAN
           /\ \A i \in DOMAIN shown : shown[i] \in Nat
           /\ \A i \in DOMAIN signals : i \in Nat /\ signals[i].payload \in Nat /\ signals[i] \in SignalRecord
           /\ shown \in Seq(Payload) /\ signals \in Seq(SignalRecord)
           /\ cache \in [Address -> Record] /\ snapshot \in Batch /\ seed \in Batch
           /\ IsHistory(recent)
<1>0. \A x \in Payload \cup {0} : x \in Nat
  BY Bounds
<1>1. /\ shown \in Seq(Payload) /\ signals \in Seq(SignalRecord) /\ IsHistory(recent)
      /\ cache \in [Address -> Record] /\ snapshot \in Batch /\ seed \in Batch
  BY DEF TypeOK, SignalRecord, Record, Batch, IsHistory
<1>2. \A a \in Address : cache[a] \in Record /\ snapshot[a] \in Payload \cup {0} /\ seed[a] \in Payload \cup {0}
  BY <1>1 DEF Batch
<1>3. \A a \in Address : /\ snapshot[a] \in Nat /\ seed[a] \in Nat /\ cache[a].payload \in Nat
                         /\ cache[a].payload \in Payload \cup {0} /\ cache[a].live \in BOOLEAN
  BY <1>0, <1>2 DEF Record
<1>4. \A i \in DOMAIN shown : shown[i] \in Payload
  BY <1>1, ElementOfSeq
<1>5. \A i \in DOMAIN signals : signals[i] \in SignalRecord /\ i \in Nat
  BY <1>1, ElementOfSeq
<1>6. \A i \in DOMAIN signals : signals[i].payload \in Nat
  BY <1>0, <1>5 DEF SignalRecord
<1>7. air.payload \in Nat /\ air.address \in Address /\ air.payload \in Payload \cup {0}
  BY <1>0 DEF TypeOK
<1> QED BY <1>0, <1>1, <1>2, <1>3, <1>4, <1>5, <1>6, <1>7

\* A sample published is the last one.
LEMMA LastShown ==
    ASSUME TypeOK, NEW p \in Payload, shown' = Append(shown, p)
    PROVE  /\ shown' # shown /\ Last(shown') = p
           /\ \E n \in Nat : /\ DOMAIN shown' = DOMAIN shown \cup {n}
                             /\ shown'[n] = p /\ \A i \in DOMAIN shown : i \in Nat /\ i < n
           /\ \A i \in DOMAIN shown : shown'[i] = shown[i]
<1>1. shown \in Seq(Payload) /\ Len(shown) \in Nat
  BY DEF TypeOK
<1>2. Len(shown') = Len(shown) + 1
      /\ (\A i \in 1..Len(shown) : shown'[i] = shown[i]) /\ shown'[Len(shown) + 1] = p
      /\ shown' \in Seq(Payload)
  BY <1>1, AppendProperties
<1>3. DOMAIN shown = 1..Len(shown) /\ DOMAIN shown' = 1..(Len(shown) + 1)
  BY <1>1, <1>2
<1>4. shown' # shown
  BY <1>1, <1>2
<1>5. Last(shown') = p
  BY <1>2 DEF Last
<1>6. \A i \in DOMAIN shown : i \in Nat /\ i < Len(shown) + 1 /\ shown'[i] = shown[i]
  BY <1>1, <1>2, <1>3
<1>7. DOMAIN shown' = DOMAIN shown \cup {Len(shown) + 1} /\ Len(shown) + 1 \in Nat
  BY <1>1, <1>3
<1> QED BY <1>2, <1>4, <1>5, <1>6, <1>7

\* The messages left are the former ones.
LEMMA StillAhead ==
    ASSUME TypeOK, signals # <<>>, signals' = Tail(signals), air' = air
    PROVE  \A x : Ahead(x) => Ahead(x)'
  BY FirstMessage, Zenon DEF Ahead

\* A message that carries nothing, or what the peer broadcasts now, is behind nothing.
LEMMA AheadOfLast ==
    ASSUME TypeOK, NEW m \in SignalRecord, signals' = Append(signals, m), air' = air,
           m.payload \in {0, air.payload}
    PROVE  \A x : Ahead(x) => Ahead(x)'
<1>1. PICK n \in Nat : DOMAIN signals' = DOMAIN signals \cup {n} /\ signals'[n] = m
                       /\ \A i \in DOMAIN signals : signals'[i] = signals[i]
  BY LastMessage
<1> SUFFICES ASSUME NEW x, Ahead(x) PROVE Ahead(x)'
  OBVIOUS
<1>2. x <= air'.payload
  BY DEF Ahead
<1>3. ASSUME NEW i \in DOMAIN signals', signals'[i].payload # 0 PROVE x <= signals'[i].payload
  BY <1>1, <1>3 DEF Ahead
<1> QED BY <1>2, <1>3 DEF Ahead

LEMMA ArrivingNext ==
    ASSUME Distinct, TypeOK, Arriving, [Next]_vars
    PROVE  Arriving'
<1>0. /\ air.payload \in Nat /\ \A i \in DOMAIN signals : i \in Nat /\ signals[i].payload \in Nat
  BY Numbers
<1>1. ASSUME NEW p \in Payload, Change(p) PROVE Arriving'
  <2>1. signals' = signals /\ air'.payload = p /\ p > air.payload /\ p \in Nat
    BY <1>1, Bounds DEF Change, TypeOK
  <2> QED BY <1>0, <2>1 DEF Arriving
<1>2. ASSUME NEW a \in Address, Rotate(a) PROVE Arriving'
  <2>1. signals' = signals /\ air'.payload = air.payload
    BY <1>2 DEF Rotate, TypeOK
  <2> QED BY <2>1 DEF Arriving
<1>3. ASSUME NEW m \in SignalRecord, signals' = Append(signals, m), air' = air, m.payload \in {0, air.payload}
      PROVE  Arriving'
  <2>1. PICK n \in Nat : /\ DOMAIN signals' = DOMAIN signals \cup {n} /\ signals'[n] = m
                         /\ \A i \in DOMAIN signals : i \in Nat /\ i < n /\ signals'[i] = signals[i]
    BY <1>3, LastMessage
  <2>2. \A i \in DOMAIN signals' : signals'[i].payload <= air'.payload
    BY <1>0, <1>3, <2>1 DEF Arriving
  <2>3. ASSUME NEW i \in DOMAIN signals', NEW j \in DOMAIN signals', i < j, signals'[j].payload # 0
        PROVE  signals'[i].payload <= signals'[j].payload
    <3>1. i \in DOMAIN signals /\ i # n
      BY <2>1, <2>3
    <3>2. CASE j = n
      BY <1>3, <2>1, <2>3, <3>1, <3>2 DEF Arriving
    <3>3. CASE j \in DOMAIN signals
      BY <2>1, <2>3, <3>1, <3>3 DEF Arriving
    <3> QED BY <2>1, <3>2, <3>3
  <2> QED BY <2>2, <2>3 DEF Arriving
<1>4. ASSUME NEW a \in Address, NEW p \in {0, air.payload}, SetObject(a, p) PROVE Arriving'
  <2>1. [address |-> a, payload |-> p, new |-> object[a] = 0] \in SignalRecord
    BY <1>4, Numbers, MessageType
  <2> QED BY <1>3, <1>4, <2>1 DEF SetObject
<1>5. CASE Report
  BY <1>4, <1>5, Numbers DEF Report
<1>6. ASSUME NEW a \in Address, Forget(a) PROVE Arriving'
  BY <1>4, <1>6 DEF Forget
<1>7. CASE Replace
  BY <1>3, <1>7, MessageType DEF Replace
<1>8. CASE Signal \/ Owner
  <2>1. signals # <<>> /\ signals' = Tail(signals) /\ air' = air
    BY <1>8 DEF Signal, Owner
  <2>2. \A i \in DOMAIN signals' : i + 1 \in DOMAIN signals /\ signals'[i] = signals[i + 1] /\ i \in Nat
    BY <2>1, FirstMessage
  <2>3. ASSUME NEW i \in DOMAIN signals', NEW j \in DOMAIN signals', i < j, signals'[j].payload # 0
        PROVE  signals'[i].payload <= signals'[j].payload
    <3>1. i + 1 < j + 1
      BY <2>2, <2>3
    <3> QED BY <2>2, <2>3, <3>1 DEF Arriving
  <2> QED BY <2>1, <2>2, <2>3 DEF Arriving
<1>9. CASE Restart
  BY <1>9, EmptySeq DEF Restart, Arriving
<1>10. CASE \/ \E a \in Address : Age(a) \/ Handle(a)
            \/ Event \/ Apply \/ Recover \/ Configure \/ Seed \/ UNCHANGED vars
  <2>1. UNCHANGED <<signals, air>>
    BY <1>10, Zenon DEF Age, Handle, Event, Apply, Recover, Configure, Seed, vars
  <2> QED BY <2>1 DEF Arriving
<1> QED BY <1>1, <1>2, <1>5, <1>6, <1>7, <1>8, <1>9, <1>10 DEF Next

\* What nothing will be behind stays so.
LEMMA AheadNext ==
    ASSUME Distinct, TypeOK, [Next]_vars
    PROVE  \A x \in Nat : Ahead(x) => Ahead(x)'
<1>1. ASSUME NEW p \in Payload, Change(p) PROVE \A x \in Nat : Ahead(x) => Ahead(x)'
  <2>1. signals' = signals /\ air'.payload = p /\ p > air.payload /\ p \in Nat /\ air.payload \in Nat
    BY <1>1, Bounds, Numbers DEF Change, TypeOK
  <2> QED BY <2>1 DEF Ahead
<1>2. ASSUME NEW a \in Address, Rotate(a) PROVE \A x \in Nat : Ahead(x) => Ahead(x)'
  <2>1. signals' = signals /\ air'.payload = air.payload
    BY <1>2 DEF Rotate, TypeOK
  <2> QED BY <2>1 DEF Ahead
<1>3. ASSUME NEW a \in Address, NEW p \in {0, air.payload}, SetObject(a, p)
      PROVE  \A x \in Nat : Ahead(x) => Ahead(x)'
  <2>1. [address |-> a, payload |-> p, new |-> object[a] = 0] \in SignalRecord
    BY <1>3, Numbers, MessageType
  <2> QED BY <1>3, <2>1, AheadOfLast DEF SetObject
<1>4. CASE Report
  BY <1>3, <1>4, Numbers DEF Report
<1>5. ASSUME NEW a \in Address, Forget(a) PROVE \A x \in Nat : Ahead(x) => Ahead(x)'
  BY <1>3, <1>5 DEF Forget
<1>6. CASE Replace
  BY <1>6, MessageType, AheadOfLast DEF Replace
<1>7. CASE Signal \/ Owner
  BY <1>7, StillAhead DEF Signal, Owner
<1>8. CASE Restart
  BY <1>8, EmptySeq DEF Restart, Ahead
<1>9. CASE \/ \E a \in Address : Age(a) \/ Handle(a)
           \/ Event \/ Apply \/ Recover \/ Configure \/ Seed \/ UNCHANGED vars
  <2>1. UNCHANGED <<signals, air>>
    BY <1>9, Zenon DEF Age, Handle, Event, Apply, Recover, Configure, Seed, vars
  <2> QED BY <2>1 DEF Ahead
<1> QED BY <1>1, <1>2, <1>4, <1>5, <1>6, <1>7, <1>8, <1>9 DEF Next

\* What an event makes of the cache: its own sample, or what was heard before.
LEMMA Followed ==
    ASSUME TypeOK, Signal
    PROVE  /\ Head(signals) \in SignalRecord /\ Head(signals) = signals[1] /\ 1 \in DOMAIN signals
           /\ cache' \in [Address -> Record]
           /\ \A a \in Address :
                 /\ snapshot'[a] = IF cache'[a].live THEN cache'[a].payload ELSE 0
                 /\ cache'[a].live =>
                       \/ cache[a].live /\ cache'[a].payload = cache[a].payload
                       \/ cache'[a].payload = signals[1].payload /\ signals[1].payload # 0
<1>1. Head(signals) \in SignalRecord /\ Head(signals) = signals[1] /\ 1 \in DOMAIN signals
  BY FirstMessage DEF Signal
<1>2. cache' \in [Address -> Record]
  BY CacheFollows
<1>3. \A a \in Address : snapshot'[a] = IF cache'[a].live THEN cache'[a].payload ELSE 0
  BY <1>2, BatchType DEF Signal
<1>4. ASSUME NEW a \in Address, cache'[a].live
      PROVE  \/ cache[a].live /\ cache'[a].payload = cache[a].payload
             \/ cache'[a].payload = signals[1].payload /\ signals[1].payload # 0
  BY <1>1, <1>4, CacheFollows
<1> QED BY <1>1, <1>2, <1>3, <1>4

\* Another event shows what was heard before.
LEMMA Shown ==
    ASSUME TypeOK, Event
    PROVE  \A a \in Address : snapshot'[a] = IF cache[a].live THEN cache[a].payload ELSE 0
  BY Numbers, BatchType DEF Event

\* Publishing a device publishes its sample once.
LEMMA Published ==
    ASSUME TypeOK, NEW a \in Address, Handle(a)
    PROVE  /\ snapshot[a] \in Payload /\ snapshot[a] # 0
           /\ \A b \in Address : snapshot'[b] = IF b = a THEN 0 ELSE snapshot[b]
           /\ \/ UNCHANGED <<recent, shown>> /\ (mode = "starting" \/ Contains(recent, snapshot[a]))
              \/ /\ mode # "starting" /\ ~Contains(recent, snapshot[a])
                 /\ Remember(snapshot[a]) /\ shown' = Append(shown, snapshot[a])
<1>1. snapshot[a] \in Payload /\ snapshot[a] # 0
  BY Numbers, Bounds DEF Handle, Foremost
<1>2. \A b \in Address : snapshot'[b] = IF b = a THEN 0 ELSE snapshot[b]
  BY Numbers DEF Handle, Batch
<1>3. mode = "starting" => UNCHANGED <<recent, shown>>
  BY DEF Handle
<1>4. mode # "starting" /\ Contains(recent, snapshot[a]) => UNCHANGED <<recent, shown>>
  BY DEF Handle, Publish
<1>5. mode # "starting" /\ ~Contains(recent, snapshot[a]) =>
          Remember(snapshot[a]) /\ shown' = Append(shown, snapshot[a])
  BY DEF Handle, Publish
<1> QED BY <1>1, <1>2, <1>3, <1>4, <1>5

LEMMA TimelyNext ==
    ASSUME Distinct, TypeOK, Arriving, Timely, [Next]_vars
    PROVE  Timely'
<1> DEFINE Later(x) == /\ \A i \in DOMAIN signals' : signals'[i].payload # 0 => x <= signals'[i].payload
                       /\ x <= air'.payload
<1>1. \A x \in Nat : Ahead(x) => Later(x)
  BY AheadNext DEF Ahead
<1>2. Later(0)
  <2>1. Ahead(0)
    BY Numbers DEF Ahead
  <2> QED BY <1>1, <2>1
<1>3. \A i \in DOMAIN shown : Later(shown[i])
  BY <1>1, Numbers DEF Timely
<1>4. \A a \in Address : Later(snapshot[a]) /\ (cache[a].live => Later(cache[a].payload))
  BY <1>1, Numbers DEF Timely
<1> HIDE DEF Later
<1>5. \A i \in DOMAIN shown' : Later(shown'[i])
  <2>1. ASSUME NEW a \in Address, Handle(a), shown' = Append(shown, snapshot[a]), snapshot[a] \in Payload
        PROVE  \A i \in DOMAIN shown' : Later(shown'[i])
    BY <1>3, <1>4, <2>1, LastShown
  <2>2. CASE shown' = shown
    BY <1>3, <2>2
  <2>3. ASSUME NEW a \in Address, Handle(a) PROVE \A i \in DOMAIN shown' : Later(shown'[i])
    BY <2>1, <2>2, <2>3, Published
  <2>4. shown' = shown \/ \E a \in Address : Handle(a)
    BY Zenon DEF Next, Change, Rotate, Forget, Age, Report, SetObject, Replace, Signal, Owner, Event,
                 Apply, Recover, Configure, Seed, Restart, vars
  <2> QED BY <2>2, <2>3, <2>4
<1>6. \A a \in Address : Later(snapshot'[a]) /\ (cache'[a].live => Later(cache'[a].payload))
  <2>1. CASE Signal
    <3>1. Later(signals[1].payload)
      <4>1. signals[1].payload \in Nat /\ signals[1].payload <= air'.payload /\ air' = air
        BY <2>1, Followed, Numbers DEF Signal, Arriving
      <4>2. ASSUME NEW i \in DOMAIN signals', signals'[i].payload # 0
            PROVE  signals[1].payload <= signals'[i].payload
        <5>1. i + 1 \in DOMAIN signals /\ 1 < i + 1 /\ signals'[i] = signals[i + 1] /\ 1 \in DOMAIN signals
          BY <2>1, FirstMessage DEF Signal
        <5> QED BY <4>2, <5>1 DEF Arriving
      <4> QED BY <4>1, <4>2 DEF Later
    <3>2. \A a \in Address : cache'[a].live => Later(cache'[a].payload)
      BY <1>4, <2>1, <3>1, Followed
    <3> QED BY <1>2, <2>1, <3>2, Followed
  <2>2. CASE Owner
    BY <1>4, <2>2 DEF Owner
  <2>3. CASE Event
    <3>1. cache' = cache
      BY <2>3 DEF Event
    <3> QED BY <1>2, <1>4, <2>3, <3>1, Shown
  <2>4. ASSUME NEW b \in Address, Age(b)
        PROVE  \A a \in Address : Later(snapshot'[a]) /\ (cache'[a].live => Later(cache'[a].payload))
    <3>1. snapshot' = snapshot /\ \A a \in Address : cache'[a].payload = cache[a].payload
                                                     /\ (cache'[a].live => cache[a].live)
      BY <2>4, Numbers DEF Age, Record
    <3> QED BY <1>4, <3>1
  <2>5. ASSUME NEW b \in Address, Handle(b)
        PROVE  \A a \in Address : Later(snapshot'[a]) /\ (cache'[a].live => Later(cache'[a].payload))
    <3>1. cache' = cache
      BY <2>5 DEF Handle
    <3>2. \A a \in Address : snapshot'[a] = IF a = b THEN 0 ELSE snapshot[a]
      BY <2>5, Published
    <3> QED BY <1>2, <1>4, <3>1, <3>2
  <2>6. CASE Restart
    BY <1>2, <2>6 DEF Restart, Nothing
  <2>7. CASE UNCHANGED <<cache, snapshot>>
    BY <1>4, <2>7
  <2>8. \/ UNCHANGED <<cache, snapshot>> \/ Signal \/ Owner \/ Event \/ Restart
        \/ \E a \in Address : Handle(a) \/ Age(a)
    BY Zenon DEF Next, Change, Rotate, Forget, Report, SetObject, Replace, Apply, Recover, Configure, Seed, vars
  <2> QED BY <2>1, <2>2, <2>3, <2>4, <2>5, <2>6, <2>7, <2>8
<1> QED BY <1>5, <1>6 DEF Timely, Ahead, Later

LEMMA CopiedNext ==
    ASSUME TypeOK, Copied, [Next]_vars
    PROVE  Copied'
<1>1. CASE Signal
  <2>1. ASSUME NEW a \in Address, cache'[a].live PROVE cache'[a].payload # 0
    BY <1>1, <2>1, Followed DEF Copied
  <2> QED BY <1>1, <2>1, Followed DEF Copied
<1>2. CASE Owner
  <2>1. \A a \in Address : ~cache'[a].live /\ snapshot'[a] = 0
    BY <1>2 DEF Owner, Nothing
  <2> QED BY <2>1 DEF Copied
<1>3. CASE Event
  <2>1. cache' = cache
    BY <1>3 DEF Event
  <2> QED BY <1>3, <2>1, Shown DEF Copied
<1>4. ASSUME NEW b \in Address, Age(b) PROVE Copied'
  <2>1. snapshot' = snapshot /\ \A a \in Address : cache'[a].payload = cache[a].payload
                                                   /\ (cache'[a].live => cache[a].live)
    BY <1>4, Numbers DEF Age, Record
  <2> QED BY <2>1 DEF Copied
<1>5. ASSUME NEW b \in Address, Handle(b) PROVE Copied'
  <2>1. cache' = cache /\ \A a \in Address : snapshot'[a] = IF a = b THEN 0 ELSE snapshot[a]
    BY <1>5, Published DEF Handle
  <2> QED BY <2>1 DEF Copied
<1>6. CASE Restart
  BY <1>6 DEF Restart, Copied, Nothing
<1>7. CASE UNCHANGED <<cache, snapshot>>
  BY <1>7 DEF Copied
<1>8. \/ UNCHANGED <<cache, snapshot>> \/ Signal \/ Owner \/ Event \/ Restart
      \/ \E a \in Address : Handle(a) \/ Age(a)
  BY Zenon DEF Next, Change, Rotate, Forget, Report, SetObject, Replace, Apply, Recover, Configure, Seed, vars
<1> QED BY <1>1, <1>2, <1>3, <1>4, <1>5, <1>6, <1>7, <1>8

LEMMA SeedsNext ==
    ASSUME Seeds, [Next]_vars
    PROVE  Seeds'
<1>1. CASE Configure
  BY <1>1 DEF Configure, Seeds
<1>2. CASE Seed
  BY <1>2 DEF Seed, Seeds
<1>3. CASE Restart
  BY <1>3 DEF Restart, Seeds, Nothing
<1>4. CASE Apply \/ Recover
  BY <1>4 DEF Apply, Recover, Seeds, Nothing
<1>5. CASE UNCHANGED <<mode, seed>>
  BY <1>5 DEF Seeds, Nothing
<1>6. UNCHANGED <<mode, seed>> \/ Configure \/ Seed \/ Restart \/ Apply \/ Recover
  BY Zenon DEF Next, Change, Rotate, Forget, Age, Handle, Report, SetObject, Replace, Signal, Owner, Event, vars
<1> QED BY <1>1, <1>2, <1>3, <1>4, <1>5, <1>6

LEMMA FreshestNext ==
    ASSUME IsFiniteSet(Payload), Cardinality(Payload) <= History,
           TypeOK, Timely, Copied, Freshest, [Next]_vars
    PROVE  Freshest'
<1> DEFINE Later(x) == x # 0 /\ ~Contains(recent', x) /\ ~\E a \in Address : seed'[a] = x
           Kept(a) == cache'[a].live /\ Later(cache'[a].payload) =>
                        \E b \in Address : snapshot'[b] = cache'[a].payload
           Newest(a) == Later(snapshot'[a]) =>
                          /\ \A b \in Address : snapshot'[b] <= snapshot'[a]
                          /\ \A i \in DOMAIN shown' : shown'[i] <= snapshot'[a]
<1> SUFFICES ASSUME mode' # "starting" PROVE \A a \in Address : Kept(a) /\ Newest(a)
  BY DEF Freshest, Fresh, New, Seeded
<1>1. ASSUME UNCHANGED <<recent, seed>> PROVE \A x : Later(x) => Fresh(x)
  BY <1>1 DEF Fresh, New, Seeded
<1>2. ASSUME snapshot = Nothing, mode # "starting", NEW a \in Address, cache[a].live PROVE ~Fresh(cache[a].payload)
  BY <1>2, BatchType, Numbers DEF Freshest, Fresh
<1> HIDE DEF Later
<1>3. CASE Signal
  <2>1. snapshot = Nothing /\ mode # "starting" /\ UNCHANGED <<recent, seed, shown>>
    BY <1>3 DEF Signal
  <2>2. ASSUME NEW a \in Address PROVE Kept(a)
    BY <1>3, Followed
  <2>3. ASSUME NEW a \in Address, Later(snapshot'[a]) PROVE Newest(a)
    <3>1. cache'[a].live /\ snapshot'[a] = cache'[a].payload
      BY <1>3, <2>3, Followed DEF Later
    <3>2. snapshot'[a] = signals[1].payload /\ signals[1].payload # 0 /\ 1 \in DOMAIN signals
      BY <1>1, <1>2, <1>3, <2>1, <2>3, <3>1, Followed
    <3>3. \A b \in Address : snapshot'[b] <= signals[1].payload
      <4>1. \A b \in Address : cache[b].live => cache[b].payload <= signals[1].payload
        BY <3>2 DEF Timely, Ahead
      <4>2. signals[1].payload \in Nat
        BY <3>2, Numbers
      <4> QED BY <1>3, <4>1, <4>2, Followed
    <3>4. \A i \in DOMAIN shown : shown[i] <= signals[1].payload
      BY <3>2 DEF Timely, Ahead
    <3> QED BY <2>1, <3>2, <3>3, <3>4
  <2> QED BY <2>2, <2>3
<1>4. CASE Owner
  <2>1. UNCHANGED <<recent, seed, shown, snapshot, mode>> /\ \A a \in Address : ~cache'[a].live
    BY <1>4 DEF Owner
  <2>2. ASSUME NEW a \in Address PROVE Newest(a)
    BY <1>1, <2>1 DEF Freshest
  <2> QED BY <2>1, <2>2
<1>5. CASE Event
  <2>1. snapshot = Nothing /\ mode # "starting" /\ UNCHANGED <<recent, seed, shown, cache>>
    BY <1>5 DEF Event
  <2>2. ASSUME NEW a \in Address PROVE Kept(a) /\ ~Later(snapshot'[a])
    <3>1. snapshot'[a] = IF cache[a].live THEN cache[a].payload ELSE 0
      BY <1>5, Shown
    <3>2. Kept(a)
      BY <2>1, <3>1
    <3>3. ~Later(snapshot'[a])
      BY <1>1, <1>2, <2>1, <3>1 DEF Later
    <3> QED BY <3>2, <3>3
  <2> QED BY <2>2
<1>6. ASSUME NEW b \in Address, Age(b) PROVE \A a \in Address : Kept(a) /\ Newest(a)
  <2>1. UNCHANGED <<recent, seed, shown, snapshot, mode>>
        /\ \A a \in Address : cache'[a].payload = cache[a].payload /\ (cache'[a].live => cache[a].live)
    BY <1>6, Numbers DEF Age, Record
  <2> QED BY <1>1, <2>1 DEF Freshest
<1>7. ASSUME NEW c \in Address, Handle(c) PROVE \A a \in Address : Kept(a) /\ Newest(a)
  <2> DEFINE p == snapshot[c]
  <2>1. UNCHANGED <<cache, seed, mode>> /\ p \in Payload /\ p # 0
        /\ \A b \in Address : snapshot'[b] = IF b = c THEN 0 ELSE snapshot[b]
    BY <1>7, Published DEF Handle
  <2>2. \/ UNCHANGED <<recent, shown>> /\ Contains(recent, p)
        \/ ~Contains(recent, p) /\ Remember(p) /\ shown' = Append(shown, p)
    BY <1>7, <2>1, Published
  <2>3. \A x : Contains(recent', x) <=> Contains(recent, x) \/ x = p
    BY <2>1, <2>2, Numbers, RememberAll
  <2>4. \A x : Later(x) => Fresh(x) /\ x # p
    BY <2>1, <2>3 DEF Later, Fresh, New, Seeded
  <2>5. ASSUME NEW a \in Address PROVE Kept(a)
    BY <2>1, <2>4 DEF Freshest
  <2>6. ASSUME NEW a \in Address, Later(snapshot'[a]) PROVE Newest(a)
    <3>1. snapshot'[a] = snapshot[a] /\ Fresh(snapshot[a]) /\ snapshot[a] \in Nat
      BY <2>1, <2>4, <2>6, Numbers DEF Later
    <3>2. /\ \A b \in Address : snapshot[b] <= snapshot[a]
          /\ \A i \in DOMAIN shown : shown[i] <= snapshot[a]
      BY <2>1, <3>1 DEF Freshest
    <3>3. \A b \in Address : snapshot'[b] <= snapshot[a]
      BY <2>1, <3>1, <3>2
    <3>4. \A i \in DOMAIN shown' : shown'[i] <= snapshot[a]
      BY <2>1, <2>2, <3>2, LastShown
    <3> QED BY <3>1, <3>3, <3>4
  <2> QED BY <2>5, <2>6
<1>8. CASE Configure
  <2>1. cache' = cache /\ snapshot' = snapshot /\ seed' = Payloads(Address, cache)
    BY <1>8 DEF Configure
  <2>2. \A a \in Address : seed'[a] = cache[a].payload
    BY <2>1, BatchType, Numbers
  <2>3. ASSUME NEW a \in Address PROVE ~Later(cache'[a].payload) /\ ~Later(snapshot'[a])
    BY <2>1, <2>2 DEF Later, Copied
  <2> QED BY <2>3
<1>9. CASE Seed
  <2>1. UNCHANGED <<cache, snapshot, shown>> /\ mode # "starting"
    BY <1>9 DEF Seed
  <2>2. \A x : Later(x) => Fresh(x)
    <3>1. CASE UNCHANGED <<seed, recent>>
      BY <1>1, <3>1
    <3>2. ASSUME NEW a \in Address, Foremost(seed, a), seed' = [seed EXCEPT ![a] = 0], Remember(seed[a])
          PROVE  \A x : Later(x) => Fresh(x)
      <4>1. seed[a] \in Payload /\ \A b \in Address : seed'[b] = IF b = a THEN 0 ELSE seed[b]
        BY <3>2, Numbers DEF Foremost, Batch
      <4>2. \A x : Contains(recent', x) <=> Contains(recent, x) \/ x = seed[a]
        BY <3>2, <4>1, Numbers, RememberAll
      <4> QED BY <4>1, <4>2 DEF Later, Fresh, New, Seeded
    <3> QED BY <1>9, <3>1, <3>2 DEF Seed
  <2> QED BY <2>1, <2>2 DEF Freshest
<1>10. CASE Restart
  BY <1>10 DEF Restart
<1>11. CASE UNCHANGED <<recent, seed, shown, snapshot, cache>> /\ (UNCHANGED mode \/ mode = "scan")
  BY <1>1, <1>11 DEF Freshest
<1>12. \/ Signal \/ Owner \/ Event \/ Configure \/ Seed \/ Restart
       \/ \E a \in Address : Handle(a) \/ Age(a)
       \/ UNCHANGED <<recent, seed, shown, snapshot, cache>> /\ (UNCHANGED mode \/ mode = "scan")
  BY Zenon DEF Next, Change, Rotate, Forget, Report, SetObject, Replace, Apply, Recover, vars
<1> QED BY <1>3, <1>4, <1>5, <1>6, <1>7, <1>8, <1>9, <1>10, <1>11, <1>12

LEMMA NewsInit == Init => NewsInv
<1> SUFFICES ASSUME Init PROVE NewsInv
  OBVIOUS
<1>1. signals = <<>> /\ shown = <<>> /\ air.payload = 0 /\ mode = "starting" /\ snapshot = Nothing /\ seed = Nothing
      /\ \A a \in Address : ~cache[a].live /\ snapshot[a] = 0
  BY DEF Init, NotSeen, Nothing
<1>2. Arriving /\ Timely
  BY <1>1, EmptySeq DEF Arriving, Timely, Ahead
<1>3. Copied /\ Freshest /\ Seeds
  BY <1>1 DEF Copied, Freshest, Seeds
<1> QED BY <1>2, <1>3 DEF NewsInv

\* What the topic depends on, for samples that differ and a history that can hold them.
LEMMA NewsNext ==
    ASSUME Distinct, IsFiniteSet(Payload), Cardinality(Payload) <= History,
           TypeOK, NewsInv, [Next]_vars
    PROVE  NewsInv'
<1>1. Arriving' /\ Timely' /\ Copied' /\ Freshest' /\ Seeds'
  BY ArrivingNext, TimelyNext, CopiedNext, FreshestNext, SeedsNext DEF NewsInv
<1> QED BY <1>1 DEF NewsInv

\* The topic changes by one sample, which is a device's of the snapshot in progress, and
\* not older than the topic unless the bridges are being seeded.
LEMMA NextShown ==
    ASSUME TypeOK, NewsInv, [Next]_vars, shown' # shown
    PROVE  \E a \in Address :
              /\ Handle(a) /\ snapshot[a] \in Payload /\ shown' = Append(shown, snapshot[a])
              /\ ~Contains(recent, snapshot[a]) /\ Remember(snapshot[a])
              /\ mode # "starting" /\ snapshot # Nothing
              /\ mode = "scan" => \A i \in DOMAIN shown : shown[i] <= snapshot[a]
<1>1. PICK a \in Address : Handle(a)
  BY Zenon DEF Next, Change, Rotate, Forget, Age, Report, SetObject, Replace, Signal, Owner, Event,
               Apply, Recover, Configure, Seed, Restart, vars
<1>2. /\ snapshot[a] \in Payload /\ snapshot[a] # 0 /\ mode # "starting" /\ ~Contains(recent, snapshot[a])
      /\ Remember(snapshot[a]) /\ shown' = Append(shown, snapshot[a])
  BY <1>1, Published
<1>3. snapshot # Nothing
  BY <1>2, BatchType, Numbers
<1>4. ASSUME mode = "scan" PROVE \A i \in DOMAIN shown : shown[i] <= snapshot[a]
  <2>1. ~Seeded(snapshot[a])
    <3>1. seed = Nothing
      BY <1>4 DEF NewsInv, Seeds
    <3>2. \A b \in Address : seed[b] = 0
      BY <3>1 DEF Nothing
    <3> QED BY <1>2, <3>2 DEF Seeded
  <2>2. Fresh(snapshot[a])
    BY <1>2, <2>1 DEF Fresh, New
  <2> QED BY <1>4, <2>2 DEF NewsInv, Freshest
<1> QED BY <1>1, <1>2, <1>3, <1>4

\* SettledStays: once the new bridges are seeded and the scan is back, nothing that the
\* service still has cached, or is handling, is published after a later sample, whatever
\* was restarted, replaced or applied before (ServiceNode::apply_config,
\* TransportBridgeManager::configure).
THEOREM SettledStays ==
    ASSUME Distinct, IsFiniteSet(Payload), Cardinality(Payload) <= History
    PROVE  Spec => SettledNeverBack
<1>1. Init => TypeOK /\ NewsInv
  BY TypeInit, NewsInit
<1>2. TypeOK /\ NewsInv /\ [Next]_vars => TypeOK' /\ NewsInv'
  BY TypeNext, NewsNext
<1>3. TypeOK /\ NewsInv /\ [Next]_vars =>
         [mode = "scan" /\ shown' # shown => \A i \in DOMAIN shown : shown[i] <= Last(shown')]_vars
  BY NextShown, LastShown
<1> QED BY <1>1, <1>2, <1>3, PTL DEF Spec, SettledNeverBack

-----------------------------------------------------------------------------
(* One replaced bluetoothd                                                  *)

\* With one replacement of bluetoothd and no hot change, the service is deaf until the
\* scan that follows: nothing it knows counts as heard.
Replaced == \E i \in DOMAIN signals : signals[i] = OwnerChanged
Deaf ==
    /\ \A i \in DOMAIN signals : signals[i].payload = 0
    /\ \A a \in Address : ~cache[a].live
    /\ snapshot = Nothing
Wait ==
    /\ daemons = 0 => ~Replaced /\ ~lost
    /\ \A i, j \in DOMAIN signals :
          signals[i] = OwnerChanged => /\ signals[j] = OwnerChanged => i = j
                                       /\ i < j => signals[j].payload = 0
    /\ Replaced => ~lost /\ ~heard
    /\ mode # "scan" => ~heard /\ ~lost /\ ~Replaced
    /\ lost => ~heard
    /\ ~heard /\ ~Replaced => Deaf

Awaited == applies = 0 /\ daemons <= 1 => Wait

LEMMA AwaitedInit == Init => Awaited
<1> SUFFICES ASSUME Init PROVE Wait
  BY DEF Awaited
<1>1. signals = <<>> /\ lost = FALSE /\ heard = FALSE /\ mode = "starting" /\ snapshot = Nothing
      /\ \A a \in Address : ~cache[a].live
  BY DEF Init, NotSeen
<1> QED BY <1>1, EmptySeq DEF Wait, Replaced, Deaf

\* A message about an object: it is not the one about a new bluetoothd, and it carries a
\* sample only if the service listens.
LEMMA WaitObject ==
    ASSUME TypeOK, Wait, NEW a \in Address, NEW p \in Payload \cup {0}, SetObject(a, p), p = 0 \/ heard
    PROVE  Wait'
<1> DEFINE m == [address |-> a, payload |-> p, new |-> object[a] = 0]
<1>1. m \in SignalRecord /\ signals' = Append(signals, m) /\ m.payload = p
  BY MessageType DEF SetObject
<1>2. m # OwnerChanged
  BY DEF SetObject, OwnerChanged
<1>3. UNCHANGED <<lost, heard, mode, daemons, cache, snapshot>>
  BY DEF SetObject, radio, bounds
<1> HIDE DEF m
<1>4. PICK n \in Nat : /\ DOMAIN signals' = DOMAIN signals \cup {n} /\ signals'[n] = m
                       /\ \A i \in DOMAIN signals : i \in Nat /\ i < n /\ signals'[i] = signals[i]
  BY <1>1, LastMessage
<1>5. Replaced' <=> Replaced
  BY <1>2, <1>4 DEF Replaced, OwnerChanged
<1>6. ASSUME NEW i \in DOMAIN signals', NEW j \in DOMAIN signals', signals'[i] = OwnerChanged
      PROVE  (signals'[j] = OwnerChanged => i = j) /\ (i < j => signals'[j].payload = 0)
  <2>1. i \in DOMAIN signals /\ signals[i] = OwnerChanged /\ Replaced
    BY <1>2, <1>4, <1>6 DEF Replaced
  <2>2. CASE j = n
    BY <1>1, <1>2, <1>4, <2>1, <2>2 DEF Wait
  <2>3. CASE j \in DOMAIN signals
    BY <1>4, <2>1, <2>3 DEF Wait
  <2> QED BY <1>4, <2>2, <2>3
<1>7. ASSUME ~heard, ~Replaced PROVE \A i \in DOMAIN signals' : signals'[i].payload = 0
  BY <1>1, <1>4, <1>7 DEF Wait, Deaf
<1>8. OwnerChanged' = OwnerChanged
  BY DEF OwnerChanged
<1> QED BY <1>3, <1>5, <1>6, <1>7, <1>8 DEF Wait, Deaf, Nothing

\* A new bluetoothd; the service does not know of it yet.
LEMMA WaitReplace ==
    ASSUME TypeOK, Wait, Replace, daemons = 0
    PROVE  Wait'
<1>1. /\ signals' = Append(signals, OwnerChanged) /\ mode = "scan" /\ heard' = FALSE /\ lost' = FALSE
      /\ UNCHANGED <<mode, lost>> /\ daemons' = 1
  BY DEF Replace, Wait, TypeOK
<1>2. PICK n \in Nat : /\ DOMAIN signals' = DOMAIN signals \cup {n} /\ signals'[n] = OwnerChanged
                       /\ \A i \in DOMAIN signals : i \in Nat /\ i < n /\ signals'[i] = signals[i]
  BY <1>1, LastMessage, MessageType
<1>3. ~Replaced /\ Replaced'
  BY <1>2 DEF Wait, Replaced, OwnerChanged
<1>4. ASSUME NEW i \in DOMAIN signals', NEW j \in DOMAIN signals', signals'[i] = OwnerChanged
      PROVE  (signals'[j] = OwnerChanged => i = j) /\ (i < j => signals'[j].payload = 0)
  <2>1. i = n /\ (signals'[j] = OwnerChanged => j = n)
    BY <1>2, <1>3, <1>4 DEF Replaced
  <2>2. ~(n < j)
    BY <1>2
  <2> QED BY <2>1, <2>2
<1>5. OwnerChanged' = OwnerChanged
  BY DEF OwnerChanged
<1> QED BY <1>1, <1>3, <1>4, <1>5 DEF Wait

\* The messages that are left when the first is handled.
LEMMA WaitTail ==
    ASSUME TypeOK, Wait, signals # <<>>, signals' = Tail(signals)
    PROVE  /\ \A i, j \in DOMAIN signals' :
                 signals'[i] = OwnerChanged => /\ signals'[j] = OwnerChanged => i = j
                                               /\ i < j => signals'[j].payload = 0
           /\ Head(signals) # OwnerChanged => (Replaced' <=> Replaced)
           /\ Head(signals) = OwnerChanged => /\ Replaced /\ ~Replaced'
                                              /\ \A i \in DOMAIN signals' : signals'[i].payload = 0
<1>1. /\ 1 \in DOMAIN signals /\ Head(signals) = signals[1]
      /\ \A i \in DOMAIN signals' : /\ i \in Nat /\ i + 1 \in DOMAIN signals /\ i + 1 > 1
                                    /\ signals'[i] = signals[i + 1]
  BY FirstMessage
<1>2. OwnerChanged' = OwnerChanged
  BY DEF OwnerChanged
<1>3. ASSUME NEW i \in DOMAIN signals', NEW j \in DOMAIN signals', signals'[i] = OwnerChanged
      PROVE  (signals'[j] = OwnerChanged => i = j) /\ (i < j => signals'[j].payload = 0)
  <2>1. i + 1 = j + 1 => i = j
    BY <1>1
  <2>2. i < j => i + 1 < j + 1
    BY <1>1
  <2> QED BY <1>1, <1>3, <2>1, <2>2 DEF Wait
<1>4. Head(signals) # OwnerChanged /\ Replaced => Replaced'
  <2> SUFFICES ASSUME Head(signals) # OwnerChanged, NEW k \in DOMAIN signals, signals[k] = OwnerChanged
               PROVE  \E i \in DOMAIN signals' : signals'[i] = OwnerChanged
    BY <1>2 DEF Replaced
  <2>1. signals \in Seq(SignalRecord) /\ Len(signals) \in Nat /\ k \in 1..Len(signals) /\ k # 1
    BY <1>1, Numbers
  <2>2. Len(signals') = Len(signals) - 1 /\ DOMAIN signals' = 1..Len(signals')
        /\ \A i \in 1..Len(signals') : signals'[i] = signals[i + 1]
    BY <2>1, HeadTailProperties
  <2>3. k - 1 \in 1..Len(signals') /\ (k - 1) + 1 = k
    BY <2>1, <2>2
  <2> QED BY <2>2, <2>3
<1>5. Replaced' => Replaced
  BY <1>1, <1>2 DEF Replaced
<1>6. ASSUME Head(signals) = OwnerChanged
      PROVE  Replaced /\ ~Replaced' /\ \A i \in DOMAIN signals' : signals'[i].payload = 0
  <2>1. Replaced
    BY <1>1, <1>6 DEF Replaced
  <2>2. \A i \in DOMAIN signals' : signals'[i] # OwnerChanged /\ signals'[i].payload = 0
    BY <1>1, <1>6 DEF Wait
  <2> QED BY <1>2, <2>1, <2>2 DEF Replaced
<1> QED BY <1>3, <1>4, <1>5, <1>6

\* The other steps, while at most one bluetoothd was replaced and nothing is applied.
LEMMA WaitNext ==
    ASSUME TypeOK, TypeOK', Wait, [Next]_vars, applies' = 0, daemons' <= 1
    PROVE  Wait'
<1>0. OwnerChanged' = OwnerChanged /\ Nothing' = Nothing
  BY DEF OwnerChanged, Nothing
<1>1. CASE Report
  BY <1>1, WaitObject, Numbers DEF Report
<1>2. ASSUME NEW a \in Address, Forget(a) PROVE Wait'
  BY <1>2, WaitObject DEF Forget
<1>3. CASE Replace
  <2>1. daemons = 0
    BY <1>3, Bounds DEF Replace, TypeOK
  <2> QED BY <1>3, <2>1, WaitReplace
<1>4. CASE Signal
  <2>1. UNCHANGED <<lost, heard, mode, daemons>> /\ signals # <<>> /\ signals' = Tail(signals)
        /\ Head(signals) # OwnerChanged
    BY <1>4 DEF Signal, radio, bounds
  <2>2. Replaced' <=> Replaced
    BY <2>1, WaitTail
  <2>3. ASSUME ~heard, ~Replaced PROVE Deaf'
    <3>1. Deaf /\ signals[1].payload = 0
      BY <1>4, <2>3, Followed DEF Wait, Deaf
    <3>2. \A a \in Address : ~cache'[a].live /\ snapshot'[a] = 0
      BY <1>4, <3>1, Followed DEF Deaf
    <3>3. snapshot' = Nothing
      BY <3>2 DEF TypeOK, Nothing
    <3>4. \A i \in DOMAIN signals' : signals'[i].payload = 0
      BY <2>1, <3>1, FirstMessage DEF Deaf
    <3> QED BY <1>0, <3>2, <3>3, <3>4 DEF Deaf
  <2> QED BY <1>0, <2>1, <2>2, <2>3, WaitTail DEF Wait
<1>5. CASE Owner
  <2>1. /\ UNCHANGED <<heard, mode, daemons, snapshot>> /\ signals # <<>> /\ signals' = Tail(signals)
        /\ Head(signals) = OwnerChanged /\ snapshot = Nothing /\ \A a \in Address : ~cache'[a].live
    BY <1>5 DEF Owner, bounds
  <2>2. Replaced /\ ~Replaced' /\ \A i \in DOMAIN signals' : signals'[i].payload = 0
    BY <2>1, WaitTail
  <2>3. mode = "scan" /\ ~heard /\ daemons # 0
    BY <2>2 DEF Wait
  <2>4. Deaf'
    BY <1>0, <2>1, <2>2 DEF Deaf
  <2> QED BY <1>0, <2>1, <2>2, <2>3, <2>4, WaitTail DEF Wait
<1>6. CASE Event
  <2>1. UNCHANGED <<lost, heard, mode, daemons, signals, cache>> /\ snapshot' # Nothing
    BY <1>6 DEF Event, radio, bounds
  <2>2. ~Deaf
    <3> SUFFICES ASSUME Deaf PROVE FALSE
      OBVIOUS
    <3>1. \A a \in Address : snapshot'[a] = 0
      BY <1>6, Shown DEF Deaf
    <3> QED BY <2>1, <3>1 DEF TypeOK, Nothing
  <2> QED BY <1>0, <2>1, <2>2 DEF Wait, Replaced
<1>7. ASSUME NEW a \in Address, Age(a) PROVE Wait'
  <2>1. UNCHANGED <<lost, heard, mode, daemons, signals, snapshot>>
        /\ \A b \in Address : cache'[b].live => cache[b].live
    BY <1>7, Numbers DEF Age, radio, bounds, Record
  <2> QED BY <1>0, <2>1 DEF Wait, Replaced, Deaf
<1>8. ASSUME NEW a \in Address, Handle(a) PROVE Wait'
  <2>1. UNCHANGED <<lost, heard, mode, daemons, signals, cache>>
    BY <1>8 DEF Handle, radio, bounds
  <2>2. ~Deaf
    BY <1>8, Published DEF Deaf, Nothing
  <2> QED BY <1>0, <2>1, <2>2 DEF Wait, Replaced
<1>9. CASE Apply
  BY <1>9 DEF Apply, TypeOK
<1>10. CASE Recover
  <2>1. UNCHANGED <<heard, daemons, signals, cache, snapshot>> /\ lost' = FALSE /\ lost
    BY <1>10 DEF Recover, bounds
  <2> QED BY <1>0, <2>1 DEF Wait, Replaced, Deaf
<1>11. CASE Configure
  <2>1. UNCHANGED <<lost, heard, daemons, signals, cache, snapshot>> /\ mode # "scan" /\ mode' # "scan"
    BY <1>11 DEF Configure, radio, bounds
  <2> QED BY <1>0, <2>1 DEF Wait, Replaced, Deaf
<1>12. CASE Seed
  <2>1. UNCHANGED <<lost, daemons, signals, cache, snapshot>> /\ mode # "scan"
        /\ ((heard' = TRUE /\ mode' = "scan") \/ UNCHANGED <<mode, heard>>)
    BY <1>12 DEF Seed, bounds
  <2> QED BY <1>0, <2>1 DEF Wait, Replaced, Deaf
<1>13. CASE Restart
  <2>1. signals' = <<>> /\ snapshot' = Nothing /\ heard' = FALSE /\ lost' = FALSE
        /\ \A a \in Address : ~cache'[a].live
    BY <1>13 DEF Restart
  <2> QED BY <1>0, <2>1, EmptySeq DEF Wait, Replaced, Deaf
<1>14. CASE UNCHANGED <<lost, heard, mode, daemons, signals, cache, snapshot>>
  BY <1>0, <1>14 DEF Wait, Replaced, Deaf
<1>15. \/ \E a \in Address : Forget(a) \/ Age(a) \/ Handle(a)
       \/ Report \/ Replace \/ Signal \/ Owner \/ Event \/ Apply \/ Recover \/ Configure \/ Seed \/ Restart
       \/ UNCHANGED <<lost, heard, mode, daemons, signals, cache, snapshot>>
  BY Zenon DEF Next, Change, Rotate, radio, bounds, vars
<1> QED BY <1>1, <1>2, <1>3, <1>4, <1>5, <1>6, <1>7, <1>8, <1>9, <1>10, <1>11, <1>12, <1>13, <1>14, <1>15

\* No action takes a counter back.
LEMMA CountersGrow ==
    ASSUME TypeOK, [Next]_vars
    PROVE  /\ applies' = 0 => applies = 0
           /\ daemons' = 0 => daemons = 0
           /\ daemons' <= 1 => daemons <= 1
           /\ restarts' = 0 => restarts = 0
<1>1. applies \in Nat /\ daemons \in Nat /\ restarts \in Nat
  BY Bounds DEF TypeOK
<1>2. /\ applies' = applies \/ applies' = applies + 1
      /\ daemons' = daemons \/ daemons' = daemons + 1
      /\ restarts' = restarts \/ restarts' = restarts + 1
  BY Zenon DEF Next, Change, Rotate, Forget, Age, Handle, Report, SetObject, Replace, Signal, Owner, Event,
               Apply, Recover, Configure, Seed, Restart, radio, bounds, vars
<1> QED BY <1>1, <1>2

LEMMA AwaitedNext ==
    ASSUME TypeOK, Awaited, [Next]_vars
    PROVE  Awaited'
<1> SUFFICES ASSUME applies' = 0, daemons' <= 1 PROVE Wait'
  BY DEF Awaited
<1>1. applies = 0 /\ daemons <= 1
  BY CountersGrow
<1> QED BY <1>1, TypeNext, WaitNext DEF Awaited

\* While at most one bluetoothd was replaced and nothing is applied, a sample that is published is
\* not older than the topic.
LEMMA NewsOnlyNext ==
    ASSUME TypeOK, NewsInv, Awaited, NewsOnly, [Next]_vars, applies = 0, daemons <= 1
    PROVE  NewsOnly'
<1>1. CASE shown' = shown
  BY <1>1 DEF NewsOnly
<1>2. CASE shown' # shown
  <2>1. PICK a \in Address : /\ snapshot[a] \in Payload /\ shown' = Append(shown, snapshot[a])
                             /\ snapshot # Nothing
                             /\ mode = "scan" => \A i \in DOMAIN shown : shown[i] <= snapshot[a]
    BY <1>2, NextShown
  <2>2. mode = "scan"
    BY <2>1 DEF Awaited, Wait, Deaf
  <2>3. PICK n \in Nat : /\ DOMAIN shown' = DOMAIN shown \cup {n} /\ shown'[n] = snapshot[a]
                         /\ \A i \in DOMAIN shown : i \in Nat /\ i < n /\ shown'[i] = shown[i]
    BY <2>1, LastShown
  <2>4. ASSUME NEW i \in DOMAIN shown', NEW j \in DOMAIN shown', i < j PROVE shown'[i] <= shown'[j]
    <3>1. i \in DOMAIN shown
      BY <2>3, <2>4
    <3> QED BY <2>1, <2>2, <2>3, <2>4, <3>1 DEF NewsOnly
  <2> QED BY <2>4 DEF NewsOnly
<1> QED BY <1>1, <1>2

\* TopicNeverBack: with at most one replaced bluetoothd, and any number of restarts of the
\* service, a topic never shows an older sample again: what bluetoothd remembers of the
\* peer's former addresses is not news (publish_scan_snapshot).
THEOREM TopicNeverBack ==
    ASSUME Distinct, IsFiniteSet(Payload), Cardinality(Payload) <= History, MaxDaemons <= 1
    PROVE  Spec => []NeverBack
<1>1. Init => TypeOK /\ NewsInv /\ Awaited /\ NeverBack
  <2>1. Init => NeverBack
    BY EmptySeq DEF Init, NeverBack, NewsOnly
  <2> QED BY <2>1, TypeInit, NewsInit, AwaitedInit
<1>2. TypeOK /\ NewsInv /\ Awaited /\ NeverBack /\ [Next]_vars => (TypeOK /\ NewsInv /\ Awaited /\ NeverBack)'
  <2> SUFFICES ASSUME TypeOK, NewsInv, Awaited, NeverBack, [Next]_vars
               PROVE  (TypeOK /\ NewsInv /\ Awaited /\ NeverBack)'
    OBVIOUS
  <2>1. daemons <= 1
    BY Bounds DEF TypeOK
  <2>2. NeverBack'
    BY <2>1, CountersGrow, NewsOnlyNext DEF NeverBack
  <2> QED BY <2>2, TypeNext, NewsNext, AwaitedNext
<1> QED BY <1>1, <1>2, PTL DEF Spec

\* One process and one bluetoothd: nothing is published before the scan, and the history
\* has all that is published.
OneProcess ==
    Undisturbed /\ daemons = 0 =>
      /\ mode # "scan" => shown = <<>>
      /\ \A i \in DOMAIN shown : Contains(recent, shown[i])

LEMMA OneProcessNext ==
    ASSUME IsFiniteSet(Payload), Cardinality(Payload) <= History,
           TypeOK, NewsInv, Awaited, OneProcess, [Next]_vars
    PROVE  OneProcess'
<1> SUFFICES ASSUME Undisturbed', daemons' = 0
             PROVE  /\ mode' # "scan" => shown' = <<>>
                    /\ \A i \in DOMAIN shown' : Contains(recent', shown'[i])
  BY DEF OneProcess
<1>1. /\ applies = 0 /\ restarts = 0 /\ daemons = 0 /\ Undisturbed /\ Wait
      /\ mode # "scan" => shown = <<>>
      /\ \A i \in DOMAIN shown : Contains(recent, shown[i])
  BY CountersGrow DEF Undisturbed, Awaited, OneProcess
<1>2. CASE shown' # shown
  <2>1. PICK a \in Address : /\ Handle(a) /\ snapshot[a] \in Payload /\ shown' = Append(shown, snapshot[a])
                             /\ snapshot # Nothing /\ Remember(snapshot[a])
    BY <1>2, NextShown
  <2>2. mode = "scan" /\ mode' = mode
    BY <1>1, <2>1 DEF Wait, Deaf, Handle
  <2>3. \A x : Contains(recent', x) <=> Contains(recent, x) \/ x = snapshot[a]
    BY <2>1, Numbers, RememberAll
  <2> QED BY <1>1, <2>1, <2>2, <2>3, LastShown
<1>3. CASE shown' = shown
  <2>1. CASE Configure \/ Seed
    <3>1. shown = <<>>
      BY <1>1, <2>1 DEF Configure, Seed
    <3> QED BY <1>3, <3>1, EmptySeq
  <2>2. CASE Recover
    BY <1>1, <2>2 DEF Recover, Wait
  <2>3. CASE Apply \/ Restart
    BY <1>1, <2>3 DEF Apply, Restart, Undisturbed, TypeOK
  <2>4. ASSUME NEW a \in Address, Handle(a)
        PROVE  mode' = mode /\ \A x : Contains(recent, x) => Contains(recent', x)
    BY <2>4, Published, Numbers, RememberAll DEF Handle
  <2>5. CASE UNCHANGED <<recent, mode>>
    BY <1>1, <1>3, <2>5
  <2>6. \/ Configure \/ Seed \/ Recover \/ Apply \/ Restart \/ UNCHANGED <<recent, mode>>
        \/ \E a \in Address : Handle(a)
    BY Zenon DEF Next, Change, Rotate, Forget, Age, Report, SetObject, Replace, Signal, Owner, Event, vars
  <2> QED BY <1>1, <1>3, <2>1, <2>2, <2>3, <2>4, <2>5, <2>6
<1> QED BY <1>2, <1>3

\* PublishedInOrder: in one process with one bluetoothd a topic shows every sample at most
\* once and none after a later one, however the peer's addresses rotate
\* (TransportBridgeManager::handle_advertisement).
THEOREM PublishedInOrder ==
    ASSUME Distinct, IsFiniteSet(Payload), Cardinality(Payload) <= History
    PROVE  Spec => []InOrder
<1> DEFINE Inv == TypeOK /\ NewsInv /\ Awaited /\ OneProcess /\ InOrder
<1>1. Init => Inv
  <2>1. Init => OneProcess /\ InOrder
    BY EmptySeq DEF Init, OneProcess, InOrder
  <2> QED BY <2>1, TypeInit, NewsInit, AwaitedInit
<1>2. Inv /\ [Next]_vars => Inv'
  <2> SUFFICES ASSUME Inv, [Next]_vars PROVE Inv'
    OBVIOUS
  <2>1. InOrder'
    <3> SUFFICES ASSUME Undisturbed', daemons' = 0
                 PROVE  \A i, j \in DOMAIN shown' : i < j => shown'[i] < shown'[j]
      BY DEF InOrder
    <3>1. applies = 0 /\ daemons = 0 /\ Undisturbed
      BY CountersGrow DEF Undisturbed
    <3>2. \A i, j \in DOMAIN shown : i < j => shown[i] < shown[j]
      BY <3>1 DEF InOrder
    <3>3. CASE shown' # shown
      <4>1. PICK a \in Address : /\ snapshot[a] \in Payload /\ shown' = Append(shown, snapshot[a])
                                 /\ snapshot # Nothing /\ ~Contains(recent, snapshot[a])
                                 /\ mode = "scan" => \A i \in DOMAIN shown : shown[i] <= snapshot[a]
        BY <3>3, NextShown
      <4>2. mode = "scan"
        BY <3>1, <4>1 DEF Awaited, Wait, Deaf
      <4>3. \A i \in DOMAIN shown : Contains(recent, shown[i])
        BY <3>1 DEF OneProcess
      <4>4. \A i \in DOMAIN shown : shown[i] < snapshot[a]
        <5>1. snapshot[a] \in Nat
          BY <4>1, Bounds
        <5> QED BY <4>1, <4>2, <4>3, <5>1, Numbers
      <4>5. PICK n \in Nat : /\ DOMAIN shown' = DOMAIN shown \cup {n} /\ shown'[n] = snapshot[a]
                             /\ \A i \in DOMAIN shown : i \in Nat /\ i < n /\ shown'[i] = shown[i]
        BY <4>1, LastShown
      <4>6. ASSUME NEW i \in DOMAIN shown', NEW j \in DOMAIN shown', i < j PROVE shown'[i] < shown'[j]
        <5>1. i \in DOMAIN shown
          BY <4>5, <4>6
        <5> QED BY <3>2, <4>4, <4>5, <4>6, <5>1
      <4> QED BY <4>6
    <3> QED BY <3>2, <3>3
  <2> QED BY <2>1, TypeNext, NewsNext, AwaitedNext, OneProcessNext
<1> QED BY <1>1, <1>2, PTL DEF Spec

-----------------------------------------------------------------------------
(* The export side                                                          *)

\* dispatch_mutex is held exactly by a worker that is inside flush, and
\* config_apply_mutex_ by the transaction; a transaction that has begun has a
\* generation to give, a value on its way to the buffer a revision.
Locks ==
    /\ dispatch <=> worker.pc \in {"take", "send", "accepted", "keep"}
    /\ applying <=> config = "apply"
    /\ applying => generations < MaxTransactions
    /\ entry.rev <= offered
    /\ worker.pc = "encode" => entry.rev < offered

\* Between the take of a value and its end no transaction replaces the bridge.
InFlush == worker.pc \in {"send", "accepted", "keep"} => worker.gen = entry.gen

\* The slot of the rate that a value has used ends with the deadline.
Slot ==
    Spacing > 0 =>
        /\ worker.pc = "send" => ~used
        /\ used /\ worker.pc # "accepted" => next \in 1..Spacing

DispatchInv == ExportTypeOK /\ Locks /\ InFlush /\ Slot

\* The constants are numbers.
LEMMA ExportBounds ==
    /\ Spacing \in Nat /\ MaxValue \in Nat /\ MaxBusy \in Nat /\ MaxFaults \in Nat
    /\ MaxTransactions \in Nat /\ MaxTransactions >= 1
  BY ExportAssumption

\* A new bridge has sent nothing.
LEMMA DispatchInit == ExportInit => DispatchInv
<1> SUFFICES ASSUME ExportInit PROVE DispatchInv
  OBVIOUS
<1> USE ExportBounds DEF ExportInit, Unset, None
<1>1. ExportTypeOK
  <2>1. entry \in [gen : 0..MaxTransactions, rev : 0..MaxValue, pending : 0..MaxValue]
    OBVIOUS
  <2>2. worker \in [pc : {"idle", "encode", "lock", "take", "send", "accepted", "keep"},
                   gen : 0..MaxTransactions, value : 0..MaxValue, rev : 0..MaxValue]
    BY DEF Idle
  <2>3. handed \in [value : 0..MaxValue, gen : 0..MaxTransactions]
    OBVIOUS
  <2>4. next \in (1 - Spacing)..Unset
    OBVIOUS
  <2>5. dispatch \in BOOLEAN /\ applying \in BOOLEAN /\ used \in BOOLEAN
    OBVIOUS
  <2>6. config \in {"free", "apply", "maintain"} /\ generations \in 1..MaxTransactions
    OBVIOUS
  <2>7. offered \in 0..MaxValue /\ busy \in 0..MaxBusy /\ faults \in 0..MaxFaults
    OBVIOUS
  <2> HIDE DEF ExportInit
  <2> QED BY <2>1, <2>2, <2>3, <2>4, <2>5, <2>6, <2>7 DEF ExportTypeOK
<1>2. Locks
  BY DEF Locks, Idle
<1>3. InFlush
  BY DEF InFlush, Idle
<1>4. Slot
  BY DEF Slot, Idle
<1> QED BY <1>1, <1>2, <1>3, <1>4 DEF DispatchInv

\* The next deadline is one of the grid that lies ahead.
LEMMA AdvanceAhead ==
    ASSUME Spacing > 0, NEW n \in (1 - Spacing)..Unset
    PROVE  Advance(n) \in 1..Spacing
<1>1. Spacing \in Nat \ {0} /\ n - 1 \in Int
  BY ExportAssumption DEF Unset
<1>2. (n - 1) % Spacing \in 0..(Spacing - 1)
  BY <1>1
<1> QED BY <1>1, <1>2 DEF Advance

\* A worker that is done.
LEMMA IdleWorker ==
    /\ Idle.pc = "idle"
    /\ Idle \in [pc : {"idle", "encode", "lock", "take", "send", "accepted", "keep"},
                 gen : 0..MaxTransactions, value : 0..MaxValue, rev : 0..MaxValue]
  BY ExportBounds DEF Idle, None

\* Every step of the worker, of time, of a transaction and of maintenance keeps
\* the invariant.
LEMMA DispatchNext == DispatchInv /\ [ExportNext]_exportVars => DispatchInv'
<1> SUFFICES ASSUME DispatchInv, [ExportNext]_exportVars PROVE DispatchInv'
  OBVIOUS
<1> USE ExportBounds DEF DispatchInv, ExportTypeOK, Locks, InFlush, Slot, counts, Unset, None
<1>1. CASE Message
  <2>1. worker' = [pc |-> "encode", gen |-> entry.gen, value |-> offered', rev |-> 0]
    BY <1>1 DEF Message, Idle
  <2>2. worker.pc = "idle" /\ offered' = offered + 1 /\ offered' \in 0..MaxValue
    BY <1>1 DEF Message, Idle
  <2>3. UNCHANGED <<entry, next, dispatch, config, applying, handed, generations, busy, faults, used>>
    BY <1>1 DEF Message
  <2>4. ExportTypeOK'
    BY <2>1, <2>2, <2>3
  <2> QED BY <2>1, <2>2, <2>3, <2>4
<1>2. CASE Encode
  <2>1. UNCHANGED <<next, dispatch, config, applying, handed, counts, used>>
    BY <1>2 DEF Encode
  <2>2. /\ worker.pc = "encode" /\ worker'.pc \in {"idle", "lock"}
        /\ worker' \in [pc : {"idle", "lock"}, gen : 0..MaxTransactions, value : 0..MaxValue, rev : 0..MaxValue]
    BY <1>2 DEF Encode, Goto, Idle
  <2>3. \/ entry' = entry
        \/ entry' = [gen |-> entry.gen, rev |-> entry.rev + 1, pending |-> worker.value]
    BY <1>2 DEF Encode
  <2>4. entry' \in [gen : 0..MaxTransactions, rev : 0..MaxValue, pending : 0..MaxValue] /\ entry'.rev <= offered
    BY <2>2, <2>3
  <2>5. ExportTypeOK'
    BY <2>1, <2>2, <2>4
  <2> QED BY <2>1, <2>2, <2>4, <2>5
<1>3. CASE Timer
  BY <1>3 DEF Timer, Idle
<1>4. CASE Lock
  BY <1>4 DEF Lock, Goto
<1>5. CASE Take
  <2>1. worker.pc = "take" /\ UNCHANGED <<next, config, applying, handed, counts, used>>
    BY <1>5 DEF Take
  <2>2. CASE entry.gen = worker.gen /\ entry.pending # None /\ Due
    <3>1. worker' = [pc |-> "send", gen |-> worker.gen, value |-> entry.pending, rev |-> entry.rev]
      BY <1>5, <2>2 DEF Take
    <3>2. entry' = [gen |-> entry.gen, rev |-> entry.rev, pending |-> 0] /\ dispatch' = dispatch
      BY <1>5, <2>2 DEF Take
    <3>3. ExportTypeOK'
      BY <2>1, <3>1, <3>2
    <3>4. Locks' /\ InFlush'
      BY <2>1, <2>2, <3>1, <3>2
    <3>5. Slot'
      BY <2>1, <2>2, <3>1 DEF Due
    <3> QED BY <3>3, <3>4, <3>5
  <2>3. CASE ~(entry.gen = worker.gen /\ entry.pending # None /\ Due)
    <3>1. worker' = Idle /\ dispatch' = FALSE /\ UNCHANGED entry
      BY <1>5, <2>3 DEF Take
    <3>2. ExportTypeOK'
      BY <2>1, <3>1, IdleWorker
    <3>3. Locks' /\ InFlush'
      BY <2>1, <3>1, IdleWorker
    <3>4. Slot'
      BY <2>1, <3>1, IdleWorker
    <3> QED BY <3>2, <3>3, <3>4
  <2> QED BY <2>2, <2>3
<1>6. CASE Send
  <2>1. \E pc \in {"accepted", "keep"} : worker' = [worker EXCEPT !.pc = pc] /\ (used' # used => pc = "accepted")
    BY <1>6 DEF Send, Goto
  <2>2. worker.pc = "send" /\ UNCHANGED <<entry, next, dispatch, config, applying, offered, generations, busy>>
    BY <1>6 DEF Send
  <2>3. handed' \in [value : 0..MaxValue, gen : 0..MaxTransactions]
    <3>1. handed' = handed \/ handed' = [value |-> worker.value, gen |-> worker.gen]
      BY <1>6 DEF Send
    <3> QED BY <3>1
  <2>5. used' \in BOOLEAN
    BY <1>6 DEF Send
  <2>6. faults' \in 0..MaxFaults
    <3>1. faults' = faults \/ (faults < MaxFaults /\ faults' = faults + 1)
      BY <1>6 DEF Send
    <3> QED BY <3>1
  <2>4. ExportTypeOK'
    BY <2>1, <2>2, <2>3, <2>5, <2>6
  <2> QED BY <2>1, <2>2, <2>4
<1>7. CASE Refuse
  BY <1>7 DEF Refuse, Goto
<1>8. CASE Accepted
  <2>1. Spacing > 0 => Advance(next) \in 1..Spacing
    BY AdvanceAhead
  <2>2. worker' = Idle /\ dispatch' = FALSE /\ UNCHANGED <<entry, config, applying, handed, counts, used>>
    BY <1>8 DEF Accepted, Unlock
  <2>3. next' = IF Spacing > 0 THEN Advance(next) ELSE next
    BY <1>8 DEF Accepted
  <2>4. next' \in (1 - Spacing)..Unset /\ (Spacing > 0 => next' \in 1..Spacing)
    BY <2>1, <2>3
  <2>5. ExportTypeOK'
    BY <2>2, <2>4, IdleWorker
  <2>6. Locks' /\ InFlush'
    BY <2>2, IdleWorker
  <2>7. Slot'
    BY <2>2, <2>4, IdleWorker
  <2> QED BY <2>5, <2>6, <2>7
<1>9. CASE Keep
  <2>1. entry' = entry \/ entry' = [gen |-> entry.gen, rev |-> entry.rev, pending |-> worker.value]
    BY <1>9 DEF Keep
  <2>2. worker' = Idle /\ dispatch' = FALSE /\ UNCHANGED <<next, config, applying, handed, counts, used>>
    BY <1>9 DEF Keep, Unlock
  <2>3. worker.pc = "keep"
    BY <1>9 DEF Keep
  <2>4. entry' \in [gen : 0..MaxTransactions, rev : 0..MaxValue, pending : 0..MaxValue] /\ entry'.rev <= offered
    BY <2>1
  <2>5. ExportTypeOK'
    BY <2>2, <2>4, IdleWorker
  <2>6. Locks' /\ InFlush' /\ Slot'
    BY <2>2, <2>3, <2>4, IdleWorker
  <2> QED BY <2>5, <2>6
<1>10. CASE Tick
  <2>1. next' \in (1 - Spacing)..Unset /\ (next' = next - 1 \/ next' = 0)
    BY <1>10 DEF Tick
  <2>2. (used' => used /\ next' # 0) /\ used' \in BOOLEAN
    BY <1>10 DEF Tick
  <2>3. UNCHANGED <<entry, worker, dispatch, config, applying, handed, counts>>
    BY <1>10 DEF Tick
  <2> QED BY <2>1, <2>2, <2>3
<1>11. CASE Transact
  BY <1>11 DEF Transact
<1>12. CASE ConfigureExport
  <2>1. PICK gen \in {generations', 0} : entry' = [gen |-> gen, rev |-> 0, pending |-> None]
    BY <1>12 DEF ConfigureExport
  <2>2. generations' = generations + 1 /\ generations' \in 1..MaxTransactions
    BY <1>12 DEF ConfigureExport
  <2>3. entry' \in [gen : 0..MaxTransactions, rev : 0..MaxValue, pending : 0..MaxValue] /\ entry'.rev = 0
    BY <2>1, <2>2
  <2>4. /\ dispatch = FALSE /\ next' = Unset /\ used' = FALSE /\ config' = "free" /\ applying' = FALSE
        /\ UNCHANGED <<worker, dispatch, handed, offered, busy, faults>>
    BY <1>12 DEF ConfigureExport
  <2>5. ExportTypeOK'
    <3>1. used' \in BOOLEAN /\ applying' \in BOOLEAN
      BY <2>4
    <3>3. next' \in (1 - Spacing)..Unset
      <4>1. next' = Unset
        BY <2>4
      <4> QED BY <4>1
    <3>2. config' \in {"free", "apply", "maintain"} /\ dispatch' \in BOOLEAN
      BY <2>4
    <3> QED BY <2>2, <2>3, <2>4, <3>1, <3>2, <3>3
  <2>6. Locks'
    BY <2>2, <2>3, <2>4
  <2>7. InFlush' /\ Slot'
    BY <2>4
  <2> QED BY <2>5, <2>6, <2>7
<1>13. CASE Maintain
  BY <1>13 DEF Maintain
<1>14. CASE UNCHANGED exportVars
  BY <1>14 DEF exportVars
<1> QED
  BY <1>1, <1>2, <1>3, <1>4, <1>5, <1>6, <1>7, <1>8, <1>9, <1>10, <1>11, <1>12, <1>13, <1>14
     DEF ExportNext, Work

\* The invariant holds of every behaviour.
LEMMA DispatchAlways == ExportSpec => []DispatchInv
  BY DispatchInit, DispatchNext, PTL DEF ExportSpec

\* Every reachable state of the bridge is well formed, for every rate, also where
\* the deadline is moved by a remainder.
THEOREM DispatchTypes == ExportSpec => []ExportTypeOK
<1>1. DispatchInv => ExportTypeOK
  BY DEF DispatchInv
<1> QED BY <1>1, DispatchAlways, PTL

\* The transport takes only values of the configuration that is in force,
\* whatever transactions, maintenance and failing sends come in between.
THEOREM OnlyCurrentSent == ExportSpec => CurrentOnly
<1>1. DispatchInv /\ [ExportNext]_exportVars =>
        [handed' # handed => handed'.gen = entry.gen /\ ~applying]_exportVars
  <2> SUFFICES ASSUME DispatchInv, [ExportNext]_exportVars, handed' # handed
               PROVE  handed'.gen = entry.gen /\ ~applying
    OBVIOUS
  <2>1. Send
    BY DEF ExportNext, Work, Message, Encode, Timer, Lock, Take, Refuse, Accepted, Keep, Tick,
           Transact, ConfigureExport, Maintain, exportVars
  <2> QED BY <2>1 DEF Send, DispatchInv, Locks, InFlush
<1> QED BY <1>1, DispatchAlways, PTL DEF ExportSpec, CurrentOnly

\* At most one value is sent in each period of the grid, also after a pause.
THEOREM RateKept == ExportSpec => OncePerPeriod
<1>1. DispatchInv /\ [ExportNext]_exportVars => [handed' # handed /\ Spacing > 0 => ~used]_exportVars
  <2> SUFFICES ASSUME DispatchInv, [ExportNext]_exportVars, handed' # handed, Spacing > 0
               PROVE  ~used
    OBVIOUS
  <2>1. Send
    BY DEF ExportNext, Work, Message, Encode, Timer, Lock, Take, Refuse, Accepted, Keep, Tick,
           Transact, ConfigureExport, Maintain, exportVars
  <2> QED BY <2>1 DEF Send, DispatchInv, Slot
<1> QED BY <1>1, DispatchAlways, PTL DEF ExportSpec, OncePerPeriod

-----------------------------------------------------------------------------
(* ScalarCodec: what the conversions promise, for every type and value.     *)

\* Rounding an integral double gives the integer (payload_codec.cpp:48).
LEMMA RoundsInteger == \A v \in Int : Round(<<v, 1>>) = v
<1> SUFFICES ASSUME NEW v \in Int PROVE Round(<<v, 1>>) = v
  OBVIOUS
<1> DEFINE x == <<v, 1>>
<1>1. x[1] = v /\ x[2] = 1
  OBVIOUS
<1>2. CASE v >= 0
  <2>1. Round(x) = (2 * v + 1) \div (2 * 1)
    BY <1>1, <1>2 DEF Round
  <2>2. (2 * v + 1) \div (2 * 1) = v
    OBVIOUS
  <2> QED BY <2>1, <2>2
<1>3. CASE ~(v >= 0)
  <2>1. Round(x) = -((1 - 2 * v) \div (2 * 1))
    BY <1>1, <1>3 DEF Round
  <2>2. (1 - 2 * v) \div (2 * 1) = -v
    OBVIOUS
  <2> QED BY <2>1, <2>2
<1> QED BY <1>2, <1>3

\* The checked conversion of a double and that of an exact integer admit the same
\* integers: the exclusive power-of-two bound is the inclusive maximum
\* (payload_codec.cpp:40-69).
THEOREM SameBounds ==
    ASSUME NEW t, IsIntType(t), NEW v \in Int, NonFinite # <<v, 1>>
    PROVE CheckedFixed(<<v, 1>>, t) = CheckedExact(v, t)
<1>1. Round(<<v, 1>>) = v
  BY RoundsInteger
<1>2. t.lo \in Int /\ t.hi \in Int
  BY DEF IsIntType
<1>3. (v < t.lo \/ v >= t.hi + 1) <=> (v < t.lo \/ v > t.hi)
  BY <1>2
<1> QED BY <1>1, <1>3 DEF CheckedFixed, CheckedExact

\* A field of an integer type that fits an integer wire type is what the importer
\* writes into a field of the same type, whatever its size (payload_codec.cpp:355).
THEOREM IntegerField ==
    ASSUME NEW field, IsIntType(field), NEW wire, IsIntType(wire),
           NEW v \in field.lo..field.hi, CoerceOutgoingInteger(v, wire).ok
    PROVE WriteInteger(CoerceIncomingInteger(CoerceOutgoingInteger(v, wire).value, wire).value, field)
            = Good(v)
<1>1. field.lo \in Int /\ field.hi \in Int /\ v \in Int /\ v >= field.lo /\ v <= field.hi
  BY DEF IsIntType
<1>2. CoerceOutgoingInteger(v, wire) = CheckedExact(v, wire)
  BY DEF CoerceOutgoingInteger, IsIntType
<1>3. CoerceOutgoingInteger(v, wire).value = v
  BY <1>2 DEF CheckedExact, Good, Failed
<1>4. CoerceIncomingInteger(v, wire).value = v
  BY DEF CoerceIncomingInteger, Good, IsIntType
<1>5. WriteInteger(v, field) = CheckedExact(v, field)
  BY DEF WriteInteger, CoerceOutgoingInteger, IsIntType
<1>6. CheckedExact(v, field) = Good(v)
  BY <1>1 DEF CheckedExact
<1> QED BY <1>3, <1>4, <1>5, <1>6

\* A word of m values gives its two's complement number back (payload_codec.cpp:77).
THEOREM WordKeepsNumber ==
    ASSUME NEW h \in Nat \ {0}, NEW signed \in BOOLEAN, NEW v \in Int,
           IF signed THEN v \in -h..(h - 1) ELSE v \in 0..(2 * h - 1)
    PROVE Value(Raw(v, 2 * h), 2 * h, signed) = v
<1>1. CASE v >= 0
  <2>1. v < 2 * h
    BY <1>1
  <2>2. v % (2 * h) = v
    BY <1>1, <2>1
  <2>3. signed => ~(2 * v >= 2 * h)
    OBVIOUS
  <2> QED BY <2>2, <2>3 DEF Value, Raw
<1>2. CASE v < 0
  <2>1. signed /\ v \in -h..(h - 1)
    BY <1>2
  <2>2. v % (2 * h) = v + 2 * h
    BY <1>2, <2>1
  <2>3. 2 * (v + 2 * h) >= 2 * h
    BY <2>1
  <2> QED BY <2>1, <2>2, <2>3 DEF Value, Raw
<1> QED BY <1>1, <1>2
=============================================================================
