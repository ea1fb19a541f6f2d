------------------------- MODULE OverlayLeaseProofs -------------------------
(***************************************************************************)
(* Proofs about OverlayLease for any number of threads and user nodes and  *)
(* any bounds: types, that the lease watches what the radio runs as long   *)
(* as no two operations overlap, and that the only user node keeps its     *)
(* overlay.                                                                *)
(***************************************************************************)
EXTENDS OverlayLease, SequenceTheorems, FiniteSetTheorems, TLAPS

-----------------------------------------------------------------------------
(* Types                                                                    *)

\* The bounds are numbers.
LEMMA Bounds == MaxMisses \in Nat /\ MaxStarts \in Nat /\ MaxFaults \in Nat /\ MaxCrashes \in Nat
  BY BoundAssumption

\* A thread without an operation.
LEMMA IdleOp == Idle \in Op /\ Idle.pc = "idle"
  BY Bounds DEF Idle, Op, Config

\* A step to another place of an operation keeps the table well formed.
LEMMA GotoType ==
    ASSUME thr \in [Thread -> Op], NEW t \in Thread,
           NEW pc \in {"idle", "claim", "counting", "swap", "notify", "configure", "renotify",
                       "reconfigure", "persist", "clear", "release", "failed"},
           Goto(t, pc)
    PROVE  /\ thr' \in [Thread -> Op]
           /\ thr'[t] = [thr[t] EXCEPT !.pc = pc]
           /\ \A r \in Thread \ {t} : thr'[r] = thr[r]
  BY DEF Goto, Op

\* Users after an answer.
LEMMA AnswerType ==
    ASSUME TypeOK, NEW t \in Thread, NEW success \in BOOLEAN, Answer(t, success)
    PROVE  /\ user' \in [User -> [state : {"off", "asking", "on", "leaving"}, id : 0..MaxStarts]]
           /\ owner' \in Config
<1> DEFINE u == thr[t].by
           UserState == [state : {"off", "asking", "on", "leaving"}, id : 0..MaxStarts]
<1>1. thr[t].id \in 0..MaxStarts /\ u \in Config /\ Gone \in UserState
  BY Bounds DEF TypeOK, Op, Gone
<1>2. \/ owner' = owner
      \/ u \in User /\ owner' = u
  BY DEF Answer
<1>3. \/ user' = user
      \/ user' = [user EXCEPT ![u].state = "on"]
      \/ user' = [user EXCEPT ![u] = Gone]
  BY DEF Answer
<1>4. user \in [User -> UserState]
  BY DEF TypeOK
<1> HIDE DEF UserState
<1>5. user' = [user EXCEPT ![u] = Gone] => user' \in [User -> UserState]
  BY <1>1, <1>4
<1>6. user' = [user EXCEPT ![u].state = "on"] => user' \in [User -> UserState]
  <2>1. CASE u \in User
    <3>1. user[u] \in UserState
      BY <1>4, <2>1
    <3>2. [user[u] EXCEPT !.state = "on"] \in UserState
      BY <3>1 DEF UserState
    <3> QED BY <1>4, <2>1, <3>2
  <2>2. CASE u \notin User
    BY <1>4, <2>2
  <2> QED BY <2>1, <2>2
<1> QED BY <1>1, <1>2, <1>3, <1>4, <1>5, <1>6 DEF TypeOK, Config, UserState

\* Counters after a fault.
LEMMA FaultType ==
    ASSUME TypeOK, Fault \/ UNCHANGED counts
    PROVE  starts' \in 0..MaxStarts /\ faults' \in 0..MaxFaults /\ crashes' \in 0..MaxCrashes
  BY Bounds DEF Fault, TypeOK, counts

\* A new operation, or the end of one, keeps the table well formed.
LEMMA SetType ==
    ASSUME thr \in [Thread -> Op], NEW t \in Thread, NEW o \in Op, thr' = [thr EXCEPT ![t] = o]
    PROVE  thr' \in [Thread -> Op]
  OBVIOUS

\* The service starts with its default.
LEMMA TypeInit == Init => TypeOK
<1> SUFFICES ASSUME Init PROVE TypeOK
  OBVIOUS
<1> USE Bounds DEF Init
<1>1. {disk, path, cfg, runtime} \subseteq Config /\ owner \in Config
  BY DEF Config
<1>2. thr \in [Thread -> Op]
  BY IdleOp
<1>3. user \in [User -> [state : {"off", "asking", "on", "leaving"}, id : 0..MaxStarts]]
  BY DEF Gone
<1>4. requests \in Seq(Request)
  BY EmptySeq
<1>5. misses \in 0..MaxMisses
  OBVIOUS
<1>7. hold \in BOOLEAN /\ overlapped \in BOOLEAN /\ crowded \in BOOLEAN
  OBVIOUS
<1>6. starts \in 0..MaxStarts /\ faults \in 0..MaxFaults /\ crashes \in 0..MaxCrashes
  OBVIOUS
<1> HIDE DEF Init
<1> QED BY <1>1, <1>2, <1>3, <1>4, <1>5, <1>6, <1>7 DEF TypeOK

\* What user nodes do keeps everything well formed.
LEMMA UserType ==
    ASSUME TypeOK, NEW u \in User, Start(u) \/ Leave(u) \/ Vanish(u)
    PROVE  TypeOK'
<1> DEFINE UserState == [state : {"off", "asking", "on", "leaving"}, id : 0..MaxStarts]
<1> USE Bounds DEF TypeOK
<1>1. CASE Start(u)
  <2>1. starts' = starts + 1 /\ starts' \in 1..MaxStarts
    BY <1>1 DEF Start
  <2>2. [state |-> "asking", id |-> starts'] \in UserState
    BY <2>1
  <2>3. user' \in [User -> UserState]
    BY <1>1, <2>2 DEF Start
  <2>4. [kind |-> "activate", by |-> u, id |-> starts'] \in Request
    BY <2>1 DEF Request
  <2>5. requests' \in Seq(Request)
    BY <1>1, <2>4 DEF Start
  <2> QED BY <1>1, <2>1, <2>3, <2>5 DEF Start, lease, history
<1>2. CASE Leave(u)
  <2>1. user' = [user EXCEPT ![u].state = "leaving"]
    BY <1>2 DEF Leave
  <2>2. user' \in [User -> UserState]
    BY <2>1
  <2>3. requests' = Append(requests, [kind |-> "revert", by |-> u, id |-> user[u].id])
    BY <1>2 DEF Leave
  <2>4. requests' \in Seq(Request)
    BY <2>3 DEF Request
  <2> QED BY <1>2, <2>2, <2>4 DEF Leave, lease, counts, history
<1>3. CASE Vanish(u)
  <2>1. user' \in [User -> UserState]
    BY <1>3 DEF Vanish, Gone
  <2> QED BY <1>3, <2>1 DEF Vanish, lease, counts, history
<1> QED BY <1>1, <1>2, <1>3

\* Every step keeps everything well formed.
LEMMA TypeNext == TypeOK /\ [Next]_vars => TypeOK'
<1> SUFFICES ASSUME TypeOK, [Next]_vars PROVE TypeOK'
  OBVIOUS
<1> DEFINE UserState == [state : {"off", "asking", "on", "leaving"}, id : 0..MaxStarts]
<1>0. thr \in [Thread -> Op] /\ user \in [User -> UserState] /\ requests \in Seq(Request)
  BY DEF TypeOK
<1> USE Bounds DEF TypeOK
<1>1. ASSUME NEW t \in Thread, Take(t) PROVE TypeOK'
  <2> DEFINE r == Head(requests)
  <2>1. r \in Request /\ requests' \in Seq(Request) /\ path \in Config
    BY <1>1 DEF Take
  <2>2. \E o \in Op : thr' = [thr EXCEPT ![t] = o]
    <3> DEFINE a == [Idle EXCEPT !.pc = "claim", !.op = "activate", !.by = r.by, !.id = r.id,
                                 !.target = r.by, !.prev = path]
               b == [Idle EXCEPT !.pc = "swap", !.op = "revert", !.by = r.by, !.id = r.id]
    <3>1. r.by \in Config /\ r.id \in 0..MaxStarts
      BY <2>1 DEF Request, Config
    <3>2. a \in Op /\ b \in Op
      BY <2>1, <3>1, IdleOp DEF Op
    <3>3. thr' = [thr EXCEPT ![t] = IF r.kind = "activate" THEN a ELSE b]
      BY <1>1 DEF Take
    <3> QED BY <3>2, <3>3
  <2>3. thr' \in [Thread -> Op]
    BY <1>0, <2>2, SetType
  <2>4. owner' \in Config /\ overlapped' \in BOOLEAN
    BY <1>1 DEF Take, Overlap, Config
  <2> QED BY <1>1, <2>1, <2>3, <2>4 DEF Take, lease, counts
<1>2. ASSUME NEW t \in Thread, Claim(t) PROVE TypeOK'
  <2>1. CASE thr[t].target = path
    <3>1. thr' \in [Thread -> Op]
      BY <1>0, <1>2, <2>1, IdleOp, SetType DEF Claim
    <3>2. user' \in [User -> UserState] /\ owner' \in Config
      BY <1>2, <2>1, AnswerType DEF Claim
    <3>3. starts' \in 0..MaxStarts /\ faults' \in 0..MaxFaults /\ crashes' \in 0..MaxCrashes
      BY <1>2, <2>1, FaultType DEF Claim
    <3>4. disk' \in Config /\ UNCHANGED <<path, cfg, runtime, requests, overlapped>>
          /\ hold' \in BOOLEAN /\ misses' = 0 /\ crowded' \in BOOLEAN
      BY <1>2, <2>1 DEF Claim
    <3> QED BY <3>1, <3>2, <3>3, <3>4
  <2>2. CASE thr[t].target # path
    <3>1. thr' \in [Thread -> Op]
      BY <1>0, <1>2, <2>2, GotoType DEF Claim
    <3>2. path' \in Config
      BY <1>0, <1>2, <2>2 DEF Claim, Op
    <3> QED BY <1>2, <2>2, <3>1, <3>2 DEF Claim, counts
  <2> QED BY <2>1, <2>2
<1>3. ASSUME NEW t \in Thread, Reload(t) PROVE TypeOK'
  <2>1. [Idle EXCEPT !.pc = "swap", !.op = "reload", !.target = path] \in Op
    BY IdleOp DEF Op
  <2>2. thr' \in [Thread -> Op]
    BY <1>0, <1>3, <2>1, SetType DEF Reload
  <2>3. overlapped' \in BOOLEAN /\ starts' \in 0..MaxStarts
    BY <1>3 DEF Reload, Overlap
  <2> QED BY <1>3, <2>2, <2>3 DEF Reload, lease
<1>4. ASSUME NEW t \in Thread, Check(t) PROVE TypeOK'
  <2>1. PICK live \in Heard : thr' = [thr EXCEPT ![t] = [Idle EXCEPT !.pc = "counting", !.op = "check",
                                                                     !.live = live]]
    BY <1>4 DEF Check
  <2>2. live \in BOOLEAN
    BY DEF Heard
  <2>3. [Idle EXCEPT !.pc = "counting", !.op = "check", !.live = live] \in Op
    BY <2>2, IdleOp DEF Op
  <2>4. thr' \in [Thread -> Op]
    BY <1>0, <2>1, <2>3, SetType
  <2> QED BY <1>4, <2>4 DEF Check, lease, counts, history
<1>5. ASSUME NEW t \in Thread, Count(t) PROVE TypeOK'
  <2>1. [Idle EXCEPT !.pc = "swap", !.op = "expire"] \in Op
    BY IdleOp DEF Op
  <2>2. thr' \in [Thread -> Op]
    BY <1>0, <1>5, <2>1, IdleOp, SetType DEF Count
  <2>3. misses' \in 0..MaxMisses
    <3>1. misses' = 0 \/ (misses + 1 < MaxMisses /\ misses' = misses + 1)
      BY <1>5 DEF Count
    <3> QED BY <3>1
  <2>4. overlapped' \in BOOLEAN
    BY <1>5 DEF Count, Overlap
  <2> QED BY <1>5, <2>2, <2>3, <2>4 DEF Count, counts
<1>6. ASSUME NEW t \in Thread, Swap(t) PROVE TypeOK'
  <2>1. CASE cfg' = thr[t].target /\ thr' = [thr EXCEPT ![t].pc = "notify", ![t].saved = cfg] /\ UNCHANGED counts
    <3>1. cfg' \in Config
      BY <1>0, <2>1 DEF Op
    <3>2. thr' \in [Thread -> Op]
      <4>1. [thr[t] EXCEPT !.pc = "notify", !.saved = cfg] \in Op
        <5>1. thr[t] \in Op /\ cfg \in Config
          BY <1>0
        <5> QED BY <5>1 DEF Op
      <4>2. thr' = [thr EXCEPT ![t] = [thr[t] EXCEPT !.pc = "notify", !.saved = cfg]]
        BY <1>0, <2>1
      <4> QED BY <1>0, <4>1, <4>2, SetType
    <3> QED BY <1>6, <2>1, <3>1, <3>2 DEF Swap, lease, counts, history
  <2>2. CASE Fault /\ Goto(t, "failed") /\ UNCHANGED cfg
    BY <1>0, <1>6, <2>2, FaultType, GotoType DEF Swap, lease, history
  <2> QED BY <1>6, <2>1, <2>2 DEF Swap
<1>7. ASSUME NEW t \in Thread, Notify(t) PROVE TypeOK'
  <2>1. thr' \in [Thread -> Op]
    <3> DEFINE o == [thr[t] EXCEPT !.copy = cfg,
                         !.pc = IF @ = "notify" THEN "configure" ELSE "reconfigure"]
    <3>1. thr[t] \in Op /\ cfg \in Config
      BY <1>0
    <3>2. o \in Op
      BY <3>1 DEF Op
    <3>3. thr' = [thr EXCEPT ![t] = o]
      BY <1>0, <1>7 DEF Notify
    <3> HIDE DEF o
    <3> QED BY <1>0, <3>2, <3>3, SetType
  <2> QED BY <1>7, <2>1 DEF Notify, lease, counts, history
<1>8. ASSUME NEW t \in Thread, Configure(t) PROVE TypeOK'
  <2>1. thr[t].copy \in Config /\ thr[t].saved \in Config
    BY <1>0 DEF Op
  <2>2. AfterSwitch(thr[t].op) \in {"persist", "clear", "idle"}
    BY <1>0 DEF AfterSwitch, Op
  <2>3. thr' \in [Thread -> Op]
    BY <1>0, <1>8, <2>2, GotoType DEF Configure
  <2>4. starts' \in 0..MaxStarts /\ faults' \in 0..MaxFaults /\ crashes' \in 0..MaxCrashes
    BY <1>8, FaultType DEF Configure
  <2> QED BY <1>8, <2>1, <2>3, <2>4 DEF Configure, lease, history
<1>9. ASSUME NEW t \in Thread, Reconfigure(t) PROVE TypeOK'
  <2>1. thr[t].copy \in Config
    BY <1>0 DEF Op
  <2>2. thr' \in [Thread -> Op]
    BY <1>0, <1>9, GotoType DEF Reconfigure
  <2> QED BY <1>9, <2>1, <2>2 DEF Reconfigure, lease, counts, history
<1>10. ASSUME NEW t \in Thread, Persist(t) \/ Release(t) \/ Fail(t) PROVE TypeOK'
  <2>1. thr[t].target \in Config /\ thr[t].prev \in Config
    BY <1>0 DEF Op
  <2>2. thr' \in [Thread -> Op]
    BY <1>0, <1>10, IdleOp, SetType DEF Persist, Release, Fail, Done
  <2>3. user' \in [User -> UserState] /\ owner' \in Config
    BY <1>10, AnswerType DEF Persist, Release, Fail
  <2>4. starts' \in 0..MaxStarts /\ faults' \in 0..MaxFaults /\ crashes' \in 0..MaxCrashes
    BY <1>10, FaultType DEF Persist, Release, Fail
  <2>5. disk' \in Config /\ path' \in Config
    BY <1>10, <2>1 DEF Persist, Release, Fail, lease, Config
  <2>6. misses' \in 0..MaxMisses
    <3>1. misses' = 0 \/ misses' = misses
      BY <1>10 DEF Persist, Release, Fail, lease
    <3> QED BY <3>1
  <2>7. hold' \in BOOLEAN
    <3>1. CASE Fail(t)
      BY <3>1 DEF Fail
    <3>2. CASE Persist(t) \/ Release(t)
      BY <3>2 DEF Persist, Release, lease
    <3> QED BY <1>10, <3>1, <3>2
  <2> QED BY <1>10, <2>2, <2>3, <2>4, <2>5, <2>6, <2>7 DEF Persist, Release, Fail
<1>11. ASSUME NEW t \in Thread, Clear(t) PROVE TypeOK'
  <2>1. thr' \in [Thread -> Op]
    BY <1>0, <1>11, GotoType DEF Clear
  <2>2. starts' \in 0..MaxStarts /\ faults' \in 0..MaxFaults /\ crashes' \in 0..MaxCrashes
    BY <1>11, FaultType DEF Clear
  <2>3. disk' \in Config
    BY <1>11 DEF Clear, Config
  <2> QED BY <1>11, <2>1, <2>2, <2>3 DEF Clear, lease, history
<1>12. CASE HoldPasses
  BY <1>12 DEF HoldPasses, counts, history
<1>13. CASE Restart
  <2>1. thr' \in [Thread -> Op] /\ requests' \in Seq(Request)
    BY <1>13, IdleOp DEF Restart
  <2>2. user' \in [User -> UserState]
    BY <1>0, <1>13 DEF Restart, Gone
  <2>3. {path', disk', cfg', runtime'} \subseteq Config /\ hold' \in BOOLEAN /\ misses' = 0
    BY <1>13 DEF Restart, Config
  <2>4. faults' \in 0..MaxFaults /\ crashes' \in 0..MaxCrashes /\ UNCHANGED <<starts, history>>
    BY <1>13 DEF Restart
  <2> QED BY <2>1, <2>2, <2>3, <2>4 DEF history
<1>14. CASE UNCHANGED vars
  BY <1>14 DEF vars, lease, counts, history
<1> QED
  BY <1>1, <1>2, <1>3, <1>4, <1>5, <1>6, <1>7, <1>8, <1>9, <1>10, <1>11, <1>12, <1>13, <1>14, UserType
     DEF Next, Step

\* Every reachable state of the service, its threads and its user nodes is well formed.
THEOREM LeaseTypes == Spec => []TypeOK
  BY TypeInit, TypeNext, PTL DEF Spec

-----------------------------------------------------------------------------
(* The lease watches what runs                                              *)

\* The lease watches exactly what runs.
Settled == cfg = path /\ runtime = path

\* What runs again when operation o fails.
Back(o) == IF o.op = "activate" THEN o.prev ELSE path

\* What operation o is about to run.
Aim(o) ==
    \/ o.op \in {"activate", "reload"} /\ o.target = path
    \/ o.op \in {"revert", "expire"} /\ o.target = Default

\* What is known at each place of the only operation in progress.
Doing(t) ==
    LET o == thr[t] IN
    /\ o.pc = "claim" => o.op = "activate" /\ Settled /\ o.prev = path
    /\ o.pc \in {"swap", "failed"} => Aim(o) /\ cfg = Back(o) /\ runtime = Back(o)
    /\ o.pc \in {"notify", "configure"} => Aim(o) /\ cfg = o.target /\ o.saved = Back(o)
    /\ o.pc = "configure" => o.copy = o.target
    /\ o.pc \in {"renotify", "reconfigure"} => Aim(o) /\ cfg = Back(o)
    /\ o.pc = "reconfigure" => o.copy = cfg
    /\ o.pc = "persist" => Settled
    /\ o.pc \in {"clear", "release"} => cfg = Default /\ runtime = Default

Alone == \A t, r \in Thread : Working(t) /\ Working(r) => t = r
AtRest == (\A t \in Thread : ~Working(t)) => Settled

LeaseInv == ~overlapped => Alone /\ AtRest /\ \A t \in Thread : Doing(t)

\* A step of the operation in progress: what it does to its own place decides.
LEMMA Proceeds ==
    ASSUME LeaseInv, UNCHANGED overlapped,
           NEW t \in Thread, Working(t), \A r \in Thread \ {t} : thr'[r] = thr[r],
           ~overlapped => Doing(t)' /\ (~Working(t)' => Settled')
    PROVE  LeaseInv'
<1> SUFFICES ASSUME ~overlapped PROVE (Alone /\ AtRest /\ \A r \in Thread : Doing(r))'
  BY DEF LeaseInv
<1>1. \A r \in Thread \ {t} : ~Working(r) /\ ~Working(r)'
  BY DEF LeaseInv, Alone, Working
<1>2. \A r \in Thread \ {t} : Doing(r)'
  BY <1>1 DEF Doing, Working
<1>3. Alone'
  BY <1>1 DEF Alone
<1>4. AtRest'
  BY DEF AtRest
<1> QED BY <1>2, <1>3, <1>4

\* An operation begins: either another is in progress, or all is settled.
LEMMA Begins ==
    ASSUME LeaseInv, NEW t \in Thread, ~Working(t), Overlap(t),
           UNCHANGED <<path, cfg, runtime>>,
           \A r \in Thread \ {t} : thr'[r] = thr[r],
           Working(t)', Settled => Doing(t)'
    PROVE  LeaseInv'
<1> SUFFICES ASSUME ~overlapped' PROVE (Alone /\ AtRest /\ \A r \in Thread : Doing(r))'
  BY DEF LeaseInv
<1>1. ~overlapped /\ \A r \in Thread \ {t} : ~Working(r)
  BY DEF Overlap
<1>2. Settled
  BY <1>1 DEF LeaseInv, AtRest
<1>3. \A r \in Thread \ {t} : ~Working(r)'
  BY <1>1 DEF Working
<1>4. \A r \in Thread \ {t} : Doing(r)'
  BY <1>3 DEF Doing, Working
<1> QED BY <1>2, <1>3, <1>4 DEF Alone, AtRest

\* A step that neither begins an operation nor belongs to one.
LEMMA Rests ==
    ASSUME LeaseInv, UNCHANGED <<path, cfg, runtime, overlapped>>,
           \A r \in Thread : thr'[r] = thr[r] \/ (~Working(r) /\ ~Working(r)')
    PROVE  LeaseInv'
<1> SUFFICES ASSUME ~overlapped PROVE (Alone /\ AtRest /\ \A r \in Thread : Doing(r))'
  BY DEF LeaseInv
<1>1. \A r \in Thread : Working(r)' <=> Working(r)
  BY DEF Working
<1>2. ASSUME NEW r \in Thread PROVE Doing(r)'
  <2>1. CASE thr'[r] = thr[r]
    BY <2>1 DEF LeaseInv, Doing, Settled, Aim, Back
  <2>2. CASE ~Working(r)'
    BY <2>2 DEF Doing, Working
  <2> QED BY <2>1, <2>2
<1>3. Alone' /\ AtRest'
  BY <1>1 DEF LeaseInv, Alone, AtRest, Settled
<1> QED BY <1>2, <1>3

\* The service starts with nothing in progress.
LEMMA LeaseInit == Init => LeaseInv
  BY DEF Init, LeaseInv, Alone, AtRest, Settled, Doing, Working, Idle

\* No step breaks what is known of the operation in progress.
LEMMA LeaseNext == TypeOK /\ LeaseInv /\ [Next]_vars => LeaseInv'
<1> SUFFICES ASSUME TypeOK, LeaseInv, [Next]_vars PROVE LeaseInv'
  OBVIOUS
<1>0. thr \in [Thread -> Op]
  BY DEF TypeOK
<1> USE <1>0
<1>1. ASSUME NEW t \in Thread, Take(t) PROVE LeaseInv'
  <2>1. \A r \in Thread \ {t} : thr'[r] = thr[r]
    BY <1>1 DEF Take
  <2>2. UNCHANGED <<path, cfg, runtime>> /\ Overlap(t) /\ ~Working(t)
    BY <1>1 DEF Take, lease, Working
  <2>3. \/ thr'[t].pc = "claim" /\ thr'[t].op = "activate" /\ thr'[t].prev = path
        \/ thr'[t].pc = "swap" /\ thr'[t].op = "revert" /\ thr'[t].target = Default
    BY <1>1 DEF Take, Idle
  <2>4. Working(t)' /\ (Settled => Doing(t)')
    BY <2>2, <2>3 DEF Working, Doing, Settled, Aim, Back
  <2> QED BY <2>1, <2>2, <2>4, Begins
<1>2. ASSUME NEW t \in Thread, Claim(t) PROVE LeaseInv'
  <2>1. \A r \in Thread \ {t} : thr'[r] = thr[r]
    BY <1>2 DEF Claim, Goto
  <2>2. UNCHANGED <<cfg, runtime, overlapped>> /\ Working(t)
    BY <1>2 DEF Claim, Working
  <2>3. ASSUME ~overlapped PROVE Doing(t)' /\ (~Working(t)' => Settled')
    <3>1. thr[t].op = "activate" /\ Settled /\ thr[t].prev = path
      BY <1>2, <2>3 DEF LeaseInv, Doing, Claim
    <3>2. CASE thr[t].target = path
      <4>1. thr'[t].pc = "idle" /\ UNCHANGED path
        BY <1>2, <3>2 DEF Claim, Idle
      <4> QED BY <2>2, <3>1, <4>1 DEF Doing, Settled
    <3>3. CASE thr[t].target # path
      <4>1. path' = thr[t].target /\ thr'[t] = [thr[t] EXCEPT !.pc = "swap"]
        BY <1>2, <3>3 DEF Claim, Goto
      <4>2. thr'[t].pc = "swap" /\ thr'[t].op = "activate" /\ thr'[t].target = path' /\ thr'[t].prev = path
        BY <3>1, <4>1 DEF Op
      <4> QED BY <2>2, <3>1, <4>2 DEF Doing, Settled, Working, Aim, Back
    <3> QED BY <3>2, <3>3
  <2> QED BY <2>1, <2>2, <2>3, Proceeds
<1>3. ASSUME NEW t \in Thread, Reload(t) PROVE LeaseInv'
  <2>1. \A r \in Thread \ {t} : thr'[r] = thr[r]
    BY <1>3 DEF Reload
  <2>2. UNCHANGED <<path, cfg, runtime>> /\ Overlap(t) /\ ~Working(t)
    BY <1>3 DEF Reload, lease, Working
  <2>3. thr'[t].pc = "swap" /\ thr'[t].op = "reload" /\ thr'[t].target = path
    BY <1>3 DEF Reload, Idle
  <2>4. Working(t)' /\ (Settled => Doing(t)')
    BY <2>2, <2>3 DEF Working, Doing, Settled, Aim, Back
  <2> QED BY <2>1, <2>2, <2>4, Begins
<1>4. ASSUME NEW t \in Thread, Check(t) PROVE LeaseInv'
  <2>1. \A r \in Thread : thr'[r] = thr[r] \/ (~Working(r) /\ ~Working(r)')
    BY <1>4 DEF Check, Working, Idle
  <2> QED BY <1>4, <2>1, Rests DEF Check, lease, history
<1>5. ASSUME NEW t \in Thread, Count(t) PROVE LeaseInv'
  <2>1. \A r \in Thread \ {t} : thr'[r] = thr[r]
    BY <1>5 DEF Count
  <2>2. UNCHANGED <<path, cfg, runtime>> /\ ~Working(t)
    BY <1>5 DEF Count, Working
  <2>3. \/ thr'[t].pc = "idle" /\ UNCHANGED overlapped
        \/ thr'[t].pc = "swap" /\ thr'[t].op = "expire" /\ thr'[t].target = Default /\ Overlap(t)
    <3>1. \/ thr' = [thr EXCEPT ![t] = Idle] /\ UNCHANGED overlapped
          \/ thr' = [thr EXCEPT ![t] = [Idle EXCEPT !.pc = "swap", !.op = "expire"]] /\ Overlap(t)
      BY <1>5 DEF Count
    <3>2. CASE thr' = [thr EXCEPT ![t] = Idle] /\ UNCHANGED overlapped
      BY <3>2 DEF Idle
    <3>3. CASE thr' = [thr EXCEPT ![t] = [Idle EXCEPT !.pc = "swap", !.op = "expire"]] /\ Overlap(t)
      <4>1. thr'[t] = [Idle EXCEPT !.pc = "swap", !.op = "expire"]
        BY <3>3
      <4>2. thr'[t].pc = "swap" /\ thr'[t].op = "expire" /\ thr'[t].target = Default
        BY <4>1 DEF Idle
      <4> QED BY <3>3, <4>2
    <3> QED BY <3>1, <3>2, <3>3
  <2>4. CASE thr'[t].pc = "idle" /\ UNCHANGED overlapped
    BY <2>1, <2>2, <2>4, Rests DEF Working
  <2>5. CASE thr'[t].pc = "swap" /\ thr'[t].op = "expire" /\ thr'[t].target = Default /\ Overlap(t)
    <3>1. Working(t)' /\ (Settled => Doing(t)')
      BY <2>2, <2>5 DEF Working, Doing, Settled, Aim, Back
    <3> QED BY <2>1, <2>2, <2>5, <3>1, Begins
  <2> QED BY <2>3, <2>4, <2>5
<1>6. ASSUME NEW t \in Thread, Swap(t) PROVE LeaseInv'
  <2>1. \A r \in Thread \ {t} : thr'[r] = thr[r]
    BY <1>6 DEF Swap, Goto
  <2>2. UNCHANGED <<path, runtime, overlapped>> /\ Working(t)
    BY <1>6 DEF Swap, Working, lease, history
  <2>3. ASSUME ~overlapped PROVE Doing(t)' /\ (~Working(t)' => Settled')
    <3>1. Aim(thr[t]) /\ cfg = Back(thr[t]) /\ runtime = Back(thr[t])
      BY <1>6, <2>3 DEF LeaseInv, Doing, Swap
    <3>2. CASE cfg' = thr[t].target /\ thr' = [thr EXCEPT ![t].pc = "notify", ![t].saved = cfg]
      <4>1. /\ thr'[t].pc = "notify" /\ thr'[t].saved = cfg
            /\ thr'[t].op = thr[t].op /\ thr'[t].target = thr[t].target /\ thr'[t].prev = thr[t].prev
        BY <3>2 DEF Op
      <4> QED BY <2>2, <3>1, <3>2, <4>1 DEF Doing, Working, Aim, Back
    <3>3. CASE Goto(t, "failed") /\ UNCHANGED cfg
      <4>1. /\ thr'[t].pc = "failed"
            /\ thr'[t].op = thr[t].op /\ thr'[t].target = thr[t].target /\ thr'[t].prev = thr[t].prev
        BY <3>3 DEF Op, Goto
      <4> QED BY <2>2, <3>1, <3>3, <4>1 DEF Doing, Working, Aim, Back
    <3> QED BY <1>6, <3>2, <3>3 DEF Swap
  <2> QED BY <2>1, <2>2, <2>3, Proceeds
<1>7. ASSUME NEW t \in Thread, Notify(t) PROVE LeaseInv'
  <2>1. \A r \in Thread \ {t} : thr'[r] = thr[r]
    BY <1>7 DEF Notify
  <2>2. UNCHANGED <<path, cfg, runtime, overlapped>> /\ Working(t)
    BY <1>7 DEF Notify, Working, lease, history
  <2>3. /\ thr'[t].pc = IF thr[t].pc = "notify" THEN "configure" ELSE "reconfigure"
        /\ thr'[t].copy = cfg /\ thr'[t].saved = thr[t].saved
        /\ thr'[t].op = thr[t].op /\ thr'[t].target = thr[t].target /\ thr'[t].prev = thr[t].prev
    BY <1>7 DEF Notify, Op
  <2>4. ASSUME ~overlapped PROVE Doing(t)' /\ (~Working(t)' => Settled')
    <3>1. CASE thr[t].pc = "notify"
      <4>1. Aim(thr[t]) /\ cfg = thr[t].target /\ thr[t].saved = Back(thr[t])
        BY <2>4, <3>1 DEF LeaseInv, Doing
      <4> QED BY <2>2, <2>3, <3>1, <4>1 DEF Doing, Working, Aim, Back
    <3>2. CASE thr[t].pc = "renotify"
      <4>1. Aim(thr[t]) /\ cfg = Back(thr[t])
        BY <2>4, <3>2 DEF LeaseInv, Doing
      <4> QED BY <2>2, <2>3, <3>2, <4>1 DEF Doing, Working, Aim, Back
    <3> QED BY <1>7, <3>1, <3>2 DEF Notify
  <2> QED BY <2>1, <2>2, <2>4, Proceeds
<1>8. ASSUME NEW t \in Thread, Configure(t) PROVE LeaseInv'
  <2>1. \A r \in Thread \ {t} : thr'[r] = thr[r]
    BY <1>8 DEF Configure, Goto
  <2>2. UNCHANGED <<path, overlapped>> /\ Working(t) /\ runtime' = thr[t].copy
    BY <1>8 DEF Configure, Working, lease, history
  <2>3. ASSUME ~overlapped PROVE Doing(t)' /\ (~Working(t)' => Settled')
    <3>1. /\ Aim(thr[t]) /\ cfg = thr[t].target /\ thr[t].saved = Back(thr[t])
          /\ thr[t].copy = thr[t].target
      BY <1>8, <2>3 DEF LeaseInv, Doing, Configure
    <3>2. CASE Goto(t, AfterSwitch(thr[t].op)) /\ UNCHANGED cfg
      <4>1. thr'[t].pc = AfterSwitch(thr[t].op)
        BY <3>2 DEF Op, Goto
      <4>2. CASE thr[t].op \in {"activate", "reload"}
        <5>1. thr'[t].pc \in {"persist", "idle"} /\ Settled'
          BY <2>2, <3>1, <3>2, <4>1, <4>2 DEF AfterSwitch, Settled, Aim
        <5> QED BY <5>1 DEF Doing
      <4>3. CASE thr[t].op \in {"revert", "expire"}
        <5>1. thr'[t].pc = "clear" /\ cfg' = Default /\ runtime' = Default
          BY <2>2, <3>1, <3>2, <4>1, <4>3 DEF AfterSwitch, Aim
        <5> QED BY <5>1 DEF Doing, Working
      <4> QED BY <3>1, <4>2, <4>3 DEF Aim
    <3>3. CASE Goto(t, "renotify") /\ cfg' = thr[t].saved
      <4>1. /\ thr'[t].pc = "renotify"
            /\ thr'[t].op = thr[t].op /\ thr'[t].target = thr[t].target /\ thr'[t].prev = thr[t].prev
        BY <3>3 DEF Op, Goto
      <4> QED BY <2>2, <3>1, <3>3, <4>1 DEF Doing, Working, Aim, Back
    <3> QED BY <1>8, <3>2, <3>3 DEF Configure
  <2> QED BY <2>1, <2>2, <2>3, Proceeds
<1>9. ASSUME NEW t \in Thread, Reconfigure(t) PROVE LeaseInv'
  <2>1. \A r \in Thread \ {t} : thr'[r] = thr[r]
    BY <1>9 DEF Reconfigure, Goto
  <2>2. UNCHANGED <<path, cfg, overlapped>> /\ Working(t) /\ runtime' = thr[t].copy
    BY <1>9 DEF Reconfigure, Working, lease, history
  <2>3. /\ thr'[t].pc = "failed"
        /\ thr'[t].op = thr[t].op /\ thr'[t].target = thr[t].target /\ thr'[t].prev = thr[t].prev
    BY <1>9 DEF Reconfigure, Goto, Op
  <2>4. ASSUME ~overlapped PROVE Doing(t)' /\ (~Working(t)' => Settled')
    <3>1. Aim(thr[t]) /\ cfg = Back(thr[t]) /\ thr[t].copy = cfg
      BY <1>9, <2>4 DEF LeaseInv, Doing, Reconfigure
    <3> QED BY <2>2, <2>3, <3>1 DEF Doing, Working, Aim, Back
  <2> QED BY <2>1, <2>2, <2>4, Proceeds
<1>10. ASSUME NEW t \in Thread, Persist(t) PROVE LeaseInv'
  <2>1. (\A r \in Thread \ {t} : thr'[r] = thr[r]) /\ thr'[t].pc = "idle"
    BY <1>10 DEF Persist, Done, Idle
  <2>2. UNCHANGED <<path, cfg, runtime, overlapped>> /\ Working(t)
    BY <1>10 DEF Persist, Working, lease
  <2>3. ASSUME ~overlapped PROVE Doing(t)' /\ (~Working(t)' => Settled')
    BY <1>10, <2>1, <2>2, <2>3 DEF LeaseInv, Doing, Persist, Settled
  <2> QED BY <2>1, <2>2, <2>3, Proceeds
<1>11. ASSUME NEW t \in Thread, Clear(t) PROVE LeaseInv'
  <2>1. \A r \in Thread \ {t} : thr'[r] = thr[r]
    BY <1>11 DEF Clear, Goto
  <2>2. UNCHANGED <<path, cfg, runtime, overlapped>> /\ Working(t) /\ thr'[t].pc = "release"
    BY <1>11 DEF Clear, Working, lease, history, Goto, Op
  <2>3. ASSUME ~overlapped PROVE Doing(t)' /\ (~Working(t)' => Settled')
    BY <1>11, <2>2, <2>3 DEF LeaseInv, Doing, Clear, Working
  <2> QED BY <2>1, <2>2, <2>3, Proceeds
<1>12. ASSUME NEW t \in Thread, Release(t) PROVE LeaseInv'
  <2>1. (\A r \in Thread \ {t} : thr'[r] = thr[r]) /\ thr'[t].pc = "idle"
    BY <1>12 DEF Release, Done, Idle
  <2>2. UNCHANGED <<cfg, runtime, overlapped>> /\ Working(t) /\ path' = Default
    BY <1>12 DEF Release, Working
  <2>3. ASSUME ~overlapped PROVE Doing(t)' /\ (~Working(t)' => Settled')
    BY <1>12, <2>1, <2>2, <2>3 DEF LeaseInv, Doing, Release, Settled
  <2> QED BY <2>1, <2>2, <2>3, Proceeds
<1>13. ASSUME NEW t \in Thread, Fail(t) PROVE LeaseInv'
  <2>1. (\A r \in Thread \ {t} : thr'[r] = thr[r]) /\ thr'[t].pc = "idle"
    BY <1>13 DEF Fail, Done, Idle
  <2>2. UNCHANGED <<cfg, runtime, overlapped>> /\ Working(t) /\ path' = Back(thr[t])
    BY <1>13 DEF Fail, Working, Back
  <2>3. ASSUME ~overlapped PROVE Doing(t)' /\ (~Working(t)' => Settled')
    <3>1. cfg = Back(thr[t]) /\ runtime = Back(thr[t])
      BY <1>13, <2>3 DEF LeaseInv, Doing, Fail
    <3> QED BY <2>1, <2>2, <3>1 DEF Doing, Settled
  <2> QED BY <2>1, <2>2, <2>3, Proceeds
<1>14. ASSUME NEW u \in User, Start(u) \/ Leave(u) \/ Vanish(u) PROVE LeaseInv'
  BY <1>14, Rests DEF Start, Leave, Vanish, lease, history
<1>15. CASE Restart
  BY <1>15 DEF Restart, Idle, LeaseInv, Alone, AtRest, Settled, Doing, Working
<1>16. CASE HoldPasses \/ UNCHANGED vars
  BY <1>16, Rests DEF HoldPasses, vars, lease, history
<1> QED
  BY <1>1, <1>2, <1>3, <1>4, <1>5, <1>6, <1>7, <1>8, <1>9, <1>10, <1>11, <1>12, <1>13, <1>14, <1>15, <1>16
     DEF Next, Step

\* For any number of threads and user nodes: as long as no two operations
\* overlap, whatever fails and is rolled back, and after every restart, the
\* lease watches the configuration the radio runs.
THEOREM LeaseTracks == Spec => []LeaseTracksRuntime
<1>1. TypeOK /\ LeaseInv => LeaseTracksRuntime
  BY DEF LeaseInv, AtRest, Settled, LeaseTracksRuntime, Quiet, Working
<1> QED BY <1>1, TypeInit, TypeNext, LeaseInit, LeaseNext, PTL DEF Spec

-----------------------------------------------------------------------------
(* A live user node keeps its overlay                                       *)

\* The stale checks in progress cannot fill the count of misses.
Few == ~crowded => Cardinality(Stale) + misses < MaxMisses

\* A request has one life of its user node, and is in the queue or with one thread.
Numbered ==
    /\ \A i, j \in DOMAIN requests :
          requests[i].kind = "activate" /\ requests[j].kind = "activate"
          /\ requests[i].id = requests[j].id => i = j
    /\ \A t \in Thread, i \in DOMAIN requests :
          thr[t].op = "activate" /\ requests[i].kind = "activate" => thr[t].id # requests[i].id
    /\ \A i \in DOMAIN requests : requests[i].kind = "activate" => requests[i].id <= starts
    /\ \A t \in Thread : thr[t].op = "activate" => thr[t].id <= starts

\* What user node u asked for last is last in the queue, and an answer empties it.
InOrder(u) ==
    /\ user[u].state = "on" => requests = <<>>
    /\ user[u].state = "asking" /\ requests # <<>> =>
          requests[Len(requests)].kind = "activate" /\ requests[Len(requests)].id = user[u].id

\* A place of an operation goes with its kind, and to some only a fault leads.
Place(u, t) ==
    /\ thr[t].op = "activate" => Working(t) /\ thr[t].by = u /\ thr[t].target = u
    /\ thr[t].pc \in {"claim", "persist"} => thr[t].op = "activate"
    /\ thr[t].pc \in {"clear", "release"} => thr[t].op \in {"revert", "expire"}
    /\ faults = 0 => thr[t].pc \notin {"renotify", "reconfigure", "failed"}

Places(u) == \A t \in Thread : Place(u, t)

\* u waits for the answer of t, which has claimed the lease for it.
Claimed(u, t) ==
    /\ thr[t].op = "activate" /\ thr[t].pc # "claim"
    /\ user[u].state = "asking" /\ user[u].id = thr[t].id

Confirmed(u) == owner = u /\ user[u].state = "on"

Kept(u) ==
    /\ \A t \in Thread : Claimed(u, t) => Few
    /\ \A t \in Thread : thr[t].pc = "persist" => path = u
    /\ Confirmed(u) => \A t \in Thread : Working(t) => thr[t].op \in {"reload", "expire"}
    /\ Confirmed(u) /\ ~crowded => /\ Few /\ path = u /\ disk = u
                                   /\ \A t \in Thread : Working(t) => thr[t].op = "reload"

KeepInv(u) == Numbered /\ InOrder(u) /\ Places(u) /\ (~overlapped /\ faults = 0 => Kept(u))

\* A step of thread t.
Only(t) == \A r \in Thread \ {t} : thr'[r] = thr[r]

LEMMA StepOnly ==
    ASSUME TypeOK, NEW t \in Thread, Step(t) \/ Check(t) \/ Reload(t)
    PROVE  Only(t)
<1>0. thr \in [Thread -> Op]
  BY DEF TypeOK
<1>1. CASE Take(t) \/ Reload(t)
  BY <1>0, <1>1 DEF Take, Reload, Only
<1>6. CASE Check(t)
  <2>1. PICK live \in Heard : thr' = [thr EXCEPT ![t] = [Idle EXCEPT !.pc = "counting", !.op = "check",
                                                                     !.live = live]]
    BY <1>6, Zenon DEF Check
  <2> QED BY <1>0, <2>1 DEF Only
<1>2. CASE Claim(t) \/ Count(t)
  BY <1>0, <1>2 DEF Claim, Count, Goto, Only
<1>3. CASE Swap(t) \/ Notify(t)
  BY <1>0, <1>3 DEF Swap, Notify, Goto, Only
<1>4. CASE Configure(t) \/ Reconfigure(t) \/ Clear(t)
  BY <1>0, <1>4 DEF Configure, Reconfigure, Clear, Goto, Only
<1>5. CASE Persist(t) \/ Release(t) \/ Fail(t)
  BY <1>0, <1>5 DEF Persist, Release, Fail, Done, Only
<1> QED BY <1>1, <1>2, <1>3, <1>4, <1>5, <1>6 DEF Step

\* Faults are counted.
LEMMA FaultsCounted == ASSUME TypeOK, [Next]_vars, faults' = 0 PROVE faults = 0
<1>0. faults \in Nat
  BY Bounds DEF TypeOK
<1>1. UNCHANGED counts \/ Fault => faults = 0
  BY <1>0 DEF counts, Fault
<1>2. ASSUME NEW t \in Thread, Step(t) PROVE faults = 0
  <2>1. CASE Take(t) \/ Claim(t) \/ Count(t) \/ Swap(t)
    BY <1>1, <2>1 DEF Take, Claim, Count, Swap
  <2>2. CASE Notify(t) \/ Configure(t) \/ Reconfigure(t)
    BY <1>1, <2>2 DEF Notify, Configure, Reconfigure
  <2>3. CASE Persist(t) \/ Clear(t) \/ Release(t) \/ Fail(t)
    BY <1>1, <2>3 DEF Persist, Clear, Release, Fail
  <2> QED BY <1>2, <2>1, <2>2, <2>3 DEF Step
<1>3. ASSUME NEW t \in Thread, Check(t) \/ Reload(t) PROVE faults = 0
  <2>1. CASE Check(t)
    BY <1>1, <2>1 DEF Check
  <2>2. CASE Reload(t)
    BY <2>2 DEF Reload
  <2> QED BY <1>3, <2>1, <2>2
<1>4. ASSUME NEW u \in User, Start(u) \/ Leave(u) \/ Vanish(u) PROVE faults = 0
  BY <1>1, <1>4 DEF Start, Leave, Vanish
<1>5. CASE HoldPasses \/ UNCHANGED vars
  BY <1>1, <1>5 DEF HoldPasses, vars, counts
<1>6. CASE Restart
  BY <1>0, <1>6 DEF Restart
<1> QED BY <1>2, <1>3, <1>4, <1>5, <1>6 DEF Next

\* What has overlapped stays known.
LEMMA OverlapsRecorded == ASSUME [Next]_vars, ~overlapped' PROVE ~overlapped
<1>1. ASSUME NEW t \in Thread, Overlap(t) \/ UNCHANGED overlapped PROVE ~overlapped
  BY <1>1 DEF Overlap
<1>2. ASSUME NEW t \in Thread, Step(t) PROVE ~overlapped
  <2>1. CASE Take(t) \/ Claim(t) \/ Count(t)
    BY <1>1, <2>1 DEF Take, Claim, Count
  <2>2. CASE Swap(t) \/ Notify(t) \/ Configure(t) \/ Reconfigure(t) \/ Clear(t)
    BY <2>2 DEF Swap, Notify, Configure, Reconfigure, Clear, history
  <2>3. CASE Persist(t) \/ Release(t) \/ Fail(t)
    BY <2>3 DEF Persist, Release, Fail
  <2> QED BY <1>2, <2>1, <2>2, <2>3 DEF Step
<1>3. ASSUME NEW t \in Thread, Check(t) PROVE ~overlapped
  BY <1>3 DEF Check, history
<1>4. ASSUME NEW t \in Thread, Reload(t) PROVE ~overlapped
  BY <1>1, <1>4 DEF Reload
<1>5. ASSUME NEW u \in User, Start(u) \/ Leave(u) \/ Vanish(u) PROVE ~overlapped
  BY <1>5 DEF Start, Leave, Vanish, history
<1>6. CASE HoldPasses \/ Restart \/ UNCHANGED vars
  BY <1>6 DEF HoldPasses, Restart, vars, history
<1> QED BY <1>2, <1>3, <1>4, <1>5, <1>6 DEF Next

\* Steps that take no request and make none.
LEMMA NumberedSame ==
    ASSUME TypeOK, Numbered, UNCHANGED requests, starts' \in Nat, starts <= starts',
           \A t \in Thread : thr'[t].op = "activate" => thr[t].op = "activate" /\ thr'[t].id = thr[t].id
    PROVE  Numbered'
<1>1. starts \in Nat /\ \A t \in Thread : thr[t].id \in Nat
  BY DEF TypeOK, Op
<1>2. \A i \in DOMAIN requests : requests[i].id \in Nat
  <2>1. requests \in Seq(Request)
    BY DEF TypeOK
  <2>2. \A i \in DOMAIN requests : requests[i] \in Request
    BY <2>1, ElementOfSeq
  <2> QED BY <2>2, Bounds DEF Request
<1>3. \A t \in Thread : thr'[t].op = "activate" => thr'[t].id <= starts'
  BY <1>1 DEF Numbered
<1>4. \A i \in DOMAIN requests : requests[i].kind = "activate" => requests[i].id <= starts'
  BY <1>1, <1>2 DEF Numbered
<1> QED BY <1>3, <1>4 DEF Numbered

\* Who is answered has nothing else in the queue.
LEMMA AnsweredLast ==
    ASSUME TypeOK, Numbered, NEW p \in User, InOrder(p), NEW t \in Thread,
           thr[t].op = "activate", user[p].state = "asking", user[p].id = thr[t].id
    PROVE  requests = <<>>
<1> SUFFICES ASSUME requests # <<>> PROVE FALSE
  OBVIOUS
<1>1. requests \in Seq(Request)
  BY DEF TypeOK
<1>2. Len(requests) \in DOMAIN requests
  BY <1>1
<1>3. requests[Len(requests)].kind = "activate" /\ requests[Len(requests)].id = thr[t].id
  BY DEF InOrder
<1> QED BY <1>2, <1>3 DEF Numbered

\* What an answer does to the only user node.
LEMMA AnswerEffect ==
    ASSUME TypeOK, NEW p, User = {p}, NEW t \in Thread, NEW success \in BOOLEAN, Answer(t, success)
    PROVE  \/ user' = user /\ owner' = owner
           \/ user'[p].state = "off" /\ owner' = owner
           \/ /\ thr[t].op = "activate" /\ success
              /\ user[p].state = "asking" /\ user[p].id = thr[t].id
              /\ user'[p].state = "on" /\ owner' = p
<1> DEFINE u == thr[t].by
<1>1. p \in User /\ user[p] \in [state : {"off", "asking", "on", "leaving"}, id : 0..MaxStarts]
      /\ DOMAIN user = {p}
  BY DEF TypeOK
<1>2. CASE thr[t].op = "activate" /\ (u \in User /\ user[u] = [state |-> "asking", id |-> thr[t].id]) /\ success
  <2>1. user' = [user EXCEPT ![u].state = "on"] /\ owner' = u /\ u = p
    BY <1>2 DEF Answer
  <2> QED BY <1>1, <1>2, <2>1
<1>3. CASE ~(thr[t].op = "activate" /\ (u \in User /\ user[u] = [state |-> "asking", id |-> thr[t].id]) /\ success)
  <2>1. owner' = owner /\ (user' = user \/ (u \in User /\ user' = [user EXCEPT ![u] = Gone]))
    BY <1>3 DEF Answer
  <2>2. u \in User => u = p
    OBVIOUS
  <2>3. u \in User /\ user' = [user EXCEPT ![u] = Gone] => user'[p] = Gone
    BY <1>1, <2>2
  <2> QED BY <2>1, <2>3 DEF Gone
<1> QED BY <1>2, <1>3

\* The order of the queue after an answer.
LEMMA AnswerOrder ==
    ASSUME TypeOK, Numbered, NEW p, User = {p}, InOrder(p), NEW t \in Thread,
           NEW success \in BOOLEAN, Answer(t, success), UNCHANGED requests
    PROVE  InOrder(p)'
<1>1. p \in User
  OBVIOUS
<1>2. CASE user' = user \/ user'[p].state = "off"
  BY <1>2 DEF InOrder
<1>3. CASE /\ thr[t].op = "activate" /\ user[p].state = "asking" /\ user[p].id = thr[t].id
           /\ user'[p].state = "on"
  BY <1>1, <1>3, AnsweredLast DEF InOrder
<1> QED BY <1>2, <1>3, AnswerEffect

\* A request joins the queue behind all others.
LEMMA Queued ==
    ASSUME TypeOK, NEW r \in Request, requests' = Append(requests, r)
    PROVE  /\ requests' # <<>> /\ requests'[Len(requests')] = r
           /\ DOMAIN requests' = DOMAIN requests \cup {Len(requests')}
           /\ Len(requests') \notin DOMAIN requests
           /\ \A i \in DOMAIN requests : requests'[i] = requests[i]
<1>1. requests \in Seq(Request)
  BY DEF TypeOK
<1> QED BY <1>1

\* The head of the queue is taken.
LEMMA Dequeued ==
    ASSUME TypeOK, requests # <<>>, requests' = Tail(requests)
    PROVE  /\ 1 \in DOMAIN requests /\ Head(requests) = requests[1]
           /\ \A i \in DOMAIN requests' : i \in Nat /\ i + 1 # 1 /\ i + 1 \in DOMAIN requests
                                          /\ requests'[i] = requests[i + 1]
           /\ requests' # <<>> => requests'[Len(requests')] = requests[Len(requests)]
<1>1. requests \in Seq(Request)
  BY DEF TypeOK
<1> QED BY <1>1

\* No step confuses the requests.
LEMMA QueueNext ==
    ASSUME TypeOK, NEW p, User = {p}, Numbered, InOrder(p), Places(p), [Next]_vars
    PROVE  Numbered' /\ InOrder(p)'
<1>0. /\ thr \in [Thread -> Op] /\ starts \in Nat /\ p \in User
      /\ user \in [User -> [state : {"off", "asking", "on", "leaving"}, id : 0..MaxStarts]]
  BY Bounds DEF TypeOK
<1>1. CASE Start(p)
  <2> DEFINE r == [kind |-> "activate", by |-> p, id |-> starts']
  <2>1. starts' = starts + 1 /\ starts' \in 0..MaxStarts /\ thr' = thr /\ requests' = Append(requests, r)
    BY <1>0, <1>1, Bounds DEF Start
  <2>2. r \in Request /\ r.kind = "activate" /\ r.id = starts'
    BY <2>1 DEF Request
  <2>3. user'[p] = [state |-> "asking", id |-> starts']
    BY <1>0, <1>1 DEF Start
  <2> HIDE DEF r
  <2>4. InOrder(p)'
    BY <2>1, <2>2, <2>3, Queued DEF InOrder
  <2>5. requests \in Seq(Request)
    BY DEF TypeOK
  <2>6. \A i \in DOMAIN requests : requests[i] \in Request
    BY <2>5, ElementOfSeq
  <2>7. \A i \in DOMAIN requests : requests[i].kind = "activate" =>
          requests[i].id # starts' /\ requests[i].id <= starts'
    <3>1. \A i \in DOMAIN requests : requests[i].id \in Nat
      BY <2>6, Bounds DEF Request
    <3> QED BY <1>0, <2>1, <3>1 DEF Numbered
  <2>8. \A t \in Thread : thr[t].op = "activate" => thr'[t].id # starts' /\ thr'[t].id <= starts'
    <3>1. \A t \in Thread : thr[t].id \in Nat
      BY <1>0, Bounds DEF Op
    <3> QED BY <1>0, <2>1, <3>1 DEF Numbered
  <2>9. /\ DOMAIN requests' = DOMAIN requests \cup {Len(requests')}
        /\ requests'[Len(requests')] = r
        /\ \A i \in DOMAIN requests : requests'[i] = requests[i]
    BY <2>1, <2>2, Queued
  <2>10. starts' <= starts'
    BY <1>0, <2>1
  <2> DEFINE n == Len(requests')
  <2> HIDE DEF n
  <2>14. /\ n \notin DOMAIN requests /\ requests'[n].id = starts'
         /\ \A i \in DOMAIN requests' : i = n \/ (i \in DOMAIN requests /\ requests'[i] = requests[i])
    BY <2>1, <2>2, <2>9, Queued DEF n
  <2>11. \A i, j \in DOMAIN requests' :
           requests'[i].kind = "activate" /\ requests'[j].kind = "activate"
           /\ requests'[i].id = requests'[j].id => i = j
    BY <2>7, <2>14 DEF Numbered
  <2>12. \A t \in Thread, i \in DOMAIN requests' :
           thr'[t].op = "activate" /\ requests'[i].kind = "activate" => thr'[t].id # requests'[i].id
    BY <2>1, <2>2, <2>8, <2>9 DEF Numbered
  <2>13. \A i \in DOMAIN requests' : requests'[i].kind = "activate" => requests'[i].id <= starts'
    BY <2>7, <2>10, <2>14
  <2> QED BY <2>1, <2>4, <2>8, <2>11, <2>12, <2>13 DEF Numbered
<1>2. CASE Leave(p)
  <2> DEFINE r == [kind |-> "revert", by |-> p, id |-> user[p].id]
  <2>1. starts' = starts /\ thr' = thr /\ requests' = Append(requests, r)
    BY <1>2 DEF Leave, counts
  <2>2. r \in Request /\ r.kind = "revert"
    BY <1>0 DEF Request
  <2>3. user'[p].state = "leaving"
    BY <1>0, <1>2 DEF Leave
  <2> HIDE DEF r
  <2>4. /\ DOMAIN requests' = DOMAIN requests \cup {Len(requests')}
        /\ requests'[Len(requests')] = r
        /\ \A i \in DOMAIN requests : requests'[i] = requests[i]
    BY <2>1, <2>2, Queued
  <2> QED BY <2>1, <2>2, <2>3, <2>4 DEF Numbered, InOrder
<1>3. CASE Vanish(p)
  <2>1. user'[p].state = "off" /\ UNCHANGED <<requests, thr, starts>>
    BY <1>0, <1>3 DEF Vanish, Gone, counts
  <2> QED BY <2>1 DEF Numbered, InOrder
<1>4. ASSUME NEW t \in Thread, Take(t) PROVE Numbered' /\ InOrder(p)'
  <2>1. requests # <<>> /\ requests' = Tail(requests) /\ UNCHANGED <<user, starts>>
    BY <1>4 DEF Take, counts
  <2>2. 1 \in DOMAIN requests /\ Head(requests) = requests[1]
    BY <2>1, Dequeued
  <2>3. /\ thr'[t].op = "activate" => requests[1].kind = "activate" /\ thr'[t].id = requests[1].id
        /\ Only(t)
    BY <1>0, <1>4, <2>2 DEF Take, Idle, Only
  <2>4. /\ \A i \in DOMAIN requests' : i \in Nat /\ i + 1 # 1 /\ i + 1 \in DOMAIN requests
                                       /\ requests'[i] = requests[i + 1]
        /\ requests' # <<>> => requests'[Len(requests')] = requests[Len(requests)]
    BY <2>1, Dequeued
  <2>5. InOrder(p)'
    BY <2>1, <2>4 DEF InOrder
  <2>6. ASSUME NEW i \in DOMAIN requests', NEW j \in DOMAIN requests',
               requests'[i].kind = "activate", requests'[j].kind = "activate",
               requests'[i].id = requests'[j].id
        PROVE  i = j
    <3>1. i + 1 = j + 1
      BY <2>4, <2>6 DEF Numbered
    <3> QED BY <2>4, <3>1
  <2>7. ASSUME NEW s \in Thread, NEW i \in DOMAIN requests',
               thr'[s].op = "activate", requests'[i].kind = "activate"
        PROVE  thr'[s].id # requests'[i].id
    BY <2>2, <2>3, <2>4, <2>7 DEF Numbered, Only
  <2>8. \A i \in DOMAIN requests' : requests'[i].kind = "activate" => requests'[i].id <= starts'
    BY <2>1, <2>4 DEF Numbered
  <2>9. \A s \in Thread : thr'[s].op = "activate" => thr'[s].id <= starts'
    BY <2>1, <2>2, <2>3 DEF Numbered, Only
  <2> QED BY <2>5, <2>6, <2>7, <2>8, <2>9 DEF Numbered
<1>5. ASSUME NEW t \in Thread, Claim(t) \/ Persist(t) \/ Release(t) \/ Fail(t)
      PROVE  Numbered' /\ InOrder(p)'
  <2>1. requests' = requests /\ starts' = starts
    BY <1>5 DEF Claim, Persist, Release, Fail, Fault, counts
  <2>2. \A s \in Thread : thr'[s].op = "activate" => thr[s].op = "activate" /\ thr'[s].id = thr[s].id
    <3>1. \/ thr' = [thr EXCEPT ![t] = Idle]
          \/ thr' = [thr EXCEPT ![t].pc = "swap"]
      BY <1>5 DEF Claim, Persist, Release, Fail, Done, Goto
    <3>2. CASE thr' = [thr EXCEPT ![t] = Idle]
      BY <1>0, <3>2 DEF Idle
    <3>3. CASE thr' = [thr EXCEPT ![t].pc = "swap"]
      BY <1>0, <3>3 DEF Op
    <3> QED BY <3>1, <3>2, <3>3
  <2>3. Numbered'
    BY <1>0, <2>1, <2>2, NumberedSame
  <2>4. user' = user \/ Answer(t, TRUE) \/ Answer(t, FALSE)
    BY <1>5 DEF Claim, Persist, Release, Fail
  <2>5. ASSUME user' = user PROVE InOrder(p)'
    BY <2>1, <2>5 DEF InOrder
  <2>6. InOrder(p)'
    BY <2>1, <2>4, <2>5, AnswerOrder
  <2> QED BY <2>3, <2>6
<1>6. ASSUME NEW t \in Thread,
             \/ Swap(t) \/ Notify(t) \/ Configure(t) \/ Reconfigure(t) \/ Clear(t)
             \/ Check(t) \/ Count(t) \/ Reload(t)
      PROVE  Numbered' /\ InOrder(p)'
  <2>1. requests' = requests /\ user' = user /\ starts' \in Nat /\ starts <= starts'
    <3>1. CASE Swap(t) \/ Configure(t)
      BY <1>0, <3>1 DEF Swap, Configure, Fault, counts
    <3>2. CASE Notify(t) \/ Reconfigure(t)
      BY <1>0, <3>2 DEF Notify, Reconfigure, counts
    <3>5. CASE Check(t)
      BY <1>0, <3>5 DEF Check, counts
    <3>6. CASE Count(t)
      BY <1>0, <3>6 DEF Count, counts
    <3>3. CASE Clear(t)
      BY <1>0, <3>3 DEF Clear, Fault, counts
    <3>4. CASE Reload(t)
      BY <1>0, <3>4 DEF Reload
    <3> QED BY <1>6, <3>1, <3>2, <3>3, <3>4, <3>5, <3>6
  <2>2. \A s \in Thread : thr'[s].op = "activate" => thr[s].op = "activate" /\ thr'[s].id = thr[s].id
    <3>1. CASE Check(t) \/ Count(t) \/ Reload(t)
      <4>1. Only(t)
        BY <3>1, StepOnly DEF Step
      <4>2. CASE Check(t)
        BY <1>0, <4>1, <4>2 DEF Check, Idle, Only
      <4>3. CASE Count(t)
        <5>1. \/ thr' = [thr EXCEPT ![t] = Idle]
              \/ thr' = [thr EXCEPT ![t] = [Idle EXCEPT !.pc = "swap", !.op = "expire"]]
          BY <4>3 DEF Count
        <5>2. thr'[t] = Idle \/ thr'[t] = [Idle EXCEPT !.pc = "swap", !.op = "expire"]
          BY <1>0, <5>1
        <5>3. Idle.op # "activate" /\ [Idle EXCEPT !.pc = "swap", !.op = "expire"].op # "activate"
          BY DEF Idle
        <5> QED BY <4>1, <5>2, <5>3 DEF Only
      <4>4. CASE Reload(t)
        BY <1>0, <4>1, <4>4 DEF Reload, Idle, Only
      <4> QED BY <3>1, <4>2, <4>3, <4>4
    <3>2. CASE Swap(t) \/ Notify(t)
      BY <1>0, <3>2 DEF Swap, Notify, Goto, Op
    <3>3. CASE Configure(t) \/ Reconfigure(t) \/ Clear(t)
      BY <1>0, <3>3 DEF Configure, Reconfigure, Clear, Goto, Op
    <3> QED BY <1>6, <3>1, <3>2, <3>3
  <2> QED BY <2>1, <2>2, NumberedSame DEF InOrder
<1>7. CASE Restart
  <2>1. requests' = <<>> /\ user'[p].state \in {"on", "off"}
        /\ \A t \in Thread : thr'[t].op # "activate"
    BY <1>0, <1>7 DEF Restart, Gone, Idle
  <2>2. DOMAIN requests' = {}
    BY <2>1
  <2> QED BY <2>1, <2>2 DEF Numbered, InOrder
<1>8. CASE HoldPasses \/ UNCHANGED vars
  BY <1>8 DEF HoldPasses, vars, counts, Numbered, InOrder
<1> QED BY <1>1, <1>2, <1>3, <1>4, <1>5, <1>6, <1>7, <1>8 DEF Next, Step

\* A step of thread t changes only its place.
LEMMA PlacesOnly ==
    ASSUME NEW p, Places(p), NEW t \in Thread, Only(t), faults' = 0 => faults = 0, Place(p, t)'
    PROVE  Places(p)'
  BY DEF Only, Places, Place, Working

\* A step from one place to another of the same operation.
LEMMA PlacesGoto ==
    ASSUME thr \in [Thread -> Op], NEW p, Places(p), NEW t \in Thread, Only(t),
           faults' = 0 => faults = 0, Working(t),
           thr'[t].op = thr[t].op, thr'[t].by = thr[t].by, thr'[t].target = thr[t].target,
           \/ thr'[t].pc \in {"swap", "notify", "configure"}
           \/ thr'[t].pc \in {"renotify", "reconfigure", "failed"} /\ faults' # 0
    PROVE  Places(p)'
  BY PlacesOnly DEF Places, Place, Working

\* No step takes an operation where it does not belong.
LEMMA PlacesNext ==
    ASSUME TypeOK, NEW p, User = {p}, Places(p), [Next]_vars
    PROVE  Places(p)'
<1>0. thr \in [Thread -> Op] /\ faults \in Nat
  BY Bounds DEF TypeOK
<1>1. faults' = 0 => faults = 0
  BY FaultsCounted
<1>2. ASSUME NEW t \in Thread, Take(t) PROVE Places(p)'
  <2>1. requests \in Seq(Request) /\ Head(requests) \in Request /\ Only(t)
    BY <1>2 DEF Take, TypeOK, Only
  <2>2. \/ /\ thr'[t].pc = "claim" /\ thr'[t].op = "activate"
           /\ thr'[t].by = Head(requests).by /\ thr'[t].target = Head(requests).by
        \/ thr'[t].pc = "swap" /\ thr'[t].op = "revert"
    BY <1>0, <1>2 DEF Take, Idle
  <2>3. Head(requests).by = p
    BY <2>1 DEF Request
  <2> QED BY <1>1, <2>1, <2>2, <2>3, PlacesOnly DEF Place, Working
<1>3. ASSUME NEW t \in Thread,
             Claim(t) \/ Persist(t) \/ Release(t) \/ Fail(t) \/ Count(t) \/ Check(t) \/ Reload(t)
      PROVE Places(p)'
  <2>1. Only(t)
    BY <1>3, StepOnly DEF Step
  <2>2. CASE thr' = [thr EXCEPT ![t] = Idle]
    <3>1. thr'[t].pc = "idle" /\ thr'[t].op = "none"
      BY <1>0, <2>2 DEF Idle
    <3> QED BY <1>1, <2>1, <3>1, PlacesOnly DEF Place
  <2>3. CASE thr' = [thr EXCEPT ![t] = [Idle EXCEPT !.pc = "swap", !.op = "expire"]] \/ Reload(t)
    <3>1. thr'[t].pc = "swap" /\ thr'[t].op \in {"expire", "reload"}
      BY <1>0, <2>3 DEF Reload, Idle
    <3> QED BY <1>1, <2>1, <3>1, PlacesOnly DEF Place
  <2>4. CASE Check(t)
    <3>1. thr'[t].pc = "counting" /\ thr'[t].op = "check"
      BY <1>0, <2>4 DEF Check, Idle
    <3> QED BY <1>1, <2>1, <3>1, PlacesOnly DEF Place
  <2>5. CASE Claim(t) /\ Goto(t, "swap")
    <3>1. Working(t) /\ thr'[t] = [thr[t] EXCEPT !.pc = "swap"]
      BY <1>0, <2>5 DEF Claim, Goto, Working
    <3>2. thr'[t].op = thr[t].op /\ thr'[t].by = thr[t].by /\ thr'[t].target = thr[t].target
          /\ thr'[t].pc = "swap"
      BY <1>0, <3>1 DEF Op
    <3> QED BY <1>0, <1>1, <2>1, <3>1, <3>2, PlacesGoto
  <2> QED BY <1>3, <2>2, <2>3, <2>4, <2>5 DEF Claim, Persist, Release, Fail, Count, Done
<1>4. ASSUME NEW t \in Thread, Swap(t) \/ Notify(t) \/ Reconfigure(t)
      PROVE  Places(p)'
  <2>1. Only(t) /\ Working(t)
    BY <1>4, StepOnly DEF Step, Swap, Notify, Reconfigure, Working
  <2>2. thr'[t].op = thr[t].op /\ thr'[t].by = thr[t].by /\ thr'[t].target = thr[t].target
    <3>1. CASE Swap(t)
      BY <1>0, <3>1 DEF Swap, Goto, Op
    <3>2. CASE Notify(t)
      BY <1>0, <3>2 DEF Notify, Op
    <3>3. CASE Reconfigure(t)
      BY <1>0, <3>3 DEF Reconfigure, Goto, Op
    <3> QED BY <1>4, <3>1, <3>2, <3>3
  <2>3. \/ thr'[t].pc \in {"swap", "notify", "configure"}
        \/ thr'[t].pc \in {"renotify", "reconfigure", "failed"} /\ faults' # 0
    <3>1. CASE Swap(t)
      <4>1. CASE thr' = [thr EXCEPT ![t].pc = "notify", ![t].saved = cfg]
        BY <1>0, <4>1 DEF Op
      <4>2. CASE Fault /\ Goto(t, "failed")
        BY <1>0, <4>2 DEF Fault, Goto, Op
      <4> QED BY <3>1, <4>1, <4>2 DEF Swap
    <3>2. CASE Notify(t)
      <4>1. thr'[t].pc = IF thr[t].pc = "notify" THEN "configure" ELSE "reconfigure"
        BY <1>0, <3>2 DEF Notify, Op
      <4>2. thr[t].pc = "renotify" => faults' # 0
        BY <3>2 DEF Notify, Places, Place, counts
      <4> QED BY <3>2, <4>1, <4>2 DEF Notify
    <3>3. CASE Reconfigure(t)
      <4>1. thr'[t].pc = "failed" /\ faults' # 0
        BY <1>0, <3>3 DEF Reconfigure, Goto, Op, Places, Place, counts
      <4> QED BY <4>1
    <3> QED BY <1>4, <3>1, <3>2, <3>3
  <2> QED BY <1>0, <1>1, <2>1, <2>2, <2>3, PlacesGoto
<1>5. ASSUME NEW t \in Thread, Configure(t) PROVE Places(p)'
  <2>1. Only(t) /\ Working(t)
    BY <1>5, StepOnly DEF Step, Configure, Working
  <2>2. thr'[t].op = thr[t].op /\ thr'[t].by = thr[t].by /\ thr'[t].target = thr[t].target
        /\ (thr'[t].pc = AfterSwitch(thr[t].op) \/ (thr'[t].pc = "renotify" /\ faults' # 0))
    BY <1>0, <1>5 DEF Configure, Goto, Op, Fault
  <2>3. CASE thr'[t].pc = AfterSwitch(thr[t].op)
    <3>1. CASE thr[t].op = "activate"
      <4>1. thr'[t].pc = "persist"
        BY <2>3, <3>1 DEF AfterSwitch
      <4> QED BY <1>1, <2>1, <2>2, <3>1, <4>1, PlacesOnly DEF Places, Place, Working
    <3>2. CASE thr[t].op \in {"revert", "expire"}
      <4>1. thr'[t].pc = "clear"
        BY <2>3, <3>2 DEF AfterSwitch
      <4> QED BY <1>1, <2>1, <2>2, <3>2, <4>1, PlacesOnly DEF Place
    <3>3. CASE thr[t].op \notin {"activate", "revert", "expire"}
      <4>1. thr'[t].pc = "idle"
        BY <2>3, <3>3 DEF AfterSwitch
      <4> QED BY <1>1, <2>1, <2>2, <3>3, <4>1, PlacesOnly DEF Place
    <3> QED BY <3>1, <3>2, <3>3
  <2>4. CASE thr'[t].pc = "renotify" /\ faults' # 0
    BY <1>0, <1>1, <2>1, <2>2, <2>4, PlacesGoto
  <2> QED BY <2>2, <2>3, <2>4
<1>6. ASSUME NEW t \in Thread, Clear(t) PROVE Places(p)'
  <2>1. Only(t) /\ thr'[t].op = thr[t].op /\ thr'[t].pc = "release" /\ thr[t].pc = "clear"
    BY <1>0, <1>6 DEF Clear, Goto, Only, Op
  <2> QED BY <1>1, <2>1, PlacesOnly DEF Places, Place
<1>7. CASE Restart
  BY <1>7 DEF Restart, Idle, Places, Place
<1>8. ASSUME UNCHANGED thr PROVE Places(p)'
  BY <1>1, <1>8 DEF Places, Place, Working
<1> QED BY <1>2, <1>3, <1>4, <1>5, <1>6, <1>7, <1>8
        DEF Next, Step, Start, Leave, Vanish, HoldPasses, vars

\* How many checks may still miss.
LEMMA StaleCount ==
    ASSUME TypeOK, IsFiniteSet(Thread)
    PROVE  /\ IsFiniteSet(Stale) /\ Cardinality(Stale) \in Nat
           /\ misses \in Nat /\ MaxMisses \in Nat
<1>1. Stale \subseteq Thread
  BY DEF Stale
<1>2. IsFiniteSet(Stale) /\ Cardinality(Stale) \in Nat
  BY <1>1, FS_Subset, FS_CardinalityType
<1>3. misses \in Nat /\ MaxMisses \in Nat
  BY Bounds DEF TypeOK
<1> QED BY <1>2, <1>3

\* A step of a thread that has no missed check before or after it.
LEMMA StaleSame ==
    ASSUME NEW t \in Thread, Only(t), t \notin Stale, t \notin Stale'
    PROVE  Stale' = Stale
<1>1. \A r \in Thread : r \in Stale' <=> r \in Stale
  BY DEF Stale, Only
<1> QED BY <1>1 DEF Stale

LEMMA FewSame ==
    ASSUME NEW t \in Thread, Only(t), t \notin Stale, t \notin Stale', UNCHANGED <<misses, crowded>>, Few
    PROVE  Few'
  BY StaleSame DEF Few

\* A step that forgets the misses, of a thread whose check has seen publishers or is none.
LEMMA FewReset ==
    ASSUME TypeOK, IsFiniteSet(Thread), NEW t \in Thread, Only(t), t \notin Stale, t \notin Stale',
           misses' = 0, UNCHANGED crowded, Few
    PROVE  Few'
  BY StaleSame, StaleCount DEF Few

\* The claim of a lease, which counts them.
LEMMA FewClaimed ==
    ASSUME TypeOK, IsFiniteSet(Thread), NEW t \in Thread, Only(t), Claim(t), t \notin Stale'
    PROVE  Few'
<1>1. t \notin Stale /\ misses' = 0 /\ crowded' = (Cardinality(Stale) >= MaxMisses)
  BY DEF Claim, Stale
<1>2. Stale' = Stale
  BY <1>1, StaleSame
<1>3. ~crowded' => ~(Cardinality(Stale) >= MaxMisses)
  BY <1>1
<1>4. ~crowded' => Cardinality(Stale) + 0 < MaxMisses
  BY <1>3, StaleCount
<1> QED BY <1>1, <1>2, <1>4 DEF Few

\* A miss moves from the checks to the count.
LEMMA FewCounted ==
    ASSUME TypeOK, IsFiniteSet(Thread), NEW t \in Thread, Only(t), t \in Stale, t \notin Stale',
           misses' = misses + 1, UNCHANGED crowded, Few
    PROVE  Few'
<1>1. Stale' = Stale \ {t}
  <2>1. \A r \in Thread : r \in Stale' <=> r \in Stale \ {t}
    BY DEF Stale, Only
  <2> QED BY <2>1 DEF Stale
<1>2. Cardinality(Stale') = Cardinality(Stale) - 1
  BY <1>1, StaleCount, FS_RemoveElement
<1> QED BY <1>2, StaleCount DEF Few

\* With few of them, the last miss is not among them.
LEMMA FewMisses ==
    ASSUME TypeOK, IsFiniteSet(Thread), Few, ~crowded, NEW t \in Stale
    PROVE  misses + 1 < MaxMisses
<1>1. Cardinality(Stale) # 0
  BY StaleCount, FS_EmptySet
<1> QED BY <1>1, StaleCount DEF Few

\* A step in the middle of an operation.
LEMMA KeptMiddle ==
    ASSUME NEW p, Kept(p), NEW t \in Thread, Working(t), thr[t].pc # "claim", Only(t),
           thr'[t].op = thr[t].op, thr'[t].id = thr[t].id, thr'[t].pc # "counting",
           UNCHANGED <<misses, path, user, history>>, disk' = disk \/ thr[t].op # "reload",
           thr'[t].pc = "persist" => path = p
    PROVE  Kept(p)'
<1>1. t \notin Stale /\ t \notin Stale'
  BY DEF Stale, Working
<1>2. Few => Few'
  BY <1>1, FewSame DEF history
<1>3. \A r \in Thread : Claimed(p, r)' => Claimed(p, r)
  BY DEF Claimed, Only
<1>4. \A r \in Thread : Working(r)' => Working(r) /\ thr'[r].op = thr[r].op
  BY DEF Only, Working
<1>5. \A r \in Thread : thr'[r].pc = "persist" => path' = p
  BY DEF Kept, Only
<1>6. (Confirmed(p)' => Confirmed(p)) /\ crowded' = crowded
  BY DEF Confirmed, history
<1>7. ASSUME Confirmed(p), ~crowded PROVE (path = p /\ disk = p /\ \A r \in Thread : Working(r) => thr[r].op = "reload")'
  <2>1. disk' = disk
    BY <1>7 DEF Kept
  <2> QED BY <1>4, <1>7, <2>1 DEF Kept
<1>8. ASSUME Confirmed(p) PROVE \A r \in Thread : Working(r)' => thr'[r].op \in {"reload", "expire"}
  BY <1>4, <1>8 DEF Kept
<1> QED BY <1>2, <1>3, <1>5, <1>6, <1>7, <1>8 DEF Kept

\* A step that neither starts nor ends an operation, nor confirms one.
LEMMA KeptAside ==
    ASSUME NEW p, Kept(p), UNCHANGED <<path, disk, crowded>>,
           \A r \in Thread : thr'[r] = thr[r] \/ thr'[r].pc \in {"idle", "counting"},
           \A r \in Thread : thr'[r].op = "activate" => thr'[r] = thr[r],
           \A r \in Thread : Claimed(p, r)' => Claimed(p, r),
           Confirmed(p)' => Confirmed(p),
           Few /\ (Confirmed(p)' \/ \E r \in Thread : Claimed(p, r)') => Few'
    PROVE  Kept(p)'
<1>1. \A r \in Thread : thr'[r].pc = "persist" => path' = p
  BY DEF Kept
<1>2. \A r \in Thread : Working(r)' => Working(r) /\ thr'[r].op = thr[r].op
  BY DEF Working
<1> QED BY <1>1, <1>2 DEF Kept

\* The end of the operation of thread t, which confirms at most its own.
LEMMA KeptEnd ==
    ASSUME TypeOK, TypeOK', IsFiniteSet(Thread), NEW p, User = {p}, Kept(p), Alone, Places(p), NEW t \in Thread, Working(t),
           Only(t), thr'[t] = Idle, NEW success \in BOOLEAN, Answer(t, success),
           Claim(t) \/ UNCHANGED crowded,
           thr[t].op # "reload",
           thr[t].op = "activate" /\ success => /\ path' = p /\ disk' = p
                                                /\ Claim(t) \/ (thr[t].pc = "persist" /\ UNCHANGED misses)
    PROVE  Kept(p)'
<1>1. \A r \in Thread \ {t} : ~Working(r) /\ ~Working(r)'
  BY DEF Alone, Only, Working
<1>2. ~Working(t)' /\ thr'[t].op = "none" /\ t \notin Stale /\ t \notin Stale'
  BY DEF Idle, Working, Stale
<1>3. \A r \in Thread : ~Claimed(p, r)' /\ thr'[r].pc # "persist"
  BY <1>1, <1>2 DEF Claimed, Places, Place, Only, Working
<1>4. Confirmed(p) => crowded /\ thr[t].op = "expire"
  BY DEF Kept
<1>5. Confirmed(p) => crowded'
  <2>1. Claim(t) => thr[t].op = "activate"
    BY DEF Claim, Places, Place
  <2>2. Confirmed(p) => ~Claim(t)
    BY <1>4, <2>1
  <2>3. crowded /\ ~Claim(t) => crowded'
    OBVIOUS
  <2> QED BY <1>4, <2>2, <2>3, Zenon
<1>6. ASSUME Confirmed(p)', ~crowded' PROVE Few' /\ path' = p /\ disk' = p
  <2>1. /\ thr[t].op = "activate" /\ success
        /\ user[p].state = "asking" /\ user[p].id = thr[t].id
    BY <1>5, <1>6, AnswerEffect DEF Confirmed
  <2>2. CASE Claim(t)
    BY <1>2, <2>1, <2>2, FewClaimed
  <2>3. CASE thr[t].pc = "persist" /\ UNCHANGED <<misses, crowded>>
    <3>1. Claimed(p, t)
      BY <2>1, <2>3 DEF Claimed
    <3> QED BY <1>2, <2>1, <2>3, <3>1, FewSame DEF Kept
  <2> QED BY <2>1, <2>2, <2>3
<1>7. \A r \in Thread : ~Working(r)'
  BY <1>1, <1>2
<1> QED BY <1>3, <1>6, <1>7 DEF Kept

\* Everything a user node has confirmed stays, as long as nothing overlaps and nothing fails.
LEMMA KeptNext ==
    ASSUME TypeOK, TypeOK', LeaseInv, NEW p, User = {p}, KeepInv(p), IsFiniteSet(Thread),
           [Next]_vars, ~overlapped', faults' = 0
    PROVE  Kept(p)'
<1> DEFINE UserState == [state : {"off", "asking", "on", "leaving"}, id : 0..MaxStarts]
<1>0. /\ thr \in [Thread -> Op] /\ user \in [User -> UserState] /\ p \in User /\ p # Default
      /\ faults \in Nat
  BY DefaultAssumption, Bounds DEF TypeOK
<1>1. ~overlapped /\ faults = 0
  BY FaultsCounted, OverlapsRecorded
<1>2. Kept(p) /\ Places(p) /\ Alone /\ \A t \in Thread : Doing(t)
  BY <1>1 DEF KeepInv, LeaseInv
<1>3. \A t \in Thread : thr[t].pc \notin {"renotify", "reconfigure", "failed"}
  BY <1>1, <1>2 DEF Places, Place
<1>4. ~Fault
  BY <1>0, <1>1 DEF Fault
<1>5. ASSUME NEW t \in Thread, Take(t) PROVE Kept(p)'
  <2>1. Only(t) /\ UNCHANGED <<path, disk, user, misses, crowded>> /\ requests # <<>> /\ thr[t].pc = "idle"
    BY <1>5, StepOnly DEF Step, Take, lease
  <2>2. thr'[t].pc = "claim" \/ (thr'[t].pc = "swap" /\ thr'[t].op = "revert")
    BY <1>0, <1>5 DEF Take, Idle
  <2>3. user[p].state # "on"
    BY <2>1 DEF KeepInv, InOrder
  <2>4. ~Confirmed(p)'
    BY <2>1, <2>3 DEF Confirmed
  <2>5. t \notin Stale /\ t \notin Stale'
    BY <2>1, <2>2 DEF Stale
  <2>6. \A r \in Thread : Claimed(p, r)' => Claimed(p, r)
    BY <2>1, <2>2 DEF Claimed, Only
  <2>7. Few => Few'
    BY <2>1, <2>5, FewSame
  <2>8. \A r \in Thread : thr'[r].pc = "persist" => path' = p
    BY <1>2, <2>1, <2>2 DEF Kept, Only
  <2> QED BY <1>2, <2>4, <2>6, <2>7, <2>8 DEF Kept
<1>6. ASSUME NEW t \in Thread, Claim(t) PROVE Kept(p)'
  <2>1. Only(t) /\ Working(t) /\ misses' = 0
    BY <1>6, StepOnly DEF Step, Claim, Working
  <2>2. thr[t].op = "activate" /\ thr[t].target = p
    BY <1>2, <1>6 DEF Claim, Places, Place
  <2>3. CASE p = path
    <3>1. /\ thr'[t] = Idle /\ Answer(t, TRUE)
          /\ path' = p /\ disk' = p
      BY <1>0, <1>4, <1>6, <2>2, <2>3 DEF Claim
    <3> QED BY <1>2, <1>6, <2>1, <2>2, <3>1, KeptEnd
  <2>4. CASE p # path
    <3>1. thr'[t] = [thr[t] EXCEPT !.pc = "swap"] /\ UNCHANGED <<user, owner>>
      BY <1>0, <1>6, <2>2, <2>4 DEF Claim, Goto
    <3>2. thr'[t].pc = "swap"
      BY <1>0, <3>1 DEF Op
    <3>3. t \notin Stale'
      BY <3>2 DEF Stale
    <3>4. Few'
      BY <1>6, <2>1, <3>3, FewClaimed
    <3>5. ~Confirmed(p)'
      BY <1>2, <2>1, <2>2, <3>1 DEF Kept, Confirmed
    <3>6. \A r \in Thread : thr'[r].pc # "persist"
      BY <1>2, <2>1, <3>2 DEF Alone, Only, Working
    <3> QED BY <3>4, <3>5, <3>6 DEF Kept
  <2> QED BY <2>3, <2>4
<1>7. ASSUME NEW t \in Thread, Reload(t) PROVE Kept(p)'
  <2>1. Only(t) /\ UNCHANGED <<path, disk, user, owner, misses, crowded>> /\ thr[t].pc = "idle"
    BY <1>7, StepOnly DEF Reload, lease
  <2>2. thr'[t].pc = "swap" /\ thr'[t].op = "reload"
    BY <1>0, <1>7 DEF Reload, Idle
  <2>3. t \notin Stale /\ t \notin Stale'
    BY <2>1, <2>2 DEF Stale
  <2>4. Few => Few'
    BY <2>1, <2>3, FewSame
  <2>5. \A r \in Thread : Claimed(p, r)' => Claimed(p, r)
    BY <2>1, <2>2 DEF Claimed, Only
  <2>6. \A r \in Thread : thr'[r].pc = "persist" => path' = p
    BY <1>2, <2>1, <2>2 DEF Kept, Only
  <2>7. (Confirmed(p)' => Confirmed(p)) /\ (~crowded' => ~crowded)
    BY <2>1 DEF Confirmed
  <2>8. \A r \in Thread : Working(r)' => thr'[r].op = "reload" \/ (Working(r) /\ thr'[r].op = thr[r].op)
    BY <2>1, <2>2 DEF Only, Working
  <2>9. Confirmed(p) => \A r \in Thread : Working(r)' => thr'[r].op \in {"reload", "expire"}
    BY <1>2, <2>8 DEF Kept
  <2>10. ASSUME Confirmed(p), ~crowded
         PROVE  (Few /\ path = p /\ disk = p /\ \A r \in Thread : Working(r) => thr[r].op = "reload")'
    <3>1. Few /\ path = p /\ disk = p /\ \A r \in Thread : Working(r) => thr[r].op = "reload"
      BY <1>2, <2>10 DEF Kept
    <3> QED BY <2>1, <2>4, <2>8, <3>1
  <2> QED BY <1>2, <2>4, <2>5, <2>6, <2>7, <2>9, <2>10 DEF Kept
<1>8. ASSUME NEW t \in Thread, Check(t) PROVE Kept(p)'
  <2>1. PICK live \in Heard : thr' = [thr EXCEPT ![t] = [Idle EXCEPT !.pc = "counting", !.op = "check",
                                                                     !.live = live]]
    BY <1>8, Zenon DEF Check
  <2>9. Only(t)
    BY <1>8, StepOnly
  <2>2. Only(t) /\ UNCHANGED <<path, disk, user, owner, misses, crowded>> /\ ~hold /\ thr[t].pc = "idle"
    BY <1>8, <2>9 DEF Check, lease, history
  <2>3. thr'[t].pc = "counting" /\ thr'[t].op = "check" /\ thr'[t].live = live
    BY <1>0, <2>1 DEF Idle
  <2>4. user[p].state \in {"on", "asking"} => live
    <3>1. user[p].state \in {"on", "asking"} => p \in Alive
      BY <1>0 DEF Alive, Gone
    <3> QED BY <2>2, <3>1 DEF Heard
  <2>5. \A r \in Thread : Claimed(p, r)' => Claimed(p, r)
    BY <2>2, <2>3 DEF Claimed, Only
  <2>6. Confirmed(p)' => Confirmed(p)
    BY <2>2 DEF Confirmed
  <2>7. (Confirmed(p)' \/ \E r \in Thread : Claimed(p, r)') => live
    BY <2>2, <2>4 DEF Confirmed, Claimed
  <2>8. Few /\ live => Few'
    BY <2>2, <2>3, FewSame DEF Stale
  <2> QED BY <1>2, <2>2, <2>3, <2>5, <2>6, <2>7, <2>8, KeptAside DEF Only
<1>9. ASSUME NEW t \in Thread, Count(t) PROVE Kept(p)'
  <2>1. Only(t) /\ UNCHANGED <<path, disk, user, owner, crowded>> /\ thr[t].pc = "counting"
    BY <1>9, StepOnly DEF Step, Count
  <2>2. misses \in Nat /\ MaxMisses \in Nat
    BY StaleCount
  <2>3. CASE thr[t].live \/ misses + 1 < MaxMisses
    <3>1. thr'[t] = Idle /\ misses' = IF thr[t].live THEN 0 ELSE misses + 1
      BY <1>0, <1>9, <2>3 DEF Count
    <3>2. thr'[t].pc = "idle" /\ thr'[t].op = "none" /\ t \notin Stale'
      BY <3>1 DEF Idle, Stale
    <3>3. Few => Few'
      <4>1. CASE thr[t].live
        BY <2>1, <3>1, <3>2, <4>1, FewReset DEF Stale
      <4>2. CASE ~thr[t].live
        <5>1. t \in Stale
          BY <2>1, <4>2 DEF Stale
        <5> QED BY <2>1, <3>1, <3>2, <4>2, <5>1, FewCounted
      <4> QED BY <4>1, <4>2
    <3>4. \A r \in Thread : Claimed(p, r)' => Claimed(p, r)
      BY <2>1, <3>2 DEF Claimed, Only
    <3>5. Confirmed(p)' => Confirmed(p)
      BY <2>1 DEF Confirmed
    <3> QED BY <1>2, <2>1, <3>2, <3>3, <3>4, <3>5, KeptAside DEF Only
  <2>4. CASE ~(thr[t].live \/ misses + 1 < MaxMisses)
    <3>1. t \in Stale /\ Overlap(t)
      BY <1>9, <2>1, <2>4 DEF Stale, Count
    <3>2. Few => crowded
      BY <2>2, <2>4, <3>1, FewMisses
    <3>3. thr' = [thr EXCEPT ![t] = [Idle EXCEPT !.pc = "swap", !.op = "expire"]]
      BY <1>9, <2>4 DEF Count
    <3>4. thr'[t].pc = "swap" /\ thr'[t].op = "expire"
      BY <1>0, <3>3 DEF Idle
    <3>5. (\A r \in Thread : Claimed(p, r)' => Claimed(p, r)) /\ (crowded => Few')
      BY <2>1, <3>4 DEF Claimed, Only, Few
    <3>6. Confirmed(p)' => /\ crowded
                           /\ \A r \in Thread : Working(r)' => thr'[r].op \in {"reload", "expire"}
      BY <1>2, <2>1, <3>2, <3>4 DEF Kept, Confirmed, Only, Working
    <3>7. \A r \in Thread : thr'[r].pc = "persist" => path' = p
      BY <1>2, <2>1, <3>4 DEF Kept, Only
    <3> QED BY <1>2, <2>1, <3>2, <3>5, <3>6, <3>7 DEF Kept
  <2> QED BY <2>3, <2>4
<1>10. ASSUME NEW t \in Thread, Swap(t) \/ Notify(t) PROVE Kept(p)'
  <2>1. Only(t) /\ Working(t) /\ thr[t].pc # "claim"
        /\ UNCHANGED <<misses, path, user, history, disk>>
    BY <1>10, StepOnly DEF Step, Swap, Notify, Working, lease, history
  <2>2. thr'[t].op = thr[t].op /\ thr'[t].id = thr[t].id
        /\ thr'[t].pc \in {"notify", "configure", "reconfigure"}
    <3>1. CASE Swap(t)
      <4>1. thr' = [thr EXCEPT ![t].pc = "notify", ![t].saved = cfg]
        BY <1>4, <3>1 DEF Swap
      <4> QED BY <1>0, <4>1 DEF Op
    <3>2. CASE Notify(t)
      BY <1>0, <3>2 DEF Notify, Op
    <3> QED BY <1>10, <3>1, <3>2
  <2> QED BY <1>2, <2>1, <2>2, KeptMiddle
<1>11. ASSUME NEW t \in Thread, Configure(t) PROVE Kept(p)'
  <2>1. Only(t) /\ Working(t) /\ thr[t].pc # "claim"
        /\ UNCHANGED <<misses, path, user, history, disk>>
    BY <1>11, StepOnly DEF Step, Configure, Working, lease, history
  <2>2. thr'[t].op = thr[t].op /\ thr'[t].id = thr[t].id /\ thr'[t].pc = AfterSwitch(thr[t].op)
    BY <1>0, <1>4, <1>11 DEF Configure, Goto, Op
  <2>3. thr'[t].pc # "counting" /\ (thr'[t].pc = "persist" => thr[t].op = "activate")
    BY <2>2 DEF AfterSwitch
  <2>4. Aim(thr[t])
    BY <1>2, <1>11 DEF Doing, Configure
  <2>5. thr'[t].pc = "persist" => path = p
    BY <1>2, <2>3, <2>4 DEF Aim, Places, Place
  <2> QED BY <1>2, <2>1, <2>2, <2>3, <2>5, KeptMiddle
<1>12. ASSUME NEW t \in Thread, Clear(t) PROVE Kept(p)'
  <2>1. Only(t) /\ Working(t) /\ thr[t].pc # "claim" /\ thr[t].op # "reload"
        /\ UNCHANGED <<misses, path, user, history>>
    BY <1>2, <1>12, StepOnly DEF Step, Clear, Working, lease, history, Places, Place
  <2>2. thr'[t].op = thr[t].op /\ thr'[t].id = thr[t].id /\ thr'[t].pc = "release"
    BY <1>0, <1>12 DEF Clear, Goto, Op
  <2> QED BY <1>2, <2>1, <2>2, KeptMiddle
<1>13. ASSUME NEW t \in Thread, Persist(t) PROVE Kept(p)'
  <2>1. Only(t) /\ Working(t) /\ UNCHANGED <<misses, path, crowded>> /\ thr'[t] = Idle /\ Answer(t, TRUE)
    BY <1>0, <1>13, StepOnly DEF Step, Persist, Working, lease, Done
  <2>2. thr[t].op = "activate" /\ thr[t].target = p
    BY <1>2, <1>13 DEF Persist, Places, Place
  <2>3. path = p /\ disk' = p
    BY <1>2, <1>4, <1>13, <2>2 DEF Persist, Kept
  <2> QED BY <1>2, <1>13, <2>1, <2>2, <2>3, KeptEnd DEF Persist
<1>14. ASSUME NEW t \in Thread, Release(t) PROVE Kept(p)'
  <2>1. Only(t) /\ Working(t) /\ UNCHANGED crowded /\ thr'[t] = Idle /\ Answer(t, TRUE)
    BY <1>0, <1>14, StepOnly DEF Step, Release, Working, Done
  <2>2. thr[t].op \in {"revert", "expire"}
    BY <1>2, <1>14 DEF Release, Places, Place
  <2> QED BY <1>2, <2>1, <2>2, KeptEnd
<1>15. ASSUME NEW t \in Thread, Reconfigure(t) \/ Fail(t) PROVE Kept(p)'
  BY <1>3, <1>15 DEF Reconfigure, Fail
<1>16. CASE Start(p) \/ Leave(p) \/ Vanish(p)
  <2>1. UNCHANGED <<path, disk, thr, misses, owner, crowded>>
    BY <1>16 DEF Start, Leave, Vanish, lease, history
  <2>2. user'[p].state # "on"
    BY <1>0, <1>16 DEF Start, Leave, Vanish, Gone
  <2>3. ASSUME NEW r \in Thread PROVE ~Claimed(p, r)'
    <3>1. CASE Leave(p) \/ Vanish(p)
      BY <1>0, <3>1 DEF Leave, Vanish, Gone, Claimed
    <3>2. CASE Start(p)
      <4>1. user'[p].id = starts + 1 /\ starts \in Nat /\ thr[r].id \in Nat
        BY <1>0, <3>2, Bounds DEF Start, TypeOK, Op
      <4>2. thr[r].op = "activate" => thr[r].id <= starts
        BY DEF KeepInv, Numbered
      <4> QED BY <2>1, <4>1, <4>2 DEF Claimed
    <3> QED BY <1>16, <3>1, <3>2
  <2>4. \A r \in Thread : thr'[r].pc = "persist" => path' = p
    BY <1>2, <2>1 DEF Kept
  <2> QED BY <2>2, <2>3, <2>4 DEF Kept, Confirmed
<1>17. CASE Restart
  <2>1. path' = disk /\ disk' = disk /\ misses' = 0 /\ UNCHANGED <<owner, crowded>>
    BY <1>0, <1>1, <1>17 DEF Restart, history
  <2>2. \A r \in Thread : thr'[r].pc = "idle" /\ thr'[r].op = "none"
    BY <1>17 DEF Restart, Idle
  <2>3. Confirmed(p)' => Confirmed(p)
    BY <1>0, <1>17, <2>1 DEF Restart, Confirmed, Gone
  <2>4. Confirmed(p) => Few'
    <3>1. Stale' = {}
      BY <2>2 DEF Stale
    <3>2. Confirmed(p) /\ ~crowded => MaxMisses > 0
      BY <1>2, StaleCount DEF Kept, Few
    <3> QED BY <2>1, <3>1, <3>2, StaleCount, FS_EmptySet DEF Few
  <2> QED BY <1>2, <2>1, <2>2, <2>3, <2>4 DEF Kept, Claimed, Working
<1>18. CASE HoldPasses \/ UNCHANGED vars
  BY <1>2, <1>18 DEF HoldPasses, vars, history, Kept, Confirmed, Claimed, Few, Stale, Working
<1> QED BY <1>5, <1>6, <1>7, <1>8, <1>9, <1>10, <1>11, <1>12, <1>13, <1>14, <1>15, <1>16, <1>17, <1>18
        DEF Next, Step

\* The service starts with nothing to keep.
LEMMA KeepInit == ASSUME NEW p, User = {p}, Init PROVE KeepInv(p)
<1>1. /\ \A t \in Thread : thr[t].pc = "idle" /\ thr[t].op = "none"
      /\ requests = <<>> /\ DOMAIN requests = {} /\ user[p].state = "off"
  BY DEF Init, Idle, Gone
<1> QED BY <1>1 DEF KeepInv, Numbered, InOrder, Places, Place, Kept, Claimed, Confirmed, Working

\* With one user node: while nothing fails and no two operations overlap, its overlay runs from
\* the confirmation of its activation to its exit, across restarts of the service: unless, when it
\* claimed its lease, kRequiredMisses checks had looked at the graph before it was there and not
\* yet counted what they saw.  Each counts a miss against the lease of the live node then.
THEOREM LiveUserKept ==
    ASSUME NEW CONSTANT p, User = {p}, IsFiniteSet(Thread)
    PROVE  Spec => []LiveUserKeeps
<1>1. Init => KeepInv(p)
  BY KeepInit
<1>2. TypeOK /\ TypeOK' /\ LeaseInv /\ KeepInv(p) /\ [Next]_vars => KeepInv(p)'
  <2> SUFFICES ASSUME TypeOK, TypeOK', LeaseInv, KeepInv(p), [Next]_vars PROVE KeepInv(p)'
    OBVIOUS
  <2>1. Numbered' /\ InOrder(p)'
    BY QueueNext DEF KeepInv
  <2>2. Places(p)'
    BY PlacesNext DEF KeepInv
  <2>3. ~overlapped' /\ faults' = 0 => Kept(p)'
    BY KeptNext
  <2> QED BY <2>1, <2>2, <2>3 DEF KeepInv
<1>3. LeaseInv /\ KeepInv(p) => LiveUserKeeps
  BY DEF LeaseInv, AtRest, Settled, Working, Quiet, KeepInv, Kept, Confirmed, LiveUserKeeps
<1> QED BY <1>1, <1>2, <1>3, TypeInit, TypeNext, LeaseInit, LeaseNext, PTL DEF Spec
=============================================================================
