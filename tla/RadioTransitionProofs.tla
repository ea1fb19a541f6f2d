------------------------ MODULE RadioTransitionProofs ------------------------
(***************************************************************************)
(* Proofs about configurations: RadioTransition, for any set of overlays   *)
(* that the loader admits and any number of events; what ConfigRules makes *)
(* of files, and NetplanChange of the one for the Wi-Fi network.           *)
(***************************************************************************)
EXTENDS RadioTransition, ConfigRules, NetplanChange, TLAPS

(***************************************************************************)
(* Types.  TypeOK with the exact shapes of the records of the threads.     *)
(***************************************************************************)
Mode == {"none", "peripheral", "broadcast"}
GattLayout == {c.layout : c \in Config} \cup {"none"}
Places == {"release", "bridges", "retire", "adapt", "rebuild", "advertise", "end"}

Operation == [pc: Places, by: {"overlay", "rescue"}, cfg: Config, handoff: BOOLEAN]
Asked == [pc: {"apply", "back"}, cfg: Config, prev: Config]
Saved == [pc: {"apply"}, cfg: {c \in Config : ~c.mesh}]
Fix == [pc: {"set"}, connectable: BOOLEAN]
Sweeping == [pc: {"cast"}, up: BOOLEAN] \cup [pc: {"look"}, transmit: BOOLEAN]
            \cup [pc: {"le"}, scan: BOOLEAN]
OrIdle(S) == S \cup {Idle}
Radio == [adv: Mode, scan: BOOLEAN, gatt: GattLayout, connectable: BOOLEAN]
News == [adapter: BOOLEAN, daemon: BOOLEAN]
Link == {"none", "pending", "up"}
Signature == {"unset"} \cup {c.layout : c \in Config}
Role == {"off", "receive", "transmit"}
Writing == {"no", "open", "air"}
Dialing == {"idle", "call", "wait", "done"}

TypeInv ==
    /\ active \in Config /\ bridges \in Config /\ want \in Config
    /\ signature \in Signature /\ object \in Mode
    /\ payload \in BOOLEAN /\ allowed \in BOOLEAN /\ good \in BOOLEAN
    /\ op \in OrIdle(Operation) /\ overlay \in OrIdle(Asked) /\ rescue \in OrIdle(Saved)
    /\ fixing \in OrIdle(Fix) /\ sweep \in OrIdle(Sweeping)
    /\ writing \in Writing /\ dial \in Dialing
    /\ recover \in BOOLEAN /\ drift \in BOOLEAN /\ role \in Role /\ transmit \in BOOLEAN
    /\ radio \in Radio /\ link \in Link /\ mesh \in BOOLEAN /\ news \in News

\* What is remembered of the last transition changes where it begins and fails, where
\* it skips the policy, and where bluetoothd is replaced.
HistoryInv == history \in [skipped: BOOLEAN, missed: BOOLEAN, crossed: BOOLEAN]

\* The stronger invariants imply the one the runs check.
LEMMA TypesImply == TypeInv /\ HistoryInv => TypeOK
<1> SUFFICES ASSUME TypeInv, HistoryInv PROVE TypeOK
  OBVIOUS
<1>1. op.pc = "idle" \/ (op.cfg \in Config /\ op.by \in {"overlay", "rescue"})
  BY DEF TypeInv, Operation, OrIdle, Idle
<1>2. rescue.pc = "idle" \/ (rescue.cfg \in Config /\ ~rescue.cfg.mesh)
  BY DEF TypeInv, Saved, OrIdle, Idle
<1>3. sweep.pc \in {"idle", "cast", "look", "le"}
  BY DEF TypeInv, Sweeping, OrIdle, Idle
<1>4. {payload, allowed, good, recover, drift, transmit, mesh} \subseteq BOOLEAN
  BY DEF TypeInv
<1>5. radio \in [adv: {"none", "peripheral", "broadcast"}, scan: BOOLEAN,
                 gatt: {c.layout : c \in Config} \cup {"none"}, connectable: BOOLEAN]
  BY DEF TypeInv, Radio, Mode, GattLayout
<1>6. signature \in {"unset"} \cup {c.layout : c \in Config}
  BY DEF TypeInv, Signature
<1>7. /\ active \in Config /\ bridges \in Config /\ want \in Config
      /\ object \in {"none", "peripheral", "broadcast"} /\ link \in {"none", "pending", "up"}
      /\ dial \in {"idle", "call", "wait", "done"} /\ role \in {"off", "receive", "transmit"}
  BY DEF TypeInv, Mode, Link, Dialing, Role
<1> QED BY <1>1, <1>2, <1>3, <1>4, <1>5, <1>6, <1>7 DEF TypeOK, HistoryInv

\* What every overlay is like, by ConfigAssumption.
Overlay(c) ==
    /\ c \in Config /\ c.mesh \in BOOLEAN /\ c.scan \in BOOLEAN /\ c.reregister \in BOOLEAN
    /\ c.layout \in GattLayout /\ Advertised(c) \in Mode
    /\ Exclusive(c) \in BOOLEAN /\ Server(c) \in BOOLEAN /\ Connectable(c) \in BOOLEAN
    /\ c.mesh => ~Server(c) /\ Exclusive(c) /\ Advertised(c) = "none"

LEMMA Overlays == ASSUME NEW c \in Config PROVE Overlay(c)
  BY ConfigAssumption DEF ConfigShape, Mode, GattLayout, Overlay, Advertised, Exclusive, Server, Connectable

\* A thread at work has its record.
LEMMA NotIdle ==
    ASSUME TypeInv
    PROVE  /\ op.pc # "idle" => op # Idle
           /\ op # Idle => op \in Operation /\ op.cfg \in Config
           /\ overlay.pc # "idle" => overlay \in Asked
           /\ rescue.pc # "idle" => rescue \in Saved
           /\ sweep.pc # "idle" => sweep # Idle
  BY DEF TypeInv, OrIdle, Idle, Operation

LEMMA InitTypes == Init => TypeInv
<1> SUFFICES ASSUME Init PROVE TypeInv
  OBVIOUS
<1>1. overlay \in OrIdle(Asked)
  BY ConfigAssumption DEF Init, Asked, OrIdle
<1>2. radio \in Radio
  BY DEF Init, Blank, Radio, Mode, GattLayout
<1>3. news \in News
  BY DEF Init, News
<1>4. /\ op \in OrIdle(Operation) /\ rescue \in OrIdle(Saved) /\ fixing \in OrIdle(Fix)
      /\ sweep \in OrIdle(Sweeping)
  BY DEF Init, OrIdle
<1>5. /\ signature \in Signature /\ object \in Mode /\ writing \in Writing /\ dial \in Dialing
      /\ role \in Role /\ link \in Link
  BY DEF Init, Signature, Mode, Writing, Dialing, Role, Link
<1> QED BY <1>1, <1>2, <1>3, <1>4, <1>5, ConfigAssumption DEF Init, TypeInv

\* A failing step leaves what the transition touches well formed.
LEMMA ThrowTypes ==
    ASSUME TypeInv, op # Idle, Throw,
           signature' \in Signature, object' \in Mode, payload' \in BOOLEAN, drift' \in BOOLEAN,
           radio' \in Radio, link' \in Link, news' \in News
    PROVE  TypeInv'
<1>1. op \in Operation /\ Overlay(op.cfg)
  BY Overlays, NotIdle
<1>2. overlay' \in OrIdle(Asked) /\ want' \in Config
  <2>1. CASE op.by = "rescue"
    BY <2>1 DEF TypeInv, Throw
  <2>2. CASE op.by # "rescue" /\ overlay.pc = "apply" /\ overlay.prev # overlay.cfg
    <3>1. overlay \in Asked
      BY <2>2, NotIdle
    <3> QED BY <2>2, <3>1 DEF Throw, Asked, OrIdle
  <2>3. CASE op.by # "rescue" /\ ~(overlay.pc = "apply" /\ overlay.prev # overlay.cfg)
    BY <2>3 DEF TypeInv, Throw, OrIdle
  <2> QED BY <2>1, <2>2, <2>3
<1>3. rescue' \in OrIdle(Saved) /\ recover' \in BOOLEAN
  BY <1>1 DEF TypeInv, Throw, OrIdle
<1> QED BY <1>1, <1>2, <1>3 DEF TypeInv, Throw, Overlay, OrIdle

LEMMA TransitionTypes ==
    ASSUME TypeInv, Transition
    PROVE  TypeInv'
<1>0. op # Idle /\ op \in Operation /\ Overlay(op.cfg) /\ Overlay(active)
  BY Overlays, NotIdle DEF TypeInv, Idle, Transition, Release, ReleaseFails, Bridges, StopMeshFails, Retire,
     Adapt, AdaptFails, Rebuild, RebuildFails, Advertise, AdvertiseFails, End, StartFails, At
<1>1. CASE Release
  <2>1. op' \in OrIdle(Operation)
    BY <1>0, <1>1 DEF Release, Goto, Operation, Places, OrIdle
  <2>2. radio' \in Radio /\ link' \in Link
    BY <1>1 DEF Release, TypeInv, Radio, Link
  <2>3. payload' \in BOOLEAN
    BY <1>1 DEF Release, TypeInv
  <2> QED BY <1>1, <2>1, <2>2, <2>3 DEF Release, TypeInv, Others
<1>2. CASE ReleaseFails
  BY <1>0, <1>2, ThrowTypes DEF ReleaseFails, TypeInv, Overlay, Radio, Link
<1>3. CASE Bridges
  BY <1>0, <1>3 DEF Bridges, TypeInv, Goto, Operation, Places, Overlay, OrIdle, Radio, News
<1>4. CASE StopMeshFails
  BY <1>0, <1>4, ThrowTypes DEF StopMeshFails, TypeInv
<1>5. CASE Retire
  BY <1>0, <1>5 DEF Retire, TypeInv, Goto, Others, Operation, Places, Mode, OrIdle, Radio
<1>6. CASE Adapt
  <2>1. op' \in OrIdle(Operation)
    BY <1>0, <1>6 DEF Adapt, Goto, Operation, Places, OrIdle
  <2>2. radio' \in Radio /\ drift' \in BOOLEAN
    BY <1>0, <1>6 DEF Adapt, TypeInv, Radio, Overlay
  <2>3. news' \in News
    BY <1>6 DEF Adapt, TypeInv, News
  <2> QED BY <1>6, <2>1, <2>2, <2>3 DEF Adapt, TypeInv
<1>7. CASE AdaptFails
  BY <1>0, <1>7, ThrowTypes DEF AdaptFails, TypeInv
<1>8. CASE Rebuild
  <2>1. op' \in OrIdle(Operation)
    BY <1>0, <1>8 DEF Rebuild, Goto, Operation, Places, OrIdle
  <2>2. "none" \in Mode /\ "none" \in GattLayout
    BY DEF Mode, GattLayout
  <2>3. (IF object = "none" THEN radio.adv ELSE "none") \in Mode
    BY <2>2 DEF TypeInv, Radio
  <2>4. (IF Server(op.cfg) THEN op.cfg.layout ELSE "none") \in GattLayout
    BY <1>0, <2>2 DEF Overlay
  <2>5. radio' \in Radio
    BY <1>8, <2>3, <2>4 DEF Rebuild, TypeInv, Radio
  <2>6. object' \in Mode
    BY <1>0, <1>8 DEF Rebuild, Overlay
  <2> QED BY <1>8, <2>1, <2>5, <2>6 DEF Rebuild, TypeInv, Others
<1>9. CASE RebuildFails
  BY <1>0, <1>9, ThrowTypes DEF RebuildFails, TypeInv, Mode, GattLayout, Radio
<1>10. CASE Advertise
  <2>1. op' \in OrIdle(Operation)
    BY <1>0, <1>10 DEF Advertise, Goto, Operation, Places, OrIdle
  <2>2. radio' \in Radio
    BY <1>0, <1>10 DEF Advertise, TypeInv, Radio, Overlay
  <2> QED BY <1>10, <2>1, <2>2 DEF Advertise, TypeInv, Others
<1>11. CASE AdvertiseFails
  BY <1>0, <1>11, ThrowTypes DEF AdvertiseFails, TypeInv, Mode, Radio
<1>12. CASE End
  <2>1. op' \in OrIdle(Operation) /\ overlay' \in OrIdle(Asked) /\ rescue' \in OrIdle(Saved)
    BY <1>12 DEF End, TypeInv, OrIdle
  <2>2. radio' \in Radio
    <3>1. CASE op.cfg.mesh
      BY <1>12, <3>1 DEF End, TypeInv, Radio, Blank, Mode, GattLayout
    <3>2. CASE ~op.cfg.mesh
      BY <1>0, <1>12, <3>2 DEF End, TypeInv, Radio, Operation, Overlay
    <3> QED BY <3>1, <3>2
  <2>3. mesh' \in BOOLEAN /\ link' \in Link /\ allowed' \in BOOLEAN
    BY <1>0, <1>12 DEF End, TypeInv, Link, Overlay
  <2>4. signature' \in Signature
    BY <1>0, <1>12 DEF End, Signature, Overlay
  <2> QED BY <1>12, <2>1, <2>2, <2>3, <2>4 DEF End, TypeInv, flags
<1>13. CASE StartFails
  <2>1. signature' \in Signature
    BY <1>0, <1>13 DEF StartFails, Signature, Overlay
  <2> QED BY <1>0, <1>13, <2>1, ThrowTypes DEF StartFails, TypeInv
<1> QED BY <1>1, <1>2, <1>3, <1>4, <1>5, <1>6, <1>7, <1>8, <1>9, <1>10, <1>11, <1>12, <1>13 DEF Transition

LEMMA RequestTypes ==
    ASSUME TypeInv, (\E c \in Config : Request(c)) \/ Copy \/ (\E by \in {"overlay", "rescue"} : Begin(by))
    PROVE  TypeInv'
<1>0. Overlay(active)
  BY Overlays DEF TypeInv
<1>1. ASSUME NEW c \in Config, Request(c) PROVE TypeInv'
  BY <1>1 DEF Request, TypeInv, Asked, flags, OrIdle
<1>2. CASE Copy
  <2>1. rescue' \in OrIdle(Saved)
    BY <1>2 DEF Copy, TypeInv, OrIdle, Saved
  <2> QED BY <1>2, <2>1 DEF Copy, TypeInv, service, world
<1>3. ASSUME NEW by \in {"overlay", "rescue"}, Begin(by) PROVE TypeInv'
  <2>1. Ask(by).cfg \in Config
    BY <1>3, NotIdle DEF Begin, Ask, Asked, Saved
  <2>2. Overlay(Ask(by).cfg)
    BY <2>1, Overlays
  <2>3. op' \in OrIdle(Operation)
    BY <1>3, <2>2 DEF Begin, Operation, Places, OrIdle, Overlay
  <2> QED BY <1>3, <2>1, <2>3 DEF Begin, TypeInv, flags, world
<1> QED BY <1>1, <1>2, <1>3

LEMMA SignalTypes ==
    ASSUME TypeInv, Replace \/ DaemonEvent \/ AdapterEvent \/ Correction
    PROVE  TypeInv'
<1>0. Overlay(active)
  BY Overlays DEF TypeInv
<1>1. CASE Replace
  BY <1>1 DEF Replace, TypeInv, Blank, Mode, GattLayout, service, threads, flags, Radio, Link, News
<1>2. CASE DaemonEvent
  BY <1>0, <1>2 DEF DaemonEvent, TypeInv, service, threads, Overlay, News
<1>3. CASE AdapterEvent
  BY <1>0, <1>3 DEF AdapterEvent, TypeInv, service, threads, Overlay, Drifted, News
<1>4. CASE Correct
  BY <1>0, <1>4 DEF Correct, TypeInv, service, world, Overlay, OrIdle, Fix
<1>5. CASE Corrected
  BY <1>5 DEF Corrected, TypeInv, service, flags, OrIdle, Fix, Radio, News
<1>6. CASE CorrectionFails
  BY <1>6 DEF CorrectionFails, TypeInv, service, world, OrIdle
<1> QED BY <1>1, <1>2, <1>3, <1>4, <1>5, <1>6 DEF Correction

LEMMA RadioTypes ==
    ASSUME TypeInv, Write \/ Air \/ Alternate
    PROVE  TypeInv'
<1>0. Overlay(active)
  BY Overlays DEF TypeInv
<1>1. CASE Write
  BY <1>0, <1>1 DEF Write, Window, TypeInv, Mode, flags, Radio, Writing
<1>2. CASE Register
  BY <1>0, <1>2 DEF Register, Registered, TypeInv, service, Radio, Writing
<1>3. CASE RegisterFails
  BY <1>0, <1>3 DEF RegisterFails, Registered, TypeInv, service, Mode, Radio, Writing
<1>4. CASE OnAir
  BY <1>4 DEF OnAir, TypeInv, service, world, Writing
<1>5. CASE Alternate
  BY <1>5 DEF Alternate, TypeInv, service, threads, Radio, Role
<1> QED BY <1>1, <1>2, <1>3, <1>4, <1>5 DEF Air

LEMMA LinkTypes ==
    ASSUME TypeInv, Sweep \/ Dial \/ PeerComes \/ PeerLeaves
    PROVE  TypeInv'
<1>0. Overlay(active)
  BY Overlays DEF TypeInv
<1>1. CASE SweepBegin
  <2>1. sweep' \in OrIdle(Sweeping)
    <3>1. CASE active.mode = "broadcast"
      <4>1. sweep' \in [pc: {"cast"}, up: BOOLEAN]
        <5>1. sweep' = [pc |-> "cast", up |-> link = "up"]
          BY <1>1, <3>1, Zenon DEF SweepBegin
        <5>2. CASE link = "up"
          BY <5>1, <5>2
        <5>3. CASE link # "up"
          BY <5>1, <5>3
        <5> QED BY <5>2, <5>3
      <4> QED BY <4>1 DEF Sweeping, OrIdle
    <3>2. CASE active.mode # "broadcast"
      <4>1. sweep' \in [pc: {"le"}, scan: BOOLEAN]
        BY <1>0, <1>1, <3>2 DEF SweepBegin, Overlay
      <4> QED BY <4>1 DEF Sweeping, OrIdle
    <3> QED BY <3>1, <3>2
  <2>2. dial' \in Dialing
    BY <1>1 DEF SweepBegin, TypeInv, Dialing
  <2> QED BY <1>1, <2>1, <2>2 DEF SweepBegin, TypeInv, service, flags, world
<1>2. CASE SweepCast
  BY <1>2 DEF SweepCast, TypeInv, Sweeping, service, flags, OrIdle, Link
<1>3. CASE SweepScan
  <2>1. sweep' \in OrIdle(Sweeping)
    BY <1>3 DEF SweepScan, OrIdle
  <2>2. radio' \in Radio
    BY <1>3 DEF SweepScan, TypeInv, Radio, Present
  <2> QED BY <1>3, <2>1, <2>2 DEF SweepScan, TypeInv, service, flags
<1>4. CASE DialCall
  BY <1>4 DEF DialCall, TypeInv, service, flags, Link, Dialing
<1>5. CASE DialAnswer
  BY <1>5 DEF DialAnswer, TypeInv, service, flags, Link, Dialing
<1>6. CASE DialCheck
  BY <1>6 DEF DialCheck, TypeInv, service, flags, Link, Dialing
<1>7. CASE PeerComes
  BY <1>7 DEF PeerComes, TypeInv, service, threads, flags, Link
<1>8. CASE PeerLeaves
  BY <1>8 DEF PeerLeaves, TypeInv, service, threads, flags, Link
<1> QED BY <1>1, <1>2, <1>3, <1>4, <1>5, <1>6, <1>7, <1>8 DEF Sweep, Dial

LEMMA NextTypes == TypeInv /\ [Next]_vars => TypeInv'
<1> SUFFICES ASSUME TypeInv, [Next]_vars PROVE TypeInv'
  OBVIOUS
<1>1. CASE Next
  BY <1>1, TransitionTypes, RequestTypes, SignalTypes, RadioTypes, LinkTypes DEF Next
<1>2. CASE UNCHANGED vars
  BY <1>2 DEF vars, service, threads, flags, world, TypeInv
<1> QED BY <1>1, <1>2

\* Only four steps touch the history.
LEMMA HistoryStep ==
    ASSUME [Next]_vars
    PROVE  \/ UNCHANGED history
           \/ Replace /\ history' = [history EXCEPT !.missed = @ \/ op.pc \in {"rebuild", "advertise", "end"}]
           \/ Adapt /\ history' = [history EXCEPT !.skipped = TRUE]
           \/ Throw /\ history' = Clean
           \/ \E by \in {"overlay", "rescue"} :
                 Begin(by) /\ history' = [Clean EXCEPT !.crossed = by = "rescue" /\ rescue.cfg # want]
<1>1. CASE UNCHANGED vars
  BY <1>1 DEF vars, world
<1>2. CASE Transition
  BY <1>2 DEF Transition, Release, ReleaseFails, Bridges, StopMeshFails, Retire, Adapt, AdaptFails, Rebuild,
     RebuildFails, Advertise, AdvertiseFails, End, StartFails, Throw
<1>3. CASE Next /\ ~Transition
  BY <1>3 DEF Next, Request, Copy, Begin, world, Replace, DaemonEvent, AdapterEvent, Correction, Correct, Corrected,
     CorrectionFails, Write, Air, Register, RegisterFails, OnAir, Alternate, Sweep, SweepBegin, SweepCast,
     SweepScan, Dial, DialCall, DialAnswer, DialCheck, PeerComes, PeerLeaves
<1> QED BY <1>1, <1>2, <1>3

LEMMA HistoryNext == HistoryInv /\ [Next]_vars => HistoryInv'
<1> SUFFICES ASSUME HistoryInv, [Next]_vars PROVE HistoryInv'
  OBVIOUS
<1>1. CASE UNCHANGED history
  BY <1>1 DEF HistoryInv
<1>2. CASE history' = [history EXCEPT !.missed = @ \/ op.pc \in {"rebuild", "advertise", "end"}]
  BY <1>2 DEF HistoryInv
<1>3. CASE history' = [history EXCEPT !.skipped = TRUE]
  BY <1>3 DEF HistoryInv
<1>4. CASE history' = Clean
  BY <1>4 DEF HistoryInv, Clean
<1>5. ASSUME NEW by, history' = [Clean EXCEPT !.crossed = by = "rescue" /\ rescue.cfg # want]
      PROVE  HistoryInv'
  BY <1>5 DEF HistoryInv, Clean
<1> QED BY <1>1, <1>2, <1>3, <1>4, <1>5, HistoryStep

\* Every reachable state of the service, its threads, timers and daemons is well
\* formed, for any overlays and any number of events (service_node.cpp).
THEOREM RadioTypesHold == Spec => []TypeOK
<1>1. Init => HistoryInv
  BY DEF Init, HistoryInv, Clean
<1> QED BY InitTypes, <1>1, NextTypes, HistoryNext, TypesImply, PTL DEF Spec

(***************************************************************************)
(* What a transition has done at each of its places.  This much is true    *)
(* whenever bluetoothd is replaced and whoever waits for the lock.         *)
(***************************************************************************)
Bearer ==
    op # Idle =>
    /\ active = op.cfg /\ allowed = FALSE
    /\ op.pc \in {"adapt", "rebuild"} =>
          object = "none" /\ radio.adv = "none" /\ writing = "no"
    /\ op.pc \in {"advertise", "end"} =>
          /\ object = Advertised(op.cfg)
          /\ ~Server(op.cfg) => radio.gatt = "none"
          /\ object = "none" => radio.adv = "none" /\ writing = "no"

\* What the environment and the timers do to discovery, policy and links does
\* not matter here.
LEMMA BearerStays ==
    ASSUME Bearer, UNCHANGED <<op, active, allowed, object, writing>>,
           radio'.adv = radio.adv, radio'.gatt = radio.gatt
    PROVE  Bearer'
  BY DEF Bearer

LEMMA BearerTransition ==
    ASSUME TypeInv, Bearer, Transition
    PROVE  Bearer'
<1>0. op # Idle /\ op \in Operation /\ Overlay(op.cfg)
  BY Overlays, NotIdle DEF TypeInv, Idle, Transition, Release, ReleaseFails, Bridges, StopMeshFails, Retire,
     Adapt, AdaptFails, Rebuild, RebuildFails, Advertise, AdvertiseFails, End, StartFails, At
<1>1. CASE Release
  BY <1>0, <1>1 DEF Release, Goto, Others, Operation, Bearer
<1>2. CASE Bridges
  BY <1>0, <1>2 DEF Bridges, Goto, Operation, Bearer
<1>3. CASE Retire
  BY <1>0, <1>3 DEF Retire, Goto, Others, Operation, Bearer, TypeInv, Radio
<1>4. CASE Adapt
  <2>1. radio'.adv = radio.adv
    BY <1>4 DEF Adapt, TypeInv, Radio
  <2> QED BY <1>0, <1>4, <2>1 DEF Adapt, At, Goto, Operation, Bearer
<1>5. CASE Rebuild
  <2>1. object' = Advertised(op.cfg) /\ (~Server(op.cfg) => radio'.gatt = "none") /\ radio'.adv = "none"
    BY <1>0, <1>5 DEF Rebuild, At, TypeInv, Radio, Bearer
  <2> QED BY <1>0, <1>5, <2>1 DEF Rebuild, At, Goto, Others, Operation, Bearer
<1>6. CASE Advertise
  <2>1. radio'.gatt = radio.gatt /\ (object = "none" => radio'.adv = radio.adv)
    BY <1>6 DEF Advertise, TypeInv, Radio
  <2> QED BY <1>0, <1>6, <2>1 DEF Advertise, At, Goto, Others, Operation, Bearer
<1>7. CASE End \/ ReleaseFails \/ StopMeshFails \/ AdaptFails \/ RebuildFails \/ AdvertiseFails \/ StartFails
  <2>1. op' = Idle
    BY <1>7 DEF End, Throw, ReleaseFails, StopMeshFails, AdaptFails, RebuildFails, AdvertiseFails, StartFails
  <2> QED BY <2>1 DEF Bearer
<1> QED BY <1>1, <1>2, <1>3, <1>4, <1>5, <1>6, <1>7 DEF Transition

LEMMA BearerOthers ==
    ASSUME TypeInv, Bearer, Next, ~Transition
    PROVE  Bearer'
<1>1. ASSUME NEW c \in Config, Request(c) PROVE Bearer'
  BY <1>1, BearerStays DEF Request
<1>2. CASE Copy \/ Correct \/ CorrectionFails
  BY <1>2, BearerStays DEF Copy, Correct, CorrectionFails, service, world
<1>3. ASSUME NEW by \in {"overlay", "rescue"}, Begin(by) PROVE Bearer'
  BY <1>3 DEF Begin, Bearer
<1>4. CASE Replace
  BY <1>4 DEF Replace, Blank, Bearer, service, threads
<1>5. CASE DaemonEvent \/ AdapterEvent
  BY <1>5, BearerStays DEF DaemonEvent, AdapterEvent, service, threads
<1>6. CASE Corrected \/ SweepScan
  <2>1. radio'.adv = radio.adv /\ radio'.gatt = radio.gatt
    BY <1>6 DEF Corrected, SweepScan, TypeInv, Radio
  <2> QED BY <1>6, <2>1, BearerStays DEF Corrected, SweepScan, service
<1>7. CASE Write
  <2>1. CASE object = "none"
    BY <1>7, <2>1, BearerStays DEF Write
  <2>2. CASE object # "none"
    <3>1. radio'.gatt = radio.gatt
      BY <1>7 DEF Write, Window, TypeInv, Radio
    <3> QED BY <1>7, <2>2, <3>1 DEF Write, Bearer
  <2> QED BY <2>1, <2>2
<1>8. CASE Register \/ RegisterFails
  <2>1. writing # "no" /\ radio'.gatt = radio.gatt
    BY <1>8 DEF Register, RegisterFails, Registered, TypeInv, Radio
  <2> QED BY <1>8, <2>1 DEF Register, RegisterFails, service, Bearer
<1>9. CASE OnAir
  BY <1>9 DEF OnAir, service, world, Bearer
<1>10. CASE Alternate
  <2>1. op = Idle /\ UNCHANGED op
    BY <1>10 DEF Alternate, Quiet, threads
  <2> QED BY <2>1 DEF Bearer
<1>11. CASE SweepBegin \/ SweepCast \/ Dial \/ PeerComes \/ PeerLeaves
  BY <1>11, BearerStays DEF SweepBegin, SweepCast, Dial, DialCall, DialAnswer, DialCheck, PeerComes, PeerLeaves,
     service, threads, world
<1> QED BY <1>1, <1>2, <1>3, <1>4, <1>5, <1>6, <1>7, <1>8, <1>9, <1>10, <1>11 DEF Next, Correction, Air, Sweep

LEMMA BearerNext == TypeInv /\ Bearer /\ [Next]_vars => Bearer'
<1> SUFFICES ASSUME TypeInv, Bearer, [Next]_vars PROVE Bearer'
  OBVIOUS
<1>1. CASE UNCHANGED vars
  BY <1>1 DEF vars, service, threads, flags, world, Bearer
<1> QED BY <1>1, BearerTransition, BearerOthers

\* Only the last step of a transition to Mesh gives Mesh the controller.
LEMMA BearerStep == TypeInv /\ Bearer /\ [Next]_vars =>
                       (~mesh /\ mesh' => radio.adv = "none" /\ radio.gatt = "none" /\ ~allowed)
<1> SUFFICES ASSUME TypeInv, Bearer, [Next]_vars, ~mesh, mesh'
             PROVE  radio.adv = "none" /\ radio.gatt = "none" /\ ~allowed
  OBVIOUS
<1>1. End
  <2>1. mesh' = mesh \/ End \/ mesh' = (mesh /\ op.cfg.mesh)
    BY DEF vars, world, Next, Request, Copy, Begin, Transition, Release, ReleaseFails, Bridges, StopMeshFails,
       Retire, Adapt, AdaptFails, Rebuild, RebuildFails, Advertise, AdvertiseFails, StartFails, Throw,
       Replace, DaemonEvent, AdapterEvent, Correction, Correct, Corrected, CorrectionFails, Write, Air, Register,
       RegisterFails, OnAir, Alternate, Sweep, SweepBegin, SweepCast, SweepScan, Dial, DialCall, DialAnswer,
       DialCheck, PeerComes, PeerLeaves
  <2> QED BY <2>1
<1>2. op # Idle /\ Overlay(op.cfg) /\ op.cfg.mesh
  BY <1>1, Overlays, NotIdle DEF End, At, Idle
<1> QED BY <1>1, <1>2 DEF End, At, Bearer, Overlay

\* Mesh gets a controller without registrations of bluetoothd, with connections denied:
\* the radio data planes exclude each other (service_node.cpp, apply_config).
THEOREM BearerExclusive == Spec => OneBearer
<1>1. Init => Bearer
  BY DEF Init, Bearer
<1> QED BY <1>1, InitTypes, NextTypes, BearerNext, BearerStep, PTL DEF Spec, OneBearer

(***************************************************************************)
(* The overlay manager, its transition, and the recovery agree on the      *)
(* overlay, unless the last transition was a recovery that came too late.  *)
(***************************************************************************)
Agreed ==
    /\ IF overlay = Idle THEN (op = Idle /\ ~good) \/ active = want \/ history.crossed
                         ELSE overlay.cfg = want
    /\ op # Idle => IF op.by = "overlay" THEN overlay # Idle /\ overlay.cfg = op.cfg
                                         ELSE rescue # Idle /\ rescue.cfg = op.cfg

LEMMA AgreedNext ==
    ASSUME TypeInv, HistoryInv, Bearer, Agreed, [Next]_vars
    PROVE  Agreed'
<1>0. op # Idle => op \in Operation /\ active = op.cfg
  BY NotIdle DEF Bearer
<1>1. ASSUME NEW c \in Config, Request(c) PROVE Agreed'
  <2>1. overlay = Idle /\ (op # Idle => op.by = "rescue" /\ rescue # Idle /\ rescue.cfg = op.cfg)
    BY <1>0, <1>1 DEF Request, Agreed, Operation
  <2>2. overlay'.pc = "apply" /\ overlay'.cfg = c /\ want' = c
    BY <1>1 DEF Request
  <2>3. overlay' # Idle
    BY <2>2 DEF Idle
  <2> QED BY <1>1, <2>1, <2>2, <2>3 DEF Request, Agreed
<1>2. CASE Copy
  <2>1. op = Idle /\ UNCHANGED <<active, want, good, overlay, op, history>>
    BY <1>2 DEF Copy, Quiet, service, world
  <2> QED BY <2>1 DEF Agreed
<1>3. ASSUME NEW by \in {"overlay", "rescue"}, Begin(by) PROVE Agreed'
  <2>1. Ask(by) # Idle
    <3>1. Ask(by).pc # "idle"
      BY <1>3 DEF Begin
    <3> QED BY <3>1 DEF Idle
  <2>2. op'.by = by /\ op'.cfg = Ask(by).cfg /\ active' = Ask(by).cfg
    BY <1>3 DEF Begin
  <2>3. UNCHANGED <<want, overlay, rescue>>
    BY <1>3 DEF Begin
  <2>4. CASE by = "overlay"
    BY <2>1, <2>2, <2>3, <2>4 DEF Ask, Agreed
  <2>5. CASE by = "rescue"
    <3>1. history'.crossed = (rescue.cfg # want)
      BY <1>3, <2>5 DEF Begin, Clean
    <3> QED BY <2>1, <2>2, <2>3, <2>5, <3>1 DEF Ask, Agreed
  <2> QED BY <2>4, <2>5
<1>4. CASE Transition
  <2>0. op # Idle
    BY <1>4, NotIdle DEF Idle, Transition, Release, ReleaseFails, Bridges, StopMeshFails, Retire,
       Adapt, AdaptFails, Rebuild, RebuildFails, Advertise, AdvertiseFails, End, StartFails, At
  <2>1. CASE Throw
    <3>1. CASE op.by = "rescue"
      BY <2>0, <2>1, <3>1 DEF Throw, Agreed
    <3>2. CASE op.by # "rescue"
      <4>1. op.by = "overlay" /\ overlay # Idle /\ overlay.cfg = want /\ overlay.cfg = active
        BY <1>0, <2>0, <2>1, <3>2 DEF Throw, Agreed, Operation
      <4>2. CASE overlay.pc = "apply" /\ overlay.prev # overlay.cfg
        <5>1. overlay \in Asked
          BY <4>2, NotIdle
        <5>2. want' = overlay.prev /\ overlay' = [overlay EXCEPT !.pc = "back", !.cfg = overlay.prev]
          BY <2>1, <3>2, <4>2 DEF Throw
        <5>3. overlay'.pc = "back" /\ overlay'.cfg = want'
          BY <5>1, <5>2 DEF Asked
        <5>4. overlay' # Idle /\ overlay'.cfg = want'
          BY <5>3 DEF Idle
        <5> QED BY <2>1, <4>1, <5>4 DEF Throw, Agreed
      <4>3. CASE ~(overlay.pc = "apply" /\ overlay.prev # overlay.cfg)
        BY <1>0, <2>0, <2>1, <3>2, <4>1, <4>3 DEF Throw, Agreed
      <4> QED BY <4>2, <4>3
    <3> QED BY <3>1, <3>2
  <2>2. CASE End
    BY <2>0, <2>2, <1>0 DEF End, Agreed, Operation
  <2>3. CASE ~Throw /\ ~End
    <3>0. history'.crossed = history.crossed
      BY <1>4, <2>3 DEF HistoryInv, Transition, Release, ReleaseFails, Bridges, StopMeshFails, Retire, Adapt,
         AdaptFails, Rebuild, RebuildFails, Advertise, AdvertiseFails, StartFails
    <3>1. /\ UNCHANGED <<active, want, overlay, rescue>>
          /\ \E pc \in Places : op' = [op EXCEPT !.pc = pc]
      BY <1>4, <2>3 DEF Transition, Release, ReleaseFails, Bridges, StopMeshFails, Retire, Adapt,
         AdaptFails, Rebuild, RebuildFails, Advertise, AdvertiseFails, StartFails, Goto, Others, Places
    <3>2. op'.by = op.by /\ op'.cfg = op.cfg
      BY <1>0, <2>0, <3>1 DEF Operation
    <3> QED BY <2>0, <3>0, <3>1, <3>2 DEF Agreed
  <2> QED BY <2>1, <2>2, <2>3
<1>5. ASSUME UNCHANGED <<active, want, good, overlay, rescue, op>>, history'.crossed = history.crossed PROVE Agreed'
  BY <1>5 DEF Agreed
<1>6. CASE Next /\ ~Transition /\ ~Copy /\ ~(\E c \in Config : Request(c))
           /\ ~(\E by \in {"overlay", "rescue"} : Begin(by))
  <2>1. history'.crossed = history.crossed
    BY <1>6 DEF HistoryInv, Next, world, Replace, DaemonEvent, AdapterEvent, Correction, Correct, Corrected,
       CorrectionFails, Write, Air, Register, RegisterFails, OnAir, Alternate, Sweep, SweepBegin, SweepCast,
       SweepScan, Dial, DialCall, DialAnswer, DialCheck, PeerComes, PeerLeaves
  <2> QED BY <1>5, <1>6, <2>1 DEF Next, service, threads, Replace, DaemonEvent, AdapterEvent, Correction, Correct, Corrected,
     CorrectionFails, Write, Air, Register, RegisterFails, OnAir, Alternate, Sweep, SweepBegin, SweepCast,
     SweepScan, Dial, DialCall, DialAnswer, DialCheck, PeerComes, PeerLeaves
<1> QED BY <1>1, <1>2, <1>3, <1>4, <1>5, <1>6 DEF vars, service, threads, world

(***************************************************************************)
(* What is built of an overlay while it is switched on, and afterwards, if *)
(* the transition did not outlive its bluetoothd.  An advertisement that   *)
(* is registered anew for each payload comes and goes.                     *)
(***************************************************************************)
Expected(c) == IF Server(c) THEN c.layout ELSE "none"

Doing ==
    op # Idle =>
    /\ op.pc \notin {"release", "bridges"} => bridges = op.cfg /\ (mesh => op.cfg.mesh)
    /\ ~history.missed =>
       /\ op.pc \in {"advertise", "end"} => radio.gatt = Expected(op.cfg)
       /\ op.pc = "end" /\ ~op.cfg.reregister => radio.adv = Advertised(op.cfg) /\ writing = "no"

Registrations ==
    /\ radio.gatt = Expected(active)
    /\ ~active.reregister => radio.adv = Advertised(active) /\ writing = "no"

Done ==
    op = Idle /\ good =>
    /\ mesh = active.mesh /\ bridges = active /\ allowed = ~Exclusive(active)
    /\ object = Advertised(active)
    /\ ~history.missed /\ (~Lost \/ active.mesh) => Registrations

Built == Doing /\ Done

LEMMA BuiltStays ==
    ASSUME Built, UNCHANGED <<op, active, bridges, mesh, good, allowed, object, writing, history>>,
           radio'.adv = radio.adv, radio'.gatt = radio.gatt, op = Idle /\ Lost => Lost' \/ active.mesh
    PROVE  Built'
<1>1. Doing'
  BY DEF Built, Doing
<1>2. Done'
  BY DEF Built, Done, Registrations
<1> QED BY <1>1, <1>2 DEF Built

LEMMA BuiltEnd ==
    ASSUME TypeInv, Bearer, Built, End
    PROVE  Built'
<1>1. op # Idle /\ Overlay(op.cfg) /\ op.pc = "end" /\ op' = Idle /\ active = op.cfg /\ active' = active
  BY Overlays, NotIdle DEF End, At, Idle, Bearer
<1>2. /\ mesh' = active.mesh /\ bridges' = active /\ allowed' = ~Exclusive(active)
      /\ object' = Advertised(active)
  BY <1>1 DEF End, Bearer, Built, Doing, Overlay, TypeInv
<1>3. ~history.missed => radio'.gatt = Expected(active) /\ (~active.reregister => radio'.adv = Advertised(active))
  <2>1. CASE active.mesh
    BY <1>1, <2>1 DEF End, Blank, Expected, Overlay
  <2>2. CASE ~active.mesh
    <3>1. radio'.gatt = radio.gatt /\ radio'.adv = radio.adv
      BY <1>1, <2>2 DEF End, TypeInv, Radio
    <3> QED BY <1>1, <3>1 DEF Built, Doing
  <2> QED BY <2>1, <2>2
<1>4. ~history.missed /\ ~active.reregister => writing' = "no"
  BY <1>1 DEF End, Built, Doing
<1>5. history' = history
  BY DEF End
<1> QED BY <1>1, <1>2, <1>3, <1>4, <1>5 DEF Built, Doing, Done, Registrations, Expected

LEMMA BuiltTransition ==
    ASSUME TypeInv, Bearer, Built, Transition
    PROVE  Built'
<1>0. op # Idle /\ op \in Operation /\ Overlay(op.cfg)
  BY Overlays, NotIdle DEF TypeInv, Idle, Transition, Release, ReleaseFails, Bridges, StopMeshFails, Retire,
     Adapt, AdaptFails, Rebuild, RebuildFails, Advertise, AdvertiseFails, End, StartFails, At
<1>a. ASSUME op' # Idle, Doing' PROVE Built'
  BY <1>a DEF Built, Done
<1>b. ASSUME NEW pc \in Places, op' = [op EXCEPT !.pc = pc]
      PROVE  op' # Idle /\ op'.pc = pc /\ op'.cfg = op.cfg
  <2>1. op'.pc = pc /\ op'.cfg = op.cfg
    BY <1>0, <1>b DEF Operation
  <2> QED BY <2>1 DEF Places, Idle
<1>1. CASE Release
  <2>1. op' # Idle /\ op'.pc = "bridges"
    BY <1>1, <1>b DEF Release, Goto, Places
  <2> QED BY <1>a, <2>1 DEF Doing
<1>2. CASE Bridges
  <2>1. op' # Idle /\ op'.pc = "retire" /\ op'.cfg = op.cfg
    BY <1>2, <1>b DEF Bridges, Goto, Places
  <2> QED BY <1>a, <1>2, <2>1 DEF Bridges, Doing
<1>3. CASE Retire
  <2>1. op' # Idle /\ op'.pc = "adapt" /\ op'.cfg = op.cfg
    BY <1>3, <1>b DEF Retire, Goto, Places
  <2> QED BY <1>0, <1>a, <1>3, <2>1 DEF Retire, At, Built, Doing
<1>4. CASE Adapt
  <2>1. op' # Idle /\ op'.pc = "rebuild" /\ op'.cfg = op.cfg
    BY <1>4, <1>b DEF Adapt, Goto, Places
  <2> QED BY <1>0, <1>a, <1>4, <2>1 DEF Adapt, At, Built, Doing
<1>5. CASE Rebuild
  <2>1. op' # Idle /\ op'.pc = "advertise" /\ op'.cfg = op.cfg
    BY <1>5, <1>b DEF Rebuild, Goto, Places
  <2>2. radio'.gatt = Expected(op.cfg)
    BY <1>5 DEF Rebuild, TypeInv, Radio, Expected
  <2> QED BY <1>0, <1>a, <1>5, <2>1, <2>2 DEF Rebuild, At, Built, Doing, Expected
<1>6. CASE Advertise
  <2>1. op' # Idle /\ op'.pc = "end" /\ op'.cfg = op.cfg
    BY <1>6, <1>b DEF Advertise, Goto, Places
  <2>2. radio'.gatt = radio.gatt /\ radio'.adv = object
    BY <1>0, <1>6 DEF Advertise, At, TypeInv, Radio, Bearer
  <2>3. /\ object = Advertised(op.cfg) /\ writing' = "no" /\ history' = history
        /\ ~history.missed => radio.gatt = Expected(op.cfg)
    BY <1>0, <1>6 DEF Advertise, At, Others, Bearer, Built, Doing
  <2> QED BY <1>0, <1>a, <1>6, <2>1, <2>2, <2>3 DEF Advertise, At, Built, Doing, Expected
<1>7. CASE Throw
  BY <1>7 DEF Throw, Built, Doing, Done
<1>8. CASE End
  BY <1>8, BuiltEnd
<1> QED BY <1>1, <1>2, <1>3, <1>4, <1>5, <1>6, <1>7, <1>8 DEF Transition, ReleaseFails, StopMeshFails,
          AdaptFails, RebuildFails, AdvertiseFails, StartFails

\* A payload touches the registrations only of overlays that register it anew, or
\* of a bluetoothd whose replacement is not dealt with yet.
LEMMA BuiltAir ==
    ASSUME TypeInv, Bearer, Built, Write \/ Air
    PROVE  Built'
<1>1. UNCHANGED <<op, active, bridges, mesh, good, allowed, object, news, recover, rescue, history>>
  BY DEF Write, Air, Register, RegisterFails, OnAir, service, flags, world
<1>2. Lost' = Lost
  BY <1>1 DEF Lost
<1>3. radio'.gatt = radio.gatt
  BY DEF Write, Air, Register, RegisterFails, OnAir, Window, Registered, TypeInv, Radio, world
<1>4. CASE UNCHANGED <<writing, radio>>
  BY <1>1, <1>2, <1>4, BuiltStays
<1>5. CASE ~UNCHANGED <<writing, radio>>
  <2>1. active.reregister \/ writing # "no" \/ (object # "none" /\ radio.adv = "none")
    BY <1>5 DEF Write, Air, Register, RegisterFails, OnAir
  <2>2. Doing'
    BY <1>1, <1>3, <2>1 DEF Built, Doing, Bearer, Expected
  <2>3. Done'
    BY <1>1, <1>2, <1>3, <2>1 DEF Built, Done, Registrations, Expected
  <2> QED BY <2>2, <2>3 DEF Built
<1> QED BY <1>4, <1>5

LEMMA BuiltOthers ==
    ASSUME TypeInv, HistoryInv, Bearer, Built, Next, ~Transition, ~Write, ~Air
    PROVE  Built'
<1>1. ASSUME NEW c \in Config, Request(c) PROVE Built'
  BY <1>1, BuiltStays DEF Request, flags, Lost
<1>2. CASE Copy
  <2>1. active.mesh \/ rescue' # Idle
    <3>1. active.mesh \/ rescue'.pc = "apply"
      BY <1>2 DEF Copy
    <3> QED BY <3>1 DEF Idle
  <2> QED BY <1>2, <2>1, BuiltStays DEF Copy, service, world, Lost
<1>3. ASSUME NEW by \in {"overlay", "rescue"}, Begin(by) PROVE Built'
  <2>1. op'.pc = "release"
    BY <1>3 DEF Begin
  <2> QED BY <2>1 DEF Built, Doing, Done, Idle
<1>4. CASE Replace
  <2>1. ~mesh /\ Lost' /\ UNCHANGED <<op, mesh, active, bridges, good, allowed, object>>
    BY <1>4 DEF Replace, Present, Lost, service, threads
  <2>2. op.pc \in {"advertise", "end"} => history'.missed
    BY <1>4 DEF Replace, HistoryInv
  <2>3. Doing'
    BY <2>1, <2>2 DEF Built, Doing
  <2>4. Done'
    BY <2>1 DEF Built, Done
  <2> QED BY <2>3, <2>4 DEF Built
<1>5. CASE DaemonEvent
  <2>1. op = Idle /\ ~active.mesh => Lost'
    BY <1>5 DEF DaemonEvent, Lost, Quiet
  <2> QED BY <1>5, <2>1, BuiltStays DEF DaemonEvent, service, threads
<1>6. CASE AdapterEvent \/ Corrected
  <2>1. radio'.adv = radio.adv /\ radio'.gatt = radio.gatt /\ news'.daemon = news.daemon
    BY <1>6 DEF AdapterEvent, Corrected, TypeInv, Radio, News
  <2> QED BY <1>6, <2>1, BuiltStays DEF AdapterEvent, Corrected, service, threads, flags, Lost
<1>7. CASE Alternate
  <2>0. UNCHANGED radio \/ radio' = [radio EXCEPT !.scan = FALSE] \/ radio' = [radio EXCEPT !.scan = TRUE]
    <3>1. CASE ~Legacy \/ role = "off"
      BY <1>7, <3>1 DEF Alternate
    <3>2. CASE Legacy /\ role = "receive"
      BY <1>7, <3>2 DEF Alternate
    <3>3. CASE Legacy /\ role = "transmit"
      BY <1>7, <3>3 DEF Alternate
    <3> QED BY <3>1, <3>2, <3>3 DEF TypeInv, Role
  <2>1. radio'.adv = radio.adv /\ radio'.gatt = radio.gatt
    BY <2>0 DEF TypeInv, Radio
  <2>2. UNCHANGED <<op, active, bridges, mesh, good, allowed, object, writing, news, recover, rescue, history>>
    BY <1>7 DEF Alternate, service, threads
  <2> QED BY <2>1, <2>2, BuiltStays DEF Lost
<1>8. CASE SweepScan
  <2>1. radio'.adv = radio.adv /\ radio'.gatt = radio.gatt
    BY <1>8 DEF SweepScan, TypeInv, Radio
  <2> QED BY <1>8, <2>1, BuiltStays DEF SweepScan, service, flags, Lost
<1>9. CASE Correct \/ CorrectionFails \/ SweepBegin \/ SweepCast \/ Dial \/ PeerComes \/ PeerLeaves
  BY <1>9, BuiltStays DEF Correct, CorrectionFails, SweepBegin, SweepCast, Dial, DialCall, DialAnswer, DialCheck,
     PeerComes, PeerLeaves, service, threads, flags, world, Lost
<1> QED BY <1>1, <1>2, <1>3, <1>4, <1>5, <1>6, <1>7, <1>8, <1>9 DEF Next, Correction, Sweep

LEMMA BuiltNext ==
    ASSUME TypeInv, HistoryInv, Bearer, Built, [Next]_vars
    PROVE  Built'
<1>1. CASE UNCHANGED vars
  BY <1>1, BuiltStays DEF vars, service, threads, flags, world, Lost
<1> QED BY <1>1, BuiltTransition, BuiltAir, BuiltOthers

LEMMA BuiltFaithful == TypeInv /\ Agreed /\ Built => Faithful
<1>1. TypeInv => Overlay(active)
  BY Overlays DEF TypeInv
<1> QED BY <1>1 DEF Agreed, Built, Done, Registrations, Expected, Faithful, Matches, Quiet, Overlay

\* After a success everything the service has built is of the active overlay, unless
\* bluetoothd was replaced under the last steps of the transition, and that overlay is
\* the overlay manager's, unless the transition was a recovery with an older copy:
\* whichever steps fail, whenever bluetoothd is replaced, and whoever waits for the lock
\* (service_node.cpp, apply_config).
THEOREM FaithfulHolds == Spec => []Faithful
<1>1. Init => Bearer /\ Agreed /\ Built
  <2> SUFFICES ASSUME Init PROVE Bearer /\ Agreed /\ Built
    OBVIOUS
  <2>1. op = Idle /\ rescue = Idle /\ good = FALSE /\ overlay.pc = "apply" /\ overlay.cfg = want
    BY DEF Init
  <2>2. overlay # Idle
    BY <2>1 DEF Idle
  <2> QED BY <2>1, <2>2 DEF Bearer, Agreed, Built, Doing, Done
<1>2. Init => HistoryInv
  BY DEF Init, HistoryInv, Clean
<1>3. TypeInv /\ HistoryInv /\ Bearer /\ Agreed /\ Built /\ [Next]_vars
        => (TypeInv /\ HistoryInv /\ Bearer /\ Agreed /\ Built)'
  BY NextTypes, HistoryNext, BearerNext, AgreedNext, BuiltNext
<1> QED BY <1>1, <1>2, <1>3, InitTypes, BuiltFaithful, PTL DEF Spec

-----------------------------------------------------------------------------
(* ConfigRules: what the rules give, for every file.                        *)

LEMMA EntryOverItself ==
    ASSUME NEW n PROVE MergeEntry(n, n) = n
  BY DEF MergeEntry

LEMMA FieldOverItself ==
    ASSUME NEW n, IsField(n) PROVE MergeField(n, n) = n
<1>1. CASE n.is # "map"
  BY <1>1 DEF MergeField, MergeWith
<1>2. CASE n.is = "map"
  <2>1. MergeField(n, n) = Node("map", [k \in DOMAIN n.v |-> MergeEntry(n.v[k], n.v[k])])
    BY <1>2 DEF MergeField, MergeWith
  <2>2. [k \in DOMAIN n.v |-> MergeEntry(n.v[k], n.v[k])] = [k \in DOMAIN n.v |-> n.v[k]]
    BY EntryOverItself
  <2>3. n = Node("map", n.v) /\ n.v = [k \in DOMAIN n.v |-> n.v[k]]
    BY <1>2 DEF IsField, IsNode, IsMapOf
  <2> QED BY <2>1, <2>2, <2>3
<1> QED BY <1>1, <1>2

LEMMA EntryTwice ==
    ASSUME NEW b, NEW o PROVE MergeEntry(MergeEntry(b, o), o) = MergeEntry(b, o)
  BY DEF MergeEntry

LEMMA FieldTwice ==
    ASSUME NEW b, NEW o, IsField(o)
    PROVE MergeField(MergeField(b, o), o) = MergeField(b, o)
<1>1. CASE b.is = "null" \/ o.is = "null"
  BY <1>1, FieldOverItself DEF MergeField, MergeWith
<1>2. CASE b.is = "map" /\ o.is = "map"
  <2> DEFINE D == DOMAIN b.v \cup DOMAIN o.v
             E(k) == IF k \notin DOMAIN o.v THEN b.v[k]
                     ELSE IF k \notin DOMAIN b.v THEN o.v[k] ELSE MergeEntry(b.v[k], o.v[k])
             f == [k \in D |-> E(k)]
  <2>1. MergeField(b, o) = Node("map", f)
    BY <1>2 DEF MergeField, MergeWith
  <2>2. Node("map", f).is = "map" /\ Node("map", f).v = f /\ DOMAIN f = D
    BY DEF Node
  <2> DEFINE G(k) == IF k \notin DOMAIN o.v THEN f[k]
                     ELSE IF k \notin DOMAIN f THEN o.v[k] ELSE MergeEntry(f[k], o.v[k])
  <2>3. MergeField(Node("map", f), o) = Node("map", [k \in D \cup DOMAIN o.v |-> G(k)])
    BY <1>2, <2>2 DEF MergeField, MergeWith
  <2>4. D \cup DOMAIN o.v = D
    OBVIOUS
  <2>5. ASSUME NEW k \in D PROVE G(k) = E(k)
    <3>1. f[k] = E(k) /\ k \in DOMAIN f
      OBVIOUS
    <3>2. CASE k \notin DOMAIN o.v
      BY <3>1, <3>2
    <3>3. CASE k \in DOMAIN o.v /\ k \notin DOMAIN b.v
      BY <3>1, <3>3, EntryOverItself
    <3>4. CASE k \in DOMAIN o.v /\ k \in DOMAIN b.v
      BY <3>1, <3>4, EntryTwice
    <3> QED BY <3>2, <3>3, <3>4
  <2> HIDE DEF D, E, f, G
  <2>6. [k \in D |-> G(k)] = [k \in D |-> E(k)]
    BY <2>5
  <2> QED BY <2>1, <2>3, <2>4, <2>6 DEF f
<1>3. CASE b.is # "null" /\ o.is # "null" /\ ~(b.is = "map" /\ o.is = "map")
  BY <1>3, FieldOverItself DEF MergeField, MergeWith
<1> QED BY <1>1, <1>2, <1>3

\* Loading an overlay over a configuration that already has it changes nothing, so a
\* reload is the same configuration (config_loader.cpp:417-436).
THEOREM OverlayTwice ==
    ASSUME NEW b, NEW o, IsFile(o)
    PROVE MergeFile(MergeFile(b, o), o) = MergeFile(b, o)
<1>0. MergeFile(o, o) = o
  <2>1. CASE o.is # "map"
    BY <2>1 DEF MergeFile, MergeWith
  <2>2. CASE o.is = "map"
    <3>1. MergeFile(o, o) = Node("map", [k \in DOMAIN o.v |-> MergeField(o.v[k], o.v[k])])
      BY <2>2 DEF MergeFile, MergeWith
    <3>2. o = Node("map", o.v) /\ o.v = [k \in DOMAIN o.v |-> o.v[k]]
          /\ \A k \in DOMAIN o.v : IsField(o.v[k])
      BY <2>2 DEF IsFile, IsNode, IsMapOf
    <3>3. [k \in DOMAIN o.v |-> MergeField(o.v[k], o.v[k])] = [k \in DOMAIN o.v |-> o.v[k]]
      BY <3>2, FieldOverItself
    <3> QED BY <3>1, <3>2, <3>3
  <2> QED BY <2>1, <2>2
<1>1. CASE b.is = "null" \/ o.is = "null"
  BY <1>0, <1>1 DEF MergeFile, MergeWith
<1>2. CASE b.is = "map" /\ o.is = "map"
  <2> DEFINE D == DOMAIN b.v \cup DOMAIN o.v
             E(k) == IF k \notin DOMAIN o.v THEN b.v[k]
                     ELSE IF k \notin DOMAIN b.v THEN o.v[k] ELSE MergeField(b.v[k], o.v[k])
             f == [k \in D |-> E(k)]
  <2>0. \A k \in DOMAIN o.v : IsField(o.v[k])
    BY <1>2 DEF IsFile, IsMapOf
  <2>1. MergeFile(b, o) = Node("map", f)
    BY <1>2 DEF MergeFile, MergeWith
  <2>2. Node("map", f).is = "map" /\ Node("map", f).v = f /\ DOMAIN f = D
    BY DEF Node
  <2> DEFINE G(k) == IF k \notin DOMAIN o.v THEN f[k]
                     ELSE IF k \notin DOMAIN f THEN o.v[k] ELSE MergeField(f[k], o.v[k])
  <2>3. MergeFile(Node("map", f), o) = Node("map", [k \in D \cup DOMAIN o.v |-> G(k)])
    BY <1>2, <2>2 DEF MergeFile, MergeWith
  <2>4. D \cup DOMAIN o.v = D
    OBVIOUS
  <2>5. ASSUME NEW k \in D PROVE G(k) = E(k)
    <3>1. f[k] = E(k) /\ k \in DOMAIN f
      OBVIOUS
    <3>2. CASE k \notin DOMAIN o.v
      BY <3>1, <3>2
    <3>3. CASE k \in DOMAIN o.v /\ k \notin DOMAIN b.v
      BY <2>0, <3>1, <3>3, FieldOverItself
    <3>4. CASE k \in DOMAIN o.v /\ k \in DOMAIN b.v
      BY <2>0, <3>1, <3>4, FieldTwice
    <3> QED BY <3>2, <3>3, <3>4
  <2> HIDE DEF D, E, f, G
  <2>6. [k \in D |-> G(k)] = [k \in D |-> E(k)]
    BY <2>5
  <2> QED BY <2>1, <2>3, <2>4, <2>6 DEF f
<1>3. CASE b.is # "null" /\ o.is # "null" /\ ~(b.is = "map" /\ o.is = "map")
  BY <1>0, <1>3 DEF MergeFile, MergeWith
<1> QED BY <1>1, <1>2, <1>3

\* Neither the automatic mode nor the bridges touch the mode of the advertisement.
LEMMA ModeKept ==
    ASSUME NEW doc, NEW host
    PROVE  Effective(doc, host).mode = Settings(doc, host).mode
<1> DEFINE s == Settings(doc, host)
           c == IF s.flag.mesh_swarm_auto_provisioning THEN Automatic(s) ELSE s
           raw == ListOf(doc, "shared_topics")
           topics == [i \in DOMAIN raw |-> ReadTopic(raw[i].v, c, host)]
<1>1. "mode" \in DOMAIN s
  BY DEF Settings
<1>2. Effective(doc, host) = [c EXCEPT !.topics = topics]
  BY DEF Effective
<1> HIDE DEF s, topics
<1>3. "mode" \in DOMAIN Automatic(s) /\ Automatic(s).mode = s.mode
  BY <1>1 DEF Automatic
<1>4. "mode" \in DOMAIN c /\ c.mode = s.mode
  BY <1>1, <1>3
<1> HIDE DEF c
<1>5. [c EXCEPT !.topics = topics].mode = s.mode
  BY <1>4
<1> QED BY <1>2, <1>5 DEF s

\* Whatever the files say, a configuration that loads has one user of the radio: Mesh
\* comes with no LE role, and without a connectable server there are no GATT services
\* (config_loader.cpp:1118-1189).  RadioTransition assumes this of its overlays.
THEOREM LoadedOnePlane ==
    ASSUME NEW defaults, NEW user, NEW host, Load(defaults, user, host).ok
    PROVE LET r == RadioView(Load(defaults, user, host).cfg) IN
          /\ r.mesh => r.mode = "none" /\ ~r.scan
          /\ r.mode # "peripheral" => r.layout = {}
<1> DEFINE file == MergeFile(defaults, user)
           c == Load(defaults, user, host).cfg
<1>1. Accepted(file.v, host) /\ c = Effective(file.v, host)
  BY DEF Load
<1>2. MeshAlone(c) /\ BroadcastAlone(c)
  BY <1>1 DEF Accepted, OnePlane
<1>3. c.mode = Settings(file.v, host).mode
  BY <1>1, ModeKept
<1>4. c.mode \in {"peripheral", "broadcast"}
  BY <1>1, <1>3 DEF Accepted, ChoicesValid
<1> HIDE DEF c
<1>5. c.flag.enable_mesh => ~c.flag.enable_server /\ ~c.flag.enable_scan
  BY <1>2 DEF MeshAlone, LeRoles
<1>6. c.mode = "broadcast" => Layout(c) = {}
  BY <1>2 DEF BroadcastAlone, LeRoles, Layout
<1>7. ~c.flag.enable_server => Layout(c) = {}
  BY DEF Layout
<1> QED BY <1>4, <1>5, <1>6, <1>7 DEF RadioView, c

-----------------------------------------------------------------------------
(* NetplanChange: what a change leaves behind, for every file and whatever  *)
(* happens.                                                                 *)

LEMMA RewrittenTwice ==
    ASSUME NEW f, NEW ssid, NEW password
    PROVE  Rewritten(Rewritten(f, ssid, password), ssid, password) = Rewritten(f, ssid, password)
<1> DEFINE kept == IF password # "" THEN password ELSE ReadPassword(f)
           address == IF f.is = "null" THEN "default" ELSE f.address
           g == File("wlan", <<Point(ssid, kept)>>, address)
<1>1. Rewritten(f, ssid, password) = g
  BY DEF Rewritten
<1>2. g.is = "wlan" /\ g.address = address /\ g.points = <<Point(ssid, kept)>>
  BY DEF File
<1>3. ReadPassword(g) = kept
  <2>2. Point(ssid, kept).password = kept
    BY DEF Point
  <2> HIDE DEF g, kept, address
  <2>1. g.points # <<>> /\ g.points[1] = Point(ssid, kept)
    BY <1>2
  <2> QED BY <2>1, <2>2 DEF ReadPassword
<1>4. (IF password # "" THEN password ELSE ReadPassword(g)) = kept
  BY <1>3
<1> HIDE DEF kept, address
<1>5. Rewritten(g, ssid, password) = File("wlan", <<Point(ssid, kept)>>, address)
  <2> HIDE DEF g
  <2> QED BY <1>2, <1>4 DEF Rewritten
<1> QED BY <1>1, <1>5

\* A change that fails, wherever it does and whatever its rollback can do, leaves the old
\* file, the new one, or one cut short.  The old file is gone only if its rewrite was cut
\* short or putting it back failed; and unless the file is cut short the change can be
\* tried again, with the result it would have had: a password that was kept is not lost
\* by a first, failing attempt (netplan_manager.cpp:141-158, 348-437, 231-241).
THEOREM FailureCanBeRetried ==
    ASSUME NEW f, NEW ssid, NEW password, NEW whitelist, NEW e \in Events,
           ~SetCurrentNetwork(f, ssid, password, whitelist, e).ok
    PROVE LET g == SetCurrentNetwork(f, ssid, password, whitelist, e).file IN
          /\ g \in {f, Rewritten(f, ssid, password), Torn}
          /\ g # f => e.write = "torn" \/ e.back # "ok"
          /\ g # Torn => Rewritten(g, ssid, password) = Rewritten(f, ssid, password)
<1> DEFINE new == Rewritten(f, ssid, password)
           g == SetCurrentNetwork(f, ssid, password, whitelist, e).file
<1>1. CASE ssid = "" \/ (whitelist # {} /\ ssid \notin whitelist)
  BY <1>1 DEF SetCurrentNetwork, Outcome
<1>2. CASE ~(ssid = "" \/ (whitelist # {} /\ ssid \notin whitelist))
  <2>1. g = WriteNetplan(f, ssid, password, e).file /\ ~WriteNetplan(f, ssid, password, e).ok
    BY <1>2 DEF SetCurrentNetwork
  <2>2. e.write \in {"ok", "refused", "torn", "unnoticed"} /\ e.back \in {"ok", "refused", "torn"}
    BY DEF Events
  <2> DEFINE applied == Written(e.write, f, new)
             undone == Rollback(f, applied, e.back)
  <2> HIDE DEF g, new
  <2>3. applied \in {f, new, Torn} /\ (e.write = "refused" => applied = f)
    BY <2>2 DEF Written
  <2>4. \/ g = f
        \/ g = applied /\ e.write \in {"refused", "torn"}
        \/ g = undone
    <3>1. CASE f.is = "other"
      BY <2>1, <3>1 DEF WriteNetplan, Outcome
    <3>2. CASE f.is # "other" /\ e.write \in {"refused", "torn"}
      BY <2>1, <3>2 DEF WriteNetplan, Outcome, new
    <3>3. CASE f.is # "other" /\ e.write \notin {"refused", "torn"} /\ ~(e.apply /\ e.join)
      BY <2>1, <3>3 DEF WriteNetplan, Outcome, new
    <3>4. CASE f.is # "other" /\ e.write \notin {"refused", "torn"} /\ e.apply /\ e.join
      BY <2>1, <3>4 DEF WriteNetplan, Outcome
    <3> QED BY <3>1, <3>2, <3>3, <3>4
  <2> HIDE DEF applied
  <2>5. undone \in {f, applied, Torn} /\ (e.back = "ok" => undone = f)
    BY <2>2 DEF Rollback, Written
  <2> HIDE DEF undone
  <2>6. g \in {f, new, Torn} /\ (g # f => e.write = "torn" \/ e.back # "ok")
    BY <2>3, <2>4, <2>5
  <2>7. g # Torn => Rewritten(g, ssid, password) = new
    BY <2>6, RewrittenTwice DEF new
  <2> QED BY <2>6, <2>7 DEF g, new
<1> QED BY <1>1, <1>2

\* A change that succeeds, its file written, names the network and leaves no other access point, keeps the
\* address, and never empties a password (netplan_manager.cpp:370-400, 441-462).
THEOREM SuccessIsExact ==
    ASSUME NEW f, NEW ssid, NEW password, NEW whitelist, NEW e \in Events,
           SetCurrentNetwork(f, ssid, password, whitelist, e).ok, e.write # "unnoticed"
    PROVE LET g == SetCurrentNetwork(f, ssid, password, whitelist, e).file IN
          /\ ssid # "" /\ (whitelist # {} => ssid \in whitelist)
          /\ ReadSsid(g) = ssid /\ Len(g.points) = 1
          /\ ReadPassword(f) # "" => ReadPassword(g) # ""
          /\ f.is = "wlan" => g.address = f.address
<1>1. ~(ssid = "" \/ (whitelist # {} /\ ssid \notin whitelist))
  BY DEF SetCurrentNetwork, Outcome
<1>2. SetCurrentNetwork(f, ssid, password, whitelist, e).file = Rewritten(f, ssid, password)
  <2>1. WriteNetplan(f, ssid, password, e).ok
    BY <1>1 DEF SetCurrentNetwork
  <2>2. f.is # "other" /\ e.write = "ok" /\ e.apply /\ e.join
    BY <2>1 DEF WriteNetplan, Outcome, Events
  <2> QED BY <1>1, <2>2 DEF SetCurrentNetwork, WriteNetplan, Written, Outcome
<1>3. Rewritten(f, ssid, password).points
        = <<Point(ssid, IF password # "" THEN password ELSE ReadPassword(f))>>
  BY DEF Rewritten, File
<1>4. Rewritten(f, ssid, password).address = IF f.is = "null" THEN "default" ELSE f.address
  BY DEF Rewritten, File
<1>5. ASSUME NEW p, NEW r, r.points = <<p>>
      PROVE ReadSsid(r) = p.ssid /\ ReadPassword(r) = p.password /\ Len(r.points) = 1
  <2>1. r.points # <<>> /\ r.points[1] = p /\ Len(r.points) = 1
    BY <1>5
  <2> QED BY <2>1 DEF ReadSsid, ReadPassword
<1> DEFINE kept == IF password # "" THEN password ELSE ReadPassword(f)
<1>6. Point(ssid, kept).ssid = ssid /\ Point(ssid, kept).password = kept
  BY DEF Point
<1> HIDE DEF kept
<1>7. /\ ReadSsid(Rewritten(f, ssid, password)) = ssid
      /\ ReadPassword(Rewritten(f, ssid, password)) = kept
      /\ Len(Rewritten(f, ssid, password).points) = 1
  <2>1. Rewritten(f, ssid, password).points = <<Point(ssid, kept)>>
    BY <1>3 DEF kept
  <2> QED BY <2>1, <1>5, <1>6
<1> QED BY <1>1, <1>2, <1>4, <1>7 DEF kept

\* UAVs with numbers below 100 get addresses of their own; above, two may share one
\* (netplan_manager.cpp:242-265).
THEOREM AddressesApart ==
    ASSUME NEW a \in 0..99, NEW b \in 0..99, DefaultHostPart(a) = DefaultHostPart(b)
    PROVE a = b
<1>1. a % 100 = a /\ b % 100 = b
  OBVIOUS
<1> QED BY <1>1 DEF DefaultHostPart
=============================================================================
