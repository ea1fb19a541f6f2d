--------------------------- MODULE PeerLinkProofs ---------------------------
(***************************************************************************)
(* Theorems about PeerLink, for every choice of the dialer and the owner,  *)
(* any number of faults, any passes that may be overtaken, and all the     *)
(* circumstances of Circumstance.                                          *)
(***************************************************************************)
EXTENDS PeerLink, TLAPS

Subscription == {"off", "on", "dead"}
Import == {"off", "on", "refused", "stopped", "lost"}
PeerTask == {"none", "connect", "pair", "admitted", "disconnect", "remove", "drop"}
ViewRecord == [dev : Device, bonded : BOOLEAN, br : Bridge, sub : Subscription,
               top : Import, wake : BOOLEAN]

\* What an operation on the session may do to it: it asks for no repair, and
\* leaves the failures it has counted or forgets them.
Keeps(s, t) == /\ t \in Session
               /\ t.repair # "no" => s.repair # "no"
               /\ t.fails \in {s.fails, 0}

\* Both hold a key, or are about to, for n has agreed to a pairing.
Endangered(n) == Matched \/ (task[Other(n)] = "admitted" /\ Linked)

\* Why a key that both sides hold is safe: nobody wants a repair then, nor while a
\* pairing it has agreed to is under way, unless it has asked for one meanwhile.
\* The other two parts bound the failures: at the third a repair is asked for, and
\* what a node has no record of it has no bridge to, so that it counts no failure.
Sound == \A n \in Node : /\ ses[n].repair # "no" /\ Endangered(n) => crossed[n]
                         /\ ses[n].fails # 3
                         /\ dev[n] = "gone" => br[n].status = "none"

LinkInv == TypeOK /\ Sound

-----------------------------------------------------------------------------
(* The operators on sessions                                                *)

\* t has the fields of s, with values of a session, and keeps what Keeps says.
SameFields(s, t) == DOMAIN t = DOMAIN s /\ t = [x \in DOMAIN s |-> t[x]]

FieldsTyped(t) ==
    /\ t.phase \in {"rest", "connecting", "unready", "securing", "ready"}
    /\ t.repair \in {"no", "asked", "issued"} /\ t.pairing \in BOOLEAN
    /\ t.inbound \in BOOLEAN /\ t.grace \in BOOLEAN /\ t.since \in BOOLEAN /\ t.cool \in BOOLEAN
    /\ t.wait \in {"no", "on", "up"} /\ t.healthy \in BOOLEAN /\ t.fails \in 0..3
    /\ t.turn \in {"no", "on", "due"}

AsksNothing(s, t) == (t.repair # "no" => s.repair # "no") /\ t.fails \in {s.fails, 0}

LEMMA SessionByFields ==
    ASSUME NEW s \in Session, NEW t, SameFields(s, t), FieldsTyped(t)
    PROVE  t \in Session
  BY DEF Session, SameFields, FieldsTyped

LEMMA KeepsByFields ==
    ASSUME NEW s \in Session, NEW t, SameFields(s, t), FieldsTyped(t), AsksNothing(s, t)
    PROVE  Keeps(s, t)
  BY SessionByFields DEF AsksNothing, Keeps

LEMMA KeepsItself ==
    ASSUME NEW s \in Session PROVE Keeps(s, s)
  BY DEF Keeps, Session

LEMMA KeepsOn ==
    ASSUME NEW s, NEW t, NEW u, Keeps(s, t), Keeps(t, u) PROVE Keeps(s, u)
  BY DEF Keeps

LEMMA WaitingKeeps ==
    ASSUME NEW s \in Session PROVE Keeps(s, Waiting(s))
  <1>1. SameFields(s, Waiting(s))  BY DEF SameFields, Session, Waiting
  <1>2. FieldsTyped(Waiting(s))  BY DEF FieldsTyped, Session, Waiting
  <1>3. AsksNothing(s, Waiting(s))  BY DEF AsksNothing, Session, Waiting
  <1> QED  BY <1>1, <1>2, <1>3, KeepsByFields

LEMMA CalmKeeps ==
    ASSUME NEW s \in Session PROVE Keeps(s, [Waiting(s) EXCEPT !.cool = FALSE])
  <1> DEFINE t == [Waiting(s) EXCEPT !.cool = FALSE]
  <1>1. SameFields(s, t)  BY DEF SameFields, Session, Waiting
  <1>2. FieldsTyped(t)  BY DEF FieldsTyped, Session, Waiting
  <1>3. AsksNothing(s, t)  BY DEF AsksNothing, Session, Waiting
  <1> QED  BY <1>1, <1>2, <1>3, KeepsByFields

LEMMA ClearResetKeeps ==
    ASSUME NEW s \in Session
    PROVE  Keeps(s, ClearReset(s)) /\ ClearReset(s).repair = "no"
  <1>1. SameFields(s, ClearReset(s))  BY DEF SameFields, Session, ClearReset
  <1>2. FieldsTyped(ClearReset(s))  BY DEF FieldsTyped, Session, ClearReset
  <1>3. AsksNothing(s, ClearReset(s))  BY DEF AsksNothing, Session, ClearReset
  <1>4. ClearReset(s).repair = "no"  BY DEF Session, ClearReset
  <1> QED  BY <1>1, <1>2, <1>3, <1>4, KeepsByFields

\* request_device_reset forgets the failures if it asks.
LEMMA AskShape ==
    ASSUME NEW s \in Session
    PROVE  Ask(s) \in Session /\ Ask(s).fails \in {s.fails, 0}
  <1>1. CASE s.repair # "no"
    BY <1>1 DEF Ask
  <1>2. CASE s.repair = "no"
    <2> DEFINE t == [s EXCEPT !.repair = "asked", !.wait = "no", !.fails = 0,
                              !.cool = FALSE, !.phase = "rest"]
    <2>1. SameFields(s, t)  BY DEF SameFields, Session
    <2>2. FieldsTyped(t)  BY DEF FieldsTyped, Session
    <2>3. t.fails = 0  BY DEF Session
    <2>4. Ask(s) = t  BY <1>2 DEF Ask
    <2> QED  BY <2>1, <2>2, <2>3, <2>4, SessionByFields
  <1> QED  BY <1>1, <1>2

LEMMA ArrivedKeeps ==
    ASSUME NEW s \in Session PROVE Keeps(s, Arrived(s))
  <1>1. CASE s.since
    BY <1>1, KeepsItself DEF Arrived
  <1>2. CASE ~s.since /\ s.grace
    <2> DEFINE t == [s EXCEPT !.since = TRUE, !.grace = FALSE]
    <2>1. SameFields(s, t)  BY DEF SameFields, Session
    <2>2. FieldsTyped(t)  BY DEF FieldsTyped, Session
    <2>3. AsksNothing(s, t)  BY DEF AsksNothing, Session
    <2> QED  BY <1>2, <2>1, <2>2, <2>3, KeepsByFields DEF Arrived
  <1>3. CASE ~s.since /\ ~s.grace
    <2> DEFINE r == ClearReset(s)
               t == [r EXCEPT !.since = TRUE, !.inbound = TRUE]
    <2>1. Keeps(s, r) /\ r \in Session  BY ClearResetKeeps DEF Keeps
    <2>2. Arrived(s) = t  BY <1>3 DEF Arrived
    <2> HIDE DEF r
    <2>3. SameFields(r, t)  BY <2>1 DEF SameFields, Session
    <2>4. FieldsTyped(t)  BY <2>1 DEF FieldsTyped, Session
    <2>5. AsksNothing(r, t)  BY <2>1 DEF AsksNothing, Session
    <2> QED  BY <2>1, <2>2, <2>3, <2>4, <2>5, KeepsByFields, KeepsOn
  <1> QED  BY <1>1, <1>2, <1>3

LEMMA SyncIdleKeeps ==
    ASSUME NEW s \in Session, NEW bonded \in BOOLEAN
    PROVE  Keeps(s, SyncIdle(s, bonded)) /\ (~bonded => SyncIdle(s, bonded).fails = 0)
  <1>1. SameFields(s, SyncIdle(s, bonded))  BY DEF SameFields, Session, SyncIdle
  <1>2. FieldsTyped(SyncIdle(s, bonded))  BY DEF FieldsTyped, Session, SyncIdle
  <1>3. AsksNothing(s, SyncIdle(s, bonded))  BY DEF AsksNothing, Session, SyncIdle
  <1>4. ~bonded => SyncIdle(s, bonded).fails = 0  BY DEF Session, SyncIdle
  <1> QED  BY <1>1, <1>2, <1>3, <1>4, KeepsByFields

LEMMA SyncGoneKeeps ==
    ASSUME NEW s \in Session PROVE Keeps(s, SyncGone(s))
  <1> DEFINE t == [s EXCEPT !.healthy = FALSE, !.since = FALSE, !.pairing = FALSE,
                            !.wait = "no", !.cool = FALSE, !.phase = "rest"]
  <1>1. SameFields(s, t)  BY DEF SameFields, Session
  <1>2. FieldsTyped(t)  BY DEF FieldsTyped, Session
  <1>3. AsksNothing(s, t)  BY DEF AsksNothing, Session
  <1>4. Keeps(s, t)  BY <1>1, <1>2, <1>3, KeepsByFields
  <1>5. SyncGone(s) = IF s.repair = "issued" THEN ClearReset(t) ELSE t  BY DEF SyncGone
  <1> HIDE DEF t
  <1>6. t \in Session  BY <1>4 DEF Keeps
  <1>7. Keeps(t, ClearReset(t))  BY <1>6, ClearResetKeeps
  <1> QED  BY <1>4, <1>5, <1>7, KeepsOn

LEMMA SyncLiveKeeps ==
    ASSUME NEW s \in Session, NEW b \in Bridge, NEW d \in Device, NEW bonded \in BOOLEAN
    PROVE  /\ Keeps(s, SyncLive(s, b, d, bonded))
           /\ ~bonded => SyncLive(s, b, d, bonded).fails = 0
  <1> DEFINE t == Arrived(s)
             phase == IF t.pairing THEN "securing" ELSE "unready"
             open == [t EXCEPT !.wait = "no", !.fails = 0, !.phase = phase]
             ready == b.status = "ready"
             kept == d = "res" \/ (~ready /\ Preserved(t, b, d))
             place == IF ready THEN "ready" ELSE "unready"
             keyed == [t EXCEPT !.pairing = FALSE, !.turn = "no", !.phase = place,
                                !.wait = IF kept THEN @ ELSE "no", !.cool = @ /\ kept]
  <1>1. SyncLive(s, b, d, bonded) = IF ~bonded THEN open ELSE keyed  BY DEF SyncLive
  <1>2. kept \in BOOLEAN  BY DEF Preserved
  <1>3. Keeps(s, t) /\ t \in Session  BY ArrivedKeeps DEF Keeps
  <1>4. phase \in {"securing", "unready"} /\ place \in {"ready", "unready"}  OBVIOUS
  <1> HIDE DEF t, phase, kept, place
  <1>5. Keeps(t, open) /\ open.fails = 0
    <2> USE <1>3, <1>4
    <2>1. SameFields(t, open)  BY DEF SameFields, Session
    <2>2. FieldsTyped(open)  BY DEF FieldsTyped, Session
    <2>3. AsksNothing(t, open)  BY DEF AsksNothing, Session
    <2>4. open.fails = 0  BY DEF Session
    <2> QED  BY <2>1, <2>2, <2>3, <2>4, KeepsByFields
  <1>6. Keeps(t, keyed)
    <2> USE <1>2, <1>3, <1>4
    <2>1. SameFields(t, keyed)  BY DEF SameFields, Session
    <2>2. FieldsTyped(keyed)  BY DEF FieldsTyped, Session
    <2>3. AsksNothing(t, keyed)  BY DEF AsksNothing, Session
    <2> QED  BY <2>1, <2>2, <2>3, KeepsByFields
  <1> QED  BY <1>1, <1>3, <1>5, <1>6, KeepsOn

\* sync_device and note_missing_device ask for no repair; the failures are of a
\* stored key, and go with it.
LEMMA SyncKeeps ==
    ASSUME NEW s \in Session, NEW b \in Bridge, NEW d \in Device, NEW bonded \in BOOLEAN
    PROVE  /\ Keeps(s, Sync(s, b, d, bonded))
           /\ ~bonded /\ d # "gone" => Sync(s, b, d, bonded).fails = 0
  <1>1. CASE d = "gone"
    BY <1>1, SyncGoneKeeps DEF Sync
  <1>2. CASE d = "idle"
    BY <1>2, SyncIdleKeeps DEF Sync
  <1>3. CASE d \notin {"gone", "idle"}
    <2>1. Sync(s, b, d, bonded) = SyncLive(s, b, d, bonded)  BY <1>3 DEF Sync
    <2> QED  BY <2>1, SyncLiveKeeps
  <1> QED  BY <1>1, <1>2, <1>3

LEMMA PromotedKeeps ==
    ASSUME NEW s \in Session, NEW d PROVE Keeps(s, Promoted(s, d))
  <1> DEFINE t == [s EXCEPT !.inbound = FALSE]
  <1>1. SameFields(s, t)  BY DEF SameFields, Session
  <1>2. FieldsTyped(t)  BY DEF FieldsTyped, Session
  <1>3. AsksNothing(s, t)  BY DEF AsksNothing, Session
  <1>4. Keeps(s, t)  BY <1>1, <1>2, <1>3, KeepsByFields
  <1>5. Promoted(s, d) \in {s, t}  BY DEF Promoted
  <1> QED  BY <1>4, <1>5, KeepsItself

LEMMA PhaseKeeps ==
    ASSUME NEW s \in Session, NEW ph \in {"rest", "connecting", "unready", "securing", "ready"}
    PROVE  Keeps(s, [s EXCEPT !.phase = ph])
  <1> DEFINE t == [s EXCEPT !.phase = ph]
  <1>1. SameFields(s, t)  BY DEF SameFields, Session
  <1>2. FieldsTyped(t)  BY DEF FieldsTyped, Session
  <1>3. AsksNothing(s, t)  BY DEF AsksNothing, Session
  <1> QED  BY <1>1, <1>2, <1>3, KeepsByFields

LEMMA PairFailureKeeps ==
    ASSUME NEW s \in Session PROVE Keeps(s, PairFailure(s))
  <1>1. SameFields(s, PairFailure(s))  BY DEF SameFields, Session, PairFailure
  <1>2. FieldsTyped(PairFailure(s))  BY DEF FieldsTyped, Session, PairFailure
  <1>3. AsksNothing(s, PairFailure(s))  BY DEF AsksNothing, Session, PairFailure
  <1> QED  BY <1>1, <1>2, <1>3, KeepsByFields

-----------------------------------------------------------------------------
(* A pass of reconcile_peers                                                *)

\* w is a view that the pass at n that began with v may leave.
Narrows(n, v, w) == /\ w \in ViewRecord
                    /\ w.sub \in {v.sub, "off"} /\ w.top \in {v.top, "off"}
                    /\ dev[n] = "gone" => w.br.status = "none"

\* What the peer task may be after a pass: no pass has the other side agree.
Onward(n) == {task[n]} \cup (PeerTask \ {"admitted"})

\* What a pass at n that looked at v leaves behind.
Left(n, v) ==
    \E s \in Session, b \in Bridge, u \in {v.sub, "off"}, i \in {v.top, "off"},
       t \in Onward(n), p \in Pass, w \in BOOLEAN :
       /\ Keeps(ses[n], s) /\ (dev[n] = "gone" => b.status = "none")
       /\ SetSession(n, s) /\ SetBridge(n, b)
       /\ sub' = [sub EXCEPT ![n] = u] /\ top' = [top EXCEPT ![n] = i]
       /\ task' = [task EXCEPT ![n] = t] /\ pass' = [pass EXCEPT ![n] = p]
       /\ wake' = [wake EXCEPT ![n] = w]

LEMMA LeaveLeft ==
    ASSUME NEW n, NEW v, NEW w, Narrows(n, v, w), NEW s, Keeps(ses[n], s),
           NEW t \in Onward(n), NEW p \in Pass,
           Leave(n, s, w, t), pass' = [pass EXCEPT ![n] = p]
    PROVE  Left(n, v)
  <1> /\ w.br \in Bridge /\ w.wake \in BOOLEAN
      /\ w.sub \in {v.sub, "off"} /\ w.top \in {v.top, "off"}
      /\ dev[n] = "gone" => w.br.status = "none"
    BY DEF Narrows, ViewRecord
  <1> s \in Session  BY DEF Keeps
  <1> SUFFICES \E s0 \in Session, b \in Bridge, u \in {v.sub, "off"}, i \in {v.top, "off"},
                  t0 \in Onward(n), p0 \in Pass, k \in BOOLEAN :
                  /\ Keeps(ses[n], s0) /\ (dev[n] = "gone" => b.status = "none")
                  /\ SetSession(n, s0) /\ SetBridge(n, b)
                  /\ sub' = [sub EXCEPT ![n] = u] /\ top' = [top EXCEPT ![n] = i]
                  /\ task' = [task EXCEPT ![n] = t0] /\ pass' = [pass EXCEPT ![n] = p0]
                  /\ wake' = [wake EXCEPT ![n] = k]
    BY DEF Left
  <1> WITNESS s \in Session, w.br \in Bridge, w.sub \in {v.sub, "off"}, w.top \in {v.top, "off"},
              t \in Onward(n), p \in Pass, w.wake \in BOOLEAN
  <1> QED  BY DEF Leave

LEMMA NoPassTyped == NoPass \in Pass
  BY DEF NoPass, Pass, Device

LEMMA NoBridgeTyped == NoBridge \in Bridge /\ NoBridge.status = "none"
  BY DEF NoBridge, Bridge

LEMMA AgainNarrows ==
    ASSUME NEW n, NEW v, NEW w, Narrows(n, v, w)
    PROVE  Narrows(n, v, Again(w))
  BY DEF Narrows, ViewRecord, Again

LEMMA ClearedNarrows ==
    ASSUME NEW n, NEW v, NEW w, Narrows(n, v, w)
    PROVE  Narrows(n, v, [w EXCEPT !.br = NoBridge])
  <1> DEFINE b == NoBridge
  <1>1. b \in Bridge /\ b.status = "none"  BY NoBridgeTyped
  <1> HIDE DEF b
  <1>2. Narrows(n, v, [w EXCEPT !.br = b])  BY <1>1 DEF Narrows, ViewRecord
  <1> QED  BY <1>2 DEF b

LEMMA StatusNarrows ==
    ASSUME NEW n, NEW v, NEW w, Narrows(n, v, w), dev[n] # "gone",
           NEW st \in {"none", "failed", "subscribing", "ready"}
    PROVE  Narrows(n, v, Status(w, st))
  <1> DEFINE b == [w.br EXCEPT !.status = st]
  <1>1. w \in ViewRecord  BY DEF Narrows
  <1>2. w.br \in Bridge  BY <1>1 DEF ViewRecord
  <1>3. b \in Bridge  BY <1>2 DEF Bridge
  <1>4. Status(w, st) = [w EXCEPT !.br = b]  BY <1>1 DEF Status, ViewRecord
  <1> HIDE DEF b
  <1>5. Narrows(n, v, [w EXCEPT !.br = b])  BY <1>3 DEF Narrows, ViewRecord
  <1> QED  BY <1>4, <1>5

LEMMA DeadlineLeft ==
    ASSUME NEW n, NEW v, NEW w, Narrows(n, v, w), NEW s, s \in Session, Keeps(ses[n], s),
           Deadline(n, s, w), EndPass(n)
    PROVE  Left(n, v)
  <1>1. /\ NoPass \in Pass /\ pass' = [pass EXCEPT ![n] = NoPass]
        /\ task[n] \in Onward(n)
    BY NoPassTyped DEF EndPass, Onward
  <1>2. CASE Leave(n, s, w, task[n])
    BY <1>1, <1>2, LeaveLeft
  <1>3. CASE Leave(n, [s EXCEPT !.phase = "rest"], w, "drop")
    <2> DEFINE t == [s EXCEPT !.phase = "rest"]
    <2>1. Keeps(ses[n], t)  BY PhaseKeeps, KeepsOn
    <2>2. "drop" \in Onward(n)  BY DEF Onward, PeerTask
    <2> HIDE DEF t
    <2> QED  BY <1>1, <1>3, <2>1, <2>2, LeaveLeft DEF t
  <1>4. CASE Leave(n, s, Again(w), task[n])
    BY <1>1, <1>4, AgainNarrows, LeaveLeft
  <1> QED  BY <1>2, <1>3, <1>4 DEF Deadline

\* The session s that a branch works on, and its view.
Works(n, s, v) == s \in Session /\ Keeps(ses[n], s) /\ Narrows(n, v, v)

LEMMA LeaveTyped ==
    ASSUME NEW n, NEW v, NEW w, Narrows(n, v, w), NEW s, Works(n, s, v), NEW t, Keeps(s, t),
           NEW k \in Onward(n), Leave(n, t, w, k), EndPass(n)
    PROVE  Left(n, v)
  <1>1. NoPass \in Pass /\ pass' = [pass EXCEPT ![n] = NoPass]  BY NoPassTyped DEF EndPass
  <1>2. Keeps(ses[n], t)  BY KeepsOn DEF Works
  <1> QED  BY <1>1, <1>2, LeaveLeft

LEMMA PassiveLeft ==
    ASSUME NEW n, NEW v, NEW s, Works(n, s, v), Passive(n, s, v)
    PROVE  Left(n, v)
  <1> DEFINE r == ClearReset(s)
             t == [r EXCEPT !.pairing = FALSE, !.phase = "rest"]
  <1>1. s \in Session /\ Narrows(n, v, v) /\ task[n] \in Onward(n)  BY DEF Works, Onward
  <1>2. Keeps(s, r) /\ r \in Session  BY <1>1, ClearResetKeeps DEF Keeps
  <1>3. Leave(n, t, v, task[n]) /\ EndPass(n)  BY DEF Passive
  <1> HIDE DEF r
  <1>4. SameFields(r, t)  BY <1>2 DEF SameFields, Session
  <1>5. FieldsTyped(t)  BY <1>2 DEF FieldsTyped, Session
  <1>6. AsksNothing(r, t)  BY <1>2 DEF AsksNothing, Session
  <1>7. Keeps(s, t)  BY <1>2, <1>4, <1>5, <1>6, KeepsByFields, KeepsOn
  <1> HIDE DEF t
  <1> QED  BY <1>1, <1>3, <1>7, LeaveTyped

LEMMA RepairLeft ==
    ASSUME NEW n, NEW v, NEW s, Works(n, s, v), Repair(n, s, v)
    PROVE  Left(n, v)
  <1> DEFINE t == [s EXCEPT !.repair = "issued", !.phase = "rest", !.since = FALSE,
                            !.grace = FALSE, !.wait = "no"]
             w == [v EXCEPT !.br = NoBridge, !.sub = "off", !.top = "off"]
  <1>1. s \in Session /\ Narrows(n, v, v) /\ task[n] \in Onward(n)  BY DEF Works, Onward
  <1>2. EndPass(n)  BY DEF Repair
  <1>3. CASE Leave(n, s, v, task[n])
    BY <1>1, <1>2, <1>3, KeepsItself, LeaveTyped
  <1>4. CASE s.repair = "asked" /\ Leave(n, t, w, "disconnect")
    <2>1. SameFields(s, t)  BY <1>1 DEF SameFields, Session
    <2>2. FieldsTyped(t)  BY <1>1 DEF FieldsTyped, Session
    <2>3. AsksNothing(s, t)  BY <1>1, <1>4 DEF AsksNothing, Session
    <2>4. Keeps(s, t)  BY <1>1, <2>1, <2>2, <2>3, KeepsByFields
    <2>5. Narrows(n, v, w)
      <3> DEFINE b == NoBridge
      <3>1. b \in Bridge /\ b.status = "none"  BY NoBridgeTyped
      <3> HIDE DEF b
      <3>2. Narrows(n, v, [v EXCEPT !.br = b, !.sub = "off", !.top = "off"])
        BY <1>1, <3>1 DEF Narrows, ViewRecord, Subscription, Import
      <3> QED  BY <3>2 DEF b
    <2>6. "disconnect" \in Onward(n)  BY DEF Onward, PeerTask
    <2> HIDE DEF t, w
    <2> QED  BY <1>2, <1>4, <2>4, <2>5, <2>6, LeaveTyped
  <1> QED  BY <1>3, <1>4 DEF Repair

LEMMA SecureLeft ==
    ASSUME NEW n, NEW v, NEW s, Works(n, s, v), Secure(n, s, v)
    PROVE  Left(n, v)
  <1>1. s \in Session /\ Narrows(n, v, v) /\ task[n] \in Onward(n)  BY DEF Works, Onward
  <1>2. EndPass(n)  BY DEF Secure
  <1>3. Narrows(n, v, Again(v))  BY <1>1, AgainNarrows
  <1> DEFINE t == [s EXCEPT !.pairing = FALSE, !.phase = "securing", !.turn = "on"]
  <1>4. CASE Leave(n, t, Again(v), task[n])
    <2>1. SameFields(s, t)  BY <1>1 DEF SameFields, Session
    <2>2. FieldsTyped(t)  BY <1>1 DEF FieldsTyped, Session
    <2>3. AsksNothing(s, t)  BY <1>1 DEF AsksNothing, Session
    <2>4. Keeps(s, t)  BY <1>1, <2>1, <2>2, <2>3, KeepsByFields
    <2> HIDE DEF t
    <2> QED  BY <1>1, <1>2, <1>3, <1>4, <2>4, LeaveTyped
  <1> DEFINE attempt == ~s.pairing /\ s.since /\ Free(n)
             p == s.pairing \/ attempt
             r == [s EXCEPT !.pairing = p]
             phase == IF r.pairing THEN "securing" ELSE "unready"
             u == [r EXCEPT !.phase = phase]
             k == IF attempt THEN "pair" ELSE task[n]
  <1>5. CASE Leave(n, u, Again(v), k)
    <2>1. k \in Onward(n)  BY DEF Onward, PeerTask
    <2>2. p \in BOOLEAN  BY <1>1 DEF Session
    <2>3. phase \in {"securing", "unready"}  OBVIOUS
    <2> HIDE DEF p, phase, k
    <2>4. SameFields(s, r)  BY <1>1, <2>2 DEF SameFields, Session
    <2>5. FieldsTyped(r)  BY <1>1, <2>2 DEF FieldsTyped, Session
    <2>6. AsksNothing(s, r)  BY <1>1, <2>2 DEF AsksNothing, Session
    <2>7. Keeps(s, r) /\ r \in Session  BY <1>1, <2>4, <2>5, <2>6, KeepsByFields DEF Keeps
    <2> HIDE DEF r
    <2>8. Keeps(s, u)  BY <2>3, <2>7, PhaseKeeps, KeepsOn
    <2> HIDE DEF u
    <2> QED  BY <1>1, <1>2, <1>3, <1>5, <2>1, <2>8, LeaveTyped
  <1> QED  BY <1>4, <1>5 DEF Secure

LEMMA DialLeft ==
    ASSUME NEW n, NEW v, NEW s, Works(n, s, v), Dial(n, s, v)
    PROVE  Left(n, v)
  <1>1. s \in Session /\ Narrows(n, v, v) /\ task[n] \in Onward(n)  BY DEF Works, Onward
  <1>2. EndPass(n)  BY DEF Dial
  <1> DEFINE t == [s EXCEPT !.grace = TRUE, !.phase = "connecting"]
             u == [s EXCEPT !.phase = "rest"]
  <1>3. CASE Leave(n, t, v, "connect")
    <2>1. SameFields(s, t)  BY <1>1 DEF SameFields, Session
    <2>2. FieldsTyped(t)  BY <1>1 DEF FieldsTyped, Session
    <2>3. AsksNothing(s, t)  BY <1>1 DEF AsksNothing, Session
    <2>4. Keeps(s, t)  BY <1>1, <2>1, <2>2, <2>3, KeepsByFields
    <2>5. "connect" \in Onward(n)  BY DEF Onward, PeerTask
    <2> HIDE DEF t
    <2> QED  BY <1>1, <1>2, <1>3, <2>4, <2>5, LeaveTyped
  <1>4. CASE Leave(n, IF n = Dialer THEN s ELSE u, v, task[n])
    <2>1. Keeps(s, s) /\ Keeps(s, u)  BY <1>1, KeepsItself, PhaseKeeps
    <2> HIDE DEF u
    <2>2. Keeps(s, IF n = Dialer THEN s ELSE u)  BY <2>1
    <2> QED  BY <1>1, <1>2, <1>4, <2>2, LeaveTyped
  <1> QED  BY <1>3, <1>4 DEF Dial

LEMMA UnresolvedLeft ==
    ASSUME NEW n, NEW v, NEW s, Works(n, s, v), Unresolved(n, s, v)
    PROVE  Left(n, v)
  <1>1. s \in Session /\ Keeps(ses[n], s) /\ Narrows(n, v, v) /\ task[n] \in Onward(n)
    BY DEF Works, Onward
  <1>2. EndPass(n)  BY DEF Unresolved
  <1>3. CASE Deadline(n, s, v)
    BY <1>1, <1>2, <1>3, DeadlineLeft
  <1> DEFINE phase == IF Preserved(s, v.br, "conn") /\ v.br.status = "ready" THEN "ready" ELSE "unready"
             t == [s EXCEPT !.phase = phase]
  <1>4. CASE Leave(n, t, Again(v), task[n])
    <2>1. phase \in {"ready", "unready"}  OBVIOUS
    <2> HIDE DEF phase
    <2>2. Keeps(s, t)  BY <1>1, <2>1, PhaseKeeps
    <2> HIDE DEF t
    <2> QED  BY <1>1, <1>2, <1>4, <2>2, AgainNarrows, LeaveTyped
  <1> QED  BY <1>3, <1>4 DEF Unresolved

\* update_peer_time_bridge ends in the handshake, its end, or a StartNotify.
LEMMA TimeBridgeLeft ==
    ASSUME NEW n, NEW v, NEW s, Works(n, s, v), TimeBridge(n, s, v)
    PROVE  Left(n, v)
  <1> DEFINE notifying == v.sub # "off" /\ v.br.status # "none"
             fetched == ~notifying /\ dev[n] # "gone"
             waits == Waiting(s)
             calm == [waits EXCEPT !.cool = FALSE]
             r == ClearReset(s)
             done == [r EXCEPT !.healthy = TRUE, !.wait = "no", !.phase = "ready"]
  <1>1. s \in Session /\ Keeps(ses[n], s) /\ Narrows(n, v, v) /\ task[n] \in Onward(n)
    BY DEF Works, Onward
  <1>2. notifying => dev[n] # "gone"  BY <1>1 DEF Narrows
  <1>3. Keeps(ses[n], waits) /\ waits \in Session  BY <1>1, WaitingKeeps, KeepsOn DEF Keeps
  <1>4. Keeps(ses[n], calm) /\ calm \in Session  BY <1>1, CalmKeeps, KeepsOn DEF Keeps
  <1>5. \/ notifying /\ Leave(n, done, Status(v, "ready"), task[n]) /\ EndPass(n)
        \/ notifying /\ Deadline(n, calm, Again(Status(v, "subscribing"))) /\ EndPass(n)
        \/ Deadline(n, waits, [Again(v) EXCEPT !.br = NoBridge]) /\ EndPass(n)
        \/ fetched /\ Deadline(n, calm, Again(Status(v, "failed"))) /\ EndPass(n)
        \/ Deadline(n, waits, v) /\ EndPass(n)
        \/ /\ fetched /\ Leave(n, s, Status(v, "subscribing"), task[n])
           /\ pass' = [pass EXCEPT ![n] = [NoPass EXCEPT !.at = "notify"]]
    BY DEF TimeBridge
  <1>6. dev[n] # "gone" => /\ Narrows(n, v, Status(v, "ready"))
                           /\ Narrows(n, v, Status(v, "subscribing"))
                           /\ Narrows(n, v, Status(v, "failed"))
    BY <1>1, StatusNarrows
  <1> HIDE DEF notifying, waits, calm
  <1>7. CASE notifying /\ Leave(n, done, Status(v, "ready"), task[n]) /\ EndPass(n)
    <2>1. Keeps(s, r) /\ r \in Session  BY <1>1, ClearResetKeeps DEF Keeps
    <2> HIDE DEF r
    <2>2. SameFields(r, done)  BY <2>1 DEF SameFields, Session
    <2>3. FieldsTyped(done)  BY <2>1 DEF FieldsTyped, Session
    <2>4. AsksNothing(r, done)  BY <2>1 DEF AsksNothing, Session
    <2>5. Keeps(s, done)  BY <2>1, <2>2, <2>3, <2>4, KeepsByFields, KeepsOn
    <2> HIDE DEF done
    <2> QED  BY <1>1, <1>2, <1>6, <1>7, <2>5, LeaveTyped
  <1> HIDE DEF done
  <1>8. CASE notifying /\ Deadline(n, calm, Again(Status(v, "subscribing"))) /\ EndPass(n)
    <2>1. Narrows(n, v, Again(Status(v, "subscribing")))  BY <1>2, <1>6, <1>8, AgainNarrows
    <2> QED  BY <1>1, <1>4, <1>8, <2>1, DeadlineLeft
  <1>9. CASE Deadline(n, waits, [Again(v) EXCEPT !.br = NoBridge]) /\ EndPass(n)
    <2>1. Narrows(n, v, [Again(v) EXCEPT !.br = NoBridge])  BY <1>1, AgainNarrows, ClearedNarrows
    <2> QED  BY <1>1, <1>3, <1>9, <2>1, DeadlineLeft
  <1>10. CASE fetched /\ Deadline(n, calm, Again(Status(v, "failed"))) /\ EndPass(n)
    <2>1. Narrows(n, v, Again(Status(v, "failed")))  BY <1>6, <1>10, AgainNarrows
    <2> QED  BY <1>1, <1>4, <1>10, <2>1, DeadlineLeft
  <1>11. CASE Deadline(n, waits, v) /\ EndPass(n)
    BY <1>1, <1>3, <1>11, DeadlineLeft
  <1>12. CASE /\ fetched /\ Leave(n, s, Status(v, "subscribing"), task[n])
              /\ pass' = [pass EXCEPT ![n] = [NoPass EXCEPT !.at = "notify"]]
    <2>1. [NoPass EXCEPT !.at = "notify"] \in Pass  BY DEF NoPass, Pass, Device
    <2> QED  BY <1>1, <1>6, <1>12, <2>1, LeaveLeft
  <1> QED  BY <1>5, <1>7, <1>8, <1>9, <1>10, <1>11, <1>12

LEMMA BranchLeft ==
    ASSUME NEW n, NEW v, Narrows(n, v, v), ses[n] \in Session, Branch(n, v)
    PROVE  Left(n, v)
  <1> DEFINE s == Promoted(ses[n], v.dev)
  <1>1. Works(n, s, v)  BY PromotedKeeps DEF Works, Keeps
  <1>2. \/ Passive(n, s, v) \/ Repair(n, s, v) \/ Secure(n, s, v)
        \/ Dial(n, s, v) \/ Unresolved(n, s, v) \/ TimeBridge(n, s, v)
    BY DEF Branch
  <1> HIDE DEF s
  <1> QED  BY <1>1, <1>2, PassiveLeft, RepairLeft, SecureLeft, DialLeft, UnresolvedLeft, TimeBridgeLeft

-----------------------------------------------------------------------------
(* The parts of the invariant                                               *)

Shapes ==
    /\ real \in [Node -> Device] /\ dev \in [Node -> Device] /\ bond \in [Node -> BOOLEAN]
    /\ br \in [Node -> Bridge] /\ sub \in [Node -> Subscription] /\ top \in [Node -> Import]
    /\ task \in [Node -> PeerTask] /\ pass \in [Node -> Pass] /\ wake \in [Node -> BOOLEAN]
    /\ spent \in 0..MaxFaults /\ crossed \in [Node -> BOOLEAN]

\* The two sides have the link, or neither; what needs it ends with it.
OneLink == /\ Live(real[1]) = Live(real[2])
           /\ ~Linked => \A n \in Node : sub[n] = "off" /\ top[n] # "on"

Sessions == /\ ses \in [Node -> Session]
            /\ \A n \in Node : /\ ses[n].repair # "no" /\ Endangered(n) => crossed[n]
                              /\ ses[n].fails # 3

Bare == \A n \in Node : dev[n] = "gone" => br[n].status = "none"

LEMMA InvParts == LinkInv <=> Shapes /\ OneLink /\ Sessions /\ Bare
  BY DEF LinkInv, TypeOK, Sound, Shapes, OneLink, Sessions, Bare, Subscription, Import, PeerTask

LEMMA InvPartsNext == LinkInv' <=> Shapes' /\ OneLink' /\ Sessions' /\ Bare'
  BY DEF LinkInv, TypeOK, Sound, Shapes, OneLink, Sessions, Bare, Subscription, Import, PeerTask

LEMMA LinkedAt ==
    ASSUME OneLink, NEW n \in Node PROVE Live(real[n]) <=> Linked
  BY DEF OneLink, Linked, Node

\* A step that endangers no key that was safe.
Careful == \A m \in Node : Endangered(m)' => Endangered(m) /\ crossed'[m] = crossed[m]

LEMMA CarefulIf ==
    ASSUME bond' = bond, crossed' = crossed, Linked' => Linked,
           \A m \in Node : task'[m] = "admitted" => task[m] = "admitted"
    PROVE  Careful
  <1>1. \A m \in Node : Other(m) \in Node  BY DEF Node, Other
  <1> QED  BY <1>1 DEF Careful, Endangered, Matched

LEMMA CarefulStill ==
    ASSUME UNCHANGED <<real, bond, task, crossed>> PROVE Careful
  BY CarefulIf DEF Linked

LEMMA SessionsStay ==
    ASSUME Sessions, Careful, ses' = ses PROVE Sessions'
  BY DEF Sessions, Careful

\* A session that changes stays sound.
LEMMA SessionSet ==
    ASSUME Sessions, NEW n \in Node, NEW s \in Session, s.fails # 3,
           s.repair # "no" /\ Endangered(n)' => crossed'[n],
           \A m \in Node \ {n} : Endangered(m)' => Endangered(m) /\ crossed'[m] = crossed[m],
           SetSession(n, s)
    PROVE  Sessions'
  BY DEF Sessions, SetSession

LEMMA SessionKept ==
    ASSUME Sessions, NEW n \in Node, NEW s, Keeps(ses[n], s), SetSession(n, s), Careful
    PROVE  Sessions'
  <1>1. s \in Session /\ s.fails # 3 /\ (s.repair # "no" /\ Endangered(n)' => crossed'[n])
    BY DEF Keeps, Sessions, Careful
  <1>2. \A m \in Node \ {n} : Endangered(m)' => Endangered(m) /\ crossed'[m] = crossed[m]
    BY DEF Careful
  <1> QED  BY <1>1, <1>2, SessionSet

LEMMA ImportsTyped ==
    ASSUME NEW t \in Import, NEW hosts, NEW healthy
    PROVE  /\ Imports(t, hosts, healthy) \in Import
           /\ Imports(t, hosts, healthy) = "on" => t = "on" \/ healthy
  BY DEF Imports, Import

\* A refresh subscribes over the link only.
LEMMA RefreshTyped ==
    ASSUME Shapes, OneLink, NEW n \in Node, NEW d, Refresh(n, d)
    PROVE  /\ top' \in [Node -> Import]
           /\ ~Linked => \A m \in Node : top'[m] # "on"
  <1> DEFINE t == Imports(top[n], Hosts(n, d, bond[n]), Healthy(n, d))
  <1>1. t \in Import /\ (t = "on" => top[n] = "on" \/ Healthy(n, d))
    BY ImportsTyped DEF Shapes
  <1>2. Healthy(n, d) => Linked  BY LinkedAt DEF Healthy
  <1>3. ~Linked => t # "on"  BY <1>1, <1>2 DEF OneLink
  <1>4. top' = [top EXCEPT ![n] = t]  BY DEF Refresh
  <1> HIDE DEF t
  <1> QED  BY <1>1, <1>3, <1>4 DEF Shapes, OneLink

LEMMA UnlinkedTyped ==
    ASSUME NEW r \in [Node -> Device]
    PROVE  /\ Unlinked(r) \in [Node -> Device]
           /\ \A m \in Node : ~Live(Unlinked(r)[m])
  BY DEF Unlinked, Live, Device

LEMMA LostTyped ==
    ASSUME NEW t \in [Node -> Import]
    PROVE  /\ Lost(t) \in [Node -> Import]
           /\ \A m \in Node : Lost(t)[m] # "on"
  BY DEF Lost, Import

LEMMA LinkEndsTyped ==
    ASSUME Shapes, LinkEnds
    PROVE  /\ real' \in [Node -> Device] /\ sub' \in [Node -> Subscription] /\ top' \in [Node -> Import]
           /\ OneLink' /\ ~Linked'
  <1>1. real' \in [Node -> Device] /\ \A m \in Node : ~Live(real'[m])
    BY UnlinkedTyped DEF Shapes, LinkEnds
  <1>2. top' \in [Node -> Import] /\ \A m \in Node : top'[m] # "on"
    BY LostTyped DEF Shapes, LinkEnds
  <1>3. sub' \in [Node -> Subscription] /\ \A m \in Node : sub'[m] = "off"
    BY DEF LinkEnds, Subscription
  <1>4. 1 \in Node /\ 2 \in Node  BY DEF Node
  <1> QED  BY <1>1, <1>2, <1>3, <1>4 DEF OneLink, Linked, Live

LEMMA BondedTyped ==
    ASSUME Shapes, Sessions, NEW n \in Node
    PROVE  /\ bond[n] \in BOOLEAN /\ ses[n] \in Session /\ br[n] \in Bridge
           /\ real[n] \in Device /\ dev[n] \in Device /\ task[n] \in PeerTask
  BY DEF Shapes, Sessions

LEMMA WakeTyped ==
    ASSUME Shapes, NEW n \in Node, Wake(n) PROVE wake' \in [Node -> BOOLEAN]
  BY DEF Shapes, Wake

LEMMA SpendTyped ==
    ASSUME Shapes, Spend \/ UNCHANGED spent PROVE spent' \in 0..MaxFaults
  BY ConstantAssumption DEF Shapes, Spend

LEMMA StartTyped ==
    ASSUME Shapes, NEW n \in Node, NEW t \in PeerTask, Start(n, t)
    PROVE  /\ task' \in [Node -> PeerTask] /\ task'[n] = t
           /\ \A m \in Node \ {n} : task'[m] = task[m]
  BY DEF Shapes, Start

LEMMA EndPassTyped ==
    ASSUME Shapes, NEW n \in Node, EndPass(n) PROVE pass' \in [Node -> Pass]
  BY NoPassTyped DEF Shapes, EndPass

LEMMA BridgeSet ==
    ASSUME Shapes, Bare, NEW n \in Node, NEW b \in Bridge, SetBridge(n, b),
           dev' = dev, dev[n] = "gone" => b.status = "none"
    PROVE  br' \in [Node -> Bridge] /\ Bare'
  BY DEF Shapes, Bare, SetBridge

-----------------------------------------------------------------------------
(* What bluetoothd reports                                                  *)

LEMMA NoticeInv ==
    ASSUME LinkInv, NEW n \in Node, Notice(n) PROVE LinkInv'
  <1> DEFINE s == Sync(ses[n], br[n], real[n], bond[n])
             b == IF real[n] = "gone" THEN NoBridge ELSE br[n]
  <1>1. Shapes /\ OneLink /\ Sessions /\ Bare  BY InvParts
  <1>2. Keeps(ses[n], s)  BY <1>1, BondedTyped, SyncKeeps
  <1>3. b \in Bridge /\ (real[n] = "gone" => b.status = "none")
    BY <1>1, BondedTyped, NoBridgeTyped
  <1>4. /\ SetSession(n, s) /\ SetBridge(n, b) /\ Refresh(n, real[n]) /\ Wake(n)
        /\ dev' = [dev EXCEPT ![n] = real[n]] /\ UNCHANGED <<real, bond, sub, task, pass, spent, crossed>>
    BY DEF Notice
  <1> HIDE DEF s, b
  <1>5. Sessions'  BY <1>1, <1>2, <1>4, CarefulStill, SessionKept
  <1>6. top' \in [Node -> Import] /\ (~Linked => \A m \in Node : top'[m] # "on")
    BY <1>1, <1>4, RefreshTyped
  <1>7. OneLink'  BY <1>1, <1>4, <1>6 DEF OneLink, Linked
  <1>8. Bare'  BY <1>1, <1>3, <1>4 DEF Shapes, Bare, SetBridge
  <1>9. Shapes'  BY <1>1, <1>3, <1>4, <1>6, WakeTyped DEF Shapes, SetBridge
  <1> QED  BY <1>5, <1>7, <1>8, <1>9, InvPartsNext

LEMMA SeenInv ==
    ASSUME LinkInv, NEW n \in Node, Seen(n) PROVE LinkInv'
  <1>1. Shapes /\ OneLink /\ Sessions /\ Bare  BY InvParts
  <1>2. Keeps(ses[n], SyncIdle(ses[n], bond[n]))  BY <1>1, BondedTyped, SyncIdleKeeps
  <1>3. Sessions'  BY <1>1, <1>2, CarefulStill, SessionKept DEF Seen
  <1>4. Shapes'  BY <1>1, WakeTyped DEF Shapes, Seen
  <1>5. OneLink' /\ Bare'  BY <1>1 DEF OneLink, Linked, Bare, Seen
  <1> QED  BY <1>3, <1>4, <1>5, InvPartsNext

LEMMA ReportInv ==
    ASSUME LinkInv, NEW n \in Node, NEW d \in Device, d # "gone", Live(d) = Live(real[n]), Report(n, d),
           UNCHANGED <<bond, br, sub, task, pass, crossed>>, Spend \/ UNCHANGED spent
    PROVE  LinkInv'
  <1>1. Shapes /\ OneLink /\ Sessions /\ Bare  BY InvParts
  <1> DEFINE s == Sync(ses[n], br[n], d, bond[n])
  <1>2. Keeps(ses[n], s)  BY <1>1, BondedTyped, SyncKeeps
  <1>3. /\ SetSession(n, s) /\ Refresh(n, d) /\ Wake(n)
        /\ real' = [real EXCEPT ![n] = d] /\ dev' = [dev EXCEPT ![n] = d]
    BY DEF Report
  <1> HIDE DEF s
  <1>5. top' \in [Node -> Import] /\ (~Linked => \A m \in Node : top'[m] # "on")
    BY <1>1, <1>3, RefreshTyped
  <1>6. \A m \in Node : Live(real'[m]) = Live(real[m])  BY <1>1, <1>3 DEF Shapes
  <1>7. 1 \in Node /\ 2 \in Node  BY DEF Node
  <1>12. Careful  BY <1>6, <1>7, CarefulIf DEF Linked
  <1>4. Sessions'  BY <1>1, <1>2, <1>3, <1>12, SessionKept
  <1>8. OneLink'  BY <1>1, <1>5, <1>6, <1>7 DEF OneLink, Linked
  <1>9. Bare'  BY <1>1, <1>3 DEF Shapes, Bare
  <1>10. wake' \in [Node -> BOOLEAN] /\ spent' \in 0..MaxFaults  BY <1>1, <1>3, WakeTyped, SpendTyped
  <1>11. Shapes'  BY <1>1, <1>3, <1>5, <1>10 DEF Shapes
  <1> QED  BY <1>4, <1>8, <1>9, <1>11, InvPartsNext

LEMMA DiscoverInv ==
    ASSUME LinkInv, NEW n \in Node, Discover(n) PROVE LinkInv'
  <1>1. "idle" \in Device /\ Live("idle") = Live(real[n])  BY DEF Discover, Device, Live
  <1> QED  BY <1>1, ReportInv DEF Discover

LEMMA ResolveInv ==
    ASSUME LinkInv, NEW n \in Node, Resolve(n) PROVE LinkInv'
  <1>1. "res" \in Device /\ Live("res") = Live(real[n])  BY DEF Resolve, Device, Live
  <1> QED  BY <1>1, ReportInv DEF Resolve

LEMMA RediscoveryInv ==
    ASSUME LinkInv, NEW n \in Node, Rediscovery(n) PROVE LinkInv'
  <1>1. "conn" \in Device /\ Live("conn") = Live(real[n])  BY DEF Rediscovery, Device, Live
  <1> QED  BY <1>1, ReportInv DEF Rediscovery

\* A repair is asked for over a link that cannot be encrypted.
LEMMA AuthFailInv ==
    ASSUME LinkInv, NEW n \in Node, AuthFail(n) PROVE LinkInv'
  <1>1. Shapes /\ OneLink /\ Sessions /\ Bare  BY InvParts
  <1> DEFINE a == Ask(ses[n])
             s == IF ses[n].repair = "no" THEN [a EXCEPT !.inbound = FALSE] ELSE ses[n]
  <1>2. ses[n] \in Session /\ ses[n].fails # 3  BY <1>1 DEF Sessions
  <1>3. a \in Session /\ a.fails # 3  BY <1>2, AskShape
  <1>4. SetSession(n, s) /\ bond' = bond /\ ~Matched /\ LinkEnds /\ Wake(n)
        /\ UNCHANGED <<dev, br, task, pass, spent, crossed>>
    BY DEF AuthFail
  <1> HIDE DEF a
  <1>5. [a EXCEPT !.inbound = FALSE] \in Session  BY <1>3 DEF Session
  <1>6. [a EXCEPT !.inbound = FALSE].fails # 3  BY <1>3 DEF Session
  <1>7. s \in Session /\ s.fails # 3  BY <1>2, <1>5, <1>6
  <1> HIDE DEF s
  <1>9. /\ real' \in [Node -> Device] /\ sub' \in [Node -> Subscription] /\ top' \in [Node -> Import]
        /\ OneLink' /\ ~Linked'
    BY <1>1, <1>4, LinkEndsTyped
  <1>12. \A m \in Node : ~Endangered(m)'  BY <1>4, <1>9 DEF Endangered, Matched
  <1>8. Sessions'  BY <1>1, <1>4, <1>7, <1>12, SessionSet
  <1>10. Shapes'  BY <1>1, <1>4, <1>9, WakeTyped DEF Shapes
  <1>11. Bare'  BY <1>1, <1>4 DEF Bare
  <1> QED  BY <1>8, <1>9, <1>10, <1>11, InvPartsNext

-----------------------------------------------------------------------------
(* Passes                                                                   *)

LEMMA LeftInv ==
    ASSUME LinkInv, NEW n \in Node, NEW v, Left(n, v), v.sub \in Subscription, v.top \in Import,
           ~Linked => v.sub = "off" /\ v.top # "on", UNCHANGED <<real, dev, bond, spent, crossed>>
    PROVE  LinkInv'
  <1>1. Shapes /\ OneLink /\ Sessions /\ Bare  BY InvParts
  <1>2. PICK s \in Session, b \in Bridge, u \in {v.sub, "off"}, i \in {v.top, "off"},
             t \in Onward(n), p \in Pass, w \in BOOLEAN :
             /\ Keeps(ses[n], s) /\ (dev[n] = "gone" => b.status = "none")
             /\ SetSession(n, s) /\ SetBridge(n, b)
             /\ sub' = [sub EXCEPT ![n] = u] /\ top' = [top EXCEPT ![n] = i]
             /\ task' = [task EXCEPT ![n] = t] /\ pass' = [pass EXCEPT ![n] = p]
             /\ wake' = [wake EXCEPT ![n] = w]
    BY DEF Left
  <1>3. u \in Subscription /\ i \in Import /\ (~Linked => u = "off" /\ i # "on")
    BY DEF Subscription, Import
  <1>8. t \in PeerTask /\ (t = "admitted" => task[n] = "admitted")
    BY <1>1 DEF Onward, Shapes
  <1>9. \A m \in Node : task'[m] = "admitted" => task[m] = "admitted"
    BY <1>1, <1>2, <1>8 DEF Shapes
  <1>10. Careful  BY <1>9, CarefulIf DEF Linked
  <1>4. Sessions'  BY <1>1, <1>2, <1>10, SessionKept
  <1>5. br' \in [Node -> Bridge] /\ Bare'  BY <1>1, <1>2, BridgeSet
  <1>6. OneLink'  BY <1>1, <1>2, <1>3 DEF Shapes, OneLink, Linked
  <1>7. Shapes'  BY <1>1, <1>2, <1>3, <1>5, <1>8 DEF Shapes
  <1> QED  BY <1>4, <1>5, <1>6, <1>7, InvPartsNext

\* However stale the device is that a pass goes on with.
LEMMA ViewNarrows ==
    ASSUME LinkInv, NEW n \in Node, NEW d \in Device, NEW bonded \in BOOLEAN, NEW v, v = View(n, d, bonded)
    PROVE  /\ Narrows(n, v, v)
           /\ v.sub \in Subscription /\ v.top \in Import /\ v.sub \in {sub[n], "off"}
           /\ ~Linked => v.sub = "off" /\ v.top # "on"
  <1>1. Shapes /\ OneLink /\ Sessions /\ Bare  BY InvParts
  <1> DEFINE keep == Hosts(n, d, bonded)
             b == IF keep THEN br[n] ELSE NoBridge
             u == IF keep \/ br[n].status = "none" THEN sub[n] ELSE "off"
             i == Imports(top[n], keep, Healthy(n, d))
  <1>2. v = [dev |-> d, bonded |-> bonded, br |-> b, sub |-> u, top |-> i, wake |-> FALSE]
    BY DEF View
  <1>3. b \in Bridge /\ (dev[n] = "gone" => b.status = "none")
    BY <1>1, BondedTyped, NoBridgeTyped DEF Bare
  <1>4. u \in Subscription /\ u \in {sub[n], "off"} /\ (~Linked => u = "off")
    BY <1>1 DEF Shapes, OneLink, Subscription
  <1>5. i \in Import /\ (i = "on" => top[n] = "on" \/ Healthy(n, d))
    BY <1>1, ImportsTyped DEF Shapes
  <1>6. ~Linked => i # "on"  BY <1>1, <1>5, LinkedAt DEF OneLink, Healthy
  <1> HIDE DEF b, u, i
  <1>7. v \in ViewRecord  BY <1>2, <1>3, <1>4, <1>5 DEF ViewRecord
  <1>8. v.br = b /\ v.sub = u /\ v.top = i  BY <1>2
  <1> QED  BY <1>3, <1>4, <1>5, <1>6, <1>7, <1>8 DEF Narrows

LEMMA QuickPassInv ==
    ASSUME LinkInv, NEW n \in Node, QuickPass(n) PROVE LinkInv'
  <1> DEFINE v == View(n, dev[n], bond[n])
  <1>1. Shapes /\ Sessions  BY InvParts
  <1>2. /\ dev[n] \in Device /\ bond[n] \in BOOLEAN /\ ses[n] \in Session /\ task[n] \in PeerTask
    BY <1>1, BondedTyped
  <1>3. /\ Narrows(n, v, v) /\ v.sub \in Subscription /\ v.top \in Import
        /\ ~Linked => v.sub = "off" /\ v.top # "on"
    BY <1>2, ViewNarrows
  <1>4. Branch(n, v) /\ UNCHANGED <<real, dev, bond, spent, crossed>>  BY DEF QuickPass
  <1> HIDE DEF v
  <1>5. Left(n, v)  BY <1>2, <1>3, <1>4, BranchLeft
  <1> QED  BY <1>3, <1>4, <1>5, LeftInv

LEMMA LookInv ==
    ASSUME LinkInv, NEW n \in Node, Look(n) PROVE LinkInv'
  <1>1. Shapes /\ OneLink /\ Sessions /\ Bare  BY InvParts
  <1>2. dev[n] \in Device /\ bond[n] \in BOOLEAN  BY <1>1, BondedTyped
  <1>3. [NoPass EXCEPT !.at = "clear", !.dev = dev[n], !.bonded = bond[n]] \in Pass
    BY <1>2 DEF NoPass, Pass
  <1>4. Shapes'  BY <1>1, <1>3 DEF Shapes, Look
  <1>5. OneLink' /\ Bare'  BY <1>1 DEF OneLink, Linked, Bare, Look
  <1>6. Sessions'  BY <1>1, CarefulStill, SessionsStay DEF Look
  <1> QED  BY <1>4, <1>5, <1>6, InvPartsNext

LEMMA ClearInv ==
    ASSUME LinkInv, NEW n \in Node, Clear(n) PROVE LinkInv'
  <1> DEFINE v == View(n, pass[n].dev, pass[n].bonded)
             stop == "late" \in Odd /\ top[n] = "on" /\ v.top = "off"
             p == [pass[n] EXCEPT !.at = "act", !.stop = stop]
  <1>1. Shapes /\ OneLink /\ Sessions /\ Bare  BY InvParts
  <1>2. pass[n] \in Pass /\ pass[n].dev \in Device /\ pass[n].bonded \in BOOLEAN
    BY <1>1 DEF Shapes, Pass
  <1>3. /\ Narrows(n, v, v) /\ v.sub \in Subscription /\ v.top \in Import
        /\ ~Linked => v.sub = "off" /\ v.top # "on"
    BY <1>2, ViewNarrows
  <1>4. /\ SetBridge(n, v.br) /\ sub' = [sub EXCEPT ![n] = v.sub] /\ top' = [top EXCEPT ![n] = v.top]
        /\ pass' = [pass EXCEPT ![n].at = "act", ![n].stop = stop]
        /\ UNCHANGED <<real, dev, bond, ses, task, wake, spent, crossed>>
    BY DEF Clear
  <1>5. stop \in BOOLEAN  OBVIOUS
  <1> HIDE DEF v, stop
  <1>6. p \in Pass  BY <1>2, <1>5 DEF Pass
  <1>7. pass' = [pass EXCEPT ![n] = p]  BY <1>1, <1>2, <1>4 DEF Shapes, Pass
  <1>8. v.br \in Bridge /\ (dev[n] = "gone" => v.br.status = "none")
    BY <1>3 DEF Narrows, ViewRecord
  <1>9. br' \in [Node -> Bridge] /\ Bare'  BY <1>1, <1>4, <1>8, BridgeSet
  <1>10. OneLink'  BY <1>1, <1>3, <1>4 DEF Shapes, OneLink, Linked
  <1>11. Sessions'  BY <1>1, <1>4, CarefulStill, SessionsStay
  <1> HIDE DEF p
  <1>12. pass' \in [Node -> Pass]  BY <1>1, <1>6, <1>7 DEF Shapes
  <1>13. sub' \in [Node -> Subscription] /\ top' \in [Node -> Import]  BY <1>1, <1>3, <1>4 DEF Shapes
  <1>14. UNCHANGED <<real, dev, bond, task, wake, spent, crossed>>  BY <1>4
  <1>15. Shapes'  BY <1>1, <1>9, <1>12, <1>13, <1>14 DEF Shapes
  <1> QED  BY <1>9, <1>10, <1>11, <1>15, InvPartsNext

LEMMA ActInv ==
    ASSUME LinkInv, NEW n \in Node, Act(n) PROVE LinkInv'
  <1> DEFINE i == IF pass[n].stop /\ top[n] = "on" THEN "stopped" ELSE top[n]
             v == [dev |-> pass[n].dev, bonded |-> pass[n].bonded, br |-> br[n], sub |-> sub[n],
                   top |-> i, wake |-> wake[n]]
  <1>1. Shapes /\ OneLink /\ Sessions /\ Bare  BY InvParts
  <1>2. pass[n].dev \in Device /\ pass[n].bonded \in BOOLEAN  BY <1>1 DEF Shapes, Pass
  <1>3. br[n] \in Bridge /\ sub[n] \in Subscription /\ wake[n] \in BOOLEAN /\ i \in Import
    BY <1>1 DEF Shapes, Import
  <1>4. ~Linked => sub[n] = "off" /\ i # "on"  BY <1>1 DEF OneLink
  <1>5. Branch(n, v) /\ UNCHANGED <<real, dev, bond, spent, crossed>>  BY DEF Act
  <1> HIDE DEF i
  <1>6. v \in ViewRecord  BY <1>2, <1>3 DEF ViewRecord
  <1>7. v.br = br[n] /\ v.sub = sub[n] /\ v.top = i  OBVIOUS
  <1> HIDE DEF v
  <1>8. Narrows(n, v, v)  BY <1>1, <1>6, <1>7 DEF Narrows, Bare
  <1>9. Left(n, v)  BY <1>1, <1>5, <1>8, BondedTyped, BranchLeft
  <1> QED  BY <1>3, <1>4, <1>5, <1>7, <1>9, LeftInv

-----------------------------------------------------------------------------
(* StartNotify and the time exchange                                        *)

LEMMA NotifiedInv ==
    ASSUME LinkInv, NEW n \in Node, Notified(n) PROVE LinkInv'
  <1> DEFINE s == [Waiting(ses[n]) EXCEPT !.cool = FALSE]
  <1>1. Shapes /\ OneLink /\ Sessions /\ Bare  BY InvParts
  <1>2. Linked  BY <1>1, LinkedAt DEF Notified
  <1>3. Keeps(ses[n], s)  BY <1>1, BondedTyped, CalmKeeps
  <1>4. SetSession(n, s) /\ EndPass(n) /\ Wake(n)
        /\ UNCHANGED <<real, dev, bond, br, top, task, crossed>>
    BY DEF Notified
  <1> HIDE DEF s
  <1>5. Sessions'  BY <1>1, <1>3, <1>4, CarefulStill, SessionKept
  <1>6. sub' \in [Node -> Subscription]  BY <1>1 DEF Shapes, Notified, Subscription
  <1>7. spent' \in 0..MaxFaults  BY <1>1, SpendTyped DEF Notified
  <1>8. Shapes'  BY <1>1, <1>4, <1>6, <1>7, WakeTyped, EndPassTyped DEF Shapes
  <1>9. OneLink' /\ Bare'  BY <1>1, <1>2, <1>4 DEF OneLink, Linked, Bare
  <1> QED  BY <1>5, <1>8, <1>9, InvPartsNext

\* client_notify_failed: the third failure of a stored key asks for a repair, and
\* without a key the failures are forgotten.
LEMMA FailureCounts ==
    ASSUME LinkInv, NEW n \in Node, NotifyFailed(n)
    PROVE  \E s \in Session : /\ SetSession(n, s) /\ s.fails # 3
                              /\ s.repair # "no" /\ Endangered(n) => crossed'[n]
  <1>1. Shapes /\ OneLink /\ Sessions /\ Bare  BY InvParts
  <1> DEFINE s == ses[n]
             had == br[n].status # "none"
             counted == had /\ (Live(real[n]) /\ ~Matched) /\ ~s.healthy
             more == IF counted THEN s.fails + 1 ELSE s.fails
             waits == Waiting(s)
             up == [waits EXCEPT !.cool = TRUE, !.fails = more]
             t == IF ~had THEN s ELSE up
             zero == [t EXCEPT !.fails = 0]
             u == IF counted /\ t.fails = 3 /\ bond[n] THEN Ask(zero) ELSE t
             x == IF dev[n] = "gone" THEN u ELSE Sync(u, br[n], dev[n], bond[n])
             asks == u.repair # s.repair
  <1>2. /\ s \in Session /\ s.fails \in 0..2
        /\ s.repair # "no" /\ Endangered(n) => crossed[n]
        /\ br[n] \in Bridge /\ dev[n] \in Device /\ bond[n] \in BOOLEAN
    BY <1>1 DEF Sessions, Shapes, Session
  <1>3. counted => dev[n] # "gone" /\ ~Matched  BY <1>1 DEF Bare
  <1>4. more \in 0..3 /\ (~counted => more # 3)  BY <1>2
  <1>5. waits \in Session /\ waits.repair = s.repair /\ waits.fails = s.fails
    <2>1. waits \in Session  BY <1>2, WaitingKeeps DEF Keeps
    <2>2. waits.repair = s.repair  BY <1>2 DEF Waiting, Session
    <2>3. waits.fails = s.fails  BY <1>2 DEF Waiting, Session
    <2> QED  BY <2>1, <2>2, <2>3
  <1>6. SetSession(n, Waiting(x))
    BY <1>5 DEF NotifyFailed
  <1>16. crossed' = [crossed EXCEPT ![n] = @ \/ (asks /\ task[Other(n)] = "admitted")]
    BY <1>5 DEF NotifyFailed
  <1>17. crossed'[n] = (crossed[n] \/ (asks /\ task[Other(n)] = "admitted"))
    BY <1>1, <1>16 DEF Shapes
  <1> HIDE DEF had, counted, more, waits
  <1>7. up \in Session  BY <1>4, <1>5 DEF Session
  <1>8. up.fails = more /\ up.repair = s.repair  BY <1>5 DEF Session
  <1> HIDE DEF up
  <1>9. t \in Session /\ (~counted => t.fails # 3) /\ t.repair = s.repair
    BY <1>2, <1>4, <1>7, <1>8
  <1> HIDE DEF t, s
  <1>10. zero \in Session  BY <1>9 DEF Session
  <1>11. zero.fails = 0  BY <1>9 DEF Session
  <1> HIDE DEF zero
  <1>12. u \in Session /\ (asks => ~Matched) /\ (u.fails = 3 => counted /\ ~bond[n])
    <2>1. CASE counted /\ t.fails = 3 /\ bond[n]
      <3>1. u = Ask(zero)  BY <2>1
      <3>2. Ask(zero) \in Session /\ Ask(zero).fails = 0  BY <1>10, <1>11, AskShape
      <3> QED  BY <1>3, <2>1, <3>1, <3>2
    <2>2. CASE ~(counted /\ t.fails = 3 /\ bond[n])
      BY <1>9, <2>2
    <2> QED  BY <2>1, <2>2
  <1>18. u.repair # "no" /\ Endangered(n) => crossed'[n]
    <2>1. CASE asks
      BY <1>12, <1>17, <2>1 DEF Endangered
    <2>2. CASE ~asks
      BY <1>2, <1>17, <2>2
    <2> QED  BY <2>1, <2>2
  <1> HIDE DEF u
  <1>13. Keeps(u, x) /\ x.fails # 3
    <2>1. CASE dev[n] = "gone"
      BY <1>3, <1>12, <2>1, KeepsItself
    <2>2. CASE dev[n] # "gone"
      <3>1. Keeps(u, x) /\ (~bond[n] => x.fails = 0)  BY <1>2, <1>12, <2>2, SyncKeeps
      <3> QED  BY <1>12, <3>1 DEF Keeps
    <2> QED  BY <2>1, <2>2
  <1> HIDE DEF x
  <1>14. x \in Session  BY <1>13 DEF Keeps
  <1>15. Keeps(x, Waiting(x))  BY <1>14, WaitingKeeps
  <1> QED  BY <1>6, <1>13, <1>15, <1>18 DEF Keeps

LEMMA NotifyFailedInv ==
    ASSUME LinkInv, NEW n \in Node, NotifyFailed(n) PROVE LinkInv'
  <1> DEFINE had == br[n].status # "none"
             i == Imports(IF had THEN "off" ELSE top[n], Hosts(n, dev[n], bond[n]), Healthy(n, dev[n]))
  <1>1. Shapes /\ OneLink /\ Sessions /\ Bare  BY InvParts
  <1>2. /\ EndPass(n) /\ SetBridge(n, NoBridge) /\ top' = [top EXCEPT ![n] = i] /\ Wake(n)
        /\ UNCHANGED <<real, dev, bond, sub, task>> /\ (Spend \/ UNCHANGED spent)
    BY DEF NotifyFailed
  <1>10. /\ crossed' \in [Node -> BOOLEAN]
         /\ \A m \in Node \ {n} : crossed'[m] = crossed[m]
    <2> DEFINE c == crossed'[n]
    <2>1. crossed' = [crossed EXCEPT ![n] = c] /\ c \in BOOLEAN  BY <1>1 DEF NotifyFailed, Shapes
    <2> HIDE DEF c
    <2> QED  BY <1>1, <2>1 DEF Shapes
  <1>11. \A m \in Node : Endangered(m)' <=> Endangered(m)
    BY <1>2 DEF Endangered, Matched, Linked
  <1>3. Sessions'  BY <1>1, <1>2, <1>10, <1>11, FailureCounts, SessionSet
  <1>4. br' \in [Node -> Bridge] /\ Bare'  BY <1>1, <1>2, NoBridgeTyped, BridgeSet
  <1>5. i \in Import /\ (i = "on" => top[n] = "on" \/ Healthy(n, dev[n]))
    <2> DEFINE t == IF had THEN "off" ELSE top[n]
    <2>1. t \in Import /\ (t = "on" => top[n] = "on")  BY <1>1 DEF Shapes, Import
    <2> HIDE DEF t
    <2>2. Imports(t, Hosts(n, dev[n], bond[n]), Healthy(n, dev[n])) = i  BY DEF t
    <2> QED  BY <2>1, <2>2, ImportsTyped
  <1>6. ~Linked => i # "on"  BY <1>1, <1>5, LinkedAt DEF OneLink, Healthy
  <1> HIDE DEF i
  <1>7. OneLink'  BY <1>1, <1>2, <1>6 DEF Shapes, OneLink, Linked
  <1>8. spent' \in 0..MaxFaults  BY <1>1, <1>2, SpendTyped
  <1>9. Shapes'  BY <1>1, <1>2, <1>4, <1>5, <1>8, <1>10, WakeTyped, EndPassTyped DEF Shapes
  <1> QED  BY <1>3, <1>4, <1>7, <1>9, InvPartsNext

\* A message completes its half of the bridge of a device that the node has a
\* record of.
LEMMA ReceiveInv ==
    ASSUME LinkInv, NEW n \in Node, NEW b \in Bridge, Receive(n, b),
           UNCHANGED <<real, dev, bond, task, pass, wake, spent, crossed>>
    PROVE  LinkInv'
  <1>1. Shapes /\ OneLink /\ Sessions /\ Bare  BY InvParts
  <1>2. CASE ~Hosts(n, dev[n], bond[n])
    <2>1. /\ SetBridge(n, NoBridge) /\ top' = [top EXCEPT ![n] = "off"] /\ ses' = ses
          /\ sub' = [sub EXCEPT ![n] = IF br[n].status = "none" THEN @ ELSE "off"]
      BY <1>2 DEF Receive
    <2>2. br' \in [Node -> Bridge] /\ Bare'  BY <1>1, <2>1, NoBridgeTyped, BridgeSet
    <2>3. OneLink'  BY <1>1, <2>1 DEF Shapes, OneLink, Linked
    <2>4. Sessions'  BY <1>1, <2>1, CarefulStill, SessionsStay
    <2>5. Shapes'  BY <1>1, <2>1, <2>2 DEF Shapes, Subscription, Import
    <2> QED  BY <2>2, <2>3, <2>4, <2>5, InvPartsNext
  <1>3. CASE Hosts(n, dev[n], bond[n])
    <2> DEFINE s == Received(n, b)
               m == Marked(b)
    <2>1. SetBridge(n, m) /\ SetSession(n, s) /\ UNCHANGED <<sub, top>>  BY <1>3 DEF Receive
    <2>2. ses[n] \in Session  BY <1>1 DEF Sessions
    <2>3. Keeps(ses[n], s)
      <3> DEFINE t == [ses[n] EXCEPT !.healthy = TRUE, !.wait = "no", !.fails = 0]
      <3>1. SameFields(ses[n], t)  BY <2>2 DEF SameFields, Session
      <3>2. FieldsTyped(t)  BY <2>2 DEF FieldsTyped, Session
      <3>3. AsksNothing(ses[n], t)  BY <2>2 DEF AsksNothing, Session
      <3>4. Keeps(ses[n], t)  BY <2>2, <3>1, <3>2, <3>3, KeepsByFields
      <3>5. s \in {t, Waiting(ses[n])}  BY DEF Received
      <3> HIDE DEF t, s
      <3> QED  BY <2>2, <3>4, <3>5, WaitingKeeps
    <2>4. m \in Bridge  BY DEF Marked, Bridge
    <2>5. dev[n] # "gone"  BY <1>3 DEF Hosts, Preserved
    <2> HIDE DEF s, m
    <2>6. br' \in [Node -> Bridge] /\ Bare'  BY <1>1, <2>1, <2>4, <2>5, BridgeSet
    <2>7. Sessions'  BY <1>1, <2>1, <2>3, CarefulStill, SessionKept
    <2>8. OneLink'  BY <1>1, <2>1 DEF OneLink, Linked
    <2>9. Shapes'  BY <1>1, <2>1, <2>6 DEF Shapes
    <2> QED  BY <2>6, <2>7, <2>8, <2>9, InvPartsNext
  <1> QED  BY <1>2, <1>3

LEMMA NotificationInv ==
    ASSUME LinkInv, NEW n \in Node, Notification(n) PROVE LinkInv'
  <1>1. br[n] \in Bridge  BY InvParts, BondedTyped
  <1>2. [br[n] EXCEPT !.in = TRUE] \in Bridge  BY <1>1 DEF Bridge
  <1> QED  BY <1>2, ReceiveInv DEF Notification

LEMMA WritebackInv ==
    ASSUME LinkInv, NEW n \in Node, Writeback(n) PROVE LinkInv'
  <1>1. br[n] \in Bridge  BY InvParts, BondedTyped
  <1>2. [br[n] EXCEPT !.out = TRUE] \in Bridge  BY <1>1 DEF Bridge
  <1> QED  BY <1>2, ReceiveInv DEF Writeback

-----------------------------------------------------------------------------
(* Peer tasks                                                               *)

LEMMA EndTaskTyped ==
    ASSUME Shapes, NEW n \in Node, EndTask(n)
    PROVE  /\ task' \in [Node -> PeerTask] /\ wake' \in [Node -> BOOLEAN]
           /\ \A m \in Node : task'[m] = "admitted" => task[m] = "admitted"
  <1>1. "none" \in PeerTask  BY DEF PeerTask
  <1> QED  BY <1>1, StartTyped, WakeTyped DEF EndTask

LEMMA ConnectedInv ==
    ASSUME LinkInv, NEW n \in Node, Connected(n) PROVE LinkInv'
  <1>1. Shapes /\ OneLink /\ Sessions /\ Bare  BY InvParts
  <1>2. /\ EndTask(n) /\ (Spend \/ UNCHANGED spent) /\ real' = [m \in Node |-> "conn"]
        /\ UNCHANGED <<dev, bond, ses, br, sub, top, pass, crossed>>
    BY DEF Connected
  <1>3. Shapes'  BY <1>1, <1>2, EndTaskTyped, SpendTyped DEF Shapes, Device
  <1>4. OneLink'  BY <1>2 DEF OneLink, Linked, Live, Node
  <1>5. task[n] # "admitted" /\ task[Other(n)] # "admitted"  BY DEF Connected, Settled
  <1>6. \A m \in Node : task'[m] # "admitted"
    <2>1. \A m \in Node : task[m] # "admitted"  BY <1>5 DEF Node, Other
    <2> QED  BY <1>1, <1>2, <2>1, EndTaskTyped
  <1>7. Careful
    <2>1. \A m \in Node : Other(m) \in Node  BY DEF Node, Other
    <2> QED  BY <1>2, <1>6, <2>1 DEF Careful, Endangered, Matched
  <1>8. Sessions' /\ Bare'  BY <1>1, <1>2, <1>7, SessionsStay DEF Bare
  <1> QED  BY <1>3, <1>4, <1>8, InvPartsNext

LEMMA ConnectEndsInv ==
    ASSUME LinkInv, NEW n \in Node, ConnectEnds(n) PROVE LinkInv'
  <1>1. Shapes /\ OneLink /\ Sessions /\ Bare  BY InvParts
  <1>2. /\ EndTask(n) /\ (Spend \/ UNCHANGED spent)
        /\ UNCHANGED <<real, dev, bond, ses, br, sub, top, pass, crossed>>
    BY DEF ConnectEnds
  <1>3. Shapes'  BY <1>1, <1>2, EndTaskTyped, SpendTyped DEF Shapes
  <1>4. OneLink' /\ Bare'  BY <1>1, <1>2 DEF OneLink, Linked, Bare
  <1>5. Careful  BY <1>1, <1>2, EndTaskTyped, CarefulIf DEF Linked
  <1>6. Sessions'  BY <1>1, <1>2, <1>5, SessionsStay
  <1> QED  BY <1>3, <1>4, <1>6, InvPartsNext

\* A link or nothing ends.
LEMMA DropInv ==
    ASSUME LinkInv, task' \in [Node -> PeerTask], wake' \in [Node -> BOOLEAN],
           \A m \in Node : task'[m] = "admitted" => task[m] = "admitted",
           LinkEnds \/ UNCHANGED <<real, sub, top>>, UNCHANGED <<dev, bond, ses, br, pass, crossed>>,
           Spend \/ UNCHANGED spent
    PROVE  LinkInv'
  <1>1. Shapes /\ OneLink /\ Sessions /\ Bare  BY InvParts
  <1>2. real' \in [Node -> Device] /\ sub' \in [Node -> Subscription] /\ top' \in [Node -> Import]
    BY <1>1, LinkEndsTyped DEF Shapes
  <1>3. OneLink'
    <2>1. CASE LinkEnds
      BY <1>1, <2>1, LinkEndsTyped
    <2>2. CASE UNCHANGED <<real, sub, top>>
      BY <1>1, <2>2 DEF OneLink, Linked
    <2> QED  BY <2>1, <2>2
  <1>4. Shapes'  BY <1>1, <1>2, SpendTyped DEF Shapes
  <1>5. Linked' => Linked  BY <1>1, LinkEndsTyped DEF Linked
  <1>6. Sessions' /\ Bare'  BY <1>1, <1>5, CarefulIf, SessionsStay DEF Bare
  <1> QED  BY <1>3, <1>4, <1>6, InvPartsNext

LEMMA ResetLinkInv ==
    ASSUME LinkInv, NEW n \in Node, ResetLink(n) PROVE LinkInv'
  <1>1. Shapes  BY InvParts
  <1>2. "remove" \in PeerTask  BY DEF PeerTask
  <1>3. /\ task' \in [Node -> PeerTask] /\ wake' \in [Node -> BOOLEAN]
        /\ \A m \in Node : task'[m] = "admitted" => task[m] = "admitted"
    BY <1>1, <1>2, EndTaskTyped, StartTyped DEF ResetLink, Shapes
  <1>4. LinkEnds \/ UNCHANGED <<real, sub, top>>  BY DEF ResetLink
  <1>5. UNCHANGED <<dev, bond, ses, br, pass, spent, crossed>>  BY DEF ResetLink
  <1> QED  BY <1>3, <1>4, <1>5, DropInv

LEMMA DropLinkInv ==
    ASSUME LinkInv, NEW n \in Node, DropLink(n) PROVE LinkInv'
  <1>1. Shapes  BY InvParts
  <1>2. /\ task' \in [Node -> PeerTask] /\ wake' \in [Node -> BOOLEAN]
        /\ \A m \in Node : task'[m] = "admitted" => task[m] = "admitted"
    BY <1>1, EndTaskTyped DEF DropLink
  <1>3. LinkEnds \/ UNCHANGED <<real, sub, top>>  BY DEF DropLink
  <1>4. UNCHANGED <<dev, bond, ses, br, pass, spent, crossed>>  BY DEF DropLink
  <1> QED  BY <1>2, <1>3, <1>4, DropInv

LEMMA LinkLostInv ==
    ASSUME LinkInv, LinkLost PROVE LinkInv'
  <1>1. Shapes  BY InvParts
  <1>2. task' \in [Node -> PeerTask] /\ wake' \in [Node -> BOOLEAN]  BY <1>1 DEF LinkLost, Shapes
  <1> QED  BY <1>2, DropInv DEF LinkLost

\* A side that agrees to a pairing wants no repair.
LEMMA AdmittedInv ==
    ASSUME LinkInv, NEW n \in Node, Admitted(n) PROVE LinkInv'
  <1> DEFINE o == Other(n)
             s == Asked(o)
             told == Confirming(s, bond[o])
  <1>1. Shapes /\ OneLink /\ Sessions /\ Bare  BY InvParts
  <1>2. o \in Node /\ o # n /\ Other(o) = n  BY DEF Node, Other
  <1>3. /\ Start(n, "admitted") /\ Wake(o) /\ crossed' = [crossed EXCEPT ![o] = FALSE]
        /\ SetSession(o, told) \/ SetSession(o, s)
        /\ s.repair = "no" /\ UNCHANGED <<real, dev, bond, br, sub, top, pass, spent>>
    BY DEF Admitted, Admits
  <1>4. Keeps(ses[o], s)
    <2>1. ses[o] \in Session /\ br[o] \in Bridge /\ dev[o] \in Device /\ bond[o] \in BOOLEAN
      BY <1>1, <1>2, BondedTyped
    <2> QED  BY <2>1, SyncKeeps, KeepsItself DEF Asked
  <1>5. s \in Session /\ s.fails # 3  BY <1>1, <1>2, <1>4 DEF Keeps, Sessions
  <1> HIDE DEF s
  <1>6. told \in Session /\ told.fails # 3 /\ told.repair = "no"
    <2>1. SameFields(s, told)  BY <1>5 DEF SameFields, Session, Confirming
    <2>2. FieldsTyped(told)  BY <1>5 DEF FieldsTyped, Session, Confirming
    <2>3. told.fails = s.fails /\ told.repair = s.repair  BY <1>5 DEF Session, Confirming
    <2> QED  BY <1>3, <1>5, <2>1, <2>2, <2>3, SessionByFields
  <1> HIDE DEF told
  <1>7. "admitted" \in PeerTask  BY DEF PeerTask
  <1>8. task' \in [Node -> PeerTask] /\ task'[o] = task[o]
    BY <1>1, <1>2, <1>3, <1>7, StartTyped
  <1>9. \A m \in Node \ {o} : m = n  BY <1>2 DEF Node
  <1>10. (Endangered(n)' <=> Endangered(n)) /\ crossed'[n] = crossed[n]
    BY <1>1, <1>2, <1>3, <1>8 DEF Endangered, Matched, Linked, Shapes
  <1>11. Sessions'  BY <1>1, <1>2, <1>3, <1>5, <1>6, <1>9, <1>10, SessionSet
  <1>12. wake' \in [Node -> BOOLEAN] /\ crossed' \in [Node -> BOOLEAN]
    BY <1>1, <1>2, <1>3, WakeTyped DEF Shapes
  <1>13. Shapes'  BY <1>1, <1>3, <1>8, <1>12 DEF Shapes
  <1>14. OneLink' /\ Bare'  BY <1>1, <1>3 DEF OneLink, Linked, Bare
  <1> QED  BY <1>11, <1>13, <1>14, InvPartsNext

\* The flag of a pairing that is over.
LEMMA OwnTyped ==
    ASSUME NEW s \in Session, s.fails # 3
    PROVE  LET t == ClearReset([s EXCEPT !.pairing = FALSE])
           IN Keeps(s, t) /\ t \in Session /\ t.repair = "no" /\ t.fails # 3
  <1> DEFINE own == [s EXCEPT !.pairing = FALSE]
  <1>1. SameFields(s, own)  BY DEF SameFields, Session
  <1>2. FieldsTyped(own)  BY DEF FieldsTyped, Session
  <1>3. AsksNothing(s, own)  BY DEF AsksNothing, Session
  <1>4. Keeps(s, own) /\ own \in Session  BY <1>1, <1>2, <1>3, KeepsByFields DEF Keeps
  <1> HIDE DEF own
  <1>5. Keeps(own, ClearReset(own)) /\ ClearReset(own).repair = "no"  BY <1>4, ClearResetKeeps
  <1>6. Keeps(s, ClearReset(own))  BY <1>4, <1>5, KeepsOn
  <1>7. ClearReset(own) \in Session /\ ClearReset(own).fails # 3  BY <1>6 DEF Keeps
  <1> QED  BY <1>5, <1>6, <1>7 DEF own

LEMMA KnownInv ==
    ASSUME LinkInv, NEW n \in Node, Known(n) PROVE LinkInv'
  <1> DEFINE t == ClearReset([ses[n] EXCEPT !.pairing = FALSE])
  <1>1. Shapes /\ OneLink /\ Sessions /\ Bare  BY InvParts
  <1>2. Keeps(ses[n], t)  BY <1>1, OwnTyped DEF Sessions
  <1>3. /\ SetSession(n, t) /\ EndTask(n)
        /\ UNCHANGED <<real, dev, bond, br, sub, top, pass, spent, crossed>>
    BY DEF Known
  <1> HIDE DEF t
  <1>4. Careful  BY <1>1, <1>3, EndTaskTyped, CarefulIf DEF Linked
  <1>5. Sessions'  BY <1>1, <1>2, <1>3, <1>4, SessionKept
  <1>6. Shapes'  BY <1>1, <1>3, EndTaskTyped DEF Shapes
  <1>7. OneLink' /\ Bare'  BY <1>1, <1>3 DEF OneLink, Linked, Bare
  <1> QED  BY <1>5, <1>6, <1>7, InvPartsNext

\* The other side wants a repair only if it has asked for it since it agreed, and
\* the attempt of the first ends its own.
LEMMA PairedSessions ==
    ASSUME Shapes, Sessions, NEW n \in Node, Paired(n) PROVE Sessions'
  <1> DEFINE o == Other(n)
             own == ClearReset([ses[n] EXCEPT !.pairing = FALSE])
             first(m) == IF m = n THEN own ELSE ses[m]
             last(m) == IF dev[m] = "gone" THEN first(m) ELSE Sync(first(m), br[m], dev[m], TRUE)
  <1>1. \A m \in Node : ses[m] \in Session /\ ses[m].fails # 3  BY DEF Sessions
  <1>2. ses' = [m \in Node |-> last(m)]  BY DEF Paired
  <1>3. own \in Session /\ own.repair = "no" /\ own.fails # 3  BY <1>1, OwnTyped
  <1> HIDE DEF own
  <1>4. ASSUME NEW m \in Node
        PROVE  /\ ses'[m] \in Session /\ ses'[m].fails # 3
               /\ ses'[m].repair # "no" => m # n /\ ses[m].repair # "no"
    <2> DEFINE f == first(m)
    <2>1. f \in Session /\ f.fails # 3 /\ (f.repair # "no" => m # n /\ ses[m].repair # "no")
      BY <1>1, <1>3
    <2>2. br[m] \in Bridge /\ dev[m] \in Device  BY BondedTyped
    <2>3. ses'[m] \in {f, Sync(f, br[m], dev[m], TRUE)}  BY <1>2
    <2> HIDE DEF f
    <2>4. Keeps(f, f) /\ Keeps(f, Sync(f, br[m], dev[m], TRUE))
      BY <2>1, <2>2, SyncKeeps, KeepsItself
    <2>5. Keeps(f, ses'[m])  BY <2>3, <2>4
    <2> QED  BY <2>1, <2>5 DEF Keeps
  <1>5. ses' \in [Node -> Session]  BY <1>2, <1>4
  <1>6. o \in Node /\ Other(o) = n /\ \A m \in Node : m = n \/ m = o  BY DEF Node, Other
  <1>7. Endangered(o) /\ crossed' = crossed  BY <1>6 DEF Paired, Endangered
  <1>8. ses[o].repair # "no" => crossed[o]  BY <1>6, <1>7 DEF Sessions
  <1> QED  BY <1>4, <1>5, <1>6, <1>7, <1>8 DEF Sessions

LEMMA PairedInv ==
    ASSUME LinkInv, NEW n \in Node, Paired(n) PROVE LinkInv'
  <1>1. Shapes /\ OneLink /\ Sessions /\ Bare  BY InvParts
  <1>2. Sessions'  BY <1>1, PairedSessions
  <1>3. /\ Start(n, "none") /\ wake' = [m \in Node |-> TRUE] /\ Linked
        /\ bond' = [m \in Node |-> TRUE] /\ (Spend \/ UNCHANGED spent)
        /\ top' = [m \in Node |-> IF dev[m] = "gone" THEN top[m]
                                  ELSE Imports(top[m], Hosts(m, dev[m], TRUE), TRUE)]
        /\ UNCHANGED <<real, dev, br, sub, pass, crossed>>
    BY DEF Paired
  <1>4. top' \in [Node -> Import]
    <2>1. \A m \in Node : top[m] \in Import /\ Imports(top[m], Hosts(m, dev[m], TRUE), TRUE) \in Import
      BY <1>1, ImportsTyped DEF Shapes
    <2> QED  BY <1>3, <2>1
  <1>5. "none" \in PeerTask  BY DEF PeerTask
  <1>6. task' \in [Node -> PeerTask] /\ spent' \in 0..MaxFaults
    BY <1>1, <1>3, <1>5, StartTyped, SpendTyped
  <1>7. bond' \in [Node -> BOOLEAN] /\ wake' \in [Node -> BOOLEAN]  BY <1>3
  <1>8. Shapes'  BY <1>1, <1>3, <1>4, <1>6, <1>7 DEF Shapes
  <1>9. OneLink'  BY <1>1, <1>3 DEF OneLink, Linked
  <1>10. Bare'  BY <1>1, <1>3 DEF Bare
  <1> QED  BY <1>2, <1>8, <1>9, <1>10, InvPartsNext

LEMMA PairFailedInv ==
    ASSUME LinkInv, NEW n \in Node, PairFailed(n) PROVE LinkInv'
  <1> DEFINE o == Other(n)
             own == PairFailure(ses[n])
             kept == {ses[o], Cancelling(ses[o]), Asked(o)}
  <1>1. Shapes /\ OneLink /\ Sessions /\ Bare  BY InvParts
  <1>2. o \in Node /\ o # n /\ Other(o) = n /\ Other(n) = o /\ \A m \in Node : m = n \/ m = o
    BY DEF Node, Other
  <1>3. PICK s \in kept : ses' = [ses EXCEPT ![n] = own, ![o] = s]  BY DEF PairFailed
  <1>4. /\ Start(n, "none") /\ ~bond[n] /\ (Spend \/ UNCHANGED spent)
        /\ wake' = [m \in Node |-> wake[m] \/ m = n \/ ses'[o] # ses[o]]
        /\ crossed' = [crossed EXCEPT ![o] = FALSE]
        /\ UNCHANGED <<real, dev, bond, br, sub, top, pass>>
    BY DEF PairFailed
  <1>5. /\ ses[n] \in Session /\ ses[o] \in Session /\ br[o] \in Bridge /\ dev[o] \in Device
        /\ bond[o] \in BOOLEAN
    BY <1>1, <1>2, BondedTyped
  <1>6. Keeps(ses[n], own)  BY <1>5, PairFailureKeeps
  <1>7. Keeps(ses[o], s)
    <2> DEFINE t == Cancelling(ses[o])
    <2>1. SameFields(ses[o], t)  BY <1>5 DEF SameFields, Session, Cancelling
    <2>2. FieldsTyped(t)  BY <1>5 DEF FieldsTyped, Session, Cancelling
    <2>3. AsksNothing(ses[o], t)  BY <1>5 DEF AsksNothing, Session, Cancelling
    <2>4. Keeps(ses[o], t)  BY <1>5, <2>1, <2>2, <2>3, KeepsByFields
    <2>5. Keeps(ses[o], Asked(o))  BY <1>5, SyncKeeps, KeepsItself DEF Asked
    <2>6. Keeps(ses[o], ses[o])  BY <1>5, KeepsItself
    <2> QED  BY <2>4, <2>5, <2>6
  <1> HIDE DEF own, kept
  <1>8. "none" \in PeerTask  BY DEF PeerTask
  <1>9. task' \in [Node -> PeerTask] /\ task'[n] = "none" /\ task'[o] = task[o]
    BY <1>1, <1>2, <1>4, <1>8, StartTyped
  <1>10. ~Endangered(o)' /\ (Endangered(n)' => Endangered(n)) /\ crossed'[n] = crossed[n]
    <2>1. ~Matched'  BY <1>4 DEF Matched, Node
    <2>2. ~Endangered(o)'  BY <1>2, <1>9, <2>1 DEF Endangered
    <2>3. Endangered(n)' => Endangered(n)
      BY <1>2, <1>4, <1>9, <2>1 DEF Endangered, Linked
    <2>4. crossed'[n] = crossed[n]  BY <1>1, <1>2, <1>4 DEF Shapes
    <2> QED  BY <2>2, <2>3, <2>4
  <1>11. ses'[n] = own /\ ses'[o] = s  BY <1>1, <1>2, <1>3 DEF Sessions
  <1>12. own \in Session /\ s \in Session  BY <1>6, <1>7 DEF Keeps
  <1>13. ses' \in [Node -> Session]  BY <1>1, <1>3, <1>12 DEF Sessions
  <1>14. own.fails # 3 /\ s.fails # 3 /\ (own.repair # "no" /\ Endangered(n) => crossed[n])
    BY <1>1, <1>2, <1>6, <1>7 DEF Sessions, Keeps
  <1>15. Sessions'  BY <1>2, <1>10, <1>11, <1>13, <1>14 DEF Sessions
  <1>16. wake' \in [Node -> BOOLEAN]
    <2>1. \A m \in Node : (wake[m] \/ m = n \/ ses'[o] # ses[o]) \in BOOLEAN  OBVIOUS
    <2> QED  BY <1>4, <2>1
  <1>17. spent' \in 0..MaxFaults /\ crossed' \in [Node -> BOOLEAN]
    BY <1>1, <1>2, <1>4, SpendTyped DEF Shapes
  <1>18. Shapes'  BY <1>1, <1>4, <1>9, <1>16, <1>17 DEF Shapes
  <1>19. OneLink' /\ Bare'  BY <1>1, <1>4 DEF OneLink, Linked, Bare
  <1> QED  BY <1>15, <1>18, <1>19, InvPartsNext

LEMMA RemoveDeviceInv ==
    ASSUME LinkInv, NEW n \in Node, RemoveDevice(n) PROVE LinkInv'
  <1>1. Shapes /\ OneLink /\ Sessions /\ Bare  BY InvParts
  <1>2. EndTask(n) /\ UNCHANGED <<dev, ses, br, pass, spent>>  BY DEF RemoveDevice
  <1>3. CASE UNCHANGED <<bond, real, sub, top, crossed>>
    BY <1>1, <1>2, <1>3, EndTaskTyped, DropInv DEF RemoveDevice
  <1>4. CASE /\ bond' = [bond EXCEPT ![n] = FALSE]
             /\ real' = [Unlinked(real) EXCEPT ![n] = "gone"]
             /\ sub' = [m \in Node |-> "off"] /\ top' = Lost(top)
             /\ crossed' = [crossed EXCEPT ![n] = FALSE]
    <2> DEFINE r == Unlinked(real)
    <2>1. r \in [Node -> Device] /\ \A m \in Node : ~Live(r[m])  BY <1>1, UnlinkedTyped DEF Shapes
    <2>2. real' = [r EXCEPT ![n] = "gone"]  BY <1>4
    <2> HIDE DEF r
    <2>3. real' \in [Node -> Device] /\ \A m \in Node : ~Live(real'[m])
      BY <2>1, <2>2 DEF Live, Device
    <2>4. top' \in [Node -> Import] /\ \A m \in Node : top'[m] # "on"
      BY <1>1, <1>4, LostTyped DEF Shapes
    <2>5. /\ bond' \in [Node -> BOOLEAN] /\ ~Matched' /\ crossed' \in [Node -> BOOLEAN]
      BY <1>1, <1>4 DEF Shapes, Matched, Node
    <2>6. 1 \in Node /\ 2 \in Node  BY DEF Node
    <2>7. sub' \in [Node -> Subscription] /\ \A m \in Node : sub'[m] = "off"
      BY <1>4 DEF Subscription
    <2>8. OneLink'  BY <2>3, <2>4, <2>6, <2>7 DEF OneLink, Live
    <2>11. \A m \in Node : ~Endangered(m)'  BY <2>3, <2>5, <2>6 DEF Endangered, Linked
    <2>9. Sessions' /\ Bare'  BY <1>1, <1>2, <2>11, SessionsStay DEF Careful, Bare
    <2>10. Shapes'  BY <1>1, <1>2, <2>3, <2>4, <2>5, <2>7, EndTaskTyped DEF Shapes
    <2> QED  BY <2>8, <2>9, <2>10, InvPartsNext
  <1> QED  BY <1>3, <1>4 DEF RemoveDevice

-----------------------------------------------------------------------------
(* Time, and what goes wrong                                                *)

LEMMA GraceEndsInv ==
    ASSUME LinkInv, NEW n \in Node, GraceEnds(n) PROVE LinkInv'
  <1> DEFINE t == [ses[n] EXCEPT !.grace = FALSE]
  <1>1. Shapes /\ OneLink /\ Sessions /\ Bare /\ ses[n] \in Session  BY InvParts DEF Sessions
  <1>2. SameFields(ses[n], t)  BY <1>1 DEF SameFields, Session
  <1>3. FieldsTyped(t)  BY <1>1 DEF FieldsTyped, Session
  <1>4. AsksNothing(ses[n], t)  BY <1>1 DEF AsksNothing, Session
  <1>5. Keeps(ses[n], t)  BY <1>1, <1>2, <1>3, <1>4, KeepsByFields
  <1>6. SetSession(n, t) /\ UNCHANGED <<real, dev, bond, br, sub, top, task, pass, wake, spent, crossed>>
    BY DEF GraceEnds
  <1> HIDE DEF t
  <1>7. Sessions'  BY <1>1, <1>5, <1>6, CarefulStill, SessionKept
  <1>8. Shapes' /\ OneLink' /\ Bare'  BY <1>1, <1>6 DEF Shapes, OneLink, Linked, Bare
  <1> QED  BY <1>7, <1>8, InvPartsNext

LEMMA FallbackDueInv ==
    ASSUME LinkInv, NEW n \in Node, FallbackDue(n) PROVE LinkInv'
  <1> DEFINE t == [ses[n] EXCEPT !.turn = "due"]
  <1>1. Shapes /\ OneLink /\ Sessions /\ Bare /\ ses[n] \in Session  BY InvParts DEF Sessions
  <1>2. SameFields(ses[n], t)  BY <1>1 DEF SameFields, Session
  <1>3. FieldsTyped(t)  BY <1>1 DEF FieldsTyped, Session
  <1>4. AsksNothing(ses[n], t)  BY <1>1 DEF AsksNothing, Session
  <1>5. Keeps(ses[n], t)  BY <1>1, <1>2, <1>3, <1>4, KeepsByFields
  <1>6. SetSession(n, t) /\ UNCHANGED <<real, dev, bond, br, sub, top, task, pass, wake, spent, crossed>>
    BY DEF FallbackDue
  <1> HIDE DEF t
  <1>7. Sessions'  BY <1>1, <1>5, <1>6, CarefulStill, SessionKept
  <1>8. Shapes' /\ OneLink' /\ Bare'  BY <1>1, <1>6 DEF Shapes, OneLink, Linked, Bare
  <1> QED  BY <1>7, <1>8, InvPartsNext

LEMMA WaitEndsInv ==
    ASSUME LinkInv, NEW n \in Node, WaitEnds(n) PROVE LinkInv'
  <1> DEFINE t == [ses[n] EXCEPT !.wait = "up"]
  <1>1. Shapes /\ OneLink /\ Sessions /\ Bare /\ ses[n] \in Session  BY InvParts DEF Sessions
  <1>2. SameFields(ses[n], t)  BY <1>1 DEF SameFields, Session
  <1>3. FieldsTyped(t)  BY <1>1 DEF FieldsTyped, Session
  <1>4. AsksNothing(ses[n], t)  BY <1>1 DEF AsksNothing, Session
  <1>5. Keeps(ses[n], t)  BY <1>1, <1>2, <1>3, <1>4, KeepsByFields
  <1>6. /\ SetSession(n, t) /\ (Spend \/ UNCHANGED spent)
        /\ UNCHANGED <<real, dev, bond, br, sub, top, task, pass, wake, crossed>>
    BY DEF WaitEnds
  <1> HIDE DEF t
  <1>7. Sessions'  BY <1>1, <1>5, <1>6, CarefulStill, SessionKept
  <1>8. Shapes'  BY <1>1, <1>6, SpendTyped DEF Shapes
  <1>9. OneLink' /\ Bare'  BY <1>1, <1>6 DEF OneLink, Linked, Bare
  <1> QED  BY <1>7, <1>8, <1>9, InvPartsNext

LEMMA BondLostInv ==
    ASSUME LinkInv, NEW n \in Node, BondLost(n) PROVE LinkInv'
  <1>1. Shapes /\ OneLink /\ Sessions /\ Bare  BY InvParts
  <1>2. /\ Spend /\ bond' = [bond EXCEPT ![n] = FALSE]
        /\ UNCHANGED <<real, dev, ses, br, sub, top, task, pass, wake, crossed>>
    BY DEF BondLost
  <1>3. bond' \in [Node -> BOOLEAN] /\ (~Matched => ~Matched')
    BY <1>1, <1>2 DEF Shapes, Matched, Node
  <1>7. Careful  BY <1>2, <1>3 DEF Careful, Endangered, Linked
  <1>4. Sessions'  BY <1>1, <1>2, <1>7, SessionsStay
  <1>5. Shapes'  BY <1>1, <1>2, <1>3, SpendTyped DEF Shapes
  <1>6. OneLink' /\ Bare'  BY <1>1, <1>2 DEF OneLink, Linked, Bare
  <1> QED  BY <1>4, <1>5, <1>6, InvPartsNext

LEMMA FreshTyped == Fresh \in Session /\ Fresh.repair = "no" /\ Fresh.fails = 0
  BY DEF Fresh, Session

LEMMA RestartInv ==
    ASSUME LinkInv, NEW n \in Node, Restart(n) PROVE LinkInv'
  <1> DEFINE s == Sync(Fresh, NoBridge, real[n], bond[n])
  <1>1. Shapes /\ OneLink /\ Sessions /\ Bare  BY InvParts
  <1>2. Keeps(Fresh, s)  BY <1>1, BondedTyped, FreshTyped, NoBridgeTyped, SyncKeeps
  <1>3. s \in Session /\ s.repair = "no" /\ s.fails # 3  BY <1>2, FreshTyped DEF Keeps
  <1>4. /\ Spend /\ dev' = [dev EXCEPT ![n] = real[n]] /\ SetSession(n, s)
        /\ br' = [m \in Node |-> NoBridge] /\ sub' = [m \in Node |-> "off"]
        /\ top' = [m \in Node |-> "off"] /\ wake' = [m \in Node |-> TRUE]
        /\ Start(n, "none") /\ EndPass(n) /\ UNCHANGED <<real, bond, crossed>>
    BY DEF Restart
  <1> HIDE DEF s
  <1>6. br' \in [Node -> Bridge] /\ Bare'  BY <1>4, NoBridgeTyped DEF Bare
  <1>7. OneLink'  BY <1>1, <1>4 DEF OneLink, Linked
  <1>8. "none" \in PeerTask  BY DEF PeerTask
  <1>9. task' \in [Node -> PeerTask] /\ pass' \in [Node -> Pass] /\ spent' \in 0..MaxFaults
    BY <1>1, <1>4, <1>8, StartTyped, EndPassTyped, SpendTyped
  <1>13. \A m \in Node : task'[m] = "admitted" => task[m] = "admitted"
    BY <1>1, <1>4, <1>8, StartTyped
  <1>14. Careful  BY <1>4, <1>13, CarefulIf DEF Linked
  <1>5. Sessions'  BY <1>1, <1>3, <1>4, <1>14, SessionSet DEF Careful
  <1>10. dev' \in [Node -> Device]  BY <1>1, <1>4 DEF Shapes
  <1>11. sub' \in [Node -> Subscription] /\ top' \in [Node -> Import] /\ wake' \in [Node -> BOOLEAN]
    BY <1>4 DEF Subscription, Import
  <1>12. Shapes'  BY <1>1, <1>4, <1>6, <1>9, <1>10, <1>11 DEF Shapes
  <1> QED  BY <1>5, <1>6, <1>7, <1>12, InvPartsNext

-----------------------------------------------------------------------------
(* Types, and keys that both sides hold                                     *)

LEMMA InitInv == ASSUME Init PROVE LinkInv
  <1>1. Shapes
    BY ConstantAssumption, NoBridgeTyped, NoPassTyped
    DEF Init, Shapes, Device, Subscription, Import, PeerTask
  <1>2. OneLink  BY DEF Init, OneLink, Linked, Live, Node
  <1>3. Sessions  BY FreshTyped DEF Init, Sessions
  <1>4. Bare  BY DEF Init, Bare
  <1> QED  BY <1>1, <1>2, <1>3, <1>4, InvParts

LEMMA StepInv == ASSUME LinkInv, [Next]_vars PROVE LinkInv'
  <1>1. CASE LinkLost
    BY <1>1, LinkLostInv
  <1>2. ASSUME NEW n \in Node,
               \/ Notice(n) \/ Seen(n) \/ Discover(n) \/ Resolve(n) \/ AuthFail(n) \/ Rediscovery(n)
        PROVE  LinkInv'
    BY <1>2, NoticeInv, SeenInv, DiscoverInv, ResolveInv, AuthFailInv, RediscoveryInv
  <1>3. ASSUME NEW n \in Node, QuickPass(n) \/ Look(n) \/ Clear(n) \/ Act(n)
        PROVE  LinkInv'
    BY <1>3, QuickPassInv, LookInv, ClearInv, ActInv
  <1>4. ASSUME NEW n \in Node, Notified(n) \/ NotifyFailed(n) \/ Notification(n) \/ Writeback(n)
        PROVE  LinkInv'
    BY <1>4, NotifiedInv, NotifyFailedInv, NotificationInv, WritebackInv
  <1>5. ASSUME NEW n \in Node, Task(n)
        PROVE  LinkInv'
    BY <1>5, ConnectedInv, ConnectEndsInv, AdmittedInv, KnownInv, PairedInv, PairFailedInv,
       ResetLinkInv, RemoveDeviceInv, DropLinkInv DEF Task
  <1>6. ASSUME NEW n \in Node,
               GraceEnds(n) \/ FallbackDue(n) \/ WaitEnds(n) \/ BondLost(n) \/ Restart(n)
        PROVE  LinkInv'
    BY <1>6, GraceEndsInv, FallbackDueInv, WaitEndsInv, BondLostInv, RestartInv
  <1>7. CASE UNCHANGED vars
    <2>1. Shapes /\ OneLink /\ Sessions /\ Bare  BY InvParts
    <2>2. Shapes' /\ OneLink' /\ Bare'
      BY <1>7, <2>1 DEF vars, Shapes, OneLink, Linked, Bare
    <2>3. Sessions'  BY <1>7, <2>1, CarefulStill, SessionsStay DEF vars
    <2> QED  BY <2>2, <2>3, InvPartsNext
  <1> QED  BY <1>1, <1>2, <1>3, <1>4, <1>5, <1>6, <1>7 DEF Next

LEMMA InvHolds == Spec => []LinkInv
  <1>1. Init => LinkInv  BY InitInv
  <1>2. LinkInv /\ [Next]_vars => LinkInv'  BY StepInv
  <1> QED  BY <1>1, <1>2, PTL DEF Spec

(* What each side keeps of its peer has its shape: the third failure of a StartNotify
   asks for a repair and a fourth is never counted, subscriptions end with the link,
   and the link has two ends (peer_session.hpp, peer_manager.cpp).          *)
THEOREM LinkTypesHold == Spec => []TypeOK
  <1>1. LinkInv => TypeOK  BY DEF LinkInv
  <1> QED  BY <1>1, InvHolds, PTL

\* Only a removal that a repair asks for and a key that is lost take a key away.
LEMMA KeyStep ==
    ASSUME LinkInv, [Next]_vars, Matched, ~Matched'
    PROVE  spent' # spent \/ \E n \in Node : crossed[n] /\ ~bond'[n]
  <1>1. bond' # bond  BY DEF Matched
  <1>2. \E n \in Node : Paired(n) \/ RemoveDevice(n) \/ BondLost(n)
    <2>1. ~LinkLost /\ ~UNCHANGED vars  BY <1>1 DEF LinkLost, vars
    <2> SUFFICES ASSUME NEW n \in Node, ~Paired(n), ~RemoveDevice(n), ~BondLost(n)
                 PROVE  /\ ~Notice(n) /\ ~Seen(n) /\ ~Discover(n) /\ ~Resolve(n) /\ ~AuthFail(n)
                        /\ ~QuickPass(n) /\ ~Look(n) /\ ~Clear(n) /\ ~Act(n) /\ ~Notified(n)
                        /\ ~NotifyFailed(n) /\ ~Notification(n) /\ ~Writeback(n) /\ ~Task(n)
                        /\ ~GraceEnds(n) /\ ~FallbackDue(n) /\ ~WaitEnds(n)
                        /\ ~Rediscovery(n) /\ ~Restart(n)
      BY <2>1 DEF Next
    <2>2. ~Notice(n) /\ ~Seen(n) /\ ~Discover(n) /\ ~Resolve(n) /\ ~AuthFail(n) /\ ~Rediscovery(n)
      BY <1>1 DEF Notice, Seen, Discover, Resolve, AuthFail, Rediscovery
    <2>3. ~QuickPass(n) /\ ~Look(n) /\ ~Clear(n) /\ ~Act(n)
      BY <1>1 DEF QuickPass, Look, Clear, Act
    <2>4. ~Notified(n) /\ ~NotifyFailed(n) /\ ~Notification(n) /\ ~Writeback(n)
      BY <1>1 DEF Notified, NotifyFailed, Notification, Writeback
    <2>5. ~Task(n)
      BY <1>1 DEF Task, Connected, ConnectEnds, Admitted, Known, PairFailed, ResetLink, DropLink
    <2>6. ~GraceEnds(n) /\ ~FallbackDue(n) /\ ~WaitEnds(n) /\ ~Restart(n)
      BY <1>1 DEF GraceEnds, FallbackDue, WaitEnds, Restart
    <2> QED  BY <2>2, <2>3, <2>4, <2>5, <2>6
  <1> PICK n \in Node : Paired(n) \/ RemoveDevice(n) \/ BondLost(n)  BY <1>2
  <1>3. bond[n] /\ bond \in [Node -> BOOLEAN]  BY DEF Matched, Node, LinkInv, TypeOK
  <1>4. ~Paired(n)  BY <1>3 DEF Paired
  <1>5. CASE RemoveDevice(n)
    <2>1. ses[n].repair # "no" /\ bond' = [bond EXCEPT ![n] = FALSE]
      BY <1>1, <1>5 DEF RemoveDevice
    <2>2. crossed[n]  BY <2>1 DEF LinkInv, Sound, Endangered
    <2> QED  BY <1>3, <2>1, <2>2
  <1>6. CASE BondLost(n)
    <2>1. spent \in Nat  BY ConstantAssumption DEF LinkInv, TypeOK
    <2> QED  BY <1>6, <2>1 DEF BondLost, Spend
  <1> QED  BY <1>2, <1>4, <1>5, <1>6

(* A reset removes a stale key, never one that both sides hold, whatever the
   passes, the tasks and the signals overtake: when keys match, or the other side
   is being given one, nobody wants a repair but who asked for it after it had
   agreed to the pairing (should_continue_repair, should_allow_pairing_request). *)
THEOREM SharedKeysKept == Spec => SharedKeyKept
  <1>1. LinkInv /\ [Next]_vars =>
          [Matched /\ ~Matched' => spent' # spent \/ \E n \in Node : crossed[n] /\ ~bond'[n]]_vars
    BY KeyStep
  <1> QED  BY <1>1, InvHolds, PTL DEF Spec, SharedKeyKept

=============================================================================
