---------------------------- MODULE OverlayLease ----------------------------
(***************************************************************************)
(* The overlay lease (overlay_config_manager.cpp) between the user nodes   *)
(* that activate overlays and the service that runs one of them.           *)
(*                                                                         *)
(* Service calls and the lease timer run on any of the executor's threads  *)
(* (the callback groups are reentrant).  The manager locks its metadata    *)
(* only for single assignments; the radio transition it notifies is        *)
(* serialized by config_apply_mutex_ and may take seconds or fail.  An     *)
(* operation is therefore several steps of its thread.                     *)
(*                                                                         *)
(* User u activates overlay u.  All of them publish the same sentinel      *)
(* topic, the default of overlay_keepalive_topic_suffix, so the lease sees *)
(* publishers iff any user node runs.  The service's request queue is FIFO.*)
(***************************************************************************)
EXTENDS Naturals, Sequences, FiniteSets

CONSTANTS
    Thread,     \* executor threads
    User,       \* user nodes, each with its overlay
    Default,    \* the default configuration; as a path, the empty string
    MaxMisses,  \* kRequiredMisses
    MaxStarts,  \* bound: starts of user nodes and reload calls
    MaxFaults,  \* bound: failing transitions and failing file writes
    MaxCrashes  \* bound: restarts of the service

ASSUME DefaultAssumption == Default \notin User
ASSUME BoundAssumption == {MaxMisses, MaxStarts, MaxFaults, MaxCrashes} \subseteq Nat

VARIABLES
    disk,       \* overlay in the runtime state file
    path,       \* overlay_path_
    cfg,        \* config_, active_source_ and keepalive_topic_
    misses,     \* keepalive_miss_count_
    hold,       \* lease_hold_until_ lies ahead
    runtime,    \* the configuration the radio was last switched to
    thr,        \* the operation of each thread
    user,       \* what each user node is doing
    requests,   \* SetActiveConfig requests not yet taken
    starts, faults, crashes,
    overlapped, \* history: two operations were in progress at once
    owner,      \* history: the user node whose activation, the last one
                \* taken, was confirmed
    crowded     \* history: the checks in progress when a lease was last claimed
                \* could expire it by themselves

vars == <<disk, path, cfg, misses, hold, runtime, thr, user, requests, starts,
          faults, crashes, overlapped, owner, crowded>>
lease == <<path, misses, hold>>
counts == <<starts, faults, crashes>>
history == <<overlapped, owner, crowded>>

Config == User \cup {Default}

\* pc of a thread; op, target (what it applies), prev (previous_overlay), saved
\* (the configuration to roll back to) and copy (what notify() hands over).
Op == [pc : {"idle", "claim", "counting", "swap", "notify", "configure", "renotify",
             "reconfigure", "persist", "clear", "release", "failed"},
       op : {"none", "activate", "revert", "expire", "reload", "check"},
       by : Config, id : 0..MaxStarts, target : Config, prev : Config, saved : Config, copy : Config,
       live : BOOLEAN]

Idle == [pc |-> "idle", op |-> "none", by |-> Default, id |-> 0,
         target |-> Default, prev |-> Default, saved |-> Default, copy |-> Default,
         live |-> FALSE]

\* id tells the lives of a user node apart: a late answer is not for the next.
Request == [kind : {"activate", "revert"}, by : User, id : 0..MaxStarts]

Gone == [state |-> "off", id |-> 0]

Alive == {u \in User : user[u] # Gone}
Working(t) == thr[t].pc \notin {"idle", "counting"}
Quiet == \A t \in Thread : thr[t].pc = "idle"

\* The checks that have seen no publisher and have not counted it yet.
Stale == {t \in Thread : thr[t].pc = "counting" /\ ~thr[t].live}

Goto(t, pc) == thr' = [thr EXCEPT ![t].pc = pc]
Overlap(t) == overlapped' = (overlapped \/ \E r \in Thread \ {t} : Working(r))
Fault == faults < MaxFaults /\ faults' = faults + 1 /\ UNCHANGED <<starts, crashes>>

-----------------------------------------------------------------------------
(* User nodes (user_overlay_node.cpp)                                       *)

\* The publisher exists before the request is sent.
Start(u) ==
    /\ user[u] = Gone /\ starts < MaxStarts
    /\ starts' = starts + 1
    /\ user' = [user EXCEPT ![u] = [state |-> "asking", id |-> starts']]
    /\ requests' = Append(requests, [kind |-> "activate", by |-> u, id |-> starts'])
    /\ UNCHANGED <<disk, lease, cfg, runtime, thr, faults, crashes, history>>

\* The destructor asks for the default configuration.
Leave(u) ==
    /\ user[u].state = "on"
    /\ user' = [user EXCEPT ![u].state = "leaving"]
    /\ requests' = Append(requests, [kind |-> "revert", by |-> u, id |-> user[u].id])
    /\ UNCHANGED <<disk, lease, cfg, runtime, thr, counts, history>>

\* The node dies, is interrupted, or gives up waiting for an answer.
Vanish(u) ==
    /\ user[u] # Gone
    /\ user' = [user EXCEPT ![u] = Gone]
    /\ UNCHANGED <<disk, lease, cfg, runtime, thr, requests, counts, history>>

\* The answer of SetActiveConfig to t's request, if the caller still waits.
Answer(t, success) ==
    LET u == thr[t].by
        waits(state) == u \in User /\ user[u] = [state |-> state, id |-> thr[t].id] IN
    IF thr[t].op = "activate" /\ waits("asking") /\ success
    THEN user' = [user EXCEPT ![u].state = "on"] /\ owner' = u
    ELSE /\ UNCHANGED owner
         /\ user' = IF \/ thr[t].op = "activate" /\ waits("asking")
                       \/ thr[t].op = "revert" /\ waits("leaving")
                    THEN [user EXCEPT ![u] = Gone] ELSE user

-----------------------------------------------------------------------------
(* Operations begin                                                         *)

\* A free thread takes the next request; activate_overlay reads the previous
\* overlay first.
Take(t) ==
    /\ thr[t].pc = "idle" /\ requests # <<>>
    /\ requests' = Tail(requests)
    /\ LET r == Head(requests) IN
       thr' = [thr EXCEPT ![t] =
          IF r.kind = "activate"
          THEN [Idle EXCEPT !.pc = "claim", !.op = "activate", !.by = r.by, !.id = r.id,
                            !.target = r.by, !.prev = path]
          ELSE [Idle EXCEPT !.pc = "swap", !.op = "revert", !.by = r.by, !.id = r.id]]
    /\ owner' = IF Head(requests).kind = "activate" THEN Default ELSE owner
    /\ Overlap(t)
    /\ UNCHANGED <<disk, lease, cfg, runtime, user, counts, crowded>>

\* The claim of an overlay resets its lease; the active one needs no transition.
Claim(t) ==
    /\ thr[t].pc = "claim"
    /\ misses' = 0
    /\ hold' \in BOOLEAN
    /\ crowded' = (Cardinality(Stale) >= MaxMisses)
    /\ IF thr[t].target = path
       THEN /\ \/ disk' = path /\ UNCHANGED counts
               \/ Fault /\ UNCHANGED disk              \* the write fails
            /\ UNCHANGED path
            /\ Answer(t, TRUE)
            /\ thr' = [thr EXCEPT ![t] = Idle]
       ELSE /\ path' = thr[t].target
            /\ Goto(t, "swap")
            /\ UNCHANGED <<disk, user, owner, counts>>
    /\ UNCHANGED <<cfg, runtime, requests, overlapped>>

Reload(t) ==
    /\ thr[t].pc = "idle" /\ starts < MaxStarts
    /\ starts' = starts + 1
    /\ thr' = [thr EXCEPT ![t] = [Idle EXCEPT !.pc = "swap", !.op = "reload",
                                              !.target = path]]
    /\ Overlap(t)
    /\ UNCHANGED <<disk, lease, cfg, runtime, user, requests, faults, crashes, owner, crowded>>

\* What the ROS graph says of the sentinel's publishers: discovery may take as
\* long as the hold, and is complete after it.
Heard == IF hold THEN BOOLEAN ELSE {Alive # {}}

\* Plausible bug: the lease is checked during the hold.
CheckAtOnce(t) ==
    /\ thr[t].pc = "idle" /\ path # Default
    /\ \E live \in Heard :
          thr' = [thr EXCEPT ![t] = [Idle EXCEPT !.pc = "counting", !.op = "check",
                                                !.live = live]]
    /\ UNCHANGED <<disk, lease, cfg, runtime, user, requests, counts, history>>

\* The lease timer reads the ROS graph without a lock...
Check(t) ==
    /\ thr[t].pc = "idle" /\ path # Default /\ ~hold
    /\ \E live \in Heard :
          thr' = [thr EXCEPT ![t] = [Idle EXCEPT !.pc = "counting", !.op = "check",
                                                !.live = live]]
    /\ UNCHANGED <<disk, lease, cfg, runtime, user, requests, counts, history>>

\* Plausible bug: an expiry leaves the count of misses standing.
CountOnwards(t) ==
    /\ thr[t].pc = "counting"
    /\ misses' = IF thr[t].live THEN 0 ELSE misses + 1
    /\ IF thr[t].live \/ misses + 1 < MaxMisses
       THEN thr' = [thr EXCEPT ![t] = Idle] /\ UNCHANGED overlapped
       ELSE /\ thr' = [thr EXCEPT ![t] = [Idle EXCEPT !.pc = "swap", !.op = "expire"]]
            /\ Overlap(t)
    /\ UNCHANGED <<disk, path, hold, cfg, runtime, user, requests, counts, owner, crowded>>

\* ...and counts consecutive misses; enough of them expire the overlay.
Count(t) ==
    /\ thr[t].pc = "counting"
    /\ IF thr[t].live \/ misses + 1 < MaxMisses
       THEN /\ misses' = IF thr[t].live THEN 0 ELSE misses + 1
            /\ thr' = [thr EXCEPT ![t] = Idle]
            /\ UNCHANGED overlapped
       ELSE /\ misses' = 0
            /\ thr' = [thr EXCEPT ![t] = [Idle EXCEPT !.pc = "swap", !.op = "expire"]]
            /\ Overlap(t)
    /\ UNCHANGED <<disk, path, hold, cfg, runtime, user, requests, counts, owner, crowded>>

HoldPasses == /\ hold /\ hold' = FALSE
              /\ UNCHANGED <<disk, path, misses, cfg, runtime, thr, user, requests,
                             counts, history>>

-----------------------------------------------------------------------------
(* apply_config and notify                                                  *)

Swap(t) ==
    /\ thr[t].pc = "swap"
    /\ \/ /\ cfg' = thr[t].target
          /\ thr' = [thr EXCEPT ![t].pc = "notify", ![t].saved = cfg]
          /\ UNCHANGED counts
       \/ Fault /\ Goto(t, "failed") /\ UNCHANGED cfg    \* the file does not load
    /\ UNCHANGED <<disk, lease, runtime, user, requests, history>>

\* notify() copies whatever is current by then.
Notify(t) ==
    /\ thr[t].pc \in {"notify", "renotify"}
    /\ thr' = [thr EXCEPT ![t].copy = cfg,
                  ![t].pc = IF @ = "notify" THEN "configure" ELSE "reconfigure"]
    /\ UNCHANGED <<disk, lease, cfg, runtime, user, requests, counts, history>>

\* Where a successful transition continues.
AfterSwitch(op) == CASE op = "activate" -> "persist"
                 [] op \in {"revert", "expire"} -> "clear"
                 [] OTHER -> "idle"

\* Plausible bug: a failed transition keeps the new configuration.
ConfigureKeepsNew(t) ==
    /\ thr[t].pc = "configure"
    /\ runtime' = thr[t].copy
    /\ \/ Goto(t, AfterSwitch(thr[t].op)) /\ UNCHANGED counts
       \/ Fault /\ Goto(t, "renotify")
    /\ UNCHANGED <<disk, lease, cfg, user, requests, history>>

\* ServiceNode::apply_config, one at a time; a failure rolls the configuration
\* back and notifies again.
Configure(t) ==
    /\ thr[t].pc = "configure"
    /\ runtime' = thr[t].copy
    /\ \/ Goto(t, AfterSwitch(thr[t].op)) /\ UNCHANGED <<cfg, counts>>
       \/ Fault /\ Goto(t, "renotify") /\ cfg' = thr[t].saved
    /\ UNCHANGED <<disk, lease, user, requests, history>>

\* The second transition's own failure is only logged.
Reconfigure(t) ==
    /\ thr[t].pc = "reconfigure"
    /\ runtime' = thr[t].copy
    /\ Goto(t, "failed")
    /\ UNCHANGED <<disk, lease, cfg, user, requests, counts, history>>

-----------------------------------------------------------------------------
(* Operations end                                                           *)

Done(t) == thr' = [thr EXCEPT ![t] = Idle]

\* A failing write is only logged.
Persist(t) ==
    /\ thr[t].pc = "persist"
    /\ \/ disk' = thr[t].target /\ UNCHANGED counts
       \/ Fault /\ UNCHANGED disk
    /\ Answer(t, TRUE)
    /\ Done(t)
    /\ UNCHANGED <<lease, cfg, runtime, requests, overlapped, crowded>>

Clear(t) ==
    /\ thr[t].pc = "clear"
    /\ \/ disk' = Default /\ UNCHANGED counts
       \/ Fault /\ UNCHANGED disk
    /\ Goto(t, "release")
    /\ UNCHANGED <<lease, cfg, runtime, user, requests, history>>

Release(t) ==
    /\ thr[t].pc = "release"
    /\ path' = Default /\ misses' = 0
    /\ Answer(t, TRUE)
    /\ Done(t)
    /\ UNCHANGED <<disk, hold, cfg, runtime, requests, counts, overlapped, crowded>>

\* Plausible bug: the lease is given up before the radio has left the overlay.
FailForgets(t) ==
    /\ thr[t].pc = "failed"
    /\ path' = IF thr[t].op = "activate" THEN thr[t].prev
               ELSE IF thr[t].op = "expire" THEN Default ELSE path
    /\ hold' = (hold \/ thr[t].op = "expire")
    /\ Answer(t, FALSE)
    /\ Done(t)
    /\ UNCHANGED <<disk, misses, cfg, runtime, requests, counts, overlapped, crowded>>

\* A failed activation restores the path, a failed expiry retries after 30 s.
Fail(t) ==
    /\ thr[t].pc = "failed"
    /\ path' = IF thr[t].op = "activate" THEN thr[t].prev ELSE path
    /\ hold' = (hold \/ thr[t].op = "expire")
    /\ Answer(t, FALSE)
    /\ Done(t)
    /\ UNCHANGED <<disk, misses, cfg, runtime, requests, counts, overlapped, crowded>>

-----------------------------------------------------------------------------
\* The process restarts; requests and answers are lost, and load_initial runs
\* before any thread: it restores the saved overlay with a short grace, or
\* falls back to the default when the overlay does not apply.
Restart ==
    /\ crashes < MaxCrashes /\ crashes' = crashes + 1
    /\ \/ path' = disk /\ UNCHANGED <<disk, faults>>
       \/ /\ faults < MaxFaults /\ faults' = faults + 1
          /\ path' = Default /\ disk' = Default
    /\ cfg' = path' /\ runtime' = path'
    /\ hold' = (disk # Default) /\ misses' = 0
    /\ thr' = [t \in Thread |-> Idle] /\ requests' = <<>>
    /\ user' = [u \in User |-> IF user[u].state = "on" THEN user[u] ELSE Gone]
    /\ UNCHANGED <<starts, history>>

Init ==
    /\ disk = Default /\ path = Default /\ cfg = Default /\ runtime = Default
    /\ misses = 0 /\ hold = FALSE
    /\ thr = [t \in Thread |-> Idle]
    /\ user = [u \in User |-> Gone] /\ requests = <<>>
    /\ starts = 0 /\ faults = 0 /\ crashes = 0
    /\ overlapped = FALSE /\ owner = Default /\ crowded = FALSE

Step(t) ==
    \/ Take(t) \/ Claim(t) \/ Count(t) \/ Swap(t) \/ Notify(t) \/ Configure(t)
    \/ Reconfigure(t) \/ Persist(t) \/ Clear(t) \/ Release(t) \/ Fail(t)

Next ==
    \/ \E t \in Thread : Step(t) \/ Check(t) \/ Reload(t)
    \/ \E u \in User : Start(u) \/ Leave(u) \/ Vanish(u)
    \/ HoldPasses \/ Restart

Spec == Init /\ [][Next]_vars

\* A thread finishes what it has begun, requests are served, the lease timer
\* fires as long as an overlay is active, and the clock goes on.
Fairness ==
    /\ \A t \in Thread : WF_vars(Step(t))
    /\ WF_vars(\E t \in Thread : Check(t))
    /\ WF_vars(HoldPasses)

FairSpec == Spec /\ Fairness

-----------------------------------------------------------------------------
(* Properties                                                               *)

TypeOK ==
    /\ {disk, path, cfg, runtime} \subseteq Config
    /\ misses \in 0..MaxMisses /\ hold \in BOOLEAN /\ overlapped \in BOOLEAN
    /\ thr \in [Thread -> Op]
    /\ user \in [User -> [state : {"off", "asking", "on", "leaving"}, id : 0..MaxStarts]]
    /\ requests \in Seq(Request)
    /\ starts \in 0..MaxStarts /\ faults \in 0..MaxFaults /\ crashes \in 0..MaxCrashes
    /\ owner \in Config /\ crowded \in BOOLEAN

\* As long as no two operations overlap, the lease watches exactly the
\* configuration that runs, whatever fails, is rolled back or restarts.
LeaseTracksRuntime == Quiet /\ ~overlapped => cfg = path /\ runtime = path

\* A live sentinel publisher keeps the overlay: while the user node whose
\* activation was confirmed last is running and nothing fails, its overlay runs,
\* also across restarts of the service.  Checks that looked at the graph before it
\* was there count their misses afterwards: that they expire its lease by themselves
\* is excepted (kRequiredMisses of the executor's threads would have to hold one).
LiveUserKeeps ==
    \A u \in User :
        owner = u /\ user[u].state = "on" /\ Quiet /\ ~overlapped /\ faults = 0 /\ ~crowded
            => path = u /\ runtime = u

\* Not so with them.
LiveUserAlwaysKeeps ==
    \A u \in User :
        owner = u /\ user[u].state = "on" /\ Quiet /\ ~overlapped /\ faults = 0
            => path = u /\ runtime = u

Ended == <>[](Alive = {} /\ requests = <<>>)

\* When the user nodes have exited and no two operations overlapped, the
\* service returns to the default configuration and stays there.
OverlayEnds == Ended /\ <>[]~overlapped => <>[](runtime = Default /\ path = Default)

\* The service returns to default.yaml when the user node exits.
ReturnsToDefault == Ended => <>[](runtime = Default)
=============================================================================
