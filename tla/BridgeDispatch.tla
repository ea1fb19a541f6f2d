--------------------------- MODULE BridgeDispatch ---------------------------
(***************************************************************************)
(* The export side of a connectionless topic bridge                        *)
(* (transport_bridge_manager.cpp): a value is encoded, buffered, and handed*)
(* to its transport under two locks, while configuration transactions      *)
(* replace the bridge and Mesh maintenance uses the radio.                 *)
(*                                                                         *)
(* The subscription and the timer of a bridge are in the node's default    *)
(* callback group, which is mutually exclusive: one worker runs both.      *)
(*                                                                         *)
(* Names begin with Export where AdvertisementImport, the other side of a  *)
(* bridge, has the same: proofs about both are in one module.              *)
(***************************************************************************)
EXTENDS Integers

CONSTANTS
    Spacing,         \* 1 / rate_hz in ticks, 0 for an unthrottled bridge
    MaxValue,        \* bound: source samples
    MaxTransactions, \* bound: configuration transactions
    MaxBusy,         \* bound: maintenance periods
    MaxFaults        \* bound: sends that throw

ASSUME ExportAssumption ==
    {Spacing, MaxValue, MaxBusy, MaxFaults} \subseteq Nat /\ MaxTransactions \in Nat \ {0}

VARIABLES
    entry,      \* the bridge: generation (0: no bridge), revision, pending_payload
    next,       \* ticks to next_dispatch_at, modulo Spacing once it is past
    worker,     \* the callback in progress
    dispatch,   \* dispatch_mutex is held
    config,     \* holder of config_apply_mutex_
    applying,   \* the configuration transaction
    handed,     \* what the transport took last, and under which generation
    offered, generations, busy, faults,
    used        \* history: the transport took a value in this slot of the rate

exportVars == <<entry, next, worker, dispatch, config, applying, handed, offered,
                generations, busy, faults, used>>
counts == <<offered, generations, busy, faults>>

None == 0
Unset == Spacing + 1            \* next_dispatch_at of a new bridge
Idle == [pc |-> "idle", gen |-> 0, value |-> None, rev |-> 0]
Goto(pc) == worker' = [worker EXCEPT !.pc = pc]

-----------------------------------------------------------------------------
(* The worker                                                               *)

\* A source sample reaches the subscription of the current generation...
Message ==
    /\ worker = Idle /\ entry.gen # 0 /\ offered < MaxValue
    /\ offered' = offered + 1
    /\ worker' = [Idle EXCEPT !.pc = "encode", !.gen = entry.gen, !.value = offered']
    /\ UNCHANGED <<entry, next, dispatch, config, applying, handed, generations, busy, faults, used>>

\* ...and is buffered if that is still the generation.
Encode ==
    /\ worker.pc = "encode"
    /\ IF entry.gen = worker.gen
       THEN /\ entry' = [entry EXCEPT !.pending = worker.value, !.rev = @ + 1]
            /\ IF Spacing > 0 THEN worker' = Idle ELSE Goto("lock")
       ELSE worker' = Idle /\ UNCHANGED entry
    /\ UNCHANGED <<next, dispatch, config, applying, handed, counts, used>>

Timer ==
    /\ worker = Idle /\ entry.gen # 0
    /\ worker' = [Idle EXCEPT !.pc = "lock", !.gen = entry.gen]
    /\ UNCHANGED <<entry, next, dispatch, config, applying, handed, counts, used>>

\* flush
Lock ==
    /\ worker.pc = "lock" /\ ~dispatch /\ dispatch' = TRUE
    /\ Goto("take")
    /\ UNCHANGED <<entry, next, config, applying, handed, counts, used>>

Due == Spacing = 0 \/ next \notin 1..Spacing

\* Plausible bug: the rate is left to the timer.
TakeAlways ==
    /\ worker.pc = "take"
    /\ IF entry.gen = worker.gen /\ entry.pending # None
       THEN /\ worker' = [worker EXCEPT !.pc = "send", !.value = entry.pending, !.rev = entry.rev]
            /\ entry' = [entry EXCEPT !.pending = None]
            /\ UNCHANGED dispatch
       ELSE worker' = Idle /\ dispatch' = FALSE /\ UNCHANGED entry
    /\ UNCHANGED <<next, config, applying, handed, counts, used>>

Take ==
    /\ worker.pc = "take"
    /\ IF entry.gen = worker.gen /\ entry.pending # None /\ Due
       THEN /\ worker' = [worker EXCEPT !.pc = "send", !.value = entry.pending, !.rev = entry.rev]
            /\ entry' = [entry EXCEPT !.pending = None]
            /\ UNCHANGED dispatch
       ELSE worker' = Idle /\ dispatch' = FALSE /\ UNCHANGED entry
    /\ UNCHANGED <<next, config, applying, handed, counts, used>>

\* Plausible bug: the sender waits for the configuration lock.
RefusedNever == FALSE

\* The senders of ServiceNode only try the configuration lock.
Refused == config # "free"

Send ==
    /\ worker.pc = "send" /\ config = "free"
    /\ \/ /\ handed' = [value |-> worker.value, gen |-> worker.gen]
          /\ used' = TRUE /\ Goto("accepted") /\ UNCHANGED faults
       \/ /\ faults < MaxFaults /\ faults' = faults + 1       \* the send throws
          /\ Goto("keep") /\ UNCHANGED <<handed, used>>
    /\ UNCHANGED <<entry, next, dispatch, config, applying, offered, generations, busy>>

Refuse ==
    /\ worker.pc = "send" /\ Refused
    /\ Goto("keep")
    /\ UNCHANGED <<entry, next, dispatch, config, applying, handed, counts, used>>

Unlock == worker' = Idle /\ dispatch' = FALSE

\* Plausible bug: the first value of a bridge is not told apart.
AdvanceAdds(n) == n + Spacing

\* The deadline moves to the next point of its grid that lies ahead.
Advance(n) == IF n = Unset THEN Spacing ELSE ((n - 1) % Spacing) + 1

Accepted ==
    /\ worker.pc = "accepted"
    /\ next' = IF entry.gen = worker.gen /\ Spacing > 0 THEN Advance(next) ELSE next
    /\ Unlock
    /\ UNCHANGED <<entry, config, applying, handed, counts, used>>

\* Plausible bug: a value whose send is refused is dropped.
KeepNothing ==
    /\ worker.pc = "keep"
    /\ Unlock
    /\ UNCHANGED <<entry, next, config, applying, handed, counts, used>>

\* A value that was not accepted goes back, unless a newer one came.
Keep ==
    /\ worker.pc = "keep"
    /\ entry' = IF entry.gen = worker.gen /\ entry.rev = worker.rev /\ entry.pending = None
                THEN [entry EXCEPT !.pending = worker.value] ELSE entry
    /\ Unlock
    /\ UNCHANGED <<next, config, applying, handed, counts, used>>

Tick ==
    /\ Spacing > 0 /\ next # Unset
    /\ next' = IF next = 1 - Spacing THEN 0 ELSE next - 1
    /\ used' = (used /\ next' # 0)
    /\ UNCHANGED <<entry, worker, dispatch, config, applying, handed, counts>>

-----------------------------------------------------------------------------
(* Configuration transactions and Mesh maintenance                          *)

Transact ==
    /\ ~applying /\ config = "free" /\ generations < MaxTransactions
    /\ config' = "apply" /\ applying' = TRUE
    /\ UNCHANGED <<entry, next, worker, dispatch, handed, counts, used>>

\* Plausible bug: configure does not wait for the flush in progress.
ConfigureAtOnce ==
    /\ applying /\ config = "apply"
    /\ generations' = generations + 1
    /\ entry' = [gen |-> generations', rev |-> 0, pending |-> None]
    /\ next' = Unset /\ used' = FALSE
    /\ config' = "free" /\ applying' = FALSE
    /\ UNCHANGED <<worker, dispatch, handed, offered, busy, faults>>

\* configure waits for the flush in progress, clears the bridges, and makes the
\* new one, unless the topics are refused.
ConfigureExport ==
    /\ applying /\ config = "apply" /\ ~dispatch
    /\ generations' = generations + 1
    /\ \E gen \in {generations', 0} : entry' = [gen |-> gen, rev |-> 0, pending |-> None]
    /\ next' = Unset /\ used' = FALSE
    /\ config' = "free" /\ applying' = FALSE
    /\ UNCHANGED <<worker, dispatch, handed, offered, busy, faults>>

\* Mesh maintenance holds the configuration lock for a while.
Maintain ==
    /\ \/ config = "free" /\ config' = "maintain" /\ busy < MaxBusy /\ busy' = busy + 1
       \/ config = "maintain" /\ config' = "free" /\ UNCHANGED busy
    /\ UNCHANGED <<entry, next, worker, dispatch, applying, handed, offered, generations,
                   faults, used>>

-----------------------------------------------------------------------------
ExportInit ==
    /\ entry = [gen |-> 1, rev |-> 0, pending |-> None] /\ next = Unset
    /\ worker = Idle /\ dispatch = FALSE /\ config = "free" /\ applying = FALSE
    /\ handed = [value |-> None, gen |-> 0]
    /\ offered = 0 /\ generations = 1 /\ busy = 0 /\ faults = 0 /\ used = FALSE

Work == Encode \/ Timer \/ Lock \/ Take \/ Send \/ Refuse \/ Accepted \/ Keep

ExportNext == Message \/ Work \/ Tick \/ Transact \/ ConfigureExport \/ Maintain

ExportSpec == ExportInit /\ [][ExportNext]_exportVars

\* The executor runs its callbacks, time passes, maintenance ends.  A transaction
\* that waits for dispatch_mutex gets it: the worker leaves it free between its
\* timer's periods.
ExportFairness ==
    /\ WF_exportVars(Work) /\ WF_exportVars(Tick) /\ SF_exportVars(ConfigureExport)
    /\ WF_exportVars(config = "maintain" /\ Maintain)

ExportFairSpec == ExportSpec /\ ExportFairness

-----------------------------------------------------------------------------
(* Properties                                                               *)

ExportTypeOK ==
    /\ entry \in [gen : 0..MaxTransactions, rev : 0..MaxValue, pending : 0..MaxValue]
    /\ next \in (1 - Spacing)..Unset
    /\ worker \in [pc : {"idle", "encode", "lock", "take", "send", "accepted", "keep"},
                   gen : 0..MaxTransactions, value : 0..MaxValue, rev : 0..MaxValue]
    /\ dispatch \in BOOLEAN /\ applying \in BOOLEAN /\ used \in BOOLEAN
    /\ config \in {"free", "apply", "maintain"}
    /\ handed \in [value : 0..MaxValue, gen : 0..MaxTransactions]
    /\ offered \in 0..MaxValue /\ generations \in 1..MaxTransactions /\ busy \in 0..MaxBusy /\ faults \in 0..MaxFaults

\* The transport takes only values of the configuration that is in force: a
\* value buffered before a transaction is never sent after it.
CurrentOnly == [][handed' # handed => handed'.gen = entry.gen /\ ~applying]_exportVars

\* A bridge sends at most once in each period of the grid that its first value
\* starts, also after a pause.
OncePerPeriod == [][handed' # handed /\ Spacing > 0 => ~used]_exportVars

\* The newest source sample is not lost while its configuration stays, also
\* when it is the last one: refused and failed sends are repeated.
NewestIsSent ==
    \A g \in 1..MaxTransactions, v \in 1..MaxValue :
        (entry.gen = g /\ (entry.pending = v \/ (worker.pc = "send" /\ worker.value = v)))
            ~> (entry.gen # g \/ handed.value >= v)

\* A configuration transaction always gets past the flush in progress.
ApplyEnds == applying ~> ~applying
=============================================================================
