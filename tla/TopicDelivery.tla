---------------------------- MODULE TopicDelivery ----------------------------
(***************************************************************************)
(* What a Mesh topic channel promises each receiver: the values it         *)
(* publishes were offered by the source, and after a value no older one    *)
(* is published.  Values may be skipped: only the newest state matters.    *)
(***************************************************************************)
EXTENDS Naturals

CONSTANTS Peer, MaxValue

VARIABLES
    offered,    \* the newest value the source has published; 0 before the first
    last        \* last[p]: the newest value receiver p has published; 0 if none

Offer == offered < MaxValue /\ offered' = offered + 1 /\ UNCHANGED last

Deliver(p) == /\ \E v \in (last[p] + 1)..offered : last' = [last EXCEPT ![p] = v]
              /\ UNCHANGED offered

\* A restarted receiver has published nothing.
Forget(p) == last' = [last EXCEPT ![p] = 0] /\ UNCHANGED offered

Init == offered = 0 /\ last = [p \in Peer |-> 0]

Next == Offer \/ \E p \in Peer : Deliver(p) \/ Forget(p)

Spec == Init /\ [][Next]_<<offered, last>>
=============================================================================
