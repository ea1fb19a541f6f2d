------------------------- MODULE MCSwarmMembership -------------------------
(* Instances of SwarmMembership for TLC. *)
EXTENDS SwarmMembership

\* Bound: frames in flight.
CONSTANT MaxAir

Few == Cardinality(air) <= MaxAir

\* Only the first node leaves and sends samples; the properties treat nodes alike.
OneLeaver ==
    Few /\ \A n \in Node \ {1} :
        choice[n] = Configured /\ accepted[n] = {Configured} /\ sample[n] = <<>>

Home == <<1, TRUE>>
Listed == <<2, 1>>
Absent == <<3, 2, 1>>
===========================================================================
