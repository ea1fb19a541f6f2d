------------------------- MODULE MCMeshEnrollment -------------------------
(* Three listed UAVs, in several situations.                                *)
EXTENDS MeshEnrollment

\* All three and one creator.
Joining == [present |-> Node, creators |-> {1}, prompt |-> TRUE, strict |-> TRUE,
            careful |-> TRUE, faults |-> 0]
\* Two that may both create a network, with a fault, and look for the third in vain.
Creating == [Joining EXCEPT !.present = {1, 2}, !.creators = {1, 2}, !.strict = FALSE,
                            !.faults = 1]
\* Two with answers that may come too late; one alone with a fault at any time.
Delayed == [Creating EXCEPT !.creators = {1}, !.prompt = FALSE, !.faults = 0]
Alone == [Delayed EXCEPT !.present = {1}, !.careful = FALSE, !.faults = 1]

AllCasts == {Joining, Creating, Delayed, Alone}

\* Larger ones, and those that break the promises (README, divergences).
FaultyCasts == {[Joining EXCEPT !.strict = FALSE, !.faults = 1]}
DelayedCasts == {[Delayed EXCEPT !.creators = {1, 2}, !.careful = FALSE, !.faults = 1]}
LostCasts == {[Creating EXCEPT !.careful = FALSE]}
AirCasts == {[Joining EXCEPT !.present = {1, 2}]}
StrictCasts == {[Creating EXCEPT !.strict = TRUE]}
=============================================================================
