------------------------- MODULE MCSceneContinuity -------------------------
(***************************************************************************)
(* Two hook processes and two anchors: a module that is there, and one     *)
(* that is there or missing when the session begins.                       *)
(***************************************************************************)
EXTENDS SceneContinuity, TLC

CONSTANT MCGround   \* what the second anchor may be at first

Hooks == Permutations(Hook)

MCInit == Init /\ ground[1] = "old" /\ ground[2] \in MCGround

MCSpec == MCInit /\ [][Next]_vars
=============================================================================
