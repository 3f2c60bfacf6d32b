---------------------------- MODULE MCExperiments ---------------------------
(* Instances of Experiments for TLC. *)
EXTENDS Experiments

MCNone == {}
MCOne == {1}
MCTwo == {1, 2}
MCTwoFolds == 1..8
MCWalk == {"HOLDOUT", "WALK_FORWARD"}
MCAllPosts == {"wizard", "clone", "seeds"}
MCSourceInput == {0}
=============================================================================
