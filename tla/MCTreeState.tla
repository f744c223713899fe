---------------------------- MODULE MCTreeState ----------------------------
(* A folder with an item and a folder of two: a cascade of two levels.      *)
EXTENDS TreeState
MCUp == <<0, 1, 1, 3>>
MCItems == {2, 4}
=============================================================================
