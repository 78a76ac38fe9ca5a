----------------------------- MODULE MCBoardConsumer ---------------------------
(* Instances of BoardConsumer for TLC. *)
EXTENDS BoardConsumer, TLC

CONSTANTS ann, bob, tab1, tab2, tab3   \* model values

Symmetry == Permutations(Users) \cup Permutations(Connections)
================================================================================
