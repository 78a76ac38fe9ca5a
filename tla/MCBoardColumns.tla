---------------------------- MODULE MCBoardColumns -----------------------------
(* A small board for TLC: requests are interchangeable.                      *)
EXTENDS BoardColumns, TLC

CONSTANTS r1, r2

Symmetry == Permutations({r1, r2})
================================================================================
