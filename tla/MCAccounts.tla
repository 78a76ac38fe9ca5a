------------------------------- MODULE MCAccounts ------------------------------
(* Instances of Accounts for TLC. *)
EXTENDS Accounts, TLC

CONSTANTS p1, p2, t1, t2, t3   \* model values

\* After the lock; after reset links have expired.
Times == {20, 90}

Symmetry == Permutations(TokenIds)
================================================================================
