------------------------------ MODULE MCMembership -----------------------------
(* A small team for TLC: its owner, two people he may invite, two projects.  *)
EXTENDS Membership, TLC

CONSTANTS ann, bob, cid, team, club, p1, p2, i1, i2, i3

\* ann has founded every workspace.
OwnedByAnn == [w \in Workspaces |-> ann]

Symmetry ==
    Permutations(InvitationIds) \cup Permutations(Projects)
        \cup Permutations(Users \ {ann})
================================================================================
