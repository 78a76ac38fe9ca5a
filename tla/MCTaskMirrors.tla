----------------------------- MODULE MCTaskMirrors -----------------------------
(* A small team for TLC: two people, one project, a task with its mirrors    *)
(* and one subtask.                                                          *)
EXTENDS TaskMirrors, TLC

CONSTANTS ann, bob, shop, x1

Symmetry == Permutations({ann, bob})

\* stamped and renumbered describe the last step only; they do not tell states
\* apart.
View == <<tasks, subs, claims>>
================================================================================
