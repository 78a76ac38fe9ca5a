-------------------------------- MODULE MCInbox --------------------------------
(* A conversation of three for TLC: ann and gus share a project, bob and gus  *)
(* do not; requests are interchangeable.                                      *)
EXTENDS Inbox, TLC

CONSTANTS ann, bob, gus, r1, r2

Symmetry == Permutations({r1, r2})
================================================================================
