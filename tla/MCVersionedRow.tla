---------------------------- MODULE MCVersionedRow -----------------------------
(* Clients, a service, a move of another task and, where a run asks for it,  *)
(* one mirror synchronisation of the same row.                               *)
EXTENDS VersionedRow, TLC

CONSTANTS tab1, tab2, claim, move, sync
================================================================================
