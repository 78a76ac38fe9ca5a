----------------------------- MODULE OneTimeGrant ------------------------------
(***************************************************************************)
(* What an invitation (workspaces/services.py:1650) and a link in an       *)
(* e-mail (accounts/services.py:177) promise: it is issued, and then       *)
(* either used once or void for ever.  Nothing is said of requests, locks  *)
(* or time.                                                                *)
(***************************************************************************)

CONSTANT Grants

VARIABLE grant   \* grant[g]: what has become of grant g

States == {"unissued", "open", "used", "void"}

Init == grant = [g \in Grants |-> "unissued"]

\* A grant is used; others may become void with it.
Use(g, S) ==
    /\ grant[g] = "open"
    /\ \A s \in S : grant[s] = "open"
    /\ grant' = [h \in Grants |-> IF h = g THEN "used"
                                  ELSE IF h \in S THEN "void" ELSE grant[h]]

\* Some open grants are withdrawn, refused or expire together.
Void(S) ==
    /\ S # {}
    /\ \A g \in S : grant[g] = "open"
    /\ grant' = [g \in Grants |-> IF g \in S THEN "void" ELSE grant[g]]

\* A new grant is issued; the outdated ones it replaces are void with it.
Issue(g, S) ==
    /\ grant[g] = "unissued"
    /\ \A s \in S : grant[s] = "open"
    /\ grant' = [h \in Grants |-> IF h = g THEN "open"
                                  ELSE IF h \in S THEN "void" ELSE grant[h]]

Next ==
    \/ \E g \in Grants, S \in SUBSET Grants : Use(g, S)
    \/ \E S \in SUBSET Grants : Void(S)
    \/ \E g \in Grants, S \in SUBSET Grants : Issue(g, S)

Spec == Init /\ [][Next]_grant
================================================================================
