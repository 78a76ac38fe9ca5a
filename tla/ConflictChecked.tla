---------------------------- MODULE ConflictChecked ----------------------------
(***************************************************************************)
(* What docs/ARCHITEKTUR.md (section Konflikterkennung) promises of every  *)
(* mutable resource: a client changes only what it has seen.  The resource *)
(* is a number, the count of its changes; no version and no lock appears.  *)
(***************************************************************************)
EXTENDS Naturals

CONSTANTS
    Clients,    \* those who hold copies of the resource
    NoCopy      \* "has no copy": the client must load the resource first

VARIABLES
    content,    \* the resource, as the number of changes it has undergone
    copy        \* copy[c]: the content that client c has seen last

cvars == <<content, copy>>

CInit ==
    /\ content = 0
    /\ copy = [c \in Clients |-> NoCopy]

Load(c) ==
    /\ copy' = [copy EXCEPT ![c] = content]
    /\ UNCHANGED content

\* The answer with the new content may get lost.
Change(c) ==
    /\ copy[c] = content
    /\ content' = content + 1
    /\ copy' \in {copy, [copy EXCEPT ![c] = content']}

\* A change is refused, and the copy with it.
Discard(c) ==
    /\ copy' = [copy EXCEPT ![c] = NoCopy]
    /\ UNCHANGED content

\* A change of the program's own, in no client's name.
ServerChange ==
    /\ content' = content + 1
    /\ UNCHANGED copy

CNext ==
    \/ \E c \in Clients : Load(c) \/ Change(c) \/ Discard(c)
    \/ ServerChange

CSpec == CInit /\ [][CNext]_cvars
================================================================================
