----------------------------- MODULE VersionedRow ------------------------------
(***************************************************************************)
(* One task's row under concurrent requests (apps/workspaces).             *)
(*                                                                         *)
(* A client's request locks the row, reads it again, compares the version  *)
(* the client sent and increments it (update_task and its siblings).  A    *)
(* service request locks and increments but has no version to compare      *)
(* (claim_pool_task, a completion arriving from a mirror).  The mirror     *)
(* synchronisation reads its row without a lock and writes it later, under *)
(* the lock of the source task only.                                       *)
(*                                                                         *)
(* Two kinds of writes leave the version as it is.  move_task locks every  *)
(* task of the columns it renumbers and writes their positions, and the    *)
(* versions it has read with them.  A single UPDATE puts the row into the  *)
(* workspace its project moves to, or takes a deleted column, project or   *)
(* source from it (ON DELETE SET NULL).  The administration site, which    *)
(* writes anything, is left out.                                           *)
(*                                                                         *)
(* PostgreSQL runs them READ COMMITTED: a SELECT FOR UPDATE waits for the  *)
(* lock and then sees the last committed row, an UPDATE waits as well.     *)
(***************************************************************************)
EXTENDS Naturals

CONSTANTS
    Clients,        \* requests that send the version they have seen
    Services,       \* requests that lock the row and send no version
    Arrangers,      \* moves of other tasks, which renumber this one
    Mirrorings,     \* synchronisations that read the row without a lock
    Nobody,         \* no lock holder
    NoCopy,         \* the client has not loaded the row
    MaxChanges,     \* bound: changes of the row with a version
    MaxPlaces       \* bound: changes of the row without one

ASSUME KindsDisjoint ==
    /\ Clients \cap Services = {}
    /\ Arrangers \cap (Clients \cup Services) = {}
    /\ Mirrorings \cap (Clients \cup Services \cup Arrangers) = {}
ASSUME NobodyIsNoRequest == Nobody \notin Clients \cup Services \cup Arrangers
ASSUME BoundsAreNat == MaxChanges \in Nat /\ MaxPlaces \in Nat

Version == Nat \ {0}

\* content: the number of writes with a version, whatever they change; only
\* they write the title, the dates, the assignee, the board and the state.
\* place: the number of writes without one, to the position, the column, the
\* workspace and the links to other rows.
Row == [content : Nat, place : Nat, version : Version]

ASSUME NoCopyIsNoRow == NoCopy \notin Row

Lockers == Clients \cup Services \cup Arrangers
Requests == Lockers \cup Mirrorings

VARIABLES
    row,        \* the committed row
    lock,       \* the transaction that holds the row lock
    phase,      \* how far each request has got
    seen,       \* seen[c]: the row as client c has loaded it
    loaded      \* loaded[p]: the row as p's transaction has read it

vars == <<row, lock, phase, seen, loaded>>

Phases == {"idle", "waiting", "locked", "checked", "read"}

\* Mutant of Changed: versions are counted from zero.
ChangedFromZero(base) ==
    [content |-> row.content + 1, place |-> base.place, version |-> row.content]

\* What was read, changed and saved again: increment_version and save.
Changed(base) ==
    [content |-> row.content + 1, place |-> base.place,
     version |-> base.version + 1]

Init ==
    /\ row = [content |-> 0, place |-> 0, version |-> 1]
    /\ lock = Nobody
    /\ phase = [p \in Requests |-> "idle"]
    /\ seen = [c \in Clients |-> NoCopy]
    /\ loaded = [p \in Requests |-> NoCopy]

\* GET: the client now shows this row and will send its version.
Fetch(c) ==
    /\ phase[c] = "idle"
    /\ seen' = [seen EXCEPT ![c] = row]
    /\ UNCHANGED <<row, lock, phase, loaded>>

\* The request arrives; get_object reads the row, only to find its key.
Submit(p) ==
    /\ phase[p] = "idle"
    /\ p \in Clients => seen[p] # NoCopy
    /\ row.content < MaxChanges
    /\ p \in Arrangers => row.place < MaxPlaces
    /\ phase' = [phase EXCEPT ![p] = "waiting"]
    /\ UNCHANGED <<row, lock, seen, loaded>>

\* Mutant of SelectForUpdate: the row is read without a lock.
SelectUnlocked(p) ==
    /\ phase[p] = "waiting"
    /\ lock' = p
    /\ loaded' = [loaded EXCEPT ![p] = row]
    /\ phase' = [phase EXCEPT ![p] = "locked"]
    /\ UNCHANGED <<row, seen>>

SelectForUpdate(p) ==
    /\ phase[p] = "waiting"
    /\ lock = Nobody
    /\ lock' = p
    /\ loaded' = [loaded EXCEPT ![p] = row]
    /\ phase' = [phase EXCEPT ![p] = "locked"]
    /\ UNCHANGED <<row, seen>>

\* Mutant of AssertVersion: any version will do.
AssertAnyVersion(c) ==
    /\ phase[c] = "locked"
    /\ phase' = [phase EXCEPT ![c] = "checked"]
    /\ UNCHANGED <<row, lock, seen, loaded>>

AssertVersion(c) ==
    /\ phase[c] = "locked"
    /\ loaded[c].version = seen[c].version
    /\ phase' = [phase EXCEPT ![c] = "checked"]
    /\ UNCHANGED <<row, lock, seen, loaded>>

Finish(p) ==
    /\ lock' = Nobody
    /\ phase' = [phase EXCEPT ![p] = "idle"]
    /\ loaded' = [loaded EXCEPT ![p] = NoCopy]

\* Mutant of VersionConflict: the transaction stays open.
ConflictKeepsLock(c) ==
    /\ phase[c] = "locked"
    /\ loaded[c].version # seen[c].version
    /\ phase' = [phase EXCEPT ![c] = "idle"]
    /\ seen' = [seen EXCEPT ![c] = NoCopy]
    /\ UNCHANGED <<row, lock, loaded>>

\* HTTP 409; the client has to load the row again.
VersionConflict(c) ==
    /\ phase[c] = "locked"
    /\ loaded[c].version # seen[c].version
    /\ Finish(c)
    /\ seen' = [seen EXCEPT ![c] = NoCopy]
    /\ UNCHANGED row

\* increment_version, save and commit.  The answer may get lost.
SaveChecked(c) ==
    /\ phase[c] = "checked"
    /\ row' = Changed(loaded[c])
    /\ Finish(c)
    /\ seen' \in {seen, [seen EXCEPT ![c] = row']}

\* Mutant of SaveService: increment_version is forgotten.
SaveUnversioned(p) ==
    /\ phase[p] = "locked"
    /\ row' = [row EXCEPT !.content = @ + 1]
    /\ Finish(p)
    /\ UNCHANGED seen

SaveService(p) ==
    /\ phase[p] = "locked"
    /\ row' = Changed(loaded[p])
    /\ Finish(p)
    /\ UNCHANGED seen

\* bulk_update(siblings, ("position", "column", "version", "updated_at")).
SaveArrangement(p) ==
    /\ phase[p] = "locked"
    /\ row' = [row EXCEPT !.place = @ + 1, !.version = loaded[p].version]
    /\ Finish(p)
    /\ UNCHANGED seen

\* One UPDATE by a transaction that has read nothing of the row.
UpdatePlace ==
    /\ lock = Nobody
    /\ row.place < MaxPlaces
    /\ row' = [row EXCEPT !.place = @ + 1]
    /\ UNCHANGED <<lock, phase, seen, loaded>>

\* An error, or the end of the process: the transaction is rolled back.
Rollback(p) ==
    /\ lock = p
    /\ Finish(p)
    /\ UNCHANGED <<row, seen>>

\* _sync_assignment_mirror: mirrors.filter(...).first()
ReadMirror(s) ==
    /\ phase[s] = "idle"
    /\ row.content < MaxChanges
    /\ loaded' = [loaded EXCEPT ![s] = row]
    /\ phase' = [phase EXCEPT ![s] = "read"]
    /\ UNCHANGED <<row, lock, seen>>

\* mirror.save(update_fields=...): it waits for the lock, then overwrites all
\* but the position and the column.
SaveMirror(s) ==
    /\ phase[s] = "read"
    /\ lock = Nobody
    /\ row' = [Changed(loaded[s]) EXCEPT !.place = row.place]
    /\ loaded' = [loaded EXCEPT ![s] = NoCopy]
    /\ phase' = [phase EXCEPT ![s] = "idle"]
    /\ UNCHANGED <<lock, seen>>

ClientStep(c) ==
    \/ AssertVersion(c)
    \/ VersionConflict(c)
    \/ SaveChecked(c)

Next ==
    \/ \E c \in Clients : Fetch(c) \/ ClientStep(c)
    \/ \E p \in Lockers : Submit(p) \/ SelectForUpdate(p) \/ Rollback(p)
    \/ \E p \in Services : SaveService(p)
    \/ \E p \in Arrangers : SaveArrangement(p)
    \/ UpdatePlace
    \/ \E s \in Mirrorings : ReadMirror(s) \/ SaveMirror(s)

\* A request runs on by itself once it has arrived; PostgreSQL serves the
\* waiters of a lock in the order of their arrival, so none waits for ever.
Fairness ==
    /\ \A p \in Lockers : SF_vars(SelectForUpdate(p))
    /\ \A c \in Clients : WF_vars(ClientStep(c))
    /\ \A p \in Services : WF_vars(SaveService(p))
    /\ \A p \in Arrangers : WF_vars(SaveArrangement(p))
    /\ \A s \in Mirrorings : WF_vars(SaveMirror(s))

Spec == Init /\ [][Next]_vars

FairSpec == Spec /\ Fairness

-----------------------------------------------------------------------------
(* Properties.                                                             *)

TypeOK ==
    /\ row \in Row
    /\ lock \in Lockers \cup {Nobody}
    /\ phase \in [Requests -> Phases]
    /\ seen \in [Clients -> Row \cup {NoCopy}]
    /\ loaded \in [Requests -> Row \cup {NoCopy}]

\* A client whose version is the current one has seen every write with a
\* version, although others put the version they have read back into the row:
\* this is what makes comparing version numbers (assert_version) enough to
\* detect a conflict.  It says nothing of the place, which may have changed.
VersionIdentifiesContent ==
    \A c \in Clients : seen[c] # NoCopy =>
        /\ seen[c].version <= row.version
        /\ seen[c].version = row.version => seen[c].content = row.content

\* The transaction that holds the lock works on the committed row.
LockedRowIsCurrent ==
    \A p \in Lockers :
        /\ phase[p] \in {"locked", "checked"} <=> lock = p
        /\ lock = p => loaded[p] = row
        /\ phase[p] = "checked" => loaded[p].version = seen[p].version

\* A client's change replaces only what that client has seen: nothing is
\* overwritten unnoticed (docs/ARCHITEKTUR.md:29).  The place it may not have
\* seen, and it leaves that as others have made it.
NoUnnoticedOverwrite ==
    [][\A c \in Clients : SaveChecked(c) =>
        /\ seen[c].content = row.content
        /\ row'.place = row.place]_vars

\* Every request that has arrived is answered, although requests wait for
\* each other's locks and some are rolled back.
EveryRequestEnds ==
    \A p \in Requests : phase[p] # "idle" ~> phase[p] = "idle"

\* Clients change only what they have seen: the promise of ConflictChecked,
\* for what is written with a version.
Promise == INSTANCE ConflictChecked WITH
    content <- row.content,
    copy <- [c \in Clients |->
                IF seen[c] = NoCopy THEN NoCopy ELSE seen[c].content]

KeepsPromise == Promise!CSpec
================================================================================
