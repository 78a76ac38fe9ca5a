------------------------------ MODULE TaskMirrors ------------------------------
(***************************************************************************)
(* Tasks, subtasks and their personal mirrors (apps/workspaces).           *)
(*                                                                         *)
(* A task lives on a project board or on a user's personal board.  An      *)
(* assigned project task is copied to the intake of the assignee's         *)
(* personal board (an "assignment mirror"), an assigned subtask to the     *)
(* board of its own assignee (a "subtask mirror"); an unassigned one may   *)
(* wait in the project's pool until somebody claims it.  Every action is   *)
(* one request handler with all it calls: the locked write, the mirror     *)
(* synchronisation and the automation rules of its transaction.            *)
(*                                                                         *)
(* A handler that checks a version is atomic here: VersionedRow shows that *)
(* it behaves like one step.  Claiming a pool task checks none, so it is   *)
(* two steps, the view's look-up and the transaction.                      *)
(***************************************************************************)
EXTENDS Naturals, FiniteSets

CONSTANTS
    Users,      \* active members of the team; a user also names his board
    Projects,   \* projects; a project also names its board
    TaskIds,    \* primary keys of task rows, in the order they are given out
    SubIds,     \* primary keys of subtask rows
    None,       \* SQL NULL
    Requests,   \* bound: the kinds of requests that clients make
    MaxOriginals, \* bound: tasks at a time that are not mirrors
    MaxClaims   \* bound: claims at a time between look-up and transaction

ASSUME NoneIsNoId == None \notin Users \cup Projects \cup TaskIds \cup SubIds
ASSUME BoardsDisjoint == Users \cap Projects = {}
ASSUME TaskIdsOrdered == TaskIds \subseteq Nat
ASSUME RowIdsDisjoint == TaskIds \cap SubIds = {}

RequestKinds ==
    {"create", "update", "claim", "move", "complete", "archive", "destroy",
     "recur", "createSubtask", "updateSubtask", "destroySubtask"}

ASSUME RequestsAreKnown == Requests \subseteq RequestKinds
ASSUME BoundsAreNat == MaxOriginals \in Nat /\ MaxClaims \in Nat

VARIABLES
    tasks,      \* tasks[t]: the row of task t
    subs,       \* subs[x]: the row of subtask x
    stamped,    \* rows whose version the last transaction incremented
    renumbered, \* rows whose position it wrote, with the version as it was
    claims      \* <<t, u>>: u's claim of t has passed the view's look-up

vars == <<tasks, subs, stamped, renumbered, claims>>

\* Positions are left out of the rows: BoardColumns has them.

Task ==
    [live : BOOLEAN,
     board : Users \cup Projects \cup {None},
     placed : BOOLEAN,                  \* column_id is not NULL
     project : Projects \cup {None},
     poolSource : Projects \cup {None},
     assignee : Users \cup {None},
     shared : BOOLEAN,                  \* is_shared_pool
     done : BOOLEAN,
     archived : BOOLEAN,
     source : TaskIds \cup {None},
     sourceSub : SubIds \cup {None},
     parent : TaskIds \cup {None}]

Subtask ==
    [live : BOOLEAN,
     task : TaskIds \cup {None},
     assignee : Users \cup {None},
     done : BOOLEAN]

NoTask ==
    [live |-> FALSE, board |-> None, placed |-> FALSE, project |-> None,
     poolSource |-> None, assignee |-> None, shared |-> FALSE, done |-> FALSE,
     archived |-> FALSE, source |-> None, sourceSub |-> None, parent |-> None]

NoSubtask == [live |-> FALSE, task |-> None, assignee |-> None, done |-> FALSE]

NewTask == [NoTask EXCEPT !.live = TRUE]

OnProjectBoard(row) == row.board \in Projects

IsMirror(row) == row.source # None \/ row.sourceSub # None

-----------------------------------------------------------------------------
(* The tables a transaction works on.                                      *)

Database == [tasks |-> tasks, subs |-> subs, stamped |-> {}]

Write(db) ==
    /\ tasks' = db.tasks
    /\ subs' = db.subs
    /\ stamped' = db.stamped

Commit(db) == Write(db) /\ renumbered' = {}

\* Mutant of Save: a handler forgets increment_version.
SaveUnversioned(db, t, row) == [db EXCEPT !.tasks[t] = row]

Save(db, t, row) ==
    [db EXCEPT !.tasks[t] = row, !.stamped = @ \cup {t}]

SaveSubtask(db, x, row) ==
    [db EXCEPT !.subs[x] = row, !.stamped = @ \cup {x}]

\* Keys are never given out twice while something still refers to them.
FreeIds(db) ==
    {t \in TaskIds : /\ ~db.tasks[t].live
                     /\ ~tasks[t].live
                     /\ \A u \in Users : <<t, u>> \notin claims}

NextId(db) == {t \in FreeIds(db) : \A k \in FreeIds(db) : t <= k}

MayAddOriginal ==
    Cardinality({t \in TaskIds : tasks[t].live /\ ~IsMirror(tasks[t])}) < MaxOriginals

\* parent_task is ON DELETE CASCADE: the rows that go with those of D.
Descendants(db, D) ==
    {t \in TaskIds :
        \A S \in SUBSET TaskIds :
            (/\ D \subseteq S
             /\ \A c \in TaskIds : db.tasks[c].parent \in S => c \in S)
            => t \in S}

\* subtasks CASCADE with their task; source_task and source_subtask SET NULL.
Delete(db, D) ==
    LET gone == IF D = {} THEN {} ELSE Descendants(db, D)
        goneSubs == {x \in SubIds : db.subs[x].live /\ db.subs[x].task \in gone}
    IN  [db EXCEPT
            !.tasks = [t \in TaskIds |->
                IF t \in gone THEN NoTask
                ELSE [db.tasks[t] EXCEPT
                        !.source = IF @ \in gone THEN None ELSE @,
                        !.sourceSub = IF @ \in goneSubs THEN None ELSE @]],
            !.subs = [x \in SubIds |->
                IF x \in goneSubs THEN NoSubtask ELSE db.subs[x]]]

-----------------------------------------------------------------------------
(* Synchronising mirrors.  The targets are the rows the synchronisation may *)
(* write: an existing mirror or a new key, None when it only deletes.  The  *)
(* set is empty when the database refuses the write and the transaction     *)
(* rolls back.                                                              *)

AssignmentMirrors(db, t) ==
    {m \in TaskIds : /\ db.tasks[m].live
                     /\ db.tasks[m].source = t
                     /\ db.tasks[m].sourceSub = None
                     /\ db.tasks[m].board \in Users}

\* Mutant of AssigneesMirrors: a mirror on whatever board is taken for the
\* assignee's, so it is updated in place.
AnyMirrors(db, t) == AssignmentMirrors(db, t)

AssigneesMirrors(db, t) ==
    {m \in AssignmentMirrors(db, t) : db.tasks[m].board = db.tasks[t].assignee}

\* Mutant of HasMirror: done tasks are not mirrored.
HasOpenMirror(row) ==
    OnProjectBoard(row) /\ ~IsMirror(row) /\ row.assignee # None /\ ~row.done

HasMirror(row) == OnProjectBoard(row) /\ ~IsMirror(row) /\ row.assignee # None

MirrorTargets(db, t) ==
    IF ~HasMirror(db.tasks[t]) THEN {None}
    ELSE IF AssigneesMirrors(db, t) # {} THEN AssigneesMirrors(db, t)
    ELSE NextId(db)

SyncAssignmentMirror(db, t, m) ==
    LET row == db.tasks[t]
        cleaned == Delete(db, AssignmentMirrors(db, t) \ AssigneesMirrors(db, t))
    IN  IF m = None
        THEN Delete(db, AssignmentMirrors(db, t))
        ELSE IF db.tasks[m].live
        THEN Save(cleaned, m,
                [cleaned.tasks[m] EXCEPT !.project = row.project,
                                         !.assignee = row.assignee,
                                         !.done = row.done,
                                         !.archived = row.archived])
        ELSE [cleaned EXCEPT !.tasks[m] =
                [NewTask EXCEPT !.board = row.assignee, !.placed = TRUE,
                                !.project = row.project, !.source = t,
                                !.assignee = row.assignee, !.done = row.done]]

\* Mutant of SubtaskMirrors: only the board of the present assignee is searched.
SubtaskMirrorsOfAssignee(db, x) ==
    {m \in TaskIds : /\ db.tasks[m].live
                     /\ db.tasks[m].sourceSub = x
                     /\ db.tasks[m].board = db.subs[x].assignee}

SubtaskMirrors(db, x) ==
    {m \in TaskIds : db.tasks[m].live /\ db.tasks[m].sourceSub = x}

\* Mutant of SubtaskMirrorTargets: an unassigned subtask keeps its mirror.
UnassignedSubtaskTargets(db, x) ==
    IF ~OnProjectBoard(db.tasks[db.subs[x].task]) THEN {None}
    ELSE IF SubtaskMirrors(db, x) # {}
    THEN {m \in SubtaskMirrors(db, x) : ~db.tasks[m].shared}
    ELSE NextId(db)

\* An assigned row in the pool would break task_pool_requires_unassigned.
SubtaskMirrorTargets(db, x) ==
    IF ~OnProjectBoard(db.tasks[db.subs[x].task]) \/ db.subs[x].assignee = None
    THEN {None}
    ELSE IF SubtaskMirrors(db, x) # {}
    THEN {m \in SubtaskMirrors(db, x) : ~db.tasks[m].shared}
    ELSE NextId(db)

SyncSubtaskMirror(db, x, m) ==
    LET sub == db.subs[x]
        base == IF db.tasks[m].live THEN db.tasks[m] ELSE NewTask
        mirror == [base EXCEPT !.board = sub.assignee,
                               !.placed = @ \/ base.board # sub.assignee,
                               !.project = db.tasks[sub.task].project,
                               !.parent = sub.task,
                               !.source = sub.task, !.sourceSub = x,
                               !.assignee = sub.assignee, !.done = sub.done]
    IN  IF m = None
        THEN Delete(db, SubtaskMirrors(db, x))
        ELSE IF db.tasks[m].live THEN Save(db, m, mirror)
        ELSE [db EXCEPT !.tasks[m] = mirror]

\* At most one rule moves the task to another column of its board, which the
\* database refuses for a pool task (task_pool_requires_no_column).
RunAutomation(db, t, fires) ==
    IF fires THEN Save(db, t, [db.tasks[t] EXCEPT !.placed = TRUE]) ELSE db

\* Moving a task that is in a column already changes nothing here.
MayFire(row, fires) == fires => ~row.shared /\ ~row.placed

-----------------------------------------------------------------------------
(* Task handlers.                                                          *)

CreateTask(board, assignee, share, fires) ==
    /\ MayAddOriginal
    /\ share => board \in Projects      \* else the owner would be assigned
    /\ LET owner == IF assignee = None THEN board ELSE assignee
           shared == share /\ assignee = None
           row == IF board \in Users
                  THEN [NewTask EXCEPT !.board = owner, !.placed = TRUE,
                                       !.assignee = owner]
                  ELSE [NewTask EXCEPT !.board = board, !.project = board,
                                       !.assignee = assignee, !.shared = shared,
                                       !.placed = ~shared]
       IN  /\ MayFire(row, fires)
           /\ \E t \in NextId(Database) :
                LET created == [Database EXCEPT !.tasks[t] = row]
                IN  \E m \in MirrorTargets(created, t) :
                      Commit(RunAutomation(
                        SyncAssignmentMirror(created, t, m), t, fires))
    /\ UNCHANGED claims

\* Task.clean: a project of its own, unless the row is a mirror.
IsClean(row) ==
    /\ row.shared => row.assignee = None /\ ~row.placed
    /\ row.project # None /\ row.board # row.project => IsMirror(row)

\* The project to whose pool the task belongs.
PoolOf(row) == IF row.poolSource # None THEN row.poolSource ELSE row.project

\* Mutant of GoesToPerson: a personal task handed on stays where it is.
OnlyPoolGoesToPerson(row, supplied, assignee) ==
    row.shared /\ supplied /\ assignee # None

\* The task moves to the assignee's own board.
GoesToPerson(row, supplied, assignee) ==
    \/ row.shared /\ assignee # None
    \/ row.board \in Users /\ supplied /\ assignee \notin {None, row.board}

\* share: what isSharedPool asks for, if supplied; the assignee is the
\* current one unless another is supplied.
UpdateTask(t, share, supplied, assignee, newColumn, fires) ==
    LET row == tasks[t]
        pool == PoolOf(row)
        toPool ==
            \/ share = "share"
            \/ supplied /\ assignee = None /\ pool # None
        toPerson == GoesToPerson(row, supplied, assignee)
        stillShared == row.shared /\ assignee = None /\ share # "withdraw"
        updated ==
            IF toPool
            THEN [row EXCEPT !.poolSource = pool, !.project = pool,
                             !.board = pool, !.placed = FALSE,
                             !.assignee = None, !.shared = TRUE]
            ELSE IF toPerson
            THEN [row EXCEPT !.poolSource = pool, !.project = None,
                             !.board = assignee, !.placed = TRUE,
                             !.assignee = assignee, !.shared = FALSE]
            ELSE [row EXCEPT !.assignee = assignee, !.shared = stillShared,
                             !.placed = ~stillShared /\ (@ \/ newColumn)]
        saved == Save(Database, t, updated)
        triggered ==
            \/ updated.assignee # row.assignee
            \/ newColumn /\ ~toPool /\ ~toPerson
    IN  /\ row.live
        /\ supplied \/ assignee = row.assignee
        /\ share = "withdraw" => row.shared        \* else nothing changes
        /\ newColumn => ~row.placed                \* else nothing changes
        /\ toPool => pool # None
        /\ IsClean(updated)
        /\ MayFire(updated, fires)
        /\ fires => triggered
        /\ \E m \in MirrorTargets(saved, t) :
             Commit(RunAutomation(SyncAssignmentMirror(saved, t, m), t, fires))
        /\ UNCHANGED claims

\* TaskViewSet.claim, up to the transaction: the task is in the pool.
RequestClaim(t, u) ==
    /\ tasks[t].live
    /\ tasks[t].shared
    /\ tasks[t].assignee = None
    /\ ~tasks[t].archived
    /\ Cardinality(claims) < MaxClaims
    /\ claims' = claims \cup {<<t, u>>}
    /\ UNCHANGED <<tasks, subs, stamped, renumbered>>

ClaimPoolTask(t, u) ==
    LET row == tasks[t]
        claimed == Save(Database, t,
            [row EXCEPT !.board = u, !.poolSource = row.project,
                        !.project = None, !.placed = TRUE, !.assignee = u,
                        !.shared = FALSE])
        withdrawn == [claimed EXCEPT !.subs = [x \in SubIds |->
            IF subs[x].live /\ subs[x].task = t /\ subs[x].assignee # u
            THEN [subs[x] EXCEPT !.assignee = None] ELSE subs[x]]]
    IN  /\ <<t, u>> \in claims
        /\ row.live
        /\ row.shared
        /\ claims' = claims \ {<<t, u>>}
        /\ Commit(SyncAssignmentMirror(withdrawn, t, None))

\* The task has left the pool (ConflictError) or is gone.
ClaimRejected(t, u) ==
    /\ <<t, u>> \in claims
    /\ ~(tasks[t].live /\ tasks[t].shared)
    /\ claims' = claims \ {<<t, u>>}
    /\ UNCHANGED <<tasks, subs, stamped, renumbered>>

\* The tasks that may be in the column t comes to or in the one it leaves.
Siblings(t) ==
    {u \in TaskIds \ {t} : /\ tasks[u].live /\ tasks[u].board = tasks[t].board
                          /\ tasks[u].placed /\ ~tasks[u].archived}

\* Mutant of MoveTask: task_pool_requires_no_column is missing.
MoveAnyTask(t) ==
    /\ tasks[t].live
    /\ Write(Save(Database, t, [tasks[t] EXCEPT !.placed = TRUE]))
    /\ renumbered' \in SUBSET Siblings(t)
    /\ UNCHANGED claims

\* The siblings get new positions, not new versions.  A rule that fires on
\* entering the column places the task once more.
MoveTask(t) ==
    /\ tasks[t].live
    /\ ~tasks[t].shared                 \* task_pool_requires_no_column
    /\ Write(Save(Database, t, [tasks[t] EXCEPT !.placed = TRUE]))
    /\ renumbered' \in SUBSET Siblings(t)
    /\ UNCHANGED claims

\* Mutant of CompletionTarget: the source of a mirror is forgotten.
CompletesItself(t) == t

\* The task that a completion of t is about: the source of an assignment mirror.
CompletionTarget(t) ==
    IF tasks[t].source # None /\ tasks[t].sourceSub = None
    THEN tasks[t].source ELSE t

\* Completing an assignment mirror completes its source, which writes the
\* mirrors again; the handler fails if that has deleted its own row.  The
\* subtask of a subtask mirror is updated without a new version.
SetTaskCompleted(t, completed, fires) ==
    LET row == tasks[t]
        synced == CompletionTarget(t)
        own == Save(Database, t, [row EXCEPT !.done = completed])
        both == Save(own, synced, [own.tasks[synced] EXCEPT !.done = completed])
        ticked == IF row.sourceSub = None THEN both
                  ELSE [both EXCEPT !.subs[row.sourceSub].done = completed]
    IN  /\ row.live
        /\ MayFire(row, fires)
        /\ \E m \in MirrorTargets(ticked, synced) :
             LET result == SyncAssignmentMirror(ticked, synced, m)
             IN  /\ result.tasks[t].live
                 /\ Commit(RunAutomation(result, t, fires))
        /\ UNCHANGED claims

ArchiveTask(t, archived) ==
    LET saved == Save(Database, t, [tasks[t] EXCEPT !.archived = archived])
    IN  /\ tasks[t].live
        /\ \E m \in MirrorTargets(saved, t) :
             Commit(SyncAssignmentMirror(saved, t, m))
        /\ UNCHANGED claims

DestroyTask(t) ==
    /\ tasks[t].live
    /\ LET mirrors == {m \in TaskIds : /\ tasks[m].live
                                       /\ tasks[m].source = t
                                       /\ tasks[m].sourceSub = None}
       IN  Commit(Delete(Delete(Database, mirrors), {t}))
    /\ UNCHANGED claims

\* run_due_recurrences: a plain copy of a task that has a due rule.
CloneRecurringTask(t) ==
    /\ MayAddOriginal
    /\ tasks[t].live
    /\ \E n \in NextId(Database) :
         Commit([Database EXCEPT !.tasks[n] =
            [NewTask EXCEPT !.board = tasks[t].board, !.placed = tasks[t].placed,
                            !.project = tasks[t].project,
                            !.assignee = tasks[t].assignee]])
    /\ UNCHANGED claims

-----------------------------------------------------------------------------
(* Subtask handlers.                                                       *)

\* On a personal board a subtask can only be given to the board's owner.
MayTakeSubtask(t, assignee) ==
    tasks[t].board \in Users => assignee \in {None, tasks[t].board}

CreateSubtask(x, t, assignee) ==
    LET created == [Database EXCEPT !.subs[x] =
            [NoSubtask EXCEPT !.live = TRUE, !.task = t, !.assignee = assignee]]
    IN  /\ ~subs[x].live
        /\ tasks[t].live
        /\ MayTakeSubtask(t, assignee)
        /\ \E m \in SubtaskMirrorTargets(created, x) :
             Commit(SyncSubtaskMirror(created, x, m))
        /\ UNCHANGED claims

UpdateSubtask(x, supplied, assignee, done) ==
    LET saved == SaveSubtask(Database, x,
            [subs[x] EXCEPT !.assignee = IF supplied THEN assignee ELSE @,
                            !.done = done])
    IN  /\ subs[x].live
        /\ supplied => MayTakeSubtask(subs[x].task, assignee)
        /\ \E m \in SubtaskMirrorTargets(saved, x) :
             Commit(SyncSubtaskMirror(saved, x, m))
        /\ UNCHANGED claims

\* Mutant of DestroySubtask: on_delete=DO_NOTHING.
DestroySubtaskKeepsLink(x) ==
    /\ subs[x].live
    /\ Commit([Database EXCEPT !.subs[x] = NoSubtask])
    /\ UNCHANGED claims

\* The mirror stays; its source_subtask is SET NULL, its source_task is not.
DestroySubtask(x) ==
    /\ subs[x].live
    /\ Commit([Database EXCEPT
                !.subs[x] = NoSubtask,
                !.tasks = [t \in TaskIds |->
                    [tasks[t] EXCEPT !.sourceSub = IF @ = x THEN None ELSE @]]])
    /\ UNCHANGED claims

-----------------------------------------------------------------------------
Init ==
    /\ tasks = [t \in TaskIds |-> NoTask]
    /\ subs = [x \in SubIds |-> NoSubtask]
    /\ stamped = {}
    /\ renumbered = {}
    /\ claims = {}

Next ==
    \/ /\ "create" \in Requests
       /\ \E board \in Users \cup Projects, u \in Users \cup {None},
             share, fires \in BOOLEAN :
            CreateTask(board, u, share, fires)
    \/ /\ "update" \in Requests
       /\ \E t \in TaskIds, share \in {"keep", "share", "withdraw"},
             u \in Users \cup {None}, supplied, newColumn, fires \in BOOLEAN :
            UpdateTask(t, share, supplied, u, newColumn, fires)
    \/ /\ "claim" \in Requests
       /\ \E t \in TaskIds, u \in Users :
            RequestClaim(t, u) \/ ClaimPoolTask(t, u) \/ ClaimRejected(t, u)
    \/ "move" \in Requests /\ \E t \in TaskIds : MoveTask(t)
    \/ /\ "complete" \in Requests
       /\ \E t \in TaskIds, completed, fires \in BOOLEAN :
            SetTaskCompleted(t, completed, fires)
    \/ /\ "archive" \in Requests
       /\ \E t \in TaskIds, archived \in BOOLEAN : ArchiveTask(t, archived)
    \/ "destroy" \in Requests /\ \E t \in TaskIds : DestroyTask(t)
    \/ "recur" \in Requests /\ \E t \in TaskIds : CloneRecurringTask(t)
    \/ /\ "createSubtask" \in Requests
       /\ \E x \in SubIds, t \in TaskIds, u \in Users \cup {None} :
            CreateSubtask(x, t, u)
    \/ /\ "updateSubtask" \in Requests
       /\ \E x \in SubIds, u \in Users \cup {None}, supplied, done \in BOOLEAN :
            UpdateSubtask(x, supplied, u, done)
    \/ "destroySubtask" \in Requests /\ \E x \in SubIds : DestroySubtask(x)

Spec == Init /\ [][Next]_vars

-----------------------------------------------------------------------------
(* Properties.                                                             *)

\* The tables hold rows of their types; board_id and task_id are NOT NULL.
TypeOK ==
    /\ tasks \in [TaskIds -> Task]
    /\ \A t \in TaskIds : tasks[t].live => tasks[t].board # None
    /\ subs \in [SubIds -> Subtask]
    /\ \A x \in SubIds : subs[x].live => subs[x].task # None
    /\ stamped \subseteq TaskIds \cup SubIds
    /\ renumbered \subseteq TaskIds
    /\ claims \subseteq TaskIds \X Users

\* Whatever sequence of handlers a task went through, a task of the pool is
\* unassigned, in no column, and on the board of the project whose members
\* look for it, so it can be claimed again.
PoolTaskIsClaimable ==
    \A t \in TaskIds : tasks[t].live /\ tasks[t].shared =>
        /\ tasks[t].assignee = None
        /\ ~tasks[t].placed
        /\ tasks[t].project \in Projects
        /\ tasks[t].board = tasks[t].project

\* A personal board holds nothing that somebody else is responsible for,
\* although assignment, hand-over, claim and synchronisation all write it.
PersonalBoardIsOwn ==
    \A t \in TaskIds : tasks[t].live /\ tasks[t].board \in Users =>
        tasks[t].assignee \in {None, tasks[t].board}

\* The assignment mirrors nobody has taken out of their role: a subtask
\* mirror keeps its parent, a row handed on keeps its pool source.
Mirrors(t) ==
    {m \in TaskIds : /\ tasks[m].live
                     /\ tasks[m].source = t
                     /\ tasks[m].parent = None
                     /\ tasks[m].poolSource = None}

\* A task has at most one mirror, the mirror is on the board of the person
\* the task is assigned to, and only a project task that is no mirror itself
\* has one: reassigning, releasing, claiming and deleting leave none behind.
MirrorFollowsAssignment ==
    \A t \in TaskIds : \A m \in Mirrors(t) :
        /\ Mirrors(t) = {m}
        /\ tasks[t].live /\ OnProjectBoard(tasks[t]) /\ ~IsMirror(tasks[t])
        /\ tasks[m].board = tasks[t].assignee

\* A subtask has at most one mirror, for the subtask's own task.
SubtaskMirrorIsUnique ==
    \A x \in SubIds, m \in TaskIds : tasks[m].live /\ tasks[m].sourceSub = x =>
        /\ subs[x].live
        /\ tasks[m].parent = subs[x].task
        /\ \A n \in TaskIds : tasks[n].live /\ tasks[n].sourceSub = x => n = m

Survives(t) == tasks[t].live /\ tasks'[t].live

\* Once anything but the column of a project task has changed, only its
\* assignee has mirrors of it, and one that agrees with it; a mirror made by
\* this very change starts unarchived.
AssigneeSeesTask ==
    [][\A t \in TaskIds :
        /\ Survives(t)
        /\ OnProjectBoard(tasks'[t]) /\ ~IsMirror(tasks'[t])
        /\ [tasks'[t] EXCEPT !.placed = tasks[t].placed] # tasks[t]
        => /\ \A m \in AssignmentMirrors(Database, t)' :
                 tasks'[m].board = tasks'[t].assignee
           /\ tasks'[t].assignee # None =>
                 \E m \in AssignmentMirrors(Database, t)' :
                    /\ tasks'[m].done = tasks'[t].done
                    /\ tasks[m].live => tasks'[m].archived = tasks'[t].archived]_vars

\* Ticking off a mirror reaches what it mirrors: its source task, or the
\* subtask of which it is the copy, is done exactly when the mirror is.  (A
\* mirror that is itself the source of another follows that one.)
CompletionReachesSource ==
    [][\A m \in TaskIds :
        /\ Survives(m) /\ tasks'[m].done # tasks[m].done
        /\ \A c \in TaskIds : tasks'[c].source # m
        =>
          /\ tasks'[m].sourceSub # None =>
                subs'[tasks'[m].sourceSub].done = tasks'[m].done
          /\ tasks'[m].sourceSub = None /\ tasks'[m].source # None =>
                tasks'[tasks'[m].source].done = tasks'[m].done]_vars

\* A task that leaves a project board for a person's board remembers the
\* project, so it can go back to that project's pool.
LeavingRemembersProject ==
    [][\A t \in TaskIds :
        Survives(t) /\ OnProjectBoard(tasks[t]) /\ tasks'[t].board \in Users =>
          tasks'[t].poolSource = tasks[t].board]_vars

Content(row) == [row EXCEPT !.source = None, !.sourceSub = None]

\* Whoever changes a task's board, project, pool, parent, assignee or state, or
\* puts it into a column, by any path, gives it a new version: only then can
\* assert_version notice that a client's copy is stale.  Positions are written
\* without one, see PositionsAreVersioned.
TaskChangesAreVersioned ==
    [][\A t \in TaskIds :
        Survives(t) /\ Content(tasks'[t]) # Content(tasks[t]) =>
          t \in stamped']_vars

\* The same of positions.  Not kept: move_task renumbers the other tasks of both
\* columns and increments only the version of the one it moves.
PositionsAreVersioned == [][renumbered' \subseteq stamped']_vars

\* The same of subtasks (docs/ARCHITEKTUR.md:29: every mutable resource has
\* a version number that reveals a stale write).
SubtaskChangesAreVersioned ==
    [][\A x \in SubIds :
        subs[x].live /\ subs'[x].live /\ subs'[x] # subs[x] => x \in stamped']_vars

\* Project tasks are in a column or in the pool: update_task "erzwingt
\* konsistente Pool- und Zuweisungszustaende" (services.py:787).
ProjectTaskIsVisible ==
    \A t \in TaskIds : tasks[t].live /\ OnProjectBoard(tasks[t]) =>
        tasks[t].placed \/ tasks[t].shared

\* _assignment_mirrors returns "persoenliche Spiegelungen einer vollstaendig
\* zugewiesenen Projektaufgabe" (services.py:613).
AssignmentMirrorsAreAssigned ==
    \A t \in TaskIds : tasks[t].live /\ AssignmentMirrors(Database, t) # {} =>
        tasks[t].assignee # None

\* The rows in the table pass Task.clean, "prueft relationale Konsistenz"
\* (models.py:392).
RowsAreClean == \A t \in TaskIds : tasks[t].live => IsClean(tasks[t])

\* A claim takes a visible task of the pool, "eine sichtbare Poolaufgabe"
\* (views.py:733), never an archived one.
ClaimedTaskIsVisible ==
    [][\A t \in TaskIds, u \in Users :
        ClaimPoolTask(t, u) => ~tasks[t].archived]_vars
=============================================================================
