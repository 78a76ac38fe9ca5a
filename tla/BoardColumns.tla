----------------------------- MODULE BoardColumns ------------------------------
(***************************************************************************)
(* The columns of one board and the order of the tasks in them             *)
(* (apps/workspaces/views.py, services.py).                                *)
(*                                                                         *)
(* A request is what its client and its view have read, and then a         *)
(* transaction.  A transaction compares versions under the locks of the    *)
(* rows it compares and keeps them until it commits, so it is one step, at *)
(* the commit.  Two kinds are two steps, for what they lock and read first *)
(* and write later: delete_with_move reads the greatest position of the    *)
(* target's tasks and locks none of them, and move_task numbers the tasks  *)
(* of a column as it has listed them.  (What is locked in several          *)
(* statements counts as locked with the last of them.)                     *)
(* Requests to create or reorder carry the version of the board, those to  *)
(* change or delete a column the version of that column. The intake of a   *)
(* personal board comes into being when somebody gives its owner a task:   *)
(* that transaction reads the columns without a lock, writes each one      *)
(* place on from where it has read it, and changes no version.             *)
(***************************************************************************)
EXTENDS Naturals, FiniteSets, SequencesExt

CONSTANTS
    ColumnIds,  \* primary keys of column rows, in the order they are given out
    Tasks,      \* tasks of the board, in the order of their creation
    Requests,   \* requests that may be under way at a time
    None,       \* SQL NULL; no request
    FirstColumns, \* number of columns of the board at the start
    MaxVersion, \* bound: version of the board up to which clients act on it
    MaxChanges, \* bound: version of the columns up to which clients act on them
    Handled,    \* bound: the tasks that clients move or archive
    MaxMoves    \* bound: requests to move a task under way at a time

ASSUME IdsOrdered == ColumnIds \subseteq Nat /\ Tasks \subseteq Nat
ASSUME TasksFinite == IsFiniteSet(Tasks)
ASSUME NoneIsNoId == None \notin ColumnIds
ASSUME FirstIdsExist == FirstColumns \in Nat /\ 0..FirstColumns - 1 \subseteq ColumnIds
ASSUME HandledAreTasks == Handled \subseteq Tasks
ASSUME BoundsAreNat == MaxVersion \in Nat /\ MaxChanges \in Nat /\ MaxMoves \in Nat

VARIABLES
    version,    \* version of the board
    columns,    \* columns[c]: the row of column c
    tasks,      \* tasks[t]: column and position of task t
    calls,      \* calls[r]: what request r has read before its transaction
    locked,     \* locked[r]: the tasks that request r has locked, to move them
    moves       \* what the requests to move a task have locked

vars == <<version, columns, tasks, calls, locked, moves>>

Column == [live : BOOLEAN, position : Nat, version : Nat, intake : BOOLEAN]

NoColumn == [live |-> FALSE, position |-> 0, version |-> 0, intake |-> FALSE]

NewColumn(position, intake) ==
    [live |-> TRUE, position |-> position, version |-> 1, intake |-> intake]

Task == [column : ColumnIds \cup {None}, position : Nat, archived : BOOLEAN]

Kinds == {"create", "reorder", "update", "deleteWithMove", "destroy", "intake"}

\* seen: the columns in the order in which the request has read them.
Call == [kind : Kinds, column : ColumnIds \cup {None},
         target : ColumnIds \cup {None}, version : Nat,
         seen : Seq(ColumnIds), order : Seq(ColumnIds), dynamic : BOOLEAN]

\* moving: the tasks that follow the deleted column's; found: all tasks, as
\* they were when it locked these.
Lock == [moving : Seq(Tasks), found : [Tasks -> Task]]

\* siblings: the tasks of the column, with the moved one at its new place;
\* left: the other tasks of the column that it leaves.
Move == [task : Tasks, column : ColumnIds, siblings : Seq(Tasks), left : Seq(Tasks)]

Live == {c \in ColumnIds : columns[c].live}

\* The elements of S as a sequence, each behind those that R puts before it.
Sorted(S, R) ==
    [i \in 1..Cardinality(S) |->
        CHOOSE e \in S : Cardinality({d \in S : <<d, e>> \in R}) = i - 1]

InOrder(C) ==
    Sorted(C, {p \in C \X C : columns[p[1]].position < columns[p[2]].position})

Order == InOrder(Live)

\* The place, counted from 0, of an element of a sequence.
Index(s, e) == (CHOOSE i \in DOMAIN s : s[i] = e) - 1

ActiveIn(c) == {t \in Tasks : tasks[t].column = c /\ ~tasks[t].archived}

\* Tasks that tie in their position are ordered by their creation.
TasksInOrder(T) ==
    Sorted(T, {p \in T \X T :
        \/ tasks[p[1]].position < tasks[p[2]].position
        \/ tasks[p[1]].position = tasks[p[2]].position /\ p[1] < p[2]})

\* Max("position") + 1, or 0 if there is none.
NextPosition(P) == IF P = {} THEN 0 ELSE Max(P) + 1

\* A new column has the first key that no row has and no request names.
FreeIds ==
    {c \in ColumnIds \ Live :
        /\ \A r \in Requests : calls[r] # None =>
            /\ c \notin {calls[r].column, calls[r].target}
            /\ c \notin ToSet(calls[r].seen)
        /\ \A m \in moves : c # m.column}

NewId == CHOOSE c \in FreeIds : \A d \in FreeIds : c <= d

-----------------------------------------------------------------------------
(* What a request knows before its transaction.                            *)

WithinBounds ==
    version <= MaxVersion /\ \A c \in Live : columns[c].version <= MaxChanges

Submit(r, call) ==
    /\ calls[r] = None
    /\ WithinBounds
    /\ calls' = [calls EXCEPT ![r] = call]
    /\ UNCHANGED <<version, columns, tasks, locked, moves>>

BoardCall(kind) ==
    [kind |-> kind, column |-> None, target |-> None, version |-> version,
     seen |-> <<>>, order |-> <<>>, dynamic |-> FALSE]

ColumnCall(kind, c) ==
    [BoardCall(kind) EXCEPT !.column = c, !.version = columns[c].version]

RequestCreate(r) == Submit(r, BoardCall("create"))

RequestReorder(r) ==
    \E order \in SetToSeqs(Live) :
        Submit(r, [BoardCall("reorder") EXCEPT !.seen = Order, !.order = order])

RequestUpdate(r) ==
    \E c \in Live : Submit(r, ColumnCall("update", c))

RequestDeleteWithMove(r) ==
    \E c \in Live, target \in Live :
        /\ ~columns[c].intake
        /\ target # c
        /\ Submit(r, [ColumnCall("deleteWithMove", c) EXCEPT !.target = target])

\* The view looks for active tasks before the transaction.
RequestDestroy(r) ==
    \E c \in Live :
        /\ ~columns[c].intake
        /\ ActiveIn(c) = {}
        /\ Submit(r, ColumnCall("destroy", c))

\* Somebody gives the owner a task; his setting is dynamic or not.  There is
\* nothing to do if an intake exists, or if one is not wanted and the task
\* has another column to go to.
ReadColumns(r) ==
    \E dynamic \in BOOLEAN :
        /\ \A c \in Live : ~columns[c].intake
        /\ dynamic \/ Live = {}
        /\ Submit(r, [BoardCall("intake") EXCEPT
                        !.version = 0, !.seen = Order, !.dynamic = dynamic])

-----------------------------------------------------------------------------
(* Transactions.                                                           *)

Pending(r, kind) == calls[r] # None /\ calls[r].kind = kind

\* Mutant of BoardIsAsSeen: the version is not compared.
BoardIsAny(call) == TRUE

BoardIsAsSeen(call) == call.version = version

ColumnIsAsSeen(call) ==
    /\ columns[call.column].live
    /\ call.version = columns[call.column].version

\* The rows of columns that request r has locked, to delete one of them.
HeldBy(r) == IF locked[r] = None THEN {} ELSE {calls[r].column, calls[r].target}

\* What writes every column waits for those that others hold.
NoOtherHolds(r) == \A q \in Requests \ {r} : locked[q] = None

Finish(r) ==
    /\ calls' = [calls EXCEPT ![r] = None]
    /\ locked' = [locked EXCEPT ![r] = None]
    /\ UNCHANGED moves

\* An error (404, 409, a constraint), a deadlock's victim, or the end of the
\* process: nothing is written.
Abort(r) ==
    /\ calls[r] # None
    /\ Finish(r)
    /\ UNCHANGED <<version, columns, tasks>>

CreateColumn(r) ==
    /\ Pending(r, "create")
    /\ BoardIsAsSeen(calls[r])
    /\ FreeIds # {}
    /\ columns' = [columns EXCEPT ![NewId] =
            NewColumn(NextPosition({columns[c].position : c \in Live}), FALSE)]
    /\ version' = version + 1
    /\ Finish(r)
    /\ UNCHANGED tasks

\* Mutant of Reindexed: the columns that are left keep their positions.
NotReindexed(order) ==
    [c \in ColumnIds |-> IF c \in ToSet(order) THEN columns[c] ELSE NoColumn]

\* _reindex_board_columns: the columns of the sequence, in its order.
Reindexed(order) ==
    [c \in ColumnIds |->
        IF c \in ToSet(order)
        THEN [columns[c] EXCEPT !.position = Index(order, c)]
        ELSE NoColumn]

ReorderColumns(r) ==
    /\ Pending(r, "reorder")
    /\ NoOtherHolds(r)
    /\ BoardIsAsSeen(calls[r])
    /\ ToSet(calls[r].order) = Live
    /\ \A c \in Live : columns[c].intake => Index(calls[r].order, c) = 0
    /\ columns' = Reindexed(calls[r].order)
    /\ version' = version + 1
    /\ Finish(r)
    /\ UNCHANGED tasks

UpdateColumn(r) ==
    /\ Pending(r, "update")
    /\ ColumnIsAsSeen(calls[r])
    /\ \A q \in Requests : calls[r].column \notin HeldBy(q)
    /\ columns' = [columns EXCEPT ![calls[r].column].version = @ + 1]
    /\ Finish(r)
    /\ UNCHANGED <<version, tasks>>

RowsOf(m) == ToSet(m.siblings) \cup ToSet(m.left)

MovingOf(r) == IF locked[r] = None THEN {} ELSE ToSet(locked[r].moving)

\* The rows of tasks that some transaction has locked.
LockedTasks ==
    (UNION {RowsOf(m) : m \in moves}) \cup (UNION {MovingOf(r) : r \in Requests})

\* delete_with_move, up to its look at the target: the two columns and the
\* active tasks of the one are locked, the tasks of the other are not.
LockTasks(r) ==
    /\ Pending(r, "deleteWithMove") /\ locked[r] = None
    /\ ColumnIsAsSeen(calls[r])
    /\ columns[calls[r].target].live
    /\ \A q \in Requests : {calls[r].column, calls[r].target} \cap HeldBy(q) = {}
    /\ ActiveIn(calls[r].column) \cap LockedTasks = {}
    /\ locked' = [locked EXCEPT ![r] =
            [moving |-> TasksInOrder(ActiveIn(calls[r].column)), found |-> tasks]]
    /\ UNCHANGED <<version, columns, tasks, calls, moves>>

\* The first place behind the active tasks of column c.
Behind(T, c) ==
    NextPosition({T[t].position : t \in {u \in Tasks : T[u].column = c /\ ~T[u].archived}})

\* Mutant of MovedTo: the moved tasks are numbered from the start.
MovedToFront(lock, target) ==
    [t \in Tasks |->
        IF t \in ToSet(lock.moving)
        THEN [tasks[t] EXCEPT !.column = target, !.position = Index(lock.moving, t)]
        ELSE tasks[t]]

\* The locked tasks, behind those that the target had when they were locked.
MovedTo(lock, target) ==
    [t \in Tasks |->
        IF t \in ToSet(lock.moving)
        THEN [tasks[t] EXCEPT
                !.column = target,
                !.position = Behind(lock.found, target) + Index(lock.moving, t)]
        ELSE tasks[t]]

\* Task.column is ON DELETE SET NULL.
Cleared(T, c) ==
    [t \in Tasks |->
        IF T[t].column = c THEN [T[t] EXCEPT !.column = None] ELSE T[t]]

\* The column goes, and its tasks, archived ones too, are written.
RemoveColumn(r) ==
    /\ NoOtherHolds(r)
    /\ \A m \in moves : \A t \in RowsOf(m) : tasks[t].column # calls[r].column
    /\ columns' = Reindexed(InOrder(Live \ {calls[r].column}))
    /\ version' = version + 1
    /\ Finish(r)

DeleteWithMove(r) ==
    /\ locked[r] # None
    /\ tasks' = Cleared(MovedTo(locked[r], calls[r].target), calls[r].column)
    /\ RemoveColumn(r)

Destroy(r) ==
    /\ Pending(r, "destroy")
    /\ ColumnIsAsSeen(calls[r])
    /\ tasks' = Cleared(tasks, calls[r].column)
    /\ RemoveColumn(r)

Shifted(seen) ==
    [c \in ColumnIds |->
        IF c \in ToSet(seen)
        THEN [columns[c] EXCEPT !.position = Index(seen, c) + 1]
        ELSE columns[c]]

\* The last column is written first.  No write may meet another column in its
\* place: one that is written later, or that has not been read at all.
ShiftIsUnique(seen) ==
    /\ ToSet(seen) \subseteq Live
    /\ \A i \in DOMAIN seen, d \in Live :
        columns[d].position = i => \E j \in i..Len(seen) : seen[j] = d
    /\ \A c \in Live : Shifted(seen)[c].position # 0 /\ ~columns[c].intake

CreateIntake(r) ==
    /\ Pending(r, "intake")
    /\ NoOtherHolds(r)
    /\ ShiftIsUnique(calls[r].seen)
    /\ FreeIds # {}
    /\ columns' = [Shifted(calls[r].seen) EXCEPT
                    ![NewId] = NewColumn(0, calls[r].dynamic)]
    /\ Finish(r)
    /\ UNCHANGED <<version, tasks>>

-----------------------------------------------------------------------------
(* Tasks.                                                                  *)

\* Places for the tasks of column c, with t at the given place among them.
Inserted(c, t, at) ==
    InsertAt(TasksInOrder(ActiveIn(c) \ {t}), at, t)

\* The other tasks of the column that t leaves for c.
LeftBy(t, c) ==
    IF tasks[t].column \in {None, c} THEN <<>>
    ELSE TasksInOrder(ActiveIn(tasks[t].column) \ {t})

\* move_task lists the tasks of the column, and of the one that t leaves.
LockSiblings(t) ==
    /\ WithinBounds
    /\ Cardinality(moves) < MaxMoves
    /\ \E c \in Live : \E at \in 1..Cardinality(ActiveIn(c) \ {t}) + 1 :
        LET m == [task |-> t, column |-> c,
                  siblings |-> Inserted(c, t, at), left |-> LeftBy(t, c)]
        IN  /\ RowsOf(m) \cap LockedTasks = {}
            /\ moves' = moves \cup {m}
    /\ UNCHANGED <<version, columns, tasks, calls, locked>>

\* The siblings in the column and those that are left behind, as listed.
Renumbered(m) ==
    [u \in Tasks |->
        IF u \in ToSet(m.siblings)
        THEN [tasks[u] EXCEPT !.column = m.column, !.position = Index(m.siblings, u)]
        ELSE IF u \in ToSet(m.left)
        THEN [tasks[u] EXCEPT !.position = Index(m.left, u)]
        ELSE tasks[u]]

\* A task comes to another column only if the column is there, and its row is
\* not held by a request that deletes it or moves tasks to it (foreign key).
MoveTask(m) ==
    /\ columns[m.column].live
    /\ tasks[m.task].column # m.column =>
            \A r \in Requests : m.column \notin HeldBy(r)
    /\ tasks' = Renumbered(m)
    /\ moves' = moves \ {m}
    /\ UNCHANGED <<version, columns, calls, locked>>

AbortMove(m) ==
    /\ moves' = moves \ {m}
    /\ UNCHANGED <<version, columns, tasks, calls, locked>>

\* archive_task, to archive and to restore: the column stays as it is.
ArchiveTask(t) ==
    /\ WithinBounds
    /\ t \notin LockedTasks
    /\ tasks' = [tasks EXCEPT ![t].archived = ~@]
    /\ UNCHANGED <<version, columns, calls, locked, moves>>

Init ==
    /\ version = 1
    /\ columns = [c \in ColumnIds |->
            IF c < FirstColumns THEN NewColumn(c, FALSE) ELSE NoColumn]
    /\ tasks \in [Tasks ->
            [column : 0..FirstColumns - 1, position : {0}, archived : {FALSE}]]
    /\ calls = [r \in Requests |-> None]
    /\ locked = [r \in Requests |-> None]
    /\ moves = {}

Arrive(r) ==
    \/ RequestCreate(r)
    \/ RequestReorder(r)
    \/ RequestUpdate(r)
    \/ RequestDeleteWithMove(r)
    \/ RequestDestroy(r)
    \/ ReadColumns(r)

Commit(r) ==
    \/ CreateColumn(r)
    \/ ReorderColumns(r)
    \/ UpdateColumn(r)
    \/ DeleteWithMove(r)
    \/ Destroy(r)
    \/ CreateIntake(r)

Next ==
    \/ \E r \in Requests : Arrive(r) \/ LockTasks(r) \/ Commit(r) \/ Abort(r)
    \/ \E t \in Handled : LockSiblings(t) \/ ArchiveTask(t)
    \/ \E m \in moves : MoveTask(m) \/ AbortMove(m)

Spec == Init /\ [][Next]_vars

-----------------------------------------------------------------------------
(* Properties.                                                             *)

TypeOK ==
    /\ version \in Nat
    /\ columns \in [ColumnIds -> Column]
    /\ tasks \in [Tasks -> Task]
    /\ calls \in [Requests -> Call \cup {None}]
    /\ locked \in [Requests -> Lock \cup {None}]
    /\ moves \subseteq Move

\* The columns stand at 0, 1, 2 ... without a gap, and the intake stands first
\* (test_dynamic_intake_column_must_remain_first), whatever requests meet.
ColumnsAreInOrder ==
    /\ {columns[c].position : c \in Live} = 0..Cardinality(Live) - 1
    /\ \A c \in Live : columns[c].intake => columns[c].position = 0

\* A client reorders the columns it has seen, in the order it has seen: the
\* board's version and the complete list of columns together notice every
\* change, even that of the intake, which has no version.
ReorderIsWhatWasSeen ==
    [][\A r \in Requests : ReorderColumns(r) => calls[r].seen = Order]_vars

\* Every task of column c is active and has a position of its own.
Tidy(T, c) ==
    \A t, u \in {v \in Tasks : T[v].column = c} :
        ~T[t].archived /\ (T[t].position = T[u].position => t = u)

\* Deleting a column with its tasks moved takes every task that was active
\* when they were locked, and leaves behind none but those restored since.  The
\* tasks come behind those of the target, though these are read without a lock
\* and renumbered meanwhile, if the target was tidy when it was read.
MovedTasksFollow ==
    [][\A r \in Requests : DeleteWithMove(r) =>
        LET c == calls[r].column
            target == calls[r].target
            found == locked[r].found
            moved == {t \in Tasks : found[t].column = c /\ ~found[t].archived}
        IN  /\ \A t \in moved : tasks'[t].column = target /\ ~tasks'[t].archived
            /\ \A t \in ActiveIn(c) \ moved : found[t].column = c
            /\ Tidy(found, target) => \A t \in ActiveIn(target), u \in moved :
                    tasks'[t].position < tasks'[u].position]_vars

\* The moved tasks come behind all of the target's.  Not kept: two tasks that
\* tie, or one restored meanwhile, are renumbered past the greatest position
\* that was read.
MovedTasksComeLast ==
    [][\A r \in Requests : DeleteWithMove(r) =>
        \A t \in ActiveIn(calls[r].target), u \in MovingOf(r) :
            tasks'[t].position < tasks'[u].position]_vars

\* destroy "deletes an empty column" (views.py:627).  Not kept: a task arrives
\* between the view's look for tasks and the transaction, and loses its column.
DestroyedColumnIsEmpty ==
    [][\A r \in Requests : Destroy(r) => ActiveIn(calls[r].column) = {}]_vars

\* A version of the board stands for one order of its columns.  Not kept: the
\* intake moves every column, and may undo a reorder, without a new version.
OrderChangesAreVersioned ==
    [][\A c, d \in Live :
        (columns'[c].live /\ columns'[d].live
         /\ columns[c].position < columns[d].position
         /\ columns'[d].position < columns'[c].position) => version' > version]_vars
================================================================================
