-------------------------- MODULE TaskMirrors_proofs ---------------------------
(* Proofs about TaskMirrors, for any number of users, projects and rows.      *)
(* Each operation on the tables is shown, once, to keep every row good and    *)
(* the links between the rows in order, and the synchronisation to settle     *)
(* what the write before it has left open; each handler is then a sequence    *)
(* of operations.                                                             *)
EXTENDS TaskMirrors, TLAPS

\* A row that TypeOK, PoolTaskIsClaimable and PersonalBoardIsOwn allow.
RowOK(row) ==
    row.live =>
        /\ row.board # None
        /\ row.shared =>
              /\ row.assignee = None
              /\ ~row.placed
              /\ row.project \in Projects
              /\ row.board = row.project
        /\ row.board \in Users => row.assignee \in {None, row.board}

GoodTasks == {row \in Task : RowOK(row)}

GoodSubtasks == {sub \in Subtask : sub.live => sub.task # None}

GoodDatabases ==
    [tasks : [TaskIds -> GoodTasks],
     subs : [SubIds -> GoodSubtasks],
     stamped : SUBSET (TaskIds \cup SubIds)]

LEMMA NoTaskIsGood == NoTask \in GoodTasks /\ NoSubtask \in GoodSubtasks
  BY DEF NoTask, NoSubtask, GoodTasks, GoodSubtasks, Task, Subtask, RowOK

-----------------------------------------------------------------------------
(* Operations on the tables.                                               *)

LEMMA SaveGood ==
    ASSUME NEW db \in GoodDatabases, NEW t \in TaskIds, NEW row \in GoodTasks
    PROVE  /\ Save(db, t, row) \in GoodDatabases
           /\ Save(db, t, row).tasks = [db.tasks EXCEPT ![t] = row]
           /\ Save(db, t, row).subs = db.subs
  BY DEF Save, GoodDatabases

LEMMA SaveSubtaskGood ==
    ASSUME NEW db \in GoodDatabases, NEW x \in SubIds, NEW sub \in GoodSubtasks
    PROVE  /\ SaveSubtask(db, x, sub) \in GoodDatabases
           /\ SaveSubtask(db, x, sub).tasks = db.tasks
           /\ SaveSubtask(db, x, sub).subs = [db.subs EXCEPT ![x] = sub]
  BY DEF SaveSubtask, GoodDatabases

LEMMA InsertGood ==
    ASSUME NEW db \in GoodDatabases, NEW t \in TaskIds, NEW row \in GoodTasks
    PROVE  /\ [db EXCEPT !.tasks[t] = row] \in GoodDatabases
           /\ [db EXCEPT !.tasks[t] = row].tasks = [db.tasks EXCEPT ![t] = row]
           /\ [db EXCEPT !.tasks[t] = row].subs = db.subs
  BY DEF GoodDatabases

\* What is left of a row when the rows it refers to are deleted.
Unlinked(row, s, x) == [row EXCEPT !.source = s, !.sourceSub = x]

LEMMA UnlinkGood ==
    ASSUME NEW row \in GoodTasks,
           NEW s \in TaskIds \cup {None}, NEW x \in SubIds \cup {None}
    PROVE  /\ Unlinked(row, s, x) \in GoodTasks
           /\ Unlinked(row, s, x).live = row.live
           /\ Unlinked(row, s, x).shared = row.shared
           /\ Unlinked(row, s, x).board = row.board
           /\ Unlinked(row, s, x).assignee = row.assignee
  <1> DEFINE unlinked == Unlinked(row, s, x)
  <1>1. unlinked \in Task
    BY DEF GoodTasks, Task, Unlinked
  <1>2. /\ unlinked.live = row.live
        /\ unlinked.shared = row.shared
        /\ unlinked.board = row.board
        /\ unlinked.assignee = row.assignee
        /\ unlinked.placed = row.placed
        /\ unlinked.project = row.project
    BY DEF GoodTasks, Task, Unlinked
  <1> QED
    BY <1>1, <1>2 DEF GoodTasks, RowOK

\* Deleting removes rows or clears references; it makes no other change.
LEMMA DeleteGood ==
    ASSUME NEW db \in GoodDatabases, NEW D \in SUBSET TaskIds
    PROVE  /\ Delete(db, D) \in GoodDatabases
           /\ \A t \in TaskIds :
                 \/ Delete(db, D).tasks[t] = NoTask
                 \/ \E s \in TaskIds \cup {None}, x \in SubIds \cup {None} :
                       Delete(db, D).tasks[t] = Unlinked(db.tasks[t], s, x)
  <1> DEFINE gone == IF D = {} THEN {} ELSE Descendants(db, D)
             goneSubs == {x \in SubIds : db.subs[x].live /\ db.subs[x].task \in gone}
             T == [t \in TaskIds |->
                     IF t \in gone THEN NoTask
                     ELSE [db.tasks[t] EXCEPT
                             !.source = IF @ \in gone THEN None ELSE @,
                             !.sourceSub = IF @ \in goneSubs THEN None ELSE @]]
             S == [x \in SubIds |->
                     IF x \in goneSubs THEN NoSubtask ELSE db.subs[x]]
  <1>1. Delete(db, D) = [db EXCEPT !.tasks = T, !.subs = S]
    BY DEF Delete
  <1>2. ASSUME NEW t \in TaskIds
        PROVE  \/ T[t] = NoTask
               \/ \E s \in TaskIds \cup {None}, x \in SubIds \cup {None} :
                     T[t] = Unlinked(db.tasks[t], s, x)
    <2> DEFINE s == IF db.tasks[t].source \in gone THEN None ELSE db.tasks[t].source
               x == IF db.tasks[t].sourceSub \in goneSubs
                    THEN None ELSE db.tasks[t].sourceSub
    <2>1. db.tasks[t] \in Task
      BY DEF GoodDatabases, GoodTasks
    <2>2. s \in TaskIds \cup {None} /\ x \in SubIds \cup {None}
      BY <2>1 DEF Task
    <2>3. CASE t \notin gone
      <3>1. T[t] = Unlinked(db.tasks[t], s, x)
        BY <2>1, <2>3 DEF Task, Unlinked
      <3> HIDE DEF s, x, T
      <3> QED
        BY <2>2, <3>1
    <2> QED
      BY <2>3
  <1>3. \A t \in TaskIds : T[t] \in GoodTasks
    <2> TAKE t \in TaskIds
    <2>1. db.tasks[t] \in GoodTasks
      BY DEF GoodDatabases
    <2> HIDE DEF T
    <2> QED
      BY <1>2, <2>1, NoTaskIsGood, UnlinkGood
  <1>4. T \in [TaskIds -> GoodTasks]
    <2>1. T = [t \in TaskIds |-> T[t]]
      OBVIOUS
    <2> HIDE DEF T
    <2> QED
      BY <1>3, <2>1
  <1>5. S \in [SubIds -> GoodSubtasks]
    BY NoTaskIsGood DEF GoodDatabases
  <1> HIDE DEF T, S
  <1>6. /\ [db EXCEPT !.tasks = T, !.subs = S] \in GoodDatabases
        /\ [db EXCEPT !.tasks = T, !.subs = S].tasks = T
    BY <1>4, <1>5 DEF GoodDatabases
  <1>7. Delete(db, D).tasks = T
    BY <1>1, <1>6
  <1> HIDE DEF gone, goneSubs
  <1> QED
    BY <1>1, <1>2, <1>6, <1>7

-----------------------------------------------------------------------------
(* Synchronisation and automation.                                         *)

\* No row gets into the pool.
PoolShrinks(db, result) ==
    \A t \in TaskIds : result.tasks[t].shared => db.tasks[t].shared

LEMMA DeleteShrinks ==
    ASSUME NEW db \in GoodDatabases, NEW D \in SUBSET TaskIds
    PROVE  PoolShrinks(db, Delete(db, D))
  <1> SUFFICES ASSUME NEW t \in TaskIds, Delete(db, D).tasks[t].shared
               PROVE  db.tasks[t].shared
    BY DEF PoolShrinks
  <1>1. db.tasks[t] \in GoodTasks
    BY DEF GoodDatabases
  <1>2. ~NoTask.shared
    BY DEF NoTask
  <1> QED
    BY <1>1, <1>2, DeleteGood, UnlinkGood

LEMMA MirrorTargetsTyped ==
    ASSUME NEW db \in GoodDatabases, NEW t \in TaskIds, NEW m \in MirrorTargets(db, t)
    PROVE  /\ m \in TaskIds \cup {None}
           /\ m # None =>
                 /\ db.tasks[t].assignee \in Users
                 /\ db.tasks[m].live =>
                       /\ db.tasks[m].board = db.tasks[t].assignee
                       /\ db.tasks[m].board \in Users
  <1>1. db.tasks[t] \in Task
    BY DEF GoodDatabases, GoodTasks
  <1>2. m \in {None} \cup AssigneesMirrors(db, t) \cup NextId(db)
    BY DEF MirrorTargets
  <1>3. m # None => HasMirror(db.tasks[t])
    BY DEF MirrorTargets
  <1>4. HasMirror(db.tasks[t]) => db.tasks[t].assignee \in Users
    BY <1>1 DEF HasMirror, Task
  <1> QED
    BY <1>2, <1>3, <1>4
    DEF AssigneesMirrors, AssignmentMirrors, NextId, FreeIds

LEMMA SyncAssignmentMirrorGood ==
    ASSUME NEW db \in GoodDatabases, NEW t \in TaskIds, NEW m \in MirrorTargets(db, t)
    PROVE  LET result == SyncAssignmentMirror(db, t, m)
           IN  result \in GoodDatabases /\ PoolShrinks(db, result)
  <1> DEFINE row == db.tasks[t]
             D == AssignmentMirrors(db, t) \ AssigneesMirrors(db, t)
             cleaned == Delete(db, D)
             old == [cleaned.tasks[m] EXCEPT !.project = row.project,
                                             !.assignee = row.assignee,
                                             !.done = row.done,
                                             !.archived = row.archived]
             new == [NewTask EXCEPT !.board = row.assignee, !.placed = TRUE,
                                    !.project = row.project, !.source = t,
                                    !.assignee = row.assignee, !.done = row.done]
  <1>1. AssignmentMirrors(db, t) \in SUBSET TaskIds /\ D \in SUBSET TaskIds
    BY DEF AssignmentMirrors
  <1>2. row \in Task /\ db.tasks \in [TaskIds -> GoodTasks]
    BY DEF GoodDatabases, GoodTasks
  <1>3. cleaned \in GoodDatabases /\ PoolShrinks(db, cleaned)
    BY <1>1, DeleteGood, DeleteShrinks
  <1>4. cleaned.tasks \in [TaskIds -> GoodTasks]
    BY <1>3 DEF GoodDatabases
  <1>5. CASE m = None
    BY <1>5, <1>1, DeleteGood, DeleteShrinks DEF SyncAssignmentMirror
  <1>6. CASE m # None /\ db.tasks[m].live
    <2>1. m \in TaskIds
      BY <1>6, MirrorTargetsTyped
    <2>2. /\ row.assignee \in Users
          /\ db.tasks[m].board = row.assignee
      BY <1>6, MirrorTargetsTyped
    <2>3. ~db.tasks[m].shared
      BY <1>6, <2>1, <2>2, <1>2, BoardsDisjoint DEF GoodTasks, RowOK
    <2>4. /\ cleaned.tasks[m] \in Task
          /\ ~cleaned.tasks[m].shared
          /\ cleaned.tasks[m].live => cleaned.tasks[m].board = row.assignee
      <3>1. cleaned.tasks[m] \in Task
        BY <2>1, <1>4 DEF GoodTasks
      <3>2. cleaned.tasks[m].shared => db.tasks[m].shared
        BY <2>1, <1>3 DEF PoolShrinks
      <3>3. ~NoTask.live
        BY DEF NoTask
      <3>4. db.tasks[m] \in GoodTasks
        BY <2>1, <1>2
      <3>5. \/ cleaned.tasks[m] = NoTask
            \/ \E s \in TaskIds \cup {None}, x \in SubIds \cup {None} :
                  cleaned.tasks[m] = Unlinked(db.tasks[m], s, x)
        <4> HIDE DEF D
        <4> QED
          BY <2>1, <1>1, DeleteGood
      <3>6. cleaned.tasks[m].live => cleaned.tasks[m].board = row.assignee
        <4> HIDE DEF cleaned
        <4>1. ASSUME NEW s \in TaskIds \cup {None}, NEW x \in SubIds \cup {None}
              PROVE  Unlinked(db.tasks[m], s, x).board = db.tasks[m].board
          BY <3>4, UnlinkGood
        <4> HIDE DEF row
        <4> QED
          BY <2>2, <3>3, <3>5, <4>1
      <3> QED
        BY <2>3, <3>1, <3>2, <3>6
    <2>5. old \in Task
      BY <2>4, <1>2 DEF Task
    <2>6. /\ old.live = cleaned.tasks[m].live
          /\ old.board = cleaned.tasks[m].board
          /\ ~old.shared
          /\ old.assignee = row.assignee
      BY <2>4, <1>2 DEF Task
    <2>7. old \in GoodTasks
      BY <2>2, <2>4, <2>5, <2>6, NoneIsNoId DEF GoodTasks, RowOK
    <2>8. SyncAssignmentMirror(db, t, m) = Save(cleaned, m, old)
      BY <1>6 DEF SyncAssignmentMirror
    <2>9. ~old.shared
      BY <2>6
    <2> HIDE DEF old, cleaned
    <2>10. /\ Save(cleaned, m, old) \in GoodDatabases
          /\ Save(cleaned, m, old).tasks = [cleaned.tasks EXCEPT ![m] = old]
      BY <1>3, <2>1, <2>7, SaveGood
    <2> QED
      BY <1>3, <1>4, <2>9, <2>8, <2>10 DEF PoolShrinks
  <1>7. CASE m # None /\ ~db.tasks[m].live
    <2>1. m \in TaskIds /\ row.assignee \in Users
      BY <1>7, MirrorTargetsTyped
    <2>2. new \in Task
      BY <2>1, <1>2 DEF Task, NewTask, NoTask
    <2>3. ~new.shared /\ new.board = row.assignee /\ new.assignee = row.assignee
      BY DEF NewTask, NoTask
    <2>4. new \in GoodTasks
      BY <2>1, <2>2, <2>3, NoneIsNoId DEF GoodTasks, RowOK
    <2>5. SyncAssignmentMirror(db, t, m) = [cleaned EXCEPT !.tasks[m] = new]
      BY <1>7 DEF SyncAssignmentMirror
    <2>6. ~new.shared
      BY <2>3
    <2> HIDE DEF new, cleaned
    <2>7. /\ [cleaned EXCEPT !.tasks[m] = new] \in GoodDatabases
          /\ [cleaned EXCEPT !.tasks[m] = new].tasks = [cleaned.tasks EXCEPT ![m] = new]
      BY <1>3, <2>1, <2>4, InsertGood
    <2> QED
      BY <1>3, <1>4, <2>6, <2>5, <2>7 DEF PoolShrinks
  <1> QED
    BY <1>5, <1>6, <1>7

LEMMA SyncSubtaskMirrorGood ==
    ASSUME NEW db \in GoodDatabases, NEW x \in SubIds, db.subs[x].live,
           NEW m \in SubtaskMirrorTargets(db, x)
    PROVE  SyncSubtaskMirror(db, x, m) \in GoodDatabases
  <1> DEFINE sub == db.subs[x]
             base == IF db.tasks[m].live THEN db.tasks[m] ELSE NewTask
             mirror == [base EXCEPT !.board = sub.assignee,
                                    !.placed = @ \/ base.board # sub.assignee,
                                    !.project = db.tasks[sub.task].project,
                                    !.parent = sub.task,
                                    !.source = sub.task, !.sourceSub = x,
                                    !.assignee = sub.assignee, !.done = sub.done]
  <1>1. /\ sub \in Subtask /\ sub.task \in TaskIds
        /\ db.tasks \in [TaskIds -> GoodTasks]
        /\ db.tasks[sub.task] \in Task
    <2>1. sub \in GoodSubtasks /\ db.tasks \in [TaskIds -> GoodTasks]
      BY DEF GoodDatabases
    <2>2. sub \in Subtask /\ sub.task \in TaskIds
      BY <2>1 DEF GoodSubtasks, Subtask
    <2> QED
      BY <2>1, <2>2 DEF GoodTasks
  <1>2. CASE m = None
    <2>1. SubtaskMirrors(db, x) \in SUBSET TaskIds
      BY DEF SubtaskMirrors
    <2> QED
      BY <1>2, <2>1, DeleteGood DEF SyncSubtaskMirror
  <1>3. CASE m # None
    <2>1. /\ m \in TaskIds
          /\ sub.assignee \in Users
          /\ db.tasks[m].live => ~db.tasks[m].shared
      <3>1. sub.assignee # None
        BY <1>3 DEF SubtaskMirrorTargets
      <3> QED
        BY <1>1, <1>3, <3>1
        DEF SubtaskMirrorTargets, SubtaskMirrors, NextId, FreeIds, Subtask
    <2>2. base \in Task /\ ~base.shared
      <3>1. NewTask \in Task /\ ~NewTask.shared
        BY DEF NewTask, NoTask, Task
      <3> QED
        BY <2>1, <1>1, <3>1 DEF GoodTasks
    <2> HIDE DEF base
    <2>3. mirror \in Task
      <3>1. /\ db.tasks[sub.task].project \in Projects \cup {None}
            /\ sub.done \in BOOLEAN
        BY <1>1 DEF Task, Subtask
      <3>2. ASSUME NEW p \in BOOLEAN, NEW u \in Users, NEW j \in Projects \cup {None},
                   NEW t \in TaskIds, NEW d \in BOOLEAN
            PROVE  [base EXCEPT !.board = u, !.placed = p, !.project = j,
                                !.parent = t, !.source = t, !.sourceSub = x,
                                !.assignee = u, !.done = d] \in Task
        BY <2>2 DEF Task
      <3> DEFINE placed == base.placed \/ base.board # sub.assignee
      <3>3. placed \in BOOLEAN
        OBVIOUS
      <3>4. mirror = [base EXCEPT !.board = sub.assignee, !.placed = placed,
                                  !.project = db.tasks[sub.task].project,
                                  !.parent = sub.task,
                                  !.source = sub.task, !.sourceSub = x,
                                  !.assignee = sub.assignee, !.done = sub.done]
        OBVIOUS
      <3> HIDE DEF placed, mirror, sub
      <3> QED
        BY <2>1, <1>1, <3>1, <3>2, <3>3, <3>4
    <2>4. ~mirror.shared /\ mirror.board = sub.assignee /\ mirror.assignee = sub.assignee
      BY <2>2 DEF Task
    <2>5. mirror \in GoodTasks
      BY <2>1, <2>3, <2>4, NoneIsNoId DEF GoodTasks, RowOK
    <2>6. SyncSubtaskMirror(db, x, m) \in {Save(db, m, mirror), [db EXCEPT !.tasks[m] = mirror]}
      BY <1>3 DEF SyncSubtaskMirror, base
    <2> HIDE DEF mirror
    <2>7. Save(db, m, mirror) \in GoodDatabases
      BY <2>1, <2>5, SaveGood
    <2>8. [db EXCEPT !.tasks[m] = mirror] \in GoodDatabases
      BY <2>1, <2>5, InsertGood
    <2> QED
      BY <2>6, <2>7, <2>8
  <1> QED
    BY <1>2, <1>3

\* A rule may move any row but one of the pool.
LEMMA RunAutomationGood ==
    ASSUME NEW db \in GoodDatabases, NEW t \in TaskIds, NEW fires \in BOOLEAN,
           fires => ~db.tasks[t].shared
    PROVE  RunAutomation(db, t, fires) \in GoodDatabases
  <1> DEFINE moved == [db.tasks[t] EXCEPT !.placed = TRUE]
  <1>1. db.tasks[t] \in GoodTasks
    BY DEF GoodDatabases
  <1>2. CASE fires
    <2>1. moved \in Task
      BY <1>1 DEF GoodTasks, Task
    <2>2. /\ ~moved.shared
          /\ moved.live = db.tasks[t].live
          /\ moved.board = db.tasks[t].board
          /\ moved.assignee = db.tasks[t].assignee
      BY <1>1, <1>2 DEF GoodTasks, Task
    <2>3. moved \in GoodTasks
      BY <1>1, <2>1, <2>2 DEF GoodTasks, RowOK
    <2>4. RunAutomation(db, t, fires) = Save(db, t, moved)
      BY <1>2 DEF RunAutomation
    <2> HIDE DEF moved
    <2>5. Save(db, t, moved) \in GoodDatabases
      BY <2>3, SaveGood
    <2> QED
      BY <2>4, <2>5
  <1>3. CASE ~fires
    BY <1>3 DEF RunAutomation
  <1> QED
    BY <1>2, <1>3

-----------------------------------------------------------------------------
(* The links between rows.  That a mirror follows its task is not inductive: *)
(* the synchronisation finds the mirrors of a task by their board, and a row *)
(* that was once a mirror stays in the table when it is handed on or loses   *)
(* its subtask.  The invariant says how every row is linked; what Follows    *)
(* adds may fail for the one task a handler has just written, until the      *)
(* synchronisation puts it right.                                            *)

\* Mirrors(t) of TaskMirrors, in the table T.
MirrorOf(T, m, t) ==
    /\ T[m].live
    /\ T[m].source = t
    /\ T[m].parent = None
    /\ T[m].poolSource = None

\* What a row says by itself: a task on a project board is a task of that
\* project, only living rows are on boards, and a row with a parent mirrors
\* that parent.
RowShape(row) ==
    /\ row.board \in Projects => row.project = row.board
    /\ row.board # None => row.live
    /\ row.parent # None => row.source = row.parent

SubtaskLinks(T, S) ==
    \A x \in SubIds, m \in TaskIds : T[m].live /\ T[m].sourceSub = x =>
        /\ S[x].live
        /\ T[m].parent = S[x].task
        /\ \A n \in TaskIds : T[n].live /\ T[n].sourceSub = x => n = m

\* A mirror is where the synchronisation looks for it, and it is the only one.
MirrorLinks(T) ==
    \A t, m \in TaskIds : MirrorOf(T, m, t) =>
        /\ T[m].board \in Users
        /\ T[m].project # None
        /\ \A n \in TaskIds : MirrorOf(T, n, t) => n = m

\* What an assignment mirror refers to is there, and is no mirror.
SourceLinks(T) ==
    \A t, m \in TaskIds : T[m].live /\ T[m].source = t /\ T[m].parent = None =>
        T[t].live /\ T[t].source = None

\* So are the task of a subtask and the parent of a subtask mirror.
ParentLinks(T, S) ==
    /\ \A t, m \in TaskIds : T[m].live /\ T[m].parent = t => T[t].live
    /\ \A x \in SubIds : S[x].live => T[S[x].task].live

Links(T, S) ==
    /\ SubtaskLinks(T, S)
    /\ \A t \in TaskIds : RowShape(T[t])
    /\ MirrorLinks(T)
    /\ SourceLinks(T)
    /\ ParentLinks(T, S)

Follows(T, t) ==
    \A m \in TaskIds : MirrorOf(T, m, t) =>
        /\ T[t].live
        /\ OnProjectBoard(T[t])
        /\ ~IsMirror(T[t])
        /\ T[m].board = T[t].assignee

InOrder(db) ==
    /\ Links(db.tasks, db.subs)
    /\ \A t \in TaskIds : Follows(db.tasks, t)

\* All is in order but the mirrors of t.
InOrderBut(db, t) ==
    /\ Links(db.tasks, db.subs)
    /\ \A u \in TaskIds \ {t} : Follows(db.tasks, u)

\* The fields that links are made of.
Alike(row, new) ==
    /\ new.live = row.live
    /\ new.board = row.board
    /\ new.project = row.project
    /\ new.poolSource = row.poolSource
    /\ new.assignee = row.assignee
    /\ new.source = row.source
    /\ new.sourceSub = row.sourceSub
    /\ new.parent = row.parent

SameSubtasks(S, S2) ==
    \A x \in SubIds : S2[x].live = S[x].live /\ S2[x].task = S[x].task

Tables == [TaskIds -> Task]

SubTables == [SubIds -> GoodSubtasks]

\* A subtask mirror is never taken for an assignment mirror.
LEMMA MirrorsHaveNoSubtask ==
    ASSUME NEW T \in Tables, NEW S \in SubTables, Links(T, S),
           NEW t \in TaskIds, NEW m \in TaskIds, MirrorOf(T, m, t)
    PROVE  T[m].sourceSub = None
  <1>1. T[m].sourceSub \in SubIds \cup {None}
    BY DEF Tables, Task
  <1>2. ASSUME NEW x \in SubIds, T[m].sourceSub = x PROVE FALSE
    <2>1. S[x].live /\ T[m].parent = S[x].task
      BY <1>2 DEF Links, SubtaskLinks, MirrorOf
    <2>2. S[x].task # None
      BY <2>1 DEF SubTables, GoodSubtasks
    <2> QED
      BY <2>1, <2>2 DEF MirrorOf
  <1> QED
    BY <1>1, <1>2

\* Writes that leave the links alone.
LEMMA AlikeKeepsLinks ==
    ASSUME NEW T, NEW T2, NEW S \in SubTables, NEW S2, Links(T, S),
           \A t \in TaskIds : Alike(T[t], T2[t]), SameSubtasks(S, S2)
    PROVE  /\ Links(T2, S2)
           /\ \A t \in TaskIds : Follows(T, t) => Follows(T2, t)
  <1>1. \A m, t \in TaskIds : MirrorOf(T2, m, t) <=> MirrorOf(T, m, t)
    BY DEF MirrorOf, Alike
  <1>2. SubtaskLinks(T2, S2)
    BY DEF Links, SubtaskLinks, Alike, SameSubtasks
  <1>3. \A t \in TaskIds : RowShape(T2[t])
    BY DEF Links, RowShape, Alike
  <1>4. MirrorLinks(T2)
    BY <1>1 DEF Links, MirrorLinks, Alike
  <1>5. ParentLinks(T2, S2)
    <2>1. \A x \in SubIds : S[x].live => S[x].task \in TaskIds
      BY DEF SubTables, GoodSubtasks, Subtask
    <2> QED
      BY <2>1 DEF Links, ParentLinks, Alike, SameSubtasks
  <1>6. SourceLinks(T2)
    BY DEF Links, SourceLinks, Alike
  <1>7. ASSUME NEW t \in TaskIds, Follows(T, t) PROVE Follows(T2, t)
    BY <1>1, <1>7 DEF Follows, Alike, OnProjectBoard, IsMirror
  <1> QED
    BY <1>2, <1>3, <1>4, <1>7, <1>6, <1>5 DEF Links

\* A handler writes the row of a task.  It keeps the row's references and,
\* unless it takes the row out of its role as a mirror, its place.
Rewrites(row, new) ==
    /\ row.live /\ new.live
    /\ new.source = row.source
    /\ new.sourceSub = row.sourceSub
    /\ new.parent = row.parent
    /\ RowShape(new)
    /\ new.poolSource = None =>
          /\ row.poolSource = None
          /\ row.project # None => new.board = row.board /\ new.project # None

LEMMA RewriteKeepsLinks ==
    ASSUME NEW T \in Tables, NEW S \in SubTables, Links(T, S),
           NEW t \in TaskIds, NEW row \in Task, Rewrites(T[t], row)
    PROVE  /\ Links([T EXCEPT ![t] = row], S)
           /\ \A u \in TaskIds \ {t} :
                 Follows(T, u) => Follows([T EXCEPT ![t] = row], u)
  <1> DEFINE T2 == [T EXCEPT ![t] = row]
  <1>1. T2[t] = row /\ \A u \in TaskIds \ {t} : T2[u] = T[u]
    BY DEF Tables
  <1> HIDE DEF T2
  <1>2. \A m, u \in TaskIds :
           MirrorOf(T2, m, u) =>
              /\ MirrorOf(T, m, u)
              /\ T2[m].board = T[m].board
              /\ T2[m].project # None
    <2>1. \A m, u \in TaskIds :
             MirrorOf(T2, m, u) =>
                /\ MirrorOf(T, m, u)
                /\ T[m].project # None =>
                      T2[m].board = T[m].board /\ T2[m].project # None
      BY <1>1 DEF MirrorOf, Rewrites
    <2> QED
      BY <2>1 DEF Links, MirrorLinks
  <1>3. SubtaskLinks(T2, S)
    <2>1. \A m \in TaskIds : /\ T2[m].live <=> T[m].live
                             /\ T2[m].sourceSub = T[m].sourceSub
                             /\ T2[m].parent = T[m].parent
      BY <1>1 DEF Rewrites
    <2> QED
      BY <2>1 DEF Links, SubtaskLinks
  <1>4. \A u \in TaskIds : RowShape(T2[u])
    BY <1>1 DEF Links, Rewrites
  <1>5. MirrorLinks(T2)
    BY <1>2 DEF Links, MirrorLinks
  <1>6. ParentLinks(T2, S)
    <2>1. \A m \in TaskIds : (T2[m].live <=> T[m].live) /\ T2[m].parent = T[m].parent
      BY <1>1 DEF Rewrites
    <2>2. \A x \in SubIds : S[x].live => S[x].task \in TaskIds
      BY DEF SubTables, GoodSubtasks, Subtask
    <2> QED
      BY <2>1, <2>2 DEF Links, ParentLinks
  <1>7. SourceLinks(T2)
    <2>1. \A m \in TaskIds : /\ T2[m].live <=> T[m].live
                             /\ T2[m].source = T[m].source
                             /\ T2[m].parent = T[m].parent
      BY <1>1 DEF Rewrites
    <2> QED
      BY <2>1 DEF Links, SourceLinks
  <1>8. ASSUME NEW u \in TaskIds \ {t}, Follows(T, u) PROVE Follows(T2, u)
    BY <1>1, <1>2, <1>8 DEF Follows
  <1> QED
    BY <1>3, <1>4, <1>5, <1>8, <1>7, <1>6 DEF Links, T2

\* A new row that mirrors nothing takes a key nothing refers to.
IsOriginal(row) ==
    /\ row.live
    /\ row.source = None /\ row.sourceSub = None /\ row.parent = None
    /\ RowShape(row)

LEMMA OriginalKeepsLinks ==
    ASSUME NEW T \in Tables, NEW S \in SubTables, Links(T, S),
           NEW t \in TaskIds, ~T[t].live, \A u \in TaskIds : Follows(T, u),
           NEW row \in Task, IsOriginal(row)
    PROVE  /\ Links([T EXCEPT ![t] = row], S)
           /\ \A u \in TaskIds : Follows([T EXCEPT ![t] = row], u)
  <1> DEFINE T2 == [T EXCEPT ![t] = row]
  <1>1. T2[t] = row /\ \A u \in TaskIds \ {t} : T2[u] = T[u]
    BY DEF Tables
  <1> HIDE DEF T2
  <1>2. \A m, u \in TaskIds :
           MirrorOf(T2, m, u) => m # t /\ u # t /\ MirrorOf(T, m, u)
    <2>1. \A m, u \in TaskIds : MirrorOf(T2, m, u) => m # t /\ MirrorOf(T, m, u)
      BY <1>1, NoneIsNoId DEF MirrorOf, IsOriginal
    <2>2. \A m \in TaskIds : ~MirrorOf(T, m, t)
      BY DEF Follows
    <2> QED
      BY <2>1, <2>2
  <1>3. SubtaskLinks(T2, S)
    <2>1. \A m \in TaskIds, x \in SubIds :
             T2[m].live /\ T2[m].sourceSub = x =>
                m # t /\ T[m].live /\ T[m].sourceSub = x /\ T2[m] = T[m]
      BY <1>1, NoneIsNoId DEF IsOriginal
    <2> QED
      BY <2>1 DEF Links, SubtaskLinks
  <1>4. \A u \in TaskIds : RowShape(T2[u])
    BY <1>1 DEF Links, IsOriginal
  <1>5. MirrorLinks(T2)
    BY <1>1, <1>2 DEF Links, MirrorLinks
  <1>6. ParentLinks(T2, S)
    <2>1. \A x \in SubIds : S[x].live => S[x].task \in TaskIds
      BY DEF SubTables, GoodSubtasks, Subtask
    <2> QED
      BY <1>1, <2>1, NoneIsNoId DEF Links, ParentLinks, IsOriginal
  <1>7. SourceLinks(T2)
    BY <1>1, NoneIsNoId DEF Links, SourceLinks, IsOriginal
  <1>8. ASSUME NEW u \in TaskIds PROVE Follows(T2, u)
    BY <1>1, <1>2 DEF Follows
  <1> QED
    BY <1>3, <1>4, <1>5, <1>8, <1>7, <1>6 DEF Links, T2

-----------------------------------------------------------------------------
(* Deleting.                                                               *)

\* The rows of gone are deleted from db, which leaves result.
Pruned(db, result, gone) ==
    /\ \A t \in gone : result.tasks[t] = NoTask
    /\ \A t \in TaskIds \ gone :
          /\ db.tasks[t].parent \notin gone
          /\ \E s \in {db.tasks[t].source, None}, x \in {db.tasks[t].sourceSub, None} :
                /\ result.tasks[t] = Unlinked(db.tasks[t], s, x)
                /\ s \notin gone
                /\ db.tasks[t].source \notin gone => s = db.tasks[t].source
                /\ x # None /\ db.subs[x].live => db.subs[x].task \notin gone
                /\ \/ x = db.tasks[t].sourceSub
                   \/ db.subs[db.tasks[t].sourceSub].task \in gone
    /\ \A x \in SubIds :
          /\ result.subs[x] \in {db.subs[x], NoSubtask}
          /\ db.subs[x].task \in gone => ~result.subs[x].live
    /\ \A x \in SubIds :
          db.subs[x].live /\ db.subs[x].task \notin gone => result.subs[x] = db.subs[x]

LEMMA DescendantsAreClosed ==
    ASSUME NEW db, NEW D \in SUBSET TaskIds
    PROVE  /\ D \subseteq Descendants(db, D)
           /\ \A c \in TaskIds :
                 db.tasks[c].parent \in Descendants(db, D) => c \in Descendants(db, D)
           /\ \A t \in TaskIds \ D :
                 db.tasks[t].parent \notin Descendants(db, D) =>
                    t \notin Descendants(db, D)
  <1>1. D \subseteq Descendants(db, D)
    BY DEF Descendants
  <1>2. ASSUME NEW c \in TaskIds, db.tasks[c].parent \in Descendants(db, D)
        PROVE  c \in Descendants(db, D)
    BY <1>2 DEF Descendants
  <1>3. ASSUME NEW t \in TaskIds \ D, db.tasks[t].parent \notin Descendants(db, D)
        PROVE  t \notin Descendants(db, D)
    <2> DEFINE R == Descendants(db, D) \ {t}
    <2>1. R \in SUBSET TaskIds /\ D \subseteq R
      BY <1>1 DEF Descendants
    <2>2. \A c \in TaskIds : db.tasks[c].parent \in R => c \in R
      BY <1>2, <1>3
    <2>3. t \notin R
      OBVIOUS
    <2> HIDE DEF R
    <2> QED
      BY <2>1, <2>2, <2>3 DEF Descendants
  <1> QED
    BY <1>1, <1>2, <1>3

LEMMA DeletePrunes ==
    ASSUME NEW db \in GoodDatabases, NEW D \in SUBSET TaskIds
    PROVE  \E gone \in SUBSET TaskIds :
              /\ D \subseteq gone
              /\ Pruned(db, Delete(db, D), gone)
              /\ \A t \in TaskIds \ D : db.tasks[t].parent \notin gone => t \notin gone
  <1> DEFINE gone == IF D = {} THEN {} ELSE Descendants(db, D)
             goneSubs == {x \in SubIds : db.subs[x].live /\ db.subs[x].task \in gone}
             T == [t \in TaskIds |->
                     IF t \in gone THEN NoTask
                     ELSE [db.tasks[t] EXCEPT
                             !.source = IF @ \in gone THEN None ELSE @,
                             !.sourceSub = IF @ \in goneSubs THEN None ELSE @]]
             S == [x \in SubIds |->
                     IF x \in goneSubs THEN NoSubtask ELSE db.subs[x]]
  <1>1. Delete(db, D) = [db EXCEPT !.tasks = T, !.subs = S]
    BY DEF Delete
  <1>2. gone \in SUBSET TaskIds /\ D \subseteq gone
    BY DescendantsAreClosed DEF Descendants
  <1>3. /\ \A c \in TaskIds : db.tasks[c].parent \in gone => c \in gone
        /\ \A t \in TaskIds \ D : db.tasks[t].parent \notin gone => t \notin gone
    BY DescendantsAreClosed
  <1> HIDE DEF gone
  <1>4. \A t \in gone : T[t] = NoTask
    BY <1>2
  <1>5. ASSUME NEW t \in TaskIds \ gone
        PROVE  \E s \in {db.tasks[t].source, None}, x \in {db.tasks[t].sourceSub, None} :
                  /\ T[t] = Unlinked(db.tasks[t], s, x)
                  /\ s \notin gone
                  /\ db.tasks[t].source \notin gone => s = db.tasks[t].source
                  /\ x # None /\ db.subs[x].live => db.subs[x].task \notin gone
                  /\ \/ x = db.tasks[t].sourceSub
                     \/ db.subs[db.tasks[t].sourceSub].task \in gone
    <2> DEFINE s == IF db.tasks[t].source \in gone THEN None ELSE db.tasks[t].source
               x == IF db.tasks[t].sourceSub \in goneSubs
                    THEN None ELSE db.tasks[t].sourceSub
    <2>1. db.tasks[t] \in Task
      BY DEF GoodDatabases, GoodTasks
    <2>2. T[t] = Unlinked(db.tasks[t], s, x)
      BY <2>1 DEF Task, Unlinked
    <2>3. s \notin gone /\ (db.tasks[t].source \notin gone => s = db.tasks[t].source)
      BY <1>2, NoneIsNoId
    <2>4. x # None /\ db.subs[x].live => db.subs[x].task \notin gone
      <3>1. db.tasks[t].sourceSub \in SubIds \cup {None}
        BY <2>1 DEF Task
      <3> QED
        BY <3>1
    <2>5. s \in {db.tasks[t].source, None} /\ x \in {db.tasks[t].sourceSub, None}
      OBVIOUS
    <2>6. x = db.tasks[t].sourceSub \/ db.subs[db.tasks[t].sourceSub].task \in gone
      OBVIOUS
    <2> HIDE DEF s, x, T
    <2> QED
      BY <2>2, <2>3, <2>4, <2>5, <2>6
  <1>6. \A x \in SubIds :
           db.subs[x].live /\ db.subs[x].task \notin gone => S[x] = db.subs[x]
    OBVIOUS
  <1>7. \A x \in SubIds :
           /\ S[x] \in {db.subs[x], NoSubtask}
           /\ db.subs[x].task \in gone => ~S[x].live
    BY DEF NoSubtask
  <1> HIDE DEF T, S
  <1>8. Delete(db, D).tasks = T /\ Delete(db, D).subs = S
    BY <1>1 DEF GoodDatabases
  <1>9. Pruned(db, Delete(db, D), gone)
    <2>1. \A t \in TaskIds \ gone : db.tasks[t].parent \notin gone
      BY <1>3
    <2> DEFINE result == Delete(db, D)
    <2>2. result.tasks = T /\ result.subs = S
      BY <1>8
    <2> HIDE DEF result
    <2>3. \A t \in gone : result.tasks[t] = NoTask
      BY <1>4, <2>2
    <2>4. \A t \in TaskIds \ gone :
             \E s \in {db.tasks[t].source, None}, x \in {db.tasks[t].sourceSub, None} :
                /\ result.tasks[t] = Unlinked(db.tasks[t], s, x)
                /\ s \notin gone
                /\ db.tasks[t].source \notin gone => s = db.tasks[t].source
                /\ x # None /\ db.subs[x].live => db.subs[x].task \notin gone
                /\ \/ x = db.tasks[t].sourceSub
                   \/ db.subs[db.tasks[t].sourceSub].task \in gone
      BY <1>5, <2>2
    <2>5. \A x \in SubIds :
             /\ result.subs[x] \in {db.subs[x], NoSubtask}
             /\ db.subs[x].task \in gone => ~result.subs[x].live
      BY <1>7, <2>2
    <2>6. \A x \in SubIds :
             db.subs[x].live /\ db.subs[x].task \notin gone => result.subs[x] = db.subs[x]
      BY <1>6, <2>2
    <2>7. Pruned(db, result, gone)
      BY <2>1, <2>3, <2>4, <2>5, <2>6, Zenon DEF Pruned
    <2> QED
      BY <2>7 DEF result
  <1> QED
    BY <1>2, <1>3, <1>9

\* A row that survives keeps all but its references.
Survivor(row, new) ==
    /\ new.live = row.live
    /\ new.board = row.board
    /\ new.project = row.project
    /\ new.poolSource = row.poolSource
    /\ new.assignee = row.assignee
    /\ new.parent = row.parent
    /\ new.source \in {row.source, None}
    /\ new.sourceSub \in {row.sourceSub, None}

LEMMA PrunedRows ==
    ASSUME NEW db \in GoodDatabases, NEW result, NEW gone \in SUBSET TaskIds,
           Pruned(db, result, gone), NEW t \in TaskIds \ gone
    PROVE  /\ Survivor(db.tasks[t], result.tasks[t])
           /\ db.tasks[t].parent \notin gone
           /\ result.tasks[t].source \notin gone
           /\ db.tasks[t].source \notin gone =>
                 result.tasks[t].source = db.tasks[t].source
           /\ /\ result.tasks[t].sourceSub # None
              /\ db.subs[result.tasks[t].sourceSub].live
              => db.subs[result.tasks[t].sourceSub].task \notin gone
           /\ \/ result.tasks[t].sourceSub = db.tasks[t].sourceSub
              \/ db.subs[db.tasks[t].sourceSub].task \in gone
           /\ result.tasks[t] =
                 Unlinked(db.tasks[t], result.tasks[t].source, result.tasks[t].sourceSub)
  <1>1. PICK s \in {db.tasks[t].source, None}, x \in {db.tasks[t].sourceSub, None} :
                /\ result.tasks[t] = Unlinked(db.tasks[t], s, x)
                /\ s \notin gone
                /\ db.tasks[t].source \notin gone => s = db.tasks[t].source
                /\ x # None /\ db.subs[x].live => db.subs[x].task \notin gone
                /\ \/ x = db.tasks[t].sourceSub
                   \/ db.subs[db.tasks[t].sourceSub].task \in gone
    BY DEF Pruned
  <1>2. db.tasks[t] \in Task
    BY DEF GoodDatabases, GoodTasks
  <1>3. /\ Survivor(db.tasks[t], Unlinked(db.tasks[t], s, x))
        /\ Unlinked(db.tasks[t], s, x).source = s
        /\ Unlinked(db.tasks[t], s, x).sourceSub = x
    BY <1>2 DEF Survivor, Unlinked, Task
  <1>4. db.tasks[t].parent \notin gone
    BY DEF Pruned
  <1> QED
    BY <1>1, <1>3, <1>4

\* No mirror changes its task, and every one that is left was one before.
LEMMA PruneKeepsLinks ==
    ASSUME NEW db \in GoodDatabases, NEW result \in GoodDatabases,
           NEW gone \in SUBSET TaskIds,
           Pruned(db, result, gone), Links(db.tasks, db.subs)
    PROVE  /\ Links(result.tasks, result.subs)
           /\ \A u \in TaskIds : Follows(db.tasks, u) => Follows(result.tasks, u)
           /\ \A m, u \in TaskIds :
                 MirrorOf(result.tasks, m, u) => m \notin gone /\ MirrorOf(db.tasks, m, u)
  <1> DEFINE T == db.tasks
             S == db.subs
             T2 == result.tasks
             S2 == result.subs
  <1>1. /\ T \in [TaskIds -> Task] /\ S \in [SubIds -> GoodSubtasks]
        /\ T2 \in [TaskIds -> Task] /\ S2 \in [SubIds -> GoodSubtasks]
    BY DEF GoodDatabases, GoodTasks
  <1>2. \A t \in gone : T2[t] = NoTask
    BY DEF Pruned
  <1>3. \A t \in TaskIds \ gone :
           /\ Survivor(T[t], T2[t])
           /\ T[t].parent \notin gone
           /\ T2[t].source \notin gone
           /\ T[t].source \notin gone => T2[t].source = T[t].source
           /\ T2[t].sourceSub # None /\ S[T2[t].sourceSub].live =>
                 S[T2[t].sourceSub].task \notin gone
    BY PrunedRows
  <1>4. \A x \in SubIds : S[x].live /\ S[x].task \notin gone => S2[x] = S[x]
    BY DEF Pruned
  <1>5. ~NoTask.live
    BY DEF NoTask
  <1> HIDE DEF T, S, T2, S2
  <1>6. ASSUME NEW m \in TaskIds, NEW u \in TaskIds, MirrorOf(T2, m, u)
        PROVE  /\ m \notin gone
               /\ u \notin gone
               /\ MirrorOf(T, m, u)
               /\ T2[m].board = T[m].board
               /\ T2[m].project = T[m].project
    <2>1. m \notin gone
      BY <1>2, <1>5, <1>6 DEF MirrorOf
    <2>2. u = T[m].source
      BY <2>1, <1>3, <1>6, NoneIsNoId DEF MirrorOf, Survivor
    <2> QED
      BY <2>1, <2>2, <1>3, <1>6 DEF MirrorOf, Survivor
  <1>7. SubtaskLinks(T2, S2)
    <2> SUFFICES ASSUME NEW x \in SubIds, NEW m \in TaskIds,
                        T2[m].live, T2[m].sourceSub = x
                 PROVE  /\ S2[x].live
                        /\ T2[m].parent = S2[x].task
                        /\ \A n \in TaskIds : T2[n].live /\ T2[n].sourceSub = x => n = m
      BY DEF SubtaskLinks
    <2>1. \A n \in TaskIds : T2[n].live /\ T2[n].sourceSub = x =>
             /\ n \notin gone
             /\ T[n].live /\ T[n].sourceSub = x
             /\ T2[n].parent = T[n].parent
      BY <1>2, <1>3, <1>5, NoneIsNoId DEF Survivor
    <2>2. /\ S[x].live /\ T[m].parent = S[x].task
          /\ \A n \in TaskIds : T[n].live /\ T[n].sourceSub = x => n = m
      BY <2>1 DEF Links, SubtaskLinks, T, S
    <2>3. S[x].task \notin gone
      BY <2>1, <2>2, <1>3
    <2>4. S2[x] = S[x]
      BY <1>4, <2>2, <2>3
    <2> QED
      BY <2>1, <2>2, <2>4
  <1>8. ASSUME NEW t \in TaskIds PROVE RowShape(T2[t])
    <2>1. CASE t \in gone
      BY <1>2, <2>1, NoneIsNoId DEF NoTask, RowShape
    <2>2. CASE t \notin gone
      <3>1. RowShape(T[t])
        BY DEF Links, T
      <3>2. T[t].source \notin gone \/ T[t].parent = None
        BY <2>2, <3>1, <1>3 DEF RowShape
      <3> QED
        BY <2>2, <3>1, <3>2, <1>3 DEF RowShape, Survivor
    <2> QED
      BY <2>1, <2>2
  <1>9. MirrorLinks(T2)
    <2>1. MirrorLinks(T)
      BY DEF Links, T
    <2> QED
      BY <1>6, <2>1 DEF MirrorLinks
  <1>10. ParentLinks(T2, S2)
    <2>1. ParentLinks(T, S)
      BY DEF Links, T, S
    <2>2. \A x \in SubIds : S2[x].live => S2[x] = S[x] /\ S[x].task \notin gone
      BY DEF Pruned, NoSubtask, S, S2
    <2>3. \A x \in SubIds : S[x].live => S[x].task \in TaskIds
      BY <1>1 DEF GoodSubtasks, Subtask
    <2>4. \A t \in TaskIds \ gone : (T2[t].live <=> T[t].live) /\ T2[t].parent = T[t].parent
      BY <1>3 DEF Survivor
    <2>5. ASSUME NEW t \in TaskIds, NEW m \in TaskIds, T2[m].live, T2[m].parent = t
          PROVE  T2[t].live
      <3>1. m \notin gone
        BY <1>2, <1>5, <2>5
      <3>2. T[m].live /\ T[m].parent = t /\ t \notin gone
        BY <1>3, <2>4, <2>5, <3>1
      <3> QED
        BY <2>1, <2>4, <3>2 DEF ParentLinks
    <2> QED
      BY <2>1, <2>2, <2>3, <2>4, <2>5 DEF ParentLinks
  <1>11. SourceLinks(T2)
    <2> SUFFICES ASSUME NEW t \in TaskIds, NEW m \in TaskIds,
                        T2[m].live, T2[m].source = t, T2[m].parent = None
                 PROVE  T2[t].live /\ T2[t].source = None
      BY DEF SourceLinks
    <2>1. m \notin gone /\ t \notin gone
      BY <1>2, <1>3, <1>5
    <2>2. T[m].live /\ T[m].source = t /\ T[m].parent = None
      BY <2>1, <1>3, NoneIsNoId DEF Survivor
    <2>3. T[t].live /\ T[t].source = None
      BY <2>2 DEF Links, SourceLinks, T
    <2> QED
      BY <2>1, <2>3, <1>3 DEF Survivor
  <1>12. ASSUME NEW u \in TaskIds, Follows(T, u) PROVE Follows(T2, u)
    <2> SUFFICES ASSUME NEW m \in TaskIds, MirrorOf(T2, m, u)
                 PROVE  /\ T2[u].live /\ OnProjectBoard(T2[u]) /\ ~IsMirror(T2[u])
                        /\ T2[m].board = T2[u].assignee
      BY DEF Follows
    <2>1. u \notin gone /\ MirrorOf(T, m, u) /\ T2[m].board = T[m].board
      BY <1>6
    <2>2. /\ T[u].live /\ OnProjectBoard(T[u]) /\ ~IsMirror(T[u])
          /\ T[m].board = T[u].assignee
      BY <1>12, <2>1 DEF Follows
    <2>3. Survivor(T[u], T2[u])
      BY <1>3, <2>1
    <2> QED
      BY <2>1, <2>2, <2>3 DEF OnProjectBoard, IsMirror, Survivor
  <1> QED
    BY <1>6, <1>7, <1>8, <1>9, <1>12, <1>11, <1>10 DEF Links, T, S, T2, S2

LEMMA DeleteKeepsOrder ==
    ASSUME NEW db \in GoodDatabases, NEW D \in SUBSET TaskIds, InOrder(db)
    PROVE  InOrder(Delete(db, D))
  <1>1. PICK gone \in SUBSET TaskIds : Pruned(db, Delete(db, D), gone)
    BY DeletePrunes
  <1>2. Delete(db, D) \in GoodDatabases
    BY DeleteGood
  <1> QED
    BY <1>1, <1>2, PruneKeepsLinks DEF InOrder

-----------------------------------------------------------------------------
(* The synchronisation puts the mirrors of its task in order.              *)

LEMMA MirrorsAreFound ==
    ASSUME NEW db \in GoodDatabases, Links(db.tasks, db.subs),
           NEW t \in TaskIds, NEW m \in TaskIds, MirrorOf(db.tasks, m, t)
    PROVE  m \in AssignmentMirrors(db, t)
  <1>1. db.tasks \in Tables /\ db.subs \in SubTables
    BY DEF GoodDatabases, GoodTasks, Tables, SubTables
  <1>2. db.tasks[m].sourceSub = None
    BY <1>1, MirrorsHaveNoSubtask
  <1>3. db.tasks[m].board \in Users
    BY DEF Links, MirrorLinks
  <1> QED
    BY <1>2, <1>3 DEF AssignmentMirrors, MirrorOf

\* A task that may have no mirror loses those it has.
LEMMA DropMirrorsOrders ==
    ASSUME NEW db \in GoodDatabases, NEW t \in TaskIds, InOrderBut(db, t)
    PROVE  InOrder(SyncAssignmentMirror(db, t, None))
  <1> DEFINE D == AssignmentMirrors(db, t)
             result == Delete(db, D)
  <1>1. D \in SUBSET TaskIds
    BY DEF AssignmentMirrors
  <1>2. \A m \in TaskIds : MirrorOf(db.tasks, m, t) => m \in D
    BY MirrorsAreFound DEF InOrderBut
  <1> HIDE DEF D
  <1>3. PICK gone \in SUBSET TaskIds : D \subseteq gone /\ Pruned(db, result, gone)
    BY <1>1, DeletePrunes
  <1>4. result \in GoodDatabases
    BY <1>1, DeleteGood
  <1> HIDE DEF result
  <1>5. /\ Links(result.tasks, result.subs)
        /\ \A u \in TaskIds : Follows(db.tasks, u) => Follows(result.tasks, u)
        /\ \A m, u \in TaskIds :
              MirrorOf(result.tasks, m, u) => m \notin gone /\ MirrorOf(db.tasks, m, u)
    BY <1>3, <1>4, PruneKeepsLinks DEF InOrderBut
  <1>6. Follows(result.tasks, t)
    BY <1>2, <1>3, <1>5 DEF Follows
  <1>7. InOrder(result)
    BY <1>5, <1>6 DEF InOrder, InOrderBut
  <1>8. SyncAssignmentMirror(db, t, None) = result
    BY DEF SyncAssignmentMirror, result, D
  <1> QED
    BY <1>7, <1>8

\* What the synchronisation deletes before it writes.
Strays(db, t) == AssignmentMirrors(db, t) \ AssigneesMirrors(db, t)

\* The mirrors that belong to nobody any more go; the task and the
\* assignee's mirror stay.
LEMMA CleaningOrders ==
    ASSUME NEW db \in GoodDatabases, NEW t \in TaskIds, InOrderBut(db, t),
           HasMirror(db.tasks[t])
    PROVE  LET cleaned == Delete(db, Strays(db, t))
           IN  /\ cleaned \in GoodDatabases
               /\ InOrder(cleaned)
               /\ Survivor(db.tasks[t], cleaned.tasks[t])
               /\ \A m \in TaskIds : MirrorOf(cleaned.tasks, m, t) =>
                     m \in AssigneesMirrors(db, t)
               /\ \A m \in AssigneesMirrors(db, t) :
                     /\ Survivor(db.tasks[m], cleaned.tasks[m])
                     /\ cleaned.tasks[m].source = t
               /\ \A m \in TaskIds : cleaned.tasks[m].live => db.tasks[m].live
  <1> DEFINE D == Strays(db, t)
             cleaned == Delete(db, D)
  <1>1. D \in SUBSET TaskIds
    BY DEF Strays, AssignmentMirrors
  <1>2. PICK gone \in SUBSET TaskIds :
          /\ D \subseteq gone
          /\ Pruned(db, cleaned, gone)
          /\ \A c \in TaskIds \ D : db.tasks[c].parent \notin gone => c \notin gone
    BY <1>1, DeletePrunes
  <1>3. cleaned \in GoodDatabases
    BY <1>1, DeleteGood
  <1>4. Links(db.tasks, db.subs) /\ \A c \in TaskIds : RowShape(db.tasks[c])
    BY DEF InOrderBut, Links
  <1>5. /\ db.tasks[t].source = None /\ db.tasks[t].sourceSub = None
        /\ OnProjectBoard(db.tasks[t])
    BY DEF HasMirror, IsMirror
  <1>6. db.tasks[t].parent = None
    BY <1>4, <1>5 DEF RowShape
  <1>7. t \notin gone
    <2>1. t \notin D
      BY <1>5, NoneIsNoId DEF Strays, AssignmentMirrors
    <2> QED
      BY <1>2, <1>6, <2>1, NoneIsNoId
  <1>8. \A m \in TaskIds : MirrorOf(db.tasks, m, t) =>
           m \in D \/ m \in AssigneesMirrors(db, t)
    BY <1>4, MirrorsAreFound DEF Strays
  <1>9. ASSUME NEW m \in AssigneesMirrors(db, t)
        PROVE  m \in TaskIds \ gone /\ db.tasks[m].source = t
    <2>1. m \in TaskIds \ D /\ db.tasks[m].source = t
      BY DEF AssigneesMirrors, AssignmentMirrors, Strays
    <2>2. db.tasks[m].parent \in {None, t}
      BY <1>4, <2>1 DEF RowShape
    <2> QED
      BY <1>2, <1>7, <2>1, <2>2, NoneIsNoId
  <1>10. \A m \in TaskIds \ gone :
            /\ Survivor(db.tasks[m], cleaned.tasks[m])
            /\ db.tasks[m].source \notin gone =>
                  cleaned.tasks[m].source = db.tasks[m].source
    BY <1>2, PrunedRows
  <1>11. \A m \in gone : ~cleaned.tasks[m].live
    BY <1>2 DEF Pruned, NoTask
  <1> HIDE DEF cleaned, D
  <1>12. /\ Links(cleaned.tasks, cleaned.subs)
         /\ \A u \in TaskIds : Follows(db.tasks, u) => Follows(cleaned.tasks, u)
         /\ \A m, u \in TaskIds :
               MirrorOf(cleaned.tasks, m, u) => m \notin gone /\ MirrorOf(db.tasks, m, u)
    BY <1>2, <1>3, <1>4, PruneKeepsLinks
  <1>13. \A m \in TaskIds : MirrorOf(cleaned.tasks, m, t) =>
            m \in AssigneesMirrors(db, t)
    BY <1>2, <1>8, <1>12
  <1>14. Survivor(db.tasks[t], cleaned.tasks[t])
    BY <1>7, <1>10
  <1>15. Follows(cleaned.tasks, t)
    <2> SUFFICES ASSUME NEW m \in TaskIds, MirrorOf(cleaned.tasks, m, t)
                 PROVE  /\ cleaned.tasks[t].live
                        /\ OnProjectBoard(cleaned.tasks[t])
                        /\ ~IsMirror(cleaned.tasks[t])
                        /\ cleaned.tasks[m].board = cleaned.tasks[t].assignee
      BY DEF Follows
    <2>1. m \in AssigneesMirrors(db, t) /\ Survivor(db.tasks[m], cleaned.tasks[m])
      BY <1>9, <1>10, <1>13
    <2>2. cleaned.tasks[m].board = cleaned.tasks[t].assignee
      BY <2>1, <1>14 DEF AssigneesMirrors, Survivor
    <2>3. db.tasks[t].live
      BY <1>4, <1>5, NoneIsNoId DEF RowShape, OnProjectBoard
    <2> QED
      BY <2>2, <2>3, <1>5, <1>14 DEF Survivor, OnProjectBoard, IsMirror
  <1>16. InOrder(cleaned)
    BY <1>12, <1>15 DEF InOrder, InOrderBut
  <1>17. \A m \in AssigneesMirrors(db, t) :
            /\ Survivor(db.tasks[m], cleaned.tasks[m])
            /\ cleaned.tasks[m].source = t
    BY <1>7, <1>9, <1>10
  <1>18. \A m \in TaskIds : cleaned.tasks[m].live => db.tasks[m].live
    BY <1>10, <1>11 DEF Survivor
  <1> QED
    BY <1>3, <1>13, <1>14, <1>16, <1>17, <1>18 DEF cleaned, D

\* A row that is a mirror has no mirrors, so rewriting it disturbs nobody.
LEMMA RewriteMirrorOrders ==
    ASSUME NEW T \in Tables, NEW S \in SubTables, Links(T, S), \A u \in TaskIds : Follows(T, u),
           NEW m \in TaskIds, NEW row \in Task, Rewrites(T[m], row), IsMirror(T[m])
    PROVE  /\ Links([T EXCEPT ![m] = row], S)
           /\ \A u \in TaskIds : Follows([T EXCEPT ![m] = row], u)
  <1> DEFINE T2 == [T EXCEPT ![m] = row]
  <1>1. T2[m] = row /\ \A u \in TaskIds \ {m} : T2[u] = T[u]
    BY DEF Tables
  <1>2. Links(T2, S) /\ \A u \in TaskIds \ {m} : Follows(T, u) => Follows(T2, u)
    BY RewriteKeepsLinks
  <1> HIDE DEF T2
  <1>3. \A k \in TaskIds : ~MirrorOf(T, k, m)
    BY DEF Follows
  <1>4. \A k \in TaskIds : ~MirrorOf(T2, k, m)
    BY <1>1, <1>3 DEF MirrorOf, Rewrites
  <1>5. Follows(T2, m)
    BY <1>4 DEF Follows
  <1> QED
    BY <1>2, <1>5 DEF T2

\* The first mirror of a task that is to have one.
LEMMA NewMirrorOrders ==
    ASSUME NEW T \in Tables, NEW S \in SubTables, Links(T, S), \A u \in TaskIds : Follows(T, u),
           NEW t \in TaskIds, T[t].live, OnProjectBoard(T[t]), ~IsMirror(T[t]),
           \A k \in TaskIds : ~MirrorOf(T, k, t),
           NEW m \in TaskIds, ~T[m].live, NEW row \in Task,
           row.live, row.board \in Users, row.board = T[t].assignee,
           row.project # None, row.source = t, row.sourceSub = None, row.parent = None
    PROVE  /\ Links([T EXCEPT ![m] = row], S)
           /\ \A u \in TaskIds : Follows([T EXCEPT ![m] = row], u)
  <1> DEFINE T2 == [T EXCEPT ![m] = row]
  <1>1. T2[m] = row /\ \A u \in TaskIds \ {m} : T2[u] = T[u]
    BY DEF Tables
  <1> HIDE DEF T2
  <1>2. \A k, u \in TaskIds : MirrorOf(T2, k, u) =>
           \/ k = m /\ u = t
           \/ k # m /\ u # t /\ u # m /\ MirrorOf(T, k, u)
    <2>1. \A k \in TaskIds : ~MirrorOf(T, k, m)
      BY DEF Follows
    <2> QED
      BY <1>1, <2>1 DEF MirrorOf
  <1>3. SubtaskLinks(T2, S)
    <2>1. \A k \in TaskIds, x \in SubIds :
             T2[k].live /\ T2[k].sourceSub = x =>
                k # m /\ T[k].live /\ T[k].sourceSub = x /\ T2[k] = T[k]
      BY <1>1, NoneIsNoId
    <2> QED
      BY <2>1 DEF Links, SubtaskLinks
  <1>4. \A u \in TaskIds : RowShape(T2[u])
    <2>1. RowShape(row)
      BY BoardsDisjoint DEF RowShape
    <2> QED
      BY <1>1, <2>1 DEF Links
  <1>5. MirrorLinks(T2)
    BY <1>1, <1>2 DEF Links, MirrorLinks
  <1>6. ParentLinks(T2, S)
    <2>1. \A x \in SubIds : S[x].live => S[x].task \in TaskIds
      BY DEF SubTables, GoodSubtasks, Subtask
    <2> QED
      BY <1>1, <2>1, NoneIsNoId DEF Links, ParentLinks
  <1>7. SourceLinks(T2)
    <2>1. T[t].source = None /\ SourceLinks(T)
      BY DEF IsMirror, Links
    <2> QED
      BY <1>1, <2>1 DEF SourceLinks
  <1>8. ASSUME NEW u \in TaskIds PROVE Follows(T2, u)
    BY <1>1, <1>2 DEF Follows
  <1> QED
    BY <1>3, <1>4, <1>5, <1>8, <1>7, <1>6 DEF Links, T2

LEMMA SyncOrders ==
    ASSUME NEW db \in GoodDatabases, NEW t \in TaskIds,
           NEW m \in MirrorTargets(db, t), InOrderBut(db, t)
    PROVE  InOrder(SyncAssignmentMirror(db, t, m))
  <1> DEFINE row == db.tasks[t]
             D == Strays(db, t)
             cleaned == Delete(db, D)
             old == [cleaned.tasks[m] EXCEPT !.project = row.project,
                                             !.assignee = row.assignee,
                                             !.done = row.done,
                                             !.archived = row.archived]
             new == [NewTask EXCEPT !.board = row.assignee, !.placed = TRUE,
                                    !.project = row.project, !.source = t,
                                    !.assignee = row.assignee, !.done = row.done]
  <1>1. row \in Task
    BY DEF GoodDatabases, GoodTasks
  <1>2. CASE m = None
    BY <1>2, DropMirrorsOrders
  <1>3. m # None => /\ m \in TaskIds
                    /\ HasMirror(row)
                    /\ row.assignee \in Users
                    /\ row.project \in Projects
                    /\ row.live
                    /\ m \in AssigneesMirrors(db, t) <=> db.tasks[m].live
                    /\ ~db.tasks[m].live => AssigneesMirrors(db, t) = {}
    <2> SUFFICES ASSUME m # None
                 PROVE  /\ m \in TaskIds
                        /\ HasMirror(row)
                        /\ row.assignee \in Users
                        /\ row.project \in Projects
                        /\ row.live
                        /\ m \in AssigneesMirrors(db, t) <=> db.tasks[m].live
                        /\ ~db.tasks[m].live => AssigneesMirrors(db, t) = {}
      OBVIOUS
    <2>1. m \in TaskIds /\ row.assignee \in Users
      BY MirrorTargetsTyped
    <2>2. HasMirror(row)
      BY DEF MirrorTargets
    <2>3. RowShape(row)
      BY DEF InOrderBut, Links
    <2>4. row.project \in Projects /\ row.live
      BY <2>2, <2>3, NoneIsNoId DEF RowShape, HasMirror, OnProjectBoard
    <2>5. IF AssigneesMirrors(db, t) # {} THEN m \in AssigneesMirrors(db, t)
          ELSE m \in NextId(db)
      BY <2>2 DEF MirrorTargets
    <2>6. \A k \in AssigneesMirrors(db, t) : db.tasks[k].live
      BY DEF AssigneesMirrors, AssignmentMirrors
    <2>7. m \in NextId(db) => ~db.tasks[m].live
      BY DEF NextId, FreeIds
    <2> HIDE DEF row
    <2> QED
      BY <2>1, <2>2, <2>4, <2>5, <2>6, <2>7
  <1>4. CASE m # None
    <2>1. /\ cleaned \in GoodDatabases
          /\ InOrder(cleaned)
          /\ Survivor(row, cleaned.tasks[t])
          /\ \A k \in TaskIds : MirrorOf(cleaned.tasks, k, t) =>
                k \in AssigneesMirrors(db, t)
          /\ \A k \in AssigneesMirrors(db, t) :
                /\ Survivor(db.tasks[k], cleaned.tasks[k])
                /\ cleaned.tasks[k].source = t
          /\ \A k \in TaskIds : cleaned.tasks[k].live => db.tasks[k].live
      BY <1>3, <1>4, CleaningOrders
    <2>2. /\ SyncAssignmentMirror(db, t, m) =
                IF db.tasks[m].live THEN Save(cleaned, m, old)
                ELSE [cleaned EXCEPT !.tasks[m] = new]
          /\ SyncAssignmentMirror(db, t, m) \in GoodDatabases
      BY <1>4, SyncAssignmentMirrorGood DEF SyncAssignmentMirror, Strays
    <2> HIDE DEF cleaned
    <2>3. cleaned.tasks \in Tables /\ cleaned.subs \in SubTables
      BY <2>1 DEF GoodDatabases, GoodTasks, Tables, SubTables
    <2>4. CASE db.tasks[m].live
      <3>1. /\ m \in AssigneesMirrors(db, t)
            /\ db.tasks[m].board = row.assignee
            /\ Survivor(db.tasks[m], cleaned.tasks[m])
            /\ cleaned.tasks[m].source = t
            /\ cleaned.tasks[m].live
            /\ cleaned.tasks[m].board = row.assignee
            /\ cleaned.tasks[m] \in Task
            /\ RowShape(cleaned.tasks[m])
        <4>1. m \in AssigneesMirrors(db, t) /\ db.tasks[m].board = row.assignee
          BY <1>3, <1>4, <2>4 DEF AssigneesMirrors
        <4>2. Survivor(db.tasks[m], cleaned.tasks[m]) /\ cleaned.tasks[m].source = t
          BY <2>1, <4>1
        <4>3. cleaned.tasks[m].live /\ cleaned.tasks[m].board = row.assignee
          BY <2>4, <4>1, <4>2 DEF Survivor
        <4>4. cleaned.tasks[m] \in Task /\ RowShape(cleaned.tasks[m])
          BY <1>3, <1>4, <2>1, <2>3 DEF Tables, InOrder, Links
        <4> QED
          BY <4>1, <4>2, <4>3, <4>4
      <3>2. old \in Task
        <4>1. cleaned.tasks[m] \in Task
          BY <3>1
        <4> QED
          BY <4>1, <1>1 DEF Task
      <3>3. /\ old.live = cleaned.tasks[m].live
            /\ old.board = cleaned.tasks[m].board
            /\ old.project = row.project
            /\ old.poolSource = cleaned.tasks[m].poolSource
            /\ old.source = cleaned.tasks[m].source
            /\ old.sourceSub = cleaned.tasks[m].sourceSub
            /\ old.parent = cleaned.tasks[m].parent
        BY <3>1 DEF Task
      <3> HIDE DEF old
      <3>4. Rewrites(cleaned.tasks[m], old)
        BY <1>3, <1>4, <3>1, <3>3, BoardsDisjoint, NoneIsNoId
        DEF Rewrites, RowShape
      <3>5. IsMirror(cleaned.tasks[m])
        BY <3>1, NoneIsNoId DEF IsMirror
      <3>6. /\ Save(cleaned, m, old).tasks = [cleaned.tasks EXCEPT ![m] = old]
            /\ Save(cleaned, m, old).subs = cleaned.subs
        BY <1>3, <1>4, <2>1 DEF Save, GoodDatabases
      <3>7. /\ Links([cleaned.tasks EXCEPT ![m] = old], cleaned.subs)
            /\ \A u \in TaskIds : Follows([cleaned.tasks EXCEPT ![m] = old], u)
        BY <1>3, <1>4, <2>1, <2>3, <3>2, <3>4, <3>5, RewriteMirrorOrders DEF InOrder
      <3> QED
        BY <2>2, <2>4, <3>6, <3>7 DEF InOrder
    <2>5. CASE ~db.tasks[m].live
      <3>1. new \in Task
        BY <1>1, <1>3, <1>4 DEF Task, NewTask, NoTask
      <3>2. /\ new.live /\ new.board = row.assignee /\ new.project = row.project
            /\ new.source = t /\ new.sourceSub = None /\ new.parent = None
        BY DEF NewTask, NoTask
      <3> HIDE DEF new
      <3>3. /\ ~cleaned.tasks[m].live
            /\ \A k \in TaskIds : ~MirrorOf(cleaned.tasks, k, t)
        BY <1>3, <1>4, <2>1, <2>5
      <3>4. /\ cleaned.tasks[t].live
            /\ OnProjectBoard(cleaned.tasks[t])
            /\ ~IsMirror(cleaned.tasks[t])
            /\ cleaned.tasks[t].assignee = row.assignee
        BY <1>3, <1>4, <2>1 DEF Survivor, HasMirror, OnProjectBoard, IsMirror
      <3>5. /\ [cleaned EXCEPT !.tasks[m] = new].tasks = [cleaned.tasks EXCEPT ![m] = new]
            /\ [cleaned EXCEPT !.tasks[m] = new].subs = cleaned.subs
        BY <1>3, <1>4, <2>1 DEF GoodDatabases
      <3>6. /\ Links(cleaned.tasks, cleaned.subs)
            /\ \A u \in TaskIds : Follows(cleaned.tasks, u)
            /\ new.board \in Users /\ new.board = cleaned.tasks[t].assignee
            /\ new.project # None /\ m \in TaskIds
        BY <1>3, <1>4, <2>1, <3>2, <3>4, NoneIsNoId DEF InOrder
      <3> HIDE DEF row
      <3>7. /\ Links([cleaned.tasks EXCEPT ![m] = new], cleaned.subs)
            /\ \A u \in TaskIds : Follows([cleaned.tasks EXCEPT ![m] = new], u)
        BY <2>3, <3>1, <3>2, <3>3, <3>4, <3>6, NewMirrorOrders
      <3> QED
        BY <2>2, <2>5, <3>5, <3>7 DEF InOrder
    <2> QED
      BY <2>4, <2>5
  <1> QED
    BY <1>2, <1>4

\* No row loses a reference and survives, as long as nobody deletes a row
\* and leaves its mirrors.  (source_task and source_subtask are SET NULL; but
\* a row with a parent goes with it, and other mirrors are deleted first.)
Detached(db, D) ==
    \A w \in D :
        \/ db.tasks[w].source # None
        \/ \A u \in TaskIds \ D :
              ~(db.tasks[u].live /\ db.tasks[u].source = w /\ db.tasks[u].parent = None)

LEMMA DeleteIsExact ==
    ASSUME NEW db \in GoodDatabases, Links(db.tasks, db.subs),
           NEW D \in SUBSET TaskIds, Detached(db, D)
    PROVE  /\ \A u \in TaskIds : Delete(db, D).tasks[u].live =>
                 u \notin D /\ Delete(db, D).tasks[u] = db.tasks[u]
           /\ \A x \in SubIds : Delete(db, D).subs[x].live =>
                 Delete(db, D).subs[x] = db.subs[x]
           /\ Delete(db, D).stamped = db.stamped
  <1> DEFINE result == Delete(db, D)
  <1>1. PICK gone \in SUBSET TaskIds :
          /\ D \subseteq gone
          /\ Pruned(db, result, gone)
          /\ \A c \in TaskIds \ D : db.tasks[c].parent \notin gone => c \notin gone
    BY DeletePrunes
  <1>2. result.stamped = db.stamped
    BY DEF Delete, GoodDatabases
  <1> HIDE DEF result
  <1>3. ~NoTask.live /\ ~NoSubtask.live
    BY DEF NoTask, NoSubtask
  <1>4. ASSUME NEW u \in TaskIds, result.tasks[u].live
        PROVE  u \notin D /\ result.tasks[u] = db.tasks[u]
    <2>1. u \notin gone
      BY <1>1, <1>3, <1>4 DEF Pruned
    <2>2. /\ Survivor(db.tasks[u], result.tasks[u])
          /\ db.tasks[u].parent \notin gone
          /\ db.tasks[u].source \notin gone =>
                result.tasks[u].source = db.tasks[u].source
          /\ \/ result.tasks[u].sourceSub = db.tasks[u].sourceSub
             \/ db.subs[db.tasks[u].sourceSub].task \in gone
          /\ result.tasks[u] =
                Unlinked(db.tasks[u], result.tasks[u].source, result.tasks[u].sourceSub)
      BY <1>1, <2>1, PrunedRows
    <2>3. db.tasks[u] \in Task /\ db.tasks[u].live
      BY <1>4, <2>2 DEF GoodDatabases, GoodTasks, Survivor
    <2>4. db.tasks[u].source \notin gone
      <3> SUFFICES ASSUME db.tasks[u].source \in gone PROVE FALSE
        OBVIOUS
      <3> DEFINE w == db.tasks[u].source
      <3>1. db.tasks[u].parent = None
        BY <2>2 DEF Links, RowShape
      <3>2. w \in TaskIds
        OBVIOUS
      <3>3. db.tasks[w].source = None
        BY <2>3, <3>1, <3>2 DEF Links, SourceLinks
      <3>4. w \notin D
        BY <2>1, <2>3, <3>1, <3>3, <1>1 DEF Detached
      <3>5. db.tasks[w].parent = None
        BY <3>2, <3>3 DEF Links, RowShape
      <3>6. w \notin gone
        BY <1>1, <3>2, <3>4, <3>5, NoneIsNoId
      <3> QED
        BY <3>6
    <2>5. result.tasks[u].sourceSub = db.tasks[u].sourceSub
      <3>1. CASE db.tasks[u].sourceSub = None
        BY <2>2, <3>1 DEF Survivor
      <3>2. CASE db.tasks[u].sourceSub # None
        <4>1. db.tasks[u].sourceSub \in SubIds
          BY <2>3, <3>2 DEF Task
        <4>2. db.subs[db.tasks[u].sourceSub].task = db.tasks[u].parent
          BY <2>3, <4>1 DEF Links, SubtaskLinks
        <4> QED
          BY <2>2, <4>2
      <3> QED
        BY <3>1, <3>2
    <2>6. Unlinked(db.tasks[u], db.tasks[u].source, db.tasks[u].sourceSub) = db.tasks[u]
      BY <2>3 DEF Unlinked, Task
    <2> QED
      BY <1>1, <2>1, <2>2, <2>4, <2>5, <2>6
  <1>5. \A x \in SubIds : result.subs[x].live => result.subs[x] = db.subs[x]
    BY <1>1, <1>3 DEF Pruned
  <1> QED
    BY <1>2, <1>4, <1>5 DEF result

LEMMA MirrorsAreDetached ==
    ASSUME NEW db, NEW t \in TaskIds
    PROVE  /\ Detached(db, AssignmentMirrors(db, t))
           /\ Detached(db, Strays(db, t))
  BY NoneIsNoId DEF Detached, AssignmentMirrors, Strays

\* What a synchronisation changes: one row, the mirror of t.
LEMMA SyncEffect ==
    ASSUME NEW db \in GoodDatabases, NEW t \in TaskIds,
           NEW m \in MirrorTargets(db, t), InOrderBut(db, t)
    PROVE  LET result == SyncAssignmentMirror(db, t, m)
           IN  /\ \A u \in TaskIds \ {m} : result.tasks[u].live =>
                     result.tasks[u] = db.tasks[u]
               /\ \A x \in SubIds : result.subs[x].live => result.subs[x] = db.subs[x]
               /\ db.stamped \subseteq result.stamped
               /\ m = None => /\ ~HasMirror(db.tasks[t])
                              /\ AssignmentMirrors(result, t) = {}
               /\ m # None =>
                     /\ m \in TaskIds \ {t}
                     /\ db.tasks[t].live /\ result.tasks[t].live
                     /\ result.tasks[m].live
                     /\ result.tasks[m].source = t
                     /\ result.tasks[m].sourceSub = None
                     /\ result.tasks[m].board = db.tasks[t].assignee
                     /\ result.tasks[m].done = db.tasks[t].done
                     /\ db.tasks[t].assignee \in Users
                     /\ IF db.tasks[m].live
                        THEN /\ m \in result.stamped
                             /\ result.tasks[m].archived = db.tasks[t].archived
                        ELSE ~tasks[m].live
                     /\ \A k \in AssignmentMirrors(result, t) :
                           result.tasks[k].board = db.tasks[t].assignee
  <1> DEFINE row == db.tasks[t]
             D == Strays(db, t)
             cleaned == Delete(db, D)
             old == [cleaned.tasks[m] EXCEPT !.project = row.project,
                                             !.assignee = row.assignee,
                                             !.done = row.done,
                                             !.archived = row.archived]
             new == [NewTask EXCEPT !.board = row.assignee, !.placed = TRUE,
                                    !.project = row.project, !.source = t,
                                    !.assignee = row.assignee, !.done = row.done]
             result == SyncAssignmentMirror(db, t, m)
  <1>1. Links(db.tasks, db.subs)
    BY DEF InOrderBut
  <1>2. CASE m = None
    <2> DEFINE A == AssignmentMirrors(db, t)
    <2>1. A \in SUBSET TaskIds /\ Detached(db, A)
      BY MirrorsAreDetached DEF AssignmentMirrors
    <2>2. result = Delete(db, A)
      BY <1>2 DEF SyncAssignmentMirror
    <2>3. ~HasMirror(row)
      <3>1. \A k \in AssigneesMirrors(db, t) \cup NextId(db) : k \in TaskIds
        BY DEF AssigneesMirrors, AssignmentMirrors, NextId, FreeIds
      <3> QED
        BY <1>2, <3>1, NoneIsNoId DEF MirrorTargets
    <2>4. \A k \in TaskIds : k \in A <=> /\ db.tasks[k].live
                                         /\ db.tasks[k].source = t
                                         /\ db.tasks[k].sourceSub = None
                                         /\ db.tasks[k].board \in Users
      BY DEF AssignmentMirrors
    <2> HIDE DEF A, result
    <2>5. /\ \A u \in TaskIds : result.tasks[u].live =>
                u \notin A /\ result.tasks[u] = db.tasks[u]
          /\ \A x \in SubIds : result.subs[x].live => result.subs[x] = db.subs[x]
          /\ result.stamped = db.stamped
      BY <1>1, <2>1, <2>2, DeleteIsExact
    <2>6. AssignmentMirrors(result, t) = {}
      BY <2>4, <2>5 DEF AssignmentMirrors
    <2> QED
      BY <1>2, <2>3, <2>5, <2>6 DEF result
  <1>3. CASE m # None
    <2>1. /\ m \in TaskIds /\ HasMirror(row) /\ row.assignee \in Users /\ row.live
          /\ db.tasks[m].live => m \in AssigneesMirrors(db, t)
          /\ ~db.tasks[m].live => ~tasks[m].live /\ AssigneesMirrors(db, t) = {}
          /\ row \in Task
      <3>1. m \in TaskIds /\ row.assignee \in Users
        BY <1>3, MirrorTargetsTyped
      <3>2. HasMirror(row)
        BY <1>3 DEF MirrorTargets
      <3>3. RowShape(row) /\ row \in Task
        BY <1>1 DEF Links, GoodDatabases, GoodTasks
      <3>4. row.live
        BY <3>2, <3>3, NoneIsNoId DEF RowShape, HasMirror, OnProjectBoard
      <3>5. IF AssigneesMirrors(db, t) # {} THEN m \in AssigneesMirrors(db, t)
            ELSE m \in NextId(db)
        BY <3>2 DEF MirrorTargets
      <3>6. \A k \in AssigneesMirrors(db, t) : db.tasks[k].live
        BY DEF AssigneesMirrors, AssignmentMirrors
      <3>7. m \in NextId(db) => ~db.tasks[m].live /\ ~tasks[m].live
        BY DEF NextId, FreeIds
      <3> HIDE DEF row
      <3> QED
        BY <3>1, <3>2, <3>3, <3>4, <3>5, <3>6, <3>7
    <2>2. /\ cleaned \in GoodDatabases
          /\ Survivor(row, cleaned.tasks[t])
          /\ \A k \in AssigneesMirrors(db, t) : Survivor(db.tasks[k], cleaned.tasks[k])
      BY <2>1, CleaningOrders
    <2>3. D \in SUBSET TaskIds /\ Detached(db, D)
      BY MirrorsAreDetached DEF Strays, AssignmentMirrors
    <2>4. /\ \A u \in TaskIds : cleaned.tasks[u].live =>
                u \notin D /\ cleaned.tasks[u] = db.tasks[u]
          /\ \A x \in SubIds : cleaned.subs[x].live => cleaned.subs[x] = db.subs[x]
          /\ cleaned.stamped = db.stamped
      <3> HIDE DEF D
      <3> QED
        BY <1>1, <2>3, DeleteIsExact
    <2>5. result = IF db.tasks[m].live THEN Save(cleaned, m, old)
                   ELSE [cleaned EXCEPT !.tasks[m] = new]
      BY <1>3 DEF SyncAssignmentMirror, Strays
    <2>6. db.tasks[m].live =>
             /\ cleaned.tasks[m] = db.tasks[m]
             /\ db.tasks[m].source = t /\ db.tasks[m].sourceSub = None
             /\ db.tasks[m].board = row.assignee
      <3> SUFFICES ASSUME db.tasks[m].live
                   PROVE  /\ cleaned.tasks[m] = db.tasks[m]
                          /\ db.tasks[m].source = t /\ db.tasks[m].sourceSub = None
                          /\ db.tasks[m].board = row.assignee
        OBVIOUS
      <3>1. m \in AssigneesMirrors(db, t)
        BY <2>1
      <3>2. cleaned.tasks[m].live
        BY <2>2, <3>1 DEF Survivor
      <3>3. cleaned.tasks[m] = db.tasks[m]
        <4> HIDE DEF cleaned
        <4> QED
          BY <2>1, <2>4, <3>2
      <3> QED
        BY <3>1, <3>3 DEF AssigneesMirrors, AssignmentMirrors
    <2>7. row.source = None
      BY <2>1 DEF HasMirror, IsMirror
    <2>8. \A k \in TaskIds : cleaned.tasks[k].live /\ db.tasks[k].source = t
             /\ db.tasks[k].sourceSub = None /\ db.tasks[k].board \in Users =>
                db.tasks[k].board = row.assignee
      <3> SUFFICES ASSUME NEW k \in TaskIds, cleaned.tasks[k].live,
                          db.tasks[k].source = t, db.tasks[k].sourceSub = None,
                          db.tasks[k].board \in Users
                   PROVE  db.tasks[k].board = row.assignee
        OBVIOUS
      <3>1. k \notin D /\ cleaned.tasks[k] = db.tasks[k]
        <4> HIDE DEF cleaned, D
        <4> QED
          BY <2>4
      <3>2. k \in AssignmentMirrors(db, t)
        BY <3>1 DEF AssignmentMirrors
      <3> QED
        BY <3>1, <3>2 DEF Strays, AssigneesMirrors
    <2>9. cleaned.tasks[t] = row /\ cleaned.tasks[t].live
      <3>1. cleaned.tasks[t].live
        BY <2>1, <2>2 DEF Survivor
      <3> HIDE DEF cleaned, D
      <3> QED
        BY <2>4, <3>1
    <2>10. cleaned.tasks \in [TaskIds -> GoodTasks]
      BY <2>2 DEF GoodDatabases
    <2> HIDE DEF cleaned, D, result
    <2>11. CASE db.tasks[m].live
      <3>1. old = [db.tasks[m] EXCEPT !.project = row.project,
                                      !.assignee = row.assignee,
                                      !.done = row.done,
                                      !.archived = row.archived]
        BY <2>6, <2>11
      <3>2. db.tasks[m] \in Task
        BY <2>1 DEF GoodDatabases, GoodTasks
      <3>3. /\ old.live /\ old.source = t /\ old.sourceSub = None
            /\ old.board = row.assignee /\ old.done = row.done
            /\ old.archived = row.archived
        <4> HIDE DEF old
        <4> QED
          BY <2>1, <2>6, <2>11, <3>1, <3>2 DEF Task
      <3> HIDE DEF old
      <3>4. /\ result.tasks = [cleaned.tasks EXCEPT ![m] = old]
            /\ result.subs = cleaned.subs
            /\ result.stamped = cleaned.stamped \cup {m}
        BY <2>2, <2>5, <2>11 DEF Save, GoodDatabases
      <3>5. result.tasks[m] = old /\ \A u \in TaskIds \ {m} : result.tasks[u] = cleaned.tasks[u]
        BY <2>1, <2>10, <3>4
      <3>6. m # t
        BY <2>6, <2>7, <2>11, NoneIsNoId
      <3>7. \A k \in AssignmentMirrors(result, t) : result.tasks[k].board = row.assignee
        BY <2>4, <2>8, <3>3, <3>5 DEF AssignmentMirrors
      <3> HIDE DEF row
      <3> QED
        BY <1>3, <2>1, <2>4, <2>9, <2>11, <3>3, <3>4, <3>5, <3>6, <3>7 DEF result, row
    <2>12. CASE ~db.tasks[m].live
      <3>1. /\ new.live /\ new.source = t /\ new.sourceSub = None
            /\ new.board = row.assignee /\ new.done = row.done
        BY DEF NewTask, NoTask
      <3> HIDE DEF new
      <3>2. /\ result.tasks = [cleaned.tasks EXCEPT ![m] = new]
            /\ result.subs = cleaned.subs
            /\ result.stamped = cleaned.stamped
        BY <2>2, <2>5, <2>12 DEF GoodDatabases
      <3>3. result.tasks[m] = new /\ \A u \in TaskIds \ {m} : result.tasks[u] = cleaned.tasks[u]
        BY <2>1, <2>10, <3>2
      <3>4. m # t
        BY <2>1, <2>12
      <3>5. \A k \in AssignmentMirrors(result, t) : result.tasks[k].board = row.assignee
        BY <2>4, <2>8, <3>1, <3>3 DEF AssignmentMirrors
      <3> HIDE DEF row
      <3> QED
        BY <1>3, <2>1, <2>4, <2>9, <2>12, <3>1, <3>2, <3>3, <3>4, <3>5 DEF result, row
    <2> QED
      BY <2>11, <2>12
  <1> QED
    BY <1>2, <1>3

\* A subtask's mirror is written, or written again, in its one place.
LEMMA SubtaskMirrorOrders ==
    ASSUME NEW T \in Tables, NEW S \in SubTables,
           Links(T, S), \A u \in TaskIds : Follows(T, u),
           NEW x \in SubIds, S[x].live, NEW m \in TaskIds, NEW row \in Task,
           T[m].live => T[m].sourceSub = x,
           \A n \in TaskIds : T[n].live /\ T[n].sourceSub = x => n = m,
           row.live, row.board \in Users, row.sourceSub = x,
           row.parent = S[x].task, row.source = S[x].task
    PROVE  /\ Links([T EXCEPT ![m] = row], S)
           /\ \A u \in TaskIds : Follows([T EXCEPT ![m] = row], u)
  <1> DEFINE T2 == [T EXCEPT ![m] = row]
  <1>1. T2[m] = row /\ \A u \in TaskIds \ {m} : T2[u] = T[u]
    BY DEF Tables
  <1> HIDE DEF T2
  <1>2. S[x].task # None
    BY DEF SubTables, GoodSubtasks
  <1>3. \A k, u \in TaskIds : MirrorOf(T2, k, u) => k # m /\ u # m /\ MirrorOf(T, k, u)
    <2>1. \A k \in TaskIds : ~MirrorOf(T, k, m)
      BY NoneIsNoId DEF Follows, IsMirror
    <2> QED
      BY <1>1, <1>2, <2>1 DEF MirrorOf
  <1>4. SubtaskLinks(T2, S)
    <2>1. SubtaskLinks(T, S)
      BY DEF Links
    <2> QED
      BY <1>1, <2>1 DEF SubtaskLinks
  <1>5. \A u \in TaskIds : RowShape(T2[u])
    <2>1. RowShape(row)
      BY BoardsDisjoint DEF RowShape
    <2> QED
      BY <1>1, <2>1 DEF Links
  <1>6. MirrorLinks(T2)
    BY <1>1, <1>3 DEF Links, MirrorLinks
  <1>7. ParentLinks(T2, S)
    <2>1. \A y \in SubIds : S[y].live => S[y].task \in TaskIds
      BY DEF SubTables, GoodSubtasks, Subtask
    <2>2. ParentLinks(T, S)
      BY DEF Links
    <2>3. \A u \in TaskIds : T[u].live => T2[u].live
      BY <1>1
    <2> QED
      BY <1>1, <2>1, <2>2, <2>3 DEF ParentLinks
  <1>8. SourceLinks(T2)
    <2>1. T[m].live => T[m].source # None
      BY <1>2 DEF Links, SubtaskLinks, RowShape
    <2>2. SourceLinks(T)
      BY DEF Links
    <2> QED
      BY <1>1, <1>2, <2>1, <2>2 DEF SourceLinks
  <1>9. ASSUME NEW u \in TaskIds PROVE Follows(T2, u)
    BY <1>1, <1>3 DEF Follows
  <1> QED
    BY <1>4, <1>5, <1>6, <1>9, <1>8, <1>7 DEF Links, T2

LEMMA SyncSubtaskOrders ==
    ASSUME NEW db \in GoodDatabases, NEW x \in SubIds, db.subs[x].live,
           NEW m \in SubtaskMirrorTargets(db, x), InOrder(db)
    PROVE  InOrder(SyncSubtaskMirror(db, x, m))
  <1> DEFINE sub == db.subs[x]
             base == IF db.tasks[m].live THEN db.tasks[m] ELSE NewTask
             mirror == [base EXCEPT !.board = sub.assignee,
                                    !.placed = @ \/ base.board # sub.assignee,
                                    !.project = db.tasks[sub.task].project,
                                    !.parent = sub.task,
                                    !.source = sub.task, !.sourceSub = x,
                                    !.assignee = sub.assignee, !.done = sub.done]
             result == SyncSubtaskMirror(db, x, m)
  <1>1. /\ db.tasks \in Tables /\ db.subs \in SubTables
        /\ sub \in Subtask
    BY DEF GoodDatabases, GoodTasks, GoodSubtasks, Tables, SubTables
  <1>2. CASE m = None
    <2>1. SubtaskMirrors(db, x) \in SUBSET TaskIds
      BY DEF SubtaskMirrors
    <2>2. result = Delete(db, SubtaskMirrors(db, x))
      BY <1>2 DEF SyncSubtaskMirror
    <2> QED
      BY <2>1, <2>2, DeleteKeepsOrder
  <1>3. CASE m # None
    <2>1. /\ m \in TaskIds
          /\ sub.assignee \in Users
          /\ m \in SubtaskMirrors(db, x) \/ (SubtaskMirrors(db, x) = {} /\ ~db.tasks[m].live)
      <3>1. sub.assignee # None
        BY <1>3 DEF SubtaskMirrorTargets
      <3> QED
        BY <1>1, <1>3, <3>1
        DEF SubtaskMirrorTargets, SubtaskMirrors, NextId, FreeIds, Subtask
    <2>2. db.tasks[m].live => db.tasks[m].sourceSub = x
      BY <2>1 DEF SubtaskMirrors
    <2>3. \A n \in TaskIds : db.tasks[n].live /\ db.tasks[n].sourceSub = x => n = m
      BY <2>1 DEF SubtaskMirrors, InOrder, Links, SubtaskLinks
    <2>4. base \in Task /\ base.live
      <3>1. NewTask \in Task /\ NewTask.live
        BY DEF NewTask, NoTask, Task
      <3> QED
        BY <2>1, <1>1, <3>1 DEF Tables
    <2> HIDE DEF base
    <2>5. result \in GoodDatabases
      BY SyncSubtaskMirrorGood
    <2>6. /\ mirror.live /\ mirror.board = sub.assignee /\ mirror.sourceSub = x
          /\ mirror.parent = sub.task /\ mirror.source = sub.task
      BY <2>4 DEF Task
    <2>7. result = IF db.tasks[m].live THEN Save(db, m, mirror)
                   ELSE [db EXCEPT !.tasks[m] = mirror]
      BY <1>3 DEF SyncSubtaskMirror, base
    <2> HIDE DEF mirror, result
    <2>8. result.tasks = [db.tasks EXCEPT ![m] = mirror] /\ result.subs = db.subs
      BY <2>7 DEF Save, GoodDatabases
    <2>9. mirror \in Task
      <3>1. result.tasks[m] = mirror
        BY <2>1, <2>8, <1>1 DEF Tables
      <3> QED
        BY <2>1, <2>5, <3>1 DEF GoodDatabases, GoodTasks
    <2>10. /\ Links(db.tasks, db.subs)
           /\ \A u \in TaskIds : Follows(db.tasks, u)
           /\ mirror.board \in Users
      BY <2>1, <2>6 DEF InOrder
    <2>11. /\ Links([db.tasks EXCEPT ![m] = mirror], db.subs)
           /\ \A u \in TaskIds : Follows([db.tasks EXCEPT ![m] = mirror], u)
      BY <1>1, <2>1, <2>2, <2>3, <2>6, <2>9, <2>10, SubtaskMirrorOrders
    <2> QED
      BY <2>8, <2>11 DEF InOrder, result
  <1> QED
    BY <1>2, <1>3

\* Columns, flags and versions are no links.
LEMMA SaveAlikeOrders ==
    ASSUME NEW db \in GoodDatabases, InOrder(db), NEW t \in TaskIds,
           NEW row, Alike(db.tasks[t], row)
    PROVE  InOrder(Save(db, t, row))
  <1>1. /\ Save(db, t, row).tasks = [db.tasks EXCEPT ![t] = row]
        /\ Save(db, t, row).subs = db.subs
    BY DEF Save, GoodDatabases
  <1>2. \A u \in TaskIds : Alike(db.tasks[u], [db.tasks EXCEPT ![t] = row][u])
    BY DEF GoodDatabases, Alike
  <1>3. SameSubtasks(db.subs, db.subs) /\ db.subs \in SubTables
    BY DEF SameSubtasks, GoodDatabases, SubTables
  <1> QED
    BY <1>1, <1>2, <1>3, AlikeKeepsLinks DEF InOrder

-----------------------------------------------------------------------------
(* What a transaction changes, between the tables it found (tasks, subs) and *)
(* those it has reached (db).  The three action properties are about the     *)
(* difference when it commits; before the synchronisation they may fail for  *)
(* the task that was written.                                                *)

StillThere(db, u) == tasks[u].live /\ db.tasks[u].live

SameButPlaced(old, new) == [new EXCEPT !.placed = old.placed] = old

Versioned(db) ==
    \A u \in TaskIds :
        StillThere(db, u) /\ Content(db.tasks[u]) # Content(tasks[u]) =>
            u \in db.stamped

\* Of the tasks that may have mirrors, only t has changed.
KeptBut(db, t) ==
    \A u \in TaskIds \ {t} :
        StillThere(db, u) /\ ~IsMirror(db.tasks[u]) =>
            SameButPlaced(tasks[u], db.tasks[u])

Attended(db) ==
    \A u \in TaskIds :
        /\ StillThere(db, u)
        /\ OnProjectBoard(db.tasks[u]) /\ ~IsMirror(db.tasks[u])
        /\ ~SameButPlaced(tasks[u], db.tasks[u])
        => /\ \A k \in AssignmentMirrors(db, u) :
                 db.tasks[k].board = db.tasks[u].assignee
           /\ db.tasks[u].assignee # None =>
                 \E k \in AssignmentMirrors(db, u) :
                    /\ db.tasks[k].done = db.tasks[u].done
                    /\ tasks[k].live => db.tasks[k].archived = db.tasks[u].archived

\* Only n and the task t it is about have been ticked, both alike.
Ticked(db, n, t) ==
    /\ \A u \in TaskIds \ {n, t} :
          StillThere(db, u) => db.tasks[u].done = tasks[u].done
    /\ db.tasks[n].done = db.tasks[t].done
    /\ n # t => db.tasks[n].source = t
    /\ StillThere(db, n) /\ db.tasks[n].done # tasks[n].done =>
          IF db.tasks[n].sourceSub # None
          THEN db.subs[db.tasks[n].sourceSub].done = db.tasks[n].done
          ELSE db.tasks[n].source \in {None, t}

Completed(db) ==
    \A u \in TaskIds :
        /\ StillThere(db, u) /\ db.tasks[u].done # tasks[u].done
        /\ \A c \in TaskIds : db.tasks[c].source # u
        => /\ db.tasks[u].sourceSub # None =>
                 db.subs[db.tasks[u].sourceSub].done = db.tasks[u].done
           /\ db.tasks[u].sourceSub = None /\ db.tasks[u].source # None =>
                 db.tasks[db.tasks[u].source].done = db.tasks[u].done

\* The request was about n, and t is to be synchronised.
Pending(db, n, t) ==
    InOrderBut(db, t) /\ Versioned(db) /\ KeptBut(db, t) /\ Ticked(db, n, t)

Settled(db) == InOrder(db) /\ Versioned(db) /\ Attended(db) /\ Completed(db)

LEMMA UnchangedIsSettled ==
    ASSUME NEW db \in GoodDatabases, InOrder(db),
           \A u \in TaskIds : StillThere(db, u) => db.tasks[u] = tasks[u]
    PROVE  Settled(db)
  <1>1. \A u \in TaskIds : SameButPlaced(db.tasks[u], db.tasks[u])
    BY DEF SameButPlaced, GoodDatabases, GoodTasks, Task
  <1> QED
    BY <1>1 DEF Settled, Versioned, Attended, Completed

\* The synchronisation settles what its request has left open.
LEMMA SyncSettles ==
    ASSUME NEW db \in GoodDatabases, NEW n \in TaskIds, NEW t \in TaskIds,
           NEW m \in MirrorTargets(db, t), Pending(db, n, t),
           n # t => SyncAssignmentMirror(db, t, m).tasks[n].live
    PROVE  Settled(SyncAssignmentMirror(db, t, m))
  <1> DEFINE result == SyncAssignmentMirror(db, t, m)
  <1>1. /\ \A u \in TaskIds \ {m} : result.tasks[u].live =>
              result.tasks[u] = db.tasks[u]
        /\ \A x \in SubIds : result.subs[x].live => result.subs[x] = db.subs[x]
        /\ db.stamped \subseteq result.stamped
        /\ m = None => /\ ~HasMirror(db.tasks[t])
                       /\ AssignmentMirrors(result, t) = {}
        /\ m # None =>
              /\ m \in TaskIds \ {t}
              /\ db.tasks[t].live /\ result.tasks[t].live
              /\ result.tasks[m].live
              /\ result.tasks[m].source = t
              /\ result.tasks[m].sourceSub = None
              /\ result.tasks[m].board = db.tasks[t].assignee
              /\ result.tasks[m].done = db.tasks[t].done
              /\ db.tasks[t].assignee \in Users
              /\ IF db.tasks[m].live
                 THEN /\ m \in result.stamped
                      /\ result.tasks[m].archived = db.tasks[t].archived
                 ELSE ~tasks[m].live
              /\ \A k \in AssignmentMirrors(result, t) :
                    result.tasks[k].board = db.tasks[t].assignee
    BY SyncEffect DEF Pending
  <1>2. InOrder(result) /\ result \in GoodDatabases
    BY SyncOrders, SyncAssignmentMirrorGood DEF Pending
  <1>3. n # t => result.tasks[n].live
    OBVIOUS
  <1> HIDE DEF result
  <1>4. m \in TaskIds => IsMirror(result.tasks[m])
    BY <1>1, NoneIsNoId DEF IsMirror
  <1>5. \A u \in TaskIds \ {m} : StillThere(result, u) =>
           StillThere(db, u) /\ result.tasks[u] = db.tasks[u]
    BY <1>1 DEF StillThere
  <1>6. Versioned(result)
    <2> SUFFICES ASSUME NEW u \in TaskIds, StillThere(result, u),
                        Content(result.tasks[u]) # Content(tasks[u])
                 PROVE  u \in result.stamped
      BY DEF Versioned
    <2>1. CASE u = m
      <3>1. db.tasks[m].live => m \in result.stamped
        BY <1>1, <2>1, NoneIsNoId
      <3>2. ~db.tasks[m].live => ~tasks[m].live
        BY <1>1, <2>1, NoneIsNoId
      <3> QED
        BY <2>1, <3>1, <3>2 DEF StillThere
    <2>2. CASE u # m
      <3>1. u \in db.stamped
        BY <1>5, <2>2 DEF Pending, Versioned
      <3> QED
        BY <1>1, <3>1
    <2> QED
      BY <2>1, <2>2
  <1>7. Attended(result)
    <2> SUFFICES ASSUME NEW u \in TaskIds, StillThere(result, u),
                        OnProjectBoard(result.tasks[u]), ~IsMirror(result.tasks[u]),
                        ~SameButPlaced(tasks[u], result.tasks[u])
                 PROVE  /\ \A k \in AssignmentMirrors(result, u) :
                              result.tasks[k].board = result.tasks[u].assignee
                        /\ result.tasks[u].assignee # None =>
                              \E k \in AssignmentMirrors(result, u) :
                                 /\ result.tasks[k].done = result.tasks[u].done
                                 /\ tasks[k].live =>
                                       result.tasks[k].archived = result.tasks[u].archived
      BY DEF Attended
    <2>1. u # m
      BY <1>4
    <2>2. StillThere(db, u) /\ result.tasks[u] = db.tasks[u]
      BY <1>5, <2>1
    <2>3. u = t
      BY <2>2 DEF Pending, KeptBut
    <2>4. CASE m = None
      BY <1>1, <2>2, <2>3, <2>4 DEF HasMirror
    <2>5. CASE m # None
      <3>1. \A k \in AssignmentMirrors(result, t) :
               result.tasks[k].board = result.tasks[t].assignee
        BY <1>1, <2>2, <2>3, <2>5
      <3>2. m \in AssignmentMirrors(result, t)
        BY <1>1, <2>5 DEF AssignmentMirrors
      <3>3. result.tasks[m].done = result.tasks[t].done
        BY <1>1, <2>2, <2>3, <2>5
      <3>4. tasks[m].live => result.tasks[m].archived = result.tasks[t].archived
        BY <1>1, <2>2, <2>3, <2>5
      <3> QED
        BY <2>3, <3>1, <3>2, <3>3, <3>4
    <2> QED
      BY <2>4, <2>5
  <1>8. Completed(result)
    <2> SUFFICES ASSUME NEW u \in TaskIds, StillThere(result, u),
                        result.tasks[u].done # tasks[u].done,
                        \A c \in TaskIds : result.tasks[c].source # u
                 PROVE  /\ result.tasks[u].sourceSub # None =>
                              result.subs[result.tasks[u].sourceSub].done = result.tasks[u].done
                        /\ result.tasks[u].sourceSub = None /\ result.tasks[u].source # None =>
                              result.tasks[result.tasks[u].source].done = result.tasks[u].done
      BY DEF Completed
    <2>1. CASE u = m
      <3>1. /\ result.tasks[m].source = t /\ result.tasks[m].sourceSub = None
            /\ result.tasks[m].done = db.tasks[t].done
            /\ result.tasks[t].live /\ m # t
        BY <1>1, <2>1, NoneIsNoId
      <3>2. result.tasks[t] = db.tasks[t]
        BY <1>1, <3>1
      <3> QED
        BY <2>1, <3>1, <3>2
    <2>2. CASE u # m
      <3>1. StillThere(db, u) /\ result.tasks[u] = db.tasks[u]
        BY <1>5, <2>2
      <3>2. u \in {n, t}
        BY <3>1 DEF Pending, Ticked
      <3>3. u = n
        <4> SUFFICES ASSUME n # t, u = t PROVE FALSE
          BY <3>2
        <4>1. result.tasks[n].source = t
          <5>1. CASE n = m
            BY <1>1, <5>1, NoneIsNoId
          <5>2. CASE n # m
            <6>1. result.tasks[n] = db.tasks[n]
              BY <1>1, <1>3, <5>2
            <6> QED
              BY <6>1 DEF Pending, Ticked
          <5> QED
            BY <5>1, <5>2
        <4> QED
          BY <4>1
      <3>4. CASE result.tasks[u].sourceSub # None
        <4> DEFINE x == result.tasks[u].sourceSub
        <4>1. x \in SubIds
          BY <1>2, <3>4 DEF GoodDatabases, GoodTasks, Task
        <4>2. result.subs[x].live
          BY <1>2, <4>1 DEF StillThere, InOrder, Links, SubtaskLinks
        <4>3. result.subs[x] = db.subs[x]
          BY <1>1, <4>1, <4>2
        <4>4. db.subs[x].done = db.tasks[u].done
          BY <3>1, <3>3, <3>4 DEF Pending, Ticked
        <4> QED
          BY <3>1, <3>4, <4>3, <4>4
      <3>5. CASE result.tasks[u].sourceSub = None /\ result.tasks[u].source # None
        <4>1. db.tasks[u].source = t
          BY <3>1, <3>3, <3>5 DEF Pending, Ticked
        <4>2. result.tasks[t].live
          <5>1. CASE result.tasks[u].parent = None
            BY <1>2, <3>1, <4>1, <5>1
            DEF StillThere, InOrder, Links, SourceLinks
          <5>2. CASE result.tasks[u].parent # None
            BY <1>2, <3>1, <4>1, <5>2
            DEF StillThere, InOrder, Links, RowShape, ParentLinks
          <5> QED
            BY <5>1, <5>2
        <4>3. t # m
          BY <1>1, NoneIsNoId
        <4>4. result.tasks[t] = db.tasks[t]
          BY <1>1, <4>2, <4>3
        <4> QED
          BY <3>1, <3>3, <3>5, <4>1, <4>4 DEF Pending, Ticked
      <3> QED
        BY <3>4, <3>5
    <2> QED
      BY <2>1, <2>2
  <1> QED
    BY <1>2, <1>6, <1>7, <1>8 DEF Settled, result

\* A rule only puts a row into a column.
LEMMA RunAutomationSettles ==
    ASSUME NEW db \in GoodDatabases, Settled(db), NEW n \in TaskIds, NEW fires
    PROVE  Settled(RunAutomation(db, n, fires))
  <1> DEFINE row == [db.tasks[n] EXCEPT !.placed = TRUE]
             result == Save(db, n, row)
  <1>1. db.tasks[n] \in Task /\ db.tasks \in Tables
    BY DEF GoodDatabases, GoodTasks, Tables
  <1>2. /\ Alike(db.tasks[n], row)
        /\ row.done = db.tasks[n].done /\ row.archived = db.tasks[n].archived
        /\ SameButPlaced(tasks[n], row) <=> SameButPlaced(tasks[n], db.tasks[n])
    BY <1>1 DEF Alike, Task, SameButPlaced
  <1>3. InOrder(result)
    BY <1>2, SaveAlikeOrders DEF Settled
  <1> HIDE DEF row
  <1>4. /\ result.tasks = [db.tasks EXCEPT ![n] = row]
        /\ result.subs = db.subs
        /\ result.stamped = db.stamped \cup {n}
    BY DEF Save, GoodDatabases
  <1>5. \A u \in TaskIds :
           /\ Alike(db.tasks[u], result.tasks[u])
           /\ result.tasks[u].done = db.tasks[u].done
           /\ result.tasks[u].archived = db.tasks[u].archived
           /\ SameButPlaced(tasks[u], result.tasks[u]) <=>
                 SameButPlaced(tasks[u], db.tasks[u])
           /\ u # n => result.tasks[u] = db.tasks[u]
    BY <1>1, <1>2, <1>4 DEF Tables, Alike
  <1> HIDE DEF result
  <1>6. \A u \in TaskIds : AssignmentMirrors(result, u) = AssignmentMirrors(db, u)
    BY <1>5 DEF AssignmentMirrors, Alike
  <1>7. \A u \in TaskIds : StillThere(result, u) <=> StillThere(db, u)
    BY <1>5 DEF StillThere, Alike
  <1>8. Versioned(result)
    BY <1>4, <1>5, <1>7 DEF Settled, Versioned
  <1>9. Attended(result)
    <2> SUFFICES ASSUME NEW u \in TaskIds, StillThere(result, u),
                        OnProjectBoard(result.tasks[u]), ~IsMirror(result.tasks[u]),
                        ~SameButPlaced(tasks[u], result.tasks[u])
                 PROVE  /\ \A k \in AssignmentMirrors(result, u) :
                              result.tasks[k].board = result.tasks[u].assignee
                        /\ result.tasks[u].assignee # None =>
                              \E k \in AssignmentMirrors(result, u) :
                                 /\ result.tasks[k].done = result.tasks[u].done
                                 /\ tasks[k].live =>
                                       result.tasks[k].archived = result.tasks[u].archived
      BY DEF Attended
    <2>1. /\ StillThere(db, u)
          /\ OnProjectBoard(db.tasks[u]) /\ ~IsMirror(db.tasks[u])
          /\ ~SameButPlaced(tasks[u], db.tasks[u])
      BY <1>5, <1>7 DEF OnProjectBoard, IsMirror, Alike
    <2>2. /\ \A k \in AssignmentMirrors(db, u) :
                db.tasks[k].board = db.tasks[u].assignee
          /\ db.tasks[u].assignee # None =>
                \E k \in AssignmentMirrors(db, u) :
                   /\ db.tasks[k].done = db.tasks[u].done
                   /\ tasks[k].live => db.tasks[k].archived = db.tasks[u].archived
      BY <2>1 DEF Settled, Attended
    <2>3. AssignmentMirrors(db, u) \in SUBSET TaskIds
      BY DEF AssignmentMirrors
    <2>4. result.tasks[u].assignee = db.tasks[u].assignee
      BY <1>5 DEF Alike
    <2>5. \A k \in AssignmentMirrors(db, u) : result.tasks[k].board = db.tasks[k].board
      BY <1>5, <2>3 DEF Alike
    <2> QED
      BY <1>5, <1>6, <2>2, <2>3, <2>4, <2>5
  <1>10. Completed(result)
    <2>1. \A u \in TaskIds :
             /\ result.tasks[u].source = db.tasks[u].source
             /\ result.tasks[u].sourceSub = db.tasks[u].sourceSub
             /\ result.tasks[u].done = db.tasks[u].done
             /\ db.tasks[u].source \in TaskIds \cup {None}
      BY <1>1, <1>5 DEF Alike, Tables, Task
    <2> QED
      BY <1>4, <1>7, <2>1 DEF Settled, Completed
  <1>11. Settled(result)
    BY <1>3, <1>8, <1>9, <1>10 DEF Settled
  <1> QED
    BY <1>11 DEF RunAutomation, result, row

LEMMA SyncSubtaskSettles ==
    ASSUME NEW db \in GoodDatabases, InOrder(db), db.tasks = tasks,
           NEW x \in SubIds, db.subs[x].live, NEW m \in SubtaskMirrorTargets(db, x)
    PROVE  Settled(SyncSubtaskMirror(db, x, m))
  <1> DEFINE sub == db.subs[x]
             base == IF db.tasks[m].live THEN db.tasks[m] ELSE NewTask
             mirror == [base EXCEPT !.board = sub.assignee,
                                    !.placed = @ \/ base.board # sub.assignee,
                                    !.project = db.tasks[sub.task].project,
                                    !.parent = sub.task,
                                    !.source = sub.task, !.sourceSub = x,
                                    !.assignee = sub.assignee, !.done = sub.done]
             result == SyncSubtaskMirror(db, x, m)
  <1>1. result \in GoodDatabases /\ InOrder(result)
    BY SyncSubtaskMirrorGood, SyncSubtaskOrders
  <1>2. CASE m = None
    <2> DEFINE D == SubtaskMirrors(db, x)
    <2>1. D \in SUBSET TaskIds
      BY DEF SubtaskMirrors
    <2>2. Links(db.tasks, db.subs) /\ sub.task # None
      BY DEF InOrder, GoodDatabases, GoodSubtasks
    <2>3. Detached(db, D)
      <3> SUFFICES ASSUME NEW w \in D PROVE db.tasks[w].source # None
        BY DEF Detached
      <3>1. w \in TaskIds /\ db.tasks[w].live /\ db.tasks[w].sourceSub = x
        BY DEF SubtaskMirrors
      <3> QED
        BY <2>2, <3>1 DEF Links, SubtaskLinks, RowShape
    <2>4. result = Delete(db, D)
      BY <1>2 DEF SyncSubtaskMirror
    <2> HIDE DEF D, result
    <2>5. \A u \in TaskIds : result.tasks[u].live => result.tasks[u] = db.tasks[u]
      BY <2>1, <2>2, <2>3, <2>4, DeleteIsExact
    <2> QED
      BY <1>1, <2>5, UnchangedIsSettled DEF StillThere, result
  <1>3. CASE m # None
    <2>1. m \in TaskIds /\ (~db.tasks[m].live => ~tasks[m].live)
      BY <1>3 DEF SubtaskMirrorTargets, SubtaskMirrors, NextId, FreeIds
    <2>2. base \in Task
      BY <2>1 DEF NewTask, NoTask, Task, GoodDatabases, GoodTasks
    <2>3. result = IF db.tasks[m].live THEN Save(db, m, mirror)
                   ELSE [db EXCEPT !.tasks[m] = mirror]
      BY <1>3 DEF SyncSubtaskMirror
    <2> HIDE DEF base
    <2>4. mirror.sourceSub = x /\ mirror.done = sub.done
      BY <2>2 DEF Task
    <2> HIDE DEF mirror, result
    <2>5. /\ result.tasks = [db.tasks EXCEPT ![m] = mirror]
          /\ result.subs = db.subs
          /\ db.tasks[m].live => m \in result.stamped
      BY <2>3 DEF Save, GoodDatabases
    <2>6. result.tasks[m] = mirror /\ \A u \in TaskIds \ {m} : result.tasks[u] = tasks[u]
      BY <2>1, <2>5 DEF GoodDatabases
    <2>7. \A u \in TaskIds : SameButPlaced(db.tasks[u], db.tasks[u])
      BY DEF SameButPlaced, GoodDatabases, GoodTasks, Task
    <2>8. Versioned(result)
      BY <2>1, <2>5, <2>6 DEF Versioned, StillThere
    <2>9. Attended(result)
      BY <2>4, <2>6, <2>7, NoneIsNoId DEF Attended, IsMirror
    <2>10. Completed(result)
      BY <2>4, <2>5, <2>6, NoneIsNoId DEF Completed, StillThere
    <2> QED
      BY <1>1, <2>8, <2>9, <2>10 DEF Settled, result
  <1> QED
    BY <1>2, <1>3

-----------------------------------------------------------------------------
(* The handlers.                                                           *)

TablesOK ==
    /\ tasks \in [TaskIds -> GoodTasks]
    /\ subs \in [SubIds -> GoodSubtasks]
    /\ stamped \subseteq TaskIds \cup SubIds
    /\ renumbered \subseteq TaskIds

\* What holds of the tables between two requests.
Sound ==
    /\ TablesOK
    /\ Links(tasks, subs)
    /\ \A t \in TaskIds : Follows(tasks, t)

LEMMA DatabaseIsSound ==
    ASSUME Sound
    PROVE  /\ Database \in GoodDatabases
           /\ InOrder(Database)
           /\ Database.tasks = tasks
           /\ Database.subs = subs
           /\ tasks \in [TaskIds -> GoodTasks]
           /\ subs \in [SubIds -> GoodSubtasks]
           /\ tasks \in Tables
           /\ subs \in SubTables
  <1>1. TablesOK
    BY DEF Sound
  <1>2. Database.tasks = tasks /\ Database.subs = subs
    BY DEF Database
  <1>3. Database \in GoodDatabases
    BY <1>1 DEF TablesOK, Database, GoodDatabases
  <1>4. tasks \in Tables /\ subs \in SubTables
    BY <1>1 DEF TablesOK, Tables, SubTables, GoodTasks
  <1> QED
    BY <1>1, <1>2, <1>3, <1>4 DEF Sound, InOrder, TablesOK

LEMMA DatabaseGood ==
    Sound => /\ Database \in GoodDatabases
             /\ Database.tasks = tasks
             /\ Database.subs = subs
  BY DatabaseIsSound

\* The steps that the three action properties allow.
StampsChanges ==
    \A t \in TaskIds :
        Survives(t) /\ Content(tasks'[t]) # Content(tasks[t]) => t \in stamped'

ShowsAssignee ==
    \A t \in TaskIds :
        /\ Survives(t)
        /\ OnProjectBoard(tasks'[t]) /\ ~IsMirror(tasks'[t])
        /\ [tasks'[t] EXCEPT !.placed = tasks[t].placed] # tasks[t]
        => /\ \A m \in AssignmentMirrors(Database, t)' :
                 tasks'[m].board = tasks'[t].assignee
           /\ tasks'[t].assignee # None =>
                 \E m \in AssignmentMirrors(Database, t)' :
                    /\ tasks'[m].done = tasks'[t].done
                    /\ tasks[m].live => tasks'[m].archived = tasks'[t].archived

ReachesSource ==
    \A m \in TaskIds :
        /\ Survives(m) /\ tasks'[m].done # tasks[m].done
        /\ \A c \in TaskIds : tasks'[c].source # m
        =>
          /\ tasks'[m].sourceSub # None =>
                subs'[tasks'[m].sourceSub].done = tasks'[m].done
          /\ tasks'[m].sourceSub = None /\ tasks'[m].source # None =>
                tasks'[tasks'[m].source].done = tasks'[m].done

\* What every request leaves behind.
Outcome == Sound' /\ StampsChanges /\ ShowsAssignee /\ ReachesSource

LEMMA DatabaseIsSettled ==
    ASSUME Sound
    PROVE  Settled(Database)
  BY DatabaseIsSound, UnchangedIsSettled

LEMMA WriteSettled ==
    ASSUME NEW db \in GoodDatabases, Settled(db), Write(db),
           renumbered' \subseteq TaskIds
    PROVE  Outcome
  <1>1. tasks' = db.tasks /\ subs' = db.subs /\ stamped' = db.stamped
    BY DEF Write
  <1>2. Sound'
    <2>1. TablesOK'
      BY <1>1 DEF GoodDatabases, TablesOK
    <2>2. Links(tasks', subs') /\ \A t \in TaskIds : Follows(tasks', t)
      BY <1>1 DEF Settled, InOrder
    <2> QED
      BY <2>1, <2>2 DEF Sound
  <1>3. \A u \in TaskIds : Survives(u) <=> StillThere(db, u)
    BY <1>1 DEF Survives, StillThere
  <1>4. \A u \in TaskIds : AssignmentMirrors(Database, u)' = AssignmentMirrors(db, u)
    BY <1>1 DEF AssignmentMirrors, Database
  <1>5. StampsChanges
    BY <1>1, <1>3 DEF Settled, Versioned, StampsChanges
  <1>6. ShowsAssignee
    BY <1>1, <1>3, <1>4 DEF Settled, Attended, SameButPlaced, ShowsAssignee
  <1>7. ReachesSource
    BY <1>1, <1>3 DEF Settled, Completed, ReachesSource
  <1> QED
    BY <1>2, <1>5, <1>6, <1>7 DEF Outcome

LEMMA CommitSettled ==
    ASSUME NEW db \in GoodDatabases, Settled(db), Commit(db)
    PROVE  Outcome
  <1>1. Write(db) /\ renumbered' \subseteq TaskIds
    BY DEF Commit
  <1> QED
    BY <1>1, WriteSettled

\* What most handlers do once the row is written.
LEMMA SyncAndRunSettles ==
    ASSUME NEW db \in GoodDatabases, NEW n \in TaskIds, NEW t \in TaskIds,
           Pending(db, n, t), NEW m \in MirrorTargets(db, t),
           n # t => SyncAssignmentMirror(db, t, m).tasks[n].live,
           NEW fires \in BOOLEAN, fires => ~db.tasks[n].shared,
           Commit(RunAutomation(SyncAssignmentMirror(db, t, m), n, fires))
    PROVE  Outcome
  <1> DEFINE synced == SyncAssignmentMirror(db, t, m)
  <1>1. synced \in GoodDatabases /\ PoolShrinks(db, synced)
    BY SyncAssignmentMirrorGood
  <1>2. Settled(synced)
    BY SyncSettles
  <1> HIDE DEF synced
  <1>3. fires => ~synced.tasks[n].shared
    BY <1>1 DEF PoolShrinks
  <1>4. RunAutomation(synced, n, fires) \in GoodDatabases
    BY <1>1, <1>3, RunAutomationGood
  <1>5. Settled(RunAutomation(synced, n, fires))
    BY <1>1, <1>2, RunAutomationSettles
  <1> QED
    BY <1>4, <1>5, CommitSettled DEF synced

\* A request that writes no table.
LEMMA NothingWritten ==
    ASSUME Sound, UNCHANGED <<tasks, subs, stamped, renumbered>>
    PROVE  Outcome
  <1>1. \A t \in TaskIds : [tasks[t] EXCEPT !.placed = tasks[t].placed] = tasks[t]
    BY DatabaseIsSound DEF Tables, Task
  <1>2. Sound'
    BY DEF Sound, TablesOK
  <1> QED
    BY <1>1, <1>2 DEF Outcome, StampsChanges, ShowsAssignee, ReachesSource

LEMMA CreateTaskSettles ==
    ASSUME Sound,
           NEW board \in Users \cup Projects, NEW assignee \in Users \cup {None},
           NEW share \in BOOLEAN, NEW fires \in BOOLEAN,
           CreateTask(board, assignee, share, fires)
    PROVE  Outcome
  <1> DEFINE owner == IF assignee = None THEN board ELSE assignee
             shared == share /\ assignee = None
             row == IF board \in Users
                    THEN [NewTask EXCEPT !.board = owner, !.placed = TRUE,
                                         !.assignee = owner]
                    ELSE [NewTask EXCEPT !.board = board, !.project = board,
                                         !.assignee = assignee, !.shared = shared,
                                         !.placed = ~shared]
  <1>1. row \in GoodTasks /\ row \in Task /\ IsOriginal(row)
    <2>1. CASE board \in Users
      <3>1. owner \in Users
        BY <2>1
      <3> HIDE DEF owner
      <3>2. row = [NewTask EXCEPT !.board = owner, !.placed = TRUE, !.assignee = owner]
        BY <2>1
      <3>3. row \in Task
        BY <3>1, <3>2 DEF NewTask, NoTask, Task
      <3>4. /\ row.live /\ ~row.shared /\ row.board = owner /\ row.assignee = owner
            /\ row.source = None /\ row.sourceSub = None /\ row.parent = None
        BY <3>2 DEF NewTask, NoTask
      <3>5. row \in GoodTasks
        BY <3>1, <3>3, <3>4, NoneIsNoId DEF GoodTasks, RowOK
      <3>6. IsOriginal(row)
        BY <3>1, <3>4, BoardsDisjoint DEF IsOriginal, RowShape
      <3> QED
        BY <3>3, <3>5, <3>6
    <2>2. CASE board \in Projects
      <3>1. shared \in BOOLEAN /\ (shared => assignee = None)
        OBVIOUS
      <3> HIDE DEF shared
      <3>2. row = [NewTask EXCEPT !.board = board, !.project = board,
                                  !.assignee = assignee, !.shared = shared,
                                  !.placed = ~shared]
        BY <2>2, BoardsDisjoint
      <3>3. row \in Task
        BY <2>2, <3>1, <3>2 DEF NewTask, NoTask, Task
      <3>4. /\ row.live /\ row.board = board /\ row.project = board
            /\ row.shared = shared /\ row.placed = ~shared
            /\ row.assignee = assignee
            /\ row.source = None /\ row.sourceSub = None /\ row.parent = None
        BY <3>2 DEF NewTask, NoTask
      <3>5. row \in GoodTasks
        BY <2>2, <3>1, <3>3, <3>4, NoneIsNoId, BoardsDisjoint DEF GoodTasks, RowOK
      <3>6. IsOriginal(row)
        BY <3>4 DEF IsOriginal, RowShape
      <3> QED
        BY <3>3, <3>5, <3>6
    <2> QED
      BY <2>1, <2>2
  <1>2. /\ MayFire(row, fires)
        /\ \E t \in NextId(Database) :
             LET created == [Database EXCEPT !.tasks[t] = row]
             IN  \E m \in MirrorTargets(created, t) :
                   Commit(RunAutomation(SyncAssignmentMirror(created, t, m), t, fires))
    BY DEF CreateTask
  <1> HIDE DEF row
  <1>3. PICK t \in NextId(Database) :
          LET created == [Database EXCEPT !.tasks[t] = row]
          IN  \E m \in MirrorTargets(created, t) :
                Commit(RunAutomation(SyncAssignmentMirror(created, t, m), t, fires))
    BY <1>2
  <1> DEFINE created == [Database EXCEPT !.tasks[t] = row]
  <1>4. t \in TaskIds /\ ~tasks[t].live
    BY DEF NextId, FreeIds
  <1>5. /\ created \in GoodDatabases
        /\ created.tasks = [tasks EXCEPT ![t] = row]
        /\ created.subs = subs
    BY <1>1, <1>4, DatabaseGood, InsertGood
  <1>6. created.tasks[t] = row
    BY <1>4, <1>5, DatabaseIsSound
  <1>7. /\ Links([tasks EXCEPT ![t] = row], subs)
        /\ \A u \in TaskIds : Follows([tasks EXCEPT ![t] = row], u)
    BY <1>1, <1>4, DatabaseIsSound, OriginalKeepsLinks DEF Sound
  <1> HIDE DEF created
  <1>8. Pending(created, t, t)
    <2>1. InOrderBut(created, t)
      BY <1>5, <1>7 DEF InOrderBut
    <2>2. ~tasks[t].live /\ \A u \in TaskIds \ {t} : created.tasks[u] = tasks[u]
      BY <1>4, <1>5, DatabaseIsSound
    <2>3. \A u \in TaskIds : SameButPlaced(tasks[u], tasks[u])
      BY DatabaseIsSound DEF SameButPlaced, Tables, Task
    <2> QED
      BY <2>1, <2>2, <2>3
      DEF Pending, Versioned, KeptBut, Ticked, StillThere
  <1>9. PICK m \in MirrorTargets(created, t) :
          Commit(RunAutomation(SyncAssignmentMirror(created, t, m), t, fires))
    BY <1>3 DEF created
  <1> QED
    BY <1>2, <1>4, <1>5, <1>6, <1>8, <1>9, SyncAndRunSettles DEF MayFire

\* One write of a task row, then synchronisation and automation.
LEMMA WriteTaskSettles ==
    ASSUME Sound, NEW t \in TaskIds, NEW row \in GoodTasks, NEW fires \in BOOLEAN,
           Rewrites(tasks[t], row), row.done = tasks[t].done, fires => ~row.shared,
           \E m \in MirrorTargets(Save(Database, t, row), t) :
              Commit(RunAutomation(
                SyncAssignmentMirror(Save(Database, t, row), t, m), t, fires))
    PROVE  Outcome
  <1> DEFINE saved == Save(Database, t, row)
  <1>1. /\ saved \in GoodDatabases
        /\ saved.tasks = [tasks EXCEPT ![t] = row]
        /\ saved.subs = subs
        /\ t \in saved.stamped
    BY DatabaseGood, SaveGood DEF Save, Database
  <1>2. row \in Task
    BY DEF GoodTasks
  <1>3. saved.tasks[t] = row
    BY <1>1, DatabaseIsSound
  <1>4. /\ Links([tasks EXCEPT ![t] = row], subs)
        /\ \A u \in TaskIds \ {t} : Follows([tasks EXCEPT ![t] = row], u)
    BY <1>2, DatabaseIsSound, RewriteKeepsLinks DEF Sound
  <1> HIDE DEF saved
  <1>5. Pending(saved, t, t)
    <2>1. InOrderBut(saved, t)
      BY <1>1, <1>4 DEF InOrderBut
    <2>2. \A u \in TaskIds \ {t} : saved.tasks[u] = tasks[u]
      BY <1>1, DatabaseIsSound
    <2>3. \A u \in TaskIds : SameButPlaced(tasks[u], tasks[u])
      BY DatabaseIsSound DEF SameButPlaced, Tables, Task
    <2> QED
      BY <1>1, <1>3, <2>1, <2>2, <2>3
      DEF Pending, Versioned, KeptBut, Ticked, StillThere
  <1>6. PICK m \in MirrorTargets(saved, t) :
          Commit(RunAutomation(SyncAssignmentMirror(saved, t, m), t, fires))
    BY DEF saved
  <1> QED
    BY <1>1, <1>3, <1>5, <1>6, SyncAndRunSettles

\* Whatever update_task makes of a row, the row keeps its references and its
\* place, or it remembers the pool it came from.
LEMMA UpdateTaskSettles ==
    ASSUME Sound, NEW t \in TaskIds, NEW share \in {"keep", "share", "withdraw"},
           NEW supplied \in BOOLEAN, NEW assignee \in Users \cup {None},
           NEW newColumn \in BOOLEAN, NEW fires \in BOOLEAN,
           UpdateTask(t, share, supplied, assignee, newColumn, fires)
    PROVE  Outcome
  <1> DEFINE row == tasks[t]
             pool == PoolOf(row)
             toPool == share = "share" \/ (supplied /\ assignee = None /\ pool # None)
             toPerson == GoesToPerson(row, supplied, assignee)
             stillShared == row.shared /\ assignee = None /\ share # "withdraw"
             released == [row EXCEPT !.poolSource = pool, !.project = pool,
                                     !.board = pool, !.placed = FALSE,
                                     !.assignee = None, !.shared = TRUE]
             handedOn == [row EXCEPT !.poolSource = pool, !.project = None,
                                     !.board = assignee, !.placed = TRUE,
                                     !.assignee = assignee, !.shared = FALSE]
             edited == [row EXCEPT !.assignee = assignee, !.shared = stillShared,
                                   !.placed = ~stillShared /\ (@ \/ newColumn)]
             updated == IF toPool THEN released
                        ELSE IF toPerson THEN handedOn ELSE edited
  <1>1. row \in GoodTasks /\ row \in Task /\ RowShape(row)
    BY DatabaseIsSound DEF Sound, Links, GoodTasks
  <1>2. pool \in Projects \cup {None}
    BY <1>1 DEF PoolOf, Task
  <1>3. /\ row.live
        /\ supplied \/ assignee = row.assignee
        /\ toPool => pool # None
        /\ MayFire(updated, fires)
        /\ \E m \in MirrorTargets(Save(Database, t, updated), t) :
              Commit(RunAutomation(
                SyncAssignmentMirror(Save(Database, t, updated), t, m), t, fires))
    BY DEF UpdateTask
  <1>4. toPool => released \in GoodTasks /\ Rewrites(row, released) /\ released.done = row.done
    <2> SUFFICES ASSUME toPool
                 PROVE  released \in GoodTasks /\ Rewrites(row, released) /\ released.done = row.done
      OBVIOUS
    <2>1. pool \in Projects
      BY <1>2, <1>3
    <2> HIDE DEF row, pool
    <2>2. released \in Task
      BY <1>1, <2>1 DEF Task
    <2>3. /\ released.live = row.live /\ released.source = row.source
          /\ released.sourceSub = row.sourceSub /\ released.parent = row.parent
          /\ released.board = pool /\ released.project = pool
          /\ released.poolSource = pool
          /\ released.assignee = None /\ ~released.placed
          /\ released.done = row.done
      BY <1>1 DEF Task
    <2>4. released \in GoodTasks
      BY <2>1, <2>2, <2>3, NoneIsNoId, BoardsDisjoint DEF GoodTasks, RowOK
    <2>5. Rewrites(row, released)
      BY <1>1, <1>3, <2>1, <2>3, NoneIsNoId DEF Rewrites, RowShape
    <2> QED
      BY <2>3, <2>4, <2>5
  <1>5. toPerson => handedOn \in GoodTasks /\ Rewrites(row, handedOn) /\ handedOn.done = row.done
    <2> SUFFICES ASSUME toPerson
                 PROVE  handedOn \in GoodTasks /\ Rewrites(row, handedOn) /\ handedOn.done = row.done
      OBVIOUS
    <2>1. assignee \in Users
      BY DEF GoesToPerson
    <2>2. pool = None => row.poolSource = None /\ row.project = None
      BY DEF PoolOf
    <2> HIDE DEF row, pool
    <2>3. handedOn \in Task
      BY <1>1, <1>2, <2>1 DEF Task
    <2>4. /\ handedOn.live = row.live /\ handedOn.source = row.source
          /\ handedOn.sourceSub = row.sourceSub /\ handedOn.parent = row.parent
          /\ handedOn.board = assignee /\ handedOn.poolSource = pool
          /\ handedOn.assignee = assignee /\ ~handedOn.shared
          /\ handedOn.done = row.done
      BY <1>1 DEF Task
    <2>5. handedOn \in GoodTasks
      BY <2>1, <2>3, <2>4, NoneIsNoId DEF GoodTasks, RowOK
    <2>6. Rewrites(row, handedOn)
      BY <1>1, <1>3, <2>1, <2>2, <2>4, BoardsDisjoint DEF Rewrites, RowShape
    <2> QED
      BY <2>4, <2>5, <2>6
  <1>6. ~toPerson =>
           edited \in GoodTasks /\ Rewrites(row, edited) /\ edited.done = row.done
    <2> SUFFICES ASSUME ~toPerson
                 PROVE  edited \in GoodTasks /\ Rewrites(row, edited) /\ edited.done = row.done
      OBVIOUS
    <2>1. stillShared \in BOOLEAN /\ (stillShared => row.shared /\ assignee = None)
      BY <1>1 DEF Task
    <2>2. row.board \in Users => assignee \in {None, row.board}
      <3>1. row.board \in Users => row.assignee \in {None, row.board}
        BY <1>1, <1>3 DEF GoodTasks, RowOK
      <3> QED
        BY <1>3, <3>1 DEF GoesToPerson
    <2> DEFINE placed == ~stillShared /\ (row.placed \/ newColumn)
    <2>3. placed \in BOOLEAN /\ (stillShared => ~placed)
      OBVIOUS
    <2>4. edited = [row EXCEPT !.assignee = assignee, !.shared = stillShared,
                               !.placed = placed]
      OBVIOUS
    <2> HIDE DEF stillShared, placed, row, edited
    <2>5. edited \in Task
      <3>1. ASSUME NEW a \in Users \cup {None}, NEW s \in BOOLEAN, NEW p \in BOOLEAN
            PROVE  [row EXCEPT !.assignee = a, !.shared = s, !.placed = p] \in Task
        BY <1>1 DEF Task
      <3> QED
        BY <2>1, <2>3, <2>4, <3>1
    <2>6. /\ edited.live = row.live /\ edited.source = row.source
          /\ edited.sourceSub = row.sourceSub /\ edited.parent = row.parent
          /\ edited.board = row.board /\ edited.project = row.project
          /\ edited.poolSource = row.poolSource /\ edited.assignee = assignee
          /\ edited.shared = stillShared /\ edited.placed = placed
          /\ edited.done = row.done
      BY <1>1, <2>4 DEF Task
    <2>7. edited \in GoodTasks
      BY <1>1, <1>3, <2>1, <2>2, <2>3, <2>5, <2>6 DEF GoodTasks, RowOK
    <2>8. Rewrites(row, edited)
      BY <1>1, <1>3, <2>6 DEF Rewrites, RowShape
    <2> QED
      BY <2>6, <2>7, <2>8
  <1>7. updated \in GoodTasks /\ Rewrites(row, updated) /\ updated.done = row.done
    BY <1>4, <1>5, <1>6
  <1> HIDE DEF updated
  <1> QED
    BY <1>3, <1>7, WriteTaskSettles DEF MayFire

\* The claimed row leaves its role as a mirror: it keeps its pool's project.
LEMMA ClaimPoolTaskSettles ==
    ASSUME Sound, NEW t \in TaskIds, NEW u \in Users, ClaimPoolTask(t, u)
    PROVE  Outcome
  <1> DEFINE row == tasks[t]
             mine == [row EXCEPT !.board = u, !.poolSource = row.project,
                                 !.project = None, !.placed = TRUE, !.assignee = u,
                                 !.shared = FALSE]
             claimed == Save(Database, t, mine)
             Z == [x \in SubIds |->
                     IF subs[x].live /\ subs[x].task = t /\ subs[x].assignee # u
                     THEN [subs[x] EXCEPT !.assignee = None] ELSE subs[x]]
             withdrawn == [claimed EXCEPT !.subs = Z]
  <1>1. row \in Task /\ row.live /\ RowShape(row) /\ row.project # None
    <2>1. row \in GoodTasks /\ row.live /\ row.shared
      BY DatabaseIsSound DEF ClaimPoolTask
    <2> QED
      BY <2>1, NoneIsNoId DEF Sound, Links, GoodTasks, RowOK
  <1>2. /\ mine \in GoodTasks /\ mine \in Task /\ Rewrites(row, mine)
        /\ mine.done = row.done /\ mine.board = u
    <2> HIDE DEF row
    <2>1. mine \in Task
      <3>1. row.project \in Projects \cup {None}
        BY <1>1 DEF Task
      <3> QED
        BY <1>1, <3>1 DEF Task
    <2>2. /\ mine.board = u /\ mine.assignee = u /\ ~mine.shared
          /\ mine.live = row.live /\ mine.source = row.source
          /\ mine.sourceSub = row.sourceSub /\ mine.parent = row.parent
          /\ mine.poolSource = row.project /\ mine.done = row.done
      BY <1>1 DEF Task
    <2>3. mine \in GoodTasks
      BY <2>1, <2>2, NoneIsNoId DEF GoodTasks, RowOK
    <2>4. Rewrites(row, mine)
      BY <1>1, <2>2, BoardsDisjoint DEF Rewrites, RowShape
    <2> QED
      BY <2>1, <2>2, <2>3, <2>4
  <1> HIDE DEF mine
  <1>3. /\ claimed \in GoodDatabases
        /\ claimed.tasks = [tasks EXCEPT ![t] = mine]
        /\ claimed.subs = subs
        /\ t \in claimed.stamped
    BY <1>2, DatabaseGood, SaveGood DEF Save, Database
  <1>4. Z \in [SubIds -> GoodSubtasks]
    <2> SUFFICES ASSUME NEW x \in SubIds PROVE Z[x] \in GoodSubtasks
      OBVIOUS
    <2>1. subs[x] \in GoodSubtasks
      BY DatabaseIsSound
    <2> QED
      BY <2>1 DEF GoodSubtasks, Subtask
  <1>5. SameSubtasks(subs, Z)
    <2> SUFFICES ASSUME NEW x \in SubIds
                 PROVE  Z[x].live = subs[x].live /\ Z[x].task = subs[x].task
      BY DEF SameSubtasks
    <2>1. subs[x] \in Subtask
      BY DatabaseIsSound DEF GoodSubtasks
    <2> QED
      BY <2>1 DEF Subtask
  <1>6. /\ Links([tasks EXCEPT ![t] = mine], subs)
        /\ \A k \in TaskIds \ {t} : Follows([tasks EXCEPT ![t] = mine], k)
    BY <1>2, DatabaseIsSound, RewriteKeepsLinks DEF Sound
  <1> HIDE DEF claimed, Z
  <1>7. /\ withdrawn \in GoodDatabases
        /\ withdrawn.tasks = claimed.tasks
        /\ withdrawn.subs = Z
        /\ withdrawn.stamped = claimed.stamped
    BY <1>3, <1>4 DEF GoodDatabases
  <1>8. Commit(SyncAssignmentMirror(withdrawn, t, None))
    BY DEF ClaimPoolTask, claimed, Z, mine
  <1> HIDE DEF withdrawn
  <1>9. Links(withdrawn.tasks, withdrawn.subs)
    <2>1. \A k \in TaskIds : Alike(withdrawn.tasks[k], withdrawn.tasks[k])
      BY DEF Alike
    <2> QED
      BY <1>3, <1>5, <1>6, <1>7, <2>1, DatabaseIsSound, AlikeKeepsLinks
  <1>10. InOrderBut(withdrawn, t)
    BY <1>3, <1>6, <1>7, <1>9 DEF InOrderBut
  <1>11. withdrawn.tasks[t] = mine /\ \A k \in TaskIds \ {t} : withdrawn.tasks[k] = tasks[k]
    BY <1>3, <1>7, DatabaseIsSound
  <1>12. Pending(withdrawn, t, t)
    <2>1. \A k \in TaskIds : SameButPlaced(tasks[k], tasks[k])
      BY DatabaseIsSound DEF SameButPlaced, Tables, Task
    <2> QED
      BY <1>2, <1>3, <1>7, <1>10, <1>11, <2>1
      DEF Pending, Versioned, KeptBut, Ticked, StillThere
  <1>13. None \in MirrorTargets(withdrawn, t)
    BY <1>2, <1>11, BoardsDisjoint DEF MirrorTargets, HasMirror, OnProjectBoard
  <1>14. Commit(RunAutomation(SyncAssignmentMirror(withdrawn, t, None), t, FALSE))
    BY <1>8 DEF RunAutomation
  <1> QED
    BY <1>7, <1>12, <1>13, <1>14, SyncAndRunSettles

LEMMA MoveTaskSettles ==
    ASSUME Sound, NEW t \in TaskIds, MoveTask(t)
    PROVE  Outcome
  <1>1. Database \in GoodDatabases /\ Settled(Database) /\ Database.tasks = tasks
    BY DatabaseIsSound, DatabaseIsSettled
  <1>2. RunAutomation(Database, t, TRUE) \in GoodDatabases
    BY <1>1, RunAutomationGood DEF MoveTask
  <1>3. Settled(RunAutomation(Database, t, TRUE))
    BY <1>1, RunAutomationSettles
  <1>4. Write(RunAutomation(Database, t, TRUE)) /\ renumbered' \subseteq TaskIds
    BY <1>1 DEF MoveTask, RunAutomation, Siblings
  <1> QED
    BY <1>2, <1>3, <1>4, WriteSettled

\* Ticking a row, its source or its subtask keeps them good.
LEMMA TickGood ==
    ASSUME NEW db \in GoodDatabases, NEW t \in TaskIds, NEW done \in BOOLEAN
    PROVE  LET ticked == [db.tasks[t] EXCEPT !.done = done]
           IN  /\ ticked \in GoodTasks
               /\ ticked.shared = db.tasks[t].shared
               /\ Alike(db.tasks[t], ticked)
  <1> DEFINE ticked == [db.tasks[t] EXCEPT !.done = done]
  <1>1. db.tasks[t] \in GoodTasks /\ db.tasks[t] \in Task
    BY DEF GoodDatabases, GoodTasks
  <1>2. ticked \in Task
    BY <1>1 DEF Task
  <1>3. /\ ticked.shared = db.tasks[t].shared
        /\ ticked.placed = db.tasks[t].placed
        /\ Alike(db.tasks[t], ticked)
    BY <1>1 DEF Task, Alike
  <1>4. ticked \in GoodTasks
    BY <1>1, <1>2, <1>3 DEF GoodTasks, RowOK, Alike
  <1> QED
    BY <1>3, <1>4

LEMMA SetTaskCompletedSettles ==
    ASSUME Sound, NEW t \in TaskIds, NEW completed \in BOOLEAN, NEW fires \in BOOLEAN,
           SetTaskCompleted(t, completed, fires)
    PROVE  Outcome
  <1> DEFINE row == tasks[t]
             synced == CompletionTarget(t)
             own == Save(Database, t, [row EXCEPT !.done = completed])
             both == Save(own, synced, [own.tasks[synced] EXCEPT !.done = completed])
             ticked == IF row.sourceSub = None THEN both
                       ELSE [both EXCEPT !.subs[row.sourceSub].done = completed]
  <1>1. /\ Database \in GoodDatabases /\ Database.tasks = tasks /\ Database.subs = subs
        /\ InOrder(Database)
        /\ row \in Task
        /\ tasks \in [TaskIds -> Task]
    BY DatabaseIsSound DEF Tables
  <1>2. synced \in TaskIds
    BY <1>1 DEF CompletionTarget, Task
  <1>3. /\ own \in GoodDatabases /\ InOrder(own)
        /\ own.tasks = [tasks EXCEPT ![t] = [row EXCEPT !.done = completed]]
        /\ t \in own.stamped
    <2> DEFINE new == [row EXCEPT !.done = completed]
    <2>1. new \in GoodTasks /\ Alike(Database.tasks[t], new)
      BY <1>1, TickGood
    <2>2. own = Save(Database, t, new)
      OBVIOUS
    <2> HIDE DEF new, own
    <2>3. t \in own.stamped
      BY <1>1, <2>2 DEF Save, GoodDatabases
    <2>4. own \in GoodDatabases /\ own.tasks = [tasks EXCEPT ![t] = new]
      BY <1>1, <2>1, <2>2, SaveGood
    <2>5. InOrder(own)
      BY <1>1, <2>1, <2>2, SaveAlikeOrders
    <2> QED
      BY <2>4, <2>5, <2>3 DEF new
  <1>4. /\ own.tasks[t].shared = row.shared /\ own.tasks[t].done = completed
        /\ own.tasks[t].source = row.source /\ own.tasks[t].sourceSub = row.sourceSub
        /\ \A u \in TaskIds \ {t} : own.tasks[u] = tasks[u]
    BY <1>1, <1>3 DEF Task
  <1>5. /\ both \in GoodDatabases /\ InOrder(both)
        /\ both.tasks[t].shared = row.shared /\ both.tasks[t].done = completed
        /\ both.tasks[t].source = row.source /\ both.tasks[t].sourceSub = row.sourceSub
        /\ both.tasks[synced].done = completed
        /\ \A u \in TaskIds \ {t, synced} : both.tasks[u] = tasks[u]
        /\ {t, synced} \subseteq both.stamped
    <2> HIDE DEF own, synced
    <2> DEFINE source == [own.tasks[synced] EXCEPT !.done = completed]
    <2>1. /\ source \in GoodTasks /\ source.shared = own.tasks[synced].shared
          /\ Alike(own.tasks[synced], source)
      BY <1>2, <1>3, TickGood
    <2>2. source.done = completed
      BY <2>1, <1>2, <1>3 DEF GoodDatabases, GoodTasks, Task
    <2> HIDE DEF source
    <2>3. own \in GoodDatabases /\ source \in GoodTasks
      BY <1>3, <2>1
    <2>4. /\ Save(own, synced, source) \in GoodDatabases
          /\ Save(own, synced, source).tasks = [own.tasks EXCEPT ![synced] = source]
      BY <1>2, <2>3, SaveGood
    <2>5. own.tasks \in [TaskIds -> GoodTasks]
      BY <1>3 DEF GoodDatabases
    <2>6. InOrder(Save(own, synced, source))
      BY <1>2, <1>3, <2>1, SaveAlikeOrders
    <2>7. {t, synced} \subseteq Save(own, synced, source).stamped
      BY <1>3 DEF Save, GoodDatabases
    <2>8. both = Save(own, synced, source)
      BY DEF source
    <2>9. both.tasks[synced] = source /\ \A u \in TaskIds \ {synced} : both.tasks[u] = own.tasks[u]
      BY <1>2, <2>4, <2>5, <2>8
    <2> HIDE DEF both
    <2>10. /\ both.tasks[t].shared = row.shared /\ both.tasks[t].done = completed
          /\ both.tasks[t].source = row.source /\ both.tasks[t].sourceSub = row.sourceSub
      BY <1>4, <2>1, <2>2, <2>9 DEF Alike
    <2> QED
      BY <1>4, <2>2, <2>4, <2>6, <2>7, <2>8, <2>9, <2>10
  <1> HIDE DEF both
  <1>6. /\ ticked \in GoodDatabases /\ ticked.tasks = both.tasks /\ InOrder(ticked)
        /\ ticked.stamped = both.stamped
        /\ row.sourceSub # None => ticked.subs[row.sourceSub].done = completed
    <2>1. ASSUME NEW x \in SubIds
          PROVE  LET result == [both EXCEPT !.subs[x].done = completed]
                 IN  /\ result \in GoodDatabases
                     /\ result.tasks = both.tasks
                     /\ result.stamped = both.stamped
                     /\ result.subs[x].done = completed
                     /\ InOrder(result)
      <3> DEFINE sub == [both.subs[x] EXCEPT !.done = completed]
                 result == [both EXCEPT !.subs[x] = sub]
      <3>1. both.subs[x] \in GoodSubtasks
        BY <1>5 DEF GoodDatabases
      <3>2. /\ sub \in GoodSubtasks
            /\ sub.live = both.subs[x].live /\ sub.task = both.subs[x].task
            /\ sub.done = completed
        BY <3>1 DEF GoodSubtasks, Subtask
      <3>3. [both EXCEPT !.subs[x].done = completed] = result
        OBVIOUS
      <3> HIDE DEF sub
      <3>4. /\ result \in GoodDatabases
            /\ result.tasks = both.tasks
            /\ result.stamped = both.stamped
            /\ result.subs = [both.subs EXCEPT ![x] = sub]
        BY <1>5, <3>2 DEF GoodDatabases
      <3> HIDE DEF result
      <3>5. SameSubtasks(both.subs, result.subs)
        BY <1>5, <3>2, <3>4 DEF SameSubtasks, GoodDatabases
      <3>6. \A k \in TaskIds : Alike(both.tasks[k], result.tasks[k])
        BY <3>4 DEF Alike
      <3>7. both.subs \in SubTables
        BY <1>5 DEF GoodDatabases, SubTables
      <3>8. InOrder(result)
        BY <1>5, <3>5, <3>6, <3>7, AlikeKeepsLinks DEF InOrder
      <3>9. result.subs[x] = sub
        BY <1>5, <3>4 DEF GoodDatabases
      <3> QED
        BY <3>2, <3>3, <3>4, <3>8, <3>9
    <2>2. row.sourceSub \in SubIds \cup {None}
      BY <1>1 DEF Task
    <2> QED
      BY <1>5, <2>1, <2>2
  <1>7. /\ MayFire(row, fires)
        /\ \E m \in MirrorTargets(ticked, synced) :
             /\ SyncAssignmentMirror(ticked, synced, m).tasks[t].live
             /\ Commit(RunAutomation(SyncAssignmentMirror(ticked, synced, m), t, fires))
    BY DEF SetTaskCompleted, both
  <1> HIDE DEF ticked, synced
  <1>8. PICK m \in MirrorTargets(ticked, synced) :
          /\ SyncAssignmentMirror(ticked, synced, m).tasks[t].live
          /\ Commit(RunAutomation(SyncAssignmentMirror(ticked, synced, m), t, fires))
    BY <1>7
  <1>9. InOrderBut(ticked, synced)
    BY <1>6 DEF InOrder, InOrderBut
  <1>10. IF synced = t THEN row.sourceSub # None \/ row.source \in {None, t}
                      ELSE row.source = synced /\ row.sourceSub = None /\ synced # None
    BY <1>1, NoneIsNoId DEF synced, CompletionTarget, Task
  <1>11. Versioned(ticked)
    BY <1>5, <1>6 DEF Versioned
  <1>12. KeptBut(ticked, synced)
    <2>1. \A u \in TaskIds : SameButPlaced(tasks[u], tasks[u])
      BY <1>1 DEF SameButPlaced, Task
    <2>2. synced # t => IsMirror(ticked.tasks[t])
      BY <1>5, <1>6, <1>10 DEF IsMirror
    <2> QED
      BY <1>5, <1>6, <2>1, <2>2 DEF KeptBut
  <1>13. Ticked(ticked, t, synced)
    BY <1>5, <1>6, <1>10 DEF Ticked
  <1>14. Pending(ticked, t, synced)
    BY <1>9, <1>11, <1>12, <1>13 DEF Pending
  <1> QED
    BY <1>2, <1>5, <1>6, <1>7, <1>8, <1>14, SyncAndRunSettles DEF MayFire

LEMMA ArchiveTaskSettles ==
    ASSUME Sound, NEW t \in TaskIds, NEW archived \in BOOLEAN,
           ArchiveTask(t, archived)
    PROVE  Outcome
  <1> DEFINE row == [tasks[t] EXCEPT !.archived = archived]
  <1>1. tasks[t] \in GoodTasks /\ tasks[t] \in Task /\ tasks[t].live
    BY DatabaseIsSound DEF GoodTasks, ArchiveTask
  <1>2. row \in Task
    BY <1>1 DEF Task
  <1>3. /\ row.shared = tasks[t].shared /\ row.placed = tasks[t].placed
        /\ row.done = tasks[t].done
        /\ Alike(tasks[t], row)
    BY <1>1 DEF Task, Alike
  <1>4. row \in GoodTasks
    BY <1>1, <1>2, <1>3 DEF GoodTasks, RowOK, Alike
  <1>5. Rewrites(tasks[t], row)
    <2>1. RowShape(tasks[t])
      BY DEF Sound, Links
    <2> QED
      BY <1>1, <1>3, <2>1 DEF Rewrites, Alike, RowShape
  <1>6. \E m \in MirrorTargets(Save(Database, t, row), t) :
           Commit(RunAutomation(
             SyncAssignmentMirror(Save(Database, t, row), t, m), t, FALSE))
    BY DEF ArchiveTask, RunAutomation
  <1> HIDE DEF row
  <1> QED
    BY <1>3, <1>4, <1>5, <1>6, WriteTaskSettles

LEMMA DestroyTaskSettles ==
    ASSUME Sound, NEW t \in TaskIds, DestroyTask(t)
    PROVE  Outcome
  <1> DEFINE mirrors == {m \in TaskIds : /\ tasks[m].live
                                         /\ tasks[m].source = t
                                         /\ tasks[m].sourceSub = None}
             unmirrored == Delete(Database, mirrors)
  <1>1. mirrors \in SUBSET TaskIds /\ {t} \in SUBSET TaskIds
    OBVIOUS
  <1>2. Commit(Delete(unmirrored, {t}))
    BY DEF DestroyTask
  <1> HIDE DEF mirrors
  <1>3. unmirrored \in GoodDatabases /\ InOrder(unmirrored)
    BY <1>1, DatabaseIsSound, DeleteGood, DeleteKeepsOrder
  <1>4. /\ Database \in GoodDatabases /\ Links(Database.tasks, Database.subs)
        /\ Database.tasks = tasks
    BY DatabaseIsSound DEF InOrder
  <1>5. Detached(Database, mirrors)
    BY <1>4, NoneIsNoId DEF Detached, mirrors
  <1>6. \A u \in TaskIds : unmirrored.tasks[u].live =>
           u \notin mirrors /\ unmirrored.tasks[u] = tasks[u]
    BY <1>1, <1>4, <1>5, DeleteIsExact
  <1> HIDE DEF unmirrored
  <1>7. Delete(unmirrored, {t}) \in GoodDatabases /\ InOrder(Delete(unmirrored, {t}))
    BY <1>1, <1>3, DeleteGood, DeleteKeepsOrder
  <1>8. Detached(unmirrored, {t})
    <2> SUFFICES ASSUME NEW u \in TaskIds, unmirrored.tasks[u].live,
                        unmirrored.tasks[u].source = t,
                        unmirrored.tasks[u].parent = None
                 PROVE  FALSE
      BY DEF Detached
    <2>1. /\ u \notin mirrors /\ tasks[u].live
          /\ tasks[u].source = t /\ tasks[u].parent = None
      BY <1>6
    <2>2. tasks[u].sourceSub \in SubIds
      BY <2>1, DatabaseIsSound DEF mirrors, Tables, Task
    <2>3. subs[tasks[u].sourceSub].live /\ subs[tasks[u].sourceSub].task = None
      BY <1>4, <2>1, <2>2, DatabaseIsSound DEF Links, SubtaskLinks
    <2> QED
      BY <2>2, <2>3, DatabaseIsSound DEF GoodSubtasks
  <1>9. \A u \in TaskIds : Delete(unmirrored, {t}).tasks[u].live =>
           Delete(unmirrored, {t}).tasks[u] = unmirrored.tasks[u]
    BY <1>1, <1>3, <1>8, DeleteIsExact DEF InOrder
  <1>10. Settled(Delete(unmirrored, {t}))
    BY <1>7, <1>6, <1>9, UnchangedIsSettled DEF StillThere
  <1> QED
    BY <1>2, <1>7, <1>10, CommitSettled

LEMMA CloneRecurringTaskSettles ==
    ASSUME Sound, NEW t \in TaskIds, CloneRecurringTask(t)
    PROVE  Outcome
  <1> DEFINE clone == [NewTask EXCEPT !.board = tasks[t].board,
                                      !.placed = tasks[t].placed,
                                      !.project = tasks[t].project,
                                      !.assignee = tasks[t].assignee]
  <1>1. /\ tasks[t] \in GoodTasks /\ tasks[t] \in Task /\ tasks[t].live
        /\ RowShape(tasks[t])
    BY DatabaseIsSound DEF Sound, Links, GoodTasks, CloneRecurringTask
  <1>2. clone \in Task
    BY <1>1 DEF NewTask, NoTask, Task
  <1>3. /\ clone.live /\ ~clone.shared
        /\ clone.board = tasks[t].board
        /\ clone.project = tasks[t].project
        /\ clone.assignee = tasks[t].assignee
        /\ clone.source = None /\ clone.sourceSub = None /\ clone.parent = None
    BY DEF NewTask, NoTask
  <1>4. clone \in GoodTasks /\ IsOriginal(clone)
    BY <1>1, <1>2, <1>3 DEF GoodTasks, RowOK, IsOriginal, RowShape
  <1>5. PICK n \in NextId(Database) : Commit([Database EXCEPT !.tasks[n] = clone])
    BY DEF CloneRecurringTask
  <1> HIDE DEF clone
  <1> DEFINE result == [Database EXCEPT !.tasks[n] = clone]
  <1>6. n \in TaskIds /\ ~tasks[n].live
    BY DEF NextId, FreeIds
  <1>7. /\ result \in GoodDatabases
        /\ result.tasks = [tasks EXCEPT ![n] = clone]
        /\ result.subs = subs
    BY <1>4, <1>6, DatabaseGood, InsertGood
  <1>8. /\ Links([tasks EXCEPT ![n] = clone], subs)
        /\ \A u \in TaskIds : Follows([tasks EXCEPT ![n] = clone], u)
    BY <1>2, <1>4, <1>6, DatabaseIsSound, OriginalKeepsLinks DEF Sound
  <1> HIDE DEF result
  <1>9. InOrder(result)
    BY <1>7, <1>8 DEF InOrder
  <1>10. \A u \in TaskIds : StillThere(result, u) => result.tasks[u] = tasks[u]
    BY <1>6, <1>7, DatabaseIsSound DEF StillThere, Tables
  <1>11. Settled(result)
    BY <1>7, <1>9, <1>10, UnchangedIsSettled
  <1> QED
    BY <1>5, <1>7, <1>11, CommitSettled DEF result

\* A key that is given to a new subtask is in no row's source_subtask.
LEMMA CreateSubtaskSettles ==
    ASSUME Sound, NEW x \in SubIds, NEW t \in TaskIds,
           NEW assignee \in Users \cup {None}, CreateSubtask(x, t, assignee)
    PROVE  Outcome
  <1> DEFINE sub == [NoSubtask EXCEPT !.live = TRUE, !.task = t, !.assignee = assignee]
             created == [Database EXCEPT !.subs[x] = sub]
  <1>1. sub \in GoodSubtasks /\ sub.live
    BY NoneIsNoId DEF NoSubtask, GoodSubtasks, Subtask
  <1>2. ~subs[x].live
    BY DEF CreateSubtask
  <1>3. \E m \in SubtaskMirrorTargets(created, x) : Commit(SyncSubtaskMirror(created, x, m))
    BY DEF CreateSubtask
  <1> HIDE DEF sub
  <1>4. /\ created \in GoodDatabases
        /\ created.tasks = tasks
        /\ created.subs = [subs EXCEPT ![x] = sub]
    BY <1>1, DatabaseIsSound DEF GoodDatabases
  <1>5. created.subs[x] = sub /\ \A y \in SubIds \ {x} : created.subs[y] = subs[y]
    BY <1>4, DatabaseIsSound
  <1> HIDE DEF created
  <1>6. SubtaskLinks(tasks, created.subs)
    <2>1. SubtaskLinks(tasks, subs)
      BY DEF Sound, Links
    <2> QED
      BY <1>2, <1>5, <2>1 DEF SubtaskLinks
  <1>7. InOrder(created)
    <2>1. ParentLinks(tasks, created.subs)
      <3>1. ParentLinks(tasks, subs) /\ tasks[t].live /\ sub.task = t
        BY DEF Sound, Links, CreateSubtask, sub, NoSubtask
      <3> QED
        BY <1>5, <3>1 DEF ParentLinks
    <2> QED
      BY <1>4, <1>6, <2>1 DEF InOrder, Sound, Links
  <1>8. PICK m \in SubtaskMirrorTargets(created, x) :
          Commit(SyncSubtaskMirror(created, x, m))
    BY <1>3
  <1>9. created.subs[x].live
    BY <1>1, <1>5
  <1>10. /\ SyncSubtaskMirror(created, x, m) \in GoodDatabases
         /\ Settled(SyncSubtaskMirror(created, x, m))
    BY <1>4, <1>7, <1>9, SyncSubtaskMirrorGood, SyncSubtaskSettles
  <1> QED
    BY <1>8, <1>10, CommitSettled

LEMMA UpdateSubtaskSettles ==
    ASSUME Sound, NEW x \in SubIds, NEW supplied \in BOOLEAN,
           NEW assignee \in Users \cup {None}, NEW done \in BOOLEAN,
           UpdateSubtask(x, supplied, assignee, done)
    PROVE  Outcome
  <1> DEFINE sub == [subs[x] EXCEPT !.assignee = IF supplied THEN assignee ELSE @,
                                    !.done = done]
             saved == SaveSubtask(Database, x, sub)
  <1>1. subs[x] \in GoodSubtasks /\ subs[x].live
    BY DatabaseIsSound DEF UpdateSubtask
  <1>2. sub \in GoodSubtasks /\ sub.live /\ sub.task = subs[x].task
    BY <1>1 DEF GoodSubtasks, Subtask
  <1>3. PICK m \in SubtaskMirrorTargets(saved, x) : Commit(SyncSubtaskMirror(saved, x, m))
    BY DEF UpdateSubtask
  <1> HIDE DEF sub
  <1>4. /\ saved \in GoodDatabases
        /\ saved.tasks = tasks
        /\ saved.subs = [subs EXCEPT ![x] = sub]
    BY <1>2, DatabaseGood, SaveSubtaskGood
  <1>5. saved.subs[x] = sub
    BY <1>4, DatabaseIsSound
  <1> HIDE DEF saved
  <1>6. InOrder(saved)
    <2>1. SameSubtasks(subs, saved.subs)
      <3>1. \A y \in SubIds \ {x} : saved.subs[y] = subs[y]
        BY <1>4, DatabaseIsSound
      <3> QED
        BY <1>1, <1>2, <1>5, <3>1 DEF SameSubtasks, GoodSubtasks, Subtask
    <2>2. \A k \in TaskIds : Alike(tasks[k], saved.tasks[k])
      BY <1>4 DEF Alike
    <2> QED
      BY <1>4, <2>1, <2>2, DatabaseIsSound, AlikeKeepsLinks DEF InOrder, Sound
  <1>7. /\ SyncSubtaskMirror(saved, x, m) \in GoodDatabases
        /\ Settled(SyncSubtaskMirror(saved, x, m))
    BY <1>2, <1>4, <1>5, <1>6, SyncSubtaskMirrorGood, SyncSubtaskSettles
  <1> QED
    BY <1>3, <1>7, CommitSettled

\* The mirror of a deleted subtask keeps its parent, so it is not taken for
\* an assignment mirror here.
LEMMA DestroySubtaskSettles ==
    ASSUME Sound, NEW x \in SubIds, DestroySubtask(x)
    PROVE  Outcome
  <1> DEFINE T == [t \in TaskIds |->
                     [tasks[t] EXCEPT !.sourceSub = IF @ = x THEN None ELSE @]]
             result == [Database EXCEPT !.subs[x] = NoSubtask, !.tasks = T]
  <1>1. ASSUME NEW t \in TaskIds
        PROVE  /\ T[t] \in GoodTasks
               /\ \/ Alike(tasks[t], T[t]) /\ tasks[t].sourceSub # x
                  \/ Survivor(tasks[t], T[t]) /\ T[t].sourceSub = None
               /\ T[t].source = tasks[t].source
               /\ T[t].done = tasks[t].done
               /\ Content(T[t]) = Content(tasks[t])
               /\ tasks[t].sourceSub # x => T[t] = tasks[t]
    <2> DEFINE y == IF tasks[t].sourceSub = x THEN None ELSE tasks[t].sourceSub
    <2>1. tasks[t] \in GoodTasks /\ tasks[t] \in Task
      BY DatabaseIsSound DEF GoodTasks
    <2>2. tasks[t].source \in TaskIds \cup {None} /\ y \in SubIds \cup {None}
      BY <2>1 DEF Task
    <2>3. T[t] = Unlinked(tasks[t], tasks[t].source, y)
      BY <2>1 DEF Unlinked, Task
    <2>4. \/ Alike(tasks[t], T[t]) /\ tasks[t].sourceSub # x
          \/ Survivor(tasks[t], T[t]) /\ T[t].sourceSub = None
      BY <2>1 DEF Task, Alike, Survivor
    <2>5. /\ T[t].source = tasks[t].source
          /\ T[t].done = tasks[t].done
          /\ Content(T[t]) = Content(tasks[t])
          /\ tasks[t].sourceSub # x => T[t] = tasks[t]
      BY <2>1 DEF Task, Content
    <2> HIDE DEF T, y
    <2>6. Unlinked(tasks[t], tasks[t].source, y) \in GoodTasks
      BY <2>1, <2>2, UnlinkGood
    <2> QED
      BY <2>3, <2>4, <2>5, <2>6
  <1>2. T \in [TaskIds -> GoodTasks]
    <2>1. T = [t \in TaskIds |-> T[t]]
      OBVIOUS
    <2> HIDE DEF T
    <2> QED
      BY <1>1, <2>1
  <1>3. Commit(result)
    BY DEF DestroySubtask
  <1> HIDE DEF T
  <1>4. /\ result \in GoodDatabases
        /\ result.tasks = T
        /\ \A y \in SubIds \ {x} : result.subs[y] = subs[y]
    BY <1>2, DatabaseIsSound, NoTaskIsGood DEF GoodDatabases
  <1> HIDE DEF result
  <1>5. \A m, u \in TaskIds : MirrorOf(T, m, u) =>
           /\ MirrorOf(tasks, m, u)
           /\ T[m].board = tasks[m].board
           /\ T[m].project = tasks[m].project
    BY <1>1 DEF MirrorOf, Alike, Survivor
  <1>6. SubtaskLinks(T, result.subs)
    <2>1. SubtaskLinks(tasks, subs)
      BY DEF Sound, Links
    <2>2. \A y \in SubIds, m \in TaskIds : T[m].live /\ T[m].sourceSub = y =>
             /\ y # x
             /\ tasks[m].live /\ tasks[m].sourceSub = y
             /\ T[m].parent = tasks[m].parent
      BY <1>1, NoneIsNoId DEF Alike
    <2> QED
      BY <1>4, <2>1, <2>2 DEF SubtaskLinks
  <1>7. \A t \in TaskIds : RowShape(T[t])
    BY <1>1 DEF Sound, Links, RowShape, Alike, Survivor
  <1>8. MirrorLinks(T)
    BY <1>5 DEF Sound, Links, MirrorLinks
  <1>9. ASSUME NEW u \in TaskIds PROVE Follows(T, u)
    <2> SUFFICES ASSUME NEW m \in TaskIds, MirrorOf(T, m, u)
                 PROVE  /\ T[u].live /\ OnProjectBoard(T[u]) /\ ~IsMirror(T[u])
                        /\ T[m].board = T[u].assignee
      BY DEF Follows
    <2>1. /\ tasks[u].live /\ OnProjectBoard(tasks[u]) /\ ~IsMirror(tasks[u])
          /\ T[m].board = tasks[u].assignee
      BY <1>5 DEF Sound, Follows
    <2> QED
      BY <1>1, <2>1 DEF OnProjectBoard, IsMirror, Alike, Survivor
  <1>10. ParentLinks(T, result.subs)
    <2>1. /\ ParentLinks(tasks, subs)
          /\ \A y \in SubIds : subs[y].live => subs[y].task \in TaskIds
      BY DatabaseIsSound DEF Sound, Links, GoodSubtasks, Subtask
    <2>2. \A t \in TaskIds : (T[t].live <=> tasks[t].live) /\ T[t].parent = tasks[t].parent
      BY <1>1 DEF Alike, Survivor
    <2>3. ~result.subs[x].live
      BY DatabaseIsSound DEF NoSubtask, result, GoodDatabases
    <2> QED
      BY <1>4, <2>1, <2>2, <2>3 DEF ParentLinks
  <1>11. SourceLinks(T)
    BY <1>1, NoneIsNoId DEF Sound, Links, SourceLinks, Alike, Survivor
  <1>12. InOrder(result)
    BY <1>4, <1>6, <1>7, <1>8, <1>9, <1>11, <1>10 DEF InOrder, Links
  <1>13. Attended(result)
    <2>1. \A u \in TaskIds : tasks[u].live /\ tasks[u].sourceSub = x =>
             tasks[u].source # None
      <3>1. /\ SubtaskLinks(tasks, subs) /\ \A u \in TaskIds : RowShape(tasks[u])
            /\ subs[x].live => subs[x].task # None
        BY DatabaseIsSound DEF Sound, Links, GoodSubtasks
      <3> QED
        BY <3>1 DEF SubtaskLinks, RowShape
    <2>2. \A u \in TaskIds : SameButPlaced(tasks[u], tasks[u])
      BY DatabaseIsSound DEF SameButPlaced, Tables, Task
    <2> QED
      BY <1>1, <1>4, <2>1, <2>2 DEF Attended, StillThere, IsMirror
  <1>14. Settled(result)
    BY <1>1, <1>4, <1>12, <1>13 DEF Settled, Versioned, Completed, StillThere
  <1> QED
    BY <1>3, <1>4, <1>14, CommitSettled

-----------------------------------------------------------------------------
(* The theorems.                                                           *)

RowInv == Sound /\ claims \subseteq TaskIds \X Users

LEMMA RowInvInit == Init => RowInv
  <1> SUFFICES ASSUME Init PROVE RowInv
    OBVIOUS
  <1>1. TablesOK /\ claims \subseteq TaskIds \X Users
    BY NoTaskIsGood DEF Init, TablesOK
  <1>2. \A t \in TaskIds : tasks[t] = NoTask
    BY DEF Init
  <1>3. Links(tasks, subs)
    <2>1. \A x \in SubIds : ~subs[x].live
      BY DEF Init, NoSubtask
    <2> QED
      BY <1>2, <2>1, NoneIsNoId
      DEF Links, SubtaskLinks, MirrorLinks, SourceLinks, ParentLinks,
          MirrorOf, RowShape, NoTask
  <1>4. \A t \in TaskIds : Follows(tasks, t)
    BY <1>2 DEF Follows, MirrorOf, NoTask
  <1> QED
    BY <1>1, <1>3, <1>4 DEF RowInv, Sound

LEMMA StepSettles ==
    RowInv /\ [Next]_vars => Outcome /\ claims' \subseteq TaskIds \X Users
  <1> SUFFICES ASSUME RowInv, [Next]_vars
               PROVE  Outcome /\ claims' \subseteq TaskIds \X Users
    OBVIOUS
  <1>1. Sound /\ claims \subseteq TaskIds \X Users
    BY DEF RowInv
  <1> DEFINE Goal == Outcome /\ claims' \subseteq TaskIds \X Users
  <1>2. ASSUME NEW board \in Users \cup Projects, NEW u \in Users \cup {None},
               NEW share \in BOOLEAN, NEW fires \in BOOLEAN,
               CreateTask(board, u, share, fires)
        PROVE  Goal
    <2>1. Outcome
      BY <1>1, <1>2, CreateTaskSettles
    <2>2. UNCHANGED claims
      BY <1>2 DEF CreateTask
    <2> QED
      BY <1>1, <2>1, <2>2
  <1>3. ASSUME NEW t \in TaskIds, NEW share \in {"keep", "share", "withdraw"},
               NEW u \in Users \cup {None}, NEW supplied \in BOOLEAN,
               NEW newColumn \in BOOLEAN, NEW fires \in BOOLEAN,
               UpdateTask(t, share, supplied, u, newColumn, fires)
        PROVE  Goal
    <2>1. Outcome
      BY <1>1, <1>3, UpdateTaskSettles
    <2>2. UNCHANGED claims
      BY <1>3 DEF UpdateTask
    <2> QED
      BY <1>1, <2>1, <2>2
  <1>4. ASSUME NEW t \in TaskIds, NEW u \in Users,
               RequestClaim(t, u) \/ ClaimRejected(t, u)
        PROVE  Goal
    <2>1. UNCHANGED <<tasks, subs, stamped, renumbered>>
      BY <1>4 DEF RequestClaim, ClaimRejected
    <2>2. claims' \subseteq TaskIds \X Users
      BY <1>1, <1>4 DEF RequestClaim, ClaimRejected
    <2> QED
      BY <1>1, <2>1, <2>2, NothingWritten
  <1>5. ASSUME NEW t \in TaskIds, NEW u \in Users, ClaimPoolTask(t, u) PROVE Goal
    <2>1. claims' \subseteq TaskIds \X Users
      BY <1>1, <1>5 DEF ClaimPoolTask
    <2> QED
      BY <1>1, <1>5, <2>1, ClaimPoolTaskSettles
  <1>6. ASSUME NEW t \in TaskIds, MoveTask(t) PROVE Goal
    <2>1. UNCHANGED claims
      BY <1>6 DEF MoveTask
    <2> QED
      BY <1>1, <1>6, <2>1, MoveTaskSettles
  <1>7. ASSUME NEW t \in TaskIds, NEW completed \in BOOLEAN, NEW fires \in BOOLEAN,
               SetTaskCompleted(t, completed, fires)
        PROVE  Goal
    <2>1. Outcome
      BY <1>1, <1>7, SetTaskCompletedSettles
    <2>2. UNCHANGED claims
      BY <1>7 DEF SetTaskCompleted
    <2> QED
      BY <1>1, <2>1, <2>2
  <1>8. ASSUME NEW t \in TaskIds, NEW archived \in BOOLEAN, ArchiveTask(t, archived)
        PROVE  Goal
    <2>1. UNCHANGED claims
      BY <1>8 DEF ArchiveTask
    <2> QED
      BY <1>1, <1>8, <2>1, ArchiveTaskSettles
  <1>9. ASSUME NEW t \in TaskIds, DestroyTask(t) PROVE Goal
    <2>1. UNCHANGED claims
      BY <1>9 DEF DestroyTask
    <2> QED
      BY <1>1, <1>9, <2>1, DestroyTaskSettles
  <1>10. ASSUME NEW t \in TaskIds, CloneRecurringTask(t) PROVE Goal
    <2>1. UNCHANGED claims
      BY <1>10 DEF CloneRecurringTask
    <2> QED
      BY <1>1, <1>10, <2>1, CloneRecurringTaskSettles
  <1>11. ASSUME NEW x \in SubIds, NEW t \in TaskIds, NEW u \in Users \cup {None},
                CreateSubtask(x, t, u)
         PROVE  Goal
    <2>1. UNCHANGED claims
      BY <1>11 DEF CreateSubtask
    <2> QED
      BY <1>1, <1>11, <2>1, CreateSubtaskSettles
  <1>12. ASSUME NEW x \in SubIds, NEW u \in Users \cup {None},
                NEW supplied \in BOOLEAN, NEW done \in BOOLEAN,
                UpdateSubtask(x, supplied, u, done)
         PROVE  Goal
    <2>1. UNCHANGED claims
      BY <1>12 DEF UpdateSubtask
    <2> QED
      BY <1>1, <1>12, <2>1, UpdateSubtaskSettles
  <1>13. ASSUME NEW x \in SubIds, DestroySubtask(x) PROVE Goal
    <2>1. UNCHANGED claims
      BY <1>13 DEF DestroySubtask
    <2> QED
      BY <1>1, <1>13, <2>1, DestroySubtaskSettles
  <1>14. CASE UNCHANGED vars
    <2>1. UNCHANGED <<tasks, subs, stamped, renumbered>> /\ UNCHANGED claims
      BY <1>14 DEF vars
    <2> QED
      BY <1>1, <2>1, NothingWritten
  <1> QED
    BY <1>2, <1>3, <1>4, <1>5, <1>6, <1>7, <1>8, <1>9, <1>10, <1>11, <1>12,
       <1>13, <1>14
    DEF Next

LEMMA RowInvStep == RowInv /\ [Next]_vars => RowInv'
  BY StepSettles DEF Outcome, RowInv

\* Every handler, whatever it is called with and in whatever order, leaves
\* rows of their types in the tables.
THEOREM TypeCorrect == Spec => []TypeOK
  <1>1. RowInv => TypeOK
    BY DEF RowInv, Sound, TablesOK, GoodTasks, GoodSubtasks, RowOK, TypeOK
  <1> QED
    BY RowInvInit, RowInvStep, <1>1, PTL DEF Spec

\* What is in the pool can be claimed again, for any number of tasks: no
\* hand-over, synchronisation, rule or recurrence leaves a pool task assigned,
\* in a column, or away from its project's board.
THEOREM PoolStaysClaimable == Spec => []PoolTaskIsClaimable
  <1>1. RowInv => PoolTaskIsClaimable
    BY DEF RowInv, Sound, TablesOK, GoodTasks, RowOK, PoolTaskIsClaimable
  <1> QED
    BY RowInvInit, RowInvStep, <1>1, PTL DEF Spec

\* Nothing on a user's personal board is assigned to somebody else, whichever
\* handler has written it last.
THEOREM PersonalBoardsStayOwn == Spec => []PersonalBoardIsOwn
  <1>1. RowInv => PersonalBoardIsOwn
    BY DEF RowInv, Sound, TablesOK, GoodTasks, RowOK, PersonalBoardIsOwn
  <1> QED
    BY RowInvInit, RowInvStep, <1>1, PTL DEF Spec

\* A task has one mirror at the most, on the board of the person it is
\* assigned to, however often it was reassigned, released, claimed, completed
\* or handed on, and whatever happened to the rows around it.
THEOREM MirrorsFollow == Spec => []MirrorFollowsAssignment
  <1>1. RowInv => MirrorFollowsAssignment
    <2> SUFFICES ASSUME RowInv, NEW t \in TaskIds, NEW m \in Mirrors(t)
                 PROVE  /\ Mirrors(t) = {m}
                        /\ tasks[t].live /\ OnProjectBoard(tasks[t]) /\ ~IsMirror(tasks[t])
                        /\ tasks[m].board = tasks[t].assignee
      BY DEF MirrorFollowsAssignment
    <2>1. Mirrors(t) = {n \in TaskIds : MirrorOf(tasks, n, t)}
      BY DEF Mirrors, MirrorOf
    <2>2. MirrorLinks(tasks) /\ Follows(tasks, t)
      BY DEF RowInv, Sound, Links
    <2>3. \A n \in TaskIds : MirrorOf(tasks, n, t) => n = m
      BY <2>1, <2>2 DEF MirrorLinks
    <2>4. Mirrors(t) = {m}
      BY <2>1, <2>3
    <2> QED
      BY <2>1, <2>2, <2>4 DEF Follows
  <1> QED
    BY RowInvInit, RowInvStep, <1>1, PTL DEF Spec

\* A subtask has one mirror at the most, a copy for the task it belongs to:
\* no two requests leave it with two, and none outlives it as its mirror.
THEOREM SubtaskMirrorsAreUnique == Spec => []SubtaskMirrorIsUnique
  <1>1. RowInv => SubtaskMirrorIsUnique
    BY DEF RowInv, Sound, Links, SubtaskLinks, SubtaskMirrorIsUnique
  <1> QED
    BY RowInvInit, RowInvStep, <1>1, PTL DEF Spec

\* Whatever path a change of a task takes, through a handler, a mirror's
\* synchronisation, a rule, a deletion around it, the row has a new version,
\* on which every check for a stale copy relies: in every column but the
\* position (services.py:1022-1037).
THEOREM ChangesAreVersioned == Spec => TaskChangesAreVersioned
  <1>1. RowInv /\ [Next]_vars => [StampsChanges]_vars
    BY StepSettles DEF Outcome
  <1> QED
    BY RowInvInit, RowInvStep, <1>1, PTL
    DEF Spec, TaskChangesAreVersioned, StampsChanges

\* A project task that has changed is on its assignee's own board as it is
\* on the project's, and on nobody else's.
THEOREM AssigneesSeeTheirTasks == Spec => AssigneeSeesTask
  <1>1. RowInv /\ [Next]_vars => [ShowsAssignee]_vars
    BY StepSettles DEF Outcome
  <1> QED
    BY RowInvInit, RowInvStep, <1>1, PTL
    DEF Spec, AssigneeSeesTask, ShowsAssignee

\* Ticking a mirror off ticks off the task or the subtask it mirrors, and
\* nothing is ticked on the way that does not reach its source.
THEOREM CompletionsReachSources == Spec => CompletionReachesSource
  <1>1. RowInv /\ [Next]_vars => [ReachesSource]_vars
    BY StepSettles DEF Outcome
  <1> QED
    BY RowInvInit, RowInvStep, <1>1, PTL
    DEF Spec, CompletionReachesSource, ReachesSource
================================================================================
