# Carly Managed: a verification project

TLA+ models of the Carly Managed backend (Django REST framework, PostgreSQL,
Redis, Celery, Channels), the TLC configurations that check them on small
instances, and TLAPS proofs of the results that hold for every instance.

HTTP requests run concurrently in several threads and processes; PostgreSQL
runs their transactions READ COMMITTED, `ATOMIC_REQUESTS` is off, and a view
reads its object *before* the service it calls opens a transaction. The Celery
worker (two processes) and beat run recurrences, invitation expiry and Carly's
decay next to the requests. Channels consumers keep presence and collaborative
gestures in Redis. So most of what is hard in this code lies between a look-up
and the lock that follows it, between two rows that one transaction writes in
turn, and in the many paths by which one row can reach the same column.

## Inventory

| Component | State | Operations | What makes it correct | Status |
|---|---|---|---|---|
| Version checks (`workspaces/services.py:161-176`, `common/models.py:28-34`) | a row's version; clients' copies | lock, re-read, `assert_version`, `increment_version` | no change overwrites one its author has not seen | modelled, proved |
| Tasks, subtasks, mirrors (`workspaces/services.py:612-1381`, `views.py:654-954`, `tasks.py:15-60`) | task and subtask rows, links between them | create, update, claim, move, complete, archive, delete, recur, automation | the assignee, and nobody else, has an up-to-date mirror; pool tasks can be claimed | modelled, partly proved |
| Membership, invitations, join requests (`services.py:67-158, 1437-1717`, `views.py:173-444, 1204-1366`) | memberships, roles, project participants, invitations, requests | invite, accept, reject, revoke, expire, decide, remove, leave | an invitation is used once; roles only change by those allowed to; a workspace keeps its owner | modelled, partly proved |
| Board columns, positions (`views.py:131-152, 470-651`, `services.py:179-261, 999-1063`) | board version, columns, tasks' columns and positions | create, reorder, change, delete, delete with move, intake; move, archive a task | positions have no gaps; nobody reorders what he has not seen; no task is lost with its column | modelled, proved |
| Carly rewards and decay (`preferences/rewards.py`, `services.py`, `tasks.py`) | levels, credits, daily totals, reward log | award, action, decay, reset | a reward is paid once; daily caps hold; the level is that of the experience | modelled, proved |
| Accounts and tokens (`accounts/services.py`, `views.py`) | users, tokens, failed logins | register, verify, login, reset, profile | a token is used once; wrong passwords come no faster than the lock allows | modelled, proved |
| Inbox (`inbox/services.py`, `views.py`) | conversations, participants, messages, notifications | create, read, send, add and remove participants, leave | guests talk only within a project; no message counts as read that was not shown | conversations modelled, proved |
| Realtime (`realtime/consumers.py`, `presence.py`, `rate_limit.py`) | presence entries, cooperative gestures, token buckets (Redis) | connect, heartbeat, edit, gesture, disconnect | nobody is shown as present for ever; a gesture takes two; messages are limited | board modelled, proved |
| Comments, attachments, history; demo data; serializers, admin, settings | - | - | - | not modelled: rows written once, file I/O, formatting and configuration |

Interaction: a view asks a selector what the user may see, a permission
function what he may do, and calls one service in one transaction. Services
call each other (`create_task` calls the mirror synchronisation and the
automation rules, both call the Carly rewards) and register broadcasts to run
on commit. Everything shared is in PostgreSQL, except presence, gestures and
rate limits, which are in Redis.

## Modules

### ConflictChecked, VersionedRow: one row under concurrent requests

`VersionedRow` is a task's row with its transactions.
`SelectForUpdate`, `AssertVersion`, `VersionConflict` and `SaveChecked` are the
steps of `update_task` and its siblings; `SaveService` is `claim_pool_task` or
the completion that arrives from a mirror, which lock and increment but compare
nothing; `ReadMirror` and `SaveMirror` are the two halves of
`_sync_assignment_mirror`, which reads the mirror without a lock. `lock` is
PostgreSQL's row lock.

A row's columns are abstracted to two counters of writes, so that no two writes
leave the same value. `content` counts the writes with a new version. They alone
write the title, the dates, the assignee, the board and the state. `place` counts
the writes without one, to the position, the column, the workspace and the links
to other rows: `move_task` of *another* task renumbers this one under its lock and
saves the version it has read (`SaveArrangement`, `services.py:1022-1037`), and
single UPDATE statements put the row into the workspace its project moves to
(`services.py:428`) or clear a reference whose row is deleted (`UpdatePlace`). So
the version identifies the content and not the place: a client whose version is
current may see its task at an outdated position. Subtasks, which the code writes
without their version at `services.py:978` and `1099`, are other rows. The
administration site, which writes anything, is left out.

`ConflictChecked` is the promise of `docs/ARCHITEKTUR.md` (section
*Konflikterkennung*): a client changes only what it has seen. It has no
versions and no locks.

* `versioned_row` (2 clients, 1 service, 1 move of another task, at most 4 changes with
  a version and 2 without; 42274 states) checks
  that the version identifies the content, that the locked row is current, that
  no client overwrites content unnoticed, that every request ends, and that the module
  implements `ConflictChecked`. Four changes let each participant change the
  row while each other one is waiting, and one more; two writes without a version
  come before and after what a client has loaded.
* `mirror_overwrite` adds one mirror synchronisation, and TLC finds the lost
  update and the version given out twice.

Fairness: a request that has its lock runs on by itself (weak fairness of its
steps); PostgreSQL serves waiting transactions in the order of their arrival,
so a transaction that finds the lock free again and again gets it (strong
fairness of `SelectForUpdate`). Nothing is assumed of clients or of rollbacks.

### TaskMirrors: all rows, one transaction at a time

The tables `tasks` and `subs`; each action is a request handler with all it
calls, in the code's order: the write, the mirror synchronisation, the
automation rules. An operator on the tables (`Save`, `Delete`,
`SyncAssignmentMirror`, `SyncSubtaskMirror`, `RunAutomation`) is the function of
that name in `services.py`; where the code picks one row of several
(`.first()`), the handler chooses with `\E m \in MirrorTargets(...)`, and an
empty set of targets means that the database refuses the write and the
transaction rolls back. A handler that checks a version is one step: between
its look-up and its lock nothing it uses can change without a conflict, which
is what `VersionedRow` is about. (Its *other* rows can; that is what
`mirror_overwrite` shows and what the planned MirrorLocking is for.) The claim
of a pool task checks no version, so it is two steps, `RequestClaim` and
`ClaimPoolTask` or `ClaimRejected`.

`stamped` holds the rows whose version the last transaction incremented, `renumbered`
the other tasks whose position `move_task` wrote and whose version it left as it was;
both are history, not state, and the runs' VIEW leaves them out. Positions themselves
are in `BoardColumns`. Titles, dates, collaborators and history entries are left out;
that one rule at most fires per trigger is in `RunAutomation`, whether its conditions
match is the parameter `fires`. The assignee of a task need not have a mirror: the
recurrence of a task copies its assignee and creates no mirror until the copy is changed,
which is why `AssigneeSeesTask` is about what happens to a task after its creation. `Requests` bounds what clients do in a run, `MaxOriginals` the tasks
that are not mirrors, `MaxClaims` the claims under way; `TaskIds` bounds the
rows altogether.

| Run | Instance | Shows |
|---|---|---|
| `task_mirrors` | 2 users, 1 project, 3 rows, 1 original; create, update, claim, complete, move, delete | at most one mirror, on the assignee's board, in agreement with its source; a pool task is always claimable (68954 states) |
| `board_life` | 3 rows, 2 originals, 1 subtask; everything but update, claim and the deletion of tasks | one mirror per subtask; ticking a mirror off reaches the subtask or the source; every change of a task, but of its position, has a new version (38237 states) |

Updates and claims of tasks together with subtasks are in no run, because that
instance is too large; a pairing of updates, subtasks and 2 rows passes. So does
`board_life` with the deletion of tasks (322785 states, several minutes). The
proofs below cover all handlers together. `LeavingRemembersProject` (a task that
leaves its project's board for a person's knows the way back) holds on the
instance of `task_mirrors`, too.

Two users are enough for "the old and the new assignee"; three rows for a task,
its old and its new mirror (or a mirror of a subtask); two originals for a
recurrence next to its template. The users are interchangeable, so the runs use
symmetry.

### OneTimeGrant, Membership: who belongs where

`members`, `projects`, `invitations` and `joins` are the rows. Almost every
handler here reads and checks first and writes later, so it is two steps: the
first puts what the handler has read into `calls`, the second writes. In
between, other calls commit, unless a row lock excludes them: an invitation that
is being accepted, or expired by a transaction that is not committed
(`LockedInvitation`), and a project that is being saved or deleted
(`ProjectFree`). `Abandon` is a rollback or the death of the process between the
two.

Who may call is left out: the owner of a workspace may make every request,
except those an invited user or the owner of a project makes himself, so leaving
it out adds no behaviour. A project lists its assigned persons because the code
protects them.

`OneTimeGrant` is the promise of an invitation: open, then used once or void for
ever. The same module states the promise of a link in an e-mail (see Accounts).

* `membership_races` (2 users, 1 workspace, 1 project, 2 invitations, **two
  calls at a time**; 103573 states): the founder stays owner and active on the
  team, and the handlers implement `OneTimeGrant`.
* `project_guests` (2 users, 1 workspace, 2 projects, 2 invitations, one call at
  a time; 119306 states): participants are active members; a guest has a project; a team member does not
  become a guest. One call at a time
  still interleaves with the handlers that are one step, and a call may be
  abandoned. With two calls at a time they fail, see below.

Two projects make "the last project of a guest" different from "a project"; two
invitations the old one from the new one.

### CarlyEconomy: one person's Carly

`carly` is the row of `CarlyState`, `ledger` the rows of `CarlyRewardLog`,
`cared` the daily counts of care. Rewards and care lock the row and are one step
from there on (`AwardCarlyReward`, `BuyFood`, `PetOrPlay`, `SleepOrWake`, `Feed`);
the look-up of the ledger before the lock (`LookUpReward`) is a step before. The
decay of a page view (`ReadCarly`, `SaveDecay`) and of the nightly run
(`FetchCarly`, `RefreshCarly`, `ResetStreak`) is computed from a row read without
a lock. The rule tables and the formulas are those of the code. Time is in
quarters of an hour, the unit of the decay intervals' common divisor; the
cooldowns are shorter and do not show. `bought` and `eaten` are history.

* `carly_rewards` (caps 10/25 experience and 30/45 credits a day, a task and its
  subtask, berries and care, two calls at a time): nothing is lost or paid twice,
  no day pays above its caps, bonuses included, and each berry focuses one
  completion.
* `carly_care` (caps 30/60 and 100/200, two projects, feeding, playing and
  sleeping, one call at a time; 562880 states): needs stay within bounds, the
  level is the one the experience reaches, and each day of a streak was earned.

The caps are constants, scaled down so that two rewards reach them; in
`carly_care` two projects are worth a level. The clock stands at three instants:
the first day, the next, and the one after a day without work, at midnight, when
the nightly run starts.

### Accounts: password, login lock, links

`account` is one user's row, `tokens` the links. A login locks the row and is one
step; issuing a link is the UPDATE that voids older ones (its rows are `Locked`
until the commit) and the commit. An UPDATE that meets such rows waits
(`WaitForIssuer`, `WaitToRevoke`) and then goes on with the links it has seen, not
with the one created meanwhile. A reset does not: it holds the row of the account,
a share of which every new link needs. Confirming an address is two transactions, a
change of the password two statements without one; saving the profile writes back
the whole row that the request read. Time is in minutes.

* `account_links` (2 passwords, 2 links, limit 2, two calls at a time, 1.8
  million states): links implement `OneTimeGrant`; an address is confirmed only
  by a link for that; a reset voids every link sent before; between two
  successes, one wrong password more than the limit takes as long as the lock.
  A saved profile counts as such a success, because it restores the count it has
  read.

Three instants: now, after the lock, after a reset link has expired. With two links
whoever waited can only go on after the other was rolled back; to go on after its
commit takes a third link. That instance (3 links, two instants, 2 million states)
passes, too, but takes too long to be a run; the proofs hold for any number.

### BoardConsumer: the connections to one board

`conn` has each connection with its token bucket, `presence` and `coop` are the
values in the cache. A connection handles one message after the other; a handler
gets the cached value in one step and sets it in the next, so updates overwrite
each other. `Crash` takes a connection away without a word to the cache. Time
passes between handlers only: a handler takes milliseconds, what it waits for 30
and 90 seconds.

* `board_presence` (3 connections, 2 users, two calls at a time, presence for 1
  unit, gestures for 2, capacity 1, three messages; 2 million states): in spite of
  the lost updates a snapshot shows only users heard of within the time to live; a
  gesture is completed by two people within its time; in any interval a connection
  gets no more through than capacity and refill.

The exception to the second: the handler of a gesture sets the value with both
people in it and deletes it in a second call. If it dies in between, the value
stays, and each further gesture renews its time, so the partner's gesture can be
of any age when it is completed the next time. `cut` records such deaths, and
`GesturesAreMutual` excuses exactly the gestures made before one.

Three connections: one that crashed, one whose update writes it back, and one
that joins and sees the snapshot; or a partner, one that dies half done, and one
that finds what it left. Gestures last longer than one unit so that the second
gesture can renew the time of the first. What is edited makes no difference to
these properties and `Tasks` is empty.

### BoardColumns: the columns of one board

`version` is the board's, `columns` and `tasks` are the rows. A request is two
steps: what its client and its view know (`RequestCreate` ... `RequestDestroy`,
`ReadColumns`) and its transaction (`CreateColumn` ... `Destroy`,
`CreateIntake`). A transaction locks what it compares and holds it to the commit,
so it is one step, with three exceptions.

The intake: the service that gives somebody a
task reads his columns without a lock, and writes every one of them at the place
after the one it has read, last column first; `ShiftIsUnique` is what the
constraint on positions accepts of that.

Deleting a column with its tasks moved: `LockTasks` locks both columns and the active
tasks of the one (`views.py:575-596`) and reads the greatest position of the other's
tasks, which it does not lock (597-599); `DeleteWithMove` writes. `locked` is what it
has locked, and the tasks as it found them.

Moving a task: `LockSiblings` locks and lists the active tasks of both columns
(`services.py:1014-1017, 1029-1034`), `MoveTask` numbers them as listed; `moves` holds the
lists. A task changes column only if nobody holds the new one (its key is checked at
the commit with a share of the row), while a move within a column asks for no column at
all, so it may commit between the two steps of a deletion. PostgreSQL sorts the rows
before it waits for their locks, so after a wait they may be listed in an older order; no
property depends on it.

Where two transactions lock board and
columns in opposite orders (a reorder takes the board first, a deletion the
column) PostgreSQL aborts one of them, which is `Abort`. Archived tasks are not
locked: one that is restored while its column is being deleted ends up without a
column.

* `board_columns` (4 column keys, 2 columns at the start, 3 tasks, two requests and one
  move at a time, on the first version of the board and of the columns; one of the tasks is
  moved and archived; 247861 states): positions are 0, 1, 2 ... and the intake is
  first; a reorder is of exactly the
  columns, in the order, that its client has seen, although the intake changes
  both without a new version of the board; a deletion moves every task that was active
  when it locked them, and puts them behind those of the target, if the target was tidy
  (active tasks only, no two at one position) when it was read. Tasks do tie: two that
  are created at the same time get the same position. `MovedTasksComeLast` in the table
  below has what happens then.

Three tasks are one that moves and two that tie, or two that follow their column and
one in the target. With `MaxChanges` 2 the run passes, too, but has eight times as many
states.

Clients act on the first version only (`MaxVersion`, `MaxChanges`): a request that
has read it may still commit after the other one, which is all two requests can
do to each other.

### Inbox: a conversation

`links` is the participation of each user, `messages` the messages in the order of
their creation. Time is the number of messages inserted so far, which is all that
`last_read_at` is compared with. A request looks the conversation up, with its
messages, before it writes; sending a message is inserting it, committing it and
loading the conversation again. Only a change of participants locks the row.
`accounted` is history: which messages a user was shown, or is excused for.

* `inbox` (3 users, one of them a guest who shares a project with one of the
  others, two requests at a time, 3 messages, clients act on the first two
  versions; 3.9 million states): a guest shares a project with everybody he talks
  to, however participants were added and removed; a message that nobody has shown
  to a participant counts as unread, unless it was being sent while he had a request
  under way, or the answer to a message of his own did not reach him. Three
  messages are the opening and two that overtake each other; two versions, for
  somebody to leave and come back.

Memberships and projects are constants of `Inbox`. In the code they change and
conversations stay: who has left a project keeps writing to its guests
until he leaves the conversation or the team, and a deactivated guest who is woken up finds his
conversations again. Notifications are written once, marked as read and deleted.

## What the code does not keep

Properties that are stated in the modules and fail. Each line names the instance
that shows it, as a change to a configuration.

| Property | Instance | Behaviour |
|---|---|---|
| `AssignmentMirrorsAreAssigned` (TaskMirrors) | `board_life` | deleting a subtask leaves its mirror with a source task and no source subtask; it passes for an assignment mirror of a task nobody is assigned to |
| `ProjectTaskIsVisible` | `task_mirrors` | a task withdrawn from the pool is in no column |
| `RowsAreClean` | `board_life` | a mirror that recurs is copied with flags that do not fit a plain task |
| `PositionsAreVersioned` | `board_life` | moving a task renumbers the others in its two columns and leaves their versions (`services.py:1022-1037`) |
| `SubtaskChangesAreVersioned` | `board_life` | completing a subtask's mirror changes the subtask and not its version |
| `ClaimedTaskIsVisible` | 2 rows, `MaxClaims` 2, requests create, claim, archive | the task is archived between the claim's look-up and its lock |
| `InvitationsAreUsedOnce` (Membership) | `membership_races` with revoke | the revocation read the invitation as open, it is accepted, and then recorded as revoked |
| `OneOpenInvitation` | `project_guests` with `MaxCalls` 2 (holds with 1) | two requests see no open invitation and insert one each |
| `GuestsHaveAProject` | `project_guests` with `MaxCalls` 2 | two transactions drop a guest from different projects; each still sees the other's participation |
| `TeamMembersStayOnTeam` | `MaxCalls` 2, 3 invitations | an acceptance writes the guest flag as it was before another acceptance |
| `ParticipantsAreMembers` | requests join, remove, createProject, `MaxCalls` 2 | a project is created with a participant who is being removed; the removal does not see the project |
| `DecisionIsFinal` | requests join, `MaxCalls` 2 | a rejection and an approval are both decided on a pending request; the second overwrites the first |
| `ParticipantsAreMembers` | requests inviteProject, accept, createProject, updateProject, transferProject (or moveProject and two workspaces) | a guest who now owns the project is deactivated as unused; participants of a moved project are not on the new team |
| `AssigneesHaveAccess` | requests createProject, updateProject, join, assign; `Visibilities` {TRUE, FALSE} | restricting the visibility alone leaves assigned persons outside |
| `AcceptanceGivesLittle` | requests inviteProject, accept, join, remove, createProject | a removed member accepts an invitation to one project and is on the whole team again |
| `DecayTakesItsTime` (CarlyEconomy) | `carly_care` | a page view reads, Carly is fed, the page view saves: the food is gone and she is as hungry as before |
| `StreakIsAlive` | `carly_care` with `MaxCalls` 2 | the nightly run breaks a streak that was continued after it read the row |
| `ProfileIsAllThatIsSaved` (Accounts) | `account_links` | changing the display name saves the whole row as it was when the request was authenticated (`accounts/views.py:161`): a new password, a failed login or a confirmation committed in between is undone |
| `LatestLinkOnly` | `account_links` | two requests each void the links they see (`accounts/services.py:148`), the one that waits for the other, too; both new ones stay open |
| `LeftIsGone` (BoardConsumer) | `board_presence` | one tab of a user closes while another joins; both read one connection, so the user is reported offline with a tab open |
| `OneAnswer` | `board_presence`, 3 users | two people answer the same gesture before either deletes it |
| `GesturesAreRecent` | `board_presence` | the handler of the second gesture dies before it deletes the value (`consumers.py:155`); the third completes with the first, whose time is up |
| `PartnersAreThere` | `board_presence` | the docstring (`consumers.py:141`) says *erst mit zwei anwesenden Personen*; who made the first gesture may have left the board since |
| `MovedTasksComeLast` (BoardColumns) | `board_columns` | two tasks of the target tie; between the reading of the greatest position (`views.py:597`) and the commit a move within the target numbers them anew, and the second ties with the first moved task |
| `DestroyedColumnIsEmpty` | `board_columns` | a column is found empty (`views.py:634`), a task is moved to it, and the transaction deletes it: the task is in no column; so is an archived task when it is restored |
| `OrderChangesAreVersioned` | `board_columns` | an intake is created from columns read before a reorder: the reorder is undone, with no new version of the board |
| `VersionsIncrease` (Inbox) | `inbox` | a message increments the version that its view has read, so a version is given out twice |
| `SendersParticipate` | `inbox` | a message is committed after its sender was removed |
| `CreatorStays` | `inbox` | the creator leaves; nobody can change the participants any more |

Outside the models: `update_task` (`services.py:789`), `claim_pool_task` (`931`) and
`run_due_recurrences` (`tasks.py:28`) combine `select_for_update()` with `select_related`
of nullable references and give no `of=`, unlike `services.py:368`. PostgreSQL does not
lock the nullable side of an outer join and refuses the statement; the tests run on
SQLite, which ignores the clause. The models have these handlers lock their row, as they
are written to.

`mirror_overwrite` is the one that is a run, because the proofs about
`VersionedRow` rest on the absence of what it shows.

## Proofs

`VersionedRow_proofs` proves, for any number of clients, services and changes:

* `TypeCorrect`, `LockProtectsRow`: with every kind of request. The inductive
  invariant `LockInv` adds to them `ReadBeforeUse` (a request that has arrived
  holds a version, a synchronisation holds the row it will write).
* `VersionsIdentify`, `OverwritesAreNoticed`, `PromiseKept`: under
  `Mirrorings = {}`, the assumption that `mirror_overwrite` shows to be needed.
  The invariant `IInv` says that the version a client
  holds is not above the row's, and if equal the client has the row's content. It
  is kept because a save works on the committed row (`LockedRowIsCurrent`), so that a
  save with a new version gives one above every one seen, and one without (a
  renumbering) leaves the content and writes the version that the row has.
  `SaveReplacesSeen` draws the
  conclusion once, for the action property and for the refinement.

`TaskMirrors_proofs` proves, for any users, projects, tasks and subtasks and all
handlers together, every property of the two runs. `TypeCorrect`,
`PoolStaysClaimable` and `PersonalBoardsStayOwn` are about single rows: every row is
good (`RowOK`), each operation on the tables keeps a database good, and a lemma per
handler composes them. `PoolShrinks` (synchronising puts no row into the pool) is
what allows the rules to run after it. The conjuncts need each other: a mirror is
not in the pool *because* it is on a personal board, so writing its assignee is
allowed.

`MirrorsFollow` and `SubtaskMirrorsAreUnique` relate rows. They are not inductive:
the synchronisation finds the mirrors of a task by their board and by their having
no source subtask, while rows that once were mirrors stay in the table with the
source they had. So `Links` says of every row how it is linked (a row with a parent
mirrors that parent, which is there; the source of a row without one is there and
has no source; a mirror in its role is on a personal board, belongs to a project
and is the only one), and every write of a handler either keeps a row's place or takes
it out of its role by recording the pool it came from (`Rewrites`). `Follows` may
fail for one task, the one that was written, until `SyncOrders` puts it right. The
proof also settles what `on_delete=SET_NULL` does to `source_task` and
`source_subtask` when tasks are deleted: nothing. `DeleteIsExact` shows that no
surviving row loses a reference, because a row with a parent goes with it and the
mirrors without one are deleted first; only deleting a subtask leaves a row
unlinked.

The action properties (`ChangesAreVersioned`, which leaves out positions, `AssigneesSeeTheirTasks`,
`CompletionsReachSources`) compare the tables a transaction found with those it
commits. `Pending` says what a handler may leave to the synchronisation: changes are
stamped, one task at most that may have a mirror has changed, and only the row the
request was about and the task behind it are ticked. `SyncSettles` and
`SyncSubtaskSettles` turn that into `Settled`, a rule keeps it
(`RunAutomationSettles`), and `CommitSettled` reads the three properties off. The
exception for a completion whose synchronisation deletes its own row is needed
there: without the failing refresh, a tick could be lost with the row.

`Membership_proofs` proves, for any users, workspaces, projects and invitations,
any kinds of requests and any number of calls at a time, `TypeCorrect` and
`OwnersStay`, and, if nobody revokes, `UsedOnce`: the handlers implement
`OneTimeGrant`. What has to be shown in each case is that a call's second half
still does what its first half decided. So the invariant `IInv` says of every call
that what it read is still true of the rows it holds (an accepted invitation is
still pending, an outdated one still open, a reserved row still unused), that no
two calls hold the same row, and that no call is directed against an owner.
Without the second conjunct the first is not kept: the other call would commit
in between. Revocation holds nothing, which is why it is excluded; the table above
has what happens with it.

`Inbox_proofs` proves, for any users, guests, projects, messages and any number of
requests at a time, `TypeCorrect`, `GuestsStayTogether` and `NoMessageIsSkipped`.
`NothingIsSkipped` is not inductive: between the commit of his message and the
answer to it, a sender has marked as read what he has not been shown.
`UnreadOrAnswering` names that exception, and is kept because a retrieval has
read all that it will mark, or is excused for it (`ReaderHasAll`), which in turn
needs that whoever has a request under way is excused for what is being sent
(`SentIsExcused`). `SendersHoldTheirOwn` keeps a commit and a rollback from
touching the message of another request. That participants share a project
survives removals because fewer people may talk wherever more may
(`FewerMayTalk`).

`Accounts_proofs` proves, for any passwords, links, settings and number of handlers
at a time, `TypeCorrect`, `FailuresLimited`, `VerificationEarned`,
`LinksVoidedByReset` and `UsedOnce`, the refinement of `OneTimeGrant`. The
invariant has two halves. `TokenInv` says what an uncommitted issue holds: its key
is unused, the links it will close are still open, and no other has either
(`IssuersHold`); with it a reset cannot miss a link (`ClosingKeeps`).
`WrittenIsEarned` extends `VerificationIsEarned` to what has been read and will be
written: a confirmation under way and a profile that was read as confirmed.
`FailureInv` relates the recorded failures to the counter: the failures that are
counted came after the lock, and the one before them set it (`CountedAfterLock`),
so that the first and the last of limit + 1 are a lock apart.

`BoardConsumer_proofs` proves, for any users, connections, times, capacity and
refill, `TypeCorrect`, `SnapshotsRecent`, `GesturesMutual` and `MessagesLimited`.
For the bucket the invariant (`ConnectionOK`) says, of every message so far, that
those since it and the tokens left are within the capacity and the refill since
then. For the presence it is enough that no entry, in the cache or in a handler's
hands, claims to have seen its user after he was last heard of (`SeenWhenHeard`):
a lost update can lose that somebody was there, never invent it. For gestures,
`CoopOK` says that two people's gestures stay in the cache only while somebody is
about to delete them or after he has died. The proof attempt is what showed that
the exception is needed: with gestures of one unit, which the run had before, the
second gesture cannot renew the time of the first.

`BoardColumns_proofs` proves, for any column keys, tasks, requests and bounds,
`TypeCorrect`, `ColumnsInOrder`, `ReorderAsSeen` and `TasksFollow`. The invariant
adds to the order of the positions that a reorder names each column it has seen
once, and that, while the board has the version it has read, either nothing has
changed or there is a column it does not name (`ReorderSeen`). So the version
notices whatever increments it, and the comparison of the lists notices an intake.
Why an intake written from outdated positions leaves no gap is
`EveryColumnIsShifted`: a column that was not read would have to stand behind all
places that are written, and those that were read are one too few to fill the
places before it. That is `BoardInv`, about columns and requests; `TasksFollow` rests on
`TasksInv`, about tasks and locks: what a deletion has locked is still in its column and
active, nobody has come to the two columns since, and no two transactions hold one task
(`Apart`). So a move that meets a deletion renumbers tasks of the target only, and if these
were tidy, numbers from 0 on do not exceed the positions that were read
(`LocksInv`). Sorting rests on `Ranks` (in a finite ordered set, the numbers of
elements before each element are 0, 1, 2 ...), proved by counting because induction
over the set is out of reach.

`CarlyEconomy_proofs` proves, for any caps, jobs, instants and number of handlers at a
time, every invariant of the two runs: `TypeCorrect`, `BooksBalance`, `CapsHold`,
`PaidOnce`, `BerriesAreSpent`, `StreaksAreEarned` and `LevelsAreExact`. The catalogues of
food, care and rewards are the constants of the code. The invariant (`Inv`) is about
the row and the ledger together: `Booked` says that experience and credits are what
the ledger and the purchases add up to, that the focused completions *and the charge
that is left* are not more than the berries eaten, and that a streak is earned;
`Valid` that the level stored is that of the experience; `CallIsValid` that what a
handler has read and will write is a row with its decays dated in the past.
`EntryIsBooked` shows it once for a reward, whatever row it is computed from, and
`RowIsSaved` for everything that writes needs, sleep or time stamps only, so that a
stale decay cannot disturb the books. Two things are proved from their definitions
without induction over data, by a smallest counterexample (`LeastNumber`,
`SmallestSet`): that a sum does not depend on the order in which it is taken
(`SumsStepwise`), and that the loop of `level_state` ends, exactly where the sums of
the thresholds say (`ClimbAt`, `ClimbArrives`).

The type invariants (`TypeOK`) of `Accounts`, `BoardConsumer` and `BoardColumns`
hold on the instances of their runs; they are no part of the runs.

Only model-checked: `EveryRequestEnds`, liveness under fairness, which like ENABLED is
out of the prover's reach. So are
`ParticipantsAreMembers`, `GuestsHaveAProject` and `TeamMembersStayOnTeam`, the properties of
`project_guests`: they hold for one request at a time and the code admits several, so a
theorem would be about a system that is not this one. Every other property that a passing
run checks is stated by a theorem, with the hypotheses given here.

## Plan

1. Done: `VersionedRow`, `TaskMirrors`, `Membership`, `Inbox`, `Accounts`,
   `BoardConsumer`, `BoardColumns`, `CarlyEconomy` with proofs.
2. Membership under overlapping requests: what of `ParticipantsAreMembers` and
   `GuestsHaveAProject` is left, and for which requests it can be proved.
3. MirrorLocking: the lock order of a task and its mirror, with PostgreSQL's
   deadlock detection. Presence in the whole application
   (`realtime/presence.py:14-74`), where a lost update can leave a user with an open
   tab offline, because a heartbeat does not bring a missing entry back.
