------------------------------- MODULE Membership ------------------------------
(***************************************************************************)
(* Who belongs to a team and to its projects (apps/workspaces): the        *)
(* memberships of workspaces, the participants of projects, invitations    *)
(* to either, and requests to join.                                        *)
(*                                                                         *)
(* A handler reads and checks in one step and writes in a later one: what  *)
(* it read is in its call, a record in the set calls.  Between the two     *)
(* anything may be committed that no row lock of the call excludes, and    *)
(* the process may die.  Rows that a call has locked are those of          *)
(* LockedInvitation and ProjectFree.                                       *)
(*                                                                         *)
(* The owner of a workspace may make every request except those an invited *)
(* user or the owner of a project makes himself, so who calls is left out. *)
(***************************************************************************)
EXTENDS FiniteSets, Naturals

CONSTANTS
    Users,
    Workspaces,
    Projects,
    InvitationIds,
    WorkspaceOwner,  \* WorkspaceOwner[w]: who created w
    None,            \* SQL NULL
    Visibilities,    \* bound: may a project be RESTRICTED, not be it, or both
    Requests,        \* bound: the kinds of requests that are made
    MaxCalls         \* bound: calls at a time between check and write

RequestKinds ==
    {"inviteTeam", "inviteProject", "accept", "reject", "revoke", "lapse",
     "join", "remove", "role", "createProject", "updateProject",
     "transferProject", "moveProject", "deleteProject", "assign"}

ASSUME OwnersAreUsers == WorkspaceOwner \in [Workspaces -> Users]
ASSUME NoneIsNobody == None \notin Users \cup Workspaces \cup Projects
ASSUME VisibilitiesAreFlags == Visibilities \subseteq BOOLEAN
ASSUME RequestsAreKnown == Requests \subseteq RequestKinds
ASSUME MaxCallsIsNat == MaxCalls \in Nat

VARIABLES
    members,      \* members[w][u]: the membership of u in w
    projects,     \* projects[p]: the row of project p with its participants
    invitations,  \* invitations[i]: the row of invitation i
    joins,        \* joins[w][u]: the status of u's request to join w
    calls         \* handlers between their checks and their writes

vars == <<members, projects, invitations, joins, calls>>

Membership ==
    [role : {"none", "owner", "manager", "member"},   \* "none": no row
     active : BOOLEAN,
     guest : BOOLEAN]                                 \* is_project_guest

Project ==
    [workspace : Workspaces \cup {None},              \* None: no row
     owner : Users \cup {None},
     participants : SUBSET Users,
     restricted : BOOLEAN,
     assigned : SUBSET Users]                         \* assignees of open tasks

Invitation ==
    [status : {"unused", "pending", "accepted", "rejected", "revoked",
               "expired", "deleted"},
     user : Users \cup {None},              \* whose e-mail address; None: no row
     workspace : Workspaces \cup {None},
     project : Projects \cup {None},                  \* None: to the team
     overdue : BOOLEAN]                               \* expires_at has passed

NoMembership == [role |-> "none", active |-> FALSE, guest |-> FALSE]

NoProject ==
    [workspace |-> None, owner |-> None, participants |-> {},
     restricted |-> FALSE, assigned |-> {}]

NoInvitation ==
    [status |-> "unused", user |-> None, workspace |-> None, project |-> None,
     overdue |-> FALSE]

OwnerMembership == [role |-> "owner", active |-> TRUE, guest |-> FALSE]

NewMembership(guest) == [role |-> "member", active |-> TRUE, guest |-> guest]

IsActive(w, u) == members[w][u].active

OnTeam(w, u) == IsActive(w, u) /\ ~members[w][u].guest

ProjectsOf(w) == {p \in Projects : projects[p].workspace = w}

\* u owns p or takes part in it.
HasPart(p, u) == u \in projects[p].participants \cup {projects[p].owner}

-----------------------------------------------------------------------------
(* Calls.                                                                  *)

MayRequest(kind) == kind \in Requests /\ Cardinality(calls) < MaxCalls

Begin(kind, call) ==
    /\ MayRequest(kind)
    /\ call \notin calls
    /\ calls' = calls \cup {call}

End(call) == calls' = calls \ {call}

Of(kind) == {c \in calls : c.kind = kind}

\* select_for_update of the invitation, or an UPDATE that is not committed.
LockedInvitation(i) ==
    \/ \E c \in Of("accept") : c.invitation = i
    \/ \E c \in Of("invite") : i \in c.outdated

\* No call holds the lock of project p; inserting a participant needs a share
\* of it for the foreign key.
ProjectFree(p) ==
    \A c \in Of("saveProject") \cup Of("deleteProject") : c.project # p

\* A process dies or its transaction is rolled back.
Abandon ==
    \E c \in calls : End(c) /\ UNCHANGED <<members, projects, invitations, joins>>

-----------------------------------------------------------------------------
(* Invitations.                                                            *)

OpenInvitations(u, w, p) ==
    {i \in InvitationIds :
        /\ invitations[i].status = "pending"
        /\ invitations[i].user = u
        /\ invitations[i].workspace = w
        /\ invitations[i].project = p}

\* InvitationViewSet.create: an invitation to a project names its workspace.
NamesWorkspace(p, w) == p # None => projects[p].workspace = w

\* create_invitation: the checks.
Invite(i, u, w, p) ==
    LET open == OpenInvitations(u, w, p)
        outdated == {j \in open : invitations[j].overdue}
    IN  /\ invitations[i].status = "unused"
        /\ \A c \in Of("invite") : c.invitation # i
        /\ p = None => ~OnTeam(w, u)
        /\ NamesWorkspace(p, w)
        /\ p # None => ~HasPart(p, u)
        /\ open = outdated
        /\ \A j \in outdated : ~LockedInvitation(j)
        /\ Begin(IF p = None THEN "inviteTeam" ELSE "inviteProject",
                 [kind |-> "invite", invitation |-> i, user |-> u,
                  workspace |-> w, project |-> p, outdated |-> outdated])
        /\ UNCHANGED <<members, projects, invitations, joins>>

\* create_invitation: the outdated ones expire, the new one is inserted.
InvitationCreated(c) ==
    /\ c.project # None => /\ projects[c.project].workspace # None
                           /\ ProjectFree(c.project)
    /\ invitations' = [i \in InvitationIds |->
        IF i = c.invitation
        THEN [status |-> "pending", user |-> c.user, workspace |-> c.workspace,
              project |-> c.project, overdue |-> FALSE]
        ELSE IF i \in c.outdated THEN [invitations[i] EXCEPT !.status = "expired"]
        ELSE invitations[i]]
    /\ End(c)
    /\ UNCHANGED <<members, projects, joins>>

\* Mutant of Usable: the status is not looked at.
NotOverdue(i) == invitations[i].status # "unused" /\ ~invitations[i].overdue

\* _validate_invitation_for_user; the e-mail address is the invited user's.
Usable(i) == invitations[i].status = "pending" /\ ~invitations[i].overdue

\* accept_invitation, accept_invitation_by_id: the row is locked and validated,
\* then the membership is read without a lock.
AcceptInvitation(i) ==
    /\ ~LockedInvitation(i)
    /\ Usable(i)
    /\ Begin("accept",
             [kind |-> "accept", invitation |-> i,
              seen |-> members[invitations[i].workspace][invitations[i].user]])
    /\ UNCHANGED <<members, projects, invitations, joins>>

\* Mutant of Admitted: the role of a project is written into the membership.
AdmittedAsCollaborator(current, seen, toProject) ==
    [role |-> "collaborator", active |-> TRUE, guest |-> toProject]

\* Mutant of Admitted: whoever accepts an invitation to a project is a guest.
AdmittedAsInvited(current, seen, toProject) ==
    IF seen.role = "none" THEN NewMembership(toProject)
    ELSE [current EXCEPT !.active = TRUE, !.guest = toProject]

\* The membership that accepting makes of the one that was read: its row is
\* written, except the role, as it was read.
Admitted(current, seen, toProject) ==
    IF seen.role = "none" THEN NewMembership(toProject)
    ELSE [current EXCEPT !.active = TRUE, !.guest = seen.guest /\ toProject]

\* _complete_invitation_acceptance.  A membership that has been inserted since
\* makes its own INSERT fail.
InvitationAccepted(c) ==
    LET inv == invitations[c.invitation]
    IN  /\ c.seen.role = "none" => members[inv.workspace][inv.user].role = "none"
        /\ inv.project # None => ProjectFree(inv.project)
        /\ members' = [members EXCEPT ![inv.workspace][inv.user] =
                Admitted(@, c.seen, inv.project # None)]
        /\ projects' = [p \in Projects |->
                IF p = inv.project
                THEN [projects[p] EXCEPT !.participants = @ \cup {inv.user}]
                ELSE projects[p]]
        /\ invitations' = [invitations EXCEPT ![c.invitation].status = "accepted"]
        /\ End(c)
        /\ UNCHANGED joins

\* reject_invitation_by_id: one row, one transaction.
RejectInvitation(i) ==
    /\ MayRequest("reject")
    /\ ~LockedInvitation(i)
    /\ Usable(i)
    /\ invitations' = [invitations EXCEPT ![i].status = "rejected"]
    /\ UNCHANGED <<members, projects, joins, calls>>

\* InvitationViewSet.destroy: the status is checked on a row that is not locked.
RevokeInvitation(i) ==
    /\ invitations[i].status = "pending"
    /\ Begin("revoke", [kind |-> "revoke", invitation |-> i])
    /\ UNCHANGED <<members, projects, invitations, joins>>

InvitationRevoked(c) ==
    /\ ~LockedInvitation(c.invitation)
    /\ invitations[c.invitation].user # None      \* deleted with its project
    /\ invitations' = [invitations EXCEPT ![c.invitation].status = "revoked"]
    /\ End(c)
    /\ UNCHANGED <<members, projects, joins>>

\* Time passes.
Lapse(i) ==
    /\ "lapse" \in Requests
    /\ invitations[i].status = "pending"
    /\ ~invitations[i].overdue
    /\ invitations' = [invitations EXCEPT ![i].overdue = TRUE]
    /\ UNCHANGED <<members, projects, joins, calls>>

\* The Celery task expire_invitations, one UPDATE.
ExpireInvitations ==
    LET overdue == {i \in InvitationIds : invitations[i].status = "pending"
                                          /\ invitations[i].overdue}
    IN  /\ overdue # {}
        /\ \A i \in overdue : ~LockedInvitation(i)
        /\ invitations' = [i \in InvitationIds |->
                IF i \in overdue THEN [invitations[i] EXCEPT !.status = "expired"]
                ELSE invitations[i]]
        /\ UNCHANGED <<members, projects, joins, calls>>

-----------------------------------------------------------------------------
(* Requests to join, and members.                                          *)

\* Requests come from outside the API; a person makes one per workspace here.
RequestToJoin(w, u) ==
    /\ "join" \in Requests
    /\ ~IsActive(w, u)
    /\ joins[w][u] = "none"
    /\ joins' = [joins EXCEPT ![w][u] = "pending"]
    /\ UNCHANGED <<members, projects, invitations, calls>>

\* JoinRequestViewSet._decide: three commits, no lock and no transaction.
Decide(w, u, verdict) ==
    /\ joins[w][u] = "pending"
    /\ Begin("join", [kind |-> "decide", workspace |-> w, user |-> u,
                      verdict |-> verdict])
    /\ UNCHANGED <<members, projects, invitations, joins>>

Decided(c) ==
    /\ joins' = [joins EXCEPT ![c.workspace][c.user] = c.verdict]
    /\ calls' = (calls \ {c}) \cup
            IF c.verdict = "approved"
            THEN {[kind |-> "admit", workspace |-> c.workspace, user |-> c.user]}
            ELSE {}
    /\ UNCHANGED <<members, projects, invitations>>

\* update_or_create sets every field, the role as well.
JoinerAdmitted(c) ==
    /\ members' = [members EXCEPT ![c.workspace][c.user] = NewMembership(FALSE)]
    /\ End(c)
    /\ UNCHANGED <<projects, invitations, joins>>

\* Mutant of RemoveMember: the owner's role is not looked at.
RemoveAnybody(w, u) ==
    /\ OnTeam(w, u)
    /\ \A p \in ProjectsOf(w) : projects[p].owner # u
    /\ Begin("remove", [kind |-> "remove", workspace |-> w, user |-> u])
    /\ UNCHANGED <<members, projects, invitations, joins>>

\* WorkspaceViewSet.members, DELETE: the checks.
RemoveMember(w, u) ==
    /\ OnTeam(w, u)
    /\ members[w][u].role # "owner"
    /\ \A p \in ProjectsOf(w) : projects[p].owner # u
    /\ Begin("remove", [kind |-> "remove", workspace |-> w, user |-> u])
    /\ UNCHANGED <<members, projects, invitations, joins>>

\* Mutant of MemberRemoved: the participations in projects are forgotten.
RemovedFromTeamOnly(c) ==
    /\ members' = [members EXCEPT ![c.workspace][c.user].active = FALSE]
    /\ End(c)
    /\ UNCHANGED <<projects, invitations, joins>>

MemberRemoved(c) ==
    /\ projects' = [p \in Projects |->
            IF p \in ProjectsOf(c.workspace)
            THEN [projects[p] EXCEPT !.participants = @ \ {c.user}]
            ELSE projects[p]]
    /\ members' = [members EXCEPT ![c.workspace][c.user].active = FALSE]
    /\ End(c)
    /\ UNCHANGED <<invitations, joins>>

\* WorkspaceViewSet.members, PATCH: the role is checked, then written.
ChangeRole(w, u, role) ==
    /\ OnTeam(w, u)
    /\ members[w][u].role # "owner"
    /\ Begin("role", [kind |-> "role", workspace |-> w, user |-> u, role |-> role])
    /\ UNCHANGED <<members, projects, invitations, joins>>

RoleChanged(c) ==
    /\ members' = [members EXCEPT ![c.workspace][c.user].role = c.role]
    /\ End(c)
    /\ UNCHANGED <<projects, invitations, joins>>

-----------------------------------------------------------------------------
(* Projects.                                                               *)

\* Mutant of UnusedGuests: called before the participants are deleted.
UnusedBeforehand(w, gone, p, pw, S) ==
    {u \in gone :
        /\ IsActive(w, u)
        /\ members[w][u].guest
        /\ \A q \in ProjectsOf(w) : u \notin projects[q].participants}

\* cleanup_unused_project_guests, called by a transaction on project p that
\* leaves p with participants S in workspace pw: whom it deactivates in w.
UnusedGuests(w, gone, p, pw, S) ==
    {u \in gone :
        /\ IsActive(w, u)
        /\ members[w][u].guest
        /\ \A q \in ProjectsOf(w) \ {p} : u \notin projects[q].participants
        /\ ~(pw = w /\ u \in S)}

Deactivate(dropped) ==
    [w \in Workspaces |-> [u \in Users |->
        IF <<w, u>> \in dropped THEN [members[w][u] EXCEPT !.active = FALSE]
        ELSE members[w][u]]]

\* ProjectViewSet.create and create_project: an active team member becomes the
\* owner, active members and guests participants.
CreateProject(p, w, owner, S, restricted) ==
    /\ projects[p] = NoProject
    /\ ProjectFree(p)
    /\ \A c \in Of("invite") : c.project # p
    /\ OnTeam(w, owner)
    /\ \A u \in S : IsActive(w, u)
    /\ Begin("createProject",
             [kind |-> "saveProject", project |-> p, dropped |-> {},
              workspace |-> w, owner |-> owner, participants |-> S \ {owner},
              restricted |-> restricted])
    /\ UNCHANGED <<members, projects, invitations, joins>>

\* ProjectViewSet.partial_update: its owner, who is on both teams, may move p.
MayMove(p, w) ==
    w # projects[p].workspace =>
        /\ "moveProject" \in Requests
        /\ IsActive(projects[p].workspace, projects[p].owner)
        /\ OnTeam(w, projects[p].owner)

\* update_project up to the commit: the version is current, the row is locked.
\* What the lists of the request give is validated as the new owner is; kept are
\* participants of a role without a list.
UpdateProject(p, w, owner, listed, given, kept, restricted) ==
    LET old == projects[p]
        S == IF listed THEN (given \ {owner}) \cup kept ELSE old.participants
        unused == UnusedGuests(w, old.participants \ S, p, w, S)
        left == IF w = old.workspace THEN {}
                ELSE UnusedGuests(old.workspace, old.participants, p, w, S)
    IN  /\ old.workspace # None
        /\ ProjectFree(p)
        /\ MayMove(p, w)
        /\ owner # old.owner => "transferProject" \in Requests /\ IsActive(w, owner)
        /\ listed => /\ \A u \in given : IsActive(w, u)
                     /\ kept \subseteq old.participants
                     /\ restricted => old.assigned \ {owner} \subseteq S
        /\ Begin("updateProject",
                 [kind |-> "saveProject", project |-> p,
                  dropped |-> ({w} \X unused) \cup ({old.workspace} \X left),
                  workspace |-> w, owner |-> owner, participants |-> S,
                  restricted |-> restricted])
        /\ UNCHANGED <<members, projects, invitations, joins>>

\* A saved project takes its invitations with it when it moves.
ProjectSaved(c) ==
    LET old == projects[c.project]
        moved == {i \in InvitationIds : /\ invitations[i].project = c.project
                                        /\ old.workspace # c.workspace}
    IN  /\ \A i \in moved : ~LockedInvitation(i)
        /\ projects' = [projects EXCEPT ![c.project] =
                [workspace |-> c.workspace, owner |-> c.owner,
                 participants |-> c.participants, restricted |-> c.restricted,
                 assigned |-> @.assigned]]
        /\ members' = Deactivate(c.dropped)
        /\ invitations' = [i \in InvitationIds |->
                IF i \in moved THEN [invitations[i] EXCEPT !.workspace = c.workspace]
                ELSE invitations[i]]
        /\ End(c)
        /\ UNCHANGED joins

\* ProjectViewSet.destroy up to its commit.
DeleteProject(p) ==
    LET old == projects[p]
    IN  /\ old.workspace # None
        /\ ProjectFree(p)
        /\ Begin("deleteProject",
                 [kind |-> "deleteProject", project |-> p,
                  dropped |-> {old.workspace} \X
                      UnusedGuests(old.workspace, old.participants, p, None, {})])
        /\ UNCHANGED <<members, projects, invitations, joins>>

\* Invitations to the project are deleted with it (ON DELETE CASCADE); what
\* became of a settled one is kept in status as history.
ProjectDeleted(c) ==
    LET orphans == {i \in InvitationIds : invitations[i].project = c.project}
    IN  /\ \A i \in orphans : ~LockedInvitation(i)
        /\ projects' = [projects EXCEPT ![c.project] = NoProject]
        /\ members' = Deactivate(c.dropped)
        /\ invitations' = [i \in InvitationIds |->
                IF i \in orphans
                THEN [NoInvitation EXCEPT !.status =
                        IF invitations[i].status = "pending" THEN "deleted"
                        ELSE invitations[i].status]
                ELSE invitations[i]]
        /\ End(c)
        /\ UNCHANGED joins

\* A task of p is assigned to an active member; _ensure_project_access_for_users
\* makes him a participant, unless he owns p.
AssignTask(p, u) ==
    /\ MayRequest("assign")
    /\ projects[p].workspace # None
    /\ u \notin projects[p].assigned
    /\ IsActive(projects[p].workspace, u)
    /\ HasPart(p, u) \/ ProjectFree(p)
    /\ projects' = [projects EXCEPT
            ![p].assigned = @ \cup {u},
            ![p].participants = IF u = projects[p].owner THEN @ ELSE @ \cup {u}]
    /\ UNCHANGED <<members, invitations, joins, calls>>

\* His task is reassigned, archived or deleted.
UnassignTask(p, u) ==
    /\ MayRequest("assign")
    /\ u \in projects[p].assigned
    /\ projects' = [projects EXCEPT ![p].assigned = @ \ {u}]
    /\ UNCHANGED <<members, invitations, joins, calls>>

-----------------------------------------------------------------------------
Init ==
    /\ members = [w \in Workspaces |-> [u \in Users |->
            IF u = WorkspaceOwner[w] THEN OwnerMembership ELSE NoMembership]]
    /\ projects = [p \in Projects |-> NoProject]
    /\ invitations = [i \in InvitationIds |-> NoInvitation]
    /\ joins = [w \in Workspaces |-> [u \in Users |-> "none"]]
    /\ calls = {}

InvitationStep ==
    \/ \E i \in InvitationIds, u \in Users, w \in Workspaces,
          p \in Projects \cup {None} : Invite(i, u, w, p)
    \/ \E i \in InvitationIds :
          \/ AcceptInvitation(i)
          \/ RejectInvitation(i)
          \/ RevokeInvitation(i)
          \/ Lapse(i)
    \/ ExpireInvitations
    \/ \E c \in Of("invite") : InvitationCreated(c)
    \/ \E c \in Of("accept") : InvitationAccepted(c)
    \/ \E c \in Of("revoke") : InvitationRevoked(c)

MemberStep ==
    \/ \E w \in Workspaces, u \in Users :
          \/ RequestToJoin(w, u)
          \/ \E verdict \in {"approved", "rejected"} : Decide(w, u, verdict)
          \/ RemoveMember(w, u)
          \/ \E role \in {"manager", "member"} : ChangeRole(w, u, role)
    \/ \E c \in Of("decide") : Decided(c)
    \/ \E c \in Of("admit") : JoinerAdmitted(c)
    \/ \E c \in Of("remove") : MemberRemoved(c)
    \/ \E c \in Of("role") : RoleChanged(c)

ProjectStep ==
    \/ \E p \in Projects :
          \/ \E w \in Workspaces, owner \in Users, S \in SUBSET Users,
                restricted \in Visibilities :
                CreateProject(p, w, owner, S, restricted)
          \/ \E w \in Workspaces, owner \in Users, listed \in BOOLEAN,
                given, kept \in SUBSET Users, restricted \in Visibilities :
                UpdateProject(p, w, owner, listed, given, kept, restricted)
          \/ DeleteProject(p)
          \/ \E u \in Users : AssignTask(p, u) \/ UnassignTask(p, u)
    \/ \E c \in Of("saveProject") : ProjectSaved(c)
    \/ \E c \in Of("deleteProject") : ProjectDeleted(c)

Next == InvitationStep \/ MemberStep \/ ProjectStep \/ Abandon

Spec == Init /\ [][Next]_vars

-----------------------------------------------------------------------------
(* Properties.                                                             *)

TypeOK ==
    /\ members \in [Workspaces -> [Users -> Membership]]
    /\ projects \in [Projects -> Project]
    /\ invitations \in [InvitationIds -> Invitation]
    /\ joins \in [Workspaces ->
                    [Users -> {"none", "pending", "approved", "rejected"}]]

\* The founder of a workspace stays its owner, active and on the team, whatever
\* requests overlap (views.py:261, 283; selectors and permissions rely on it).
OwnerStaysMember ==
    \A w \in Workspaces : members[w][WorkspaceOwner[w]] = OwnerMembership

\* An invitation is used once or void for ever (services.py:1650).
Grants == INSTANCE OneTimeGrant WITH
    Grants <- InvitationIds,
    grant <- [i \in InvitationIds |->
        CASE invitations[i].status = "unused" -> "unissued"
          [] invitations[i].status = "pending" -> "open"
          [] invitations[i].status = "accepted" -> "used"
          [] OTHER -> "void"]

InvitationsAreUsedOnce == Grants!Spec

\* Nobody has two open invitations to the same team or project
\* (services.py:1474-1482).
OneOpenInvitation ==
    \A i, j \in InvitationIds :
        /\ Usable(i) /\ Usable(j)
        /\ invitations[i].user = invitations[j].user
        /\ invitations[i].workspace = invitations[j].workspace
        /\ invitations[i].project = invitations[j].project
        => i = j

\* Owners and participants of a project are active members of its team
\* (models.py:162, serializers.py:803-818): the others lose their access.
ParticipantsAreMembers ==
    \A p \in Projects :
        projects[p].workspace # None =>
            \A u \in projects[p].participants \cup {projects[p].owner} :
                IsActive(projects[p].workspace, u)

\* A guest is in a workspace for the sake of a project (services.py:140).
GuestsHaveAProject ==
    \A w \in Workspaces, u \in Users :
        IsActive(w, u) /\ members[w][u].guest =>
            \E p \in ProjectsOf(w) : HasPart(p, u)

\* Whoever has an open task in a restricted project has access to the project
\* (services.py:464-499).
AssigneesHaveAccess ==
    \A p \in Projects :
        projects[p].restricted => \A u \in projects[p].assigned : HasPart(p, u)

\* A request to join that is decided stays as it was decided (views.py:1338).
\* Not kept: two decisions both find the request pending.
DecisionIsFinal ==
    [][\A w \in Workspaces, u \in Users :
          joins[w][u] \in {"approved", "rejected"} => joins'[w][u] = joins[w][u]]_vars

\* An invitation to a project puts nobody on the team, and no invitation gives
\* more than the role of a member (services.py:1651, "minimale Rechte").
AcceptanceGivesLittle ==
    [][\A i \in InvitationIds :
          LET inv == invitations[i]
              before == members[inv.workspace][inv.user]
              after == members'[inv.workspace][inv.user]
          IN  inv.status = "pending" /\ invitations'[i].status = "accepted"
              /\ ~before.active =>
                /\ after.role = "member"
                /\ inv.project # None => after.guest]_vars

\* A member of the team does not become a guest by accepting an invitation
\* (services.py:1571).
TeamMembersStayOnTeam ==
    [][\A w \in Workspaces, u \in Users :
          OnTeam(w, u) /\ members'[w][u].active => ~members'[w][u].guest]_vars
================================================================================
