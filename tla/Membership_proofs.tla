--------------------------- MODULE Membership_proofs ---------------------------
(* Proofs about Membership, for any users, workspaces, projects and            *)
(* invitations and any number of requests at a time, each of which may be lost *)
(* between its checks and its writes.                                          *)
EXTENDS Membership, FiniteSetTheorems, TLAPS

\* The invitations whose rows a call relies on until it writes them.
Held(c) ==
    IF c.kind = "accept" THEN {c.invitation}
    ELSE IF c.kind = "invite" THEN {c.invitation} \cup c.outdated
    ELSE {}

InviteOK(c) ==
    /\ c.invitation \in InvitationIds
    /\ c.user \in Users
    /\ c.workspace \in Workspaces
    /\ c.project \in Projects \cup {None}
    /\ c.outdated \in SUBSET InvitationIds
    /\ invitations[c.invitation].status = "unused"
    /\ \A j \in c.outdated : invitations[j].status = "pending"

AcceptOK(c) ==
    /\ c.invitation \in InvitationIds
    /\ c.seen \in Membership
    /\ invitations[c.invitation].status = "pending"
    /\ invitations[c.invitation].user
            = WorkspaceOwner[invitations[c.invitation].workspace]
         => c.seen = OwnerMembership

MemberCallOK(c) ==
    /\ c.workspace \in Workspaces
    /\ c.user \in Users
    /\ c.user # WorkspaceOwner[c.workspace]
    /\ c.kind = "decide" => c.verdict \in {"approved", "rejected"}
    /\ c.kind = "role" => c.role \in {"manager", "member"}

ProjectCallOK(c) ==
    /\ c.project \in Projects
    /\ \A w \in Workspaces : <<w, WorkspaceOwner[w]>> \notin c.dropped
    /\ c.kind = "saveProject" =>
          /\ c.workspace \in Workspaces
          /\ c.owner \in Users
          /\ c.participants \in SUBSET Users
          /\ c.restricted \in BOOLEAN

\* What a call read is still true of what it holds, and spares the owners.
CallOK(c) ==
    /\ c.kind = "invite" => InviteOK(c)
    /\ c.kind = "accept" => AcceptOK(c)
    /\ c.kind = "revoke" => c.invitation \in InvitationIds /\ "revoke" \in Requests
    /\ c.kind \in {"decide", "admit", "remove", "role"} => MemberCallOK(c)
    /\ c.kind \in {"saveProject", "deleteProject"} => ProjectCallOK(c)

PendingHasTarget ==
    \A i \in InvitationIds :
        /\ invitations[i].status = "pending" =>
              /\ invitations[i].user \in Users
              /\ invitations[i].workspace \in Workspaces
        /\ invitations[i].status = "unused" => invitations[i] = NoInvitation

OwnersDoNotJoin ==
    \A w \in Workspaces : joins[w][WorkspaceOwner[w]] = "none"

CallsOK == \A c \in calls : CallOK(c)

HoldersDiffer == \A c, d \in calls : c # d => Held(c) \cap Held(d) = {}

Rows == TypeOK /\ PendingHasTarget /\ OwnerStaysMember /\ OwnersDoNotJoin

IInv == Rows /\ CallsOK /\ HoldersDiffer

-----------------------------------------------------------------------------
(* Calls.                                                                  *)

SameRow(i) ==
    /\ invitations'[i].status = invitations[i].status
    /\ invitations'[i].user = invitations[i].user
    /\ invitations'[i].workspace = invitations[i].workspace

\* A call stays good while the rows it holds are left alone.
LEMMA CallFrame ==
    ASSUME NEW c, CallOK(c), \A i \in Held(c) : SameRow(i)
    PROVE  CallOK(c)'
  <1>1. c.kind = "invite" => InviteOK(c)'
    BY DEF CallOK, InviteOK, Held, SameRow
  <1>2. c.kind = "accept" => AcceptOK(c)'
    BY DEF CallOK, AcceptOK, Held, SameRow
  <1>3. c.kind \in {"decide", "admit", "remove", "role"} => MemberCallOK(c)'
    BY DEF CallOK, MemberCallOK
  <1>4. c.kind \in {"saveProject", "deleteProject"} => ProjectCallOK(c)'
    BY DEF CallOK, ProjectCallOK
  <1> QED
    BY <1>1, <1>2, <1>3, <1>4 DEF CallOK

LEMMA CallsKept ==
    ASSUME CallsOK, HoldersDiffer,
           \A c \in calls' : c \in calls,
           \A c \in calls' : \A i \in Held(c) : SameRow(i)
    PROVE  CallsOK' /\ HoldersDiffer'
  <1>1. CallsOK'
    BY CallFrame DEF CallsOK
  <1>2. HoldersDiffer'
    BY DEF HoldersDiffer, Held
  <1> QED
    BY <1>1, <1>2

\* A handler has read and checked: nothing but its call is new.
LEMMA BeginKeeps ==
    ASSUME IInv, NEW call, CallOK(call),
           \A d \in calls : Held(call) \cap Held(d) = {},
           calls' = calls \cup {call},
           UNCHANGED <<members, projects, invitations, joins>>
    PROVE  IInv'
  <1>1. Rows'
    BY DEF IInv, Rows, TypeOK, PendingHasTarget, OwnerStaysMember, OwnersDoNotJoin
  <1>2. \A c \in calls' : CallOK(c)
    BY DEF IInv, CallsOK
  <1>3. \A i \in InvitationIds : SameRow(i)
    BY DEF SameRow
  <1>4. \A c \in calls' : CallOK(c)'
    BY <1>2, CallFrame DEF SameRow
  <1>5. HoldersDiffer'
    <2> SUFFICES ASSUME NEW c \in calls', NEW d \in calls', c # d
                 PROVE  Held(c) \cap Held(d) = {}
      BY DEF HoldersDiffer, Held
    <2>1. CASE c \in calls /\ d \in calls
      BY <2>1 DEF IInv, HoldersDiffer
    <2>2. CASE c = call /\ d \in calls
      BY <2>2
    <2>3. CASE d = call /\ c \in calls
      BY <2>3
    <2> QED
      BY <2>1, <2>2, <2>3
  <1> QED
    BY <1>1, <1>4, <1>5 DEF IInv, CallsOK

\* What no call has locked, and is not waiting to be created, no call holds.
LEMMA NotHeld ==
    ASSUME IInv, NEW i \in InvitationIds, ~LockedInvitation(i),
           invitations[i].status # "unused"
    PROVE  \A d \in calls : i \notin Held(d)
  <1> SUFFICES ASSUME NEW d \in calls, i \in Held(d) PROVE FALSE
    OBVIOUS
  <1>1. CASE d.kind = "accept"
    BY <1>1 DEF Held, LockedInvitation, Of
  <1>2. CASE d.kind = "invite"
    <2>1. invitations[d.invitation].status = "unused"
      BY <1>2 DEF IInv, CallsOK, CallOK, InviteOK
    <2>2. i \in d.outdated
      BY <1>2, <2>1 DEF Held
    <2> QED
      BY <1>2, <2>2 DEF LockedInvitation, Of
  <1> QED
    BY <1>1, <1>2 DEF Held

-----------------------------------------------------------------------------
(* The first halves of the handlers.                                       *)

LEMMA InviteStep ==
    ASSUME IInv, NEW i \in InvitationIds, NEW u \in Users, NEW w \in Workspaces,
           NEW p \in Projects \cup {None}, Invite(i, u, w, p)
    PROVE  IInv'
  <1> DEFINE outdated == {j \in OpenInvitations(u, w, p) : invitations[j].overdue}
             call == [kind |-> "invite", invitation |-> i, user |-> u,
                      workspace |-> w, project |-> p, outdated |-> outdated]
  <1>1. /\ invitations[i].status = "unused"
        /\ \A c \in Of("invite") : c.invitation # i
        /\ \A j \in outdated : ~LockedInvitation(j)
        /\ calls' = calls \cup {call}
        /\ UNCHANGED <<members, projects, invitations, joins>>
    BY DEF Invite, Begin
  <1>2. \A j \in outdated : j \in InvitationIds /\ invitations[j].status = "pending"
    BY DEF OpenInvitations
  <1> HIDE DEF outdated
  <1>3. CallOK(call)
    BY <1>1, <1>2 DEF CallOK, InviteOK
  <1>4. Held(call) = {i} \cup outdated
    BY DEF Held
  <1>5. \A j \in outdated : \A d \in calls : j \notin Held(d)
    BY <1>1, <1>2, NotHeld
  <1>6. \A d \in calls : i \notin Held(d)
    <2> SUFFICES ASSUME NEW d \in calls, i \in Held(d) PROVE FALSE
      OBVIOUS
    <2>1. CallOK(d)
      BY DEF IInv, CallsOK
    <2> QED
      BY <1>1, <2>1 DEF Held, CallOK, InviteOK, AcceptOK, Of
  <1>7. \A d \in calls : Held(call) \cap Held(d) = {}
    BY <1>4, <1>5, <1>6
  <1> HIDE DEF call
  <1> QED
    BY <1>1, <1>3, <1>7, BeginKeeps

LEMMA AcceptStep ==
    ASSUME IInv, NEW i \in InvitationIds, AcceptInvitation(i)
    PROVE  IInv'
  <1> DEFINE inv == invitations[i]
             call == [kind |-> "accept", invitation |-> i,
                      seen |-> members[inv.workspace][inv.user]]
  <1>1. /\ ~LockedInvitation(i)
        /\ inv.status = "pending"
        /\ calls' = calls \cup {call}
        /\ UNCHANGED <<members, projects, invitations, joins>>
    BY DEF AcceptInvitation, Begin, Usable
  <1>2. inv.user \in Users /\ inv.workspace \in Workspaces
    BY <1>1 DEF IInv, Rows, PendingHasTarget
  <1>3. /\ members[inv.workspace][inv.user] \in Membership
        /\ inv.user = WorkspaceOwner[inv.workspace]
              => members[inv.workspace][inv.user] = OwnerMembership
    BY <1>2 DEF IInv, Rows, TypeOK, OwnerStaysMember
  <1>4. CallOK(call)
    BY <1>1, <1>3 DEF CallOK, AcceptOK
  <1>5. Held(call) = {i}
    BY DEF Held
  <1>6. \A d \in calls : i \notin Held(d)
    BY <1>1, NotHeld
  <1> HIDE DEF call
  <1> QED
    BY <1>1, <1>4, <1>5, <1>6, BeginKeeps

LEMMA RevokeStep ==
    ASSUME IInv, NEW i \in InvitationIds, RevokeInvitation(i)
    PROVE  IInv'
  <1> DEFINE call == [kind |-> "revoke", invitation |-> i]
  <1>1. CallOK(call)
    BY DEF CallOK, RevokeInvitation, Begin, MayRequest
  <1>2. Held(call) = {}
    BY DEF Held
  <1>3. calls' = calls \cup {call} /\ UNCHANGED <<members, projects, invitations, joins>>
    BY DEF RevokeInvitation, Begin
  <1> HIDE DEF call
  <1> QED
    BY <1>1, <1>2, <1>3, BeginKeeps

LEMMA DecideStep ==
    ASSUME IInv, NEW w \in Workspaces, NEW u \in Users,
           NEW verdict \in {"approved", "rejected"}, Decide(w, u, verdict)
    PROVE  IInv'
  <1> DEFINE call == [kind |-> "decide", workspace |-> w, user |-> u,
                      verdict |-> verdict]
  <1>1. u # WorkspaceOwner[w]
    BY DEF IInv, Rows, OwnersDoNotJoin, Decide
  <1>2. CallOK(call)
    BY <1>1 DEF CallOK, MemberCallOK
  <1>3. Held(call) = {}
    BY DEF Held
  <1>4. calls' = calls \cup {call} /\ UNCHANGED <<members, projects, invitations, joins>>
    BY DEF Decide, Begin
  <1> HIDE DEF call
  <1> QED
    BY <1>2, <1>3, <1>4, BeginKeeps

LEMMA RemoveStep ==
    ASSUME IInv, NEW w \in Workspaces, NEW u \in Users, RemoveMember(w, u)
    PROVE  IInv'
  <1> DEFINE call == [kind |-> "remove", workspace |-> w, user |-> u]
  <1>1. u # WorkspaceOwner[w]
    BY DEF IInv, Rows, OwnerStaysMember, OwnerMembership, RemoveMember
  <1>2. CallOK(call)
    BY <1>1 DEF CallOK, MemberCallOK
  <1>3. Held(call) = {}
    BY DEF Held
  <1>4. calls' = calls \cup {call} /\ UNCHANGED <<members, projects, invitations, joins>>
    BY DEF RemoveMember, Begin
  <1> HIDE DEF call
  <1> QED
    BY <1>2, <1>3, <1>4, BeginKeeps

LEMMA RoleStep ==
    ASSUME IInv, NEW w \in Workspaces, NEW u \in Users,
           NEW role \in {"manager", "member"}, ChangeRole(w, u, role)
    PROVE  IInv'
  <1> DEFINE call == [kind |-> "role", workspace |-> w, user |-> u, role |-> role]
  <1>1. u # WorkspaceOwner[w]
    BY DEF IInv, Rows, OwnerStaysMember, OwnerMembership, ChangeRole
  <1>2. CallOK(call)
    BY <1>1 DEF CallOK, MemberCallOK
  <1>3. Held(call) = {}
    BY DEF Held
  <1>4. calls' = calls \cup {call} /\ UNCHANGED <<members, projects, invitations, joins>>
    BY DEF ChangeRole, Begin
  <1> HIDE DEF call
  <1> QED
    BY <1>2, <1>3, <1>4, BeginKeeps

LEMMA CreateProjectStep ==
    ASSUME IInv, NEW p \in Projects, NEW w \in Workspaces, NEW owner \in Users,
           NEW S \in SUBSET Users, NEW restricted \in Visibilities,
           CreateProject(p, w, owner, S, restricted)
    PROVE  IInv'
  <1> DEFINE call == [kind |-> "saveProject", project |-> p, dropped |-> {},
                      workspace |-> w, owner |-> owner,
                      participants |-> S \ {owner}, restricted |-> restricted]
  <1>1. CallOK(call)
    BY VisibilitiesAreFlags DEF CallOK, ProjectCallOK
  <1>2. Held(call) = {}
    BY DEF Held
  <1>3. calls' = calls \cup {call} /\ UNCHANGED <<members, projects, invitations, joins>>
    BY DEF CreateProject, Begin
  <1> HIDE DEF call
  <1> QED
    BY <1>1, <1>2, <1>3, BeginKeeps

\* The clean-up of guests spares the owner, who is none.
LEMMA OwnerIsNoGuest ==
    ASSUME IInv, NEW w \in Workspaces, NEW gone, NEW p, NEW pw, NEW S
    PROVE  WorkspaceOwner[w] \notin UnusedGuests(w, gone, p, pw, S)
  BY DEF IInv, Rows, OwnerStaysMember, OwnerMembership, UnusedGuests

LEMMA UpdateProjectStep ==
    ASSUME IInv, NEW p \in Projects, NEW w \in Workspaces, NEW owner \in Users,
           NEW listed \in BOOLEAN, NEW given \in SUBSET Users,
           NEW kept \in SUBSET Users, NEW restricted \in Visibilities,
           UpdateProject(p, w, owner, listed, given, kept, restricted)
    PROVE  IInv'
  <1> DEFINE old == projects[p]
             S == IF listed THEN (given \ {owner}) \cup kept ELSE old.participants
             unused == UnusedGuests(w, old.participants \ S, p, w, S)
             left == IF w = old.workspace THEN {}
                     ELSE UnusedGuests(old.workspace, old.participants, p, w, S)
             dropped == ({w} \X unused) \cup ({old.workspace} \X left)
             call == [kind |-> "saveProject", project |-> p, dropped |-> dropped,
                      workspace |-> w, owner |-> owner, participants |-> S,
                      restricted |-> restricted]
  <1>1. /\ old.workspace # None
        /\ calls' = calls \cup {call}
        /\ UNCHANGED <<members, projects, invitations, joins>>
    BY DEF UpdateProject, Begin
  <1>2. old \in Project
    BY DEF IInv, Rows, TypeOK
  <1>3. old.workspace \in Workspaces /\ S \in SUBSET Users
    BY <1>1, <1>2 DEF Project
  <1>4. WorkspaceOwner[w] \notin unused
    BY OwnerIsNoGuest
  <1>5. WorkspaceOwner[old.workspace] \notin left
    BY <1>3, OwnerIsNoGuest
  <1> HIDE DEF old, S, unused, left
  <1>6. \A v \in Workspaces : <<v, WorkspaceOwner[v]>> \notin dropped
    BY <1>4, <1>5
  <1> HIDE DEF dropped
  <1>7. CallOK(call)
    BY <1>3, <1>6, VisibilitiesAreFlags DEF CallOK, ProjectCallOK
  <1>8. Held(call) = {}
    BY DEF Held
  <1> HIDE DEF call
  <1> QED
    BY <1>1, <1>7, <1>8, BeginKeeps

LEMMA DeleteProjectStep ==
    ASSUME IInv, NEW p \in Projects, DeleteProject(p)
    PROVE  IInv'
  <1> DEFINE old == projects[p]
             unused == UnusedGuests(old.workspace, old.participants, p, None, {})
             dropped == {old.workspace} \X unused
             call == [kind |-> "deleteProject", project |-> p, dropped |-> dropped]
  <1>1. /\ old.workspace # None
        /\ calls' = calls \cup {call}
        /\ UNCHANGED <<members, projects, invitations, joins>>
    BY DEF DeleteProject, Begin
  <1>2. old.workspace \in Workspaces
    BY <1>1 DEF IInv, Rows, TypeOK, Project
  <1>3. WorkspaceOwner[old.workspace] \notin unused
    BY <1>2, OwnerIsNoGuest
  <1> HIDE DEF old, unused
  <1>4. \A v \in Workspaces : <<v, WorkspaceOwner[v]>> \notin dropped
    BY <1>3
  <1> HIDE DEF dropped
  <1>5. CallOK(call)
    BY <1>4 DEF CallOK, ProjectCallOK
  <1>6. Held(call) = {}
    BY DEF Held
  <1> HIDE DEF call
  <1> QED
    BY <1>1, <1>5, <1>6, BeginKeeps

-----------------------------------------------------------------------------
(* The second halves, and the handlers of one step.                        *)

\* The rows are good again and nobody else's are touched.
LEMMA EndKeeps ==
    ASSUME IInv, Rows',
           \A d \in calls' : d \in calls,
           \A d \in calls' : \A i \in Held(d) : SameRow(i)
    PROVE  IInv'
  <1>1. CallsOK /\ HoldersDiffer
    BY DEF IInv
  <1>2. CallsOK' /\ HoldersDiffer'
    BY <1>1, CallsKept
  <1> QED
    BY <1>2 DEF IInv

LEMMA HeldAreInvitations ==
    ASSUME IInv, NEW d \in calls
    PROVE  CallOK(d) /\ Held(d) \in SUBSET InvitationIds
  <1>1. CallOK(d)
    BY DEF IInv, CallsOK
  <1> QED
    BY <1>1 DEF CallOK, InviteOK, AcceptOK, Held

\* The invitations' rows are not touched.
LEMMA SameInvitations ==
    ASSUME IInv, Rows', \A d \in calls' : d \in calls,
           UNCHANGED invitations
    PROVE  IInv'
  BY EndKeeps DEF SameRow

LEMMA CreatedStep ==
    ASSUME IInv, NEW c \in Of("invite"), InvitationCreated(c)
    PROVE  IInv'
  <1>1. c \in calls /\ c.kind = "invite"
    BY DEF Of
  <1>2. InviteOK(c) /\ Held(c) = {c.invitation} \cup c.outdated
    BY <1>1, HeldAreInvitations DEF CallOK, Held
  <1>3. /\ UNCHANGED <<members, projects, joins>>
        /\ calls' = calls \ {c}
        /\ \A i \in InvitationIds : i \notin Held(c) =>
              invitations'[i] = invitations[i]
        /\ \A i \in c.outdated : i # c.invitation =>
              invitations'[i] = [invitations[i] EXCEPT !.status = "expired"]
        /\ invitations'[c.invitation] =
              [status |-> "pending", user |-> c.user, workspace |-> c.workspace,
               project |-> c.project, overdue |-> FALSE]
        /\ DOMAIN invitations' = InvitationIds
        /\ invitations' = [i \in InvitationIds |-> invitations'[i]]
    BY <1>2 DEF InvitationCreated, End, InviteOK
  <1>4. \A i \in InvitationIds : invitations'[i] \in Invitation
    <2> SUFFICES ASSUME NEW i \in InvitationIds PROVE invitations'[i] \in Invitation
      OBVIOUS
    <2>1. invitations[i] \in Invitation
      BY DEF IInv, Rows, TypeOK
    <2>2. CASE i = c.invitation
      <3>1. c.user \in Users /\ c.workspace \in Workspaces
            /\ c.project \in Projects \cup {None}
        BY <1>2 DEF InviteOK
      <3>2. [status |-> "pending", user |-> c.user, workspace |-> c.workspace,
             project |-> c.project, overdue |-> FALSE] \in Invitation
        BY <3>1 DEF Invitation
      <3> QED
        BY <1>3, <2>2, <3>2
    <2>3. CASE i # c.invitation /\ i \in c.outdated
      BY <1>3, <2>1, <2>3 DEF Invitation
    <2> QED
      BY <1>2, <1>3, <2>1, <2>2, <2>3
  <1>5. PendingHasTarget'
    <2> SUFFICES ASSUME NEW i \in InvitationIds
                 PROVE  /\ invitations'[i].status = "pending" =>
                              /\ invitations'[i].user \in Users
                              /\ invitations'[i].workspace \in Workspaces
                        /\ invitations'[i].status = "unused" =>
                              invitations'[i] = NoInvitation
      BY DEF PendingHasTarget
    <2>1. CASE i = c.invitation
      BY <1>2, <1>3, <2>1 DEF InviteOK
    <2>2. CASE i # c.invitation /\ i \in c.outdated
      <3>1. invitations[i] \in Invitation
        BY DEF IInv, Rows, TypeOK
      <3>2. invitations'[i].status = "expired"
        BY <1>3, <2>2, <3>1 DEF Invitation
      <3> QED
        BY <3>2
    <2>3. CASE i \notin Held(c)
      BY <1>3, <2>3 DEF IInv, Rows, PendingHasTarget
    <2> QED
      BY <1>2, <2>1, <2>2, <2>3
  <1>6. Rows'
    BY <1>3, <1>4, <1>5 DEF IInv, Rows, TypeOK, OwnerStaysMember, OwnersDoNotJoin
  <1>7. \A d \in calls' : \A i \in Held(d) : SameRow(i)
    <2> SUFFICES ASSUME NEW d \in calls', NEW i \in Held(d) PROVE SameRow(i)
      OBVIOUS
    <2>1. d \in calls /\ d # c
      BY <1>3
    <2>2. i \in InvitationIds /\ i \notin Held(c)
      BY <1>1, <2>1, HeldAreInvitations DEF IInv, HoldersDiffer
    <2> QED
      BY <1>3, <2>2 DEF SameRow
  <1> QED
    BY <1>3, <1>6, <1>7, EndKeeps

\* Accepting makes a membership, and leaves the owner what he is.
LEMMA AdmittedIsMembership ==
    ASSUME NEW current \in Membership, NEW seen \in Membership,
           NEW b \in BOOLEAN
    PROVE  Admitted(current, seen, b) \in Membership
  <1>1. (seen.guest /\ b) \in BOOLEAN
    BY DEF Membership
  <1> DEFINE g == seen.guest /\ b
  <1> HIDE DEF g
  <1>2. [current EXCEPT !.active = TRUE, !.guest = g] \in Membership
    BY <1>1 DEF Membership, g
  <1> QED
    BY <1>2 DEF Admitted, NewMembership, Membership, g

LEMMA OwnerReadmitted ==
    ASSUME NEW b \in BOOLEAN
    PROVE  Admitted(OwnerMembership, OwnerMembership, b) = OwnerMembership
  <1>1. (OwnerMembership.guest /\ b) = FALSE /\ OwnerMembership.role # "none"
    BY DEF OwnerMembership
  <1>2. [OwnerMembership EXCEPT !.active = TRUE, !.guest = FALSE] = OwnerMembership
    <2> DEFINE m == [OwnerMembership EXCEPT !.active = TRUE, !.guest = FALSE]
    <2>1. m \in Membership /\ OwnerMembership \in Membership
      BY DEF OwnerMembership, Membership
    <2>2. m.role = "owner" /\ m.active = TRUE /\ m.guest = FALSE
      BY DEF OwnerMembership
    <2> HIDE DEF m
    <2>3. m = [role |-> m.role, active |-> m.active, guest |-> m.guest]
      BY <2>1 DEF Membership
    <2> QED
      BY <2>2, <2>3 DEF m, OwnerMembership
  <1> QED
    BY <1>1, <1>2 DEF Admitted

SettledStatus == {"accepted", "rejected", "revoked", "expired"}

Settle(S, s) ==
    [i \in InvitationIds |->
        IF i \in S THEN [invitations[i] EXCEPT !.status = s] ELSE invitations[i]]

LEMMA Settled ==
    ASSUME IInv, NEW S \in SUBSET InvitationIds, NEW s \in SettledStatus,
           invitations' = Settle(S, s)
    PROVE  /\ invitations' \in [InvitationIds -> Invitation]
           /\ PendingHasTarget'
           /\ \A i \in InvitationIds : i \notin S => SameRow(i)
  <1>1. \A i \in InvitationIds :
          /\ i \in S => invitations'[i] = [invitations[i] EXCEPT !.status = s]
          /\ i \notin S => invitations'[i] = invitations[i]
    BY DEF Settle
  <1>2. \A i \in InvitationIds : invitations[i] \in Invitation
    BY DEF IInv, Rows, TypeOK
  <1>3. ASSUME NEW i \in S
        PROVE  invitations'[i] \in Invitation /\ invitations'[i].status = s
    <2>1. /\ invitations[i] \in Invitation
          /\ invitations'[i] = [invitations[i] EXCEPT !.status = s]
      BY <1>1, <1>2
    <2>2. s \in {"unused", "pending", "accepted", "rejected", "revoked",
                "expired", "deleted"}
      BY DEF SettledStatus
    <2> QED
      BY <2>1, <2>2 DEF Invitation
  <1>4. invitations' \in [InvitationIds -> Invitation]
    BY <1>1, <1>2, <1>3 DEF Settle
  <1>5. PendingHasTarget'
    BY <1>1, <1>3 DEF IInv, Rows, PendingHasTarget, SettledStatus
  <1>6. \A i \in InvitationIds : i \notin S => SameRow(i)
    BY <1>1 DEF SameRow
  <1> QED
    BY <1>4, <1>5, <1>6

LEMMA SettleOne ==
    ASSUME IInv, NEW j \in InvitationIds, NEW s
    PROVE  [invitations EXCEPT ![j].status = s] = Settle({j}, s)
  <1>1. invitations \in [InvitationIds -> Invitation]
    BY DEF IInv, Rows, TypeOK
  <1> QED
    BY <1>1 DEF Settle

\* Nobody holds the settled rows: the step is good if the other rows are.
LEMMA SettledStep ==
    ASSUME IInv, NEW S \in SUBSET InvitationIds, NEW s \in SettledStatus,
           invitations' = Settle(S, s),
           \A d \in calls' : d \in calls /\ Held(d) \cap S = {},
           members' \in [Workspaces -> [Users -> Membership]],
           projects' \in [Projects -> Project],
           OwnerStaysMember',
           UNCHANGED joins
    PROVE  IInv'
  <1>1. /\ invitations' \in [InvitationIds -> Invitation]
        /\ PendingHasTarget'
        /\ \A i \in InvitationIds : i \notin S => SameRow(i)
    BY Settled
  <1>2. Rows'
    BY <1>1 DEF IInv, Rows, TypeOK, OwnersDoNotJoin
  <1>3. \A d \in calls' : \A i \in Held(d) : SameRow(i)
    BY <1>1, HeldAreInvitations
  <1> QED
    BY <1>2, <1>3, EndKeeps

LEMMA AcceptedStep ==
    ASSUME IInv, NEW c \in Of("accept"), InvitationAccepted(c)
    PROVE  IInv'
  <1> DEFINE j == c.invitation
             inv == invitations[j]
             w == inv.workspace
             u == inv.user
             b == inv.project # None
  <1>1. c \in calls /\ AcceptOK(c) /\ Held(c) = {j}
    BY HeldAreInvitations DEF Of, CallOK, Held
  <1>2. /\ j \in InvitationIds /\ c.seen \in Membership /\ inv.status = "pending"
        /\ u = WorkspaceOwner[w] => c.seen = OwnerMembership
    BY <1>1 DEF AcceptOK
  <1>3. u \in Users /\ w \in Workspaces
    BY <1>2 DEF IInv, Rows, PendingHasTarget
  <1>4. /\ members' = [members EXCEPT ![w][u] = Admitted(@, c.seen, b)]
        /\ projects' = [p \in Projects |->
              IF p = inv.project
              THEN [projects[p] EXCEPT !.participants = @ \cup {u}]
              ELSE projects[p]]
        /\ invitations' = [invitations EXCEPT ![j].status = "accepted"]
        /\ calls' = calls \ {c}
        /\ UNCHANGED joins
    BY DEF InvitationAccepted, End
  <1> HIDE DEF inv, w, u, b, j
  <1>5. invitations' = Settle({j}, "accepted")
    BY <1>2, <1>4, SettleOne
  <1>6. \A d \in calls' : d \in calls /\ Held(d) \cap {j} = {}
    BY <1>1, <1>4 DEF IInv, HoldersDiffer
  <1>7. members \in [Workspaces -> [Users -> Membership]]
    BY DEF IInv, Rows, TypeOK
  <1>b. b \in BOOLEAN
    BY DEF b
  <1>8. Admitted(members[w][u], c.seen, b) \in Membership
    BY <1>2, <1>3, <1>7, <1>b, AdmittedIsMembership
  <1>9. members' \in [Workspaces -> [Users -> Membership]]
    BY <1>3, <1>4, <1>7, <1>8
  <1>10. projects' \in [Projects -> Project]
    <2>1. \A p \in Projects : projects[p] \in Project
      BY DEF IInv, Rows, TypeOK
    <2>2. \A p \in Projects :
            [projects[p] EXCEPT !.participants = @ \cup {u}] \in Project
      BY <1>3, <2>1 DEF Project
    <2> QED
      BY <1>4, <2>1, <2>2
  <1>11. OwnerStaysMember'
    <2> SUFFICES ASSUME NEW v \in Workspaces
                 PROVE  members'[v][WorkspaceOwner[v]] = OwnerMembership
      BY DEF OwnerStaysMember
    <2>1. members[v][WorkspaceOwner[v]] = OwnerMembership
      BY DEF IInv, Rows, OwnerStaysMember
    <2>2. CASE v = w /\ WorkspaceOwner[v] = u
      <3>1. Admitted(members[w][u], c.seen, b) = OwnerMembership
        BY <1>2, <1>b, <2>1, <2>2, OwnerReadmitted
      <3> QED
        BY <1>3, <1>4, <1>7, <2>2, <3>1
    <2>3. CASE ~(v = w /\ WorkspaceOwner[v] = u)
      BY <1>3, <1>4, <1>7, <2>1, <2>3
    <2> QED
      BY <2>2, <2>3
  <1> QED
    BY <1>2, <1>4, <1>5, <1>6, <1>9, <1>10, <1>11, SettledStep DEF SettledStatus

LEMMA RejectStep ==
    ASSUME IInv, NEW i \in InvitationIds, RejectInvitation(i)
    PROVE  IInv'
  <1>1. /\ ~LockedInvitation(i)
        /\ invitations[i].status = "pending"
        /\ invitations' = Settle({i}, "rejected")
        /\ UNCHANGED <<members, projects, joins, calls>>
    BY SettleOne DEF RejectInvitation, Usable
  <1>2. \A d \in calls' : d \in calls /\ Held(d) \cap {i} = {}
    BY <1>1, NotHeld
  <1>3. TypeOK /\ OwnerStaysMember
    BY DEF IInv, Rows
  <1>4. OwnerStaysMember'
    BY <1>1, <1>3 DEF OwnerStaysMember
  <1> QED
    BY <1>1, <1>2, <1>3, <1>4, SettledStep DEF SettledStatus, TypeOK

LEMMA RevokedStep ==
    ASSUME IInv, NEW c \in Of("revoke"), InvitationRevoked(c)
    PROVE  IInv'
  <1> DEFINE i == c.invitation
  <1>1. i \in InvitationIds
    BY HeldAreInvitations DEF Of, CallOK
  <1>2. /\ ~LockedInvitation(i)
        /\ invitations[i].user # None
        /\ calls' = calls \ {c}
        /\ invitations' = Settle({i}, "revoked")
        /\ UNCHANGED <<members, projects, joins>>
    BY <1>1, SettleOne DEF InvitationRevoked, End
  <1>3. invitations[i].status # "unused"
    BY <1>1, <1>2 DEF IInv, Rows, PendingHasTarget, NoInvitation
  <1>4. \A d \in calls' : d \in calls /\ Held(d) \cap {i} = {}
    BY <1>1, <1>2, <1>3, NotHeld
  <1>5. TypeOK /\ OwnerStaysMember
    BY DEF IInv, Rows
  <1>6. OwnerStaysMember'
    BY <1>2, <1>5 DEF OwnerStaysMember
  <1> HIDE DEF i
  <1> QED
    BY <1>1, <1>2, <1>4, <1>5, <1>6, SettledStep DEF SettledStatus, TypeOK

LEMMA ExpireStep ==
    ASSUME IInv, ExpireInvitations
    PROVE  IInv'
  <1> DEFINE S == {i \in InvitationIds : /\ invitations[i].status = "pending"
                                         /\ invitations[i].overdue}
  <1>1. /\ \A i \in S : ~LockedInvitation(i)
        /\ invitations' = Settle(S, "expired")
        /\ UNCHANGED <<members, projects, joins, calls>>
    BY DEF ExpireInvitations, Settle
  <1>2. \A i \in S : i \in InvitationIds /\ invitations[i].status # "unused"
    OBVIOUS
  <1> HIDE DEF S
  <1>3. \A d \in calls' : d \in calls /\ Held(d) \cap S = {}
    BY <1>1, <1>2, NotHeld
  <1>4. TypeOK /\ OwnerStaysMember
    BY DEF IInv, Rows
  <1>5. OwnerStaysMember'
    BY <1>1, <1>4 DEF OwnerStaysMember
  <1> QED
    BY <1>1, <1>2, <1>3, <1>4, <1>5, SettledStep DEF SettledStatus, TypeOK

LEMMA LapseStep ==
    ASSUME IInv, NEW i \in InvitationIds, Lapse(i)
    PROVE  IInv'
  <1>1. /\ invitations' = [invitations EXCEPT ![i].overdue = TRUE]
        /\ invitations[i].status = "pending"
        /\ UNCHANGED <<members, projects, joins, calls>>
    BY DEF Lapse
  <1>2. invitations \in [InvitationIds -> Invitation]
    BY DEF IInv, Rows, TypeOK
  <1>3. \A k \in InvitationIds : SameRow(k)
    BY <1>1, <1>2 DEF SameRow, Invitation
  <1>4. invitations' \in [InvitationIds -> Invitation]
    BY <1>1, <1>2 DEF Invitation
  <1>5. PendingHasTarget'
    <2>1. \A k \in InvitationIds : k # i => invitations'[k] = invitations[k]
      BY <1>1, <1>2
    <2> QED
      BY <1>1, <1>3, <2>1 DEF IInv, Rows, PendingHasTarget, SameRow
  <1>6. Rows'
    BY <1>1, <1>4, <1>5 DEF IInv, Rows, TypeOK, OwnerStaysMember, OwnersDoNotJoin
  <1>7. \A d \in calls' : d \in calls /\ \A k \in Held(d) : SameRow(k)
    BY <1>1, <1>3, HeldAreInvitations
  <1> QED
    BY <1>6, <1>7, EndKeeps

LEMMA JoinStep ==
    ASSUME IInv, NEW w \in Workspaces, NEW u \in Users, RequestToJoin(w, u)
    PROVE  IInv'
  <1>1. u # WorkspaceOwner[w]
    BY DEF IInv, Rows, OwnerStaysMember, OwnerMembership, RequestToJoin, IsActive
  <1>2. /\ joins' = [joins EXCEPT ![w][u] = "pending"]
        /\ UNCHANGED <<members, projects, invitations, calls>>
    BY DEF RequestToJoin
  <1>3. TypeOK' /\ OwnersDoNotJoin'
    BY <1>1, <1>2 DEF IInv, Rows, TypeOK, OwnersDoNotJoin
  <1>4. Rows'
    BY <1>2, <1>3 DEF IInv, Rows, PendingHasTarget, OwnerStaysMember
  <1> QED
    BY <1>2, <1>4, SameInvitations

LEMMA MemberCall ==
    ASSUME IInv, NEW c \in calls, c.kind \in {"decide", "admit", "remove", "role"}
    PROVE  MemberCallOK(c)
  BY HeldAreInvitations DEF CallOK

LEMMA DecidedStep ==
    ASSUME IInv, NEW c \in Of("decide"), Decided(c)
    PROVE  IInv'
  <1> DEFINE admit == [kind |-> "admit", workspace |-> c.workspace,
                       user |-> c.user]
  <1>1. c \in calls /\ c.kind = "decide"
    BY DEF Of
  <1>2. /\ c.workspace \in Workspaces /\ c.user \in Users
        /\ c.user # WorkspaceOwner[c.workspace]
        /\ c.verdict \in {"approved", "rejected"}
    BY <1>1, MemberCall DEF MemberCallOK
  <1>3. /\ joins' = [joins EXCEPT ![c.workspace][c.user] = c.verdict]
        /\ calls' \subseteq calls \cup {admit}
        /\ UNCHANGED <<members, projects, invitations>>
    BY DEF Decided
  <1>4. TypeOK' /\ OwnersDoNotJoin'
    BY <1>2, <1>3 DEF IInv, Rows, TypeOK, OwnersDoNotJoin
  <1>5. Rows'
    BY <1>3, <1>4 DEF IInv, Rows, PendingHasTarget, OwnerStaysMember
  <1>6. CallOK(admit) /\ Held(admit) = {}
    BY <1>2 DEF CallOK, MemberCallOK, Held
  <1> HIDE DEF admit
  <1>7. CallsOK'
    <2>1. \A d \in calls' : CallOK(d)
      BY <1>3, <1>6 DEF IInv, CallsOK
    <2> QED
      BY <1>3, <2>1, CallFrame DEF CallsOK, SameRow
  <1>8. HoldersDiffer'
    <2> SUFFICES ASSUME NEW d \in calls', NEW e \in calls', d # e
                 PROVE  Held(d) \cap Held(e) = {}
      BY DEF HoldersDiffer, Held
    <2> QED
      BY <1>3, <1>6 DEF IInv, HoldersDiffer
  <1> QED
    BY <1>5, <1>7, <1>8 DEF IInv

\* A member other than the owner is changed.
LEMMA MemberChanged ==
    ASSUME IInv, NEW w \in Workspaces, NEW u \in Users, NEW m \in Membership,
           u # WorkspaceOwner[w],
           members' = [members EXCEPT ![w][u] = m]
    PROVE  members' \in [Workspaces -> [Users -> Membership]] /\ OwnerStaysMember'
  BY DEF IInv, Rows, TypeOK, OwnerStaysMember

LEMMA AdmittedToTeamStep ==
    ASSUME IInv, NEW c \in Of("admit"), JoinerAdmitted(c)
    PROVE  IInv'
  <1>1. c \in calls /\ MemberCallOK(c)
    BY MemberCall DEF Of
  <1>2. NewMembership(FALSE) \in Membership
    BY DEF NewMembership, Membership
  <1>3. /\ members' = [members EXCEPT ![c.workspace][c.user] = NewMembership(FALSE)]
        /\ calls' = calls \ {c}
        /\ UNCHANGED <<projects, invitations, joins>>
    BY DEF JoinerAdmitted, End
  <1>4. members' \in [Workspaces -> [Users -> Membership]] /\ OwnerStaysMember'
    BY <1>1, <1>2, <1>3, MemberChanged DEF MemberCallOK
  <1>5. Rows'
    BY <1>3, <1>4 DEF IInv, Rows, TypeOK, PendingHasTarget, OwnersDoNotJoin
  <1> QED
    BY <1>3, <1>5, SameInvitations

LEMMA RemovedStep ==
    ASSUME IInv, NEW c \in Of("remove"), MemberRemoved(c)
    PROVE  IInv'
  <1> DEFINE w == c.workspace
             u == c.user
  <1>1. c \in calls /\ MemberCallOK(c)
    BY MemberCall DEF Of
  <1>2. w \in Workspaces /\ u \in Users /\ u # WorkspaceOwner[w]
    BY <1>1 DEF MemberCallOK
  <1>3. /\ members' = [members EXCEPT ![w][u].active = FALSE]
        /\ projects' = [p \in Projects |->
              IF p \in ProjectsOf(w)
              THEN [projects[p] EXCEPT !.participants = @ \ {u}]
              ELSE projects[p]]
        /\ calls' = calls \ {c}
        /\ UNCHANGED <<invitations, joins>>
    BY DEF MemberRemoved, End
  <1> HIDE DEF w, u
  <1>4. members[w][u] \in Membership
    BY <1>2 DEF IInv, Rows, TypeOK
  <1> DEFINE m == [members[w][u] EXCEPT !.active = FALSE]
  <1>5. m \in Membership
    BY <1>4 DEF Membership
  <1>6. members' = [members EXCEPT ![w][u] = m]
    BY <1>2, <1>3 DEF IInv, Rows, TypeOK
  <1> HIDE DEF m
  <1>7. members' \in [Workspaces -> [Users -> Membership]] /\ OwnerStaysMember'
    BY <1>2, <1>5, <1>6, MemberChanged
  <1>8. projects' \in [Projects -> Project]
    <2>1. \A p \in Projects : projects[p] \in Project
      BY DEF IInv, Rows, TypeOK
    <2>2. \A p \in Projects :
            [projects[p] EXCEPT !.participants = @ \ {u}] \in Project
      BY <2>1 DEF Project
    <2> QED
      BY <1>3, <2>1, <2>2
  <1>9. Rows'
    BY <1>3, <1>7, <1>8 DEF IInv, Rows, TypeOK, PendingHasTarget, OwnersDoNotJoin
  <1> QED
    BY <1>3, <1>9, SameInvitations

LEMMA RoleChangedStep ==
    ASSUME IInv, NEW c \in Of("role"), RoleChanged(c)
    PROVE  IInv'
  <1> DEFINE w == c.workspace
             u == c.user
  <1>1. c \in calls /\ c.kind = "role" /\ MemberCallOK(c)
    BY MemberCall DEF Of
  <1>2. /\ w \in Workspaces /\ u \in Users /\ u # WorkspaceOwner[w]
        /\ c.role \in {"manager", "member"}
    BY <1>1 DEF MemberCallOK
  <1>3. /\ members' = [members EXCEPT ![w][u].role = c.role]
        /\ calls' = calls \ {c}
        /\ UNCHANGED <<projects, invitations, joins>>
    BY DEF RoleChanged, End
  <1> HIDE DEF w, u
  <1>4. members[w][u] \in Membership
    BY <1>2 DEF IInv, Rows, TypeOK
  <1> DEFINE m == [members[w][u] EXCEPT !.role = c.role]
  <1>5. m \in Membership
    BY <1>2, <1>4 DEF Membership
  <1>6. members' = [members EXCEPT ![w][u] = m]
    BY <1>2, <1>3 DEF IInv, Rows, TypeOK
  <1> HIDE DEF m
  <1>7. members' \in [Workspaces -> [Users -> Membership]] /\ OwnerStaysMember'
    BY <1>2, <1>5, <1>6, MemberChanged
  <1>8. Rows'
    BY <1>3, <1>7 DEF IInv, Rows, TypeOK, PendingHasTarget, OwnersDoNotJoin
  <1> QED
    BY <1>3, <1>8, SameInvitations

LEMMA AssignStep ==
    ASSUME IInv, NEW p \in Projects, NEW u \in Users,
           AssignTask(p, u) \/ UnassignTask(p, u)
    PROVE  IInv'
  <1>1. projects[p] \in Project
    BY DEF IInv, Rows, TypeOK
  <1>2. UNCHANGED <<members, invitations, joins, calls>>
    BY DEF AssignTask, UnassignTask
  <1>3. \E q \in Project : projects' = [projects EXCEPT ![p] = q]
    <2>1. CASE AssignTask(p, u)
      <3> DEFINE S == IF u = projects[p].owner THEN projects[p].participants
                      ELSE projects[p].participants \cup {u}
                 q == [projects[p] EXCEPT !.assigned = @ \cup {u},
                                          !.participants = S]
      <3>1. S \in SUBSET Users
        BY <1>1 DEF Project
      <3>2. projects' = [projects EXCEPT ![p] = q]
        BY <2>1 DEF AssignTask, IInv, Rows, TypeOK
      <3> HIDE DEF S
      <3>3. q \in Project
        BY <1>1, <3>1 DEF Project
      <3> QED
        BY <3>2, <3>3
    <2>2. CASE UnassignTask(p, u)
      <3> DEFINE q == [projects[p] EXCEPT !.assigned = @ \ {u}]
      <3>1. projects' = [projects EXCEPT ![p] = q]
        BY <2>2 DEF UnassignTask, IInv, Rows, TypeOK
      <3>2. q \in Project
        BY <1>1 DEF Project
      <3> QED
        BY <3>1, <3>2
    <2> QED
      BY <2>1, <2>2
  <1>4. TypeOK'
    BY <1>2, <1>3 DEF IInv, Rows, TypeOK
  <1>5. Rows'
    BY <1>2, <1>4 DEF IInv, Rows, PendingHasTarget, OwnerStaysMember, OwnersDoNotJoin
  <1> QED
    BY <1>2, <1>5, SameInvitations

LEMMA Deactivated ==
    ASSUME IInv, NEW dropped,
           \A w \in Workspaces : <<w, WorkspaceOwner[w]>> \notin dropped,
           members' = Deactivate(dropped)
    PROVE  members' \in [Workspaces -> [Users -> Membership]] /\ OwnerStaysMember'
  <1>1. \A w \in Workspaces, u \in Users : members[w][u] \in Membership
    BY DEF IInv, Rows, TypeOK
  <1>2. \A w \in Workspaces, u \in Users :
          [members[w][u] EXCEPT !.active = FALSE] \in Membership
    BY <1>1 DEF Membership
  <1>3. members' \in [Workspaces -> [Users -> Membership]]
    BY <1>1, <1>2 DEF Deactivate
  <1>4. OwnerStaysMember'
    BY OwnersAreUsers DEF IInv, Rows, OwnerStaysMember, Deactivate
  <1> QED
    BY <1>3, <1>4

LEMMA ProjectCall ==
    ASSUME IInv, NEW c \in calls, c.kind \in {"saveProject", "deleteProject"}
    PROVE  ProjectCallOK(c)
  BY HeldAreInvitations DEF CallOK

LEMMA SavedStep ==
    ASSUME IInv, NEW c \in Of("saveProject"), ProjectSaved(c)
    PROVE  IInv'
  <1> DEFINE old == projects[c.project]
             moved == {i \in InvitationIds :
                          /\ invitations[i].project = c.project
                          /\ old.workspace # c.workspace}
             row == [workspace |-> c.workspace, owner |-> c.owner,
                     participants |-> c.participants,
                     restricted |-> c.restricted, assigned |-> old.assigned]
  <1>1. c \in calls /\ c.kind = "saveProject" /\ ProjectCallOK(c)
    BY ProjectCall DEF Of
  <1>2. /\ c.project \in Projects /\ c.workspace \in Workspaces
        /\ c.owner \in Users /\ c.participants \in SUBSET Users
        /\ c.restricted \in BOOLEAN
        /\ \A w \in Workspaces : <<w, WorkspaceOwner[w]>> \notin c.dropped
    BY <1>1 DEF ProjectCallOK
  <1>3. /\ \A i \in moved : ~LockedInvitation(i)
        /\ projects' = [projects EXCEPT ![c.project] = row]
        /\ members' = Deactivate(c.dropped)
        /\ invitations' = [i \in InvitationIds |->
              IF i \in moved THEN [invitations[i] EXCEPT !.workspace = c.workspace]
              ELSE invitations[i]]
        /\ calls' = calls \ {c}
        /\ UNCHANGED joins
    BY <1>2 DEF ProjectSaved, End, IInv, Rows, TypeOK
  <1>4. \A i \in moved : i \in InvitationIds /\ invitations[i].project = c.project
    OBVIOUS
  <1>5. old \in Project
    BY <1>2 DEF IInv, Rows, TypeOK
  <1>6. row \in Project
    BY <1>2, <1>5 DEF Project
  <1> HIDE DEF moved, row, old
  <1>7. projects' \in [Projects -> Project]
    BY <1>2, <1>3, <1>6 DEF IInv, Rows, TypeOK
  <1>8. members' \in [Workspaces -> [Users -> Membership]] /\ OwnerStaysMember'
    BY <1>2, <1>3, Deactivated
  <1>9. \A i \in moved : invitations[i].status # "unused"
    BY <1>2, <1>4, NoneIsNobody DEF IInv, Rows, PendingHasTarget, NoInvitation
  <1>10. ASSUME NEW i \in InvitationIds
         PROVE  /\ invitations'[i] \in Invitation
                /\ i \in moved => /\ invitations'[i].status = invitations[i].status
                                  /\ invitations'[i].user = invitations[i].user
                                  /\ invitations'[i].workspace = c.workspace
                /\ i \notin moved => invitations'[i] = invitations[i]
    <2>1. invitations[i] \in Invitation
      BY DEF IInv, Rows, TypeOK
    <2>2. CASE i \in moved
      BY <1>2, <1>3, <2>1, <2>2 DEF Invitation
    <2> QED
      BY <1>3, <2>1, <2>2
  <1>11. invitations' \in [InvitationIds -> Invitation]
    BY <1>3, <1>10
  <1>12. PendingHasTarget'
    BY <1>2, <1>9, <1>10 DEF IInv, Rows, PendingHasTarget
  <1>13. Rows'
    BY <1>3, <1>7, <1>8, <1>11, <1>12 DEF IInv, Rows, TypeOK, OwnersDoNotJoin
  <1>14. \A d \in calls' : \A i \in Held(d) : i \in InvitationIds /\ i \notin moved
    BY <1>3, <1>4, <1>9, NotHeld, HeldAreInvitations
  <1>15. \A d \in calls' : \A i \in Held(d) : SameRow(i)
    BY <1>10, <1>14 DEF SameRow
  <1> QED
    BY <1>3, <1>13, <1>15, EndKeeps

LEMMA DeletedStep ==
    ASSUME IInv, NEW c \in Of("deleteProject"), ProjectDeleted(c)
    PROVE  IInv'
  <1> DEFINE orphans == {i \in InvitationIds : invitations[i].project = c.project}
  <1>1. c \in calls /\ ProjectCallOK(c)
    BY ProjectCall DEF Of
  <1>2. /\ c.project \in Projects
        /\ \A w \in Workspaces : <<w, WorkspaceOwner[w]>> \notin c.dropped
    BY <1>1 DEF ProjectCallOK
  <1>3. /\ \A i \in orphans : ~LockedInvitation(i)
        /\ projects' = [projects EXCEPT ![c.project] = NoProject]
        /\ members' = Deactivate(c.dropped)
        /\ invitations' = [i \in InvitationIds |->
              IF i \in orphans
              THEN [NoInvitation EXCEPT !.status =
                      IF invitations[i].status = "pending" THEN "deleted"
                      ELSE invitations[i].status]
              ELSE invitations[i]]
        /\ calls' = calls \ {c}
        /\ UNCHANGED joins
    BY DEF ProjectDeleted, End
  <1>4. \A i \in orphans : i \in InvitationIds /\ invitations[i].project = c.project
    OBVIOUS
  <1> HIDE DEF orphans
  <1>5. NoProject \in Project
    BY DEF NoProject, Project
  <1>6. projects' \in [Projects -> Project]
    BY <1>2, <1>3, <1>5 DEF IInv, Rows, TypeOK
  <1>7. members' \in [Workspaces -> [Users -> Membership]] /\ OwnerStaysMember'
    BY <1>2, <1>3, Deactivated
  <1>8. \A i \in orphans : invitations[i].status # "unused"
    BY <1>2, <1>4, NoneIsNobody DEF IInv, Rows, PendingHasTarget, NoInvitation
  <1>9. ASSUME NEW i \in InvitationIds
        PROVE  /\ invitations'[i] \in Invitation
               /\ i \in orphans => invitations'[i].status \notin {"pending", "unused"}
               /\ i \notin orphans => invitations'[i] = invitations[i]
    <2>1. invitations[i] \in Invitation
      BY DEF IInv, Rows, TypeOK
    <2>2. CASE i \in orphans
      <3> DEFINE s == IF invitations[i].status = "pending" THEN "deleted"
                      ELSE invitations[i].status
      <3>1. s \in {"accepted", "rejected", "revoked", "expired", "deleted"}
        BY <1>8, <2>1, <2>2 DEF Invitation
      <3>2. invitations'[i] = [NoInvitation EXCEPT !.status = s]
        BY <1>3, <2>2
      <3> HIDE DEF s
      <3>3. invitations'[i] \in Invitation /\ invitations'[i].status = s
        BY <3>1, <3>2 DEF NoInvitation, Invitation
      <3> QED
        BY <2>2, <3>1, <3>3
    <2> QED
      BY <1>3, <2>1, <2>2
  <1>10. invitations' \in [InvitationIds -> Invitation]
    BY <1>3, <1>9
  <1>11. PendingHasTarget'
    BY <1>9 DEF IInv, Rows, PendingHasTarget
  <1>12. Rows'
    BY <1>3, <1>6, <1>7, <1>10, <1>11 DEF IInv, Rows, TypeOK, OwnersDoNotJoin
  <1>13. \A d \in calls' : \A i \in Held(d) : i \in InvitationIds /\ i \notin orphans
    BY <1>3, <1>4, <1>8, NotHeld, HeldAreInvitations
  <1>14. \A d \in calls' : \A i \in Held(d) : SameRow(i)
    BY <1>9, <1>13 DEF SameRow
  <1> QED
    BY <1>3, <1>12, <1>14, EndKeeps

LEMMA IdleStep ==
    ASSUME IInv, Abandon \/ UNCHANGED vars
    PROVE  IInv'
  <1>1. /\ UNCHANGED <<members, projects, invitations, joins>>
        /\ \A d \in calls' : d \in calls
    BY DEF Abandon, End, vars
  <1>2. Rows'
    BY <1>1 DEF IInv, Rows, TypeOK, PendingHasTarget, OwnerStaysMember, OwnersDoNotJoin
  <1> QED
    BY <1>1, <1>2, SameInvitations

-----------------------------------------------------------------------------
(* The invariant.                                                          *)

LEMMA IInvInit == Init => IInv
  <1> SUFFICES ASSUME Init PROVE IInv
    OBVIOUS
  <1>1. OwnerMembership \in Membership /\ NoMembership \in Membership
    BY DEF OwnerMembership, NoMembership, Membership
  <1>2. NoProject \in Project /\ NoInvitation \in Invitation
    BY DEF NoProject, Project, NoInvitation, Invitation
  <1>3. TypeOK
    BY <1>1, <1>2 DEF Init, TypeOK
  <1>4. PendingHasTarget
    BY DEF Init, PendingHasTarget, NoInvitation
  <1>5. OwnerStaysMember /\ OwnersDoNotJoin
    BY OwnersAreUsers DEF Init, OwnerStaysMember, OwnersDoNotJoin
  <1> QED
    BY <1>3, <1>4, <1>5 DEF Init, IInv, Rows, CallsOK, HoldersDiffer

LEMMA InvitationStepKeeps == IInv /\ InvitationStep => IInv'
  <1> SUFFICES ASSUME IInv, InvitationStep PROVE IInv'
    OBVIOUS
  <1>1. ASSUME NEW i \in InvitationIds, NEW u \in Users, NEW w \in Workspaces,
               NEW p \in Projects \cup {None}, Invite(i, u, w, p)
        PROVE  IInv'
    BY <1>1, InviteStep
  <1>2. ASSUME NEW i \in InvitationIds,
               \/ AcceptInvitation(i) \/ RejectInvitation(i)
               \/ RevokeInvitation(i) \/ Lapse(i)
        PROVE  IInv'
    BY <1>2, AcceptStep, RejectStep, RevokeStep, LapseStep
  <1>3. CASE ExpireInvitations
    BY <1>3, ExpireStep
  <1>4. CASE \E c \in Of("invite") : InvitationCreated(c)
    BY <1>4, CreatedStep
  <1>5. CASE \E c \in Of("accept") : InvitationAccepted(c)
    BY <1>5, AcceptedStep
  <1>6. CASE \E c \in Of("revoke") : InvitationRevoked(c)
    BY <1>6, RevokedStep
  <1> QED
    BY <1>1, <1>2, <1>3, <1>4, <1>5, <1>6 DEF InvitationStep

LEMMA MemberStepKeeps == IInv /\ MemberStep => IInv'
  <1> SUFFICES ASSUME IInv, MemberStep PROVE IInv'
    OBVIOUS
  <1>1. ASSUME NEW w \in Workspaces, NEW u \in Users,
               \/ RequestToJoin(w, u)
               \/ \E verdict \in {"approved", "rejected"} : Decide(w, u, verdict)
               \/ RemoveMember(w, u)
               \/ \E role \in {"manager", "member"} : ChangeRole(w, u, role)
        PROVE  IInv'
    BY <1>1, JoinStep, DecideStep, RemoveStep, RoleStep
  <1>2. CASE \E c \in Of("decide") : Decided(c)
    BY <1>2, DecidedStep
  <1>3. CASE \E c \in Of("admit") : JoinerAdmitted(c)
    BY <1>3, AdmittedToTeamStep
  <1>4. CASE \E c \in Of("remove") : MemberRemoved(c)
    BY <1>4, RemovedStep
  <1>5. CASE \E c \in Of("role") : RoleChanged(c)
    BY <1>5, RoleChangedStep
  <1> QED
    BY <1>1, <1>2, <1>3, <1>4, <1>5 DEF MemberStep

LEMMA ProjectStepKeeps == IInv /\ ProjectStep => IInv'
  <1> SUFFICES ASSUME IInv, ProjectStep PROVE IInv'
    OBVIOUS
  <1>1. ASSUME NEW p \in Projects, NEW w \in Workspaces, NEW owner \in Users,
               NEW S \in SUBSET Users, NEW restricted \in Visibilities,
               CreateProject(p, w, owner, S, restricted)
        PROVE  IInv'
    BY <1>1, CreateProjectStep
  <1>2. ASSUME NEW p \in Projects, NEW w \in Workspaces, NEW owner \in Users,
               NEW listed \in BOOLEAN, NEW given \in SUBSET Users,
               NEW kept \in SUBSET Users, NEW restricted \in Visibilities,
               UpdateProject(p, w, owner, listed, given, kept, restricted)
        PROVE  IInv'
    BY <1>2, UpdateProjectStep
  <1>3. ASSUME NEW p \in Projects,
               DeleteProject(p) \/ \E u \in Users : AssignTask(p, u) \/ UnassignTask(p, u)
        PROVE  IInv'
    BY <1>3, DeleteProjectStep, AssignStep
  <1>4. CASE \E c \in Of("saveProject") : ProjectSaved(c)
    BY <1>4, SavedStep
  <1>5. CASE \E c \in Of("deleteProject") : ProjectDeleted(c)
    BY <1>5, DeletedStep
  <1> QED
    BY <1>1, <1>2, <1>3, <1>4, <1>5 DEF ProjectStep

LEMMA IInvStep == IInv /\ [Next]_vars => IInv'
  BY InvitationStepKeeps, MemberStepKeeps, ProjectStepKeeps, IdleStep DEF Next

\* The rows of members, projects, invitations and requests to join stay well
\* formed in every interleaving of the handlers' checks and writes.
THEOREM TypeCorrect == Spec => []TypeOK
  <1>1. IInv => TypeOK
    BY DEF IInv, Rows
  <1> QED
    BY IInvInit, IInvStep, <1>1, PTL DEF Spec

\* The founder of a workspace stays its owner on the team: no overlap of
\* accepting, removing, promoting, joining, and cleaning up guests demotes him
\* (views.py:261, 283).
THEOREM OwnersStay == Spec => []OwnerStaysMember
  <1>1. IInv => OwnerStaysMember
    BY DEF IInv, Rows
  <1> QED
    BY IInvInit, IInvStep, <1>1, PTL DEF Spec

-----------------------------------------------------------------------------
(* Without revocation an invitation keeps the promise of OneTimeGrant.     *)

GrantOf(status) ==
    CASE status = "unused" -> "unissued"
      [] status = "pending" -> "open"
      [] status = "accepted" -> "used"
      [] OTHER -> "void"

Became ==
    [i \in InvitationIds |->
        CASE invitations[i].status = "unused" -> "unissued"
          [] invitations[i].status = "pending" -> "open"
          [] invitations[i].status = "accepted" -> "used"
          [] OTHER -> "void"]

LEMMA BecameIs ==
    /\ Became = [i \in InvitationIds |-> GrantOf(invitations[i].status)]
    /\ Became' = [i \in InvitationIds |-> GrantOf(invitations'[i].status)]
  BY DEF Became, GrantOf

LEMMA GrantValues ==
    /\ GrantOf("unused") = "unissued"
    /\ GrantOf("pending") = "open"
    /\ GrantOf("accepted") = "used"
    /\ \A s \in {"rejected", "revoked", "expired", "deleted"} : GrantOf(s) = "void"
  BY DEF GrantOf

LEMMA SameStatus ==
    ASSUME \A i \in InvitationIds : invitations'[i].status = invitations[i].status
    PROVE  Became' = Became
  BY BecameIs

LEMMA VoidStep ==
    ASSUME NEW S \in SUBSET InvitationIds,
           \A i \in S : /\ invitations[i].status = "pending"
                        /\ invitations'[i].status \in
                              {"rejected", "revoked", "expired", "deleted"},
           \A i \in InvitationIds :
               i \notin S => GrantOf(invitations'[i].status)
                                 = GrantOf(invitations[i].status)
    PROVE  Became' = Became \/ Grants!Next
  <1>1. \A i \in S : Became[i] = "open"
    BY BecameIs, GrantValues
  <1>2. Became' = [i \in InvitationIds |-> IF i \in S THEN "void" ELSE Became[i]]
    BY BecameIs, GrantValues
  <1>3. CASE S = {}
    BY <1>2, <1>3, BecameIs
  <1>4. CASE S # {}
    <2>1. Grants!Void(S)
      BY <1>1, <1>2, <1>4 DEF Grants!Void, Became
    <2> QED
      BY <2>1 DEF Grants!Next
  <1> QED
    BY <1>3, <1>4

LEMMA IssueStep ==
    ASSUME IInv, NEW c \in Of("invite"), InvitationCreated(c)
    PROVE  Grants!Next
  <1>1. InviteOK(c)
    BY HeldAreInvitations DEF Of, CallOK
  <1>2. /\ c.invitation \in InvitationIds /\ c.outdated \in SUBSET InvitationIds
        /\ invitations[c.invitation].status = "unused"
        /\ \A j \in c.outdated : invitations[j].status = "pending"
    BY <1>1 DEF InviteOK
  <1>3. ASSUME NEW i \in InvitationIds
        PROVE  invitations'[i].status = IF i = c.invitation THEN "pending"
                                        ELSE IF i \in c.outdated THEN "expired"
                                        ELSE invitations[i].status
    <2>1. invitations[i] \in Invitation
      BY DEF IInv, Rows, TypeOK
    <2> QED
      BY <2>1 DEF InvitationCreated, Invitation
  <1>4. Became' = [h \in InvitationIds |->
                     IF h = c.invitation THEN "open"
                     ELSE IF h \in c.outdated THEN "void" ELSE Became[h]]
    BY <1>3, BecameIs, GrantValues
  <1>5. /\ Became[c.invitation] = "unissued"
        /\ \A j \in c.outdated : Became[j] = "open"
    BY <1>2, BecameIs, GrantValues
  <1>6. Grants!Issue(c.invitation, c.outdated)
    BY <1>4, <1>5 DEF Grants!Issue, Became
  <1> QED
    BY <1>2, <1>6 DEF Grants!Next

LEMMA UseStep ==
    ASSUME IInv, NEW c \in Of("accept"), InvitationAccepted(c)
    PROVE  Grants!Next
  <1> DEFINE j == c.invitation
  <1>1. j \in InvitationIds /\ invitations[j].status = "pending"
    BY HeldAreInvitations DEF Of, CallOK, AcceptOK
  <1>2. invitations' = [invitations EXCEPT ![j].status = "accepted"]
    BY DEF InvitationAccepted
  <1> HIDE DEF j
  <1>3. invitations \in [InvitationIds -> Invitation]
    BY DEF IInv, Rows, TypeOK
  <1>4. \A i \in InvitationIds :
          invitations'[i].status = IF i = j THEN "accepted" ELSE invitations[i].status
    BY <1>1, <1>2, <1>3 DEF Invitation
  <1>5. Became[j] = "open"
    BY <1>1, BecameIs, GrantValues
  <1>6. Became' = [h \in InvitationIds |-> IF h = j THEN "used" ELSE Became[h]]
    BY <1>1, <1>4, BecameIs, GrantValues
  <1>7. Became' = [h \in InvitationIds |-> IF h = j THEN "used"
                                           ELSE IF h \in {} THEN "void" ELSE Became[h]]
    BY <1>6
  <1>8. Grants!Use(j, {})
    BY <1>5, <1>7 DEF Grants!Use, Became
  <1> QED
    BY <1>1, <1>8 DEF Grants!Next

LEMMA RefusedStep ==
    ASSUME IInv, NEW i \in InvitationIds, RejectInvitation(i)
    PROVE  Became' = Became \/ Grants!Next
  <1>1. invitations[i].status = "pending"
    BY DEF RejectInvitation, Usable
  <1>2. invitations \in [InvitationIds -> Invitation]
    BY DEF IInv, Rows, TypeOK
  <1>3. \A j \in InvitationIds :
          invitations'[j].status = IF j = i THEN "rejected" ELSE invitations[j].status
    BY <1>2 DEF RejectInvitation, Invitation
  <1> DEFINE S == {i}
  <1>4. /\ S \in SUBSET InvitationIds
        /\ \A j \in S : /\ invitations[j].status = "pending"
                        /\ invitations'[j].status = "rejected"
        /\ \A j \in InvitationIds :
              j \notin S => invitations'[j].status = invitations[j].status
    BY <1>1, <1>3
  <1> HIDE DEF S
  <1> QED
    BY <1>4, VoidStep

LEMMA ExpiredStep ==
    ASSUME IInv, ExpireInvitations
    PROVE  Became' = Became \/ Grants!Next
  <1> DEFINE S == {i \in InvitationIds : /\ invitations[i].status = "pending"
                                         /\ invitations[i].overdue}
  <1>1. \A i \in InvitationIds : invitations[i] \in Invitation
    BY DEF IInv, Rows, TypeOK
  <1>2. S \in SUBSET InvitationIds /\ \A i \in S : invitations[i].status = "pending"
    OBVIOUS
  <1>3. \A i \in InvitationIds :
          invitations'[i] = IF i \in S THEN [invitations[i] EXCEPT !.status = "expired"]
                            ELSE invitations[i]
    BY DEF ExpireInvitations
  <1> HIDE DEF S
  <1>4. \A i \in InvitationIds :
          invitations'[i].status = IF i \in S THEN "expired" ELSE invitations[i].status
    BY <1>1, <1>3 DEF Invitation
  <1> QED
    BY <1>2, <1>4, VoidStep

LEMMA MovedStep ==
    ASSUME IInv, NEW c \in Of("saveProject"), ProjectSaved(c)
    PROVE  Became' = Became
  <1>1. \A i \in InvitationIds : invitations[i] \in Invitation
    BY DEF IInv, Rows, TypeOK
  <1>2. \A i \in InvitationIds :
          \/ invitations'[i] = invitations[i]
          \/ invitations'[i] = [invitations[i] EXCEPT !.workspace = c.workspace]
    BY DEF ProjectSaved
  <1>3. \A i \in InvitationIds : invitations'[i].status = invitations[i].status
    BY <1>1, <1>2 DEF Invitation
  <1> QED
    BY <1>3, SameStatus

LEMMA OrphanedStep ==
    ASSUME IInv, NEW c \in Of("deleteProject"), ProjectDeleted(c)
    PROVE  Became' = Became \/ Grants!Next
  <1> DEFINE orphans == {i \in InvitationIds : invitations[i].project = c.project}
             S == {i \in orphans : invitations[i].status = "pending"}
  <1>1. \A i \in InvitationIds :
          invitations'[i] =
              IF i \in orphans
              THEN [NoInvitation EXCEPT !.status =
                      IF invitations[i].status = "pending" THEN "deleted"
                      ELSE invitations[i].status]
              ELSE invitations[i]
    BY DEF ProjectDeleted
  <1>2. /\ S \in SUBSET InvitationIds
        /\ \A i \in S : invitations[i].status = "pending"
        /\ \A i \in orphans : i \notin S => invitations[i].status # "pending"
        /\ S \subseteq orphans
    OBVIOUS
  <1> HIDE DEF orphans, S
  <1>3. \A i \in InvitationIds :
          invitations'[i].status = IF i \in S THEN "deleted" ELSE invitations[i].status
    BY <1>1, <1>2 DEF NoInvitation
  <1> QED
    BY <1>2, <1>3, VoidStep

LEMMA LapsedStep ==
    ASSUME IInv, NEW i \in InvitationIds, Lapse(i)
    PROVE  Became' = Became
  <1>1. invitations \in [InvitationIds -> Invitation]
    BY DEF IInv, Rows, TypeOK
  <1>2. \A j \in InvitationIds : invitations'[j].status = invitations[j].status
    BY <1>1 DEF Lapse, Invitation
  <1> QED
    BY <1>2, SameStatus

LEMMA GrantsInit == Init => Grants!Init
  BY DEF Init, Grants!Init, NoInvitation

LEMMA GrantsStep ==
    ASSUME "revoke" \notin Requests
    PROVE  IInv /\ [Next]_vars => Grants!Next \/ Became' = Became
  <1> SUFFICES ASSUME IInv, [Next]_vars PROVE Grants!Next \/ Became' = Became
    OBVIOUS
  <1>1. CASE UNCHANGED invitations
    BY <1>1, SameStatus
  <1>2. CASE \E c \in Of("invite") : InvitationCreated(c)
    BY <1>2, IssueStep
  <1>3. CASE \E c \in Of("accept") : InvitationAccepted(c)
    BY <1>3, UseStep
  <1>4. CASE \E i \in InvitationIds : RejectInvitation(i)
    BY <1>4, RefusedStep
  <1>5. CASE \E i \in InvitationIds : Lapse(i)
    BY <1>5, LapsedStep
  <1>6. CASE ExpireInvitations
    BY <1>6, ExpiredStep
  <1>7. CASE \E c \in Of("saveProject") : ProjectSaved(c)
    BY <1>7, MovedStep
  <1>8. CASE \E c \in Of("deleteProject") : ProjectDeleted(c)
    BY <1>8, OrphanedStep
  <1>9. ~ \E c \in Of("revoke") : InvitationRevoked(c)
    BY HeldAreInvitations DEF Of, CallOK
  <1>10. ASSUME InvitationStep PROVE Grants!Next \/ Became' = Became
    BY <1>10, <1>1, <1>2, <1>3, <1>4, <1>5, <1>6, <1>9
    DEF InvitationStep, Invite, AcceptInvitation, RevokeInvitation
  <1>11. ASSUME MemberStep PROVE UNCHANGED invitations
    BY <1>11 DEF MemberStep, RequestToJoin, Decide, RemoveMember, ChangeRole,
                 Decided, JoinerAdmitted, MemberRemoved, RoleChanged
  <1>12. ASSUME ProjectStep PROVE Grants!Next \/ Became' = Became
    <2>1. ASSUME NEW p \in Projects, NEW w \in Workspaces, NEW owner \in Users,
                 NEW listed \in BOOLEAN, NEW given \in SUBSET Users,
                 NEW kept \in SUBSET Users, NEW restricted \in Visibilities,
                 UpdateProject(p, w, owner, listed, given, kept, restricted)
          PROVE  UNCHANGED invitations
      BY <2>1 DEF UpdateProject
    <2>2. ASSUME NEW p \in Projects, NEW w \in Workspaces, NEW owner \in Users,
                 NEW S \in SUBSET Users, NEW restricted \in Visibilities,
                 CreateProject(p, w, owner, S, restricted)
          PROVE  UNCHANGED invitations
      BY <2>2 DEF CreateProject
    <2>3. ASSUME NEW p \in Projects, NEW u \in Users,
                 DeleteProject(p) \/ AssignTask(p, u) \/ UnassignTask(p, u)
          PROVE  UNCHANGED invitations
      BY <2>3 DEF DeleteProject, AssignTask, UnassignTask
    <2>4. ASSUME NEW p \in Projects, DeleteProject(p) PROVE UNCHANGED invitations
      BY <2>4 DEF DeleteProject
    <2> QED
      BY <1>12, <1>1, <1>7, <1>8, <2>1, <2>2, <2>3, <2>4 DEF ProjectStep
  <1> QED
    BY <1>1, <1>10, <1>11, <1>12 DEF Next, Abandon, vars

\* However the handlers overlap and die, an invitation is used at most once and
\* is void for good once it is refused, expired, or deleted with its project
\* (services.py:1650) -- as long as nobody revokes: InvitationViewSet.destroy
\* writes without the lock the others take.
THEOREM UsedOnce ==
    ASSUME "revoke" \notin Requests
    PROVE  Spec => InvitationsAreUsedOnce
  <1>1. IInv /\ [Next]_vars => [Grants!Next]_Became
    BY GrantsStep
  <1> QED
    BY IInvInit, IInvStep, GrantsInit, <1>1, PTL
    DEF Spec, InvitationsAreUsedOnce, Grants!Spec, Became
================================================================================
