SPECIFICATION Spec
CONSTANTS
    ann = ann
    bob = bob
    cid = cid
    team = team
    club = club
    p1 = p1
    p2 = p2
    i1 = i1
    i2 = i2
    i3 = i3
    Users = {ann, bob}
    Workspaces = {team}
    Projects = {p1}
    InvitationIds = {i1, i2}
    WorkspaceOwner <- OwnedByAnn
    None = None
    Visibilities = {TRUE}
    Requests = {"inviteTeam", "inviteProject", "accept", "reject", "lapse", "join", "remove", "role", "createProject", "deleteProject"}
    MaxCalls = 2
SYMMETRY Symmetry
INVARIANTS
    TypeOK
    OwnerStaysMember
PROPERTIES
    InvitationsAreUsedOnce
