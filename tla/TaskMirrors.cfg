SPECIFICATION Spec
CONSTANTS
    ann = ann
    bob = bob
    shop = shop
    x1 = x1
    Users = {ann, bob}
    Projects = {shop}
    TaskIds = {1, 2, 3}
    SubIds = {}
    None = None
    Requests = {"create", "update", "claim", "complete", "move", "destroy"}
    MaxOriginals = 1
    MaxClaims = 1
SYMMETRY Symmetry
VIEW View
INVARIANTS
    PersonalBoardIsOwn
    PoolTaskIsClaimable
    MirrorFollowsAssignment
PROPERTIES
    AssigneeSeesTask
