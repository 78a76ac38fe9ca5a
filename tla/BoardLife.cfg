SPECIFICATION Spec
CONSTANTS
    ann = ann
    bob = bob
    shop = shop
    x1 = x1
    Users = {ann, bob}
    Projects = {shop}
    TaskIds = {1, 2, 3}
    SubIds = {x1}
    None = None
    Requests = {"create", "move", "complete", "recur", "createSubtask",
                "updateSubtask", "destroySubtask", "archive"}
    MaxOriginals = 2
    MaxClaims = 1
SYMMETRY Symmetry
VIEW View
INVARIANTS
    TypeOK
    SubtaskMirrorIsUnique
PROPERTIES
    
    CompletionReachesSource
