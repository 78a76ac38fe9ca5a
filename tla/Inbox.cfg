SPECIFICATION Spec
CONSTANTS
    ann = ann
    bob = bob
    gus = gus
    r1 = r1
    r2 = r2
    Users = {ann, bob, gus}
    Guests = {gus}
    Projects = {{ann, gus}, {ann, bob}}
    Requests = {r1, r2}
    None = None
    Named = {{bob}, {gus}}
    MaxMessages = 3
    MaxVersion = 2
SYMMETRY Symmetry
INVARIANTS
    GuestsShareAProject
    NothingIsSkipped
CHECK_DEADLOCK FALSE
