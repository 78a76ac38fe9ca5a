SPECIFICATION Spec
CONSTANTS
    ann = ann
    bob = bob
    tab1 = tab1
    tab2 = tab2
    tab3 = tab3
    Users = {ann, bob}
    Connections = {tab1, tab2, tab3}
    Tasks = {}
    Actions = {"high_five"}
    None = None
    PresenceTtl = 1
    CoopTimeout = 2
    Capacity = 1
    Refill = 1
    MaxTime = 3
    MaxMessages = 3
    MaxCalls = 2
SYMMETRY Symmetry
INVARIANTS
    SnapshotsAreRecent
    GesturesAreMutual
    MessagesAreLimited
CHECK_DEADLOCK FALSE
