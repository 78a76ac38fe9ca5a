SPECIFICATION FairSpec
CONSTANTS
    tab1 = tab1
    tab2 = tab2
    claim = claim
    sync = sync
    move = move
    Clients = {tab1, tab2}
    Services = {claim}
    Arrangers = {move}
    Mirrorings = {}
    Nobody = Nobody
    NoCopy = NoCopy
    MaxChanges = 4
    MaxPlaces = 2
INVARIANTS
    TypeOK
    VersionIdentifiesContent
    LockedRowIsCurrent
PROPERTIES
    NoUnnoticedOverwrite
    EveryRequestEnds
    KeepsPromise
