SPECIFICATION Spec
CONSTANTS
    tab1 = tab1
    tab2 = tab2
    claim = claim
    sync = sync
    move = move
    Clients = {tab1, tab2}
    Services = {}
    Arrangers = {}
    Mirrorings = {sync}
    Nobody = Nobody
    NoCopy = NoCopy
    MaxChanges = 4
    MaxPlaces = 1
PROPERTIES
    NoUnnoticedOverwrite
