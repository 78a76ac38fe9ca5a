SPECIFICATION Spec
CONSTANTS
    r1 = r1
    r2 = r2
    ColumnIds = {0, 1, 2, 3}
    Tasks = {1, 2, 3}
    Handled = {1}
    Requests = {r1, r2}
    None = None
    FirstColumns = 2
    MaxVersion = 1
    MaxChanges = 1
    MaxMoves = 1
SYMMETRY Symmetry
INVARIANTS
    ColumnsAreInOrder
PROPERTIES
    ReorderIsWhatWasSeen
    MovedTasksFollow
CHECK_DEADLOCK FALSE
