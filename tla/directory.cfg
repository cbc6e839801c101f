SPECIFICATION Spec
CONSTANTS
    p1 = p1
    p2 = p2
    d1 = d1
    NoRow = NoRow
    Closed = Closed
    Areas = {1, 2}
    Seeded = {1}
    Stores = {1, 2}
    Opened = {1}
    Addresses = {d1}
    Covers <- OneAddress
    Pages = {p1, p2}
    MaxWrites = 2
    MaxEdits = 2
    MaxLoads = 1
    MaxMoves = 1
SYMMETRY Symmetry
CHECK_DEADLOCK FALSE
INVARIANTS TypeOK ResolvedHasServed
PROPERTIES UntouchedStays DeletedForGood
