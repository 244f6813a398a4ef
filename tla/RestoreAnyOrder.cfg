CHECK_DEADLOCK FALSE
SPECIFICATION Spec
CONSTANTS
    NoName = NoName
    Names = {a, b}
    MaxEntries = 4
SYMMETRY NameSymmetry
INVARIANTS
    RecordsWhole
    MetaIsNext
PROPERTIES
    ReadsSeries
