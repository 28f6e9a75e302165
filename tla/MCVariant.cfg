SPECIFICATION OrderSpec
CONSTANTS
    Vars = {x, y}
    Refs = {null, r1, r2, r3, r4, r5}
    NullRef = null
    Top = top
    Scalars <- ScalarsDef
    MaxSize = 2
    Stock <- StockDef
    Precision = 2
    Inf = 1000
    NaN = 1001
CHECK_DEADLOCK FALSE
INVARIANTS
    OrderIsStrictWeak
PROPERTIES
    OthersKeepTheirValue
