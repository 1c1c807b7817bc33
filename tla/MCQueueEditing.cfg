CONSTANTS
    Window = 3
    End = 2
    MaxSerial = 5
    Batch = 2
SPECIFICATION Spec
INVARIANTS
    TypeOK
    NoItemHeardTwice
    ShuffleSkipsNothing
PROPERTIES
    EditsKeepTheItem
    RadioAdvanceIsContiguous
