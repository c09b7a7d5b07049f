CONSTANTS
    UINT16 = 8
    AttrHandles <- MCHandles
    MaxAttributes = 4
SPECIFICATION GattFairSpec
INVARIANTS
    GattTypeOK
    HandleIsFound
    ReadByTypeInOrder
    BufferHasOneOwner
PROPERTIES
    RequestEnds
CHECK_DEADLOCK FALSE
