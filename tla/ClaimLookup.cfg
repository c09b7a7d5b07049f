CONSTANTS
    UINT16 = 8
    AttrHandles <- MCHandles
    MaxAttributes = 4
SPECIFICATION GattSpec
INVARIANT
    IndexIsValidOrInvalid
CHECK_DEADLOCK FALSE
