SPECIFICATION Spec
CONSTANTS
    Bases = {"A", "B"}
    MAX_NUMERIC_TAIL = 2
    long = long
    longer = longer
    mixed = mixed
    padded = padded
    LongNames <- MCLongNames
    BaseOf <- MCBaseOf
    Parts <- MCParts
    CaseNames = {mixed}
    PaddedNames = {padded}
    Unpadded <- MCUnpadded
    CallNames <- MCCallNames
    CheckSum <- MCCheckSum
    Files = {f1, f2, f3}
    SlotsPerCluster = 2
    MaxSpare = 2
    Garbage = Garbage
INVARIANTS TypeOK NamesAreUnambiguous RefusedOnlyWithoutRoom RemovalsSucceed ListedExactlyOnce
PROPERTY ImplementsNameTable
SYMMETRY MCFileSymmetry
