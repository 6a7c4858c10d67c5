\* Every struct against every source, for templates that are left.
SPECIFICATION Spec

CONSTANTS
    Structs <- MCStructs
    Sources <- MCSources
    Resolution <- MCResolution
    Half <- MCHalf
    Float32 <- MCFloat32
    Limit <- MCLimit

INVARIANT
    AllFieldsResolved

\* The call returns.
CHECK_DEADLOCK FALSE
