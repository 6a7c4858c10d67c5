\* Every struct against every source, for the default of a missing field.
SPECIFICATION Spec

CONSTANTS
    Structs <- MCStructs
    Sources <- MCSources
    Resolution <- MCResolution
    Half <- MCHalf
    Float32 <- MCFloat32
    Limit <- MCLimit

INVARIANT
    MissingTakesDefault

\* The call returns.
CHECK_DEADLOCK FALSE
