\* Every struct against every source.
SPECIFICATION Spec

CONSTANTS
    Structs <- MCStructs
    Sources <- MCSources
    Resolution <- MCResolution
    Half <- MCHalf
    Float32 <- MCFloat32
    Limit <- MCLimit

INVARIANTS
    DefaultsAsReported
    EnteredIsAccepted
    NoTemplateLeft
    NeverPanics
    AccessorsAgree

\* The call returns.
CHECK_DEADLOCK FALSE
