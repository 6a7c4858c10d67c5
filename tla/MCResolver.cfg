\* ResolveString and EvaluateCondition between changes of variables and steps.
SPECIFICATION FairSpec

CONSTANTS
    Configs <- MCConfigs
    Values <- MCValues
    Templates <- MCTemplates
    Names <- MCNames
    Settable <- MCSettable
    Outputs <- MCOutputs
    KeyOrder <- MCKeyOrder
    MaxLength <- MaxLengthMC

INVARIANTS
    ResolvesOnce
    ComparesOperands

PROPERTIES
    EachTurnUsesUp
    EndsUnlessFed

\* A text that feeds itself grows to the bound.
CHECK_DEADLOCK FALSE
