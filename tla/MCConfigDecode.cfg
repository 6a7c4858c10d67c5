CONSTANTS
    Texts <- MCTexts
    AsInt <- MCAsInt
    AsBool <- MCAsBool
    MinInt <- MCMinInt
    MaxInt = 100000
    NoTag = NoTag
    NoValue = NoValue
    Structs <- MCStructs
    Documents <- MCDocuments
SPECIFICATION Spec
CHECK_DEADLOCK FALSE
INVARIANTS
    SchemaDecides
    ConditionsReadDelivered
    DeliveredIsChecked
    SecretsNeverShown
