CONSTANTS
    TagOrder <- MCTagOrder
    LokHeader = "hdr"
    FT = "FT"
    Values <- MCValues
    FieldInputs <- MCFieldInputs
    InitFieldLists <- MCInitFieldLists
    Others <- MCOthers
    DropSets <- MCDropPairs
    MaxFields = 4
    MaxRaw = 10
    Width = 8
SPECIFICATION Spec
PROPERTY
    AbstractSpec
