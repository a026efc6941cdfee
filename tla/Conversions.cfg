SPECIFICATION Spec
CONSTANTS
    Keys <- MetadataKeys
    ForeignKeys <- OthersKeys
    Values = {"", "text"}
    MaxHops = 3
    Amounts <- BoundaryAmounts
    Characters = {"a", "-", "d"}
    DlqSuffix <- ShortSuffix
    FifoLength = 3
    NameLimit = 6
    AttributeTexts = {"", "x", "y"}
INVARIANTS
    MessageSurvives
    ForeignArrives
    AcceptedIsUsable
    ChoicesAreKept
    DlqIsUsable
    AskedIsSent
