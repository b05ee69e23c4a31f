SPECIFICATION MCSpec
CONSTANTS
    Names = {"if", "car", "a", "m"}
    Special = {"if"}
    Builtin = {"if", "car"}
    Form <- MCForm
    Typed <- MCTyped
    Disks <- MCDisks
    Chars <- MCChars
    Texts <- MCTexts
    Parts = {"prompt", "tables"}
INVARIANTS
    TableRestored
    NoSilentLoss
    PromptAgreesWithReader
    PromptIsLikeLoad
    ReadTakesOneDatum
PROPERTIES
    ReportFrozen
    FirstBindingWins
    PromptEnds
    PromptComes
CHECK_DEADLOCK FALSE
