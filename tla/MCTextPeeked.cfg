SPECIFICATION MCSpec
CONSTANTS
    Names = {"if", "car", "a", "m"}
    Special = {"if"}
    Builtin = {"if", "car"}
    Form <- MCForm
    Typed <- MCTyped
    Disks <- MCDisks
    Chars <- MCChars
    Texts <- MCTexts
    Parts = {"prompt"}
INVARIANTS
    PeekedCharIsNext
CHECK_DEADLOCK FALSE
