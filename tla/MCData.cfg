SPECIFICATION MCSpec
CONSTANTS
    Half = 8
    FixMax = 3
    Arguments <- MCArguments
    Key <- MCKey
    Value = {"v", "false"}
    Modulus = 3
    StringHash <- MCStringHash
    Text <- MCFile
    Typed <- MCTyped
    Limit = 2
    Numbers = 4
    Strings = 1
    Data = {"d", "false"}
    Comparators = {"number", "string", "mixed", "caller"}
    MaxNodes = 6
    Pairs = {"p", "q", "r"}
    Vectors = {"v"}
    Atoms = {"a"}
    Changes = 4
    Symbols <- MCSymbols
    Templates <- MCTemplates
    Bound <- MCBound
    MaxLevels = 6
INVARIANTS
    ComputesRight
    IntegersDivide
    TreeStaysValid
    WellFiled
    MarksJustCycles
    EqualIsSame
    ListIsFinite
    TemplateIsFilled
    TextInOrder
    OpensIfItCan
PROPERTIES
    ImplementsOrderedMap
    ImplementsDictionary
CHECK_DEADLOCK FALSE
