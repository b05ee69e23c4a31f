SPECIFICATION Spec
CONSTANTS
    CompileTop <- compile_top
    CompileEval <- compile_eval
    Startup <- MCStartup
    Cells <- MCCells
    Quoted <- MCQuoted
    Files <- MCFiles
    Ports <- MCPorts
    Program <- MCProgram
    Mode = "repl"
    RandomFuel = 6
INVARIANTS
    TypeOK
    WindTree
    JumpsAreShortest
    NoInternalError
    FloorsInOrder
    ExitLeavesAll
PROPERTIES
    ImplementsExtents
    Terminates
