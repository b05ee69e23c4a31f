SPECIFICATION Spec
CONSTANTS
    CompileTop <- compile_top
    CompileEval <- compile_eval
    Startup <- MCStartup
    Cells <- MCCells
    Quoted <- MCQuoted
    Files <- MCFiles
    Ports <- MCPorts
    Program <- MCProgram
    Mode = "repl"
    RandomFuel = 8
INVARIANTS
    Answers
    RaiseNeverReturns
    ScratchIsTransient
PROPERTIES
    HandlerScope
