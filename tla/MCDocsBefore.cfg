SPECIFICATION Spec
CONSTANTS
    CompileTop <- compile_top
    CompileEval <- compile_eval
    Startup <- MCStartup
    Cells <- MCCells
    Quoted <- MCQuoted
    Files <- MCFiles
    Ports <- MCPorts
    Program <- EscapingBefore
    Mode = "repl"
    RandomFuel = 3
INVARIANT
    NoAfterWithoutBefore
