SPECIFICATION Spec
CONSTANTS
    CompileTop <- compile_top
    CompileEval <- compile_eval
    Startup <- MCStartup
    Cells <- MCCells
    Quoted <- MCQuoted
    Files <- MCFiles
    Ports <- MCPorts
    Program <- ClosedOutput
    Mode = "repl"
    RandomFuel = 3
INVARIANT
    NeverCrashes
