------------------------------- MODULE MCDocs -------------------------------
(***************************************************************************)
(* Five statements of the comments and of the manual that the code does    *)
(* not keep, each with a program that tells.                               *)
(***************************************************************************)
EXTENDS SECD, Lib14

Coin       == Call("eq?", <<Call("random", <<Lit("2")>>), Lit("0")>>)
Flip(a, b) == If(Coin, a, b)

MCNames   == {"k0", "k1", "again"}
MCStartup == StartupWith(MCNames)
MCCells   == CellNames(MCNames)
MCQuoted  == [x \in {"bad"} |-> Lst(<<Sym("let")>>)]
MCFiles   == [x \in {} |-> 0]
MCPorts   == {"stdout", "f"}

\* A handler that jumps back into the body it handles errors of.
BackToBody ==
    Inputs(<< DefVar("k1", Lit("#f")),
              Call("with-exception-handler",
                   << Fn(<<"x">>, <<Call("k1", <<V("x")>>)>>),
                      Thunk(<< LetCC("k", <<SetVar("k1", V("k"))>>),
                               Show1("d1"),
                               Flip(Call("raise", <<Lit("a")>>), Lit("done")) >>) >>) >>)

\* lib14.scm 528: dynamic-wind switches the box of handlers, so that a
\* continuation need not hold it. Where the body writes d1, its own handler
\* is to be installed, whichever way the body was come by.
BodyHasItsHandler ==
    [][out' # out => Len(Elems(handler)) = 1]_vars

\* A before thunk that escapes when its extent is entered again.
EscapingBefore ==
    Inputs(<< DefVar("again", Lit("#f")), DefVar("k0", Lit("#f")), DefVar("k1", Lit("#f")),
              LetCC("k", <<SetVar("k0", V("k"))>>),
              Call("dynamic-wind",
                   << Thunk(<<When(V("again"), Call("k0", <<>>)), Show1("+")>>),
                      Thunk(<<LetCC("k", <<SetVar("k1", V("k"))>>), Show1("in")>>),
                      Thunk(<<Show1("-")>>) >>),
              SetVar("again", Coin),
              Call("k1", <<>>) >>)

\* lib14.scm 427: before is called before the frame is pushed, so that after
\* is not called when before itself escapes. Each - answers a + of its own.
NoAfterWithoutBefore ==
    \A i \in DOMAIN out["stdout"] :
        out["stdout"][i] = "-" => i > 1 /\ out["stdout"][i - 1] # "-"

\* A jump out of two extents, the inner of which may exit from its after.
ExitInAfter ==
    Inputs(<< LetCC("k", <<
                 Call("dynamic-wind",
                   << Thunk(<<Show1("+")>>),
                      Thunk(<< Call("dynamic-wind",
                                 << Thunk(<<Show1("+")>>),
                                    Thunk(<<Flip(Call("k", <<>>), Call("exit", <<>>))>>),
                                    Thunk(<<Show1("-"), When(Coin, Call("exit", <<>>))>>) >>) >>),
                      Thunk(<<Show1("-")>>) >>) >>) >>)

\* scheme14 manual, 10: exit runs the after thunks of the extents
\* it leaves before it ends the process. As many - as + by then.
ExitRunsAfters ==
    LET Written(x) == Cardinality({i \in DOMAIN out["stdout"] : out["stdout"][i] = x})
    IN (status = "exit" /\ results # <<>> /\ Last(results).kind = "exit") => Written("+") = Written("-")

\* A program that closes the port its output is redirected to.
ClosedOutput ==
    Inputs(<< Call("with-output-to-file",
                   << Lit("f"), Thunk(<< Show1("x"),
                                         When(Coin, Call("close-output-port", <<Run(V("current-output-port"))>>)),
                                         Show1("y") >>) >>) >>)

\* scheme14.cpp 4094: port_of turns closed ports away.
NeverCrashes == status # "crash"

\* A guard around an eval whose expression does not compile.
EvalSyntax ==
    Inputs(<< Call("guard", << Lst(<<V("e"), Lst(<<V("else"), Lit("caught")>>)>>),
                               Flip(Call("eval", <<Lit("bad"), Run(V("interaction-environment"))>>), Lit("done")) >>) >>)

\* scheme14 manual, 5.1: the failed compilation of what eval is given does
\* not reach a handler.
SyntaxErrorsAreNotCaught ==
    \A i \in DOMAIN results : results[i].what # "caught"
=============================================================================
