----------------------------- MODULE MCSession ------------------------------
(***************************************************************************)
(* What a session shares between its machines: output redirected to a file *)
(* and left by return, error and continuation, and entered again once the  *)
(* file is closed; files loaded inside files, failing half-way, jumping to *)
(* a continuation of the machine outside, or not even readable; and eval   *)
(* of a list that holds a continuation.                                    *)
(***************************************************************************)
EXTENDS CodeCheck, Lib14

Coin        == Call("eq?", <<Call("random", <<Lit("2")>>), Lit("0")>>)
Flip(a, b)  == If(Coin, a, b)
CatchAll(answer, e) == Guard("e", << Lst(<<V("else"), Show1("s"), Lit(answer)>>) >>, <<e>>)
LoadFile(f) == Call("load", <<Lit(f)>>)

Redirected ==
    Call("with-output-to-file",
         << Lit("f"), Thunk(<< Show1("f"),
                               LetCC("k", <<SetVar("k1", V("k"))>>),
                               Show1("f"),
                               Call("call-with-output-file",
                                    << Lit("g"), Fn(<<"p">>, <<Call("display", <<Lit("g"), V("p")>>), Show1("f")>>) >>),
                               Flip(Call("car", <<Lit("()")>>), Lit("x")) >>) >>)

Inputs1 ==
    << << DefVar("k1", Lit("#f")), DefVar("k2", Lit("#f")) >>,
       << CatchAll("caught", Redirected) >>,
       << CatchAll("again", Flip(Call("k1", <<>>),
                                 Call("with-output-to-file", <<Lit("no such directory"), V("k1")>>))) >>,
       << CatchAll("failed", LoadFile("outer")) >>,
       << LetCC("k", << SetVar("k2", V("k")), Lit("captured") >>) >>,
       << LoadFile("jump") >>,
       << CatchAll("caught", LoadFile("unreadable")), Lit("not reached") >>,
       << LetCC("k", << Call("eval", <<Call("list", <<V("k"), Lit("nine")>>), Run(V("interaction-environment"))>>) >>) >> >>

MCStartup == StartupWith({"k1", "k2"})
MCCells   == CellNames({"k1", "k2"})
MCQuoted  == [x \in {"nine"} |-> Lit("9")]
MCFiles   ==
    [outer      |-> [forms |-> <<Show1("before"), LoadFile("inner"), Show1("behind")>>, broken |-> FALSE],
     inner      |-> [forms |-> <<Show1("inner"), Flip(Call("cdr", <<Lit("()")>>), Lst(<<Sym("if")>>)), Lit("i")>>,
                     broken |-> FALSE],
     jump       |-> [forms |-> <<Call("k2", <<Lit("jumped")>>), Show1("landed")>>, broken |-> FALSE],
     unreadable |-> [forms |-> <<>>, broken |-> TRUE]]
MCPorts   == {"stdout", "f", "g"}
MCProgram == Inputs1

\* What the program writes while output is redirected to f, or to the port
\* of g, and nothing else, lands there: a redirection ends with its extent
\* and starts again with it (lib14.scm 467-495, %set-current-output-port!).
PortScope ==
    /\ \A p \in {"f", "g"} : \A i \in DOMAIN out[p] : out[p][i] = p
    /\ \A i \in DOMAIN out["stdout"] : out["stdout"][i] \notin {"f", "g"}

\* What each form may answer, one answer each; the input whose file cannot
\* be read stops at its first form although a guard is around it (read
\* errors are not catchable), and only there.
Answers ==
    /\ \A i \in DOMAIN results :
          /\ (results[i].kind = "error") = (i = 8)
          /\ results[i].what \in << {"k1"}, {"k2"}, {"x", "caught"}, {"x", "caught", "again"},
                                    {"failed"}, {"captured"}, {"landed"}, {"read error"}, {"9"} >>[i]
    /\ status = "idle" => Len(results) = (IF input > 1 THEN input ELSE 0) + form - 1

\* A load goes no further than the form that failed, however deep.
LoadStopsAtError ==
    \A i \in DOMAIN out["stdout"] : out["stdout"][i] # "behind"
=============================================================================
