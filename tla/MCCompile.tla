----------------------------- MODULE MCCompile ------------------------------
(***************************************************************************)
(* The compiler and the machine together: a loop that calls itself through *)
(* every construct that keeps tail position, and expressions whose value   *)
(* depends on scope, assignment, evaluation order and the expanders.       *)
(***************************************************************************)
EXTENDS CodeCheck, Lib14

Coin      == Call("eq?", <<Call("random", <<Lit("2")>>), Lit("0")>>)
Clause(e) == Lst(<<Coin, e>>)
List2(a, b) == Call("list", <<a, b>>)
Again     == Run(V("loop"))

\* A loop whose every way round is a tail call.
Loop ==
    DefVar("loop",
      Thunk(<< Lst(<< Sym("cond"),
        Clause(Let("y", Lit("a"), <<Lst(<<Sym("and"), V("y"), Again>>)>>)),
        Clause(Begin(<<Lit("b"), Apply2(V("loop"), Lit("()"))>>)),
        Clause(LetCC("k", <<Lst(<<Sym("or"), Lit("#f"), Again>>)>>)),
        Clause(Call("eval", <<Lit("loop"), Run(V("interaction-environment"))>>)),
        Clause(Lst(<<Sym("let*"), Lst(<<Lst(<<V("p"), Lit("c")>>), Lst(<<V("q"), V("p")>>)>>), Again>>)),
        Clause(Lst(<<Sym("case"), Lit("c"), Lst(<<Lst(<<Lit("b"), Lit("c")>>), Again>>)>>)),
        Clause(Lst(<<Sym("do"), Lst(<<Lst(<<V("i"), Lit("#f"), Lit("#t")>>)>>), Lst(<<V("i"), Again>>)>>)),
        Lst(<<V("else"), Lit("done")>>) >>) >>))

\* (define (f a . r)), internal defines that see one another, set! of a
\* captured variable, shadowing, named let, cond with =>, or of a variable.
Expressions ==
    << Lst(<<FnRest("r", <<Call("set!", <<V("x"), V("r")>>), Call("car", <<V("x")>>)>>), Lit("3"), Lit("4")>>),
       Lst(<<Thunk(<< DefVar("even", Fn(<<"l">>, <<If(Call("null?", <<V("l")>>), Lit("even"),
                                                      Call("odd", <<Call("cdr", <<V("l")>>)>>))>>)),
                      DefVar("odd", Fn(<<"l">>, <<If(Call("null?", <<V("l")>>), Lit("odd"),
                                                     Call("even", <<Call("cdr", <<V("l")>>)>>))>>)),
                      Call("even", <<List2(Lit("1"), Lit("2"))>>) >>)>>),
       Let("x", Lit("a"), << Let("set", Fn(<<"y">>, <<SetVar("x", V("y"))>>),
                                 << Let("x", Lit("b"), <<Call("set", <<V("x")>>)>>), V("x") >>) >>),
       Let("t", Lit("mine"), << Lst(<<Sym("or"), Lit("#f"), V("t")>>) >>),
       Lst(<<Sym("let"), V("walk"), Lst(<<Lst(<<V("l"), List2(Lit("5"), Lit("6"))>>), Lst(<<V("r"), Lit("0")>>)>>),
             If(Call("null?", <<V("l")>>), V("r"),
                Call("walk", <<Call("cdr", <<V("l")>>), Call("car", <<V("l")>>)>>))>>),
       Lst(<<Sym("cond"), Lst(<<Lit("#f"), Lit("no")>>), Lst(<<List2(Lit("7"), Lit("8")), V("=>"), V("car")>>)>>),
       Call("car", <<Lst(<<Sym("apply"), V("list"), Lit("9"), Call("list", <<Lit("10")>>)>>)>>),
       Lst(<<Sym("call-with-values"), Thunk(<<Call("values", <<Lit("11"), Lit("12")>>)>>),
             Fn(<<"a", "b">>, <<V("b")>>)>>),
       Lst(<<Sym("and"), Lit("13"), Lst(<<Sym("and")>>), Lst(<<Sym("or"), Lit("#f"), Lit("14")>>)>>),
       Lst(<<Sym("case"), Lit("c"), Lst(<<Lst(<<Lit("a"), Lit("b")>>), Lit("no")>>),
             Lst(<<Lst(<<Lit("c"), Lit("d")>>), Lit("unseen"), Lit("15")>>), Lst(<<V("else"), Lit("no")>>)>>),
       Lst(<<Sym("do"), Lst(<< Lst(<<V("l"), Lst(<<Sym("quote"), Lst(<<Lit("5"), Lit("16")>>)>>),
                                      Call("cdr", <<V("l")>>)>>),
                               Lst(<<V("r"), Lit("0"), Call("car", <<V("l")>>)>>), Lst(<<V("k"), Lit("17")>>) >>),
             Lst(<<Call("null?", <<V("l")>>), Call("set!", <<V("x"), V("k")>>), V("r")>>)>>) >>

MCStartup == StartupWith({"loop", "x"})
MCCells   == CellNames({"loop", "x"})
MCQuoted  == [x \in {"loop"} |-> Again]
MCFiles   == [x \in {} |-> 0]
MCPorts   == {"stdout"}
MCProgram == <<<<Loop>>, <<Again>>, Expressions>>

\* A tail call drops its procedure's operands and saves nothing, so a loop
\* takes no more room for going round more often (TAPP, TAPPLY, TCALLCC and
\* SELR, vm_enter_eval; the syntax and, or, cond, let and begin keep tail
\* position).
TailSpace == input = 2 => Len(stack) <= 3 /\ Len(dump) <= 1 /\ Len(env) <= 3

\* What each form answers.
Answers ==
    /\ \A i \in DOMAIN results :
          results[i] = Result("value", << "loop", "done", "3", "even", "b", "mine", "6", "7", "9", "12", "14", "15", "16" >>[i])
    /\ status = "exit" => Len(results) = 13
=============================================================================
