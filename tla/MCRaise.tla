------------------------------ MODULE MCRaise -------------------------------
(***************************************************************************)
(* Exceptions: every way to raise (raise, raise-continuable, error, a      *)
(* failing primitive, a failing compilation under eval) to guards and      *)
(* handlers that take it, pass it on, raise again, return or jump, and the *)
(* re-entry of a body whose handler was gone. A program writes the token   *)
(* d<n> where n handlers are to be installed.                              *)
(***************************************************************************)
EXTENDS SECD, Lib14

Coin        == Call("eq?", <<Call("random", <<Lit("2")>>), Lit("0")>>)
Flip(a, b)  == If(Coin, a, b)
Deep(d)     == Show1(d)
Caught(x)   == Begin(<<Deep("d0"), Lit(x)>>)
Handle(h, body) == Call("with-exception-handler", <<h, Thunk(body)>>)
Raise(x)    == Call("raise", <<Lit(x)>>)
RaiseContinuable(x) == Call("raise-continuable", <<Lit(x)>>)
EvalBad     == Call("eval", <<Lit("bad"), Run(V("interaction-environment"))>>)

Forms ==
    << DefVar("k1", Lit("#f")),
       \* every raise through a dynamic-wind frame, and one that returns
       Guard("e", << Lst(<<Lit("#t"), Caught("caught")>>) >>,
             << Call("dynamic-wind",
                  << Thunk(<<Deep("d1")>>),
                     Thunk(<< Deep("d1"),
                              Flip(Flip(Raise("a"), Call("car", <<Lit("()")>>)),
                                   Flip(EvalBad, Flip(Call("error", <<Lit("e")>>), RaiseContinuable("b")))) >>),
                     Thunk(<<Lit("after")>>) >>) >>),
       \* no clause of the inner guard matches; the inner handler passes on
       Guard("e", << Lst(<<Call("eq?", <<V("e"), Lit("a")>>), Caught("outer")>>) >>,
             << Guard("e", << Lst(<<Lit("#f"), Lit("inner")>>) >>,
                      << Handle(Fn(<<"x">>, <<Deep("d2"), Flip(Raise("a"), RaiseContinuable("a"))>>),
                                << Deep("d3"), Flip(Raise("b"), Call("cdr", <<Lit("()")>>)) >>) >>) >>),
       \* handlers that return: raise-continuable goes on, raise does not
       Guard("e", << Lst(<<V("else"), Caught("returned")>>) >>,
             << Handle(Fn(<<"x">>, <<Deep("d1"), Lit("u")>>),
                       << LetCC("k", <<SetVar("k1", V("k"))>>),
                          Deep("d2"),
                          RaiseContinuable("a"),
                          Deep("d2"),
                          Flip(Flip(Raise("a"), Call("car", <<Lit("()")>>)), Lit("through")) >>) >>),
       \* back into that body, from outside and from under another handler
       Flip(Call("k1", <<>>), Handle(Fn(<<"x">>, <<Deep("d0"), Call("k1", <<V("x")>>)>>), << Raise("c") >>)) >>

MCStartup == StartupWith({"k1"})
MCCells   == CellNames({"k1"})
MCQuoted  == [x \in {"bad"} |-> Lst(<<Sym("if")>>)]
MCFiles   == [x \in {} |-> 0]
MCPorts   == {"stdout"}
MCProgram == Inputs(Forms)

Depth == [d0 |-> 0, d1 |-> 1, d2 |-> 2, d3 |-> 3]

\* Wherever the program writes d<n>, n handlers are installed: a handler
\* runs with the outer ones, a body with its own, and each keeps to that
\* after any raise, return or jump (lib14.scm 527-568, the guard macro
\* 573-594 and abandon_to_raise).
HandlerScope ==
    [][out' # out => Len(Elems(handler)) = Depth[Last(out'["stdout"])]]_vars

\* What each form may answer. In particular no error reaches the session,
\* no form answers twice, and a clause's value is the value of its guard.
Answers ==
    /\ \A i \in DOMAIN results :
          /\ results[i].kind = "value"
          /\ results[i].what \in << {"k1"}, {"caught"}, {"outer"}, {"returned", "through"},
                                    {"returned", "through"} >>[i]
    /\ status = "idle" => Len(results) = input + form - 2
=============================================================================
