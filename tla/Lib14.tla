-------------------------------- MODULE Lib14 --------------------------------
(***************************************************************************)
(* The control procedures of the startup library (lib14.scm), as the       *)
(* expressions the compiler of module Compiler translates, and the linker  *)
(* that lays out the code of a session on top of them.                     *)
(***************************************************************************)
EXTENDS Compiler, FiniteSets

V(x)           == Sym(x)
Call(f, args)  == Lst(<<Sym(f)>> \o args)
Run(e)         == Lst(<<e>>)               \* (e): a call without arguments
Fn(ps, body)   == Lambda(Lst([i \in DOMAIN ps |-> Sym(ps[i])]), body)
FnRest(r, body) == Lambda(Sym(r), body)
Thunk(body)    == Fn(<<>>, body)
Let(x, e, body) == LetForm(<<Lst(<<Sym(x), e>>)>>, body)
If(a, b, d)    == IfForm(a, b, d)
When(a, b)     == Lst(<<Sym("if"), a, b>>)
Begin(es)      == Lst(<<Sym("begin")>> \o es)
SetVar(x, e)   == Lst(<<Sym("set!"), Sym(x), e>>)
DefVar(x, e)   == Lst(<<Sym("define"), Sym(x), e>>)
LetCC(k, body) == Lst(<<Sym("call/cc"), Fn(<<k>>, body)>>)
Apply2(f, l)   == Lst(<<Sym("apply"), f, l>>)
Guard(x, clauses, body) == Lst(<<Sym("guard"), Lst(<<Sym(x)>> \o clauses)>> \o body)
Show1(x)       == Call("display", <<Lit(x)>>)

-----------------------------------------------------------------------------

lib_call_with_values ==
    Fn(<<"producer", "consumer">>,
       <<Apply2(V("consumer"), Call("%values->list", <<Run(V("producer"))>>))>>)

\* The frame is pushed after before has run and popped before after runs.
lib_dynamic_wind ==
    Fn(<<"before", "thunk", "after">>,
       << Run(V("before")),
          Call("%wind-push", <<V("before"), V("after")>>),
          Let("result", Run(V("thunk")),
              << Call("%wind-pop", <<>>), Run(V("after")), V("result") >>) >>)

lib_call_with_output_file ==
    Fn(<<"path", "proc">>,
       << Let("port", Call("open-output-file", <<V("path")>>),
              << Let("result", Call("proc", <<V("port")>>),
                     << Call("close-output-port", <<V("port")>>), V("result") >>) >>) >>)

lib_with_output_to_file ==
    Fn(<<"path", "thunk">>,
       << LetForm(<<Lst(<<V("port"), Call("open-output-file", <<V("path")>>)>>), Lst(<<V("saved"), Lit("#f")>>)>>,
            << Let("result",
                   Call("dynamic-wind",
                     << Thunk(<<SetVar("saved", Call("%set-current-output-port!", <<V("port")>>))>>),
                        V("thunk"),
                        Thunk(<<Call("%set-current-output-port!", <<V("saved")>>)>>) >>),
                   << Call("close-output-port", <<V("port")>>), V("result") >>) >>) >>)

\* Mutant: only the innermost after is called.
lib_exit_Innermost ==
    FnRest("args",
      << Let("after", Call("%wind-top-after", <<>>),
             << When(V("after"), Begin(<<Call("%wind-pop", <<>>), Run(V("after"))>>)) >>),
         Call("%exit", <<If(Call("null?", <<V("args")>>), Lit("0"), Call("car", <<V("args")>>))>>) >>)

\* Each frame is popped before its after is called.
lib_exit ==
    FnRest("args",
      << Lst(<<Sym("let"), Sym("loop"), Lst(<<>>),
               Let("after", Call("%wind-top-after", <<>>),
                   << When(V("after"),
                           Begin(<<Call("%wind-pop", <<>>), Run(V("after")), Run(V("loop"))>>)) >>)>>),
         Call("%exit", <<If(Call("null?", <<V("args")>>), Lit("0"), Call("car", <<V("args")>>))>>) >>)

\* Mutant: the handlers from before are not put back.
lib_with_exception_handler_NoAfter ==
    LET check(x) == When(Call("not", <<Call("procedure?", <<V(x)>>)>>),
                         Call("error", <<Lit("wrong type of argument"), V(x)>>))
    IN Fn(<<"handler", "thunk">>,
          << check("handler"), check("thunk"),
             Let("outer", Call("%current-exception-handler", <<>>),
                 << Call("dynamic-wind",
                      << Thunk(<<Call("%set-exception-handler!", <<Call("cons", <<V("handler"), V("outer")>>)>>)>>),
                         V("thunk"),
                         Thunk(<<Lit("#f")>>) >>) >>) >>)

lib_with_exception_handler ==
    LET check(x) == When(Call("not", <<Call("procedure?", <<V(x)>>)>>),
                         Call("error", <<Lit("wrong type of argument"), V(x)>>))
    IN Fn(<<"handler", "thunk">>,
          << check("handler"), check("thunk"),
             Let("outer", Call("%current-exception-handler", <<>>),
                 << Call("dynamic-wind",
                      << Thunk(<<Call("%set-exception-handler!", <<Call("cons", <<V("handler"), V("outer")>>)>>)>>),
                         V("thunk"),
                         Thunk(<<Call("%set-exception-handler!", <<V("outer")>>)>>) >>) >>) >>)

\* Mutant: the handler runs with itself installed.
lib_raise_SameHandler ==
    Fn(<<"obj">>,
       << Let("cell", Call("%current-exception-handler", <<>>),
           << If(Call("not", <<V("cell")>>),
                 Call("%abort-exception", <<V("obj")>>),
                 Begin(<< Lst(<<Call("car", <<V("cell")>>), V("obj")>>),
                          Call("raise", <<Call("%make-error-object",
                                               <<Lit("exception handler returned")>>)>>) >>)) >>) >>)

\* Mutant: returns what the handler returns.
lib_raise_Returns ==
    Fn(<<"obj">>,
       << Let("cell", Call("%current-exception-handler", <<>>),
           << If(Call("not", <<V("cell")>>),
                 Call("%abort-exception", <<V("obj")>>),
                 Begin(<< Call("%set-exception-handler!", <<Call("cdr", <<V("cell")>>)>>),
                          Lst(<<Call("car", <<V("cell")>>), V("obj")>>) >>)) >>) >>)

\* The handler runs with the outer ones installed; when it returns, that is
\* raised to them.
lib_raise ==
    Fn(<<"obj">>,
       << Let("cell", Call("%current-exception-handler", <<>>),
           << If(Call("not", <<V("cell")>>),
                 Call("%abort-exception", <<V("obj")>>),
                 Begin(<< Call("%set-exception-handler!", <<Call("cdr", <<V("cell")>>)>>),
                          Lst(<<Call("car", <<V("cell")>>), V("obj")>>),
                          Call("raise", <<Call("%make-error-object",
                                               <<Lit("exception handler returned")>>)>>) >>)) >>) >>)

lib_raise_continuable ==
    Fn(<<"obj">>,
       << Let("cell", Call("%current-exception-handler", <<>>),
           << If(Call("not", <<V("cell")>>),
                 Call("%abort-exception", <<V("obj")>>),
                 Call("call-with-values",
                   << Thunk(<< Call("%set-exception-handler!", <<Call("cdr", <<V("cell")>>)>>),
                               Lst(<<Call("car", <<V("cell")>>), V("obj")>>) >>),
                      FnRest("args", << Call("%set-exception-handler!", <<V("cell")>>),
                                        Apply2(V("values"), V("args")) >>) >>)) >>) >>)

LibDefs ==
    << DefVar("call-with-values", lib_call_with_values),
       DefVar("dynamic-wind", lib_dynamic_wind),
       DefVar("call-with-output-file", lib_call_with_output_file),
       DefVar("with-output-to-file", lib_with_output_to_file),
       DefVar("exit", lib_exit),
       DefVar("with-exception-handler", lib_with_exception_handler),
       DefVar("raise", lib_raise),
       DefVar("raise-continuable", lib_raise_continuable) >>

PrimNames ==
    {"car", "cdr", "cons", "list", "null?", "eq?", "memv", "not", "procedure?", "values", "%values->list",
     "%wind-push", "%wind-pop", "%wind-top-after", "%current-exception-handler",
     "%set-exception-handler!", "%make-error-object", "%abort-exception", "error", "random", "%exit",
     "display", "open-output-file", "close-output-port", "%set-current-output-port!",
     "current-output-port", "eval", "interaction-environment", "load"}

-----------------------------------------------------------------------------
(* The state load_startup_libraries leaves: the definitions above compiled *)
(* one after the other, each bound to a closure over no frame.             *)

\* The cells a session finds: the primitives, and whatever names it defines.
Unstarted(names) ==
    [code |-> <<>>, templates |-> <<>>,
     cells |-> [x \in names \cup PrimNames \cup {":undef"} |->
                  CASE x \in PrimNames -> [tag |-> "prim", prim |-> x]
                    [] x = ":undef" -> [tag |-> "const", name |-> x]
                    [] OTHER -> [tag |-> "unbound"]]]

LoadDef(s, def) ==
    LET r == compile_top(def, s.code, s.templates)
    IN [code |-> r.code, templates |-> r.templates,
        cells |-> (Items(def)[2][2] :> [tag |-> "closure", env |-> <<>>, tmpl |-> Len(r.templates)]) @@ s.cells]

StartupWith(names) == FoldLeft(LoadDef, Unstarted(names), LibDefs)

LibNames == {"call-with-values", "dynamic-wind", "call-with-output-file", "with-output-to-file", "exit",
             "with-exception-handler", "raise", "raise-continuable"}

CellNames(names) == names \cup PrimNames \cup {":undef"} \cup LibNames

\* One input for each form.
Inputs(forms) == [i \in DOMAIN forms |-> <<forms[i]>>]
=======
