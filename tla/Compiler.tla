------------------------------ MODULE Compiler ------------------------------
(***************************************************************************)
(* The compiler of scheme14 (scheme14.cpp, sections 7 and 9): expressions  *)
(* to the code and the lambda templates that module SECD runs.             *)
(*                                                                         *)
(* An expression is a symbol, a self-evaluating constant or a list; a list *)
(* holds its elements, so that (f x) is Lst(<<Sym("f"), Sym("x")>>).       *)
(* The compiler's output is threaded through as a record o:                *)
(*   code   the blocks of instructions allocated so far                    *)
(*   tmpl   the lambda templates                                           *)
(*   fresh  the counter of make_gensym                                     *)
(*   ok     FALSE once a syntax error was thrown                           *)
(*   top    whether the interaction environment is compiled for            *)
(***************************************************************************)
EXTENDS Integers, Sequences, SequencesExt

Sym(x)      == <<"sym", x>>
Lit(x)      == <<"lit", x>>
Lst(xs)     == <<"list", xs>>
Dotted(xs, r) == <<"dotted", xs, r>>     \* the parameter list (x ... . r)
Bad         == <<"bad">>                 \* where an expander throws

IsList(e) == e[1] = "list"
IsSym(e)  == e[1] = "sym"
IsSymNamed(e, x) == IsSym(e) /\ e[2] = x
Items(e)  == e[2]

\* The head symbol of a non-empty list, "" when there is none.
HeadName(e) == IF IsList(e) /\ Items(e) # <<>> /\ IsSym(Items(e)[1]) THEN Items(e)[1][2] ELSE ""

Lambda(params, body)  == Lst(<<Sym("lambda"), params>> \o body)
IfForm(test, yes, no) == Lst(<<Sym("if"), test, yes, no>>)
LetForm(bs, body)     == Lst(<<Sym("let"), Lst(bs)>> \o body)
Undef                 == Sym(":undef")

-----------------------------------------------------------------------------
(* The expanders rewrite one form; g is the gensym counter they may use.   *)

MakeBegin(forms) == CASE forms = <<>> -> Lit("()")
                      [] Len(forms) = 1 -> forms[1]
                      [] OTHER -> Lst(<<Sym("begin")>> \o forms)

Gensym(prefix, n) == Sym(prefix \o ToString(n))

\* check_bindings: each binding is (symbol expression).
GoodBindings(e) ==
    /\ IsList(e)
    /\ \A i \in DOMAIN Items(e) : LET b == Items(e)[i] IN
          IsList(b) /\ Len(Items(b)) = 2 /\ IsSym(Items(b)[1])

Names(bs) == [i \in DOMAIN bs |-> Items(bs[i])[1]]
Inits(bs) == [i \in DOMAIN bs |-> Items(bs[i])[2]]

expand_let(x) ==
    IF Len(x) < 2 THEN Bad
    ELSE IF IsSym(x[2])
    THEN IF Len(x) < 3 \/ ~GoodBindings(x[3]) THEN Bad
         ELSE LET bs == Items(x[3])
                  fn == Lambda(Lst(Names(bs)), SubSeq(x, 4, Len(x)))
              IN Lst(<<Sym("letrec"), Lst(<<Lst(<<x[2], fn>>)>>), Lst(<<x[2]>> \o Inits(bs))>>)
    ELSE IF ~GoodBindings(x[2]) THEN Bad
    ELSE LET bs == Items(x[2])
         IN Lst(<<Lambda(Lst(Names(bs)), SubSeq(x, 3, Len(x)))>> \o Inits(bs))

expand_let_star(x) ==
    IF Len(x) < 2 \/ ~GoodBindings(x[2]) THEN Bad
    ELSE LET bs   == Items(x[2])
             body == MakeBegin(SubSeq(x, 3, Len(x)))
         IN CASE bs = <<>> -> body
              [] Len(bs) = 1 -> LetForm(bs, <<body>>)
              [] OTHER -> LetForm(<<bs[1]>>, <<Lst(<<Sym("let*"), Lst(Tail(bs)), body>>)>>)

expand_letrec(x) ==
    IF Len(x) < 2 \/ ~GoodBindings(x[2]) THEN Bad
    ELSE LET bs   == Items(x[2])
             sets == [i \in DOMAIN bs |-> Lst(<<Sym("set!")>> \o Items(bs[i]))]
         IN LetForm([i \in DOMAIN bs |-> Lst(<<Names(bs)[i], Undef>>)],
                    <<MakeBegin(sets \o SubSeq(x, 3, Len(x)))>>)

expand_and(x) ==
    LET xs == Tail(x) IN
    IF xs = <<>> THEN Lit("#t")
    ELSE FoldRight(LAMBDA e, rest : IfForm(e, rest, Lit("#f")), Front(xs), Last(xs))

\* One temporary per operand but the last, numbered from the outside.
expand_or(x, g) ==
    LET xs == Tail(x)
        t(i) == Gensym("or", g + i)
        step(i, rest) == LetForm(<<Lst(<<t(i), xs[i]>>)>>, <<IfForm(t(i), t(i), rest)>>)
    IN IF xs = <<>> THEN Lit("#f")
       ELSE FoldRight(step, [i \in 1..Len(xs) - 1 |-> i], Last(xs))

\* A clause without a body, or with =>, holds its test in a temporary; what
\* follows an else clause is dropped.
expand_cond(x, g) ==
    LET isElse(cl)  == IsSymNamed(Items(cl)[1], "else")
        isArrow(cl) == ~isElse(cl) /\ Len(Items(cl)) > 1 /\ IsSymNamed(Items(cl)[2], "=>")
        good(cl)    == IsList(cl) /\ Items(cl) # <<>> /\ (isArrow(cl) => Len(Items(cl)) = 3)
        upto  == IF \E i \in 2..Len(x) : good(x[i]) /\ isElse(x[i])
                 THEN CHOOSE i \in 2..Len(x) : /\ good(x[i]) /\ isElse(x[i])
                                               /\ \A j \in 2..(i - 1) : ~isElse(x[j])
                 ELSE Len(x)
        held(cl) == ~isElse(cl) /\ (Len(Items(cl)) = 1 \/ isArrow(cl))
        temp(i)  == Gensym("cond", g + Cardinality({j \in 2..i : held(x[j])}))
        step(i, rest) ==
            LET cl == Items(x[i]) IN
            CASE isElse(x[i]) -> MakeBegin(Tail(cl))
              [] held(x[i]) -> LetForm(<<Lst(<<temp(i), cl[1]>>)>>,
                    <<IfForm(temp(i), IF isArrow(x[i]) THEN Lst(<<cl[3], temp(i)>>) ELSE temp(i), rest)>>)
              [] OTHER -> IfForm(cl[1], MakeBegin(Tail(cl)), rest)
    IN IF \E i \in 2..upto : ~good(x[i]) THEN Bad
       ELSE FoldRight(step, [i \in 1..upto - 1 |-> i + 1], Undef)

\* The key in a temporary, and a cond whose tests look for it.
expand_case(x, g) ==
    LET t == Gensym("case", g)
        good(cl) == IsList(cl) /\ Items(cl) # <<>>
        test(h)  == IF IsSymNamed(h, "else") THEN h
                    ELSE Lst(<<Sym("memv"), t, Lst(<<Sym("quote"), h>>)>>)
        clause(cl) == Lst(<<test(Items(cl)[1])>> \o Tail(Items(cl)))
    IN IF Len(x) < 2 \/ \E i \in 3..Len(x) : ~good(x[i]) THEN Bad
       ELSE LetForm(<<Lst(<<t, x[2]>>)>>,
                    <<Lst(<<Sym("cond")>> \o [i \in 1..Len(x) - 2 |-> clause(x[i + 2])])>>)

\* A loop procedure bound by letrec; a variable without a step keeps its value.
expand_do(x, g) ==
    LET loop  == Gensym("loop", g)
        good(s) == IsList(s) /\ Len(Items(s)) > 1 /\ IsSym(Items(s)[1])
        specs == Items(x[2])
        step(s) == IF Len(Items(s)) > 2 THEN Items(s)[3] ELSE Items(s)[1]
        again == Lst(<<loop>> \o [i \in DOMAIN specs |-> step(specs[i])])
        body  == IfForm(Items(x[3])[1], MakeBegin(Tail(Items(x[3]))),
                        MakeBegin(SubSeq(x, 4, Len(x)) \o <<again>>))
    IN IF Len(x) < 3 \/ ~IsList(x[2]) \/ ~IsList(x[3]) \/ Items(x[3]) = <<>>
          \/ \E i \in DOMAIN specs : ~good(specs[i])
       THEN Bad
       ELSE Lst(<<Sym("letrec"), Lst(<<Lst(<<loop, Lambda(Lst(Names(specs)), <<body>>)>>)>>),
                  Lst(<<loop>> \o Inits(specs))>>)

\* The macro guard of lib14.scm: call/cc around with-exception-handler, with
\* the clauses run by a thunk the continuation receives.
expand_guard(x, g) ==
    LET k     == Gensym("g", g + 1)
        var   == Items(x[2])[1]
        cls   == Tail(Items(x[2]))
        thunk(e) == Lambda(Lst(<<>>), <<e>>)
        again == Lst(<<Sym("else"), Lst(<<Sym("raise-continuable"), var>>)>>)
        pick  == LetForm(<<Lst(<<var, Sym("condition")>>)>>, <<Lst(<<Sym("cond")>> \o cls \o <<again>>)>>)
        body  == Lst(<<Sym("call-with-values"), Lambda(Lst(<<>>), SubSeq(x, 3, Len(x))),
                       Lambda(Sym("args"), <<Lst(<<k, thunk(
                           Lst(<<Sym("apply"), Sym("values"), Sym("args")>>))>>)>>)>>)
    IN IF Len(x) < 3 \/ ~IsList(x[2]) \/ Items(x[2]) = <<>> \/ ~IsSym(var) THEN Bad
       ELSE Lst(<<Lst(<<Sym("call/cc"), Lambda(Lst(<<k>>),
               <<Lst(<<Sym("with-exception-handler"),
                       Lambda(Lst(<<Sym("condition")>>), <<Lst(<<k, thunk(pick)>>)>>),
                       thunk(body)>>)>>)>>)>>)

\* scan_out_defines: the defines that open a lambda body become a letrec.
IsDefine(e) == HeadName(e) = "define"

scan_out_defines(body) ==
    LET n == Len(SelectSeq(body, IsDefine))
        lead == IF \A i \in DOMAIN body : IsDefine(body[i]) THEN Len(body)
                ELSE (CHOOSE i \in DOMAIN body : ~IsDefine(body[i]) /\ \A j \in 1..(i - 1) : IsDefine(body[j])) - 1
        binding(d) == IF IsSym(d[2]) THEN Lst(<<d[2], d[3]>>)
                      ELSE Lst(<<Items(d[2])[1], Lambda(Lst(Tail(Items(d[2]))), SubSeq(d, 3, Len(d)))>>)
        bs   == [i \in 1..lead |-> binding(Items(body[i]))]
        rest == SubSeq(body, lead + 1, Len(body))
    IN IF n = 0 \/ lead = 0 THEN body
       ELSE <<Lst(<<Sym("letrec"), Lst(bs)>> \o (IF rest = <<>> THEN <<Undef>> ELSE rest))>>

Rewritten == {"let", "let*", "letrec", "and", "or", "cond", "case", "do", "guard"}

\* expand_form_1, and macro_expand_1_expr for guard.
expand_form_1(e, g) ==
    LET x == Items(e) IN
    CASE HeadName(e) = "let" -> expand_let(x)
      [] HeadName(e) = "let*" -> expand_let_star(x)
      [] HeadName(e) = "letrec" -> expand_letrec(x)
      [] HeadName(e) = "and" -> expand_and(x)
      [] HeadName(e) = "or" -> expand_or(x, g)
      [] HeadName(e) = "cond" -> expand_cond(x, g)
      [] HeadName(e) = "case" -> expand_case(x, g)
      [] HeadName(e) = "do" -> expand_do(x, g)
      [] HeadName(e) = "guard" -> expand_guard(x, g)

-----------------------------------------------------------------------------
(* The code generator.                                                     *)

emit(o, b, ins)  == [o EXCEPT !.code[b] = Append(@, ins)]
NewBlock(o)      == [o EXCEPT !.code = Append(@, <<>>)]
SyntaxError(o)   == [o EXCEPT !.ok = FALSE]
LastIsLDF(o, b)  == o.code[b] # <<>> /\ Last(o.code[b]).op = "LDF"
Constant(x)      == [op |-> "LDC", val |-> [tag |-> "const", name |-> x]]
Quotation(e)     ==
    CASE ~IsList(e) -> Constant(e[2])
      [] IsList(e) /\ Items(e) = <<>> -> Constant("()")
      [] OTHER -> [op |-> "LDC", val |-> [tag |-> "literal",
                      elems |-> [i \in DOMAIN Items(e) |-> Constant(Items(e)[i][2]).val]]]
Simple(op)       == [op |-> op]

\* Mutant: a frame too far out.
location_of_OneUp(x, env) ==
    LET i == CHOOSE i \in DOMAIN env : \E j \in DOMAIN env[i] : env[i][j] = x
    IN [depth |-> i, index |-> CHOOSE j \in DOMAIN env[i] : env[i][j] = x]

\* Mutant: the outermost frame that binds the name.
location_of_Outermost(x, env) ==
    LET i == CHOOSE i \in DOMAIN env : /\ \E j \in DOMAIN env[i] : env[i][j] = x
                                       /\ \A h \in i + 1..Len(env) : \A j \in DOMAIN env[h] : env[h][j] # x
    IN [depth |-> i - 1, index |-> CHOOSE j \in DOMAIN env[i] : env[i][j] = x]

\* location_of: the innermost frame that binds the name, and its place there.
Bound(x, env) == \E i \in DOMAIN env : \E j \in DOMAIN env[i] : env[i][j] = x
location_of(x, env) ==
    LET i == CHOOSE i \in DOMAIN env : /\ \E j \in DOMAIN env[i] : env[i][j] = x
                                       /\ \A h \in 1..(i - 1) : \A j \in DOMAIN env[h] : env[h][j] # x
    IN [depth |-> i - 1,
        index |-> CHOOSE j \in DOMAIN env[i] : env[i][j] = x /\ \A h \in 1..(j - 1) : env[i][h] # x]

\* extract_params: the fixed parameters and the rest parameter, if any.
GoodParams(p) == CASE p[1] = "sym" -> TRUE
                   [] p[1] = "lit" -> FALSE
                   [] OTHER -> \A i \in DOMAIN p[2] : IsSym(p[2][i])
Fixed(p)  == IF p[1] = "sym" THEN <<>> ELSE [i \in DOMAIN p[2] |-> p[2][i][2]]
RestOf(p) == CASE p[1] = "sym" -> <<p[2]>> [] p[1] = "dotted" -> <<p[3][2]>> [] OTHER -> <<>>

(* comp, comp_body and the operand loop call one another, so that they are *)
(* one recursive function: C[<<what, env, o, b, tail>>] compiles what into *)
(* block b of o. What is an expression, or the expressions of a body or of *)
(* an operand list under the tags "body" and "args". The operators below   *)
(* are its cases and receive the function.                                 *)

BodyOf(es) == <<"body", es>>
ArgsOf(es) == <<"args", es>>

\* The closure at the end of block b is only for the call that follows.
MarkLDF(o, b) == IF LastIsLDF(o, b) THEN [o EXCEPT !.code[b][Len(o.code[b])].scratch = TRUE] ELSE o

\* Mutant: closures passed as arguments are marked too.
comp_args_Marked(C, es, env, o, b) ==
    IF es = <<>> THEN o
    ELSE C[<<ArgsOf(Tail(es)), env, MarkLDF(C[<<Head(es), env, o, b, FALSE>>], b), b, FALSE>>]

comp_args(C, es, env, o, b) ==
    IF es = <<>> THEN o
    ELSE C[<<ArgsOf(Tail(es)), env, C[<<Head(es), env, o, b, FALSE>>], b, FALSE>>]

\* The forms of a body in order, the value of all but the last dropped.
comp_body(C, es, env, o, b, tail) ==
    CASE es = <<>> -> emit(o, b, Constant("()"))
      [] Len(es) = 1 -> C[<<es[1], env, o, b, tail>>]
      [] OTHER -> C[<<BodyOf(Tail(es)), env,
                      emit(C[<<es[1], env, o, b, FALSE>>], b, Simple("POP")), b, tail>>]

\* The lambda's body and template, and its LDF at the end of block b.
compile_lambda(C, p, body, env, o, b) ==
    LET inner == Len(o.code) + 1
        o1 == C[<<BodyOf(scan_out_defines(body)), <<Fixed(p) \o RestOf(p)>> \o env, NewBlock(o), inner, TRUE>>]
        t  == [params |-> Len(Fixed(p)), rest |-> RestOf(p) # <<>>, body |-> inner]
        o2 == [emit(o1, inner, Simple("RTN")) EXCEPT !.tmpl = Append(@, t)]
    IN IF ~GoodParams(p) THEN SyntaxError(o)
       ELSE emit(o2, b, [op |-> "LDF", tmpl |-> Len(o2.tmpl), scratch |-> FALSE])

comp_if(C, x, env, o, b, tail) ==
    LET o1   == C[<<x[2], env, o, b, FALSE>>]
        yes  == Len(o1.code) + 1
        no   == yes + 1
        last == Simple(IF tail THEN "RTN" ELSE "JOIN")
        o2   == C[<<x[3], env, NewBlock(NewBlock(o1)), yes, tail>>]
        o3   == C[<<IF Len(x) = 4 THEN x[4] ELSE Lit("()"), env, o2, no, tail>>]
    IN IF Len(x) \notin 3..4 THEN SyntaxError(o)
       ELSE emit(emit(emit(o3, yes, last), no, last), b,
                 [op |-> IF tail THEN "SELR" ELSE "SEL", onTrue |-> yes, onFalse |-> no])

\* A definition reaches here only when scan_out_defines left it alone.
comp_define(C, x, env, o, b) ==
    LET named == IsSym(x[2])
        name  == IF named THEN x[2][2] ELSE Items(x[2])[1][2]
        o1    == IF named THEN C[<<x[3], env, o, b, FALSE>>]
                 ELSE compile_lambda(C, Lst(Tail(Items(x[2]))), SubSeq(x, 3, Len(x)), env, o, b)
    IN IF ~o.top \/ Len(x) < 2 \/ (named /\ Len(x) # 3) THEN SyntaxError(o)
       ELSE emit(o1, b, [op |-> "DEF", cell |-> name])

comp_set(C, x, env, o, b) ==
    LET o1 == C[<<x[3], env, o, b, FALSE>>]
        at == location_of(x[2][2], env)
    IN IF Len(x) # 3 \/ ~IsSym(x[2]) THEN SyntaxError(o)
       ELSE IF Bound(x[2][2], env)
       THEN emit(o1, b, [op |-> "LSET", depth |-> at.depth, index |-> at.index])
       ELSE IF ~o.top THEN SyntaxError(o1)
       ELSE emit(o1, b, [op |-> "GSET", cell |-> x[2][2]])

comp_callcc(C, x, env, o, b, tail) ==
    IF Len(x) # 2 THEN SyntaxError(o)
    ELSE emit(C[<<x[2], env, o, b, FALSE>>], b, Simple(IF tail THEN "TCALLCC" ELSE "CALLCC"))

\* (apply f a ... lst): the arguments are packed into one list first.
comp_apply(C, x, env, o, b, tail) ==
    LET o1 == C[<<ArgsOf(SubSeq(x, 3, Len(x))), env, o, b, FALSE>>]
        o2 == C[<<x[2], env, emit(o1, b, [op |-> "ARGS_AP", n |-> Len(x) - 2]), b, FALSE>>]
    IN IF Len(x) < 3 THEN SyntaxError(o)
       ELSE emit(o2, b, Simple(IF tail THEN "TAPPLY" ELSE "APPLY"))

\* The operands, then the operator. A closure made for this call alone is
\* marked: it lives in the VM's scratch.
comp_call(C, x, env, o, b, tail) ==
    LET o1 == C[<<x[1], env, C[<<ArgsOf(Tail(x)), env, o, b, FALSE>>], b, FALSE>>]
    IN emit(MarkLDF(o1, b), b, [op |-> IF tail THEN "TAPP" ELSE "APP", n |-> Len(x) - 1])

comp_variable(name, env, o, b) ==
    emit(o, b, IF Bound(name, env)
               THEN LET at == location_of(name, env)
                    IN [op |-> "LD", depth |-> at.depth, index |-> at.index]
               ELSE [op |-> "LDG", cell |-> name])

comp[a \in Any] ==
    LET e == a[1]   env == a[2]   o == a[3]   b == a[4]   tail == a[5]
        h == HeadName(e)
        x == Items(e)
    IN CASE ~o.ok -> o
         [] e[1] = "bad" -> SyntaxError(o)
         [] e[1] = "body" -> comp_body(comp, x, env, o, b, tail)
         [] e[1] = "args" -> comp_args(comp, x, env, o, b)
         [] e[1] = "lit" -> emit(o, b, Constant(x))
         [] e[1] = "value" -> emit(o, b, [op |-> "LDC", val |-> x])
         [] IsSym(e) -> comp_variable(x, env, o, b)
         [] h = "quote" -> IF Len(x) = 2 THEN emit(o, b, Quotation(x[2])) ELSE SyntaxError(o)
         [] h \in Rewritten ->
              comp[<<expand_form_1(e, o.fresh), env, [o EXCEPT !.fresh = @ + Len(x)], b, tail>>]
         [] h = "if" -> comp_if(comp, x, env, o, b, tail)
         [] h = "begin" -> comp_body(comp, Tail(x), env, o, b, tail)
         [] h = "lambda" -> IF Len(x) < 2 THEN SyntaxError(o)
                            ELSE compile_lambda(comp, x[2], SubSeq(x, 3, Len(x)), env, o, b)
         [] h = "define" -> comp_define(comp, x, env, o, b)
         [] h = "set!" -> comp_set(comp, x, env, o, b)
         [] h = "call/cc" -> comp_callcc(comp, x, env, o, b, tail)
         [] h = "apply" -> comp_apply(comp, x, env, o, b, tail)
         [] OTHER -> comp_call(comp, x, env, o, b, tail)

-----------------------------------------------------------------------------
(* compile_top ends in STOP and compile_eval, in tail position, in RTN.    *)
(* Both add to the code and templates so far and answer the number of the  *)
(* new code, 0 after a syntax error.                                       *)

compile_with(e, code, templates, tail, end) ==
    LET b == Len(code) + 1
        o == [code |-> Append(code, <<>>), tmpl |-> templates, fresh |-> 0, ok |-> TRUE, top |-> TRUE]
        r == emit(comp[<<e, <<>>, o, b, tail>>], b, Simple(end))
    IN IF r.ok THEN [code |-> r.code, templates |-> r.tmpl, id |-> b]
               ELSE [code |-> code, templates |-> templates, id |-> 0]

compile_top(e, code, templates)  == compile_with(e, code, templates, FALSE, "STOP")
compile_eval(e, code, templates) == compile_with(e, code, templates, TRUE, "RTN")
=======
