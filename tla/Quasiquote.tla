----------------------------- MODULE Quasiquote -----------------------------
(***************************************************************************)
(* The expansion of quasiquote (scheme14.cpp, section 7): a template       *)
(* becomes an expression of quote, cons, append and list->vector around    *)
(* the expressions unquoted in it, quasiquotes within quasiquotes counted. *)
(* Data are symbols, pairs, () and vectors; ",@" is read as splice.        *)
(***************************************************************************)
EXTENDS Integers, Sequences

CONSTANTS
    Symbols,            \* names, and whatever else is no pair or vector
    Templates,          \* what is expanded
    Bound,              \* what the variables of a template are bound to
    MaxLevels           \* bound: how deep a template is, and what Bound gives

VARIABLES
    template,
    expansion           \* what it has become, or Unexpanded
templateVars == <<template, expansion>>

Sym(x)     == <<"symbol", x>>
Empty      == <<"()">>
Pair(a, d) == <<"pair", a, d>>
Vec(l)     == <<"vector", l>>           \* by the list of its elements

\* The terms of up to n levels, out of leaves and tags of two or one term.
Terms(leaves, twos, ones) ==
    LET of[n \in Nat] ==
            leaves \cup (IF n = 0 THEN {}
                        ELSE LET sub == of[n - 1] IN (twos \X sub \X sub) \cup (ones \X sub))
    IN of

DataOf   == Terms({Sym(s) : s \in Symbols} \cup {Empty}, {"pair"}, {"vector"})
Template == DataOf[MaxLevels]

IsPair(x) == x[1] = "pair"
IsVec(x)  == x[1] = "vector"

\* (quasiquote x), (unquote x) and (splice x), in any place of a list. Other
\* numbers of arguments are an error.
Kinds      == {"quasiquote", "unquote", "splice"}
IsForm(x)  == IsPair(x) /\ x[2] \in {Sym(k) : k \in Kinds}
Kind(x)    == x[2][2]
TakesOne(x) == IsPair(x[3]) /\ x[3][3] = Empty
Arg(x)     == x[3][2]

ASSUME TemplatesAssumption ==
    /\ MaxLevels \in Nat /\ Templates \subseteq Template
    /\ DOMAIN Bound \subseteq Symbols /\ \A s \in DOMAIN Bound : Bound[s] \in Template

-----------------------------------------------------------------------------
(* Expressions. Bad is where the expander throws.                          *)

Quote(x)     == <<"quote", x>>
Code(x)      == <<"code", x>>
CallCons(a, d)   == <<"cons", a, d>>
CallAppend(x, d) == <<"append", Code(x), d>>
CallToVector(l)  == <<"list->vector", l>>
Bad          == <<"bad">>

ExpressionsOf == Terms(({"quote", "code"} \X Template) \cup {Bad}, {"cons", "append"}, {"list->vector"})
Expression    == ExpressionsOf[MaxLevels]

qq_wrap(k, e) == CallCons(Quote(Sym(k)), CallCons(e, Quote(Empty)))

\* Depth 1 is outside; a quasiquote within adds one, the others take one off.
Depths == Nat \ {0}

\* How deep the argument of a form is.
\* Mutant: an unquote within a quasiquote leaves the depth as it is.
InnerSame(x, depth) == IF Kind(x) = "quasiquote" THEN depth + 1 ELSE depth
Inner(x, depth)     == IF Kind(x) = "quasiquote" THEN depth + 1 ELSE depth - 1

Unquotes(x, depth) == Kind(x) # "quasiquote" /\ depth = 1
Splices(x, depth)  == IsForm(x) /\ Kind(x) = "splice" /\ depth = 1

\* A form becomes what it unquotes, or a list of its name and its argument's
\* expansion e.
qq_form_code(x, depth, e) == IF Unquotes(x, depth) THEN Code(Arg(x)) ELSE qq_wrap(Kind(x), e)

\* Of a list, only an element that is a pair is looked into.
qq_transfer[x \in Template] == [depth \in Depths |->
    IF IsVec(x) THEN CallToVector(qq_transfer[x[2]][depth])
    ELSE IF ~IsPair(x) THEN Quote(x)
    ELSE IF IsForm(x)
    THEN IF ~TakesOne(x) \/ Splices(x, depth) THEN Bad
         ELSE qq_form_code(x, depth, qq_transfer[Arg(x)][Inner(x, depth)])
    ELSE LET a    == x[2]
             rest == qq_transfer[x[3]][depth]
         IN IF ~IsPair(a) THEN CallCons(Quote(a), rest)
            ELSE IF ~IsForm(a) THEN CallCons(qq_transfer[a][depth], rest)
            ELSE IF ~TakesOne(a) THEN Bad
            ELSE IF Splices(a, depth) THEN CallAppend(Arg(a), rest)
            ELSE CallCons(qq_form_code(a, depth, qq_transfer[Arg(a)][Inner(a, depth)]), rest)]

Unexpanded == <<"unexpanded">>

TemplateInit == template \in Templates /\ expansion = Unexpanded

expand_quasiquote ==
    /\ expansion = Unexpanded
    /\ expansion' = qq_transfer[template][1]
    /\ UNCHANGED template

TemplateSpec == TemplateInit /\ [][expand_quasiquote]_templateVars

-----------------------------------------------------------------------------
(* What an expansion evaluates to, Failure standing for every error.         *)

Failure == <<"wrong">>

Meaning(x) == IF x[1] = "symbol" /\ x[2] \in DOMAIN Bound THEN Bound[x[2]] ELSE Failure

\* No list is longer than what filling in can make.
Longest == (MaxLevels + 1) * (MaxLevels + 1)
Tails(l) == LET after[n \in Nat] == IF n = 0 THEN l
                                   ELSE LET t == after[n - 1] IN IF IsPair(t) THEN t[3] ELSE t
            IN after
IsList(l) == Tails(l)[Longest] = Empty

Consed(a, d) == IF a = Failure \/ d = Failure THEN Failure ELSE Pair(a, d)
Vectored(l)  == IF l # Failure /\ IsList(l) THEN Vec(l) ELSE Failure

Joined(d) ==
    LET join[l \in Template] ==
            IF IsPair(l) THEN Consed(l[2], join[l[3]]) ELSE IF l = Empty THEN d ELSE Failure
    IN join
Spliced(l, d) == IF l = Failure THEN Failure ELSE Joined(d)[l]

ValueOf[e \in Expression] ==
    IF e[1] = "quote" THEN e[2]
    ELSE IF e[1] = "code"   THEN Meaning(e[2])
    ELSE IF e[1] = "cons"   THEN Consed(ValueOf[e[2]], ValueOf[e[3]])
    ELSE IF e[1] = "append" THEN Spliced(Meaning(e[2][2]), ValueOf[e[3]])
    ELSE IF e[1] = "list->vector" THEN Vectored(ValueOf[e[2]])
    ELSE Failure

-----------------------------------------------------------------------------
(* Properties.                                                             *)

Holding(k, v) == Consed(Sym(k), Consed(v, Empty))

\* What dev_memo.md 4.8 says a template stands for, d levels deep.
Filled[x \in Template] == [d \in Depths |->
    IF IsForm(x)
    THEN IF ~TakesOne(x) THEN Failure
         ELSE IF Kind(x) = "quasiquote" THEN Holding(Kind(x), Filled[Arg(x)][d + 1])
         ELSE IF d > 1 THEN Holding(Kind(x), Filled[Arg(x)][d - 1])
         ELSE IF Kind(x) = "unquote" THEN Meaning(Arg(x))
         ELSE Failure
    ELSE IF IsPair(x)
    THEN IF Splices(x[2], d) /\ TakesOne(x[2]) THEN Spliced(Meaning(Arg(x[2])), Filled[x[3]][d])
         ELSE Consed(Filled[x[2]][d], Filled[x[3]][d])
    ELSE IF IsVec(x) THEN Vectored(Filled[x[2]][d])
    ELSE x]

VectorsOutside[x \in Template] ==      \* no vector is an element of a list or vector
    /\ IsPair(x) => ~IsVec(x[2]) /\ VectorsOutside[x[2]] /\ VectorsOutside[x[3]]
    /\ IsVec(x)  => VectorsOutside[x[2]]

\* An expansion evaluates to the template with its holes filled: commas count
\* against the backquotes around them in lists, dotted tails and vectors, a
\* splice joins only at depth one, and what is no template is an error. Where
\* a vector is an element, qq_transfer quotes it as it is.
TemplateIsFilled ==
    (expansion # Unexpanded /\ VectorsOutside[template]) => ValueOf[expansion] = Filled[template][1]
=============================================================================
