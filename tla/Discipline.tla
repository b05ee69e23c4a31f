----------------------------- MODULE Discipline ------------------------------
(***************************************************************************)
(* What the machine of module SECD takes for granted of the code it runs.  *)
(* run checks little: it counts operands, frames, slots and dump entries,  *)
(* and reports an internal error where one is missing; RTN cuts the stack  *)
(* at base unseen. That none of this goes wrong rests on how the compiler  *)
(* (scheme14.cpp, section 9) and the two places of the machine that make   *)
(* code, abandon_to_raise and build_rewind_code, lay blocks out. The       *)
(* discipline is stated here for a block, for blocks that refer to one     *)
(* another, and for what the compiler and the startup library promise.     *)
(***************************************************************************)
EXTENDS SECD

-----------------------------------------------------------------------------
(* One block.                                                              *)

\* The operands an instruction takes off the stack, and the values it has
\* left there when the next one runs. JOIN goes on with the value of its
\* block on top. What leaves a block for good gives nothing.
Takes(i) == IF i.op = "JOIN" THEN 1 ELSE Needs(i)
Gives(i) == IF i.op \in {"LD", "LDC", "LDG", "LDF", "APP", "APPLY", "CALLCC", "ARGS_AP", "SEL", "DEF", "LSET", "GSET"}
            THEN 1 ELSE 0

\* depth[p] operands of block b are on the stack after p instructions.
Counts(b, depth) ==
    /\ depth[0] = 0
    /\ \A p \in 1..Len(b) : /\ depth[p - 1] >= Takes(b[p])
                            /\ depth[p] = depth[p - 1] - Takes(b[p]) + Gives(b[p])
Balanced(b) == \E depth \in [0..Len(b) -> Nat] : Counts(b, depth)

Ends(b, op) == Len(b) > 0 /\ b[Len(b)].op = op

\* The end of rewind code: the continuation is called, and does not return.
EndsInJump(b) ==
    /\ Len(b) > 1 /\ b[Len(b)] = APP(1)
    /\ b[Len(b) - 1].op = "LDC" /\ b[Len(b) - 1].val.tag = "cont"

\* Blocks that RTN ends are procedure bodies: only they leave for good what
\* called them. JOIN ends a branch, STOP what the session or a load runs.
Leaving      == {"RTN", "SELR"} \cup TailCalls
IsScratch(i) == i.op = "LDF" /\ i.scratch

Shaped(b) ==
    /\ Ends(b, "RTN") \/ Ends(b, "JOIN") \/ Ends(b, "STOP") \/ EndsInJump(b)
    /\ \A p \in 1..Len(b) :
          /\ b[p].op \in Leaving => Ends(b, "RTN")
          /\ b[p].op = "JOIN" => Ends(b, "JOIN")
          /\ b[p].op \in {"APP", "TAPP"} => b[p].n \in Nat
          /\ b[p].op = "ARGS_AP" => b[p].n \in Nat \ {0}
          /\ IsScratch(b[p]) => p < Len(b) /\ b[p + 1].op \in {"APP", "TAPP"}

-----------------------------------------------------------------------------
(* Blocks and templates that refer to one another: cd is code, ts the      *)
(* templates.                                                              *)

Procedure(cd, ts, k) ==
    /\ k \in DOMAIN ts
    /\ ts[k].params \in Nat /\ ts[k].rest \in BOOLEAN
    /\ ts[k].body \in DOMAIN cd /\ Ends(cd[ts[k].body], "RTN")

Linked(cd, ts, n) ==
    \A p \in 1..Len(cd[n]) : LET i == cd[n][p] IN
        /\ i.op = "SEL"  => \A m \in {i.onTrue, i.onFalse} : m \in DOMAIN cd /\ Ends(cd[m], "JOIN")
        /\ i.op = "SELR" => \A m \in {i.onTrue, i.onFalse} : m \in DOMAIN cd /\ Ends(cd[m], "RTN")
        /\ i.op = "LDF"  => Procedure(cd, ts, i.tmpl)
        /\ i.op \in {"LDG", "DEF", "GSET"} => i.cell \in Cells

\* The scope of a block is the number of slots of each frame around it,
\* innermost first; scope gives some blocks theirs, with all that these
\* blocks lead to.
Width(t) == IF t.rest THEN t.params + 1 ELSE t.params

InScope(i, n, ts, scope) ==
    /\ i.op \in {"LD", "LSET"} =>
          i.depth \in Nat /\ i.depth < Len(scope[n]) /\ i.index \in 1..scope[n][i.depth + 1]
    /\ i.op \in {"SEL", "SELR"} => \A m \in {i.onTrue, i.onFalse} : m \in DOMAIN scope /\ scope[m] = scope[n]
    /\ i.op = "LDF" => LET t == ts[i.tmpl] IN
                       t.body \in DOMAIN scope /\ scope[t.body] = <<Width(t)>> \o scope[n]

Scoped(cd, ts, scope) == \A n \in DOMAIN scope : \A p \in 1..Len(cd[n]) : InScope(cd[n][p], n, ts, scope)

RunsIn(cd, ts, n, sh) ==
    \E S \in SUBSET DOMAIN cd : \E scope \in [S -> Seq(Nat)] :
        n \in S /\ scope[n] = sh /\ Scoped(cd, ts, scope)

-----------------------------------------------------------------------------
(* What is promised of code that is made.                                  *)

\* A constant, or a quoted list of some.
Data(v) == \/ v.tag = "const"
           \/ /\ v.tag = "literal" /\ IsSequence(v.elems) /\ Len(v.elems) > 0
              /\ \A i \in 1..Len(v.elems) : v.elems[i].tag = "const"

\* Block n is well made; what it loads as a constant is data, or given.
WellMade(cd, ts, n, given) ==
    /\ IsSequence(cd[n]) /\ Balanced(cd[n]) /\ Shaped(cd[n]) /\ Linked(cd, ts, n)
    /\ \A p \in 1..Len(cd[n]) : cd[n][p].op = "LDC" => Data(cd[n][p].val) \/ cd[n][p].val \in given

Extends(t, s) == IsSequence(t) /\ Len(s) <= Len(t) /\ \A i \in 1..Len(s) : t[i] = s[i]

\* The compiler's result r for the code and templates so far: nothing, or
\* more code, with a block to start with that needs no frame.
Adds(r, cd, ts, end, given) ==
    \/ r.id = 0 /\ r.code = cd /\ r.templates = ts
    \/ /\ Extends(r.code, cd) /\ Extends(r.templates, ts)
       /\ \A n \in Len(cd) + 1..Len(r.code) : WellMade(r.code, r.templates, n, given)
       /\ r.id \in Len(cd) + 1..Len(r.code)
       /\ Ends(r.code[r.id], end) /\ RunsIn(r.code, r.templates, r.id, <<>>)

\* The forms that are read: typed in, or in a file.
FormsRead == (UNION {{Program[i][j] : j \in DOMAIN Program[i]} : i \in DOMAIN Program})
         \cup (UNION {{Files[f].forms[j] : j \in DOMAIN Files[f].forms} : f \in DOMAIN Files})

\* compile_top ends in STOP, compile_eval in RTN; a value eval is given goes
\* into the code as it is.
CompilerIsSound ==
    \A cd, ts : IsSequence(cd) /\ IsSequence(ts) =>
        /\ \A e \in FormsRead : Adds(CompileTop(e, cd, ts), cd, ts, "STOP", {})
        /\ \A v, xs : IsSequence(xs) /\ (v.tag = "pair" => xs # <<>>) =>
              Adds(CompileEval(DatumOf(v, xs), cd, ts), cd, ts, "RTN", {v} \cup {xs[i] : i \in 1..Len(xs)})

\* The startup library is such code, and what it leaves in the cells are
\* constants, primitives and procedures that need no frame but their own.
StartupIsSound ==
    LET cd == Startup.code   ts == Startup.templates IN
    /\ IsSequence(cd) /\ IsSequence(ts)
    /\ \A n \in DOMAIN cd : WellMade(cd, ts, n, {})
    /\ DOMAIN Startup.cells = Cells /\ "raise" \in Cells
    /\ \A x \in Cells : LET v == Startup.cells[x] IN
          \/ v.tag \in {"const", "prim", "unbound"}
          \/ /\ v.tag = "closure" /\ v.env = <<>> /\ Procedure(cd, ts, v.tmpl)
             /\ RunsIn(cd, ts, ts[v.tmpl].body, <<Width(ts[v.tmpl])>>)
=============================================================================
