------------------------------ MODULE CodeCheck ------------------------------
(***************************************************************************)
(* The discipline of module Discipline, evaluated by TLC on the code an    *)
(* instance compiles. CompilerIsSound and StartupIsSound speak of all code *)
(* and ask for some depth and some scope of each block; here the code is   *)
(* that of the startup library and of every form and value the instance    *)
(* has, and both are computed.                                             *)
(***************************************************************************)
EXTENDS Discipline

\* The only depth that can count for b.
DepthOf(b) ==
    LET depth[p \in 0..Len(b)] == IF p = 0 THEN 0 ELSE depth[p - 1] - Takes(b[p]) + Gives(b[p])
    IN depth

\* The instructions that lead to block n from the blocks in S, and where they are.
LeadsTo(i, ts, n) == \/ i.op \in {"SEL", "SELR"} /\ n \in {i.onTrue, i.onFalse}
                     \/ i.op = "LDF" /\ ts[i.tmpl].body = n
Sources(cd, ts, S, n) == UNION {{<<m, p>> : p \in {p \in 1..Len(cd[m]) : LeadsTo(cd[m][p], ts, n)}} : m \in S}

\* The only scope the blocks in S can have when those nothing leads to have none.
ScopeOf(cd, ts, S) ==
    LET scope[n \in S] ==
          IF Sources(cd, ts, S, n) = {} THEN <<>>
          ELSE LET at == CHOOSE at \in Sources(cd, ts, S, n) : TRUE
                   i  == cd[at[1]][at[2]]
               IN IF i.op = "LDF" THEN <<Width(ts[i.tmpl])>> \o scope[at[1]] ELSE scope[at[1]]
    IN scope

WellMadeHere(cd, ts, n, given) ==
    /\ \E depth \in {DepthOf(cd[n])} : Counts(cd[n], depth) /\ \A p \in 0..Len(cd[n]) : depth[p] \in Nat
    /\ Shaped(cd[n]) /\ Linked(cd, ts, n)
    /\ \A p \in 1..Len(cd[n]) : cd[n][p].op = "LDC" => Data(cd[n][p].val) \/ cd[n][p].val \in given

AddsHere(r, cd, ts, end, given) ==
    \/ r.id = 0 /\ r.code = cd /\ r.templates = ts
    \/ LET new == Len(cd) + 1..Len(r.code) IN
       /\ Extends(r.code, cd) /\ Extends(r.templates, ts)
       /\ \A n \in new : WellMadeHere(r.code, r.templates, n, given)
       /\ r.id \in new /\ Ends(r.code[r.id], end)
       /\ \E scope \in {ScopeOf(r.code, r.templates, new)} :
             scope[r.id] = <<>> /\ Scoped(r.code, r.templates, scope)

\* Values a program may hand to eval: those of the cells, names that stand
\* for an expression, and lists of these.
Atoms == {Startup.cells[x] : x \in Cells} \cup {Const(x) : x \in DOMAIN Quoted} \cup {Nil, ContRef(1)}
Pairs == {<<f, a>> : f \in Atoms, a \in {Nil} \cup {Const(x) : x \in DOMAIN Quoted}}

\* compile_top and compile_eval keep the discipline on every form of this
\* instance, on top of the startup library.
ASSUME FormsAreWellMade ==
    \E s \in {Startup} :
        /\ \A e \in FormsRead : \E r \in {CompileTop(e, s.code, s.templates)} :
              AddsHere(r, s.code, s.templates, "STOP", {})
        /\ \A v \in Atoms : \E r \in {CompileEval(DatumOf(v, <<>>), s.code, s.templates)} :
              AddsHere(r, s.code, s.templates, "RTN", {v})
        /\ \A xs \in Pairs : \E r \in {CompileEval(DatumOf(PairAt(1, 1), xs), s.code, s.templates)} :
              AddsHere(r, s.code, s.templates, "RTN", {xs[1], xs[2]})

\* The startup library keeps it too, and so do the values it leaves.
ASSUME StartupIsWellMade ==
    \E s \in {Startup} :
        /\ \A n \in DOMAIN s.code : WellMadeHere(s.code, s.templates, n, {})
        /\ DOMAIN s.cells = Cells /\ "raise" \in Cells
        /\ \E scope \in {ScopeOf(s.code, s.templates, DOMAIN s.code)} :
              /\ Scoped(s.code, s.templates, scope)
              /\ \A x \in Cells : LET v == s.cells[x] IN
                    \/ v.tag \in {"const", "prim", "unbound"}
                    \/ /\ v.tag = "closure" /\ v.env = <<>> /\ Procedure(s.code, s.templates, v.tmpl)
                       /\ scope[s.templates[v.tmpl].body] = <<Width(s.templates[v.tmpl])>>
=============================================================================
