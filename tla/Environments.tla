---------------------------- MODULE Environments ----------------------------
(***************************************************************************)
(* The global tables: the interaction environment, and the two copies of   *)
(* it that are made once the libraries are loaded and that eval can be     *)
(* given. The compiler keeps the table it is in in a variable, while macro *)
(* transformers, eval and load start further compilations and errors leave *)
(* several of them at once.                                                *)
(***************************************************************************)
EXTENDS Naturals, Sequences, Maps

CONSTANTS
    Names,          \* of variables and macros
    Special,        \* those of special forms
    Builtin,        \* those bound before any library is read
    Form,           \* what may be compiled
    Typed,          \* what may be typed at the prompt
    Disks           \* for both libraries, what each candidate file holds

\* Forms are records: op is one of Ops; all but fail, eval and load have a
\* name; define-macro has what the transformer does and what it gives; eval
\* has an environment and a form, load has forms, and both may stand under a
\* handler (caught).
Ops == {"define", "define-macro", "set!", "ref", "use", "eval", "load", "fail"}
Env == {"interaction", "report", "null"}

Missing  == [missing |-> TRUE]
File(fs) == [forms |-> fs]
Plain   == {"set!", "ref", "eval", "load", "fail"}      \* may be in a transformer

ASSUME NamesAssumption == Special \subseteq Builtin /\ Builtin \subseteq Names
ASSUME FormAssumption ==
    /\ Typed \subseteq Form
    /\ \A f \in Form :
          /\ f.op \in Ops
          /\ f.op \notin {"eval", "load", "fail"} => f.name \in Names
          /\ f.op = "define-macro" => f.does \in Form /\ f.does.op \in Plain /\ f.gives \in Form
          /\ f.op = "eval" => f.env \in Env /\ f.form \in Form /\ f.caught \in BOOLEAN
          /\ f.op = "load" => f.forms \in Seq(Form) /\ f.caught \in BOOLEAN
    /\ \A d \in Disks : \A l \in {1, 2} : d[l] \in Seq([forms : Seq(Form)] \cup {Missing})

VARIABLES
    tables,         \* per environment: name -> cell
    compileTable,   \* g_compile_table
    stack,          \* what is being compiled, run and loaded; the last is innermost
    phase,          \* "startup" or "session"
    disk,
    lib, cand,      \* startup: the library and the candidate to be tried
    warned          \* the libraries not found

vars == <<tables, compileTable, stack, phase, disk, lib, cand, warned>>

Unbound      == <<>>
NoMacro      == [none |-> TRUE]
Cell(v, m)   == [value |-> v, macro |-> m]
BuiltinValue == <<0, 0>>
User         == <<3, 0>>
Who == IF phase = "startup" THEN <<lib, cand>> ELSE User    \* a value is known by who gave it

\* compile_top begins a machine of its own, compile_eval goes on in the one
\* that called eval; the cells of env are in the code that runs.
Compiling(f, e, old, top) == [at |-> "compile", form |-> f, env |-> e, saved |-> old, top |-> top]
Running(f, e)             == [at |-> "run", form |-> f, env |-> e]
Loading(at, fs)           == [at |-> at, forms |-> fs]            \* "load" or "library"
Machine                   == [at |-> "machine"]
Catch                     == [at |-> "catch"]

Top       == stack[Len(stack)]
Below     == SubSeq(stack, 1, Len(stack) - 1)
At(kind)  == stack # <<>> /\ Top.at = kind
Is(ops)   == Top.form.op \in ops

\* CompileTableGuard: the new table, and the old one kept.
Enter(below, f, e, top) ==
    /\ stack' = Append(below, Compiling(f, e, compileTable, top))
    /\ compileTable' = e

Indices(kind) == {i \in 1..Len(stack) : stack[i].at = kind}
Least(S)      == CHOOSE i \in S : \A j \in S : i <= j
Greatest(S)   == CHOOSE i \in S : \A j \in S : j <= i

\* An error leaves every C++ frame down to the outermost machine, and goes on
\* there behind the innermost handler: what that handler's machine still had
\* to do it does. Without a handler everything is left, and at startup the
\* next candidate is tried. Of the guards left the outermost has the table of
\* that time.
Outermost == IF Indices("catch") = {} THEN 0 ELSE Least(Indices("machine"))
Guards    == {i \in Indices("compile") : i > Outermost}
Resumed   ==
    LET c == Greatest(Indices("catch"))
    IN SubSeq(stack, Greatest({i \in Indices("machine") : i < c}) + 1, c - 1)
Survives  == IF Indices("catch") = {} THEN <<>> ELSE SubSeq(stack, 1, Outermost) \o Resumed
TriesNext == phase = "startup" /\ Indices("catch") = {}

\* Mutant: the table stays as it is.
ThrowUnguarded ==
    /\ stack' = Survives
    /\ cand' = IF TriesNext THEN cand + 1 ELSE cand
    /\ UNCHANGED <<tables, compileTable, phase, disk, lib, warned>>

\* Mutant: a library that breaks off counts as read.
ThrowAsRead ==
    /\ stack' = Survives
    /\ compileTable' = "interaction"
    /\ IF TriesNext THEN lib' = lib + 1 /\ cand' = 1 ELSE UNCHANGED <<lib, cand>>
    /\ UNCHANGED <<tables, phase, disk, warned>>

\* Mutant: it is tried again.
ThrowToRetry ==
    /\ stack' = Survives
    /\ compileTable' = "interaction"
    /\ UNCHANGED <<tables, phase, disk, lib, cand, warned>>

Throw ==
    /\ stack' = Survives
    /\ compileTable' = IF Guards = {} THEN compileTable ELSE stack[Least(Guards)].saved
    /\ cand' = IF TriesNext THEN cand + 1 ELSE cand
    /\ UNCHANGED <<tables, phase, disk, lib, warned>>

----------------------------------------------------------------------------
Init ==
    /\ tables = [e \in Env |->
                    IF e = "interaction"
                    THEN [n \in Names |-> Cell(IF n \in Builtin THEN BuiltinValue ELSE Unbound, NoMacro)]
                    ELSE Nothing]
    /\ compileTable = "interaction" /\ stack = <<>>
    /\ phase = "startup" /\ lib = 1 /\ cand = 1 /\ warned = {}
    /\ disk \in Disks

(* Compiling. *)

Expands == Is({"use"}) /\ Top.form.name \in DOMAIN tables[compileTable]
             /\ tables[compileTable][Top.form.name].macro # NoMacro

\* The transformer runs now; what it gives is compiled after it.
Expand ==
    /\ At("compile") /\ Expands
    /\ LET m == tables[compileTable][Top.form.name].macro
       IN stack' = Below \o << [Top EXCEPT !.form = m.gives], Machine, Running(m.does, "interaction") >>
    /\ UNCHANGED <<tables, compileTable, phase, disk, lib, cand, warned>>

\* Mutant: assignments are let through.
RejectedDefinitions == Is({"define", "define-macro"}) /\ compileTable # "interaction"

Rejected == Is({"define", "define-macro", "set!"}) /\ compileTable # "interaction"

Reject == At("compile") /\ Rejected /\ Throw

Compiled ==
    /\ At("compile") /\ ~Expands /\ ~Rejected
    /\ stack' = (IF Top.top THEN Append(Below, Machine) ELSE Below) \o <<Running(Top.form, compileTable)>>
    /\ compileTable' = Top.saved
    /\ UNCHANGED <<tables, phase, disk, lib, cand, warned>>

(* Running. *)

Return == stack' = Below /\ UNCHANGED <<compileTable, phase, disk, lib, cand, warned>>

Store(cell) == tables' = [tables EXCEPT ![Top.env] = With(@, Top.form.name, cell)]

\* DEF and GSET leave a macro of the name as it was.
Bind ==
    /\ At("run") /\ Is({"define", "set!"})
    /\ Store(Cell(Who, tables[Top.env][Top.form.name].macro))
    /\ Return

BindMacro ==
    /\ At("run") /\ Is({"define-macro"})
    /\ Store(Cell(Who, [does |-> Top.form.does, gives |-> Top.form.gives]))
    /\ Return

IsBound == Top.form.name \in DOMAIN tables[Top.env] /\ tables[Top.env][Top.form.name].value # Unbound

Refer ==
    /\ At("run") /\ Is({"ref", "use"})
    /\ \/ IsBound /\ Return /\ UNCHANGED tables
       \/ ~IsBound /\ Throw

\* A call of eval or load; neither is bound in the null environment, and
\* scheme-report-environment not before the session.
Callable == Top.env # "null" /\ (Is({"eval"}) => Top.form.env # "report" \/ phase = "session")
Guarded  == IF Top.form.caught THEN Append(Below, Catch) ELSE Below

Eval ==
    /\ At("run") /\ Is({"eval"}) /\ Callable
    /\ Enter(Guarded, Top.form.form, Top.form.env, FALSE)
    /\ UNCHANGED <<tables, phase, disk, lib, cand, warned>>

Load ==
    /\ At("run") /\ Is({"load"}) /\ Callable
    /\ stack' = Append(Guarded, Loading("load", Top.form.forms))
    /\ UNCHANGED <<tables, compileTable, phase, disk, lib, cand, warned>>

Fail == At("run") /\ (Is({"fail"}) \/ (Is({"eval", "load"}) /\ ~Callable)) /\ Throw

Returned == (At("catch") \/ At("machine")) /\ Return /\ UNCHANGED tables

(* Loading: load_from_path, and load_library_dedup with its test. *)

\* Mutant: what is looked at is the macro of a variable and the other way round.
DefinedAsOther(f) ==
    \/ f.op = "define" /\ tables["interaction"][f.name].macro # NoMacro
    \/ f.op = "define-macro" /\ tables["interaction"][f.name].value # Unbound

Defined(f) ==
    \/ f.op = "define" /\ tables["interaction"][f.name].value # Unbound
    \/ f.op = "define-macro" /\ tables["interaction"][f.name].macro # NoMacro

Remaining == Append(Below, Loading(Top.at, Tail(Top.forms)))

NextForm ==
    /\ At("load") \/ At("library")
    /\ Top.forms # <<>> /\ ~(Top.at = "library" /\ Defined(Head(Top.forms)))
    /\ Enter(Remaining, Head(Top.forms), "interaction", TRUE)
    /\ UNCHANGED <<tables, phase, disk, lib, cand, warned>>

Skip ==
    /\ At("library") /\ Top.forms # <<>> /\ Defined(Head(Top.forms))
    /\ stack' = Remaining
    /\ UNCHANGED <<tables, compileTable, phase, disk, lib, cand, warned>>

Loaded == At("load") /\ Top.forms = <<>> /\ Return /\ UNCHANGED tables

(* Startup. *)

Searching == phase = "startup" /\ stack = <<>>

TryCandidate ==
    /\ Searching /\ lib \in {1, 2} /\ cand \in 1..Len(disk[lib])
    /\ \/ disk[lib][cand] = Missing /\ cand' = cand + 1 /\ UNCHANGED stack
       \/ /\ disk[lib][cand] # Missing
          /\ stack' = <<Loading("library", disk[lib][cand].forms)>>
          /\ UNCHANGED cand
    /\ UNCHANGED <<tables, compileTable, phase, disk, lib, warned>>

LibraryLoaded ==
    /\ At("library") /\ Top.forms = <<>>
    /\ stack' = Below /\ lib' = lib + 1 /\ cand' = 1
    /\ UNCHANGED <<tables, compileTable, phase, disk, warned>>

Warn ==
    /\ Searching /\ lib \in {1, 2} /\ cand > Len(disk[lib])
    /\ warned' = warned \cup {lib} /\ lib' = lib + 1 /\ cand' = 1
    /\ UNCHANGED <<tables, compileTable, stack, phase, disk>>

\* freeze_environments: cells of their own for what is bound, or just for the
\* special forms.
Copy(ns) == [n \in {x \in ns : tables["interaction"][x] # Cell(Unbound, NoMacro)} |->
                tables["interaction"][n]]

Freeze ==
    /\ Searching /\ lib = 3
    /\ tables' = [tables EXCEPT !["report"] = Copy(Names), !["null"] = Copy(Special)]
    /\ phase' = "session"
    /\ UNCHANGED <<compileTable, stack, disk, lib, cand, warned>>

Type(f) ==
    /\ phase = "session" /\ stack = <<>>
    /\ Enter(<<>>, f, "interaction", TRUE)
    /\ UNCHANGED <<tables, phase, disk, lib, cand, warned>>

Next ==
    \/ Expand \/ Reject \/ Compiled
    \/ Bind \/ BindMacro \/ Refer \/ Eval \/ Load \/ Fail \/ Returned
    \/ NextForm \/ Skip \/ Loaded
    \/ TryCandidate \/ LibraryLoaded \/ Warn \/ Freeze
    \/ \E f \in Typed : Type(f)

\* One thread, which does not stop of itself.
Spec == Init /\ [][Next]_vars /\ WF_vars(Next)

----------------------------------------------------------------------------
(* Properties.                                                             *)

CellType == [value : {Unbound} \cup (Nat \X Nat),
             macro : {NoMacro} \cup [does : Form, gives : Form]]
Frame ==
    [at : {"compile"}, form : Form, env : Env, saved : Env, top : BOOLEAN] \cup
    [at : {"run"}, form : Form, env : Env] \cup
    [at : {"load", "library"}, forms : Seq(Form)] \cup {Machine, Catch}

\* The machine's own values.
TypeOK ==
    /\ compileTable \in Env /\ phase \in {"startup", "session"}
    /\ stack \in Seq(Frame)
    /\ lib \in 1..3 /\ cand \in Nat /\ warned \subseteq {1, 2}
    /\ DOMAIN tables = Env /\ DOMAIN tables["interaction"] = Names
    /\ \A e \in Env : \A n \in DOMAIN tables[e] : n \in Names /\ tables[e][n] \in CellType

IsCompile(i)   == stack[i].at = "compile"
Innermost(i)   == \A j \in i + 1..Len(stack) : ~IsCompile(j)

\* The compiler is in the table it was started with - the interaction
\* environment for whatever is loaded or typed, also from inside an eval -
\* and in the interaction environment when nothing is being compiled, after
\* whatever errors in transformers, loads and evals inside one another.
TableRestored ==
    /\ \A i \in 1..Len(stack) : IsCompile(i) /\ Innermost(i) => compileTable = stack[i].env
    /\ (\A i \in 1..Len(stack) : ~IsCompile(i)) => compileTable = "interaction"

\* The copies never change once they are made: a definition or assignment
\* that a form, a macro or a transformer makes while eval compiles in them is
\* turned away or goes to the interaction environment.
ReportFrozen ==
    [][phase = "session" => \A e \in {"report", "null"} : tables'[e] = tables[e]]_vars

FormsOf(file) == IF file = Missing THEN {} ELSE {file.forms[k] : k \in 1..Len(file.forms)}
OnDisk        == UNION {UNION {FormsOf(disk[l][c]) : c \in 1..Len(disk[l])} : l \in {1, 2}}

\* A library that was not warned about gave all its definitions, in the end:
\* one of its candidates was read, and what it defines was bound when the
\* copies were made, although it may have been skipped.
NoSilentLoss ==
    phase = "session" =>
        \A l \in {1, 2} : l \in warned \/ \E c \in 1..Len(disk[l]) :
            /\ disk[l][c] # Missing
            /\ \A f \in FormsOf(disk[l][c]) :
                  f.op \in {"define", "define-macro"} => f.name \in DOMAIN tables["report"]

\* Libraries that only define, and give no name both as a variable and as a
\* macro, never change what is bound, whatever is missing or breaks off in
\* the middle: the first definition wins.
NamesGiven(op) == {f.name : f \in {x \in OnDisk : x.op = op}}
OnlyDefines ==
    /\ \A f \in OnDisk : f.op \in {"define", "define-macro", "ref", "fail"}
    /\ (NamesGiven("define") \cup Builtin) \cap NamesGiven("define-macro") = {}
FirstBindingWins ==
    [][(phase = "startup" /\ OnlyDefines) =>
          \A n \in Names : LET old == tables["interaction"][n] IN
             old.value # Unbound => tables'["interaction"][n] = old]_vars

\* Whatever forms the candidates hold and whichever of them fail, the prompt
\* comes. (No form of the model goes on for ever.)
StartsUp == <>(phase = "session")
=============================================================================
