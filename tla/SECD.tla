-------------------------------- MODULE SECD --------------------------------
(***************************************************************************)
(* The virtual machine of scheme14 (scheme14.cpp, sections 10 and 11) with *)
(* the primitives that touch its state, and the session (REPL or --load)   *)
(* that compiles one form after the other and runs it.                     *)
(*                                                                         *)
(*   S  stack, base   one contiguous stack; base is the floor of the       *)
(*                    running procedure                                    *)
(*   E  env           the chain of frames, innermost first, as the         *)
(*                    sequence of their addresses in frames                *)
(*   C  c, pc         a code number and the count of instructions fetched  *)
(*   D  dump          saved {c, pc, env, base}                             *)
(*                                                                         *)
(* winds and handler are global: they belong to no VM, and a continuation  *)
(* carries a copy of winds but none of handler.                            *)
(***************************************************************************)
EXTENDS Integers, Sequences

CONSTANTS
    CompileTop(_, _, _),  \* the compiler (module Compiler): an expression
    CompileEval(_, _, _), \* and the code and templates so far, to new ones
    Startup,    \* [code, templates, cells] once the startup library is loaded
    Cells,      \* names of the global cells
    Quoted,     \* quoted datum by name |-> the expression eval takes it for
    Files,      \* file |-> [forms : expressions, broken : BOOLEAN]
    Ports,      \* the console "stdout" and the files that open for writing
    Program,    \* the inputs: a sequence of sequences of expressions
    Mode,       \* "repl" or "load"
    RandomFuel  \* how many times random may still answer freely

ASSUME PortsAssumption == "stdout" \in Ports
ASSUME ModeAssumption  == Mode \in {"repl", "load"}
ASSUME FuelAssumption  == RandomFuel \in Nat

IsSequence(s) == s \in Seq({s[i] : i \in DOMAIN s})

ASSUME ProgramAssumption ==
    /\ IsSequence(Program) /\ \A i \in DOMAIN Program : IsSequence(Program[i])
    /\ \A f \in DOMAIN Files : IsSequence(Files[f].forms)

VARIABLES
    stack, base, env, c, pc, dump, scratch, \* the running VM
    outer,            \* VMs suspended in a load, outermost first
    frames, lists,    \* environment frames and list cells, by address
    conts,            \* captured continuations
    code, templates,  \* compiled code and lambda templates, by number
    cells,            \* the global cells
    winds, nextWind,  \* dynamic-wind frames entered, next frame id
    handler,          \* the box of exception handlers: #f or (proc . outer)
    stdout, open, out,\* current output port, open ports, what each received
    fuel,             \* random answers left
    status, input, form, results  \* the session

regs    == <<stack, base, env, c, pc, dump, scratch>>
machine == <<regs, outer>>
image   == <<code, templates>>
heap    == <<frames, lists, conts, image>>
wind    == <<winds, nextWind>>
ports   == <<stdout, open, out>>
session == <<status, input, form, results>>
vars    == <<machine, heap, cells, wind, handler, ports, fuel, session>>

-----------------------------------------------------------------------------
(* Values. Symbols, numbers, strings, booleans and () are constants known  *)
(* by name; a pair is a position in a list cell, which is never changed,   *)
(* and a quoted list is its elements.                                      *)

Const(x)         == [tag |-> "const", name |-> x]
Prim(p)          == [tag |-> "prim", prim |-> p]
Closure(t, e)    == [tag |-> "closure", tmpl |-> t, env |-> e]
ContRef(k)       == [tag |-> "cont", cont |-> k]
PairAt(a, i)     == [tag |-> "pair", list |-> a, at |-> i]
Literal(xs)      == [tag |-> "literal", elems |-> xs]
ValuesBox(a)     == [tag |-> "values", box |-> a]
ErrorObject(msg) == [tag |-> "error", message |-> msg]
PortRef(p)       == [tag |-> "port", port |-> p]
Environment      == [tag |-> "environment"]
Scratch          == [tag |-> "scratch"]
Unbound          == [tag |-> "unbound"]
Null             == [tag |-> "null"]

False  == Const("#f")
True   == Const("#t")
Nil    == Const("()")
IsTrue(v) == v # False

\* std::vector::resize: cuts the stack, or grows it with null pointers.
Resize(s, n) == [i \in 1..n |-> IF i <= Len(s) THEN s[i] ELSE Null]
Top(s)       == s[Len(s)]
Pop(s)       == SubSeq(s, 1, Len(s) - 1)

\* The elements of the list v, what ends it, and what is left of it behind
\* the first n.
Elems(v)  == CASE v.tag = "pair" -> SubSeq(lists[v.list].elems, v.at, Len(lists[v.list].elems))
               [] v.tag = "literal" -> v.elems
               [] OTHER -> <<>>
Ending(v) == CASE v.tag = "pair" -> lists[v.list].ending
               [] v.tag = "literal" -> Nil
               [] OTHER -> v
IsPair(v) == v.tag \in {"pair", "literal"}
IsProper(v) == Ending(v) = Nil
Behind(v, n) == CASE n = Len(Elems(v)) -> Ending(v)
                  [] v.tag = "pair" /\ n < Len(Elems(v)) -> PairAt(v.list, v.at + n)
                  [] OTHER -> Literal(SubSeq(v.elems, n + 1, Len(v.elems)))
Car(v) == Elems(v)[1]
Cdr(v) == Behind(v, 1)

\* A fresh list: the value that denotes it and the cell it adds to lists.
NewList(xs, end) == IF xs = <<>> THEN end ELSE PairAt(Len(lists) + 1, 1)
AddList(xs, end) == IF xs = <<>> THEN lists
                    ELSE Append(lists, [elems |-> xs, ending |-> end])

-----------------------------------------------------------------------------
(* Instructions.                                                           *)

NewCode == Len(code) + 1

LDC(v) == [op |-> "LDC", val |-> v]
APP(n) == [op |-> "APP", n |-> n]

Fetched == c # 0 /\ pc < Len(code[c])
Ins     == code[c][pc + 1]
Op(o)   == Ins.op = o

\* env_at: the address of the frame d levels up, 0 when the chain is shorter.
EnvAt(d) == IF d < Len(env) THEN env[d + 1] ELSE 0

-----------------------------------------------------------------------------
(* Errors. The instruction that raises one has changed nothing that lasts: *)
(* the checks come first. catchable is the flag of SchemeError.            *)

\* Mutant: every error stops the program.
Raises_Stopping(msg) == [message |-> msg, catchable |-> FALSE]
\* Mutant: internal and read errors are delivered to handlers.
Stops_Catchable(msg) == [message |-> msg, catchable |-> TRUE]

NoError      == [message |-> "", catchable |-> TRUE]
Raises(msg)  == [message |-> msg, catchable |-> TRUE]
Stops(msg)   == [message |-> msg, catchable |-> FALSE]

\* need_args: the least and the greatest number of arguments. A limit of 0
\* is none, so that most of what is meant to take no arguments takes any
\* number; eq? answers #f unless there are two.
NoLimit == 9
Arity(p) ==
    CASE p \in {"values", "list", "eq?", "%wind-pop", "%wind-top-after", "%current-exception-handler",
                "current-output-port"} -> <<0, NoLimit>>
      [] p = "interaction-environment" -> <<0, 0>>
      [] p = "error" -> <<1, NoLimit>>
      [] p = "display" -> <<1, 2>>
      [] p = "%exit" -> <<0, 1>>
      [] p \in {"cons", "memv", "%wind-push", "eval"} -> <<2, 2>>
      [] OTHER -> <<1, 1>>

\* Where x is in the list v: memv compares from the front.
Places(x, v) == {i \in 1..Len(Elems(v)) : Elems(v)[i] = x}

IsOpenPort(v) == v.tag = "port" /\ v.port \in open

\* What a primitive throws for the arguments a.
PrimError(p, a) ==
    IF Len(a) < Arity(p)[1] \/ Len(a) > Arity(p)[2] THEN Raises("wrong number of arguments")
    ELSE CASE p \in {"car", "cdr"} /\ ~IsPair(a[1]) -> Raises("wrong type of argument")
           [] p = "memv" /\ Places(a[1], a[2]) = {} /\ ~IsProper(a[2]) -> Raises("wrong type of argument")
           [] p = "error" -> Raises(a[1].name)
           [] p = "%abort-exception" ->
                Stops(CASE a[1].tag = "error" -> a[1].message
                        [] a[1].tag = "const" -> a[1].name
                        [] OTHER -> a[1].tag)
           [] p = "%set-current-output-port!" /\ ~IsOpenPort(a[1]) -> Raises("wrong type of argument")
           [] p = "display" /\ Len(a) = 2 /\ ~IsOpenPort(a[Len(a)]) -> Raises("wrong type of argument")
           [] p = "close-output-port" /\ a[1].tag # "port" -> Raises("wrong type of argument")
           [] p = "open-output-file" /\ a[1].name \notin Ports -> Raises("cannot open file")
           [] p = "load" /\ a[1].name \notin DOMAIN Files -> Raises("cannot open file")
           [] p = "load" /\ a[1].name \in DOMAIN Files /\ Files[a[1].name].broken -> Stops("read error")
           [] p = "eval" /\ a[2].tag # "environment" -> Raises("wrong type of argument")
           [] OTHER -> NoError

\* The procedure behind a callee: the scratch closure stands for itself.
AsClosure(f) == IF f.tag = "scratch" THEN scratch ELSE f

\* make_frame counts the arguments before anything is pushed.
CallError(f, a) ==
    CASE f.tag = "prim" -> PrimError(f.prim, a)
      [] f.tag = "cont" -> NoError
      [] f.tag \in {"closure", "scratch"} ->
            LET t == templates[AsClosure(f).tmpl] IN
            IF Len(a) = t.params \/ (t.rest /\ Len(a) > t.params)
            THEN NoError ELSE Raises("wrong number of arguments")
      [] OTHER -> Raises("attempt to call a non-procedure")

\* How many operands an instruction needs: fewer is an internal error.
Needs(i) == CASE i.op \in {"APP", "TAPP"} -> i.n + 1
              [] i.op = "ARGS_AP" -> i.n
              [] i.op \in {"APPLY", "TAPPLY"} -> 2
              [] i.op \in {"SEL", "SELR", "POP", "DEF", "LSET", "GSET", "CALLCC", "TCALLCC"} -> 1
              [] OTHER -> 0

\* The arguments of a call: what the stack s holds above argp.
Above(s, argp) == SubSeq(s, argp + 1, Len(s))

\* The call an instruction makes: the callee, the stack without it and where
\* the arguments start. apply spreads its list; call/cc passes a copy of the
\* machine, the next continuation.
Calls     == {"APP", "TAPP", "APPLY", "TAPPLY", "CALLCC", "TCALLCC"}

\* Mutant: apply in tail position saves the registers like any call.
TailCalls_WithoutApply == {"TAPP", "TCALLCC"}
TailCalls == {"TAPP", "TAPPLY", "TCALLCC"}
Calling ==
    CASE Ins.op \in {"APP", "TAPP"} -> [f |-> Top(stack), s |-> Pop(stack), argp |-> Len(stack) - 1 - Ins.n]
      [] Ins.op \in {"APPLY", "TAPPLY"} ->
            LET s == Pop(Pop(stack))
            IN [f |-> Top(stack), s |-> s \o Elems(Top(Pop(stack))), argp |-> Len(s)]
      [] OTHER -> [f |-> Top(stack), s |-> Append(Pop(stack), ContRef(Len(conts) + 1)), argp |-> Len(stack) - 1]

\* list_to_vector refuses what does not end in ().
SpreadsImproper ==
    \/ Op("ARGS_AP") /\ ~IsProper(Top(stack))
    \/ Ins.op \in {"APPLY", "TAPPLY"} /\ ~IsProper(Top(Pop(stack)))

\* What run marks "internal error": code that runs out, an operand, frame or
\* slot that is not there, a JOIN to nowhere.
Broken ==
    \/ ~Fetched
    \/ Len(stack) < Needs(Ins)
    \/ Ins.op \in {"LD", "LSET"} /\ (EnvAt(Ins.depth) = 0 \/ Ins.index > Len(frames[EnvAt(Ins.depth)]))
    \/ Op("JOIN") /\ dump = <<>>

\* The error of the instruction about to run. Code number 0 is a form that
\* compile_top rejects: thrown before any VM runs it, so that only a load
\* inside a running VM can deliver it.
ErrorOf ==
    IF c = 0 THEN [message |-> "syntax error", catchable |-> outer # <<>>]
    ELSE IF Broken THEN Stops("internal error")
    ELSE IF SpreadsImproper THEN Raises("wrong type of argument")
    ELSE CASE Ins.op = "LDG" ->
                IF cells[Ins.cell] = Unbound THEN Raises("unbound variable") ELSE NoError
           [] Ins.op \in Calls -> CallError(Calling.f, Above(Calling.s, Calling.argp))
           [] OTHER -> NoError

-----------------------------------------------------------------------------
(* The session, and the registers of a fresh VM.                           *)

EmptyMachine ==
    /\ stack' = <<>> /\ base' = 0 /\ env' = <<>> /\ pc' = 0
    /\ dump' = <<>> /\ scratch' = Closure(0, <<>>)

\* Code compiled now, to run next.
Compiled(r) == c' = r.id /\ code' = r.code /\ templates' = r.templates

\* eval_top: the form compiled, and a VM of its own to run it.
EvalTop(e) == EmptyMachine /\ Compiled(CompileTop(e, code, templates))

Show(v) == CASE v.tag = "const" -> v.name
             [] v.tag = "error" -> v.message
             [] OTHER -> v.tag

Result(kind, what) == [kind |-> kind, what |-> what]

\* The next form of the input (of the file, under --load).
StartForm ==
    /\ status = "idle" /\ input <= Len(Program) /\ form <= Len(Program[input])
    /\ EvalTop(Program[input][form])
    /\ status' = "run"
    /\ UNCHANGED <<outer, frames, lists, conts, cells, wind, handler, ports, fuel, input, form, results>>

\* The input is used up: the REPL reads another one.
NextInput ==
    /\ status = "idle" /\ input <= Len(Program) /\ form > Len(Program[input])
    /\ input' = input + 1 /\ form' = 1
    /\ UNCHANGED <<machine, heap, cells, wind, handler, ports, fuel, status, results>>

\* End of file on the terminal, or the end of the loaded file.
EndOfSession ==
    /\ status = "idle" /\ input > Len(Program)
    /\ status' = "exit"
    /\ UNCHANGED <<machine, heap, cells, wind, handler, ports, fuel, input, form, results>>

\* Mutant: --load goes on after an error, as the REPL does.
Die_GoesOn(msg) ==
    /\ results' = Append(results, Result("error", msg))
    /\ status' = "idle" /\ outer' = <<>>
    /\ IF Mode = "repl" THEN input' = input + 1 /\ form' = 1 ELSE input' = input /\ form' = form + 1
    /\ UNCHANGED <<regs, code>>

\* An error no handler takes: the REPL drops the rest of the input and goes
\* on, --load stops. Nothing else is reset: not winds, handler or stdout.
Die(msg) ==
    /\ results' = Append(results, Result("error", msg))
    /\ IF Mode = "repl" THEN status' = "idle" /\ input' = input + 1 /\ form' = 1
                        ELSE status' = "exit" /\ UNCHANGED <<input, form>>
    /\ outer' = <<>>
    /\ UNCHANGED <<regs, code>>

\* Mutant: each VM catches, the one of a load too.
Abandon_Innermost(msg) ==
    /\ code' = Append(code, <<LDC(ErrorObject(msg)), LDC(cells["raise"]), APP(1), [op |-> "STOP"]>>)
    /\ c' = NewCode /\ pc' = 0 /\ stack' = <<>> /\ base' = 0 /\ env' = <<>>
    /\ UNCHANGED <<dump, scratch, outer, session>>

\* abandon_to_raise in the outermost VM, the only one that catches: the
\* stack goes, the dump stays, and (raise obj) runs with nowhere to return.
Abandon(msg) ==
    /\ code' = Append(code, <<LDC(ErrorObject(msg)), LDC(cells["raise"]), APP(1), [op |-> "STOP"]>>)
    /\ c' = NewCode /\ pc' = 0 /\ stack' = <<>> /\ base' = 0 /\ env' = <<>>
    /\ IF outer = <<>> THEN UNCHANGED <<dump, scratch>>
                       ELSE dump' = outer[1].dump /\ scratch' = outer[1].scratch
    /\ outer' = <<>>
    /\ UNCHANGED session

\* The catch clause of run.
Fail(e) ==
    /\ IF ~e.catchable \/ handler = False THEN Die(e.message)
       ELSE IF cells["raise"] = Unbound THEN Die("internal error")
       ELSE Abandon(e.message)
    /\ UNCHANGED <<frames, lists, conts, templates, cells, wind, handler, ports, fuel>>

-----------------------------------------------------------------------------
(* Calls (do_call). The callee is off the stack; the arguments are what s  *)
(* holds above argp. conts is left to the caller: call/cc adds to it.      *)

Others == <<cells, wind, handler, ports, fuel, session>>

\* A primitive's value replaces its arguments.
Answer(s, argp, v) ==
    /\ stack' = Append(Resize(s, argp), v) /\ pc' = pc + 1
    /\ UNCHANGED <<base, env, c, dump, scratch, outer, frames, image>>

\* Mutant: the floor is put above the first argument.
Enter_HighFloor(s, argp, tail) ==
    /\ pc' = 0
    /\ IF tail THEN stack' = Resize(s, base) /\ UNCHANGED <<dump, base>>
       ELSE /\ stack' = Resize(s, argp) /\ base' = argp + 1
            /\ dump' = Append(dump, [c |-> c, pc |-> pc + 1, env |-> env, base |-> base])
    /\ UNCHANGED <<scratch, outer>>

\* Where a closure or eval starts: a call saves the registers and puts the
\* floor under the arguments, a tail call drops all down to its own floor.
Enter(s, argp, tail) ==
    /\ pc' = 0
    /\ IF tail THEN stack' = Resize(s, base) /\ UNCHANGED <<dump, base>>
       ELSE /\ stack' = Resize(s, argp) /\ base' = argp
            /\ dump' = Append(dump, [c |-> c, pc |-> pc + 1, env |-> env, base |-> base])
    /\ UNCHANGED <<scratch, outer>>

CallClosure(f, s, argp, tail) ==
    /\ f.tag \in {"closure", "scratch"}
    /\ LET t     == templates[AsClosure(f).tmpl]
           fixed == SubSeq(s, argp + 1, argp + t.params)
           extra == SubSeq(s, argp + t.params + 1, Len(s))
       IN /\ frames' = Append(frames, IF t.rest THEN Append(fixed, NewList(extra, Nil)) ELSE fixed)
          /\ lists' = IF t.rest THEN AddList(extra, Nil) ELSE lists
          /\ env' = <<Len(frames) + 1>> \o AsClosure(f).env
          /\ c' = t.body /\ Enter(s, argp, tail)
    /\ UNCHANGED <<image, Others>>

SameWinds(a, b) == /\ Len(a) = Len(b)
                   /\ \A i \in 1..Len(a) : a[i].id = b[i].id

\* Mutant: all frames are left and entered again, shared ones too.
Common_None(a, b) == 0

\* The length of the common outer part of two wind stacks.
Common(a, b) ==
    CHOOSE n \in 0..Len(a) :
        /\ n <= Len(b) /\ \A i \in 1..n : a[i].id = b[i].id
        /\ n < Len(a) /\ n < Len(b) => a[n + 1].id # b[n + 1].id

\* Mutant: unwinds from the outside.
Thunks_OutermostFirst(from, to) ==
    LET n == Common(from, to)
    IN [i \in 1..Len(from) - n |-> from[n + i].after] \o [i \in 1..Len(to) - n |-> to[n + i].before]

\* The thunks between two wind stacks: out of one from the inside, into the
\* other from the outside.
Thunks(from, to) ==
    LET n == Common(from, to)
    IN [i \in 1..Len(from) - n |-> from[Len(from) - i + 1].after]
       \o [i \in 1..Len(to) - n |-> to[n + i].before]

\* build_rewind_code: call each thunk and drop its value, then the
\* continuation again.
RewindCode(thunks, v, k) ==
    [j \in 1..3 * Len(thunks) |->
        CASE j % 3 = 1 -> LDC(thunks[(j + 2) \div 3])
          [] j % 3 = 2 -> APP(0)
          [] OTHER     -> [op |-> "POP"]]
    \o <<LDC(v), LDC(ContRef(k)), APP(1)>>

CallContinuation(f, s, argp) ==
    /\ f.tag = "cont" /\ f.cont \in DOMAIN conts
    /\ LET k == conts[f.cont]
           v == IF Len(s) = argp THEN Nil ELSE s[argp + 1]
       IN IF SameWinds(winds, k.winds)
          THEN /\ stack' = Append(k.stack, v)
               /\ dump' = k.dump /\ env' = k.env /\ c' = k.c /\ pc' = k.pc /\ base' = k.base
               /\ UNCHANGED <<winds, code>>
          ELSE /\ code' = Append(code, RewindCode(Thunks(winds, k.winds), v, f.cont))
               /\ c' = NewCode /\ pc' = 0 /\ stack' = s /\ winds' = k.winds
               /\ UNCHANGED <<dump, env, base>>
    /\ UNCHANGED <<scratch, outer, frames, lists, templates, nextWind, cells, handler, ports, fuel, session>>

-----------------------------------------------------------------------------
(* Primitives. Each names itself in its guard and leaves its value.        *)

\* What a primitive that only looks answers.
Value(p, a) ==
    LET Bool(b) == IF b THEN True ELSE False IN
    CASE p = "car" -> Car(a[1])
      [] p = "cdr" -> Cdr(a[1])
      [] p = "null?" -> Bool(a[1] = Nil)
      [] p = "eq?" -> Bool(Len(a) = 2 /\ a[1] = a[2])
      [] p = "memv" -> IF Places(a[1], a[2]) = {} THEN False
                       ELSE Behind(a[2], (CHOOSE i \in Places(a[1], a[2]) :
                                            \A j \in Places(a[1], a[2]) : i <= j) - 1)
      [] p = "not" -> Bool(a[1] = False)
      [] p = "interaction-environment" -> Environment
      [] p = "current-output-port" -> PortRef(stdout)
      [] p = "procedure?" -> Bool(a[1].tag \in {"closure", "prim", "cont"})
      [] p = "%current-exception-handler" -> handler
      [] p = "%wind-top-after" -> IF winds = <<>> THEN False ELSE Top(winds).after
      [] p = "%make-error-object" -> ErrorObject(a[1].name)

LookPrims == {"car", "cdr", "null?", "eq?", "memv", "not", "procedure?", "interaction-environment", "current-output-port",
              "%current-exception-handler", "%wind-top-after", "%make-error-object"}

Look(p, s, argp, a) ==
    /\ p \in LookPrims
    /\ Answer(s, argp, Value(p, a))
    /\ UNCHANGED <<lists, Others>>

\* cons, list and %values->list build a list; values is the identity on one
\* argument and a box on any other number.
Allocate(p, s, argp, a) ==
    /\ LET Build(xs, end) == Answer(s, argp, NewList(xs, end)) /\ lists' = AddList(xs, end)
       IN \/ p = "cons" /\ Build(<<a[1]>> \o Elems(a[2]), Ending(a[2]))
          \/ p = "list" /\ Build(a, Nil)
          \/ p = "%values->list" /\ Build(IF a[1].tag = "values" THEN lists[a[1].box].elems ELSE a, Nil)
          \/ p = "values" /\ IF Len(a) = 1 THEN Answer(s, argp, a[1]) /\ UNCHANGED lists
                             ELSE /\ Answer(s, argp, ValuesBox(Len(lists) + 1))
                                  /\ lists' = Append(lists, [elems |-> a, ending |-> Nil])
    /\ UNCHANGED Others

\* Mutant: every frame gets the same id.
WindPush_SameId(p, s, argp, a) ==
    /\ p = "%wind-push"
    /\ winds' = Append(winds, [before |-> a[1], after |-> a[2], id |-> nextWind])
    /\ Answer(s, argp, Nil)
    /\ UNCHANGED <<nextWind, lists, cells, handler, ports, fuel, session>>

WindPush(p, s, argp, a) ==
    /\ p = "%wind-push"
    /\ winds' = Append(winds, [before |-> a[1], after |-> a[2], id |-> nextWind])
    /\ nextWind' = nextWind + 1
    /\ Answer(s, argp, Nil)
    /\ UNCHANGED <<lists, cells, handler, ports, fuel, session>>

WindPop(p, s, argp, a) ==
    /\ p = "%wind-pop"
    /\ winds' = IF winds = <<>> THEN winds ELSE Pop(winds)
    /\ Answer(s, argp, Nil)
    /\ UNCHANGED <<lists, nextWind, cells, handler, ports, fuel, session>>

SetHandler(p, s, argp, a) ==
    /\ p = "%set-exception-handler!"
    /\ handler' = a[1]
    /\ Answer(s, argp, Nil)
    /\ UNCHANGED <<lists, cells, wind, ports, fuel, session>>

\* The model's source of branching: (random 2), until the fuel is gone.
Random(p, s, argp, a) ==
    /\ p = "random"
    /\ IF fuel = 0 THEN Answer(s, argp, Const("1")) /\ UNCHANGED fuel
       ELSE (\E n \in {"0", "1"} : Answer(s, argp, Const(n))) /\ fuel' = fuel - 1
    /\ UNCHANGED <<lists, cells, wind, handler, ports, session>>

OpenPort(p, s, argp, a) ==
    /\ p = "open-output-file"
    /\ open' = open \cup {a[1].name} /\ out' = [out EXCEPT ![a[1].name] = <<>>]
    /\ Answer(s, argp, PortRef(a[1].name))
    /\ UNCHANGED <<stdout, lists, cells, wind, handler, fuel, session>>

\* Closing the console does nothing (owns_fp).
ClosePort(p, s, argp, a) ==
    /\ p = "close-output-port"
    /\ open' = open \ ({a[1].port} \ {"stdout"})
    /\ Answer(s, argp, True)
    /\ UNCHANGED <<stdout, out, lists, cells, wind, handler, fuel, session>>

\* Mutant: answers the new port, not the old one.
SetStdout_AnswersNew(p, s, argp, a) ==
    /\ p = "%set-current-output-port!"
    /\ stdout' = a[1].port
    /\ Answer(s, argp, a[1])
    /\ UNCHANGED <<open, out, lists, cells, wind, handler, fuel, session>>

SetStdout(p, s, argp, a) ==
    /\ p = "%set-current-output-port!"
    /\ stdout' = a[1].port
    /\ Answer(s, argp, PortRef(stdout))
    /\ UNCHANGED <<open, out, lists, cells, wind, handler, fuel, session>>

\* Without a port argument the current port's file is written unchecked:
\* once closed it is a null pointer, and the process is gone.
Display(p, s, argp, a) ==
    /\ p = "display"
    /\ LET to == IF Len(a) = 2 THEN a[2].port ELSE stdout
       IN IF to \in open
          THEN /\ out' = [out EXCEPT ![to] = Append(@, Show(a[1]))]
               /\ Answer(s, argp, a[1]) /\ UNCHANGED session
          ELSE /\ status' = "crash"
               /\ UNCHANGED <<machine, frames, image, out, input, form, results>>
    /\ UNCHANGED <<stdout, open, lists, cells, wind, handler, fuel>>

\* %exit throws SchemeExit, which nothing catches before main. The exit code
\* is 1 for #f and 0 for what is no number; the numbers here are digits.
Digits == {"0", "1", "2", "3", "4", "5", "6", "7", "8", "9"}
ExitCode(a) == CASE a = <<False>> -> "1"
                 [] a # <<>> /\ a[1].tag = "const" /\ a[1].name \in Digits -> a[1].name
                 [] OTHER -> "0"

Exit(p, a) ==
    /\ p = "%exit"
    /\ status' = "exit"
    /\ results' = Append(results, Result("exit", ExitCode(a)))
    /\ UNCHANGED <<machine, frames, lists, image, cells, wind, handler, ports, fuel, input, form>>

\* The expression a value is to eval: a list holds expressions, and what is
\* not a datum evaluates to itself.
DatumOf(v, xs) ==
    CASE v.tag = "pair" -> <<"list", [i \in DOMAIN xs |->
            IF xs[i].tag = "const" /\ xs[i].name \in DOMAIN Quoted THEN Quoted[xs[i].name] ELSE <<"value", xs[i]>>]>>
      [] v.tag = "const" /\ v.name \in DOMAIN Quoted -> Quoted[v.name]
      [] OTHER -> <<"value", v>>
Datum(v) == DatumOf(v, Elems(v))

\* vm_enter_eval: not a call and return but a jump into the code compiled,
\* when it compiles.
Eval(p, s, argp, tail, a) ==
    /\ p = "eval"
    /\ \E r \in {CompileEval(Datum(a[1]), code, templates)} :
          IF r.id = 0 THEN Fail(Raises("syntax error"))
          ELSE /\ Compiled(r)
               /\ Enter(s, argp, tail)
               /\ env' = <<>>
               /\ UNCHANGED <<frames, lists, Others>>

\* load_from_path runs each form in a VM of its own, inside the primitive.
Load(p, s, argp, a) ==
    /\ p = "load"
    /\ IF Files[a[1].name].forms = <<>> THEN Answer(s, argp, Nil)
       ELSE /\ outer' = Append(outer, [stack |-> s, base |-> base, env |-> env, c |-> c, pc |-> pc + 1,
                                       dump |-> dump, scratch |-> scratch, argp |-> argp,
                                       file |-> a[1].name, next |-> 2])
            /\ EvalTop(Files[a[1].name].forms[1])
            /\ UNCHANGED frames
    /\ UNCHANGED <<lists, Others>>

CallPrimitive(f, s, argp, tail) ==
    /\ f.tag = "prim"
    /\ LET a == Above(s, argp) IN
       \/ Look(f.prim, s, argp, a)     \/ Allocate(f.prim, s, argp, a)
       \/ WindPush(f.prim, s, argp, a) \/ WindPop(f.prim, s, argp, a)
       \/ SetHandler(f.prim, s, argp, a)
       \/ OpenPort(f.prim, s, argp, a) \/ ClosePort(f.prim, s, argp, a)
       \/ SetStdout(f.prim, s, argp, a) \/ Display(f.prim, s, argp, a)
       \/ Random(f.prim, s, argp, a)
       \/ Exit(f.prim, a)
       \/ Eval(f.prim, s, argp, tail, a)
       \/ Load(f.prim, s, argp, a)

DoCall ==
    LET call == Calling
        tail == Ins.op \in TailCalls
    IN \/ CallPrimitive(call.f, call.s, call.argp, tail)
       \/ CallClosure(call.f, call.s, call.argp, tail)
       \/ CallContinuation(call.f, call.s, call.argp)

-----------------------------------------------------------------------------
(* The end of a run: the value v goes to the session, or to the load that  *)
(* started this VM, which runs its next form or answers its own VM.        *)

Finish(v) ==
    IF outer = <<>>
    THEN /\ status' = "idle" /\ form' = form + 1
         /\ results' = Append(results, Result("value", Show(v)))
         /\ UNCHANGED <<machine, image, input>>
    ELSE LET o     == Top(outer)
             forms == Files[o.file].forms
         IN IF o.next <= Len(forms)
            THEN /\ EvalTop(forms[o.next])
                 /\ outer' = [outer EXCEPT ![Len(outer)].next = @ + 1]
                 /\ UNCHANGED session
            ELSE /\ outer' = Pop(outer)
                 /\ stack' = Append(Resize(o.stack, o.argp), v)
                 /\ base' = o.base /\ env' = o.env /\ c' = o.c /\ pc' = o.pc
                 /\ dump' = o.dump /\ scratch' = o.scratch
                 /\ UNCHANGED <<image, session>>

TopOrNil == IF stack = <<>> THEN Nil ELSE Top(stack)

-----------------------------------------------------------------------------
(* The instructions (run).                                                 *)

Outside == <<outer, heap, cells, wind, handler, ports, fuel, session>>

\* Goes on to the next instruction with the stack s.
Continue(s) ==
    stack' = s /\ pc' = pc + 1 /\ UNCHANGED <<base, env, c, dump, scratch>>

LoadValue ==
    /\ \/ Op("LD")  /\ Continue(Append(stack, frames[EnvAt(Ins.depth)][Ins.index]))
       \/ Op("LDC") /\ Continue(Append(stack, Ins.val))
       \/ Op("LDG") /\ Continue(Append(stack, cells[Ins.cell]))
       \/ Op("LDF") /\ ~Ins.scratch /\ Continue(Append(stack, Closure(Ins.tmpl, env)))
       \/ Op("POP") /\ Continue(Pop(stack))
    /\ UNCHANGED Outside

\* The closure the next instruction calls and drops is made in place.
LoadScratch ==
    /\ Op("LDF") /\ Ins.scratch
    /\ scratch' = Closure(Ins.tmpl, env)
    /\ stack' = Append(stack, Scratch) /\ pc' = pc + 1
    /\ UNCHANGED <<base, env, c, dump, Outside>>

Apply ==
    /\ Ins.op \in Calls \ {"CALLCC", "TCALLCC"}
    /\ DoCall
    /\ UNCHANGED conts

\* (apply f a b ... lst): the arguments become one list.
PackArgs ==
    /\ Op("ARGS_AP")
    /\ LET s  == SubSeq(stack, 1, Len(stack) - Ins.n)
           xs == Above(Pop(stack), Len(stack) - Ins.n) \o Elems(Top(stack))
       IN /\ Continue(Append(s, NewList(xs, Nil)))
          /\ lists' = AddList(xs, Nil)
    /\ UNCHANGED <<outer, frames, conts, image, Others>>

Return ==
    /\ Op("RTN")
    /\ IF dump = <<>> THEN Finish(TopOrNil)
       ELSE /\ stack' = Append(Resize(stack, base), TopOrNil)
            /\ dump' = Pop(dump)
            /\ LET d == Top(dump)
               IN c' = d.c /\ pc' = d.pc /\ env' = d.env /\ base' = d.base
            /\ UNCHANGED <<scratch, outer, image, session>>
    /\ UNCHANGED <<frames, lists, conts, cells, wind, handler, ports, fuel>>

Stop ==
    /\ Op("STOP")
    /\ Finish(TopOrNil)
    /\ UNCHANGED <<frames, lists, conts, cells, wind, handler, ports, fuel>>

\* Mutant: SEL comes back to itself.
Select_BackToItself ==
    /\ \/ Op("SEL") /\ dump' = Append(dump, [c |-> c, pc |-> pc, env |-> env, base |-> base])
       \/ Op("SELR") /\ UNCHANGED dump
    /\ c' = (IF IsTrue(Top(stack)) THEN Ins.onTrue ELSE Ins.onFalse) /\ pc' = 0
    /\ stack' = Pop(stack)
    /\ UNCHANGED <<base, env, scratch, Outside>>

\* SEL comes back to the next instruction through JOIN; SELR, in tail
\* position, does not come back.
Select ==
    /\ \/ Op("SEL") /\ dump' = Append(dump, [c |-> c, pc |-> pc + 1, env |-> env, base |-> base])
       \/ Op("SELR") /\ UNCHANGED dump
    /\ c' = (IF IsTrue(Top(stack)) THEN Ins.onTrue ELSE Ins.onFalse) /\ pc' = 0
    /\ stack' = Pop(stack)
    /\ UNCHANGED <<base, env, scratch, Outside>>

Join ==
    /\ Op("JOIN")
    /\ c' = Top(dump).c /\ pc' = Top(dump).pc /\ dump' = Pop(dump)
    /\ UNCHANGED <<stack, base, env, scratch, Outside>>

\* define answers the symbol, set! the value.
Define ==
    /\ Op("DEF")
    /\ cells' = [cells EXCEPT ![Ins.cell] = Top(stack)]
    /\ Continue(Append(Pop(stack), Const(Ins.cell)))
    /\ UNCHANGED <<outer, heap, wind, handler, ports, fuel, session>>

Assign ==
    /\ \/ /\ Op("GSET")
          /\ cells' = [cells EXCEPT ![Ins.cell] = Top(stack)]
          /\ UNCHANGED frames
       \/ /\ Op("LSET")
          /\ frames' = [frames EXCEPT ![EnvAt(Ins.depth)][Ins.index] = Top(stack)]
          /\ UNCHANGED cells
    /\ Continue(stack)
    /\ UNCHANGED <<outer, lists, conts, image, wind, handler, ports, fuel, session>>

\* call/cc copies the machine and the winds, and calls the procedure with
\* the copy.
CallCC ==
    /\ \/ Op("CALLCC") \/ Op("TCALLCC")
    /\ conts' = Append(conts, [stack |-> Pop(stack), dump |-> dump, winds |-> winds,
                               c |-> c, pc |-> pc + 1, env |-> env, base |-> base])
    /\ DoCall

-----------------------------------------------------------------------------
Init ==
    /\ stack = <<>> /\ base = 0 /\ env = <<>> /\ c = 0 /\ pc = 0 /\ dump = <<>>
    /\ scratch = Closure(0, <<>>)
    /\ outer = <<>>
    /\ frames = <<>> /\ lists = <<>> /\ conts = <<>>
    /\ \E s \in {Startup} : code = s.code /\ templates = s.templates /\ cells = s.cells
    /\ winds = <<>> /\ nextWind = 1 /\ handler = False
    /\ stdout = "stdout" /\ open = {"stdout"} /\ out = [p \in Ports |-> <<>>]
    /\ fuel = RandomFuel
    /\ status = "idle" /\ input = 1 /\ form = 1 /\ results = <<>>

Over == status \in {"exit", "crash"} /\ UNCHANGED vars

\* One instruction: its effect, or its error.
Instruction ==
    \/ LoadValue \/ LoadScratch \/ Apply \/ PackArgs \/ Return \/ Stop
    \/ Select \/ Join \/ Define \/ Assign \/ CallCC

Step ==
    /\ status = "run"
    /\ \E e \in {ErrorOf} : \/ e = NoError /\ Instruction
                            \/ e # NoError /\ Fail(e)

Next == Step \/ StartForm \/ NextInput \/ EndOfSession \/ Over

\* The process is one thread that runs on until its input is used up. This
\* is WF_vars(Next): Next is enabled in every state (TLC finds no deadlock)
\* and changes vars just when the process is running. Spelled out because
\* TLC would compile every form anew to evaluate ENABLED.
Running  == status \in {"idle", "run"}
Fairness == []<>~Running \/ []<><<Next>>_vars

Spec == Init /\ [][Next]_vars /\ Fairness

-----------------------------------------------------------------------------
(* Properties.                                                             *)

\* Control state: what the statuses, counters, names and wind frames range
\* over. (VM registers, scheme14.cpp 2577; globals 536-562.)
IsWinds(w)    == IsSequence(w) /\ \A i \in 1..Len(w) : w[i].id \in 1..nextWind - 1

TypeOK ==
    /\ status \in {"idle", "run", "exit", "crash"}
    /\ input \in Nat \ {0} /\ form \in Nat \ {0}
    /\ fuel \in 0..RandomFuel
    /\ nextWind \in Nat \ {0}
    /\ IsWinds(winds)
    /\ IsSequence(conts) /\ \A k \in DOMAIN conts : IsWinds(conts[k].winds)
    /\ IsSequence(results)
    /\ stdout \in Ports /\ open \subseteq Ports

\* The wind stacks of the machine and of every continuation are paths of one
\* tree: a frame two of them share is at the same place in both, under the
\* same frames. winds_match and build_rewind_code compare ids from the
\* outside in and rest on it.
WindStacks == {winds} \cup {conts[k].winds : k \in DOMAIN conts}

OnePath(a, b) ==
    \A i \in 1..Len(a), j \in 1..Len(b) :
        a[i].id = b[j].id => i = j /\ \A h \in 1..i : a[h] = b[h]

WindTree == \A a, b \in WindStacks : OnePath(a, b)

\* A jump to a continuation never leaves and enters the same frame: what
\* build_rewind_code unwinds and what it rewinds have no frame in common.
JumpsAreShortest ==
    \A k \in DOMAIN conts :
        LET n == Common(winds, conts[k].winds) IN
        \A i \in n + 1..Len(winds), j \in n + 1..Len(conts[k].winds) :
            winds[i].id # conts[k].winds[j].id

\* The checks run marks "internal error" never fire on compiled code: no
\* operand is missing, every LD finds its frame and slot, every JOIN a dump
\* entry, and code does not run out.
NoInternalError == (status = "run" /\ c # 0) => ~Broken

\* The closure made in place for one call (LDF with b = 1) is never kept: it
\* is on top of the stack, about to be called, or nowhere.
ScratchIsTransient ==
    /\ status = "run" => \A i \in 1..Len(stack) : stack[i] = Scratch =>
          i = Len(stack) /\ Fetched /\ Ins.op \in {"APP", "TAPP"}
    /\ \A a \in DOMAIN frames : \A i \in DOMAIN frames[a] : frames[a][i] # Scratch
    /\ \A a \in DOMAIN lists : \A i \in DOMAIN lists[a].elems : lists[a].elems[i] # Scratch
    /\ \A k \in DOMAIN conts : \A i \in DOMAIN conts[k].stack : conts[k].stack[i] # Scratch
    /\ \A x \in Cells : cells[x] # Scratch

\* The floors of the suspended procedures lie in order under the operands:
\* RTN cuts the stack at base without looking. Only abandon_to_raise breaks
\* that, by dropping the stack from under a dump that is never returned to.
Floors(s, d, b) ==
    /\ b <= Len(s)
    /\ \A i \in 1..Len(d) : d[i].base <= IF i < Len(d) THEN d[i + 1].base ELSE b

IsAbandonCode(b) == Len(b) = 4 /\ b[1].op = "LDC" /\ b[1].val.tag = "error" /\ b[4].op = "STOP"

FloorsInOrder ==
    (\A n \in DOMAIN code : ~IsAbandonCode(code[n])) =>
        /\ status = "run" => Floors(stack, dump, base)
        /\ \A k \in DOMAIN conts : Floors(conts[k].stack, conts[k].dump, conts[k].base)

\* (raise obj), run in place of an instruction that failed, never returns:
\* the STOP behind it is not reached, whatever the handlers do.
RaiseNeverReturns == ~(status = "run" /\ Fetched /\ Op("STOP") /\ IsAbandonCode(code[c]))

\* When a form is done and no error broke one off before, all it entered has
\* been left: no dynamic-wind frame, handler or redirection survives it.
LeavesNothing ==
    (status = "idle" /\ \A i \in DOMAIN results : results[i].kind = "value")
        => winds = <<>> /\ handler = False /\ stdout = "stdout" /\ outer = <<>>

\* Under --load nothing runs once an error was not handled: the process ends
\* with the forms behind it, and the after thunks of the extents it broke
\* off, not run (load_from_path, and main's catch clause).
FirstErrorEnds ==
    Mode = "load" =>
        \A i \in DOMAIN results :
            results[i].kind = "error" => i = Len(results) /\ status = "exit"

\* The input is always used up: no jump, rewind or unwinding goes round
\* forever.
Terminates == <>(status \in {"exit", "crash"})
=============================================================================
