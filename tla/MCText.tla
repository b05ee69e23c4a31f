------------------------------- MODULE MCText -------------------------------
(***************************************************************************)
(* From text to definitions: what the prompt and the input port make of    *)
(* the characters that come in, and, as the other part, what the global    *)
(* tables become of the forms: at startup, typed, loaded and evaluated in  *)
(* each environment. A behaviour is of one part.                           *)
(***************************************************************************)
EXTENDS Environments, Repl

CONSTANTS Parts
VARIABLES part

\* Every short text over all characters, longer ones over some, and texts
\* that begin with calls that use the port or fail.
MCChars == {"(", ")", "\"", "\\", ";", "\n", "a", "'", ".", "#", "p", "c", "r", "e"}
Short(chars, n) == UNION {[1..k -> chars] : k \in 0..n}
Calls == {<<"(", c, ")", "\n">> : c \in {"p", "c", "r", "e"}}
MCTexts ==
    Short({"(", ")", "\"", "\\", ";", "\n", "a", "'", ".", "#"}, 4) \cup
    Short({"(", ")", "\"", ";", "\n", "a"}, 5) \cup
    {f \o s : f \in Calls, s \in Short({"(", ")", "\"", "\n", "a"}, 4)} \cup
    {f \o g \o s : f \in Calls, g \in Calls, s \in Short({"(", ")", "a"}, 3)}

-----------------------------------------------------------------------------
(* The forms. car is a procedure every library leaves alone but one, a is  *)
(* defined here and there, m is a macro.                                   *)

Ref(n)             == [op |-> "ref", name |-> n]
Define(n)          == [op |-> "define", name |-> n]
Assign(n)          == [op |-> "set!", name |-> n]
Call(n)            == [op |-> "use", name |-> n]
Error              == [op |-> "fail"]
DefineMacro(d, g)  == [op |-> "define-macro", name |-> "m", does |-> d, gives |-> g]
EvalIn(e, f, c)    == [op |-> "eval", env |-> e, form |-> f, caught |-> c]
LoadOf(fs, c)      == [op |-> "load", forms |-> fs, caught |-> c]

\* Transformers that fail or that load and eval while the compiler waits, and
\* what they give: a definition, or an eval whose own compilation fails.
Macros ==
    {DefineMacro(d, g) :
        d \in {Error, LoadOf(<<Define("a"), Error>>, TRUE), EvalIn("report", Call("m"), FALSE)},
        g \in {Define("a"), EvalIn("null", Assign("car"), TRUE)}}
MCTyped ==
    Macros \cup {Define("a"), Assign("car"), Call("m"), Error}
      \cup {EvalIn(e, f, TRUE) : e \in Env, f \in {Call("m"), Define("a"), Assign("car"), Error}}
      \cup {LoadOf(<<f, Define("a")>>, TRUE) : f \in {Call("m"), EvalIn("report", Call("m"), FALSE)}}

\* One that breaks off, one that redefines, one with a macro that loads, one
\* that needs a macro of the library before.
Candidates ==
    {Missing} \cup {File(fs) : fs \in
        { <<Define("a"), Error>>,
          <<DefineMacro(Ref("a"), Define("car")), Define("car")>>,
          <<Define("a"), DefineMacro(LoadOf(<<Define("a")>>, FALSE), Define("a"))>>,
          <<Call("m"), Define("a")>> }}
MCDisks == {<<<<c, d>>, <<e>>>> : c \in Candidates, d \in Candidates, e \in Candidates}

\* Everything these forms are made of.
Inner(f) ==
    CASE f.op = "eval"         -> {f.form}
      [] f.op = "load"         -> {f.forms[k] : k \in 1..Len(f.forms)}
      [] f.op = "define-macro" -> {f.does, f.gives}
      [] OTHER                 -> {}
Deeper(S) == S \cup UNION {Inner(f) : f \in S}
MCForm == Deeper(Deeper(Deeper(Deeper(MCTyped \cup UNION {FormsOf(c) : c \in Candidates}))))

-----------------------------------------------------------------------------
MCInit ==
    /\ part \in Parts
    /\ text \in (IF part = "prompt" THEN MCTexts ELSE {<<>>})
    /\ disk \in (IF part = "tables" THEN MCDisks ELSE {<<<<Missing, Missing>>, <<Missing>>>>})
    /\ PromptInit /\ Init

MCNext ==
    /\ UNCHANGED part
    /\ \/ part = "tables" /\ Next /\ UNCHANGED promptVars
       \/ part = "prompt" /\ PromptNext /\ UNCHANGED vars

MCSpec == MCInit /\ [][MCNext]_<<part, promptVars, vars>> /\ WF_<<part, promptVars, vars>>(MCNext)

\* When each part has come where it must.
PromptEnds  == part = "prompt" => Ends
PromptComes == part = "tables" => StartsUp
=============================================================================
