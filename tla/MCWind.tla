------------------------------- MODULE MCWind -------------------------------
(***************************************************************************)
(* dynamic-wind under every way out and in: continuations thrown from      *)
(* inside, from a sibling extent and from later inputs, an uncaught error  *)
(* that leaves an extent open, and exit, called again from an after thunk. *)
(***************************************************************************)
EXTENDS SECD, Lib14

Wind(n, body, after) ==
    Call("dynamic-wind", <<Thunk(<<Show1("+" \o n)>>), Thunk(body), Thunk(<<Show1("-" \o n)>> \o after)>>)
Coin       == Call("eq?", <<Call("random", <<Lit("2")>>), Lit("0")>>)
Flip(a, b) == If(Coin, a, b)

Forms ==
    << DefVar("k1", Lit("#f")),
       DefVar("k2", Lit("#f")),
       LetCC("out", <<
           Wind("1", << LetCC("k", <<SetVar("k1", V("k"))>>),
                        Show1("1"),
                        Wind("2", << LetCC("k", <<SetVar("k2", V("k"))>>), Show1("2"),
                                     Flip(Call("k1", <<Lit("x")>>),
                                          Flip(Call("out", <<Lit("y")>>), Flip(Call("exit", <<>>), Lit("z")))) >>,
                                  << When(Coin, Call("exit", <<Lit("1")>>)) >>),
                        Show1("1") >>, <<>>) >>),
       Wind("3", << Show1("3"),
                    Flip(Call("k1", <<>>),
                         Flip(Call("k2", <<>>), Call("car", <<Lit("()")>>))) >>,
                 <<>>),
       When(Coin, Call("k2", <<>>)) >>

MCStartup == StartupWith({"k1", "k2"})
MCCells   == CellNames({"k1", "k2"})
MCQuoted  == [x \in {} |-> 0]
MCFiles   == [x \in {} |-> 0]
MCPorts   == {"stdout"}
MCProgram == Inputs(Forms)
MCFile    == <<Forms>>      \* as one file, under --load
Names3    == {"1", "2", "3"}

\* The extents a console log has entered and not left, and where each was
\* last entered.
Entered(t) == \E n \in Names3 : t = "+" \o n
Left(t)    == \E n \in Names3 : t = "-" \o n
Named(t)   == CHOOSE n \in Names3 : t \in {"+" \o n, "-" \o n}

See(s, t) ==
    CASE Entered(t) -> [inside |-> Append(s.inside, Named(t)), home |-> [s.home EXCEPT ![Named(t)] = s.inside]]
      [] Left(t) /\ s.inside # <<>> -> [s EXCEPT !.inside = Pop(@)]
      [] OTHER -> s

Seen(log) ==
    LET upto[i \in 0..Len(log)] ==
          IF i = 0 THEN [inside |-> <<>>, home |-> [n \in Names3 |-> <<"nowhere">>]]
                   ELSE See(upto[i - 1], log[i])
    IN upto[Len(log)]

E == INSTANCE Extents WITH Extent  <- Names3,
                           inside  <- Seen(out["stdout"]).inside,
                           home    <- Seen(out["stdout"]).home,
                           console <- out["stdout"]

\* The machine and the library together do what dynamic-wind promises.
ImplementsExtents == E!Spec

\* The thunks of a jump are running: a procedure is to return into the code
\* of build_rewind_code, the only code that ends with a call.
Rewinding ==
    \E i \in DOMAIN dump : Len(code[dump[i].c]) > 0 /\ Last(code[dump[i].c]).op = "APP"

\* exit leaves every extent, once, before the process ends: those an error
\* left open too. (Not so in the middle of a jump: see MCDocs.)
ExitLeavesAll ==
    (status = "exit" /\ results # <<>> /\ Last(results).kind = "exit" /\ ~Rewinding)
        => Seen(out["stdout"]).inside = <<>>
=============================================================================
