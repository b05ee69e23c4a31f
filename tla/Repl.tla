-------------------------------- MODULE Repl --------------------------------
(***************************************************************************)
(* The prompt of scheme14: lines from standard input until they balance,   *)
(* all their forms read, then evaluated one after the other; and the input *)
(* port of the same file, from which the forms read too, with its one      *)
(* character of lookahead.                                                 *)
(***************************************************************************)
EXTENDS Reader

CONSTANTS
    Chars,              \* characters
    Texts               \* what may come in on standard input

ASSUME TextsAssumption == "" \notin Chars /\ Texts \subseteq Seq(Chars)

VARIABLES
    text,               \* all of standard input
    pos,                \* the next character of the FILE
    peeked,             \* where the character the port has peeked at was, or 0
    acc,                \* the lines of an input that is not complete
    doing,              \* "prompt", "eval" or "bye"
    forms,              \* the forms of the input, still to be evaluated
    done                \* what was evaluated: a form, or an error

promptVars == <<text, pos, peeked, acc, doing, forms, done>>

\* The forms that do something to the port are lists of one letter.
Calling(c) == Pair(Atom(<<c>>), Empty)
PeekChar   == Calling("p")
ReadChar   == Calling("c")
ReadDatum  == Calling("r")
Failing    == Calling("e")
OnPort     == {PeekChar, ReadChar, ReadDatum}
AnError    == <<"error">>

PromptInit ==
    /\ text \in Texts
    /\ pos = 1 /\ peeked = 0
    /\ acc = <<>> /\ doing = "prompt" /\ forms = <<>> /\ done = <<>>

End        == Len(text) + 1
LineEnd    == CHOOSE q \in pos..End : (q = End \/ text[q] = "\n") /\ \A r \in pos..q - 1 : text[r] # "\n"
Lower(a, b) == IF a < b THEN a ELSE b

\* Mutant: an unfinished input goes on asking.
ByeIfFinished ==
    /\ doing = "prompt" /\ pos = End /\ acc = <<>>
    /\ doing' = "bye"
    /\ UNCHANGED <<text, pos, peeked, acc, forms, done>>

\* The end of the file, also within an input that is not complete.
Bye ==
    /\ doing = "prompt" /\ pos = End
    /\ doing' = "bye"
    /\ UNCHANGED <<text, pos, peeked, acc, forms, done>>

\* Mutant: the lines of an input run together.
WithLineOnly(line) == acc \o line
WithLine(line) == IF acc = <<>> THEN line ELSE acc \o <<"\n">> \o line

\* The FILE is read past the port.
ReadLine ==
    /\ doing = "prompt" /\ pos < End
    /\ pos' = Lower(LineEnd + 1, End)
    /\ \E input \in {WithLine(SubSeq(text, pos, LineEnd - 1))} :
          \/ /\ input = <<>> \/ ~is_balanced(input)
             /\ acc' = input
             /\ UNCHANGED <<doing, forms, done>>
          \/ /\ input # <<>> /\ is_balanced(input)
             /\ acc' = <<>>
             /\ \E all \in {read_all(input)} :
                   \/ /\ all.ok
                      /\ doing' = "eval" /\ forms' = all.x
                      /\ UNCHANGED done
                   \/ /\ ~all.ok
                      /\ done' = Append(done, AnError)
                      /\ UNCHANGED <<doing, forms>>
    /\ UNCHANGED <<text, peeked>>

\* What the port gives next; a peeked end of file is given once too.
Coming == IF peeked = 0 THEN SubSeq(text, pos, Len(text))
         ELSE IF peeked = End THEN <<>>
         ELSE <<text[peeked]>> \o SubSeq(text, pos, Len(text))

Take(n) ==
    /\ peeked' = 0
    /\ pos' = Lower(End, IF peeked = 0 THEN pos + n ELSE IF n = 0 THEN pos ELSE pos + n - 1)

\* Evaluated, with the rest of the input if it was an error.
Evaluated == done' = Append(done, Head(forms)) /\ forms' = Tail(forms)
Failed    == done' = Append(done, AnError) /\ forms' = <<>>

\* One form, while there are any.
Evaluating(kinds) ==
    /\ doing = "eval" /\ forms # <<>> /\ Head(forms) \in kinds
    /\ UNCHANGED <<text, acc, doing>>

Peek ==
    /\ Evaluating({PeekChar}) /\ Evaluated
    /\ \/ peeked = 0 /\ peeked' = pos /\ pos' = Lower(End, pos + 1)
       \/ peeked # 0 /\ UNCHANGED <<pos, peeked>>

Get == Evaluating({ReadChar}) /\ Take(1) /\ Evaluated

Datum ==
    /\ Evaluating({ReadDatum})
    /\ \E s \in {Coming} : \E r \in {read_one_from_port(s)} :
          /\ Take(r.taken)
          /\ IF r.datum.ok \/ r.datum = NoMore THEN Evaluated ELSE Failed

Other ==
    /\ forms # <<>> /\ Evaluating({Head(forms)} \ OnPort)
    /\ IF Head(forms) = Failing THEN Failed ELSE Evaluated
    /\ UNCHANGED <<pos, peeked>>

Answered ==
    /\ doing = "eval" /\ forms = <<>>
    /\ doing' = "prompt"
    /\ UNCHANGED <<text, pos, peeked, acc, forms, done>>

PromptNext == Bye \/ ReadLine \/ Peek \/ Get \/ Datum \/ Other \/ Answered

\* The process is one thread, and a read from standard input returns.
PromptSpec == PromptInit /\ [][PromptNext]_promptVars /\ WF_promptVars(PromptNext)

-----------------------------------------------------------------------------
(* Properties.                                                             *)

HasNo(c) == \A k \in 1..Len(text) : text[k] # c

\* The prompt and the reader agree, on text without backslashes: it does not
\* go on waiting when the reader could read all there is, and does not hand
\* over a text whose list, vector or string the reader then finds unfinished.
PromptAgreesWithReader ==
    HasNo("\\") =>
        LET all == read_all(acc) IN
        /\ acc # <<>> => ~all.ok
        /\ \A k \in 1..Len(text) :
              LET s == SubSeq(text, k, Len(text)) IN
              (is_balanced(s) => read_all(s) # Unfinished) /\ (read_all(s).ok => is_balanced(s))

\* Typed at the prompt, line by line, a text has the effect it has as a file
\* read at once: the same forms are evaluated in the same order. (For text
\* the reader accepts, none of whose forms fails or reads on from standard
\* input, and without backslashes and abbreviations: what a ' at the end of
\* a line abbreviates comes too late.)
PromptIsLikeLoad ==
    LET all == read_all(text) IN
    ( /\ doing = "bye" /\ all.ok /\ HasNo("\\") /\ HasNo("'")
      /\ \A k \in 1..Len(all.x) : all.x[k] \notin OnPort \cup {Failing} )
        => done = all.x

\* read from a port takes one list or string, what the reader makes of it,
\* and not a character more, whatever stands before it or behind. (Not so for
\* atoms, abbreviations and vectors. Where the text ends before a datum has
\* begun, also behind a lone ) or within a string, read answers the end of
\* the file and not with an error.)
ReadTakesOneDatum ==
    LET s == Coming
        p == skip_atmosphere(s, 1)
        x == Reader(s)[1]["expr"]
    IN (HasNo("\\") /\ CharAt(s, p) \in {"(", "\""} /\ x.ok) =>
          read_one_from_port(s) = [taken |-> x.p - 1, datum |-> x]

\* A character the port has peeked at is the next one anybody gets from
\* standard input (scheme14.cpp:510-511: input that does not go through
\* get_char loses the one character of lookahead).
PeekedCharIsNext == peeked # 0 => pos = Lower(End, peeked + 1)

\* The input is used up and the session ends, whatever is typed: no text
\* makes the prompt or a form ask for ever.
Ends == <>(doing = "bye")
=============================================================================
