------------------------------- MODULE Reader -------------------------------
(***************************************************************************)
(* Text to data, three times over: the reader itself, the prompt's own     *)
(* idea of when an input is complete, and the scan that cuts one datum out *)
(* of a port. A text is a sequence of characters, each standing for those  *)
(* read the same way: a letter for whatever may be in a token, ' for all   *)
(* abbreviations. Numbers are tokens like others.                          *)
(***************************************************************************)
EXTENDS Integers, Sequences

Spaces     == {" ", "\n"}
Delimiters == Spaces \cup {"(", ")", "'", "\"", ";"}

Places(s)       == 1..Len(s) + 1
Past(s, p)      == p > Len(s)
CharAt(s, p)    == IF Past(s, p) THEN "" ELSE s[p]
DelimiterAt(s, p) == Past(s, p) \/ s[p] \in Delimiters

\* What has been read, and the place behind it; or why nothing was.
Read(x, p)  == [ok |-> TRUE, x |-> x, p |-> p]
Refuse(why) == [ok |-> FALSE, why |-> why]

\* The ways to run out of text.
Unfinished == Refuse("unfinished")          \* in a list, a vector or a string
Headless   == Refuse("nothing after '")
NoMore     == Refuse("nothing")             \* no datum left: no error
Misplaced  == Refuse("misplaced")

\* The data. A list ends in Empty or behind a dot, a vector is known by the
\* list of its elements.
Atom(token)  == <<"atom", token>>
Str(chars)   == <<"string", chars>>
Empty        == <<"()">>
Pair(a, d)   == <<"pair", a, d>>
Vec(l)       == <<"vector", l>>
Quoted(x)    == <<"quote", x>>

\* The first place from p on that is neither space nor in a comment.
InComment(s, p, q) == \E j \in p..q : s[j] = ";" /\ \A i \in j..q : s[i] # "\n"
Matter(s, p) == {q \in p..Len(s) : s[q] \notin Spaces /\ ~InComment(s, p, q)} \cup {Len(s) + 1}
skip_atmosphere(s, p) == CHOOSE q \in Matter(s, p) : \A r \in Matter(s, p) : q <= r

\* A token ends where a delimiter comes first.
TokenEnds(s, p) == {q \in p..Len(s) + 1 : DelimiterAt(s, q)}
TokenEnd(s, p)  == CHOOSE q \in TokenEnds(s, p) : \A r \in TokenEnds(s, p) : q <= r
read_atom(s, p) == LET end == TokenEnd(s, p) IN Read(Atom(SubSeq(s, p, end - 1)), end)

\* The element of a set of one. What is said of an x in {e} is said of e, but
\* TLC computes e only once.
The(S) == CHOOSE e \in S : TRUE

\* One more in front of what was read.
Consed(x, r)   == The({IF rest.ok THEN Read(Pair(x, rest.x), rest.p) ELSE rest : rest \in {r}})
WithChar(c, r) == The({IF rest.ok THEN Read(Str(<<c>> \o rest.x[2]), rest.p) ELSE rest : rest \in {r}})
WithForm(x, r) == The({IF rest.ok THEN Read(<<x>> \o rest.x, rest.p) ELSE rest : rest \in {r}})

\* The functions of the reader, r[p][f] being what f reads at p: list is
\* read_list, rest the same behind the first item.
Reads == {"expr", "list", "rest", "vector", "string", "all"}

read_string(s, p, r) ==
    IF Past(s, p) THEN Unfinished
    ELSE IF s[p] = "\"" THEN Read(Str(<<>>), p + 1)
    ELSE IF s[p] # "\\" THEN WithChar(s[p], r[p + 1]["string"])
    ELSE IF Past(s, p + 1) THEN Unfinished
    ELSE WithChar(s[p + 1], r[p + 2]["string"])

read_abbrev(r) ==
    The({IF x.ok THEN Read(Quoted(x.x), x.p) ELSE IF x = NoMore THEN Headless ELSE x : x \in {r}})

read_vector(r) == The({IF l.ok THEN Read(Vec(l.x), l.p) ELSE l : l \in {r}})

\* At what is no space or comment, or at the end.
read_expr(s, p, r) ==
    IF Past(s, p) THEN NoMore
    ELSE IF s[p] = "("  THEN r[p + 1]["list"]
    ELSE IF s[p] = ")"  THEN Refuse("unexpected )")
    ELSE IF s[p] = "\"" THEN r[p + 1]["string"]
    ELSE IF s[p] = "'"  THEN read_abbrev(r[p + 1]["expr"])
    ELSE IF s[p] = "#" /\ CharAt(s, p + 1) = "(" THEN read_vector(r[p + 2]["vector"])
    ELSE read_atom(s, p)

at_dot(s, p) == CharAt(s, p) = "." /\ DelimiterAt(s, p + 1)

Closed(s, tail, end) ==
    IF Past(s, end) THEN Unfinished
    ELSE IF s[end] = ")" THEN Read(tail.x, end + 1)
    ELSE Misplaced
close_dotted(s, r) ==
    The({IF tail.ok THEN Closed(s, tail, skip_atmosphere(s, tail.p))
         ELSE IF tail = NoMore THEN Unfinished ELSE tail : tail \in {r}})

Item(r, reads, f) ==
    The({IF x.ok THEN Consed(x.x, reads[x.p][IF f = "list" THEN "rest" ELSE f]) ELSE x : x \in {r}})

\* At an item, the end or a dot, of which only read_list knows.
read_item(s, p, r, f) ==
    IF Past(s, p) THEN Unfinished
    ELSE IF s[p] = ")" THEN Read(Empty, p + 1)
    ELSE IF f # "vector" /\ at_dot(s, p)
         THEN IF f = "list" THEN Misplaced ELSE close_dotted(s, r[p + 1]["expr"])
    ELSE Item(read_expr(s, p, r), r, f)

\* All of a text, or why not: one error and none of it is evaluated.
read_forms(s, p, r) ==
    The({IF x.ok THEN WithForm(x.x, r[x.p]["all"])
         ELSE IF x = NoMore THEN Read(<<>>, p) ELSE x : x \in {read_expr(s, p, r)}})

Reading(s, p, r, f) ==
    IF f = "string" THEN read_string(s, p, r)
    ELSE IF f = "expr" THEN read_expr(s, skip_atmosphere(s, p), r)
    ELSE IF f = "all" THEN read_forms(s, skip_atmosphere(s, p), r)
    ELSE read_item(s, skip_atmosphere(s, p), r, f)

Reader(s) == LET reads[p \in Places(s)] == [f \in Reads |-> Reading(s, p, reads, f)] IN reads

read_all(s) == Reader(s)[1]["all"]

-----------------------------------------------------------------------------
(* When the prompt takes an input for complete: what is_balanced knows      *)
(* after so many characters. A depth below 0 is where it gives up.         *)

QuoteAt(s, p) == s[p] = "\"" /\ (p = 1 \/ s[p - 1] # "\\")

DepthAfter(c, depth) == IF c = "(" THEN depth + 1 ELSE IF c = ")" THEN depth - 1 ELSE depth

\* Mutant: comments are not known.
balance_all(s, k, st) ==
    IF st.depth < 0 THEN st
    ELSE IF QuoteAt(s, k) THEN [st EXCEPT !.string = ~@]
    ELSE IF st.string THEN st
    ELSE [st EXCEPT !.depth = DepthAfter(s[k], @)]

balance(s, k, st) ==
    IF st.depth < 0 THEN st
    ELSE IF s[k] = "\n" THEN [st EXCEPT !.comment = FALSE]
    ELSE IF st.comment THEN st
    ELSE IF s[k] = ";" /\ ~st.string THEN [st EXCEPT !.comment = TRUE]
    ELSE IF QuoteAt(s, k) THEN [st EXCEPT !.string = ~@]
    ELSE IF st.string THEN st
    ELSE [st EXCEPT !.depth = DepthAfter(s[k], @)]

Balance(s) ==
    LET after[k \in 0..Len(s)] ==
            IF k = 0 THEN [depth |-> 0, string |-> FALSE, comment |-> FALSE]
            ELSE The({balance(s, k, st) : st \in {after[k - 1]}})
    IN after

is_balanced(s) == The({st.depth = 0 /\ ~st.string : st \in {Balance(s)[Len(s)]}})

-----------------------------------------------------------------------------
(* What read takes from a port: characters until brackets and quotes match, *)
(* then the reader on those.                                               *)

Complete(st) == st.seen /\ st.depth = 0 /\ ~st.string /\ ~st.comment

Outside(c, st) ==
    [comment |-> FALSE, string |-> FALSE, depth |-> DepthAfter(c, st.depth),
     seen |-> st.seen \/ (c # ")" /\ c \notin Spaces), taken |-> st.taken]

\* Mutant: a comment is text like any other.
scan_comment(s, k, st) ==
    IF (QuoteAt(s, k) /\ ~st.string) \/ (st.string /\ ~QuoteAt(s, k))
    THEN [st EXCEPT !.string = TRUE]
    ELSE Outside(s[k], st)

scan(s, k, st) ==
    IF s[k] # "\n" /\ (st.comment \/ (s[k] = ";" /\ ~st.string))
    THEN [st EXCEPT !.comment = TRUE]
    ELSE IF (QuoteAt(s, k) /\ ~st.string) \/ (st.string /\ ~QuoteAt(s, k))
    THEN [st EXCEPT !.comment = FALSE, !.string = TRUE]
    ELSE Outside(s[k], st)

\* Up to where it is complete.
Scanned(s, k, st) == IF Complete(st) THEN st ELSE [scan(s, k, st) EXCEPT !.taken = k]

Scan(s) ==
    LET after[k \in 0..Len(s)] ==
            IF k = 0 THEN [depth |-> 0, string |-> FALSE, comment |-> FALSE, seen |-> FALSE, taken |-> 0]
            ELSE The({Scanned(s, k, st) : st \in {after[k - 1]}})
    IN after

\* How many it took and the datum, or the end of the file if nothing began.
read_one_from_port(s) ==
    The({[taken |-> st.taken,
          datum |-> IF st.seen THEN Reader(SubSeq(s, 1, st.taken))[1]["expr"] ELSE NoMore] :
            st \in {Scan(s)[Len(s)]}})
=============================================================================
