---------------------------- MODULE ReaderProof ----------------------------
(***************************************************************************)
(* Theorems about Reader and Repl, for texts of any length over any        *)
(* characters. What the reader, is_balanced and read_one_from_port make of *)
(* a text is related through the situation behind each of its characters:  *)
(* how deep in brackets, in a string, in a comment.                        *)
(***************************************************************************)
EXTENDS Repl, TLAPS, SequenceTheorems, Recursion

Writing == Seq(Chars \cup {"\n"})

LEMMA TheIs == \A e : The({e}) = e
  BY DEF The

LEMMA ConsedIs ==
    ASSUME NEW x, NEW r
    PROVE  Consed(x, r) = IF r.ok THEN Read(Pair(x, r.x), r.p) ELSE r
<1> DEFINE e == IF r.ok THEN Read(Pair(x, r.x), r.p) ELSE r
<1>1. Consed(x, r) = The({e})
  BY DEF Consed
<1> HIDE DEF e
<1>2. Consed(x, r) = e
  BY <1>1, TheIs
<1> QED
  BY <1>2 DEF e

LEMMA WithCharIs ==
    ASSUME NEW c, NEW r
    PROVE  WithChar(c, r) = IF r.ok THEN Read(Str(<<c>> \o r.x[2]), r.p) ELSE r
<1> DEFINE e == IF r.ok THEN Read(Str(<<c>> \o r.x[2]), r.p) ELSE r
<1>1. WithChar(c, r) = The({e})
  BY DEF WithChar
<1> HIDE DEF e
<1>2. WithChar(c, r) = e
  BY <1>1, TheIs
<1> QED
  BY <1>2 DEF e

LEMMA WithFormIs ==
    ASSUME NEW x, NEW r
    PROVE  WithForm(x, r) = IF r.ok THEN Read(<<x>> \o r.x, r.p) ELSE r
<1> DEFINE e == IF r.ok THEN Read(<<x>> \o r.x, r.p) ELSE r
<1>1. WithForm(x, r) = The({e})
  BY DEF WithForm
<1> HIDE DEF e
<1>2. WithForm(x, r) = e
  BY <1>1, TheIs
<1> QED
  BY <1>2 DEF e

LEMMA AbbrevIs ==
    ASSUME NEW r
    PROVE  read_abbrev(r) = IF r.ok THEN Read(Quoted(r.x), r.p) ELSE IF r = NoMore THEN Headless ELSE r
<1> DEFINE e == IF r.ok THEN Read(Quoted(r.x), r.p) ELSE IF r = NoMore THEN Headless ELSE r
<1>1. read_abbrev(r) = The({e})
  BY DEF read_abbrev
<1> HIDE DEF e
<1>2. read_abbrev(r) = e
  BY <1>1, TheIs
<1> QED
  BY <1>2 DEF e

LEMMA VectorIs ==
    ASSUME NEW r
    PROVE  read_vector(r) = IF r.ok THEN Read(Vec(r.x), r.p) ELSE r
<1> DEFINE e == IF r.ok THEN Read(Vec(r.x), r.p) ELSE r
<1>1. read_vector(r) = The({e})
  BY DEF read_vector
<1> HIDE DEF e
<1>2. read_vector(r) = e
  BY <1>1, TheIs
<1> QED
  BY <1>2 DEF e

LEMMA ClosedIs ==
    ASSUME NEW s, NEW r
    PROVE  close_dotted(s, r) = IF r.ok THEN Closed(s, r, skip_atmosphere(s, r.p))
                ELSE IF r = NoMore THEN Unfinished ELSE r
<1> DEFINE e == IF r.ok THEN Closed(s, r, skip_atmosphere(s, r.p))
                ELSE IF r = NoMore THEN Unfinished ELSE r
<1>1. close_dotted(s, r) = The({e})
  BY DEF close_dotted
<1> HIDE DEF e
<1>2. close_dotted(s, r) = e
  BY <1>1, TheIs
<1> QED
  BY <1>2 DEF e

LEMMA ItemIs ==
    ASSUME NEW r, NEW reads, NEW f
    PROVE  Item(r, reads, f) = IF r.ok THEN Consed(r.x, reads[r.p][IF f = "list" THEN "rest" ELSE f]) ELSE r
<1> DEFINE e == IF r.ok THEN Consed(r.x, reads[r.p][IF f = "list" THEN "rest" ELSE f]) ELSE r
<1>1. Item(r, reads, f) = The({e})
  BY DEF Item
<1> HIDE DEF e
<1>2. Item(r, reads, f) = e
  BY <1>1, TheIs
<1> QED
  BY <1>2 DEF e

LEMMA FormsIs ==
    ASSUME NEW s, NEW p, NEW r
    PROVE  read_forms(s, p, r) = IF read_expr(s, p, r).ok THEN WithForm(read_expr(s, p, r).x, r[read_expr(s, p, r).p]["all"])
                ELSE IF read_expr(s, p, r) = NoMore THEN Read(<<>>, p) ELSE read_expr(s, p, r)
<1> DEFINE e == IF read_expr(s, p, r).ok THEN WithForm(read_expr(s, p, r).x, r[read_expr(s, p, r).p]["all"])
                ELSE IF read_expr(s, p, r) = NoMore THEN Read(<<>>, p) ELSE read_expr(s, p, r)
<1>1. read_forms(s, p, r) = The({e})
  BY DEF read_forms
<1> HIDE DEF e
<1>2. read_forms(s, p, r) = e
  BY <1>1, TheIs
<1> QED
  BY <1>2 DEF e

-----------------------------------------------------------------------------
(* Places in a text.                                                       *)

LEMMA LengthIs ==
    ASSUME NEW s \in Writing
    PROVE  /\ Len(s) \in Nat /\ Len(s) + 1 \in Places(s)
           /\ \A p : p \in Places(s) <=> (p \in Nat /\ p >= 1 /\ p <= Len(s) + 1)
           /\ \A k \in 1..Len(s) : s[k] \in Chars \cup {"\n"} /\ s[k] # ""
           /\ \A p \in Nat : p >= 1 => (Past(s, p) <=> p > Len(s))
<1>1. Len(s) \in Nat
  BY LenProperties DEF Writing
<1>2. ASSUME NEW k \in 1..Len(s) PROVE s[k] \in Chars \cup {"\n"}
  BY <1>1, ElementOfSeq DEF Writing
<1>3. "" \notin Chars \cup {"\n"}
  BY TextsAssumption
<1>4. ASSUME NEW k \in 1..Len(s) PROVE s[k] \in Chars \cup {"\n"} /\ s[k] # ""
  BY <1>2, <1>3
<1>5. \A p : p \in Places(s) <=> (p \in Nat /\ p >= 1 /\ p <= Len(s) + 1)
  BY <1>1 DEF Places
<1>6. \A p \in Nat : p >= 1 => (Past(s, p) <=> p > Len(s))
  BY DEF Past
<1>7. Len(s) + 1 \in Places(s)
  BY <1>1, <1>5
<1> HIDE DEF Writing
<1> QED
  BY <1>1, <1>4, <1>5, <1>6, <1>7

LEMMA PlaceIs ==
    ASSUME NEW s \in Writing, NEW p \in Places(s)
    PROVE  /\ p \in Nat /\ p >= 1 /\ p <= Len(s) + 1 /\ Len(s) \in Nat
           /\ Past(s, p) <=> p = Len(s) + 1
           /\ ~Past(s, p) <=> p <= Len(s)
           /\ ~Past(s, p) => p \in 1..Len(s)
<1>1. p \in Nat /\ p >= 1 /\ p <= Len(s) + 1 /\ Len(s) \in Nat
  BY LengthIs
<1>2. Past(s, p) <=> p > Len(s)
  BY DEF Past
<1> QED
  BY ONLY <1>1, <1>2

LEMMA CharIs ==
    ASSUME NEW s \in Writing, NEW p \in Nat, p >= 1
    PROVE  /\ CharAt(s, p) # "" => p \in 1..Len(s) /\ CharAt(s, p) = s[p]
           /\ p <= Len(s) => CharAt(s, p) = s[p] /\ s[p] # ""
           /\ p > Len(s) => CharAt(s, p) = ""
<1>1. Len(s) \in Nat /\ (Past(s, p) <=> p > Len(s))
  BY LengthIs
<1>2. p <= Len(s) => p \in 1..Len(s) /\ ~Past(s, p)
  BY <1>1
<1>3. ~Past(s, p) => p \in 1..Len(s)
  BY <1>1
<1>4. \A k \in 1..Len(s) : s[k] # ""
  BY LengthIs
<1>5. p > Len(s) => Past(s, p)
  BY <1>1
<1> QED
  BY <1>2, <1>3, <1>4, <1>5, Zenon DEF CharAt

LEMMA LeastIs ==
    ASSUME NEW T, T \subseteq Nat, T # {}
    PROVE  LET q == CHOOSE q \in T : \A r \in T : q <= r
           IN q \in T /\ \A r \in T : q <= r
  BY LeastNumber, Zenon

\* From p on, atmosphere ends at q.
SkipTo(s, p, q) ==
    /\ q \in Nat /\ p <= q /\ q <= Len(s) + 1
    /\ q <= Len(s) => s[q] \notin Spaces /\ ~InComment(s, p, q)
    /\ \A j \in p..q - 1 : s[j] \in Spaces \/ InComment(s, p, j)

LEMMA SkipIs ==
    ASSUME NEW s \in Writing, NEW p \in Places(s)
    PROVE  SkipTo(s, p, skip_atmosphere(s, p))
<1> DEFINE T == Matter(s, p)
           q == skip_atmosphere(s, p)
<1>1. p \in Nat /\ p >= 1 /\ p <= Len(s) + 1 /\ Len(s) \in Nat
  BY LengthIs
<1>2. T \subseteq Nat /\ Len(s) + 1 \in T /\ \A j \in T : p <= j /\ j <= Len(s) + 1
  BY <1>1 DEF Matter
<1>3. T # {}
  BY <1>2
<1>4. q = CHOOSE j \in T : \A r \in T : j <= r
  BY DEF skip_atmosphere
<1>5. \A j \in p..Len(s) : j \in T <=> (s[j] \notin Spaces /\ ~InComment(s, p, j))
  BY <1>1 DEF Matter
<1> HIDE DEF T, q
<1>6. q \in T /\ \A r \in T : q <= r
  BY <1>2, <1>3, <1>4, LeastIs
<1>7. q \in Nat /\ p <= q /\ q <= Len(s) + 1
  BY <1>2, <1>6
<1>8. q <= Len(s) => s[q] \notin Spaces /\ ~InComment(s, p, q)
  BY <1>1, <1>5, <1>6, <1>7
<1>9. ASSUME NEW j \in p..q - 1 PROVE s[j] \in Spaces \/ InComment(s, p, j)
  <2>1. j \in p..Len(s) /\ ~(q <= j)
    BY <1>1, <1>7
  <2> QED
    BY <1>5, <1>6, <2>1
<1>10. SkipTo(s, p, q)
  BY <1>7, <1>8, <1>9 DEF SkipTo
<1> QED
  BY <1>10 DEF q

LEMMA SkipUnique ==
    ASSUME NEW s \in Writing, NEW p \in Places(s), NEW q, SkipTo(s, p, q)
    PROVE  q = skip_atmosphere(s, p)
<1> DEFINE r == skip_atmosphere(s, p)
<1>1. SkipTo(s, p, r) /\ Len(s) \in Nat /\ p \in Nat
  BY SkipIs, LengthIs
<1> HIDE DEF r
<1>2. q \in Nat /\ r \in Nat /\ p <= q /\ p <= r /\ q <= Len(s) + 1 /\ r <= Len(s) + 1
  BY <1>1 DEF SkipTo
<1>3. ~(q < r)
  <2> SUFFICES ASSUME q < r PROVE FALSE
    OBVIOUS
  <2>1. q \in p..r - 1 /\ q <= Len(s)
    BY <1>1, <1>2
  <2> QED
    BY <1>1, <2>1 DEF SkipTo
<1>4. ~(r < q)
  <2> SUFFICES ASSUME r < q PROVE FALSE
    OBVIOUS
  <2>1. r \in p..q - 1 /\ r <= Len(s)
    BY <1>1, <1>2
  <2> QED
    BY <1>1, <2>1 DEF SkipTo
<1> QED
  BY <1>2, <1>3, <1>4 DEF r

\* What stands where atmosphere ends.
LEMMA SkipAt ==
    ASSUME NEW s \in Writing, NEW p \in Places(s), NEW q, SkipTo(s, p, q)
    PROVE  /\ q \in Places(s) /\ q >= p /\ (Past(s, q) <=> q = Len(s) + 1)
           /\ ~Past(s, q) => s[q] # ";" /\ s[q] # "\n" /\ s[q] # " "
<1>1. p \in Nat /\ p >= 1 /\ p <= Len(s) + 1 /\ Len(s) \in Nat
  BY LengthIs
<1>2. q \in Nat /\ p <= q /\ q <= Len(s) + 1
  BY DEF SkipTo
<1>3. q \in Places(s) /\ q >= p /\ (Past(s, q) <=> q = Len(s) + 1)
  BY <1>1, <1>2 DEF Places, Past
<1>4. ASSUME ~Past(s, q) PROVE s[q] # ";" /\ s[q] # "\n" /\ s[q] # " "
  <2>1. s[q] \notin Spaces /\ ~InComment(s, p, q)
    BY <1>2, <1>4 DEF SkipTo, Past
  <2>a. q \in p..q /\ \A i \in q..q : i = q
    BY <1>1, <1>2
  <2>2. s[q] # ";"
    BY <2>1, <2>a, Zenon DEF InComment
  <2> QED
    BY <2>1, <2>2 DEF Spaces
<1> QED
  BY <1>3, <1>4

LEMMA TokenIs ==
    ASSUME NEW s \in Writing, NEW p \in Places(s)
    PROVE  LET end == TokenEnd(s, p) IN
           /\ end \in Nat /\ p <= end /\ end <= Len(s) + 1 /\ DelimiterAt(s, end)
           /\ \A j \in p..end - 1 : ~DelimiterAt(s, j)
<1> DEFINE T == TokenEnds(s, p)
           q == TokenEnd(s, p)
<1>1. p \in Nat /\ p >= 1 /\ p <= Len(s) + 1 /\ Len(s) \in Nat
  BY LengthIs
<1>2. T \subseteq Nat /\ Len(s) + 1 \in T
  BY <1>1 DEF TokenEnds, DelimiterAt, Past
<1>3. T # {}
  BY <1>2
<1>4. q = CHOOSE j \in T : \A r \in T : j <= r
  BY DEF TokenEnd
<1>5. \A j : j \in T <=> (j \in p..Len(s) + 1 /\ DelimiterAt(s, j))
  BY DEF TokenEnds
<1> HIDE DEF T, q
<1>6. q \in T /\ \A r \in T : q <= r
  BY <1>2, <1>3, <1>4, LeastIs
<1>7. q \in Nat /\ p <= q /\ q <= Len(s) + 1 /\ DelimiterAt(s, q)
  BY <1>1, <1>5, <1>6
<1>8. ASSUME NEW j \in p..q - 1 PROVE ~DelimiterAt(s, j)
  <2>1. j \in p..Len(s) + 1 /\ ~(q <= j)
    BY <1>1, <1>7
  <2> QED
    BY <1>5, <1>6, <2>1
<1> QED
  BY <1>7, <1>8 DEF q

-----------------------------------------------------------------------------
(* The functions of the reader: that there are such, and how far they read. *)

\* What f may give at p.
Outcome(s, p, f, x) ==
    /\ x.ok \in {TRUE, FALSE}
    /\ x.ok => /\ x = Read(x.x, x.p)
               /\ x.p \in Nat /\ x.p <= Len(s) + 1
               /\ x.p >= p /\ (f # "all" => x.p > p)

Later(s, p, u)    == \A q \in Places(s) : q > p => \A f \in Reads : Outcome(s, q, f, u[q][f])
Alike(s, p, u, v) == \A q \in Places(s) : q > p => u[q] = v[q]

LEMMA ResultIs ==
    /\ \A why : Refuse(why).ok = FALSE /\ Refuse(why).why = why
    /\ \A x, p : Read(x, p).ok = TRUE /\ Read(x, p).x = x /\ Read(x, p).p = p
    /\ \A s, p, f, why : Outcome(s, p, f, Refuse(why))
    /\ \A s, p, f, x, q : (q \in Nat /\ q <= Len(s) + 1 /\ q >= p /\ (f # "all" => q > p)) => Outcome(s, p, f, Read(x, q))
<1>1. \A why : Refuse(why).ok = FALSE /\ Refuse(why).why = why
  BY DEF Refuse
<1>2. \A x, p : Read(x, p).ok = TRUE /\ Read(x, p).x = x /\ Read(x, p).p = p
  BY DEF Read
<1>3. \A s, p, f, why : Outcome(s, p, f, Refuse(why))
  BY <1>1, Zenon DEF Outcome
<1>4. ASSUME NEW s, NEW p, NEW f, NEW x, NEW q, q \in Nat, q <= Len(s) + 1, q >= p, f # "all" => q > p
      PROVE  Outcome(s, p, f, Read(x, q))
  <2>1. Read(x, q).ok = TRUE /\ Read(x, q).x = x /\ Read(x, q).p = q
    BY <1>2, Zenon
  <2>2. Read(x, q) = Read(Read(x, q).x, Read(x, q).p)
    BY <2>1, Zenon
  <2> QED
    BY <1>4, <2>1, <2>2, Zenon DEF Outcome
<1> QED
  BY <1>1, <1>2, <1>3, <1>4, Zenon

\* What is put together of something read further on.
LEMMA Onwards ==
    ASSUME NEW s \in Writing, NEW p \in Places(s), NEW q \in Nat, q > p, NEW f, NEW g,
           NEW r, Outcome(s, q, g, r), NEW y
    PROVE  /\ Outcome(s, p, f, r) /\ Outcome(s, p, f, IF r.ok THEN Read(y, r.p) ELSE r)
           /\ Outcome(s, p, f, IF r.ok THEN Read(y, r.p) ELSE IF r = NoMore THEN Headless ELSE r)
<1>1. p \in Nat
  BY LengthIs
<1>2. CASE ~r.ok
  <2>1. Outcome(s, p, f, r)
    BY <1>2, Zenon DEF Outcome
  <2> QED
    BY <1>2, <2>1, ResultIs, Zenon DEF Headless
<1>3. CASE r.ok
  <2>1. r.p \in Nat /\ r.p <= Len(s) + 1 /\ r.p >= q /\ r = Read(r.x, r.p) /\ r.ok \in {TRUE, FALSE}
    BY <1>3, Zenon DEF Outcome
  <2>2. r.p >= p /\ r.p > p
    BY <1>1, <2>1
  <2>3. Outcome(s, p, f, Read(y, r.p)) /\ Outcome(s, p, f, Read(r.x, r.p))
    BY <2>1, <2>2, ResultIs, Zenon
  <2>4. Outcome(s, p, f, r)
    BY <2>1, <2>3, Zenon
  <2> QED
    BY <1>3, <2>3, <2>4, Zenon
<1> QED
  BY <1>2, <1>3, Zenon

\* Where a datum can begin.
Begins(s, q) == ~Past(s, q) => s[q] # ";" /\ s[q] # "\n" /\ s[q] # " "

LEMMA AtomStep ==
    ASSUME NEW s \in Writing, NEW q \in Places(s), Begins(s, q), ~Past(s, q),
           s[q] # "(", s[q] # ")", s[q] # "\"", s[q] # "'"
    PROVE  read_atom(s, q) = Read(Atom(SubSeq(s, q, TokenEnd(s, q) - 1)), TokenEnd(s, q)) /\ TokenEnd(s, q) > q
<1>1. ~DelimiterAt(s, q)
  BY Zenon DEF Begins, DelimiterAt, Delimiters, Spaces
<1>2. TokenEnd(s, q) # q
  BY <1>1, TokenIs, Zenon
<1>3. read_atom(s, q) = Read(Atom(SubSeq(s, q, TokenEnd(s, q) - 1)), TokenEnd(s, q))
  BY DEF read_atom
<1>4. q \in Nat /\ TokenEnd(s, q) \in Nat /\ q <= TokenEnd(s, q)
  BY TokenIs, LengthIs
<1>5. TokenEnd(s, q) > q
  BY ONLY <1>2, <1>4
<1> QED
  BY <1>3, <1>5

\* The place behind a character.
LEMMA NextPlace ==
    ASSUME NEW s \in Writing, NEW q \in Places(s), ~Past(s, q)
    PROVE  q \in Nat /\ q + 1 \in Nat /\ q + 1 > q /\ q + 1 \in Places(s)
<1>1. q \in Nat /\ q <= Len(s) /\ Len(s) \in Nat
  BY PlaceIs
<1>2. q + 1 \in Nat /\ q + 1 >= 1 /\ q + 1 <= Len(s) + 1 /\ q + 1 > q
  BY ONLY <1>1
<1> QED
  BY <1>1, <1>2, LengthIs, Zenon

LEMMA ExprStep ==
    ASSUME NEW s \in Writing, NEW q \in Places(s), Begins(s, q),
           NEW u, NEW v, Later(s, q, u), Alike(s, q, u, v)
    PROVE  Outcome(s, q, "expr", read_expr(s, q, u)) /\ read_expr(s, q, u) = read_expr(s, q, v)
<1> DEFINE x == read_expr(s, q, u)
<1>0. {"expr", "list", "vector", "string"} \subseteq Reads
  BY DEF Reads
<1>1. CASE Past(s, q)
  BY <1>1, ResultIs, Zenon DEF read_expr, NoMore
<1>2. CASE ~Past(s, q) /\ s[q] \in {"(", "\"", "'"}
  <2>1. q + 1 \in Nat /\ q + 1 > q /\ q + 1 \in Places(s)
    BY <1>2, NextPlace
  <2>2. u[q + 1] = v[q + 1] /\ \A f \in Reads : Outcome(s, q + 1, f, u[q + 1][f])
    BY <2>1, Zenon DEF Later, Alike
  <2>3. ASSUME NEW f \in Reads, NEW y
        PROVE  /\ Outcome(s, q, "expr", u[q + 1][f])
               /\ Outcome(s, q, "expr", IF u[q + 1][f].ok THEN Read(y, u[q + 1][f].p)
                                        ELSE IF u[q + 1][f] = NoMore THEN Headless ELSE u[q + 1][f])
    <3> DEFINE r == u[q + 1][f]
    <3>1. Outcome(s, q + 1, f, r)
      BY <2>2, Zenon
    <3> HIDE DEF r
    <3>2. /\ Outcome(s, q, "expr", r)
          /\ Outcome(s, q, "expr", IF r.ok THEN Read(y, r.p) ELSE IF r = NoMore THEN Headless ELSE r)
      BY ONLY <2>1, <3>1, Onwards, s \in Writing, q \in Places(s)
    <3> QED
      BY <3>2 DEF r
  <2>4. CASE s[q] = "("
    <3>1. read_expr(s, q, u) = u[q + 1]["list"] /\ read_expr(s, q, v) = v[q + 1]["list"]
      BY <1>2, <2>4, Zenon DEF read_expr
    <3> QED
      BY <1>0, <2>2, <2>3, <3>1
  <2>5. CASE s[q] = "\""
    <3>1. read_expr(s, q, u) = u[q + 1]["string"] /\ read_expr(s, q, v) = v[q + 1]["string"]
      BY <1>2, <2>5, Zenon DEF read_expr
    <3> QED
      BY <1>0, <2>2, <2>3, <3>1
  <2>6. CASE s[q] = "'"
    <3> DEFINE r == u[q + 1]["expr"]
    <3>1. read_expr(s, q, u) = read_abbrev(u[q + 1]["expr"]) /\ read_expr(s, q, v) = read_abbrev(v[q + 1]["expr"])
      BY <1>2, <2>6, Zenon DEF read_expr
    <3>2. Outcome(s, q, "expr", IF r.ok THEN Read(Quoted(r.x), r.p) ELSE IF r = NoMore THEN Headless ELSE r)
      BY <1>0, <2>3, Zenon
    <3> HIDE DEF r
    <3>3. Outcome(s, q, "expr", read_abbrev(r))
      BY <3>2, AbbrevIs
    <3> QED
      BY <2>2, <3>1, <3>3 DEF r
  <2> QED
    BY <1>2, <2>4, <2>5, <2>6
<1>3. CASE ~Past(s, q) /\ s[q] = ")"
  <2>1. read_expr(s, q, u) = Refuse("unexpected )") /\ read_expr(s, q, v) = Refuse("unexpected )")
    BY <1>3, Zenon DEF read_expr
  <2>2. Outcome(s, q, "expr", Refuse("unexpected )"))
    BY ResultIs, Zenon
  <2> QED
    BY <2>1, <2>2
<1>4. CASE ~Past(s, q) /\ s[q] = "#" /\ CharAt(s, q + 1) = "("
  <2>1. q + 1 \in Nat /\ q + 1 \in Places(s) /\ q \in Nat /\ q >= 1 /\ q + 1 >= 1
    BY <1>4, NextPlace, LengthIs
  <2>2. CharAt(s, q + 1) # ""
    BY <1>4
  <2>3. q + 1 \in 1..Len(s) /\ Len(s) \in Nat
    BY ONLY <2>1, <2>2, CharIs, LengthIs, s \in Writing
  <2>b. q + 2 \in Nat /\ q + 2 > q /\ q + 2 >= 1 /\ q + 2 <= Len(s) + 1
    BY ONLY <2>1, <2>3
  <2>4. q + 2 \in Nat /\ q + 2 > q /\ q + 2 \in Places(s)
    BY <2>b, LengthIs, Zenon
  <2> DEFINE r == u[q + 2]["vector"]
  <2>5. u[q + 2] = v[q + 2] /\ Outcome(s, q + 2, "vector", r)
    BY <1>0, <2>4, Zenon DEF Later, Alike
  <2>6. read_expr(s, q, u) = read_vector(u[q + 2]["vector"]) /\ read_expr(s, q, v) = read_vector(v[q + 2]["vector"])
    BY <1>4, Zenon DEF read_expr
  <2> HIDE DEF r
  <2>7. Outcome(s, q, "expr", IF r.ok THEN Read(Vec(r.x), r.p) ELSE r)
    BY <2>4, <2>5, Onwards, Zenon
  <2>8. Outcome(s, q, "expr", read_vector(r))
    BY <2>7, VectorIs
  <2> QED
    BY <2>5, <2>6, <2>8 DEF r
<1>5. CASE /\ ~Past(s, q) /\ s[q] \notin {"(", ")", "\"", "'"}
           /\ ~(s[q] = "#" /\ CharAt(s, q + 1) = "(")
  <2>1. read_expr(s, q, u) = read_atom(s, q) /\ read_expr(s, q, v) = read_atom(s, q)
    BY <1>5, Zenon DEF read_expr
  <2> DEFINE end == TokenEnd(s, q)
  <2>2. read_atom(s, q) = Read(Atom(SubSeq(s, q, end - 1)), end) /\ end > q
    BY <1>5, AtomStep
  <2>3. end \in Nat /\ end <= Len(s) + 1 /\ end >= q
    BY TokenIs
  <2> HIDE DEF end
  <2>4. Outcome(s, q, "expr", Read(Atom(SubSeq(s, q, end - 1)), end))
    BY <2>2, <2>3, ResultIs, Zenon
  <2> QED
    BY <2>1, <2>2, <2>4
<1> QED
  BY <1>1, <1>2, <1>3, <1>4, <1>5

LEMMA StringStep ==
    ASSUME NEW s \in Writing, NEW q \in Places(s), NEW u, NEW v, Later(s, q, u), Alike(s, q, u, v)
    PROVE  Outcome(s, q, "string", read_string(s, q, u)) /\ read_string(s, q, u) = read_string(s, q, v)
<1>0. "string" \in Reads
  BY DEF Reads
<1>1. CASE Past(s, q)
  BY <1>1, ResultIs, Zenon DEF read_string, Unfinished
<1>2. CASE ~Past(s, q) /\ s[q] = "\""
  <2>1. read_string(s, q, u) = Read(Str(<<>>), q + 1) /\ read_string(s, q, v) = Read(Str(<<>>), q + 1)
    BY <1>2, Zenon DEF read_string
  <2>a. q \in Nat /\ q <= Len(s) /\ Len(s) \in Nat
    BY <1>2, PlaceIs
  <2>2. q + 1 \in Nat /\ q + 1 > q /\ q + 1 <= Len(s) + 1 /\ q + 1 >= q
    BY ONLY <2>a
  <2>3. Outcome(s, q, "string", Read(Str(<<>>), q + 1))
    BY <2>2, ResultIs, Zenon
  <2> QED
    BY <2>1, <2>3
<1>3. CASE ~Past(s, q) /\ s[q] \notin {"\"", "\\"}
  <2> DEFINE r == u[q + 1]["string"]
  <2>1. q + 1 \in Nat /\ q + 1 > q /\ q + 1 \in Places(s)
    BY <1>3, NextPlace
  <2>2. u[q + 1] = v[q + 1] /\ Outcome(s, q + 1, "string", r)
    BY <1>0, <2>1, Zenon DEF Later, Alike
  <2>3. read_string(s, q, u) = WithChar(s[q], u[q + 1]["string"]) /\ read_string(s, q, v) = WithChar(s[q], v[q + 1]["string"])
    BY <1>3, Zenon DEF read_string
  <2> HIDE DEF r
  <2> DEFINE y == Str(<<s[q]>> \o r.x[2])
  <2> HIDE DEF y
  <2>y. Outcome(s, q, "string", IF r.ok THEN Read(y, r.p) ELSE r)
    BY <2>1, <2>2, Onwards, Zenon
  <2>4. Outcome(s, q, "string", IF r.ok THEN Read(Str(<<s[q]>> \o r.x[2]), r.p) ELSE r)
    BY <2>y DEF y
  <2>5. Outcome(s, q, "string", WithChar(s[q], r))
    BY <2>4, WithCharIs
  <2> QED
    BY <2>2, <2>3, <2>5 DEF r
<1>4. CASE ~Past(s, q) /\ s[q] = "\\" /\ Past(s, q + 1)
  BY <1>4, ResultIs, Zenon DEF read_string, Unfinished
<1>5. CASE ~Past(s, q) /\ s[q] = "\\" /\ ~Past(s, q + 1)
  <2> DEFINE r == u[q + 2]["string"]
  <2>1. q + 1 \in Places(s) /\ q \in Nat
    BY <1>5, NextPlace
  <2>2. (q + 1) + 1 \in Nat /\ (q + 1) + 1 > q + 1 /\ (q + 1) + 1 \in Places(s)
    BY <1>5, <2>1, NextPlace
  <2>3. q + 2 = (q + 1) + 1 /\ q + 2 > q
    BY <2>1
  <2>4. q + 2 \in Nat /\ q + 2 > q /\ q + 2 \in Places(s)
    BY <2>2, <2>3
  <2>5. u[q + 2] = v[q + 2] /\ Outcome(s, q + 2, "string", r)
    BY <1>0, <2>4, Zenon DEF Later, Alike
  <2>6. read_string(s, q, u) = WithChar(s[q + 1], u[q + 2]["string"]) /\ read_string(s, q, v) = WithChar(s[q + 1], v[q + 2]["string"])
    BY <1>5, Zenon DEF read_string
  <2> HIDE DEF r
  <2> DEFINE y == Str(<<s[q + 1]>> \o r.x[2])
  <2> HIDE DEF y
  <2>y. Outcome(s, q, "string", IF r.ok THEN Read(y, r.p) ELSE r)
    BY <2>4, <2>5, Onwards, Zenon
  <2>7. Outcome(s, q, "string", IF r.ok THEN Read(Str(<<s[q + 1]>> \o r.x[2]), r.p) ELSE r)
    BY <2>y DEF y
  <2>8. Outcome(s, q, "string", WithChar(s[q + 1], r))
    BY <2>7, WithCharIs
  <2> QED
    BY <2>5, <2>6, <2>8 DEF r
<1> QED
  BY <1>1, <1>2, <1>3, <1>4, <1>5

\* A place that was read to.
LEMMA ReadPlace ==
    ASSUME NEW s \in Writing, NEW q \in Places(s), NEW f, NEW x, Outcome(s, q, f, x), x.ok
    PROVE  x.p \in Places(s) /\ x.p \in Nat /\ x.p >= q /\ (f # "all" => x.p > q) /\ x = Read(x.x, x.p)
<1>1. /\ x.p \in Nat /\ x.p <= Len(s) + 1 /\ x.p >= q /\ (f # "all" => x.p > q)
      /\ x = Read(x.x, x.p)
  BY Zenon DEF Outcome
<1>2. q \in Nat /\ q >= 1
  BY PlaceIs
<1>3. x.p >= 1
  BY <1>1, <1>2
<1> QED
  BY <1>1, <1>3, LengthIs, Zenon

LEMMA ItemStep ==
    ASSUME NEW s \in Writing, NEW q \in Places(s), Begins(s, q), NEW f \in {"list", "rest", "vector"},
           NEW u, NEW v, Later(s, q, u), Alike(s, q, u, v)
    PROVE  Outcome(s, q, f, read_item(s, q, u, f)) /\ read_item(s, q, u, f) = read_item(s, q, v, f)
<1>0. {"expr", "rest", "vector"} \subseteq Reads
  BY DEF Reads
<1>1. CASE Past(s, q)
  BY <1>1, ResultIs, Zenon DEF read_item, Unfinished
<1>2. CASE ~Past(s, q) /\ s[q] = ")"
  <2>1. read_item(s, q, u, f) = Read(Empty, q + 1) /\ read_item(s, q, v, f) = Read(Empty, q + 1)
    BY <1>2, Zenon DEF read_item
  <2>a. q \in Nat /\ q <= Len(s) /\ Len(s) \in Nat
    BY <1>2, PlaceIs
  <2>2. q + 1 \in Nat /\ q + 1 > q /\ q + 1 <= Len(s) + 1 /\ q + 1 >= q
    BY ONLY <2>a
  <2>3. Outcome(s, q, f, Read(Empty, q + 1))
    BY <2>2, ResultIs, Zenon
  <2> QED
    BY <2>1, <2>3
<1>3. CASE ~Past(s, q) /\ s[q] # ")" /\ f # "vector" /\ at_dot(s, q) /\ f = "list"
  BY <1>3, ResultIs, Zenon DEF read_item, Misplaced
<1>4. CASE ~Past(s, q) /\ s[q] # ")" /\ f # "vector" /\ at_dot(s, q) /\ f # "list"
  <2> DEFINE r == u[q + 1]["expr"]
  <2>1. q + 1 \in Nat /\ q + 1 > q /\ q + 1 \in Places(s)
    BY <1>4, NextPlace
  <2>2. u[q + 1] = v[q + 1] /\ Outcome(s, q + 1, "expr", r)
    BY <1>0, <2>1, Zenon DEF Later, Alike
  <2>3. read_item(s, q, u, f) = close_dotted(s, u[q + 1]["expr"]) /\ read_item(s, q, v, f) = close_dotted(s, v[q + 1]["expr"])
    BY <1>4, Zenon DEF read_item
  <2> HIDE DEF r
  <2>4. Outcome(s, q, f, close_dotted(s, r))
    <3>1. CASE ~r.ok
      <4>1. Outcome(s, q, f, r)
        BY <2>1, <2>2, Onwards, Zenon
      <4>2. Outcome(s, q, f, Unfinished)
        BY ResultIs, Zenon DEF Unfinished
      <4> QED
        BY <3>1, <4>1, <4>2, ClosedIs
    <3>2. CASE r.ok
      <4> DEFINE end == skip_atmosphere(s, r.p)
      <4>1. r.p \in Places(s) /\ r.p > q + 1 /\ r.p \in Nat
        BY <2>1, <2>2, <3>2, ReadPlace
      <4>2. SkipTo(s, r.p, end) /\ end \in Places(s) /\ end >= r.p
        BY <4>1, SkipIs, SkipAt
      <4> HIDE DEF end
      <4>3. close_dotted(s, r) = Closed(s, r, end)
        BY <3>2, ClosedIs DEF end
      <4>4. CASE ~Past(s, end) /\ s[end] = ")"
        <5>1. Closed(s, r, end) = Read(r.x, end + 1)
          BY <4>4 DEF Closed
        <5>2. end \in Nat /\ end <= Len(s) /\ q \in Nat
          BY <4>2, <4>4, PlaceIs
        <5>3. end + 1 \in Nat /\ end + 1 > q /\ end + 1 <= Len(s) + 1 /\ end + 1 >= q
          BY <4>1, <4>2, <5>2
        <5>4. Outcome(s, q, f, Read(r.x, end + 1))
          BY <5>3, ResultIs, Zenon
        <5> QED
          BY <4>3, <5>1, <5>4
      <4>5. CASE ~(~Past(s, end) /\ s[end] = ")")
        <5>1. Closed(s, r, end) \in {Unfinished, Misplaced}
          BY <4>5 DEF Closed
        <5>2. Outcome(s, q, f, Unfinished) /\ Outcome(s, q, f, Misplaced)
          BY ResultIs, Zenon DEF Unfinished, Misplaced
        <5> QED
          BY <4>3, <5>1, <5>2
      <4> QED
        BY <4>4, <4>5
    <3> QED
      BY <3>1, <3>2
  <2> QED
    BY <2>2, <2>3, <2>4 DEF r
<1>5. CASE ~Past(s, q) /\ s[q] # ")" /\ ~(f # "vector" /\ at_dot(s, q))
  <2> DEFINE x == read_expr(s, q, u)
             g == IF f = "list" THEN "rest" ELSE f
  <2>1. Outcome(s, q, "expr", x) /\ x = read_expr(s, q, v)
    BY ExprStep
  <2>2. read_item(s, q, u, f) = Item(x, u, f) /\ read_item(s, q, v, f) = Item(read_expr(s, q, v), v, f)
    BY <1>5, Zenon DEF read_item
  <2>3. g \in Reads
    BY <1>0
  <2> HIDE DEF x
  <2>4. /\ Item(x, u, f) = IF x.ok THEN Consed(x.x, u[x.p][g]) ELSE x
        /\ Item(x, v, f) = IF x.ok THEN Consed(x.x, v[x.p][g]) ELSE x
    BY ItemIs
  <2> HIDE DEF g
  <2>5. CASE ~x.ok
    <3>1. x.ok \in {TRUE, FALSE}
      BY <2>1, Zenon DEF Outcome
    <3>2. Outcome(s, q, f, x)
      BY <2>5, <3>1, Zenon DEF Outcome
    <3> QED
      BY <2>1, <2>2, <2>4, <2>5, <3>2
  <2>6. CASE x.ok
    <3> DEFINE r == u[x.p][g]
    <3>1. x.p \in Places(s) /\ x.p > q /\ x.p \in Nat
      BY <2>1, <2>6, ReadPlace
    <3>2. u[x.p] = v[x.p] /\ Outcome(s, x.p, g, r)
      BY <2>3, <3>1, Zenon DEF Later, Alike
    <3> HIDE DEF r
    <3> DEFINE y == Pair(x.x, r.x)
    <3> HIDE DEF y
    <3>y. Outcome(s, q, f, IF r.ok THEN Read(y, r.p) ELSE r)
      BY <3>1, <3>2, Onwards, Zenon
    <3>3. Outcome(s, q, f, IF r.ok THEN Read(Pair(x.x, r.x), r.p) ELSE r)
      BY <3>y DEF y
    <3>4. Outcome(s, q, f, Consed(x.x, r))
      BY <3>3, ConsedIs
    <3> QED
      BY <2>1, <2>2, <2>4, <2>6, <3>2, <3>4 DEF r
  <2> QED
    BY <2>5, <2>6
<1> QED
  BY <1>1, <1>2, <1>3, <1>4, <1>5

LEMMA FormsStep ==
    ASSUME NEW s \in Writing, NEW q \in Places(s), Begins(s, q), NEW u, NEW v, Later(s, q, u), Alike(s, q, u, v)
    PROVE  Outcome(s, q, "all", read_forms(s, q, u)) /\ read_forms(s, q, u) = read_forms(s, q, v)
<1> DEFINE x == read_expr(s, q, u)
<1>1. Outcome(s, q, "expr", x) /\ x = read_expr(s, q, v)
  BY ExprStep
<1>2. /\ read_forms(s, q, u) = IF x.ok THEN WithForm(x.x, u[x.p]["all"])
                               ELSE IF x = NoMore THEN Read(<<>>, q) ELSE x
      /\ read_forms(s, q, v) = IF x.ok THEN WithForm(x.x, v[x.p]["all"])
                               ELSE IF x = NoMore THEN Read(<<>>, q) ELSE x
  BY <1>1, FormsIs
<1>3. "all" \in Reads
  BY DEF Reads
<1>4. q \in Nat /\ q <= Len(s) + 1 /\ q >= q
  BY PlaceIs
<1> HIDE DEF x
<1>5. CASE ~x.ok
  <2>1. Outcome(s, q, "all", x)
    BY <1>1, <1>5, Zenon DEF Outcome
  <2>2. Outcome(s, q, "all", Read(<<>>, q))
    BY <1>4, ResultIs, Zenon
  <2> QED
    BY <1>2, <1>5, <2>1, <2>2
<1>6. CASE x.ok
  <2> DEFINE r == u[x.p]["all"]
  <2>1. x.p \in Places(s) /\ x.p > q /\ x.p \in Nat
    BY <1>1, <1>6, ReadPlace
  <2>2. u[x.p] = v[x.p] /\ Outcome(s, x.p, "all", r)
    BY <1>3, <2>1, Zenon DEF Later, Alike
  <2> HIDE DEF r
  <2> DEFINE y == <<x.x>> \o r.x
  <2> HIDE DEF y
  <2>y. Outcome(s, q, "all", IF r.ok THEN Read(y, r.p) ELSE r)
    BY <2>1, <2>2, Onwards, Zenon
  <2>3. Outcome(s, q, "all", IF r.ok THEN Read(<<x.x>> \o r.x, r.p) ELSE r)
    BY <2>y DEF y
  <2>4. Outcome(s, q, "all", WithForm(x.x, r))
    BY <2>3, WithFormIs
  <2> QED
    BY <1>2, <1>6, <2>2, <2>4 DEF r
<1> QED
  BY <1>5, <1>6

LEMMA ReadingStep ==
    ASSUME NEW s \in Writing, NEW p \in Places(s), NEW f \in Reads, NEW u, NEW v,
           Later(s, p, u), Alike(s, p, u, v)
    PROVE  Outcome(s, p, f, Reading(s, p, u, f)) /\ Reading(s, p, u, f) = Reading(s, p, v, f)
<1> DEFINE q == skip_atmosphere(s, p)
<1>1. SkipTo(s, p, q)
  BY SkipIs
<1>2. q \in Places(s) /\ q >= p /\ Begins(s, q)
  BY <1>1, SkipAt DEF Begins
<1>3. p \in Nat /\ q \in Nat
  BY <1>2, PlaceIs
<1>a. \A r \in Places(s) : r \in Nat
  BY PlaceIs
<1>4. \A r \in Places(s) : r > q => r > p
  BY ONLY <1>2, <1>3, <1>a
<1>5. Later(s, q, u) /\ Alike(s, q, u, v)
  BY <1>4, Zenon DEF Later, Alike
<1>6. ASSUME NEW x, Outcome(s, q, f, x) PROVE Outcome(s, p, f, x)
  <2>1. CASE ~x.ok
    BY <1>6, <2>1, Zenon DEF Outcome
  <2>2. CASE x.ok
    <3>1. /\ x.p \in Nat /\ x.p <= Len(s) + 1 /\ x.p >= q /\ (f # "all" => x.p > q)
          /\ x = Read(x.x, x.p) /\ x.ok \in {TRUE, FALSE}
      BY <1>6, <2>2, Zenon DEF Outcome
    <3>2. x.p >= p /\ (x.p > q => x.p > p)
      BY <1>2, <1>3, <3>1
    <3> QED
      BY <3>1, <3>2, Zenon DEF Outcome
  <2> QED
    BY <2>1, <2>2
<1>7. CASE f = "string"
  <2>1. Reading(s, p, u, f) = read_string(s, p, u) /\ Reading(s, p, v, f) = read_string(s, p, v)
    BY <1>7, Zenon DEF Reading
  <2> QED
    BY <1>7, <2>1, StringStep
<1>8. CASE f = "expr"
  <2>1. Reading(s, p, u, f) = read_expr(s, q, u) /\ Reading(s, p, v, f) = read_expr(s, q, v)
    BY <1>8 DEF Reading
  <2>2. Outcome(s, q, f, read_expr(s, q, u)) /\ read_expr(s, q, u) = read_expr(s, q, v)
    BY <1>2, <1>5, <1>8, ExprStep
  <2> QED
    BY <1>6, <2>1, <2>2
<1>9. CASE f = "all"
  <2>1. Reading(s, p, u, f) = read_forms(s, q, u) /\ Reading(s, p, v, f) = read_forms(s, q, v)
    BY <1>9 DEF Reading
  <2>2. Outcome(s, q, f, read_forms(s, q, u)) /\ read_forms(s, q, u) = read_forms(s, q, v)
    BY <1>2, <1>5, <1>9, FormsStep
  <2> QED
    BY <1>6, <2>1, <2>2
<1>10. CASE f \in {"list", "rest", "vector"}
  <2>1. Reading(s, p, u, f) = read_item(s, q, u, f) /\ Reading(s, p, v, f) = read_item(s, q, v, f)
    BY <1>10 DEF Reading
  <2>2. Outcome(s, q, f, read_item(s, q, u, f)) /\ read_item(s, q, u, f) = read_item(s, q, v, f)
    BY <1>2, <1>5, <1>10, ItemStep
  <2> QED
    BY <1>6, <2>1, <2>2
<1> QED
  BY <1>7, <1>8, <1>9, <1>10 DEF Reads

\* u reads as it should from k on.
ReadsFrom(s, k, u) ==
    \A p \in Places(s) : p >= k =>
        /\ u[p] = [f \in Reads |-> Reading(s, p, u, f)]
        /\ \A f \in Reads : Outcome(s, p, f, u[p][f])

LEMMA ReaderExists ==
    ASSUME NEW s \in Writing
    PROVE  \E r : r = [p \in Places(s) |-> [f \in Reads |-> Reading(s, p, r, f)]]
<1> DEFINE N == Len(s) + 1
           T == {n \in Nat : n <= N /\ ~\E u : ReadsFrom(s, (N + 1) - n, u)}
<1>0. N \in Nat
  BY LengthIs
<1> HIDE DEF N
<1>p. \A p \in Places(s) : p \in Nat /\ p >= 1 /\ p <= N
  BY PlaceIs DEF N
<1>1. T = {}
  <2> SUFFICES ASSUME T # {} PROVE FALSE
    OBVIOUS
  <2>1. PICK n \in T : \A m \in T : n <= m
    BY LeastNumber
  <2>2. n \in Nat /\ n <= N /\ ~\E u : ReadsFrom(s, (N + 1) - n, u)
    OBVIOUS
  <2> DEFINE k == (N + 1) - n
  <2>3. k \in Nat /\ k >= 1 /\ k <= N + 1
    BY <1>0, <2>2
  <2>4. CASE n = 0
    <3>1. \A p \in Places(s) : ~(p >= k)
      BY <1>0, <1>p, <2>4
    <3>2. ReadsFrom(s, k, s)
      BY <3>1, Zenon DEF ReadsFrom
    <3> QED
      BY <2>2, <3>2
  <2>5. CASE n # 0
    <3>1. n - 1 \in Nat /\ n - 1 \notin T /\ n - 1 <= N /\ (N + 1) - (n - 1) = k + 1
      BY <1>0, <2>1, <2>2, <2>5
    <3>2. PICK u : ReadsFrom(s, k + 1, u)
      BY <3>1
    <3> HIDE DEF T, k
    <3> DEFINE v == [p \in Places(s) |-> IF p = k THEN [f \in Reads |-> Reading(s, k, u, f)] ELSE u[p]]
    <3>3. ASSUME NEW p \in Places(s), p >= k
          PROVE  /\ v[p] = [f \in Reads |-> Reading(s, p, v, f)]
                 /\ \A f \in Reads : Outcome(s, p, f, v[p][f])
      <4>1. \A q \in Places(s) : q > p => q >= k + 1 /\ q # k
        BY <1>p, <2>3, <3>3
      <4>2. Alike(s, p, u, v)
        BY <4>1 DEF Alike
      <4>3. Later(s, p, u)
        BY <3>2, <4>1, Zenon DEF Later, ReadsFrom
      <4>4. ASSUME NEW f \in Reads
            PROVE  Outcome(s, p, f, Reading(s, p, u, f)) /\ Reading(s, p, u, f) = Reading(s, p, v, f)
        BY <4>2, <4>3, ReadingStep, Zenon
      <4>5. v[p] = [f \in Reads |-> Reading(s, p, u, f)]
        <5>1. CASE p = k
          BY <5>1
        <5>2. CASE p # k
          <6>1. p >= k + 1
            BY <1>p, <2>3, <3>3, <5>2
          <6>2. u[p] = [f \in Reads |-> Reading(s, p, u, f)]
            BY <3>2, <6>1, Zenon DEF ReadsFrom
          <6> QED
            BY <5>2, <6>2
        <5> QED
          BY <5>1, <5>2
      <4> HIDE DEF v
      <4>6. \A f \in Reads : Outcome(s, p, f, v[p][f])
        BY <4>4, <4>5
      <4>7. [f \in Reads |-> Reading(s, p, u, f)] = [f \in Reads |-> Reading(s, p, v, f)]
        BY <4>4
      <4> QED
        BY <4>5, <4>6, <4>7
    <3> HIDE DEF v
    <3>4. ReadsFrom(s, k, v)
      BY <3>3, Zenon DEF ReadsFrom
    <3> QED
      BY <2>2, <3>4 DEF k
  <2> QED
    BY <2>4, <2>5
<1>2. N \in Nat /\ N \notin T /\ N <= N /\ (N + 1) - N = 1
  BY <1>0, <1>1
<1>3. PICK u : ReadsFrom(s, 1, u)
  BY <1>2
<1> DEFINE r == [p \in Places(s) |-> u[p]]
<1>4. ASSUME NEW p \in Places(s) PROVE r[p] = [f \in Reads |-> Reading(s, p, r, f)]
  <2>1. \A q \in Places(s) : q >= 1
    BY <1>p
  <2>2. Alike(s, p, u, r)
    BY DEF Alike
  <2>3. Later(s, p, u)
    BY <1>3, <2>1, Zenon DEF Later, ReadsFrom
  <2>4. ASSUME NEW f \in Reads PROVE Reading(s, p, u, f) = Reading(s, p, r, f)
    BY <2>2, <2>3, ReadingStep, Zenon
  <2>5. u[p] = [f \in Reads |-> Reading(s, p, u, f)]
    BY <1>3, <2>1, Zenon DEF ReadsFrom
  <2>6. r[p] = u[p]
    OBVIOUS
  <2> HIDE DEF r
  <2>7. [f \in Reads |-> Reading(s, p, u, f)] = [f \in Reads |-> Reading(s, p, r, f)]
    BY <2>4
  <2> QED
    BY <2>5, <2>6, <2>7
<1>5. r = [p \in Places(s) |-> r[p]]
  OBVIOUS
<1> HIDE DEF r
<1>6. r = [p \in Places(s) |-> [f \in Reads |-> Reading(s, p, r, f)]]
  BY <1>4, <1>5
<1> QED
  BY <1>6

\* What the reader reads at each place.
LEMMA ReaderIs ==
    ASSUME NEW s \in Writing
    PROVE  \A p \in Places(s) : \A f \in Reads :
              /\ Reader(s)[p][f] = Reading(s, p, Reader(s), f)
              /\ Outcome(s, p, f, Reader(s)[p][f])
<1> DEFINE Body(r) == [p \in Places(s) |-> [f \in Reads |-> Reading(s, p, r, f)]]
           R == Reader(s)
<1>1. R = CHOOSE r : r = Body(r)
  BY DEF Reader
<1>2. \E r : r = Body(r)
  BY ReaderExists
<1> HIDE DEF Body, R
<1>3. R = Body(R)
  BY <1>1, <1>2
<1>4. ASSUME NEW p \in Places(s), NEW f \in Reads PROVE R[p][f] = Reading(s, p, R, f)
  BY <1>3 DEF Body
<1> DEFINE N == Len(s) + 1
           T == {n \in Nat : \E p \in Places(s), f \in Reads : N - p = n /\ ~Outcome(s, p, f, R[p][f])}
<1>p. N \in Nat /\ \A p \in Places(s) : p \in Nat /\ p >= 1 /\ p <= N
  BY PlaceIs, LengthIs
<1> HIDE DEF N
<1>5. T = {}
  <2> SUFFICES ASSUME T # {} PROVE FALSE
    OBVIOUS
  <2>1. PICK n \in T : \A m \in T : n <= m
    BY LeastNumber
  <2>2. PICK p \in Places(s), f \in Reads : N - p = n /\ ~Outcome(s, p, f, R[p][f])
    OBVIOUS
  <2>3. ASSUME NEW q \in Places(s), q > p, NEW g \in Reads PROVE Outcome(s, q, g, R[q][g])
    <3>1. N - q \in Nat /\ ~(n <= N - q)
      BY <1>p, <2>2, <2>3
    <3> QED
      BY <2>1, <3>1
  <2>4. Later(s, p, R) /\ Alike(s, p, R, R)
    BY <2>3, Zenon DEF Later, Alike
  <2>5. Outcome(s, p, f, Reading(s, p, R, f))
    BY <2>4, ReadingStep, Zenon
  <2> QED
    BY <1>4, <2>2, <2>5
<1>6. ASSUME NEW p \in Places(s), NEW f \in Reads PROVE Outcome(s, p, f, R[p][f])
  <2>1. N - p \in Nat /\ N - p \notin T
    BY <1>p, <1>5
  <2> QED
    BY <2>1
<1> QED
  BY <1>4, <1>6 DEF R

-----------------------------------------------------------------------------
(* How deep in brackets, whether in a string or a comment, after each      *)
(* character: what is_balanced and read_one_from_port both work out.       *)

Situations == [depth : Int, string : BOOLEAN, comment : BOOLEAN]
Nowhere    == [depth |-> 0, string |-> FALSE, comment |-> FALSE]

\* State after state.
Links(n, a, h, g) == [k \in 0..n |-> IF k = 0 THEN a ELSE h[k][g[k - 1]]]

LEMMA Chain ==
    ASSUME NEW n \in Nat, NEW S, NEW a \in S, NEW h, \A k \in 1..n : \A y \in S : h[k][y] \in S
    PROVE  \E g \in Funs(0..n, S) : g = Links(n, a, h, g)
<1> DEFINE D == 0..n
           Step(f, k) == IF k = 0 THEN a ELSE h[k][f[k - 1]]
           H    == [f \in Funs(D, S) |-> [k \in D |-> Step(f, k)]]
           rank == [k \in D |-> k]
<1>0. \A k \in D : k \in Nat /\ (k # 0 => k \in 1..n /\ k - 1 \in D /\ k - 1 < k)
  OBVIOUS
<1>1. rank \in Funs(D, Nat)
  BY DEF Funs
<1>2. ASSUME NEW f \in Funs(D, S), NEW k \in D PROVE Step(f, k) \in S
  <2>1. CASE k # 0
    <3>1. k - 1 \in D /\ k \in 1..n
      BY <1>0, <2>1
    <3>2. f[k - 1] \in S
      BY <3>1, Zenon DEF Funs
    <3> QED
      BY <2>1, <3>1, <3>2, Zenon
  <2> QED
    BY <2>1
<1>3. H \in Funs(Funs(D, S), Funs(D, S))
  <2>1. \A f \in Funs(D, S) : [k \in D |-> Step(f, k)] \in Funs(D, S)
    BY <1>2 DEF Funs
  <2> HIDE DEF Step, D
  <2> QED
    BY <2>1 DEF Funs
<1>4. ASSUME NEW f \in Funs(D, S), NEW g \in Funs(D, S), NEW d \in D,
             \A e \in D : rank[e] < rank[d] => f[e] = g[e]
      PROVE  H[f][d] = H[g][d]
  <2>1. H[f][d] = Step(f, d) /\ H[g][d] = Step(g, d)
    BY Zenon
  <2>2. CASE d # 0
    <3>1. d - 1 \in D /\ d - 1 < d
      BY <1>0, <2>2
    <3>2. rank[d - 1] = d - 1 /\ rank[d] = d
      BY <3>1, Zenon
    <3>3. f[d - 1] = g[d - 1]
      BY <1>4, <3>1, <3>2, Zenon
    <3> QED
      BY <2>1, <2>2, <3>3, Zenon
  <2> QED
    BY <2>1, <2>2, Zenon
<1>5. \E f \in Funs(D, S) : f = H[f]
  <2> HIDE DEF D, H, rank
  <2> QED
    BY ONLY <1>1, <1>3, <1>4, a \in S, RecursionExists
<1>6. PICK f \in Funs(D, S) : f = H[f]
  BY <1>5
<1>7. f = Links(n, a, h, f)
  BY <1>6 DEF Links
<1> QED
  BY <1>7

\* A function that keeps to a set from one number to the next.
LEMMA Chained ==
    ASSUME NEW n \in Nat, NEW S, NEW f, f[0] \in S, \A k \in 1..n : f[k - 1] \in S => f[k] \in S
    PROVE  \A k \in 0..n : f[k] \in S
<1> DEFINE T == {k \in Nat : k <= n /\ f[k] \notin S}
<1>3. T = {}
  <2> SUFFICES ASSUME T # {} PROVE FALSE
    OBVIOUS
  <2>1. PICK m \in T : \A k \in T : m <= k
    BY LeastNumber
  <2>2. m # 0
    OBVIOUS
  <2>3. m - 1 \in Nat /\ m - 1 \notin T /\ m \in 1..n /\ m - 1 <= n
    BY <2>1, <2>2
  <2> QED
    BY <2>3
<1> QED
  BY <1>3

\* After one more character.
Turn(c, st) ==
    IF c = "\n" THEN [st EXCEPT !.comment = FALSE]
    ELSE IF st.comment THEN st
    ELSE IF c = ";" /\ ~st.string THEN [st EXCEPT !.comment = TRUE]
    ELSE IF c = "\"" THEN [st EXCEPT !.string = ~@]
    ELSE IF st.string THEN st
    ELSE [st EXCEPT !.depth = DepthAfter(c, @)]

Walks(s, w) == w = [k \in 0..Len(s) |-> IF k = 0 THEN Nowhere ELSE Turn(s[k], w[k - 1])]
Walk(s)     == CHOOSE w : Walks(s, w)

Turned(c, st, u) ==
    /\ c = "\n" => u.depth = st.depth /\ (u.string <=> st.string) /\ ~u.comment
    /\ c # "\n" /\ st.comment => u = st
    /\ c = ";" /\ ~st.string /\ ~st.comment => u.depth = st.depth /\ ~u.string /\ u.comment
    /\ c = "\"" /\ ~st.comment => u.depth = st.depth /\ (u.string <=> ~st.string) /\ ~u.comment
    /\ c # "\"" /\ st.string /\ ~st.comment => u.depth = st.depth /\ u.string /\ ~u.comment
    /\ c \notin {"\n", ";", "\""} /\ ~st.string /\ ~st.comment =>
          u.depth = DepthAfter(c, st.depth) /\ ~u.string /\ ~u.comment

LEMMA TurnIs ==
    ASSUME NEW c, NEW st \in Situations
    PROVE  Turn(c, st) \in Situations /\ Turned(c, st, Turn(c, st))
<1>1. DepthAfter(c, st.depth) \in Int
  BY DEF Situations, DepthAfter
<1> QED
  BY <1>1 DEF Situations, Turn, Turned

LEMMA WalkIs ==
    ASSUME NEW s \in Writing
    PROVE  /\ Walk(s)[0] = Nowhere
           /\ \A k \in 0..Len(s) : Walk(s)[k] \in Situations
           /\ \A k \in 1..Len(s) : k - 1 \in 0..Len(s) /\ Walk(s)[k] = Turn(s[k], Walk(s)[k - 1])
<1> DEFINE n == Len(s)
           h == [k \in 1..n |-> [y \in Situations |-> Turn(s[k], y)]]
<1>n. n \in Nat
  BY LengthIs
<1>0. n \in Nat /\ 0 \in 0..n /\ \A k \in 1..n : k \in 0..n /\ k - 1 \in 0..n /\ k # 0
  BY ONLY <1>n
<1>1. Nowhere \in Situations
  BY DEF Nowhere, Situations
<1>2. \A k \in 1..n : \A y \in Situations : h[k][y] = Turn(s[k], y) /\ h[k][y] \in Situations
  BY TurnIs
<1>3. \E w : Walks(s, w)
  <2> HIDE DEF h
  <2>1. PICK g \in Funs(0..n, Situations) : g = Links(n, Nowhere, h, g)
    BY <1>0, <1>1, <1>2, Chain
  <2>2. g = [k \in 0..n |-> IF k = 0 THEN Nowhere ELSE h[k][g[k - 1]]]
    BY <2>1 DEF Links
  <2>3. ASSUME NEW k \in 0..n, k # 0 PROVE h[k][g[k - 1]] = Turn(s[k], g[k - 1])
    <3>1. k \in 1..n /\ k - 1 \in 0..n
      BY <1>0, <2>3
    <3>2. g[k - 1] \in Situations
      BY <2>1, <3>1, Zenon DEF Funs
    <3> QED
      BY <1>2, <3>1, <3>2, Zenon
  <2> HIDE DEF n
  <2>4. [k \in 0..n |-> IF k = 0 THEN Nowhere ELSE h[k][g[k - 1]]]
           = [k \in 0..n |-> IF k = 0 THEN Nowhere ELSE Turn(s[k], g[k - 1])]
    BY <2>3
  <2> QED
    BY <2>2, <2>4 DEF Walks, n
<1> DEFINE w == Walk(s)
<1>4. Walks(s, w)
  BY <1>3, Zenon DEF Walk
<1> HIDE DEF w, h
<1>5. w[0] = Nowhere /\ \A k \in 1..n : w[k] = Turn(s[k], w[k - 1])
  BY <1>0, <1>4 DEF Walks
<1>6. \A k \in 1..n : w[k - 1] \in Situations => w[k] \in Situations
  <2>1. \A c : \A st \in Situations : Turn(c, st) \in Situations
    BY TurnIs, Zenon
  <2> QED
    BY <1>5, <2>1, Zenon
<1> HIDE DEF n
<1>7. \A k \in 0..n : w[k] \in Situations
  BY <1>0, <1>1, <1>5, <1>6, Chained
<1> QED
  BY <1>0, <1>5, <1>7 DEF w, n

Depth(s, k)     == Walk(s)[k].depth
InString(s, k)  == Walk(s)[k].string
Commented(s, k) == Walk(s)[k].comment
Plain(s, k)     == ~InString(s, k) /\ ~Commented(s, k)
Same(s, j, k)   == Depth(s, k) = Depth(s, j) /\ (InString(s, k) <=> InString(s, j))

LEMMA AtFirst ==
    ASSUME NEW s \in Writing
    PROVE  Depth(s, 0) = 0 /\ Plain(s, 0) /\ \A k \in 0..Len(s) : Depth(s, k) \in Int
<1>1. \A st \in Situations : st.depth \in Int
  BY DEF Situations
<1>2. Nowhere.depth = 0 /\ ~Nowhere.string /\ ~Nowhere.comment
  BY DEF Nowhere
<1> QED
  BY <1>1, <1>2, WalkIs, Zenon DEF Depth, Plain, InString, Commented

LEMMA StepIs ==
    ASSUME NEW s \in Writing, NEW k \in 1..Len(s)
    PROVE  /\ s[k] = "\n" => Same(s, k - 1, k) /\ ~Commented(s, k)
           /\ s[k] # "\n" /\ Commented(s, k - 1) => Same(s, k - 1, k) /\ Commented(s, k)
           /\ s[k] = ";" /\ Plain(s, k - 1) => Same(s, k - 1, k) /\ Commented(s, k)
           /\ s[k] = "\"" /\ ~Commented(s, k - 1) =>
                 /\ Depth(s, k) = Depth(s, k - 1) /\ (InString(s, k) <=> ~InString(s, k - 1))
                 /\ ~Commented(s, k)
           /\ s[k] # "\"" /\ InString(s, k - 1) /\ ~Commented(s, k - 1) =>
                 Same(s, k - 1, k) /\ ~Commented(s, k)
           /\ s[k] = "(" /\ Plain(s, k - 1) => Depth(s, k) = Depth(s, k - 1) + 1 /\ Plain(s, k)
           /\ s[k] = ")" /\ Plain(s, k - 1) => Depth(s, k) = Depth(s, k - 1) - 1 /\ Plain(s, k)
           /\ s[k] \notin {"\n", ";", "\"", "(", ")"} /\ Plain(s, k - 1) => Same(s, k - 1, k) /\ Plain(s, k)
<1> DEFINE c == s[k]
           st == Walk(s)[k - 1]
           u == Walk(s)[k]
<1>1. st \in Situations /\ u = Turn(c, st)
  BY WalkIs, Zenon
<1>2. /\ Depth(s, k) = u.depth /\ InString(s, k) = u.string /\ Commented(s, k) = u.comment
      /\ Depth(s, k - 1) = st.depth /\ InString(s, k - 1) = st.string /\ Commented(s, k - 1) = st.comment
  BY DEF Depth, InString, Commented
<1> HIDE DEF c, st, u
<1>3. st.depth \in Int /\ st.string \in BOOLEAN /\ st.comment \in BOOLEAN
  BY <1>1 DEF Situations
<1>4. Turned(c, st, u)
  BY <1>1, TurnIs, Zenon
<1>5. /\ DepthAfter("(", st.depth) = st.depth + 1 /\ DepthAfter(")", st.depth) = st.depth - 1
      /\ c \notin {"(", ")"} => DepthAfter(c, st.depth) = st.depth
  BY DEF DepthAfter
<1>6. c = s[k]
  BY DEF c
<1> QED
  BY <1>2, <1>3, <1>4, <1>5, <1>6 DEF Same, Plain, Turned

LEMMA Upwards ==
    ASSUME NEW a \in Nat, NEW b \in Nat, NEW T, a \in T, \A j \in a..b - 1 : j \in T => j + 1 \in T
    PROVE  \A j \in a..b : j \in T
<1> DEFINE U == {j \in Nat : j >= a /\ j <= b /\ j \notin T}
<1>1. U = {}
  <2> SUFFICES ASSUME U # {} PROVE FALSE
    OBVIOUS
  <2>1. PICK m \in U : \A k \in U : m <= k
    BY LeastNumber
  <2>2. m # a
    OBVIOUS
  <2>3. m - 1 \in Nat /\ m - 1 \notin U /\ m - 1 >= a /\ m - 1 <= b /\ m - 1 \in a..b - 1 /\ (m - 1) + 1 = m
    BY <2>1, <2>2
  <2> QED
    BY <2>3
<1> QED
  BY <1>1

\* From the place p to the place q it goes down by l, not before the end.
Over(s, p, q, l) ==
    /\ Depth(s, q - 1) = Depth(s, p - 1) - l
    /\ \A j \in p - 1..q - 2 : Depth(s, j) >= Depth(s, p - 1)

LEMMA DepthIs ==
    ASSUME NEW s \in Writing, NEW p \in Places(s)
    PROVE  Depth(s, p - 1) \in Int
<1>1. p \in Nat /\ p >= 1 /\ p <= Len(s) + 1 /\ Len(s) \in Nat
  BY PlaceIs
<1>2. p - 1 \in 0..Len(s)
  BY ONLY <1>1
<1> QED
  BY <1>2, AtFirst

\* Nothing but atmosphere.
LEMMA SkipWalk ==
    ASSUME NEW s \in Writing, NEW p \in Places(s), NEW q, SkipTo(s, p, q), Plain(s, p - 1)
    PROVE  /\ \A j \in p - 1..q - 1 : Same(s, p - 1, j)
           /\ q <= Len(s) => Plain(s, q - 1)
           /\ Over(s, p, q, 0)
           /\ \A j \in p - 1..q - 1 : Commented(s, j) <=> InComment(s, p, j)
<1>1. p \in Nat /\ p >= 1 /\ p <= Len(s) + 1 /\ Len(s) \in Nat
  BY PlaceIs
<1>2. q \in Nat /\ p <= q /\ q <= Len(s) + 1
  BY DEF SkipTo
<1> DEFINE T == {j \in p - 1..q - 1 : Same(s, p - 1, j) /\ (Commented(s, j) <=> InComment(s, p, j))}
<1>3. p - 1 \in T
  <2>1. p - 1 \in p - 1..q - 1
    BY <1>1, <1>2
  <2>2. Same(s, p - 1, p - 1)
    BY DEF Same
  <2>3. ~InComment(s, p, p - 1)
    <3>1. ~\E j \in p..p - 1 : TRUE
      BY <1>1
    <3> QED
      BY <3>1, Zenon DEF InComment
  <2> QED
    BY <2>1, <2>2, <2>3 DEF Plain
<1>4. ASSUME NEW j \in p - 1..(q - 1) - 1, j \in T PROVE j + 1 \in T
  <2> DEFINE k == j + 1
  <2>1. k \in 1..Len(s) /\ k \in p..q - 1 /\ k - 1 = j /\ k \in p - 1..q - 1
    BY <1>1, <1>2
  <2>2. Same(s, p - 1, k - 1) /\ (Commented(s, k - 1) <=> InComment(s, p, k - 1)) /\ ~InString(s, k - 1)
    BY <1>4, <2>1 DEF Same, Plain
  <2>3. s[k] \in Spaces \/ InComment(s, p, k)
    BY <2>1 DEF SkipTo
  <2> HIDE DEF k
  <2>4. /\ s[k] = "\n" => ~InComment(s, p, k)
        /\ s[k] # "\n" /\ InComment(s, p, k - 1) => InComment(s, p, k)
        /\ s[k] = ";" => InComment(s, p, k)
        /\ s[k] # ";" /\ InComment(s, p, k) => InComment(s, p, k - 1)
    <3>1. k \in Nat /\ p \in Nat /\ p <= k
      BY <1>1, <2>1
    <3>2. s[k] = "\n" => ~InComment(s, p, k)
      <4>1. \A i \in p..k : k \in i..k
        BY <3>1
      <4> QED
        BY <4>1, Zenon DEF InComment
    <3>3. s[k] # "\n" /\ InComment(s, p, k - 1) => InComment(s, p, k)
      <4>1. \A i \in p..k - 1 : i \in p..k /\ \A r \in i..k : r \in i..k - 1 \/ r = k
        BY <3>1
      <4> QED
        BY <4>1, Zenon DEF InComment
    <3>4. s[k] = ";" => InComment(s, p, k)
      <4>1. k \in p..k /\ \A i \in k..k : i = k
        BY <3>1
      <4>2. ";" # "\n"
        OBVIOUS
      <4> QED
        BY <4>1, <4>2, Zenon DEF InComment
    <3>5. s[k] # ";" /\ InComment(s, p, k) => InComment(s, p, k - 1)
      <4>1. \A i \in p..k : (i \in p..k - 1 \/ i = k) /\ \A r \in i..k - 1 : r \in i..k
        BY <3>1
      <4> QED
        BY <4>1, Zenon DEF InComment
    <3> QED
      BY <3>2, <3>3, <3>4, <3>5
  <2>5. Same(s, k - 1, k) /\ (Commented(s, k) <=> InComment(s, p, k))
    <3>1. CASE s[k] = "\n"
      BY <2>1, <2>4, <3>1, StepIs, Zenon
    <3>2. CASE s[k] # "\n" /\ Commented(s, k - 1)
      BY <2>1, <2>2, <2>4, <3>2, StepIs, Zenon
    <3>3. CASE s[k] # "\n" /\ ~Commented(s, k - 1) /\ s[k] = ";"
      BY <2>1, <2>2, <2>4, <3>3, StepIs, Zenon DEF Plain
    <3>4. CASE s[k] # "\n" /\ ~Commented(s, k - 1) /\ s[k] # ";"
      <4>1. ~InComment(s, p, k)
        BY <2>2, <2>4, <3>4
      <4>2. s[k] = " "
        BY <2>3, <3>4, <4>1 DEF Spaces
      <4>3. s[k] \notin {"\n", ";", "\"", "(", ")"}
        BY <4>2
      <4>4. Same(s, k - 1, k) /\ Plain(s, k)
        BY <2>1, <2>2, <3>4, <4>3, StepIs, Zenon DEF Plain
      <4> QED
        BY <4>1, <4>4 DEF Plain
    <3> QED
      BY <3>1, <3>2, <3>3, <3>4
  <2>6. Same(s, p - 1, k)
    BY <2>2, <2>5 DEF Same
  <2> QED
    BY <2>1, <2>5, <2>6 DEF k
<1>5. \A j \in p - 1..q - 1 : j \in T
  <2>1. p - 1 \in Nat /\ q - 1 \in Nat
    BY <1>1, <1>2
  <2> HIDE DEF T
  <2> QED
    BY <1>3, <1>4, <2>1, Upwards
<1>6. \A j \in p - 1..q - 1 : Same(s, p - 1, j)
  BY <1>5
<1>9. \A j \in p - 1..q - 1 : Commented(s, j) <=> InComment(s, p, j)
  BY <1>5
<1>7. ASSUME q <= Len(s) PROVE Plain(s, q - 1)
  <2>1. q - 1 \in p - 1..q - 1
    BY <1>1, <1>2
  <2>2. Same(s, p - 1, q - 1) /\ (Commented(s, q - 1) <=> InComment(s, p, q - 1))
    BY <1>5, <2>1
  <2>3. s[q] # "\n" /\ ~InComment(s, p, q)
    BY <1>7 DEF SkipTo, Spaces
  <2>4. ~InComment(s, p, q - 1)
    <3>1. \A i \in p..q - 1 : i \in p..q /\ \A r \in i..q : r \in i..q - 1 \/ r = q
      BY <1>1, <1>2
    <3> QED
      BY <2>3, <3>1, Zenon DEF InComment
  <2> QED
    BY <2>2, <2>4 DEF Same, Plain
<1>8. Over(s, p, q, 0)
  <2>1. Depth(s, p - 1) \in Int
    BY DepthIs
  <2>2. q - 1 \in p - 1..q - 1 /\ \A j \in p - 1..q - 2 : j \in p - 1..q - 1
    BY <1>1, <1>2
  <2>3. \A j \in p - 1..q - 1 : Depth(s, j) = Depth(s, p - 1)
    BY <1>6 DEF Same
  <2>4. Depth(s, p - 1) >= Depth(s, p - 1) /\ Depth(s, p - 1) - 0 = Depth(s, p - 1)
    BY <2>1
  <2>5. Depth(s, q - 1) = Depth(s, p - 1) - 0
    BY <2>2, <2>3, <2>4
  <2>6. \A j \in p - 1..q - 2 : Depth(s, j) >= Depth(s, p - 1)
    BY <2>2, <2>3, <2>4
  <2> QED
    BY <2>5, <2>6 DEF Over
<1> HIDE DEF T
<1> QED
  BY <1>6, <1>7, <1>8, <1>9

LEMMA TokenWalk ==
    ASSUME NEW s \in Writing, NEW p \in Places(s), NEW q \in Nat, p <= q, q <= Len(s) + 1,
           \A j \in p..q - 1 : ~DelimiterAt(s, j), Plain(s, p - 1)
    PROVE  (\A j \in p - 1..q - 1 : Same(s, p - 1, j)) /\ Plain(s, q - 1) /\ Over(s, p, q, 0)
<1>1. p \in Nat /\ p >= 1 /\ p <= Len(s) + 1 /\ Len(s) \in Nat
  BY PlaceIs
<1> DEFINE T == {j \in p - 1..q - 1 : Same(s, p - 1, j) /\ Plain(s, j)}
<1>3. p - 1 \in T
  <2>1. p - 1 \in p - 1..q - 1
    BY <1>1
  <2>2. Same(s, p - 1, p - 1)
    BY DEF Same
  <2> QED
    BY <2>1, <2>2
<1>4. ASSUME NEW j \in p - 1..(q - 1) - 1, j \in T PROVE j + 1 \in T
  <2> DEFINE k == j + 1
  <2>1. k \in 1..Len(s) /\ k \in p..q - 1 /\ k - 1 = j /\ k \in p - 1..q - 1
    BY <1>1
  <2>2. Same(s, p - 1, k - 1) /\ Plain(s, k - 1)
    BY <1>4, <2>1
  <2> HIDE DEF k
  <2>3. ~DelimiterAt(s, k)
    BY <2>1
  <2>4. s[k] \notin {"\n", ";", "\"", "(", ")"}
    BY <2>3, Zenon DEF DelimiterAt, Delimiters, Spaces
  <2>5. Same(s, k - 1, k) /\ Plain(s, k)
    BY <2>1, <2>2, <2>4, StepIs, Zenon
  <2>6. Same(s, p - 1, k)
    BY <2>2, <2>5 DEF Same
  <2> QED
    BY <2>1, <2>5, <2>6 DEF k
<1>5. \A j \in p - 1..q - 1 : j \in T
  <2>1. p - 1 \in Nat /\ q - 1 \in Nat
    BY <1>1
  <2> HIDE DEF T
  <2> QED
    BY <1>3, <1>4, <2>1, Upwards
<1>6. \A j \in p - 1..q - 1 : Same(s, p - 1, j) /\ Plain(s, j)
  BY <1>5
<1> HIDE DEF T
<1>7. q - 1 \in p - 1..q - 1 /\ \A j \in p - 1..q - 2 : j \in p - 1..q - 1
  BY <1>1
<1>8. Over(s, p, q, 0)
  <2>1. Depth(s, p - 1) \in Int
    BY DepthIs
  <2>3. \A j \in p - 1..q - 1 : Depth(s, j) = Depth(s, p - 1)
    BY <1>6 DEF Same
  <2>4. Depth(s, p - 1) >= Depth(s, p - 1) /\ Depth(s, p - 1) - 0 = Depth(s, p - 1)
    BY <2>1
  <2>5. Depth(s, q - 1) = Depth(s, p - 1) - 0
    BY <1>7, <2>3, <2>4
  <2>6. \A j \in p - 1..q - 2 : Depth(s, j) >= Depth(s, p - 1)
    BY <1>7, <2>3, <2>4
  <2> QED
    BY <2>5, <2>6 DEF Over
<1> QED
  BY <1>6, <1>7, <1>8, Zenon

LEMMA OverThen ==
    ASSUME NEW s \in Writing, NEW p \in Places(s), NEW q \in Places(s), NEW r \in Places(s), p <= q, q <= r,
           NEW l \in Int, Over(s, p, q, 0), Over(s, q, r, l)
    PROVE  Over(s, p, r, l)
<1>1. p \in Nat /\ q \in Nat /\ r \in Nat
  BY PlaceIs
<1>2. Depth(s, p - 1) \in Int /\ Depth(s, q - 1) \in Int /\ Depth(s, r - 1) \in Int
  BY DepthIs
<1>3. Depth(s, q - 1) = Depth(s, p - 1)
  BY <1>2 DEF Over
<1>4. Depth(s, r - 1) = Depth(s, p - 1) - l
  BY <1>3 DEF Over
<1>5. \A j \in p - 1..r - 2 : j \in p - 1..q - 2 \/ j \in q - 1..r - 2
  BY <1>1
<1>6. \A j \in p - 1..r - 2 : Depth(s, j) >= Depth(s, p - 1)
  BY <1>3, <1>5 DEF Over
<1> QED
  BY <1>4, <1>6 DEF Over

\* One character.
LEMMA OverOne ==
    ASSUME NEW s \in Writing, NEW p \in Places(s), NEW l \in Int,
           Depth(s, p) = Depth(s, p - 1) - l
    PROVE  Over(s, p, p + 1, l)
<1>1. p \in Nat /\ Depth(s, p - 1) \in Int
  BY PlaceIs, DepthIs
<1>2. (p + 1) - 1 = p /\ \A j \in p - 1..(p + 1) - 2 : j = p - 1
  BY <1>1
<1>3. Depth(s, p - 1) >= Depth(s, p - 1)
  BY <1>1
<1> QED
  BY <1>2, <1>3, Zenon DEF Over

\* A bracket, and what it opens.
LEMMA OverBracket ==
    ASSUME NEW s \in Writing, NEW p \in Places(s), NEW r \in Places(s), p + 1 <= r, p + 1 \in Places(s),
           Depth(s, p) = Depth(s, p - 1) + 1, Over(s, p + 1, r, 1)
    PROVE  Over(s, p, r, 0) /\ \A j \in p..r - 2 : Depth(s, j) > Depth(s, p - 1)
<1>1. p \in Nat /\ r \in Nat
  BY PlaceIs
<1>2. Depth(s, p - 1) \in Int /\ Depth(s, (p + 1) - 1) \in Int /\ (p + 1) - 1 = p
  BY <1>1, DepthIs
<1>3. Depth(s, r - 1) = Depth(s, p) - 1 /\ \A j \in p..r - 2 : Depth(s, j) >= Depth(s, p)
  BY <1>2, Zenon DEF Over
<1>4. ASSUME NEW j \in p..r - 2 PROVE Depth(s, j) >= Depth(s, p - 1) /\ Depth(s, j) > Depth(s, p - 1)
  <2>1. j \in 0..Len(s)
    BY <1>1, PlaceIs
  <2>2. Depth(s, j) \in Int
    BY <2>1, AtFirst
  <2>3. Depth(s, j) >= Depth(s, p)
    BY <1>3
  <2> QED
    BY <1>2, <2>2, <2>3
<1>5. \A j \in p - 1..r - 2 : j = p - 1 \/ j \in p..r - 2
  BY <1>1
<1>6. Depth(s, p - 1) >= Depth(s, p - 1) /\ Depth(s, r - 1) = Depth(s, p - 1) - 0
  BY <1>2, <1>3
<1>7. \A j \in p - 1..r - 2 : Depth(s, j) >= Depth(s, p - 1)
  BY <1>4, <1>5, <1>6, Zenon
<1> QED
  BY <1>4, <1>6, <1>7, Zenon DEF Over

\* How far below its beginning a function of the reader ends.
Loss(f) == IF f \in {"list", "rest", "vector"} THEN 1 ELSE 0

\* What the result of f at p says of the situations from there on.
Walked(s, p, f, x) ==
    /\ x.ok => /\ Over(s, p, x.p, Loss(f)) /\ ~InString(s, x.p - 1)
               /\ f = "all" => x.p = Len(s) + 1
               /\ f # "all" => ~Commented(s, x.p - 1)
               /\ f = "string" => \A j \in p - 1..x.p - 2 : InString(s, j)
    /\ x = Unfinished => InString(s, Len(s)) \/ Depth(s, Len(s)) > Depth(s, p - 1) - Loss(f)
    /\ x = NoMore => f = "expr" /\ Depth(s, Len(s)) = Depth(s, p - 1)

Ready(s, p, f) == ~Commented(s, p - 1) /\ (InString(s, p - 1) <=> f = "string")

LEMMA Whys ==
    /\ \A why : Refuse(why).ok = FALSE
    /\ Unfinished # NoMore /\ Headless # NoMore /\ Headless # Unfinished
    /\ Misplaced # NoMore /\ Misplaced # Unfinished
    /\ Refuse("unexpected )") # NoMore /\ Refuse("unexpected )") # Unfinished
    /\ \A x, p : Read(x, p).ok = TRUE /\ Read(x, p) # NoMore /\ Read(x, p) # Unfinished
<1>1. \A why : Refuse(why).ok = FALSE /\ Refuse(why).why = why
  BY DEF Refuse
<1>2. \A x, p : Read(x, p).ok = TRUE
  BY DEF Read
<1>3. /\ Unfinished.why = "unfinished" /\ NoMore.why = "nothing" /\ Headless.why = "nothing after '"
      /\ Misplaced.why = "misplaced" /\ Refuse("unexpected )").why = "unexpected )"
  BY <1>1, Zenon DEF Unfinished, NoMore, Headless, Misplaced
<1>4. Unfinished.ok = FALSE /\ NoMore.ok = FALSE
  BY <1>1, Zenon DEF Unfinished, NoMore
<1> QED
  BY <1>1, <1>2, <1>3, <1>4

\* The result of g at q is that of f at p, when between p and q nothing
\* happens.
LEMMA Carried ==
    ASSUME NEW s \in Writing, NEW p \in Places(s), NEW q \in Places(s), p <= q, Over(s, p, q, 0),
           NEW f, NEW g, Loss(f) = Loss(g), f # "string", f = "all" <=> g = "all",
           NEW x, NEW y, Outcome(s, q, g, x), Walked(s, q, g, x),
           y.ok <=> x.ok, y.ok => y.p = x.p, y = Unfinished => x = Unfinished,
           y = NoMore => x = NoMore /\ f = "expr"
    PROVE  Walked(s, p, f, y)
<1>1. Depth(s, p - 1) \in Int /\ Depth(s, q - 1) \in Int /\ Loss(g) \in Int /\ Loss(f) \in Int
  BY DepthIs DEF Loss
<1>2. Depth(s, q - 1) = Depth(s, p - 1)
  BY <1>1 DEF Over
<1>3. y.ok => /\ Over(s, p, y.p, Loss(f)) /\ ~InString(s, y.p - 1)
              /\ f = "all" => y.p = Len(s) + 1
              /\ f # "all" => ~Commented(s, y.p - 1)
  <2> SUFFICES ASSUME y.ok
               PROVE  /\ Over(s, p, x.p, Loss(f)) /\ ~InString(s, x.p - 1)
                      /\ f = "all" => x.p = Len(s) + 1
                      /\ f # "all" => ~Commented(s, x.p - 1)
    BY Zenon
  <2>1. /\ Over(s, q, x.p, Loss(g)) /\ ~InString(s, x.p - 1)
        /\ f = "all" => x.p = Len(s) + 1
        /\ f # "all" => ~Commented(s, x.p - 1)
    BY Zenon DEF Walked
  <2>2. x.p \in Places(s) /\ x.p >= q
    BY ReadPlace
  <2>3. Over(s, p, x.p, Loss(f))
    BY <1>1, <2>1, <2>2, OverThen
  <2> QED
    BY <2>1, <2>3
<1>4. y = Unfinished => InString(s, Len(s)) \/ Depth(s, Len(s)) > Depth(s, p - 1) - Loss(f)
  BY <1>2, Zenon DEF Walked
<1>5. y = NoMore => f = "expr" /\ Depth(s, Len(s)) = Depth(s, p - 1)
  BY <1>2, Zenon DEF Walked
<1> QED
  BY <1>3, <1>4, <1>5, Zenon DEF Walked

\* The reader itself, from p on and behind it.
NoEscape(s)       == \A k \in 1..Len(s) : s[k] # "\\"
WalkedAt(s, q)    == \A f \in Reads : Ready(s, q, f) => Walked(s, q, f, Reader(s)[q][f])
WalkedLater(s, p) == \A q \in Places(s) : q > p => WalkedAt(s, q)

LEMMA ReadyIs ==
    ASSUME NEW s, NEW q \in Int, NEW f, f # "string"
    PROVE  Plain(s, q) => Ready(s, q + 1, f)
<1>1. (q + 1) - 1 = q
  OBVIOUS
<1> QED
  BY <1>1, Zenon DEF Ready, Plain

LEMMA ReaderAt ==
    ASSUME NEW s \in Writing, NEW p \in Places(s), NEW q \in Places(s), q > p, NEW f \in Reads,
           WalkedLater(s, p), Ready(s, q, f)
    PROVE  Walked(s, q, f, Reader(s)[q][f]) /\ Outcome(s, q, f, Reader(s)[q][f])
  BY ReaderIs, Zenon DEF WalkedLater, WalkedAt

\* A single character that changes neither depth nor string.
LEMMA Beside ==
    ASSUME NEW s \in Writing, NEW q \in Places(s), Same(s, q - 1, q)
    PROVE  Over(s, q, q + 1, 0)
<1>1. Depth(s, q - 1) \in Int
  BY DepthIs
<1>2. Depth(s, q) = Depth(s, q - 1) - 0
  BY <1>1 DEF Same
<1> QED
  BY <1>2, OverOne

\* A list or a vector, from its bracket on.
LEMMA BracketWalk ==
    ASSUME NEW s \in Writing, NEW q \in Places(s), ~Past(s, q), s[q] = "(", Plain(s, q - 1),
           NEW f \in {"list", "vector"}, NEW p \in Places(s), p <= q, WalkedLater(s, p),
           NEW x, NEW y, x = Reader(s)[q + 1][f], y.ok <=> x.ok, y.ok => y.p = x.p,
           y = Unfinished => x = Unfinished, y = NoMore => x = NoMore
    PROVE  /\ Walked(s, q, "expr", y) /\ Outcome(s, q + 1, f, x) /\ y # NoMore
           /\ y.ok => \A j \in q..y.p - 2 : Depth(s, j) > Depth(s, q - 1)
<1>1. q \in 1..Len(s) /\ q \in Nat /\ q + 1 \in Places(s) /\ q + 1 > q /\ p \in Nat
  BY NextPlace, PlaceIs
<1>2. Depth(s, q) = Depth(s, q - 1) + 1 /\ Plain(s, q) /\ Depth(s, q - 1) \in Int
  BY <1>1, StepIs, DepthIs
<1>3. Ready(s, q + 1, f) /\ q + 1 > p /\ f \in Reads /\ f # "expr" /\ f # "string" /\ f # "all"
  BY <1>1, <1>2, ReadyIs DEF Reads
<1>4. Walked(s, q + 1, f, x) /\ Outcome(s, q + 1, f, x)
  BY <1>1, <1>3, ReaderAt, Zenon
<1>5. Loss(f) = 1 /\ Loss("expr") = 0 /\ (q + 1) - 1 = q
  BY <1>1 DEF Loss
<1>6. ASSUME y.ok
      PROVE  /\ Over(s, q, y.p, 0) /\ ~InString(s, y.p - 1) /\ ~Commented(s, y.p - 1)
             /\ \A j \in q..y.p - 2 : Depth(s, j) > Depth(s, q - 1)
  <2>1. x.ok /\ y.p = x.p
    BY <1>6
  <2>2. x.p \in Places(s) /\ x.p >= q + 1
    BY <1>1, <1>4, <2>1, ReadPlace
  <2>3. Over(s, q + 1, x.p, 1) /\ ~InString(s, x.p - 1) /\ ~Commented(s, x.p - 1)
    BY <1>3, <1>4, <1>5, <2>1, Zenon DEF Walked
  <2>4. Over(s, q, x.p, 0) /\ \A j \in q..x.p - 2 : Depth(s, j) > Depth(s, q - 1)
    BY <1>1, <1>2, <2>2, <2>3, OverBracket
  <2> QED
    BY <2>1, <2>3, <2>4
<1>7. y = Unfinished => InString(s, Len(s)) \/ Depth(s, Len(s)) > Depth(s, q - 1) - 0
  <2> SUFFICES ASSUME y = Unfinished, ~InString(s, Len(s)) PROVE Depth(s, Len(s)) > Depth(s, q - 1) - 0
    OBVIOUS
  <2>1. Depth(s, Len(s)) > Depth(s, q) - 1
    BY <1>4, <1>5, Zenon DEF Walked
  <2> QED
    BY <1>2, <2>1
<1>8. y # NoMore
  BY <1>3, <1>4, Zenon DEF Walked
<1>9. Walked(s, q, "expr", y)
  BY <1>5, <1>6, <1>7, <1>8, Zenon DEF Walked
<1> QED
  BY <1>4, <1>6, <1>8, <1>9

LEMMA ExprWalk ==
    ASSUME NEW s \in Writing, NEW q \in Places(s), Begins(s, q), ~Past(s, q) => Plain(s, q - 1),
           WalkedLater(s, q)
    PROVE  LET x == read_expr(s, q, Reader(s))
           IN  Walked(s, q, "expr", x) /\ (x = NoMore => Past(s, q))
<1> DEFINE R == Reader(s)
           x == read_expr(s, q, R)
<1>0. q \in Nat /\ Len(s) \in Nat /\ Loss("expr") = 0 /\ Loss("string") = 0 /\ q <= q /\ q \in Int
  BY PlaceIs DEF Loss
<1>e. \A why : Refuse(why) # Unfinished /\ Refuse(why) # NoMore => Walked(s, q, "expr", Refuse(why))
  BY Whys, Zenon DEF Walked
<1>1. CASE Past(s, q)
  <2>1. x = NoMore
    BY <1>1 DEF read_expr
  <2>2. q = Len(s) + 1
    BY <1>1, PlaceIs
  <2>3. q - 1 = Len(s)
    BY <1>0, <2>2
  <2>4. Walked(s, q, "expr", NoMore)
    BY <2>3, Whys, Zenon DEF Walked, NoMore
  <2> QED
    BY <1>1, <2>1, <2>4
<1>2. ASSUME ~Past(s, q)
      PROVE  q \in 1..Len(s) /\ q + 1 \in Places(s) /\ q + 1 > q /\ q <= q + 1 /\ Plain(s, q - 1) /\ (q + 1) - 1 = q
  BY <1>0, <1>2, NextPlace, PlaceIs
<1>3. CASE ~Past(s, q) /\ s[q] = "("
  <2>1. x = R[q + 1]["list"]
    BY <1>3, Zenon DEF read_expr
  <2> HIDE DEF x
  <2>2. Walked(s, q, "expr", x) /\ x # NoMore
    BY <1>0, <1>2, <1>3, <2>1, BracketWalk
  <2> QED
    BY <2>2 DEF x
<1>4. CASE ~Past(s, q) /\ s[q] = ")"
  <2>1. x = Refuse("unexpected )")
    BY <1>4, Zenon DEF read_expr
  <2> HIDE DEF x
  <2>2. Walked(s, q, "expr", x) /\ x # NoMore
    BY <1>e, <2>1, Whys, Zenon
  <2> QED
    BY <2>2 DEF x
<1>5. CASE ~Past(s, q) /\ s[q] = "\""
  <2>1. x = R[q + 1]["string"]
    BY <1>5, Zenon DEF read_expr
  <2> HIDE DEF x, R
  <2>2. Depth(s, q) = Depth(s, q - 1) /\ InString(s, q) /\ ~Commented(s, q)
    BY <1>2, <1>5, StepIs DEF Plain
  <2>3. Over(s, q, q + 1, 0)
    <3>1. Depth(s, q - 1) \in Int
      BY DepthIs
    <3>2. Depth(s, q) = Depth(s, q - 1) - 0
      BY <2>2, <3>1
    <3> QED
      BY <3>2, OverOne
  <2>4. Ready(s, q + 1, "string") /\ "string" \in Reads
    BY <1>2, <1>5, <2>2, Zenon DEF Ready, Reads
  <2>5. Walked(s, q + 1, "string", x) /\ Outcome(s, q + 1, "string", x)
    BY <1>2, <1>5, <2>1, <2>4, ReaderAt, Zenon DEF R
  <2>6. x # NoMore
    BY <2>5, Zenon DEF Walked
  <2>7. Walked(s, q, "expr", x)
    BY <1>0, <1>2, <1>5, <2>3, <2>5, <2>6, Carried
  <2> QED
    BY <2>6, <2>7 DEF R, x
<1>6. CASE ~Past(s, q) /\ s[q] = "'"
  <2> DEFINE r == R[q + 1]["expr"]
  <2>1. x = read_abbrev(r)
    BY <1>6, Zenon DEF read_expr
  <2>2. x = IF r.ok THEN Read(Quoted(r.x), r.p) ELSE IF r = NoMore THEN Headless ELSE r
    BY <2>1, AbbrevIs
  <2> HIDE DEF x
  <2>3. Same(s, q - 1, q) /\ Plain(s, q)
    <3>1. s[q] \notin {"\n", ";", "\"", "(", ")"}
      BY <1>6
    <3> QED
      BY <1>2, <1>6, <3>1, StepIs
  <2>4. Over(s, q, q + 1, 0)
    BY <2>3, Beside
  <2>5. Ready(s, q + 1, "expr") /\ "expr" \in Reads
    BY <1>0, <2>3, ReadyIs DEF Reads
  <2>6. Walked(s, q + 1, "expr", r) /\ Outcome(s, q + 1, "expr", r)
    BY <1>2, <1>6, <2>5, ReaderAt, Zenon
  <2> HIDE DEF r
  <2>7. (x.ok <=> r.ok) /\ (x.ok => x.p = r.p) /\ (x = Unfinished => r = Unfinished) /\ x # NoMore
    <3>1. CASE r.ok
      <4>1. x = Read(Quoted(r.x), r.p)
        BY <2>2, <3>1
      <4>2. x.ok = TRUE /\ x.p = r.p
        BY <4>1, ResultIs, Zenon
      <4>3. x # NoMore /\ x # Unfinished
        BY <4>1, Whys, Zenon
      <4> QED
        BY <3>1, <4>2, <4>3
    <3>2. CASE ~r.ok
      <4>1. Headless.ok = FALSE
        BY Whys, Zenon DEF Headless
      <4> QED
        BY <2>2, <3>2, <4>1, Whys, Zenon
    <3> QED
      BY <3>1, <3>2
  <2>8. Walked(s, q, "expr", x)
    BY <1>0, <1>2, <1>6, <2>4, <2>6, <2>7, Carried
  <2> QED
    BY <2>7, <2>8 DEF x
<1>7. CASE ~Past(s, q) /\ s[q] = "#" /\ CharAt(s, q + 1) = "("
  <2> DEFINE r == R[q + 2]["vector"]
  <2>1. x = read_vector(r)
    BY <1>7, Zenon DEF read_expr
  <2>2. x = IF r.ok THEN Read(Vec(r.x), r.p) ELSE r
    BY <2>1, VectorIs
  <2> HIDE DEF x
  <2>3. Same(s, q - 1, q) /\ Plain(s, q)
    <3>1. s[q] \notin {"\n", ";", "\"", "(", ")"}
      BY <1>7
    <3> QED
      BY <1>2, <1>7, <3>1, StepIs
  <2>4. Over(s, q, q + 1, 0)
    BY <2>3, Beside
  <2>5. q + 2 = (q + 1) + 1
    BY <1>0
  <2>a. s[q + 1] = "(" /\ ~Past(s, q + 1)
    <3>1. "(" # ""
      OBVIOUS
    <3> QED
      BY <1>7, <3>1, Zenon DEF CharAt
  <2>6. (x.ok <=> r.ok) /\ (x.ok => x.p = r.p) /\ (x = Unfinished => r = Unfinished) /\ (x = NoMore => r = NoMore)
    <3> HIDE DEF r
    <3>1. CASE r.ok
      <4>1. x = Read(Vec(r.x), r.p)
        BY <2>2, <3>1
      <4>2. x.ok = TRUE /\ x.p = r.p
        BY <4>1, ResultIs, Zenon
      <4>3. x # NoMore /\ x # Unfinished
        BY <4>1, Whys, Zenon
      <4> QED
        BY <3>1, <4>2, <4>3
    <3>2. CASE ~r.ok
      BY <2>2, <3>2
    <3> QED
      BY <3>1, <3>2
  <2> HIDE DEF R
  <2>7. r = Reader(s)[(q + 1) + 1]["vector"]
    BY <2>5 DEF R
  <2> HIDE DEF r
  <2>p. Plain(s, (q + 1) - 1)
    BY <1>2, <1>7, <2>3
  <2>8. Walked(s, q + 1, "expr", x) /\ x # NoMore /\ Outcome(s, (q + 1) + 1, "vector", r)
    BY <1>2, <1>7, <2>a, <2>6, <2>7, <2>p, BracketWalk
  <2>9. Outcome(s, q + 1, "expr", x)
    <3>1. q + 1 \in Places(s) /\ (q + 1) + 1 \in Nat /\ (q + 1) + 1 > q + 1
      BY <1>0, <1>2, <1>7
    <3> DEFINE y == Vec(r.x)
    <3> HIDE DEF y
    <3>2. Outcome(s, q + 1, "expr", IF r.ok THEN Read(y, r.p) ELSE r)
      BY <2>8, <3>1, Onwards, Zenon
    <3> QED
      BY <2>2, <3>2 DEF y
  <2>10. Walked(s, q, "expr", x)
    BY <1>0, <1>2, <1>7, <2>4, <2>8, <2>9, Carried
  <2> QED
    BY <2>8, <2>10 DEF x, R
<1>8. CASE /\ ~Past(s, q) /\ s[q] \notin {"(", ")", "\"", "'"}
           /\ ~(s[q] = "#" /\ CharAt(s, q + 1) = "(")
  <2> DEFINE end == TokenEnd(s, q)
  <2>1. x = read_atom(s, q)
    BY <1>8, Zenon DEF read_expr
  <2>2. x = Read(Atom(SubSeq(s, q, end - 1)), end)
    BY <1>8, <2>1, AtomStep
  <2>3. end \in Nat /\ q <= end /\ end <= Len(s) + 1 /\ \A j \in q..end - 1 : ~DelimiterAt(s, j)
    BY TokenIs
  <2> HIDE DEF x, end
  <2>4. Plain(s, end - 1) /\ Over(s, q, end, 0)
    BY <1>2, <1>8, <2>3, TokenWalk
  <2>5. x.ok = TRUE /\ x.p = end /\ x # NoMore /\ x # Unfinished
    BY <2>2, ResultIs, Whys, Zenon
  <2>6. Walked(s, q, "expr", x)
    BY <1>0, <2>4, <2>5, Zenon DEF Walked, Plain
  <2> QED
    BY <2>5, <2>6 DEF x
<1> QED
  BY <1>1, <1>3, <1>4, <1>5, <1>6, <1>7, <1>8

LEMMA ItemWalk ==
    ASSUME NEW s \in Writing, NEW q \in Places(s), Begins(s, q), ~Past(s, q) => Plain(s, q - 1),
           WalkedLater(s, q), NEW f \in {"list", "rest", "vector"}
    PROVE  Walked(s, q, f, read_item(s, q, Reader(s), f))
<1> DEFINE R == Reader(s)
           y == read_item(s, q, R, f)
<1>0. /\ q \in Nat /\ Len(s) \in Nat /\ Loss(f) = 1 /\ q <= q /\ q \in Int
      /\ f # "expr" /\ f # "string" /\ f # "all"
  BY PlaceIs DEF Loss
<1>d. Depth(s, q - 1) \in Int
  BY DepthIs
<1>2. ASSUME ~Past(s, q)
      PROVE  q \in 1..Len(s) /\ q + 1 \in Places(s) /\ q + 1 > q /\ q <= q + 1 /\ Plain(s, q - 1) /\ (q + 1) - 1 = q
  BY <1>0, <1>2, NextPlace, PlaceIs
<1>1. CASE Past(s, q)
  <2>1. y = Unfinished
    BY <1>1 DEF read_item
  <2>2. q = Len(s) + 1
    BY <1>1, PlaceIs
  <2>3. q - 1 = Len(s)
    BY <1>0, <2>2
  <2>4. Depth(s, Len(s)) > Depth(s, q - 1) - 1
    BY <1>d, <2>3
  <2>5. Walked(s, q, f, Unfinished)
    BY <1>0, <2>4, Whys, Zenon DEF Walked, Unfinished
  <2> QED
    BY <2>1, <2>5
<1>3. CASE ~Past(s, q) /\ s[q] = ")"
  <2>1. y = Read(Empty, q + 1)
    BY <1>3, Zenon DEF read_item
  <2> HIDE DEF y
  <2>2. y.ok = TRUE /\ y.p = q + 1 /\ y # NoMore /\ y # Unfinished
    BY <2>1, ResultIs, Whys, Zenon
  <2>3. Depth(s, q) = Depth(s, q - 1) - 1 /\ Plain(s, q)
    BY <1>2, <1>3, StepIs
  <2>4. Over(s, q, q + 1, 1)
    BY <2>3, OverOne
  <2>5. Walked(s, q, f, y)
    BY <1>0, <1>2, <1>3, <2>2, <2>3, <2>4, Zenon DEF Walked, Plain
  <2> QED
    BY <2>5 DEF y
<1>4. CASE ~Past(s, q) /\ s[q] # ")" /\ f # "vector" /\ at_dot(s, q) /\ f = "list"
  <2>1. y = Misplaced
    BY <1>4, Zenon DEF read_item
  <2>2. Walked(s, q, f, Misplaced)
    BY Whys, Zenon DEF Walked, Misplaced
  <2> QED
    BY <2>1, <2>2
<1>5. CASE ~Past(s, q) /\ s[q] # ")" /\ f # "vector" /\ at_dot(s, q) /\ f # "list"
  <2> DEFINE r == R[q + 1]["expr"]
  <2>1. y = close_dotted(s, r)
    BY <1>5, Zenon DEF read_item
  <2> HIDE DEF y
  <2>2. y = IF r.ok THEN Closed(s, r, skip_atmosphere(s, r.p)) ELSE IF r = NoMore THEN Unfinished ELSE r
    BY <2>1, ClosedIs
  <2>3. Same(s, q - 1, q) /\ Plain(s, q)
    <3>1. CharAt(s, q) = "."
      BY <1>5, Zenon DEF at_dot
    <3>2. s[q] = "."
      BY <1>5, <3>1, Zenon DEF CharAt
    <3>3. s[q] \notin {"\n", ";", "\"", "(", ")"}
      BY <3>2
    <3> QED
      BY <1>2, <1>5, <3>3, StepIs
  <2>4. Over(s, q, q + 1, 0) /\ Depth(s, q) = Depth(s, q - 1)
    BY <2>3, Beside DEF Same
  <2>5. Ready(s, q + 1, "expr") /\ "expr" \in Reads
    BY <1>0, <2>3, ReadyIs DEF Reads
  <2>6. Walked(s, q + 1, "expr", r) /\ Outcome(s, q + 1, "expr", r)
    BY <1>2, <1>5, <2>5, ReaderAt, Zenon
  <2> HIDE DEF r
  <2>7. CASE ~r.ok
    <3>1. ASSUME r = Unfinished \/ r = NoMore
          PROVE  InString(s, Len(s)) \/ Depth(s, Len(s)) > Depth(s, q - 1) - 1
      <4>1. Loss("expr") = 0 /\ (q + 1) - 1 = q
        BY <1>0 DEF Loss
      <4>2. InString(s, Len(s)) \/ Depth(s, Len(s)) > Depth(s, q) - 0 \/ Depth(s, Len(s)) = Depth(s, q)
        <5>1. r = Unfinished => InString(s, Len(s)) \/ Depth(s, Len(s)) > Depth(s, (q + 1) - 1) - Loss("expr")
          BY <2>6, Zenon DEF Walked
        <5>2. r = NoMore => Depth(s, Len(s)) = Depth(s, (q + 1) - 1)
          BY <2>6, Zenon DEF Walked
        <5> QED
          BY <3>1, <4>1, <5>1, <5>2
      <4>3. Depth(s, Len(s)) \in Int
        <5>1. Len(s) \in 0..Len(s)
          BY <1>0
        <5> QED
          BY <5>1, AtFirst
      <4> QED
        BY <1>d, <2>4, <4>2, <4>3
    <3>2. ~y.ok /\ y # NoMore /\ (y = Unfinished => r = Unfinished \/ r = NoMore)
      <4>1. Unfinished.ok = FALSE /\ Unfinished # NoMore
        BY Whys, Zenon DEF Unfinished
      <4> QED
        BY <2>2, <2>7, <4>1
    <3>3. Walked(s, q, f, y)
      BY <1>0, <3>1, <3>2, Zenon DEF Walked
    <3> QED
      BY <3>3 DEF y
  <2>8. CASE r.ok
    <3> DEFINE end == skip_atmosphere(s, r.p)
    <3>1. r.p \in Places(s) /\ r.p > q + 1 /\ r.p \in Nat /\ r.p >= q + 1
      BY <1>2, <1>5, <2>6, <2>8, ReadPlace
    <3>2. SkipTo(s, r.p, end) /\ end \in Places(s) /\ end >= r.p /\ end \in Nat
      BY <3>1, SkipIs, SkipAt DEF SkipTo
    <3> HIDE DEF end
    <3>3. y = Closed(s, r, end)
      BY <2>2, <2>8 DEF end
    <3>4. Over(s, q + 1, r.p, 0) /\ Plain(s, r.p - 1)
      <4>1. Loss("expr") = 0
        BY DEF Loss
      <4> QED
        BY <2>6, <2>8, <4>1, Zenon DEF Walked, Plain
    <3>5. Over(s, r.p, end, 0) /\ (end <= Len(s) => Plain(s, end - 1))
      BY <3>1, <3>2, <3>4, SkipWalk
    <3>6. Over(s, q, end, 0) /\ q <= end
      <4>1. Over(s, q, r.p, 0)
        BY <1>2, <1>5, <2>4, <3>1, <3>4, OverThen
      <4>2. q <= r.p /\ r.p <= end /\ q <= end
        BY <1>0, <3>1, <3>2
      <4> QED
        BY <3>1, <3>2, <3>5, <4>1, <4>2, OverThen
    <3>7. CASE Past(s, end)
      <4>1. y = Unfinished
        BY <3>3, <3>7 DEF Closed
      <4>2. end = Len(s) + 1
        BY <3>2, <3>7, PlaceIs
      <4>3. end - 1 = Len(s)
        BY <1>0, <4>2
      <4>4. Depth(s, Len(s)) = Depth(s, q - 1) - 0
        BY <3>6, <4>3 DEF Over
      <4>5. Depth(s, Len(s)) > Depth(s, q - 1) - 1
        BY <1>d, <4>4
      <4>6. Walked(s, q, f, Unfinished)
        BY <1>0, <4>5, Whys, Zenon DEF Walked, Unfinished
      <4> QED
        BY <4>1, <4>6 DEF y
    <3>8. CASE ~Past(s, end) /\ s[end] = ")"
      <4>1. y = Read(r.x, end + 1)
        BY <3>3, <3>8 DEF Closed
      <4>2. y.ok = TRUE /\ y.p = end + 1 /\ y # NoMore /\ y # Unfinished
        BY <4>1, ResultIs, Whys, Zenon
      <4>3. end \in 1..Len(s) /\ end <= Len(s) /\ end + 1 \in Places(s) /\ (end + 1) - 1 = end /\ end <= end + 1
        BY <3>2, <3>8, PlaceIs, NextPlace
      <4>4. Depth(s, end) = Depth(s, end - 1) - 1 /\ Plain(s, end)
        BY <3>5, <3>8, <4>3, StepIs
      <4>5. Over(s, end, end + 1, 1)
        BY <3>2, <4>4, OverOne
      <4>6. Over(s, q, end + 1, 1)
        BY <3>2, <3>6, <4>3, <4>5, OverThen
      <4>7. Walked(s, q, f, y)
        BY <1>0, <4>2, <4>3, <4>4, <4>6, Zenon DEF Walked, Plain
      <4> QED
        BY <4>7 DEF y
    <3>9. CASE ~Past(s, end) /\ s[end] # ")"
      <4>1. y = Misplaced
        BY <3>3, <3>9 DEF Closed
      <4>2. Walked(s, q, f, Misplaced)
        BY Whys, Zenon DEF Walked, Misplaced
      <4> QED
        BY <4>1, <4>2 DEF y
    <3> QED
      BY <3>7, <3>8, <3>9
  <2> QED
    BY <2>7, <2>8
<1>6. CASE ~Past(s, q) /\ s[q] # ")" /\ ~(f # "vector" /\ at_dot(s, q))
  <2> DEFINE x == read_expr(s, q, R)
             g == IF f = "list" THEN "rest" ELSE f
  <2>1. Walked(s, q, "expr", x) /\ x # NoMore
    BY <1>6, ExprWalk, Zenon
  <2>2. Outcome(s, q, "expr", x)
    BY ReaderIs, ExprStep DEF Later, Alike
  <2>3. y = Item(x, R, f)
    BY <1>6, Zenon DEF read_item
  <2> HIDE DEF x, y
  <2>4. y = IF x.ok THEN Consed(x.x, R[x.p][g]) ELSE x
    BY <2>3, ItemIs
  <2>g. g \in {"rest", "vector"} /\ g \in Reads /\ Loss(g) = 1 /\ g # "string" /\ g # "all" /\ g # "expr"
    BY DEF Reads, Loss
  <2> HIDE DEF g
  <2>5. CASE ~x.ok
    <3>1. x = Unfinished => InString(s, Len(s)) \/ Depth(s, Len(s)) > Depth(s, q - 1) - 1
      <4> SUFFICES ASSUME x = Unfinished, ~InString(s, Len(s)) PROVE Depth(s, Len(s)) > Depth(s, q - 1) - 1
        OBVIOUS
      <4>0. Loss("expr") = 0
        BY DEF Loss
      <4>1. Depth(s, Len(s)) > Depth(s, q - 1) - 0
        BY <2>1, <4>0, Zenon DEF Walked
      <4>2. Depth(s, Len(s)) \in Int
        <5>1. Len(s) \in 0..Len(s)
          BY <1>0
        <5> QED
          BY <5>1, AtFirst
      <4> QED
        BY <1>d, <4>1, <4>2
    <3>2. Walked(s, q, f, x)
      BY <1>0, <2>1, <2>5, <3>1, Zenon DEF Walked
    <3> QED
      BY <2>4, <2>5, <3>2 DEF y
  <2>6. CASE x.ok
    <3> DEFINE r == R[x.p][g]
    <3>1. x.p \in Places(s) /\ x.p > q /\ x.p \in Nat /\ q <= x.p /\ x.p \in Int
      BY <2>2, <2>6, ReadPlace
    <3>2. Over(s, q, x.p, 0) /\ Plain(s, x.p - 1)
      <4>1. Loss("expr") = 0
        BY DEF Loss
      <4> QED
        BY <2>1, <2>6, <4>1, Zenon DEF Walked, Plain
    <3>3. Ready(s, x.p, g)
      BY <2>g, <3>2, Zenon DEF Ready, Plain
    <3>4. Walked(s, x.p, g, r) /\ Outcome(s, x.p, g, r)
      BY <2>g, <3>1, <3>3, ReaderAt, Zenon
    <3>5. y = IF r.ok THEN Read(Pair(x.x, r.x), r.p) ELSE r
      BY <2>4, <2>6, ConsedIs
    <3> HIDE DEF r, R
    <3>6. (y.ok <=> r.ok) /\ (y.ok => y.p = r.p) /\ (y = Unfinished => r = Unfinished) /\ (y = NoMore => r = NoMore)
      <4>1. CASE r.ok
        <5>1. y = Read(Pair(x.x, r.x), r.p)
          BY <3>5, <4>1
        <5>2. y.ok = TRUE /\ y.p = r.p
          BY <5>1, ResultIs, Zenon
        <5>3. y # NoMore /\ y # Unfinished
          BY <5>1, Whys, Zenon
        <5> QED
          BY <4>1, <5>2, <5>3
      <4>2. CASE ~r.ok
        BY <3>5, <4>2
      <4> QED
        BY <4>1, <4>2
    <3>7. r # NoMore
      BY <2>g, <3>4, Zenon DEF Walked
    <3>8. Walked(s, q, f, y)
      BY <1>0, <2>g, <3>1, <3>2, <3>4, <3>6, <3>7, Carried
    <3> QED
      BY <3>8 DEF y, R
  <2> QED
    BY <2>5, <2>6
<1> QED
  BY <1>1, <1>3, <1>4, <1>5, <1>6

LEMMA FormsWalk ==
    ASSUME NEW s \in Writing, NEW q \in Places(s), Begins(s, q), ~Past(s, q) => Plain(s, q - 1),
           ~InString(s, q - 1), WalkedLater(s, q)
    PROVE  Walked(s, q, "all", read_forms(s, q, Reader(s)))
<1> DEFINE R == Reader(s)
           x == read_expr(s, q, R)
           y == read_forms(s, q, R)
<1>0. q \in Nat /\ Len(s) \in Nat /\ Loss("all") = 0 /\ Loss("expr") = 0 /\ q <= q /\ q \in Int /\ "all" \in Reads
  BY PlaceIs DEF Loss, Reads
<1>d. Depth(s, q - 1) \in Int
  BY DepthIs
<1>1. Walked(s, q, "expr", x) /\ (x = NoMore => Past(s, q))
  BY ExprWalk, Zenon
<1>2. Outcome(s, q, "expr", x)
  BY ReaderIs, ExprStep DEF Later, Alike
<1>3. y = IF x.ok THEN WithForm(x.x, R[x.p]["all"]) ELSE IF x = NoMore THEN Read(<<>>, q) ELSE x
  BY FormsIs
<1> HIDE DEF x, y
<1>4. CASE x = NoMore
  <2>1. ~x.ok
    BY <1>4, Whys, Zenon DEF NoMore
  <2>2. y = Read(<<>>, q)
    BY <1>3, <1>4, <2>1
  <2>3. y.ok = TRUE /\ y.p = q /\ y # NoMore /\ y # Unfinished
    BY <2>2, ResultIs, Whys, Zenon
  <2>4. q = Len(s) + 1
    BY <1>1, <1>4, PlaceIs
  <2>5. Over(s, q, q, 0)
    <3>1. Depth(s, q - 1) = Depth(s, q - 1) - 0 /\ ~\E j \in q - 1..q - 2 : TRUE
      BY <1>0, <1>d
    <3> QED
      BY <3>1, Zenon DEF Over
  <2>6. Walked(s, q, "all", y)
    BY <1>0, <2>3, <2>4, <2>5, Zenon DEF Walked
  <2> QED
    BY <2>6 DEF y
<1>5. CASE ~x.ok /\ x # NoMore
  <2>1. y = x
    BY <1>3, <1>5
  <2>2. Walked(s, q, "all", x)
    BY <1>0, <1>1, <1>5, Zenon DEF Walked
  <2> QED
    BY <2>1, <2>2 DEF y
<1>6. CASE x.ok
  <2> DEFINE r == R[x.p]["all"]
  <2>1. x.p \in Places(s) /\ x.p > q /\ x.p \in Nat /\ q <= x.p /\ x.p \in Int
    BY <1>2, <1>6, ReadPlace
  <2>2. Over(s, q, x.p, 0) /\ Plain(s, x.p - 1)
    BY <1>0, <1>1, <1>6, Zenon DEF Walked, Plain
  <2>3. Ready(s, x.p, "all")
    BY <2>2, Zenon DEF Ready, Plain
  <2>4. Walked(s, x.p, "all", r) /\ Outcome(s, x.p, "all", r)
    BY <1>0, <2>1, <2>3, ReaderAt, Zenon
  <2>5. y = IF r.ok THEN Read(<<x.x>> \o r.x, r.p) ELSE r
    BY <1>3, <1>6, WithFormIs
  <2> HIDE DEF r, R
  <2>6. (y.ok <=> r.ok) /\ (y.ok => y.p = r.p) /\ (y = Unfinished => r = Unfinished) /\ (y = NoMore => r = NoMore)
    <3>1. CASE r.ok
      <4>1. y = Read(<<x.x>> \o r.x, r.p)
        BY <2>5, <3>1
      <4>2. y.ok = TRUE /\ y.p = r.p
        BY <4>1, ResultIs, Zenon
      <4>3. y # NoMore /\ y # Unfinished
        BY <4>1, Whys, Zenon
      <4> QED
        BY <3>1, <4>2, <4>3
    <3>2. CASE ~r.ok
      BY <2>5, <3>2
    <3> QED
      BY <3>1, <3>2
  <2>7. r # NoMore
    BY <2>4, Zenon DEF Walked
  <2>8. Walked(s, q, "all", y)
    BY <2>1, <2>2, <2>4, <2>6, <2>7, Carried
  <2> QED
    BY <2>8 DEF y, R
<1> QED
  BY <1>4, <1>5, <1>6

LEMMA StringWalk ==
    ASSUME NEW s \in Writing, NoEscape(s), NEW q \in Places(s), InString(s, q - 1), ~Commented(s, q - 1),
           WalkedLater(s, q)
    PROVE  Walked(s, q, "string", read_string(s, q, Reader(s)))
<1> DEFINE R == Reader(s)
           y == read_string(s, q, R)
<1>0. q \in Nat /\ Len(s) \in Nat /\ Loss("string") = 0 /\ q <= q /\ q \in Int /\ "string" \in Reads
  BY PlaceIs DEF Loss, Reads
<1>d. Depth(s, q - 1) \in Int
  BY DepthIs
<1>2. ASSUME ~Past(s, q)
      PROVE  /\ q \in 1..Len(s) /\ q + 1 \in Places(s) /\ q + 1 > q /\ q <= q + 1 /\ (q + 1) - 1 = q
             /\ s[q] # "\\"
  BY <1>0, <1>2, NextPlace, PlaceIs DEF NoEscape
<1>1. CASE Past(s, q)
  <2>1. y = Unfinished
    BY <1>1 DEF read_string
  <2>2. q = Len(s) + 1
    BY <1>1, PlaceIs
  <2>3. q - 1 = Len(s)
    BY <1>0, <2>2
  <2>5. Walked(s, q, "string", Unfinished)
    BY <2>3, Whys, Zenon DEF Walked, Unfinished
  <2> QED
    BY <2>1, <2>5
<1>3. CASE ~Past(s, q) /\ s[q] = "\""
  <2>1. y = Read(Str(<<>>), q + 1)
    BY <1>3, Zenon DEF read_string
  <2> HIDE DEF y
  <2>2. y.ok = TRUE /\ y.p = q + 1 /\ y # NoMore /\ y # Unfinished
    BY <2>1, ResultIs, Whys, Zenon
  <2>3. Depth(s, q) = Depth(s, q - 1) /\ ~InString(s, q) /\ ~Commented(s, q)
    BY <1>2, <1>3, StepIs
  <2>4. Over(s, q, q + 1, 0)
    <3>1. Depth(s, q) = Depth(s, q - 1) - 0
      BY <1>d, <2>3
    <3> QED
      BY <3>1, OverOne
  <2>5. \A j \in q - 1..(q + 1) - 2 : InString(s, j)
    <3>1. \A j \in q - 1..(q + 1) - 2 : j = q - 1
      BY <1>0
    <3> QED
      BY <3>1
  <2>6. Walked(s, q, "string", y)
    BY <1>0, <1>2, <1>3, <2>2, <2>3, <2>4, <2>5, Zenon DEF Walked
  <2> QED
    BY <2>6 DEF y
<1>4. CASE ~Past(s, q) /\ s[q] # "\""
  <2> DEFINE r == R[q + 1]["string"]
  <2>1. y = WithChar(s[q], r)
    BY <1>2, <1>4, Zenon DEF read_string
  <2> HIDE DEF y
  <2>2. y = IF r.ok THEN Read(Str(<<s[q]>> \o r.x[2]), r.p) ELSE r
    BY <2>1, WithCharIs
  <2>3. Same(s, q - 1, q) /\ ~Commented(s, q) /\ InString(s, q)
    BY <1>2, <1>4, StepIs DEF Same
  <2>4. Over(s, q, q + 1, 0)
    BY <2>3, Beside
  <2>5. Ready(s, q + 1, "string")
    BY <1>2, <1>4, <2>3, Zenon DEF Ready
  <2>6. Walked(s, q + 1, "string", r) /\ Outcome(s, q + 1, "string", r)
    BY <1>0, <1>2, <1>4, <2>5, ReaderAt, Zenon
  <2> HIDE DEF r, R
  <2>7. (y.ok <=> r.ok) /\ (y.ok => y.p = r.p) /\ (y = Unfinished => r = Unfinished) /\ (y = NoMore => r = NoMore)
    <3>1. CASE r.ok
      <4> DEFINE z == Str(<<s[q]>> \o r.x[2])
      <4>1. y = Read(z, r.p)
        BY <2>2, <3>1
      <4> HIDE DEF z
      <4>2. y.ok = TRUE /\ y.p = r.p
        BY <4>1, ResultIs, Zenon
      <4>3. y # NoMore /\ y # Unfinished
        BY <4>1, Whys, Zenon
      <4> QED
        BY <3>1, <4>2, <4>3
    <3>2. CASE ~r.ok
      BY <2>2, <3>2
    <3> QED
      BY <3>1, <3>2
  <2>8. y.ok => /\ Over(s, q, y.p, 0) /\ ~InString(s, y.p - 1) /\ ~Commented(s, y.p - 1)
                /\ \A j \in q - 1..y.p - 2 : InString(s, j)
    <3> SUFFICES ASSUME y.ok
                 PROVE  /\ Over(s, q, r.p, 0) /\ ~InString(s, r.p - 1) /\ ~Commented(s, r.p - 1)
                        /\ \A j \in q - 1..r.p - 2 : InString(s, j)
      BY <2>7, Zenon
    <3>1. /\ Over(s, q + 1, r.p, 0) /\ ~InString(s, r.p - 1) /\ ~Commented(s, r.p - 1)
          /\ \A j \in (q + 1) - 1..r.p - 2 : InString(s, j)
      BY <1>0, <2>6, <2>7, Zenon DEF Walked
    <3>2. r.p \in Places(s) /\ r.p >= q + 1 /\ r.p \in Nat
      BY <1>2, <1>4, <2>6, <2>7, ReadPlace
    <3>3. Over(s, q, r.p, 0)
      <4>a. q + 1 \in Places(s) /\ q <= q + 1
        BY <1>2, <1>4, Zenon
      <4>b. q + 1 <= r.p /\ 0 \in Int
        BY ONLY <1>0, <3>2
      <4>1. q + 1 \in Places(s) /\ q <= q + 1 /\ q + 1 <= r.p /\ 0 \in Int
        BY <4>a, <4>b, Zenon
      <4>2. Over(s, q + 1, r.p, 0)
        BY <3>1
      <4> QED
        BY ONLY s \in Writing, q \in Places(s), <2>4, <3>2, <4>1, <4>2, OverThen
    <3>4. \A j \in q - 1..r.p - 2 : j = q - 1 \/ j \in (q + 1) - 1..r.p - 2
      BY <1>0, <3>2
    <3> QED
      BY <3>1, <3>3, <3>4, Zenon
  <2>9. Depth(s, (q + 1) - 1) = Depth(s, q - 1)
    BY <1>2, <1>4, <2>3, Zenon DEF Same
  <2>10. y = Unfinished => InString(s, Len(s)) \/ Depth(s, Len(s)) > Depth(s, q - 1) - Loss("string")
    BY <2>6, <2>7, <2>9, Zenon DEF Walked
  <2>11. y # NoMore
    BY <2>6, <2>7, Zenon DEF Walked
  <2>12. Walked(s, q, "string", y)
    BY <1>0, <2>8, <2>10, <2>11, Zenon DEF Walked
  <2> QED
    BY <2>12 DEF y, R
<1> QED
  BY <1>1, <1>3, <1>4

LEMMA ReadingWalk ==
    ASSUME NEW s \in Writing, NoEscape(s), NEW p \in Places(s), WalkedLater(s, p),
           NEW f \in Reads, Ready(s, p, f)
    PROVE  Walked(s, p, f, Reading(s, p, Reader(s), f))
<1> DEFINE R == Reader(s)
           q == skip_atmosphere(s, p)
           y == Reading(s, p, R, f)
<1>1. CASE f = "string"
  <2>1. y = read_string(s, p, R)
    BY <1>1, Zenon DEF Reading
  <2>2. InString(s, p - 1) /\ ~Commented(s, p - 1)
    BY <1>1, Zenon DEF Ready
  <2>3. Walked(s, p, "string", read_string(s, p, R))
    BY <2>2, StringWalk
  <2> QED
    BY <1>1, <2>1, <2>3
<1>2. CASE f # "string"
  <2>1. Plain(s, p - 1)
    BY <1>2, Zenon DEF Ready, Plain
  <2>2. SkipTo(s, p, q)
    BY SkipIs
  <2>3. q \in Places(s) /\ q >= p /\ p \in Nat /\ q \in Nat /\ Begins(s, q) /\ p <= q
    BY <2>2, SkipAt, PlaceIs DEF Begins
  <2>4. (q <= Len(s) => Plain(s, q - 1)) /\ Over(s, p, q, 0) /\ \A j \in p - 1..q - 1 : Same(s, p - 1, j)
    BY <2>1, <2>2, SkipWalk
  <2>5. ~Past(s, q) => Plain(s, q - 1)
    BY <2>3, <2>4, PlaceIs
  <2>6. ~InString(s, q - 1)
    <3>1. q - 1 \in p - 1..q - 1
      BY <2>3
    <3>2. Same(s, p - 1, q - 1)
      BY <2>4, <3>1, Zenon
    <3> QED
      BY <2>1, <3>2 DEF Same, Plain
  <2>7. WalkedLater(s, q)
    <3>a. \A r \in Places(s) : r \in Nat
      BY PlaceIs
    <3>1. \A r \in Places(s) : r > q => r > p
      BY ONLY <2>3, <3>a
    <3> QED
      BY <3>1, Zenon DEF WalkedLater
  <2>8. Later(s, q, R) /\ Alike(s, q, R, R)
    BY ReaderIs DEF Later, Alike
  <2>9. Walked(s, q, f, y) /\ Outcome(s, q, f, y)
    <3>1. CASE f = "expr"
      <4>1. y = read_expr(s, q, R)
        BY <3>1, Zenon DEF Reading
      <4>2. Walked(s, q, "expr", read_expr(s, q, R))
        BY <2>3, <2>5, <2>7, ExprWalk
      <4>3. Outcome(s, q, "expr", read_expr(s, q, R))
        BY <2>3, <2>8, ExprStep
      <4> QED
        BY <3>1, <4>1, <4>2, <4>3
    <3>2. CASE f = "all"
      <4>1. y = read_forms(s, q, R)
        BY <3>2, Zenon DEF Reading
      <4>2. Walked(s, q, "all", read_forms(s, q, R))
        BY <2>3, <2>5, <2>6, <2>7, FormsWalk
      <4>3. Outcome(s, q, "all", read_forms(s, q, R))
        BY <2>3, <2>8, FormsStep
      <4> QED
        BY <3>2, <4>1, <4>2, <4>3
    <3>3. CASE f \in {"list", "rest", "vector"}
      <4>1. y = read_item(s, q, R, f)
        BY <3>3, Zenon DEF Reading
      <4>2. Walked(s, q, f, read_item(s, q, R, f))
        BY <2>3, <2>5, <2>7, <3>3, ItemWalk
      <4>3. Outcome(s, q, f, read_item(s, q, R, f))
        BY <2>3, <2>8, <3>3, ItemStep
      <4> QED
        BY <4>1, <4>2, <4>3
    <3> QED
      BY <1>2, <3>1, <3>2, <3>3 DEF Reads
  <2> HIDE DEF y, q
  <2>10. y = NoMore => f = "expr"
    BY <2>9, Zenon DEF Walked
  <2>11. Walked(s, p, f, y)
    BY <1>2, <2>3, <2>4, <2>9, <2>10, Carried
  <2> QED
    BY <2>11 DEF y
<1> QED
  BY <1>1, <1>2

LEMMA WalkAll ==
    ASSUME NEW s \in Writing, NoEscape(s)
    PROVE  \A p \in Places(s) : WalkedAt(s, p)
<1> DEFINE N == Len(s) + 1
           T == {n \in Nat : \E p \in Places(s) : N - p = n /\ ~WalkedAt(s, p)}
<1>p. N \in Nat /\ \A p \in Places(s) : p \in Nat /\ p >= 1 /\ p <= N
  BY PlaceIs, LengthIs
<1> HIDE DEF N
<1>5. T = {}
  <2> SUFFICES ASSUME T # {} PROVE FALSE
    OBVIOUS
  <2>1. PICK n \in T : \A m \in T : n <= m
    BY LeastNumber
  <2>2. PICK p \in Places(s) : N - p = n /\ ~WalkedAt(s, p)
    OBVIOUS
  <2>3. ASSUME NEW q \in Places(s), q > p PROVE WalkedAt(s, q)
    <3>1. N - q \in Nat /\ ~(n <= N - q)
      BY <1>p, <2>2, <2>3
    <3> QED
      BY <2>1, <3>1
  <2>4. WalkedLater(s, p)
    BY <2>3, Zenon DEF WalkedLater
  <2>5. \A f \in Reads : Ready(s, p, f) => Walked(s, p, f, Reading(s, p, Reader(s), f))
    BY <2>4, ReadingWalk, Zenon
  <2>6. WalkedAt(s, p)
    BY <2>5, ReaderIs, Zenon DEF WalkedAt
  <2> QED
    BY <2>2, <2>6
<1>6. ASSUME NEW p \in Places(s) PROVE WalkedAt(s, p)
  <2>1. N - p \in Nat /\ N - p \notin T
    BY <1>p, <1>5
  <2> QED
    BY <2>1
<1> QED
  BY <1>6

-----------------------------------------------------------------------------
(* is_balanced.                                                             *)

BalanceWalks(s, w) ==
    w = [k \in 0..Len(s) |->
            IF k = 0 THEN [depth |-> 0, string |-> FALSE, comment |-> FALSE]
            ELSE The({balance(s, k, st) : st \in {w[k - 1]}})]

LEMMA BalanceStep ==
    ASSUME NEW s, NEW k, NEW st \in Situations
    PROVE  /\ balance(s, k, st) \in Situations
           /\ st.depth < 0 => balance(s, k, st) = st
           /\ st.depth >= 0 /\ s[k] # "\"" => balance(s, k, st) = Turn(s[k], st)
           /\ st.depth >= 0 /\ QuoteAt(s, k) => balance(s, k, st) = Turn(s[k], st)
<1>1. DepthAfter(s[k], st.depth) \in Int
  BY DEF Situations, DepthAfter
<1> DEFINE q == QuoteAt(s, k)
<1>2. q => s[k] = "\""
  BY DEF QuoteAt
<1>3. balance(s, k, st) = IF st.depth < 0 THEN st
    ELSE IF s[k] = "\n" THEN [st EXCEPT !.comment = FALSE]
    ELSE IF st.comment THEN st
    ELSE IF s[k] = ";" /\ ~st.string THEN [st EXCEPT !.comment = TRUE]
    ELSE IF q THEN [st EXCEPT !.string = ~@]
    ELSE IF st.string THEN st
    ELSE [st EXCEPT !.depth = DepthAfter(s[k], @)]
  BY DEF balance
<1> HIDE DEF q
<1>4. balance(s, k, st) \in Situations
  BY <1>1, <1>3 DEF Situations
<1>5. st.depth < 0 => balance(s, k, st) = st
  BY <1>3
<1>6. st.depth >= 0 => ~(st.depth < 0)
  BY DEF Situations
<1>7. st.depth >= 0 /\ s[k] # "\"" => balance(s, k, st) = Turn(s[k], st)
  BY <1>2, <1>3, <1>6, Zenon DEF Turn
<1>8. st.depth >= 0 /\ q => balance(s, k, st) = Turn(s[k], st)
  <2>1. "\"" # "\n" /\ "\"" # ";"
    OBVIOUS
  <2> QED
    BY <1>2, <1>3, <1>6, <2>1, Zenon DEF Turn
<1> QED
  BY <1>4, <1>5, <1>7, <1>8 DEF q

LEMMA BalanceIs ==
    ASSUME NEW s \in Writing
    PROVE  /\ Balance(s)[0] = Nowhere
           /\ \A k \in 0..Len(s) : Balance(s)[k] \in Situations
           /\ \A k \in 1..Len(s) : k - 1 \in 0..Len(s) /\ Balance(s)[k] = balance(s, k, Balance(s)[k - 1])
<1> DEFINE n == Len(s)
           h == [k \in 1..n |-> [y \in Situations |-> balance(s, k, y)]]
<1>n. n \in Nat
  BY LengthIs
<1>0. n \in Nat /\ 0 \in 0..n /\ \A k \in 1..n : k \in 0..n /\ k - 1 \in 0..n /\ k # 0
  BY ONLY <1>n
<1>1. Nowhere \in Situations
  BY DEF Nowhere, Situations
<1>2. \A k \in 1..n : \A y \in Situations : h[k][y] = balance(s, k, y) /\ h[k][y] \in Situations
  BY BalanceStep
<1>t. \A k, y : The({balance(s, k, st) : st \in {y}}) = balance(s, k, y)
  <2> TAKE k, y
  <2> DEFINE e == balance(s, k, y)
  <2>1. The({balance(s, k, st) : st \in {y}}) = The({e})
    OBVIOUS
  <2> HIDE DEF e
  <2>2. The({balance(s, k, st) : st \in {y}}) = e
    BY <2>1, TheIs
  <2> QED
    BY <2>2 DEF e
<1>3. \E w : BalanceWalks(s, w)
  <2> HIDE DEF h
  <2>1. PICK g \in Funs(0..n, Situations) : g = Links(n, Nowhere, h, g)
    BY <1>0, <1>1, <1>2, Chain
  <2>2. g = [k \in 0..n |-> IF k = 0 THEN Nowhere ELSE h[k][g[k - 1]]]
    BY <2>1 DEF Links
  <2>3. ASSUME NEW k \in 0..n, k # 0
        PROVE  h[k][g[k - 1]] = The({balance(s, k, st) : st \in {g[k - 1]}})
    <3>1. k \in 1..n /\ k - 1 \in 0..n
      BY <1>0, <2>3
    <3>2. g[k - 1] \in Situations
      BY <2>1, <3>1, Zenon DEF Funs
    <3>3. h[k][g[k - 1]] = balance(s, k, g[k - 1])
      BY <1>2, <3>1, <3>2, Zenon
    <3> QED
      BY <1>t, <3>3, Zenon
  <2> HIDE DEF n
  <2> DEFINE The1(k) == The({balance(s, k, st) : st \in {g[k - 1]}})
  <2>4. \A k \in 0..n : k # 0 => h[k][g[k - 1]] = The1(k)
    BY <2>3
  <2> HIDE DEF The1
  <2>5. [k \in 0..n |-> IF k = 0 THEN Nowhere ELSE h[k][g[k - 1]]]
           = [k \in 0..n |-> IF k = 0 THEN Nowhere ELSE The1(k)]
    BY <2>4
  <2> QED
    BY <2>2, <2>5 DEF BalanceWalks, n, Nowhere, The1
<1> DEFINE w == Balance(s)
<1>4. BalanceWalks(s, w)
  <2>1. w = CHOOSE z : BalanceWalks(s, z)
    BY DEF Balance, BalanceWalks
  <2> HIDE DEF w
  <2> QED
    BY <1>3, <2>1, Zenon
<1> HIDE DEF w, h
<1>5. w[0] = Nowhere /\ \A k \in 1..n : w[k] = balance(s, k, w[k - 1])
  <2>1. w[0] = Nowhere
    BY <1>0, <1>4 DEF BalanceWalks, Nowhere
  <2>2. \A k \in 1..n : w[k] = The({balance(s, k, st) : st \in {w[k - 1]}})
    BY <1>0, <1>4 DEF BalanceWalks
  <2> QED
    BY <1>t, <2>1, <2>2, Zenon
<1>6. \A k \in 1..n : w[k - 1] \in Situations => w[k] \in Situations
  <2>1. \A k : \A st \in Situations : balance(s, k, st) \in Situations
    BY BalanceStep, Zenon
  <2> QED
    BY <1>5, <2>1, Zenon
<1> HIDE DEF n
<1>7. \A k \in 0..n : w[k] \in Situations
  BY <1>0, <1>1, <1>5, <1>6, Chained
<1> QED
  BY <1>0, <1>5, <1>7 DEF w, n

LEMMA QuoteIs ==
    ASSUME NEW s \in Writing, NoEscape(s), NEW k \in 1..Len(s)
    PROVE  QuoteAt(s, k) <=> s[k] = "\""
<1>1. Len(s) \in Nat
  BY LengthIs
<1>2. k # 1 => k - 1 \in 1..Len(s)
  BY <1>1
<1>3. k # 1 => s[k - 1] # "\\"
  BY <1>2, Zenon DEF NoEscape
<1> QED
  BY <1>3, Zenon DEF QuoteAt

\* As long as no bracket is closed too many is_balanced is right about the
\* situation, and behind one it has given up.
LEMMA BalanceWalk ==
    ASSUME NEW s \in Writing, NoEscape(s), NEW k \in 0..Len(s)
    PROVE  /\ (\A j \in 0..k : Depth(s, j) >= 0) => Balance(s)[k] = Walk(s)[k]
           /\ (\E j \in 0..k : ~(Depth(s, j) >= 0)) => Balance(s)[k].depth < 0
<1> DEFINE Agree(i) == /\ (\A j \in 0..i : Depth(s, j) >= 0) => Balance(s)[i] = Walk(s)[i]
                       /\ (\E j \in 0..i : ~(Depth(s, j) >= 0)) => Balance(s)[i].depth < 0
           T == {i \in 0..Len(s) : Agree(i)}
<1>0. Len(s) \in Nat
  BY LengthIs
<1>1. 0 \in T
  <2>1. Balance(s)[0] = Walk(s)[0]
    BY BalanceIs, WalkIs, Zenon
  <2>2. Depth(s, 0) >= 0
    BY AtFirst
  <2>3. \A j \in 0..0 : j = 0
    OBVIOUS
  <2>4. Agree(0)
    BY <2>1, <2>2, <2>3, Zenon
  <2> QED
    BY <1>0, <2>4
<1>2. ASSUME NEW i \in 0..Len(s) - 1, i \in T PROVE i + 1 \in T
  <2> DEFINE n == i + 1
             b == Balance(s)[i]
             w == Walk(s)[i]
  <2>1. n \in 1..Len(s) /\ n \in 0..Len(s) /\ i \in 0..Len(s) /\ n - 1 = i /\ i \in 0..i
    BY <1>0
  <2>2. \A j \in 0..n : j \in 0..i \/ j = n
    BY <1>0
  <2>3. \A j \in 0..i : j \in 0..n
    BY <1>0
  <2>4. n \in 0..n
    BY <1>0
  <2> HIDE DEF n
  <2>5. Balance(s)[n] = balance(s, n, b) /\ b \in Situations
    BY <2>1, BalanceIs, Zenon
  <2>6. Walk(s)[n] = Turn(s[n], w) /\ w \in Situations /\ Depth(s, i) = w.depth
    BY <2>1, WalkIs, Zenon DEF Depth
  <2>7. Agree(i)
    BY <1>2
  <2> HIDE DEF b, w
  <2>8. CASE \A j \in 0..i : Depth(s, j) >= 0
    <3>1. b = w /\ w.depth >= 0
      BY <2>1, <2>6, <2>7, <2>8, Zenon DEF b, w
    <3>2. balance(s, n, w) = Turn(s[n], w)
      <4>1. QuoteAt(s, n) <=> s[n] = "\""
        BY <2>1, QuoteIs
      <4>a. w \in Situations /\ w.depth >= 0
        BY <2>6, <3>1
      <4>b. \A st \in Situations : st.depth >= 0 /\ s[n] # "\"" => balance(s, n, st) = Turn(s[n], st)
        BY BalanceStep, Zenon
      <4>c. \A st \in Situations : st.depth >= 0 /\ QuoteAt(s, n) => balance(s, n, st) = Turn(s[n], st)
        BY BalanceStep, Zenon
      <4>2. /\ s[n] # "\"" => balance(s, n, w) = Turn(s[n], w)
            /\ QuoteAt(s, n) => balance(s, n, w) = Turn(s[n], w)
        BY <4>a, <4>b, <4>c, Zenon
      <4> QED
        BY <4>1, <4>2
    <3>3. Balance(s)[n] = Walk(s)[n]
      BY <2>5, <2>6, <3>1, <3>2
    <3>4. ASSUME \E j \in 0..n : ~(Depth(s, j) >= 0) PROVE Balance(s)[n].depth < 0
      <4>1. ~(Depth(s, n) >= 0)
        BY <2>2, <2>8, <3>4, Zenon
      <4>2. Depth(s, n) \in Int
        BY <2>1, AtFirst, Zenon
      <4>3. Depth(s, n) < 0
        BY ONLY <4>1, <4>2
      <4>4. Depth(s, n) = Walk(s)[n].depth
        BY DEF Depth
      <4> QED
        BY ONLY <3>3, <4>3, <4>4
    <3>5. Agree(n)
      BY <3>3, <3>4, Zenon
    <3> QED
      BY <2>1, <3>5 DEF n
  <2>9. CASE \E j \in 0..i : ~(Depth(s, j) >= 0)
    <3>1. b.depth < 0
      BY <2>7, <2>9, Zenon DEF b
    <3>2. Balance(s)[n] = b
      BY <2>5, <3>1, BalanceStep, Zenon
    <3>3. \E j \in 0..n : ~(Depth(s, j) >= 0)
      BY <2>3, <2>9, Zenon
    <3>4. Agree(n)
      BY <3>1, <3>2, <3>3, Zenon
    <3> QED
      BY <2>1, <3>4 DEF n
  <2> QED
    BY <2>8, <2>9
<1>3. \A i \in 0..Len(s) : i \in T
  <2> HIDE DEF T
  <2> QED
    BY <1>0, <1>1, <1>2, Upwards
<1>4. Agree(k)
  BY <1>3
<1> QED
  BY <1>4

LEMMA BalancedIs ==
    ASSUME NEW s \in Writing, NoEscape(s)
    PROVE  is_balanced(s) <=> /\ \A j \in 0..Len(s) : Depth(s, j) >= 0
                              /\ Depth(s, Len(s)) = 0 /\ ~InString(s, Len(s))
<1> DEFINE b == Balance(s)[Len(s)]
           e == b.depth = 0 /\ ~b.string
           n == Len(s)
<1>1. is_balanced(s) = The({e})
  <2> HIDE DEF b
  <2>1. {st.depth = 0 /\ ~st.string : st \in {b}} = {e}
    OBVIOUS
  <2> QED
    BY <2>1 DEF is_balanced, b
<1>2. The({e}) = e
  <2> HIDE DEF e
  <2> QED
    BY TheIs
<1>a. n \in Nat
  BY LengthIs
<1>3. n \in 0..n
  BY ONLY <1>a
<1>4. /\ (\A j \in 0..n : Depth(s, j) >= 0) => b = Walk(s)[n]
      /\ (\E j \in 0..n : ~(Depth(s, j) >= 0)) => b.depth < 0
  BY <1>3, BalanceWalk, Zenon
<1>5. Depth(s, n) = Walk(s)[n].depth /\ InString(s, n) = Walk(s)[n].string
  BY DEF Depth, InString
<1>6. ~(0 < 0)
  OBVIOUS
<1>7. is_balanced(s) <=> (b.depth = 0 /\ ~b.string)
  BY <1>1, <1>2
<1> HIDE DEF b, n, e
<1>8. CASE \A j \in 0..n : Depth(s, j) >= 0
  BY <1>4, <1>5, <1>7, <1>8, Zenon DEF n
<1>9. CASE \E j \in 0..n : ~(Depth(s, j) >= 0)
  BY <1>4, <1>6, <1>7, <1>9, Zenon DEF n
<1> QED
  BY <1>8, <1>9

LEMMA BalanceAgrees ==
    ASSUME NEW s \in Writing, NoEscape(s)
    PROVE  /\ is_balanced(s) => read_all(s) # Unfinished
           /\ read_all(s).ok => is_balanced(s)
<1> DEFINE x == read_all(s)
           N == Len(s)
<1>a. N \in Nat
  BY LengthIs
<1>0. N \in Nat /\ 1 \in Places(s) /\ N \in 0..N
  BY ONLY <1>a DEF Places
<1>1. x = Reader(s)[1]["all"]
  BY DEF read_all
<1>2. Depth(s, 1 - 1) = 0 /\ Plain(s, 1 - 1) /\ \A k \in 0..N : Depth(s, k) \in Int
  BY AtFirst
<1>3. Ready(s, 1, "all") /\ "all" \in Reads /\ Loss("all") = 0
  BY <1>2 DEF Ready, Plain, Reads, Loss
<1>4. Walked(s, 1, "all", x)
  BY <1>0, <1>1, <1>3, WalkAll, Zenon DEF WalkedAt
<1> HIDE DEF x
<1>5. ASSUME x = Unfinished PROVE ~is_balanced(s)
  <2>1. InString(s, N) \/ Depth(s, N) > Depth(s, 1 - 1) - 0
    BY <1>3, <1>4, <1>5, Zenon DEF Walked
  <2>2. InString(s, N) \/ Depth(s, N) > 0
    BY <1>2, <2>1
  <2>3. InString(s, N) \/ Depth(s, N) # 0
    BY <1>0, <1>2, <2>2
  <2> QED
    BY <2>3, BalancedIs, Zenon
<1>6. ASSUME x.ok PROVE is_balanced(s)
  <2>1. Over(s, 1, x.p, 0) /\ ~InString(s, x.p - 1) /\ x.p = N + 1
    BY <1>3, <1>4, <1>6, Zenon DEF Walked
  <2>2. x.p - 1 = N /\ x.p - 2 = N - 1
    BY <1>0, <2>1
  <2>3. Depth(s, N) = 0 - 0 /\ \A j \in 1 - 1..N - 1 : Depth(s, j) >= 0
    BY <1>2, <2>1, <2>2 DEF Over
  <2>4. \A j \in 0..N : j = N \/ j \in 1 - 1..N - 1
    BY <1>0
  <2>5. Depth(s, N) = 0 /\ Depth(s, N) >= 0
    BY <2>3
  <2>6. \A j \in 0..N : Depth(s, j) >= 0
    BY <2>3, <2>4, <2>5, Zenon
  <2> QED
    BY <2>1, <2>2, <2>5, <2>6, BalancedIs
<1> QED
  BY <1>5, <1>6 DEF x

-----------------------------------------------------------------------------
(* read_one_from_port.                                                      *)

ScanStates == [depth : Int, string : BOOLEAN, comment : BOOLEAN, seen : BOOLEAN, taken : Nat]
Unseen     == [depth |-> 0, string |-> FALSE, comment |-> FALSE, seen |-> FALSE, taken |-> 0]

ScanWalks(s, w) ==
    w = [k \in 0..Len(s) |->
            IF k = 0 THEN [depth |-> 0, string |-> FALSE, comment |-> FALSE, seen |-> FALSE, taken |-> 0]
            ELSE The({Scanned(s, k, st) : st \in {w[k - 1]}})]

LEMMA ScannedIs ==
    ASSUME NEW s, NEW k \in Nat, NEW st \in ScanStates
    PROVE  Scanned(s, k, st) \in ScanStates /\ Scanned(s, k, st).taken \in {st.taken, k}
<1>1. DepthAfter(s[k], st.depth) \in Int
  BY DEF ScanStates, DepthAfter
<1>2. Outside(s[k], st) \in ScanStates
  BY <1>1 DEF Outside, ScanStates
<1>3. scan(s, k, st) \in ScanStates
  BY <1>2 DEF scan, ScanStates
<1> HIDE DEF ScanStates
<1>4. [scan(s, k, st) EXCEPT !.taken = k] \in ScanStates /\ [scan(s, k, st) EXCEPT !.taken = k].taken = k
  BY <1>3 DEF ScanStates
<1> QED
  BY <1>4 DEF Scanned

LEMMA ScanIs ==
    ASSUME NEW s \in Writing
    PROVE  /\ Scan(s)[0] = Unseen
           /\ \A k \in 0..Len(s) : Scan(s)[k] \in ScanStates
           /\ \A k \in 1..Len(s) : k - 1 \in 0..Len(s) /\ Scan(s)[k] = Scanned(s, k, Scan(s)[k - 1])
<1> DEFINE n == Len(s)
           h == [k \in 1..n |-> [y \in ScanStates |-> Scanned(s, k, y)]]
<1>n. n \in Nat
  BY LengthIs
<1>0. n \in Nat /\ 0 \in 0..n /\ \A k \in 1..n : k \in 0..n /\ k - 1 \in 0..n /\ k # 0 /\ k \in Nat
  BY ONLY <1>n
<1>1. Unseen \in ScanStates
  BY DEF Unseen, ScanStates
<1>2. \A k \in 1..n : \A y \in ScanStates : h[k][y] = Scanned(s, k, y) /\ h[k][y] \in ScanStates
  <2>1. \A k \in 1..n : \A y \in ScanStates : h[k][y] = Scanned(s, k, y)
    OBVIOUS
  <2>2. \A k \in 1..n : \A y \in ScanStates : Scanned(s, k, y) \in ScanStates
    BY <1>0, ScannedIs, Zenon
  <2> QED
    BY <2>1, <2>2, Zenon
<1>t. \A k, y : The({Scanned(s, k, st) : st \in {y}}) = Scanned(s, k, y)
  <2> TAKE k, y
  <2> DEFINE e == Scanned(s, k, y)
  <2>1. The({Scanned(s, k, st) : st \in {y}}) = The({e})
    OBVIOUS
  <2> HIDE DEF e
  <2>2. The({Scanned(s, k, st) : st \in {y}}) = e
    BY <2>1, TheIs
  <2> QED
    BY <2>2 DEF e
<1>3. \E w : ScanWalks(s, w)
  <2> HIDE DEF h
  <2>1. PICK g \in Funs(0..n, ScanStates) : g = Links(n, Unseen, h, g)
    BY <1>0, <1>1, <1>2, Chain
  <2>2. g = [k \in 0..n |-> IF k = 0 THEN Unseen ELSE h[k][g[k - 1]]]
    BY <2>1 DEF Links
  <2>3. ASSUME NEW k \in 0..n, k # 0
        PROVE  h[k][g[k - 1]] = The({Scanned(s, k, st) : st \in {g[k - 1]}})
    <3>1. k \in 1..n /\ k - 1 \in 0..n
      BY <1>0, <2>3
    <3>2. g[k - 1] \in ScanStates
      BY <2>1, <3>1, Zenon DEF Funs
    <3>3. h[k][g[k - 1]] = Scanned(s, k, g[k - 1])
      BY <1>2, <3>1, <3>2, Zenon
    <3> QED
      BY <1>t, <3>3, Zenon
  <2> HIDE DEF n
  <2> DEFINE The1(k) == The({Scanned(s, k, st) : st \in {g[k - 1]}})
  <2>4. \A k \in 0..n : k # 0 => h[k][g[k - 1]] = The1(k)
    BY <2>3
  <2> HIDE DEF The1
  <2>5. [k \in 0..n |-> IF k = 0 THEN Unseen ELSE h[k][g[k - 1]]]
           = [k \in 0..n |-> IF k = 0 THEN Unseen ELSE The1(k)]
    BY <2>4
  <2> QED
    BY <2>2, <2>5 DEF ScanWalks, n, Unseen, The1
<1> DEFINE w == Scan(s)
<1>4. ScanWalks(s, w)
  <2>1. w = CHOOSE z : ScanWalks(s, z)
    BY DEF Scan, ScanWalks
  <2> HIDE DEF w
  <2> QED
    BY <1>3, <2>1, Zenon
<1> HIDE DEF w, h
<1>5. w[0] = Unseen /\ \A k \in 1..n : w[k] = Scanned(s, k, w[k - 1])
  <2>1. w[0] = Unseen
    BY <1>0, <1>4 DEF ScanWalks, Unseen
  <2>2. \A k \in 1..n : w[k] = The({Scanned(s, k, st) : st \in {w[k - 1]}})
    BY <1>0, <1>4 DEF ScanWalks
  <2> QED
    BY <1>t, <2>1, <2>2, Zenon
<1>6. \A k \in 1..n : w[k - 1] \in ScanStates => w[k] \in ScanStates
  <2>1. \A k \in 1..n : \A st \in ScanStates : Scanned(s, k, st) \in ScanStates
    BY <1>0, ScannedIs, Zenon
  <2> QED
    BY <1>5, <2>1, Zenon
<1> HIDE DEF n
<1>7. \A k \in 0..n : w[k] \in ScanStates
  BY <1>0, <1>1, <1>5, <1>6, Chained
<1> QED
  BY <1>0, <1>5, <1>7 DEF w, n

LEMMA PortReadIs ==
    ASSUME NEW s \in Writing
    PROVE  LET st == Scan(s)[Len(s)] IN
           /\ st \in ScanStates
           /\ read_one_from_port(s) =
                [taken |-> st.taken,
                 datum |-> IF st.seen THEN Reader(SubSeq(s, 1, st.taken))[1]["expr"] ELSE NoMore]
<1> DEFINE st == Scan(s)[Len(s)]
           F(z) == [taken |-> z.taken,
                    datum |-> IF z.seen THEN Reader(SubSeq(s, 1, z.taken))[1]["expr"] ELSE NoMore]
<1>1. Len(s) \in Nat
  BY LengthIs
<1>2. Len(s) \in 0..Len(s)
  BY ONLY <1>1
<1>3. st \in ScanStates
  BY <1>2, ScanIs, Zenon
<1>4. read_one_from_port(s) = The({F(z) : z \in {st}})
  BY DEF read_one_from_port
<1> HIDE DEF st
<1> DEFINE e == F(st)
<1>5. {F(z) : z \in {st}} = {e}
  <2> HIDE DEF F
  <2> QED
    OBVIOUS
<1> HIDE DEF e, F
<1>6. read_one_from_port(s) = e
  BY <1>4, <1>5, TheIs
<1> QED
  BY <1>3, <1>6 DEF e, F, st

-----------------------------------------------------------------------------
(* The prompt.                                                              *)

\* What an input can be written with.
Letters == {text[k] : k \in 1..Len(text)} \cup {"\n"}

PromptInv ==
    /\ text \in Seq(Chars)
    /\ pos \in 1..End /\ peeked \in 0..End
    /\ acc \in Seq(Letters)
    /\ acc # <<>> => ~is_balanced(acc)

LEMMA LettersAre ==
    ASSUME text \in Seq(Chars)
    PROVE  /\ Len(text) \in Nat /\ text \in Seq(Letters) /\ Letters \subseteq Chars \cup {"\n"}
           /\ \A s \in Seq(Letters) : s \in Writing /\ (HasNo("\\") => NoEscape(s))
<1>1. Len(text) \in Nat /\ \A k \in 1..Len(text) : text[k] \in Chars
  BY LenProperties, ElementOfSeq
<1>2. Letters \subseteq Chars \cup {"\n"}
  BY <1>1 DEF Letters
<1>3. text \in Seq(Letters)
  <2>1. text = [i \in 1..Len(text) |-> text[i]]
    BY SeqDef
  <2>2. \A i \in 1..Len(text) : text[i] \in Letters
    BY DEF Letters
  <2> QED
    BY <1>1, <2>1, <2>2, IsASeq
<1>4. ASSUME NEW s \in Seq(Letters) PROVE s \in Writing /\ (HasNo("\\") => NoEscape(s))
  <2>1. s \in Writing
    <3> HIDE DEF Letters
    <3> DEFINE C == Chars \cup {"\n"}
    <3> HIDE DEF C
    <3>1. Letters \subseteq C
      BY <1>2 DEF C
    <3>2. s \in Seq(C)
      BY <3>1
    <3> QED
      BY <3>2 DEF Writing, C
  <2>2. ASSUME HasNo("\\"), NEW k \in 1..Len(s) PROVE s[k] # "\\"
    <3>1. s[k] \in Letters
      BY ElementOfSeq
    <3>2. "\n" # "\\"
      OBVIOUS
    <3> QED
      BY <2>2, <3>1, <3>2, Zenon DEF Letters, HasNo
  <2> QED
    BY <2>1, <2>2 DEF NoEscape
<1> QED
  BY <1>1, <1>2, <1>3, <1>4

LEMMA Piece ==
    ASSUME NEW S, NEW f \in Seq(S), NEW m \in Nat \ {0}, NEW n \in Int, n <= Len(f)
    PROVE  /\ SubSeq(f, m, n) \in Seq(S)
           /\ Len(SubSeq(f, m, n)) = IF m <= n THEN n - m + 1 ELSE 0
           /\ \A i \in 1..n - m + 1 : SubSeq(f, m, n)[i] = f[m + i - 1]
<1>1. Len(f) \in Nat
  BY LenProperties
<1>2. \A i \in m..n : i \in 1..Len(f)
  BY <1>1
<1>3. \A i \in m..n : f[i] \in S
  BY <1>2, ElementOfSeq
<1> QED
  BY <1>3, SubSeqProperties

\* Where the line ends that begins at pos.
LEMMA LineIs ==
    ASSUME PromptInv
    PROVE  /\ LineEnd \in pos..End
           /\ LineEnd = End \/ text[LineEnd] = "\n"
           /\ \A r \in pos..LineEnd - 1 : text[r] # "\n"
<1> DEFINE T == {q \in pos..End : q = End \/ text[q] = "\n"}
<1>1. Len(text) \in Nat /\ End \in Nat /\ pos \in Nat /\ pos <= End
  BY LettersAre DEF PromptInv, End
<1>2. T \subseteq Nat /\ End \in T
  BY <1>1
<1>3. PICK q \in T : \A r \in T : q <= r
  <2>1. T # {}
    BY <1>2
  <2> HIDE DEF T
  <2> QED
    BY <1>2, <2>1, LeastNumber
<1>4. \A r \in pos..q - 1 : r \in pos..End /\ ~(q <= r)
  BY <1>1
<1>5. \A r \in pos..q - 1 : text[r] # "\n"
  BY <1>3, <1>4
<1>6. \E z \in pos..End : (z = End \/ text[z] = "\n") /\ \A r \in pos..z - 1 : text[r] # "\n"
  BY <1>5
<1> HIDE DEF T
<1> QED
  BY <1>6 DEF LineEnd

\* What a line adds.
LEMMA InputIs ==
    ASSUME PromptInv
    PROVE  WithLine(SubSeq(text, pos, LineEnd - 1)) \in Seq(Letters)
<1> DEFINE line == SubSeq(text, pos, LineEnd - 1)
<1>1. Len(text) \in Nat /\ End = Len(text) + 1 /\ pos \in Nat \ {0} /\ LineEnd \in pos..End
  BY LettersAre, LineIs DEF PromptInv, End
<1>2. LineEnd - 1 \in Int /\ LineEnd - 1 <= Len(text)
  BY <1>1
<1>3. text \in Seq(Letters) /\ acc \in Seq(Letters) /\ "\n" \in Letters
  BY LettersAre DEF PromptInv, Letters
<1> HIDE DEF Letters
<1>4. line \in Seq(Letters)
  BY <1>1, <1>2, <1>3, Piece
<1> HIDE DEF line
<1>5. <<"\n">> \in Seq(Letters)
  BY <1>3
<1>6. acc \o <<"\n">> \in Seq(Letters)
  BY <1>3, <1>5, ConcatProperties
<1>7. acc \o <<"\n">> \o line \in Seq(Letters)
  BY <1>4, <1>6, ConcatProperties
<1>8. WithLine(line) \in Seq(Letters)
  BY <1>4, <1>7 DEF WithLine
<1> QED
  BY <1>8 DEF line

LEMMA ComingIs ==
    ASSUME PromptInv
    PROVE  Coming \in Seq(Letters)
<1>1. Len(text) \in Nat /\ End = Len(text) + 1 /\ pos \in Nat \ {0} /\ peeked \in 0..End
  BY LettersAre DEF PromptInv, End
<1>2. Len(text) \in Int /\ Len(text) <= Len(text)
  BY <1>1
<1>3. text \in Seq(Letters)
  BY LettersAre DEF PromptInv
<1>4. SubSeq(text, pos, Len(text)) \in Seq(Letters)
  BY <1>1, <1>2, <1>3, Piece
<1>5. ASSUME peeked # 0, peeked # End PROVE <<text[peeked]>> \in Seq(Letters)
  <2>1. peeked \in 1..Len(text)
    BY <1>1, <1>5
  <2>2. text[peeked] \in Letters
    BY <2>1 DEF Letters
  <2> HIDE DEF Letters
  <2> QED
    BY <2>2
<1>6. <<>> \in Seq(Letters)
  OBVIOUS
<1> HIDE DEF Letters, End
<1>7. ASSUME peeked # 0, peeked # End PROVE <<text[peeked]>> \o SubSeq(text, pos, Len(text)) \in Seq(Letters)
  BY <1>4, <1>5, <1>7, ConcatProperties
<1> QED
  BY <1>4, <1>6, <1>7 DEF Coming

LEMMA PromptInvInit == PromptInit => PromptInv
<1> SUFFICES ASSUME PromptInit PROVE PromptInv
  OBVIOUS
<1>1. text \in Seq(Chars) /\ pos = 1 /\ peeked = 0 /\ acc = <<>>
  BY TextsAssumption DEF PromptInit
<1>2. Len(text) \in Nat
  BY <1>1, LenProperties
<1>3. pos \in 1..End /\ peeked \in 0..End
  BY <1>1, <1>2 DEF End
<1> QED
  BY <1>1, <1>3 DEF PromptInv

\* Only the port has changed.
LEMMA PortMoves ==
    ASSUME PromptInv, text' = text, acc' = acc, pos' \in 1..End, peeked' \in 0..End
    PROVE  PromptInv'
<1>1. End' = End /\ Letters' = Letters
  BY DEF End, Letters
<1> HIDE DEF Letters, End
<1>2. is_balanced(acc') = is_balanced(acc)
  BY Zenon
<1> QED
  BY <1>1, <1>2, Zenon DEF PromptInv

LEMMA TakeMoves ==
    ASSUME PromptInv, NEW n \in Nat, Take(n)
    PROVE  pos' \in 1..End /\ peeked' \in 0..End
<1>1. Len(text) \in Nat /\ End = Len(text) + 1 /\ pos \in 1..End
  BY LettersAre DEF PromptInv, End
<1> HIDE DEF End
<1>2. peeked' = 0 /\ pos' = Lower(End, IF peeked = 0 THEN pos + n ELSE IF n = 0 THEN pos ELSE pos + n - 1)
  BY DEF Take
<1> DEFINE z == IF peeked = 0 THEN pos + n ELSE IF n = 0 THEN pos ELSE pos + n - 1
<1>3. z \in Nat /\ z >= 1
  BY <1>1
<1> HIDE DEF z
<1>4. Lower(End, z) \in 1..End
  BY <1>1, <1>3 DEF Lower
<1> QED
  BY <1>1, <1>2, <1>4 DEF z

LEMMA PromptInvNext == PromptInv /\ [PromptNext]_promptVars => PromptInv'
<1> SUFFICES ASSUME PromptInv, [PromptNext]_promptVars PROVE PromptInv'
  OBVIOUS
<1>1. Len(text) \in Nat /\ End = Len(text) + 1 /\ pos \in 1..End /\ peeked \in 0..End
  BY LettersAre DEF PromptInv, End
<1>2. CASE UNCHANGED promptVars
  BY <1>1, <1>2, PortMoves DEF promptVars
<1>3. CASE Bye
  BY <1>1, <1>3, PortMoves DEF Bye
<1>4. CASE ReadLine
  <2> DEFINE input == WithLine(SubSeq(text, pos, LineEnd - 1))
  <2>1. input \in Seq(Letters)
    BY InputIs
  <2>2. text' = text /\ peeked' = peeked /\ pos' = Lower(LineEnd + 1, End)
    BY <1>4 DEF ReadLine
  <2>3. pos' \in 1..End
    <3>1. LineEnd \in pos..End
      BY LineIs
    <3> HIDE DEF End
    <3>2. LineEnd + 1 \in Nat /\ LineEnd + 1 >= 1
      BY <1>1, <3>1
    <3> QED
      BY <1>1, <2>2, <3>2 DEF Lower
  <2>4. \/ acc' = input /\ (input = <<>> \/ ~is_balanced(input))
        \/ acc' = <<>>
    BY <1>4 DEF ReadLine
  <2>5. acc' \in Seq(Letters) /\ (acc' # <<>> => ~is_balanced(acc'))
    <3> HIDE DEF input, Letters
    <3>1. <<>> \in Seq(Letters)
      OBVIOUS
    <3> QED
      BY <2>1, <2>4, <3>1, Zenon
  <2>6. End' = End /\ Letters' = Letters
    BY <2>2 DEF End, Letters
  <2> HIDE DEF Letters, End
  <2>7. text' \in Seq(Chars) /\ peeked' \in 0..End
    BY <1>1, <2>2 DEF PromptInv
  <2> QED
    BY <2>3, <2>5, <2>6, <2>7, Zenon DEF PromptInv
<1>5. CASE Peek
  <2>1. text' = text /\ acc' = acc
    BY <1>5 DEF Peek, Evaluating
  <2>2. \/ peeked' = pos /\ pos' = Lower(End, pos + 1)
        \/ peeked' = peeked /\ pos' = pos
    BY <1>5 DEF Peek
  <2>3. Lower(End, pos + 1) \in 1..End
    BY <1>1 DEF Lower
  <2>4. pos' \in 1..End /\ peeked' \in 0..End
    BY <1>1, <2>2, <2>3
  <2> QED
    BY <2>1, <2>4, PortMoves
<1>6. CASE Get
  <2>1. text' = text /\ acc' = acc /\ Take(1)
    BY <1>6 DEF Get, Evaluating
  <2>2. pos' \in 1..End /\ peeked' \in 0..End
    BY <2>1, TakeMoves
  <2> QED
    BY <2>1, <2>2, PortMoves
<1>7. CASE Datum
  <2>1. text' = text /\ acc' = acc /\ Take(read_one_from_port(Coming).taken)
    BY <1>7 DEF Datum, Evaluating
  <2>2. read_one_from_port(Coming).taken \in Nat
    <3>1. Coming \in Writing
      BY ComingIs, LettersAre DEF PromptInv
    <3> DEFINE s == Coming
    <3> HIDE DEF s
    <3>2. s \in Writing
      BY <3>1 DEF s
    <3> DEFINE st == Scan(s)[Len(s)]
    <3> HIDE DEF st
    <3>3. st \in ScanStates
      BY <3>2, PortReadIs DEF st
    <3>4. read_one_from_port(s) =
                [taken |-> st.taken,
                 datum |-> IF st.seen THEN Reader(SubSeq(s, 1, st.taken))[1]["expr"] ELSE NoMore]
      BY <3>2, PortReadIs DEF st
    <3>5. read_one_from_port(s).taken = st.taken
      BY <3>4
    <3>6. st.taken \in Nat
      BY <3>3 DEF ScanStates
    <3> QED
      BY <3>5, <3>6 DEF s
  <2>3. pos' \in 1..End /\ peeked' \in 0..End
    BY <2>1, <2>2, TakeMoves
  <2> QED
    BY <2>1, <2>3, PortMoves
<1>8. CASE Other
  <2>1. text' = text /\ acc' = acc /\ pos' = pos /\ peeked' = peeked
    BY <1>8 DEF Other, Evaluating
  <2> QED
    BY <1>1, <2>1, PortMoves
<1>9. CASE Answered
  BY <1>1, <1>9, PortMoves DEF Answered
<1> QED
  BY <1>2, <1>3, <1>4, <1>5, <1>6, <1>7, <1>8, <1>9 DEF PromptNext

LEMMA AlwaysPrompt == PromptSpec => []PromptInv
<1>1. PromptInit => PromptInv
  BY PromptInvInit
<1>2. PromptInv /\ [PromptNext]_promptVars => PromptInv'
  BY PromptInvNext
<1> QED
  BY <1>1, <1>2, PTL DEF PromptSpec

\* The prompt and the reader agree about every text without backslashes, and
\* what the prompt waits for is never one the reader could read
\* (is_balanced at scheme14.cpp:6185 against read_expr at :1106).
THEOREM AgreesWithReader == PromptSpec => []PromptAgreesWithReader
<1>1. PromptInv => PromptAgreesWithReader
  <2> SUFFICES ASSUME PromptInv, HasNo("\\")
               PROVE  LET all == read_all(acc) IN
        /\ acc # <<>> => ~all.ok
        /\ \A k \in 1..Len(text) :
              LET s == SubSeq(text, k, Len(text)) IN
              (is_balanced(s) => read_all(s) # Unfinished) /\ (read_all(s).ok => is_balanced(s))
    BY DEF PromptAgreesWithReader
  <2>1. acc \in Writing /\ NoEscape(acc)
    BY LettersAre DEF PromptInv
  <2>2. acc # <<>> => ~read_all(acc).ok
    BY <2>1, BalanceAgrees DEF PromptInv
  <2>3. ASSUME NEW k \in 1..Len(text)
        PROVE  LET s == SubSeq(text, k, Len(text)) IN
               (is_balanced(s) => read_all(s) # Unfinished) /\ (read_all(s).ok => is_balanced(s))
    <3>1. Len(text) \in Nat /\ text \in Seq(Letters)
      BY LettersAre DEF PromptInv
    <3>2. k \in Nat \ {0} /\ Len(text) \in Int /\ Len(text) <= Len(text)
      BY <3>1
    <3>3. SubSeq(text, k, Len(text)) \in Seq(Letters)
      BY <3>1, <3>2, Piece
    <3>4. SubSeq(text, k, Len(text)) \in Writing /\ NoEscape(SubSeq(text, k, Len(text)))
      BY <3>3, LettersAre DEF PromptInv
    <3> QED
      BY <3>4, BalanceAgrees
  <2> QED
    BY <2>2, <2>3
<1> QED
  BY <1>1, AlwaysPrompt, PTL

-----------------------------------------------------------------------------
(* A piece of a text is read as it is within the text.                     *)

\* t is what stands in s behind a and up to m.
Window(s, t, a, m) ==
    /\ a \in Nat /\ m \in Nat /\ a <= m /\ m <= Len(s)
    /\ t \in Writing /\ Len(t) = m - a
    /\ \A i \in 1..m - a : t[i] = s[a + i]

LEMMA WindowPlace ==
    ASSUME NEW s \in Writing, NEW t, NEW a, NEW m, Window(s, t, a, m), NEW q \in a + 1..m + 1
    PROVE  /\ q \in Nat /\ q \in Places(s) /\ q - a \in Places(t) /\ q - a \in Nat
           /\ Past(t, q - a) <=> q = m + 1
           /\ q # m + 1 => /\ q <= m /\ ~Past(s, q) /\ t[q - a] = s[q] /\ (q - a) + 1 = (q + 1) - a
                           /\ q + 1 \in a + 1..m + 1
           /\ q <= m => q # m + 1
<1>1. /\ a \in Nat /\ m \in Nat /\ a <= m /\ m <= Len(s) /\ t \in Writing /\ Len(t) = m - a
      /\ Len(s) \in Nat
  BY LengthIs DEF Window
<1>2. \A i \in 1..m - a : t[i] = s[a + i]
  BY DEF Window
<1>3. q \in Nat /\ q >= 1 /\ q <= Len(s) + 1 /\ q - a \in Nat /\ q - a >= 1 /\ q - a <= (m - a) + 1
  BY ONLY <1>1, q \in a + 1..m + 1
<1>4. q \in Places(s) /\ q - a \in Places(t)
  BY ONLY <1>1, <1>3 DEF Places
<1>5. Past(t, q - a) <=> q - a > m - a
  BY <1>1 DEF Past
<1>6. Past(t, q - a) <=> q = m + 1
  BY ONLY <1>1, <1>3, <1>5, q \in a + 1..m + 1
<1>7. ASSUME q # m + 1
      PROVE  /\ q <= m /\ ~Past(s, q) /\ t[q - a] = s[q] /\ (q - a) + 1 = (q + 1) - a
             /\ q + 1 \in a + 1..m + 1
  <2>1. q <= m /\ q - a \in 1..m - a /\ a + (q - a) = q /\ ~(q > Len(s)) /\ (q - a) + 1 = (q + 1) - a
        /\ q + 1 \in a + 1..m + 1
    BY ONLY <1>1, <1>3, <1>7, q \in a + 1..m + 1
  <2>2. t[q - a] = s[a + (q - a)]
    BY <1>2, <2>1, Zenon
  <2> QED
    BY <2>1, <2>2, Zenon DEF Past
<1>8. q <= m => q # m + 1
  BY ONLY <1>1, q \in a + 1..m + 1
<1> QED
  BY <1>3, <1>4, <1>6, <1>7, <1>8, Zenon

LEMMA WindowChar ==
    ASSUME NEW s \in Writing, NEW t, NEW a, NEW m, Window(s, t, a, m), NEW j \in a + 1..m
    PROVE  t[j - a] = s[j] /\ ~Past(t, j - a) /\ ~Past(s, j)
<1>1. a \in Nat /\ m \in Nat
  BY DEF Window
<1>2. j \in a + 1..m + 1 /\ j # m + 1
  BY ONLY <1>1, j \in a + 1..m
<1> QED
  BY <1>2, WindowPlace

LEMMA WindowComment ==
    ASSUME NEW s \in Writing, NEW t, NEW a, NEW m, Window(s, t, a, m),
           NEW p \in a + 1..m + 1, NEW j \in p..m
    PROVE  InComment(t, p - a, j - a) <=> InComment(s, p, j)
<1>1. a \in Nat /\ m \in Nat /\ p \in Nat
  BY WindowPlace DEF Window
<1>2. \A i \in p..j : i \in a + 1..m + 1 /\ i # m + 1
  BY ONLY <1>1, p \in a + 1..m + 1, j \in p..m
<1>3. \A i \in p..j : t[i - a] = s[i]
  BY <1>2, WindowPlace, Zenon
<1>4. \A i \in p..j : i - a \in p - a..j - a /\ i \in Int
  BY ONLY <1>1, p \in a + 1..m + 1, j \in p..m
<1>5. \A i \in p - a..j - a : i + a \in p..j /\ (i + a) - a = i
  BY ONLY <1>1, p \in a + 1..m + 1, j \in p..m
<1>6. ASSUME InComment(s, p, j) PROVE InComment(t, p - a, j - a)
  <2>1. PICK i \in p..j : s[i] = ";" /\ \A r \in i..j : s[r] # "\n"
    BY <1>6, Zenon DEF InComment
  <2>2. ASSUME NEW r \in i - a..j - a PROVE t[r] # "\n"
    <3>1. r + a \in i..j /\ r + a \in p..j /\ (r + a) - a = r
      BY ONLY <1>1, i \in p..j, r \in i - a..j - a, p \in a + 1..m + 1, j \in p..m
    <3>2. t[(r + a) - a] = s[r + a]
      BY <1>3, <3>1, Zenon
    <3> QED
      BY <2>1, <3>1, <3>2
  <2>3. i - a \in p - a..j - a /\ t[i - a] = ";"
    BY <1>3, <1>4, <2>1
  <2> QED
    BY <2>2, <2>3, Zenon DEF InComment
<1>7. ASSUME InComment(t, p - a, j - a) PROVE InComment(s, p, j)
  <2>1. PICK i \in p - a..j - a : t[i] = ";" /\ \A r \in i..j - a : t[r] # "\n"
    BY <1>7, Zenon DEF InComment
  <2>2. ASSUME NEW r \in i + a..j PROVE s[r] # "\n"
    <3>1. r - a \in i..j - a /\ r \in p..j
      BY ONLY <1>1, i \in p - a..j - a, r \in i + a..j, p \in a + 1..m + 1, j \in p..m
    <3>2. t[r - a] = s[r]
      BY <1>3, <3>1, Zenon
    <3> QED
      BY <2>1, <3>1, <3>2
  <2>3. i + a \in p..j /\ (i + a) - a = i
    BY <1>5
  <2>4. s[i + a] = ";"
    BY <1>3, <2>1, <2>3
  <2> QED
    BY <2>2, <2>3, <2>4, Zenon DEF InComment
<1> QED
  BY <1>6, <1>7

\* Atmosphere ends at the same place, or where the piece does.
LEMMA WindowSkip ==
    ASSUME NEW s \in Writing, NEW t, NEW a, NEW m, Window(s, t, a, m),
           NEW p \in a + 1..m + 1, NEW q, SkipTo(s, p, q)
    PROVE  /\ q <= m => skip_atmosphere(t, p - a) = q - a
           /\ ~(q <= m) => skip_atmosphere(t, p - a) = (m + 1) - a
           /\ q \in Nat /\ p <= q
<1> DEFINE z == IF q <= m THEN q ELSE m + 1
<1>1. /\ a \in Nat /\ m \in Nat /\ p \in Nat /\ a <= m /\ m <= Len(s) /\ Len(s) \in Nat
      /\ t \in Writing /\ Len(t) = m - a /\ p \in Places(s) /\ p - a \in Places(t)
  BY WindowPlace, LengthIs DEF Window
<1>2. q \in Nat /\ p <= q /\ q <= Len(s) + 1
  BY DEF SkipTo
<1>3. z \in Nat /\ p <= z /\ z <= m + 1 /\ z - a \in Nat /\ p - a <= z - a /\ z - a <= Len(t) + 1
  BY ONLY <1>1, <1>2, p \in a + 1..m + 1
<1>4. ASSUME z - a <= Len(t) PROVE t[z - a] \notin Spaces /\ ~InComment(t, p - a, z - a)
  <2>1. z <= m
    BY ONLY <1>1, <1>3, <1>4
  <2>2. z = q /\ q <= Len(s) /\ q \in p..m /\ q \in a + 1..m + 1 /\ q # m + 1
    BY ONLY <1>1, <1>2, <2>1, p \in a + 1..m + 1
  <2>3. s[q] \notin Spaces /\ ~InComment(s, p, q)
    BY <2>2 DEF SkipTo
  <2>a. q \in a + 1..m
    BY ONLY <1>1, <2>2
  <2>4. t[q - a] = s[q]
    BY <2>a, WindowChar
  <2>5. ~InComment(t, p - a, q - a)
    BY <2>2, <2>3, WindowComment, Zenon
  <2> QED
    BY <2>2, <2>3, <2>4, <2>5, Zenon
<1>5. ASSUME NEW i \in p - a..(z - a) - 1 PROVE t[i] \in Spaces \/ InComment(t, p - a, i)
  <2> DEFINE j == i + a
  <2>1. j \in p..q - 1 /\ j \in p..m /\ j \in a + 1..m + 1 /\ j # m + 1 /\ j - a = i
    BY ONLY <1>1, <1>2, <1>3, p \in a + 1..m + 1, i \in p - a..(z - a) - 1
  <2> HIDE DEF j
  <2>2. s[j] \in Spaces \/ InComment(s, p, j)
    BY <2>1 DEF SkipTo
  <2>a. j \in a + 1..m
    BY ONLY <1>1, <2>1
  <2>3. t[j - a] = s[j]
    BY <2>a, WindowChar
  <2>4. InComment(t, p - a, j - a) <=> InComment(s, p, j)
    BY <2>1, WindowComment, Zenon
  <2> QED
    BY <2>1, <2>2, <2>3, <2>4, Zenon
<1> HIDE DEF z
<1>6. SkipTo(t, p - a, z - a)
  BY <1>3, <1>4, <1>5, Zenon DEF SkipTo
<1>7. skip_atmosphere(t, p - a) = z - a
  BY <1>1, <1>6, SkipUnique, Zenon
<1> QED
  BY <1>2, <1>7 DEF z

\* A token that ends within the piece.
LEMMA WindowToken ==
    ASSUME NEW s \in Writing, NEW t, NEW a, NEW m, Window(s, t, a, m),
           NEW q \in a + 1..m, TokenEnd(s, q) <= m + 1
    PROVE  read_atom(t, q - a) = Read(read_atom(s, q).x, read_atom(s, q).p - a)
<1> DEFINE e == TokenEnd(s, q)
           d == TokenEnd(t, q - a)
<1>1. /\ a \in Nat /\ m \in Nat /\ a <= m /\ m <= Len(s) /\ Len(s) \in Nat
      /\ t \in Writing /\ Len(t) = m - a
  BY LengthIs DEF Window
<1>2. q \in a + 1..m + 1 /\ q # m + 1 /\ q \in Nat
  BY ONLY <1>1, q \in a + 1..m
<1>3. q \in Places(s) /\ q - a \in Places(t) /\ q - a \in Nat
  BY <1>2, WindowPlace, Zenon
<1>4. e \in Nat /\ q <= e /\ e <= Len(s) + 1 /\ DelimiterAt(s, e) /\ \A j \in q..e - 1 : ~DelimiterAt(s, j)
  BY <1>3, TokenIs
<1>5. d \in Nat /\ q - a <= d /\ d <= Len(t) + 1 /\ DelimiterAt(t, d) /\ \A j \in q - a..d - 1 : ~DelimiterAt(t, j)
  BY <1>1, <1>3, TokenIs
<1>e. e <= m + 1
  OBVIOUS
<1> HIDE DEF e, d
<1>6. \A j \in a + 1..m : DelimiterAt(t, j - a) <=> DelimiterAt(s, j)
  <2> TAKE j \in a + 1..m
  <2>1. j \in a + 1..m + 1 /\ j # m + 1
    BY ONLY <1>1, j \in a + 1..m
  <2>2. ~Past(t, j - a) /\ ~Past(s, j) /\ t[j - a] = s[j]
    BY <2>1, WindowPlace, Zenon
  <2> QED
    BY <2>2, Zenon DEF DelimiterAt
<1>7. ~(d < e - a)
  <2> SUFFICES ASSUME d < e - a PROVE FALSE
    OBVIOUS
  <2>1. d + a \in q..e - 1 /\ d + a \in a + 1..m /\ (d + a) - a = d
    BY ONLY <1>1, <1>2, <1>4, <1>5, <1>e, d < e - a
  <2>2. ~DelimiterAt(s, d + a)
    BY <1>4, <2>1, Zenon
  <2>3. DelimiterAt(t, (d + a) - a)
    BY <1>5, <2>1
  <2> QED
    BY <1>6, <2>1, <2>2, <2>3, Zenon
<1>8. ~(d > e - a)
  <2> SUFFICES ASSUME d > e - a PROVE FALSE
    OBVIOUS
  <2>1. e - a \in q - a..d - 1 /\ e \in a + 1..m
    BY ONLY <1>1, <1>2, <1>4, <1>5, <1>e, d > e - a
  <2>2. ~DelimiterAt(t, e - a)
    BY <1>5, <2>1, Zenon
  <2> QED
    BY <1>4, <1>6, <2>1, <2>2, Zenon
<1>9. d = e - a
  BY ONLY <1>1, <1>4, <1>5, <1>7, <1>8
<1>10. SubSeq(t, q - a, d - 1) = SubSeq(s, q, e - 1)
  <2> DEFINE u == SubSeq(s, q, e - 1)
             v == SubSeq(t, q - a, d - 1)
             C == Chars \cup {"\n"}
  <2>1. q \in Nat \ {0} /\ e - 1 \in Int /\ e - 1 <= Len(s) /\ q - a \in Nat \ {0} /\ d - 1 \in Int /\ d - 1 <= Len(t)
        /\ (d - 1) - (q - a) + 1 = (e - 1) - q + 1 /\ (q - a <= d - 1 <=> q <= e - 1)
    BY ONLY <1>1, <1>2, <1>4, <1>5, <1>9, q \in a + 1..m
  <2>2. s \in Seq(C) /\ t \in Seq(C)
    BY <1>1 DEF Writing
  <2> HIDE DEF C
  <2>3. u \in Seq(C) /\ Len(u) = (IF q <= e - 1 THEN (e - 1) - q + 1 ELSE 0) /\ \A i \in 1..(e - 1) - q + 1 : u[i] = s[q + i - 1]
    BY <2>1, <2>2, Piece
  <2>4. v \in Seq(C) /\ Len(v) = (IF q - a <= d - 1 THEN (d - 1) - (q - a) + 1 ELSE 0)
        /\ \A i \in 1..(d - 1) - (q - a) + 1 : v[i] = t[(q - a) + i - 1]
    BY <2>1, <2>2, Piece
  <2> HIDE DEF u, v
  <2>5. Len(u) = Len(v)
    BY ONLY <2>1, <2>3, <2>4
  <2>6. ASSUME NEW i \in 1..Len(u) PROVE u[i] = v[i]
    <3>1. i \in 1..(e - 1) - q + 1 /\ i \in 1..(d - 1) - (q - a) + 1
      BY ONLY <2>1, <2>3, <1>2, <1>4, i \in 1..Len(u)
    <3> DEFINE j == q + i - 1
    <3>2. (q - a) + i - 1 = j - a /\ j \in a + 1..m + 1 /\ j # m + 1
      BY ONLY <3>1, <1>1, <1>2, <1>4, <1>e, q \in a + 1..m
    <3>a. u[i] = s[j] /\ v[i] = t[(q - a) + i - 1]
      BY <2>3, <2>4, <3>1, Zenon
    <3> HIDE DEF j
    <3>3. t[j - a] = s[j]
      BY <3>2, WindowPlace, Zenon
    <3> QED
      BY <3>2, <3>3, <3>a
  <2>7. u = v
    BY <2>3, <2>4, <2>5, <2>6, SeqEqual
  <2> QED
    BY <2>7 DEF u, v
<1>11. read_atom(s, q) = Read(Atom(SubSeq(s, q, e - 1)), e) /\ read_atom(t, q - a) = Read(Atom(SubSeq(t, q - a, d - 1)), d)
  BY DEF read_atom, e, d
<1>12. read_atom(s, q).x = Atom(SubSeq(s, q, e - 1)) /\ read_atom(s, q).p = e
  <2> DEFINE y == Atom(SubSeq(s, q, e - 1))
  <2>1. read_atom(s, q) = Read(y, e)
    BY <1>11
  <2> HIDE DEF y
  <2>2. read_atom(s, q).x = y /\ read_atom(s, q).p = e
    BY <2>1 DEF Read
  <2> QED
    BY <2>2 DEF y
<1> QED
  BY <1>9, <1>10, <1>11, <1>12

Fits(m, x)  == x.ok /\ x.p <= m + 1
Moved(a, x) == Read(x.x, x.p - a)

WindowAt(s, t, a, m, q) ==
    \A f \in Reads \ {"all"} :
        Fits(m, Reader(s)[q][f]) => Reader(t)[q - a][f] = Moved(a, Reader(s)[q][f])
WindowLater(s, t, a, m, q) == \A r \in a + 1..m + 1 : r > q => WindowAt(s, t, a, m, r)

LEMMA MovedIs ==
    ASSUME NEW a, NEW x
    PROVE  Moved(a, x).ok = TRUE /\ Moved(a, x).x = x.x /\ Moved(a, x).p = x.p - a
  BY DEF Moved, Read

\* What the reader found further on.
LEMMA WindowLook ==
    ASSUME NEW s \in Writing, NEW t, NEW a, NEW m, Window(s, t, a, m), NEW q \in a + 1..m,
           WindowLater(s, t, a, m, q), NEW r \in Places(s), r > q, NEW f \in Reads, f # "all",
           Fits(m, Reader(s)[r][f])
    PROVE  Reader(t)[r - a][f] = Moved(a, Reader(s)[r][f]) /\ r \in a + 1..m /\ Reader(s)[r][f].p > r
<1> DEFINE x == Reader(s)[r][f]
<1>1. Outcome(s, r, f, x)
  BY ReaderIs
<1>2. x.ok /\ x.p <= m + 1
  BY DEF Fits
<1> HIDE DEF x
<1>3. x.p > r /\ x.p \in Nat /\ r \in Nat
  BY <1>1, <1>2, ReadPlace, PlaceIs
<1>4. a \in Nat /\ m \in Nat
  BY DEF Window
<1>5. r \in a + 1..m /\ r \in a + 1..m + 1
  BY ONLY <1>2, <1>3, <1>4, r > q, q \in a + 1..m
<1>6. WindowAt(s, t, a, m, r)
  BY <1>5, Zenon DEF WindowLater
<1>7. f \in Reads \ {"all"}
  OBVIOUS
<1> QED
  BY <1>3, <1>5, <1>6, <1>7, Zenon DEF WindowAt, x

LEMMA WindowExpr ==
    ASSUME NEW s \in Writing, NEW t, NEW a, NEW m, Window(s, t, a, m), NEW q \in a + 1..m,
           Begins(s, q), WindowLater(s, t, a, m, q), Fits(m, read_expr(s, q, Reader(s)))
    PROVE  read_expr(t, q - a, Reader(t)) = Moved(a, read_expr(s, q, Reader(s)))
<1> DEFINE R == Reader(s)
           P == Reader(t)
           x == read_expr(s, q, R)
           y == read_expr(t, q - a, P)
           i == q - a
<1>0. a \in Nat /\ m \in Nat /\ t \in Writing
  BY DEF Window
<1>1. q \in a + 1..m + 1 /\ q # m + 1 /\ q \in Int
  BY ONLY <1>0, q \in a + 1..m
<1>2. /\ q \in Places(s) /\ i \in Places(t) /\ ~Past(s, q) /\ ~Past(t, i) /\ t[i] = s[q]
      /\ q + 1 \in a + 1..m + 1 /\ i + 1 = (q + 1) - a
  BY <1>1, WindowPlace
<1>3. q + 1 \in Places(s) /\ q + 1 > q
  BY <1>2, NextPlace
<1>4. x.ok /\ x.p <= m + 1
  BY DEF Fits
<1>r. {"expr", "list", "vector", "string"} \subseteq Reads /\ "all" \notin {"expr", "list", "vector", "string"}
  BY DEF Reads
<1>h. CharAt(s, q + 1) = "(" /\ q + 1 <= m => CharAt(t, i + 1) = "("
  <2> SUFFICES ASSUME CharAt(s, q + 1) = "(", q + 1 <= m PROVE CharAt(t, i + 1) = "("
    OBVIOUS
  <2>a. q + 1 \in a + 1..m
    BY ONLY <1>0, q + 1 <= m, q \in a + 1..m
  <2>1. t[(q + 1) - a] = s[q + 1] /\ ~Past(t, (q + 1) - a) /\ ~Past(s, q + 1)
    BY <2>a, WindowChar
  <2> QED
    BY <1>2, <2>1, Zenon DEF CharAt
<1>g. CharAt(t, i + 1) = "(" => CharAt(s, q + 1) = "("
  <2> SUFFICES ASSUME CharAt(t, i + 1) = "(" PROVE CharAt(s, q + 1) = "("
    OBVIOUS
  <2>0. "(" # ""
    OBVIOUS
  <2>1. ~Past(t, i + 1)
    BY <2>0, Zenon DEF CharAt
  <2>2. q + 1 # m + 1
    BY <1>2, <2>1, WindowPlace
  <2>a. q + 1 \in a + 1..m
    BY ONLY <1>0, <1>2, <2>2
  <2>3. t[(q + 1) - a] = s[q + 1] /\ ~Past(s, q + 1)
    BY <2>a, WindowChar
  <2> QED
    BY <1>2, <2>1, <2>3, Zenon DEF CharAt
<1>5. CASE s[q] = "("
  <2>1. x = R[q + 1]["list"] /\ y = P[i + 1]["list"]
    BY <1>2, <1>5, Zenon DEF read_expr
  <2>2. Fits(m, R[q + 1]["list"])
    BY <2>1
  <2>3. P[(q + 1) - a]["list"] = Moved(a, R[q + 1]["list"])
    BY <1>3, <1>r, <2>2, WindowLook
  <2> QED
    BY <1>2, <2>1, <2>3
<1>6. CASE s[q] = ")"
  <2>1. x = Refuse("unexpected )")
    BY <1>2, <1>6, Zenon DEF read_expr
  <2> QED
    BY <1>4, <2>1, Whys, Zenon
<1>7. CASE s[q] = "\""
  <2>1. x = R[q + 1]["string"] /\ y = P[i + 1]["string"]
    BY <1>2, <1>7, Zenon DEF read_expr
  <2>2. Fits(m, R[q + 1]["string"])
    BY <2>1
  <2>3. P[(q + 1) - a]["string"] = Moved(a, R[q + 1]["string"])
    BY <1>3, <1>r, <2>2, WindowLook
  <2> QED
    BY <1>2, <2>1, <2>3
<1>8. CASE s[q] = "'"
  <2> DEFINE r == R[q + 1]["expr"]
             z == P[i + 1]["expr"]
  <2>1. x = read_abbrev(r) /\ y = read_abbrev(z)
    BY <1>2, <1>8, Zenon DEF read_expr
  <2>2. /\ x = IF r.ok THEN Read(Quoted(r.x), r.p) ELSE IF r = NoMore THEN Headless ELSE r
        /\ y = IF z.ok THEN Read(Quoted(z.x), z.p) ELSE IF z = NoMore THEN Headless ELSE z
    BY <2>1, AbbrevIs
  <2> HIDE DEF x, y
  <2>3. r.ok
    BY <1>4, <2>2, Whys, Zenon DEF Headless
  <2>4. x.p = r.p /\ x.x = Quoted(r.x)
    BY <2>2, <2>3 DEF Read
  <2>5. Fits(m, r)
    BY <1>4, <2>3, <2>4 DEF Fits
  <2>6. P[(q + 1) - a]["expr"] = Moved(a, r)
    BY <1>3, <1>r, <2>5, WindowLook
  <2>7. z = Moved(a, r)
    BY <1>2, <2>6
  <2> HIDE DEF z, r
  <2>8. z.ok = TRUE /\ z.x = r.x /\ z.p = r.p - a
    BY <2>7, MovedIs
  <2>9. y = Moved(a, x)
    BY <2>2, <2>4, <2>8 DEF Moved
  <2> QED
    BY <2>9 DEF x, y
<1>9. CASE s[q] = "#" /\ CharAt(s, q + 1) = "("
  <2> DEFINE r == R[q + 2]["vector"]
             z == P[i + 2]["vector"]
  <2>1. x = read_vector(r)
    BY <1>2, <1>9, Zenon DEF read_expr
  <2>2. x = IF r.ok THEN Read(Vec(r.x), r.p) ELSE r
    BY <2>1, VectorIs
  <2> HIDE DEF x
  <2>3. r.ok /\ x.p = r.p /\ x.x = Vec(r.x)
    BY <1>4, <2>2 DEF Read
  <2>4. Fits(m, r)
    BY <1>4, <2>3 DEF Fits
  <2>5. q + 2 \in Places(s) /\ q + 2 > q
    <3>1. ~Past(s, q + 1)
      <4>1. "(" # ""
        OBVIOUS
      <4> QED
        BY <1>9, <4>1, Zenon DEF CharAt
    <3>2. (q + 1) + 1 \in Places(s) /\ q + 1 \in Nat
      BY <1>3, <3>1, NextPlace
    <3>3. (q + 1) + 1 = q + 2 /\ q + 2 > q
      BY ONLY <1>1
    <3> QED
      BY <3>2, <3>3
  <2>6. P[(q + 2) - a]["vector"] = Moved(a, r) /\ q + 2 \in a + 1..m
    BY <1>r, <2>4, <2>5, WindowLook
  <2>7. (q + 2) - a = i + 2 /\ q + 1 <= m
    BY ONLY <1>0, <1>1, <2>6
  <2>8. z = Moved(a, r)
    BY <2>6, <2>7
  <2>9. y = read_vector(z)
    BY <1>2, <1>9, <1>h, <2>7, Zenon DEF read_expr
  <2>10. y = IF z.ok THEN Read(Vec(z.x), z.p) ELSE z
    BY <2>9, VectorIs
  <2> HIDE DEF z, r, y
  <2>11. z.ok = TRUE /\ z.x = r.x /\ z.p = r.p - a
    BY <2>8, MovedIs
  <2>12. y = Moved(a, x)
    BY <2>3, <2>10, <2>11 DEF Moved
  <2> QED
    BY <2>12 DEF x, y
<1>10. CASE s[q] \notin {"(", ")", "\"", "'"} /\ ~(s[q] = "#" /\ CharAt(s, q + 1) = "(")
  <2>1. x = read_atom(s, q)
    BY <1>2, <1>10, Zenon DEF read_expr
  <2>2. y = read_atom(t, i)
    BY <1>2, <1>10, <1>g, Zenon DEF read_expr
  <2>3. read_atom(s, q).p = TokenEnd(s, q)
    BY DEF read_atom, Read
  <2>4. TokenEnd(s, q) <= m + 1
    BY <1>4, <2>1, <2>3
  <2>5. read_atom(t, q - a) = Read(read_atom(s, q).x, read_atom(s, q).p - a)
    BY <2>4, WindowToken
  <2> QED
    BY <2>1, <2>2, <2>5 DEF Moved
<1> QED
  BY <1>5, <1>6, <1>7, <1>8, <1>9, <1>10

LEMMA WindowDot ==
    ASSUME NEW s \in Writing, NEW t, NEW a, NEW m, Window(s, t, a, m), NEW q \in a + 1..m, q + 1 <= m
    PROVE  at_dot(t, q - a) <=> at_dot(s, q)
<1>0. a \in Nat /\ m \in Nat
  BY DEF Window
<1>1. q + 1 \in a + 1..m /\ (q + 1) - a = (q - a) + 1
  BY ONLY <1>0, q \in a + 1..m, q + 1 <= m
<1>2. /\ t[q - a] = s[q] /\ ~Past(t, q - a) /\ ~Past(s, q)
      /\ t[(q + 1) - a] = s[q + 1] /\ ~Past(t, (q + 1) - a) /\ ~Past(s, q + 1)
  BY <1>1, WindowChar
<1> QED
  BY <1>1, <1>2, Zenon DEF at_dot, CharAt, DelimiterAt

LEMMA WindowItem ==
    ASSUME NEW s \in Writing, NEW t, NEW a, NEW m, Window(s, t, a, m), NEW q \in a + 1..m,
           Begins(s, q), WindowLater(s, t, a, m, q), NEW f \in {"list", "rest", "vector"},
           Fits(m, read_item(s, q, Reader(s), f))
    PROVE  read_item(t, q - a, Reader(t), f) = Moved(a, read_item(s, q, Reader(s), f))
<1> DEFINE R == Reader(s)
           P == Reader(t)
           y == read_item(s, q, R, f)
           z == read_item(t, q - a, P, f)
           i == q - a
<1>0. a \in Nat /\ m \in Nat /\ t \in Writing
  BY DEF Window
<1>1. q \in a + 1..m + 1 /\ q # m + 1 /\ q \in Int
  BY ONLY <1>0, q \in a + 1..m
<1>2. /\ q \in Places(s) /\ i \in Places(t) /\ ~Past(s, q) /\ ~Past(t, i) /\ t[i] = s[q]
      /\ q + 1 \in a + 1..m + 1 /\ i + 1 = (q + 1) - a
  BY <1>1, WindowPlace
<1>3. q + 1 \in Places(s) /\ q + 1 > q
  BY <1>2, NextPlace
<1>4. y.ok /\ y.p <= m + 1
  BY DEF Fits
<1>5. CASE s[q] = ")"
  <2>1. y = Read(Empty, q + 1) /\ z = Read(Empty, i + 1)
    BY <1>2, <1>5, Zenon DEF read_item
  <2>2. y.x = Empty /\ y.p = q + 1
    BY <2>1 DEF Read
  <2> QED
    BY <1>2, <2>1, <2>2 DEF Moved
<1>6. CASE s[q] # ")" /\ f # "vector" /\ at_dot(s, q) /\ f = "list"
  <2>1. y = Misplaced
    BY <1>2, <1>6, Zenon DEF read_item
  <2> QED
    BY <1>4, <2>1, Whys, Zenon DEF Misplaced
<1>7. CASE s[q] # ")" /\ f # "vector" /\ at_dot(s, q) /\ f # "list"
  <2> DEFINE r == R[q + 1]["expr"]
             w == P[i + 1]["expr"]
  <2>1. y = close_dotted(s, r)
    BY <1>2, <1>7, Zenon DEF read_item
  <2>2. y = IF r.ok THEN Closed(s, r, skip_atmosphere(s, r.p)) ELSE IF r = NoMore THEN Unfinished ELSE r
    BY <2>1, ClosedIs
  <2>e. "expr" \in Reads /\ "expr" # "all"
    BY DEF Reads
  <2>o. Outcome(s, q + 1, "expr", r)
    BY <1>3, <2>e, ReaderIs
  <2> HIDE DEF y
  <2>3. r.ok
    BY <1>4, <2>2, Whys, Zenon DEF Unfinished
  <2> DEFINE end == skip_atmosphere(s, r.p)
  <2>4. r.p \in Places(s) /\ r.p \in Nat /\ r.p > q + 1
    BY <1>3, <2>o, <2>3, ReadPlace
  <2>5. SkipTo(s, r.p, end) /\ end \in Nat /\ r.p <= end
    BY <2>4, SkipIs DEF SkipTo
  <2> HIDE DEF end, r
  <2>6. y = IF Past(s, end) THEN Unfinished ELSE IF s[end] = ")" THEN Read(r.x, end + 1) ELSE Misplaced
    BY <2>2, <2>3, Zenon DEF Closed, end
  <2>7. ~Past(s, end) /\ s[end] = ")" /\ y = Read(r.x, end + 1)
    BY <1>4, <2>6, Whys, Zenon DEF Unfinished, Misplaced
  <2>8. y.x = r.x /\ y.p = end + 1
    BY <2>7 DEF Read
  <2>9. end <= m /\ r.p <= m + 1 /\ q + 1 <= m /\ end \in a + 1..m /\ r.p \in a + 1..m + 1
    BY ONLY <1>0, <1>1, <1>4, <2>4, <2>5, <2>8, q \in a + 1..m
  <2>10. Fits(m, r)
    BY <2>3, <2>9 DEF Fits
  <2>11. w = Moved(a, r)
    BY <1>2, <1>3, <2>e, <2>10, WindowLook DEF r
  <2>12. at_dot(t, i)
    BY <1>7, <2>9, WindowDot
  <2>13. z = close_dotted(t, w)
    BY <1>2, <1>7, <2>12, Zenon DEF read_item
  <2>14. z = IF w.ok THEN Closed(t, w, skip_atmosphere(t, w.p)) ELSE IF w = NoMore THEN Unfinished ELSE w
    BY <2>13, ClosedIs
  <2> HIDE DEF w, z
  <2>15. w.ok = TRUE /\ w.x = r.x /\ w.p = r.p - a
    BY <2>11, MovedIs
  <2>16. skip_atmosphere(t, r.p - a) = end - a
    BY <2>5, <2>9, WindowSkip
  <2>17. z = Closed(t, w, end - a)
    BY <2>14, <2>15, <2>16
  <2>18. t[end - a] = s[end] /\ ~Past(t, end - a)
    BY <2>9, WindowChar
  <2>19. z = Read(w.x, (end - a) + 1)
    BY <2>7, <2>17, <2>18 DEF Closed
  <2>20. (end - a) + 1 = (end + 1) - a
    BY ONLY <1>0, <2>5
  <2>21. z = Moved(a, y)
    BY <2>8, <2>15, <2>19, <2>20 DEF Moved
  <2> QED
    BY <2>21 DEF y, z
<1>8. CASE s[q] # ")" /\ ~(f # "vector" /\ at_dot(s, q))
  <2> DEFINE x == read_expr(s, q, R)
             u == read_expr(t, i, P)
             g == IF f = "list" THEN "rest" ELSE f
  <2>1. y = Item(x, R, f)
    BY <1>2, <1>8, Zenon DEF read_item
  <2>2. Outcome(s, q, "expr", x)
    BY <1>2, ReaderIs, ExprStep DEF Later, Alike
  <2> HIDE DEF x, y
  <2>3. y = IF x.ok THEN Consed(x.x, R[x.p][g]) ELSE x
    BY <2>1, ItemIs
  <2>g. g \in Reads /\ g # "all"
    BY DEF Reads
  <2>4. x.ok
    BY <1>4, <2>3
  <2> DEFINE r == R[x.p][g]
             w == P[x.p - a][g]
  <2>5. x.p \in Places(s) /\ x.p > q /\ x.p \in Nat
    BY <1>2, <2>2, <2>4, ReadPlace
  <2>6. y = IF r.ok THEN Read(Pair(x.x, r.x), r.p) ELSE r
    BY <2>3, <2>4, ConsedIs
  <2> HIDE DEF g
  <2>7. r.ok /\ y.p = r.p /\ y.x = Pair(x.x, r.x)
    <3> HIDE DEF r
    <3> QED
      BY <1>4, <2>6 DEF Read
  <2>8. Fits(m, r)
    BY <1>4, <2>7 DEF Fits
  <2>9. w = Moved(a, r) /\ x.p \in a + 1..m
    BY <2>5, <2>8, <2>g, WindowLook
  <2>10. Fits(m, x)
    <3>1. x.p <= m + 1
      BY ONLY <1>0, <2>9
    <3> QED
      BY <2>4, <3>1 DEF Fits
  <2>11. u = Moved(a, x)
    BY <2>10, WindowExpr DEF x
  <2>12. ~(f # "vector" /\ at_dot(t, i))
    <3>1. q + 1 <= m
      BY ONLY <1>0, <1>1, <2>5, <2>9
    <3> QED
      BY <1>8, <3>1, WindowDot
  <2>13. z = Item(u, P, f)
    BY <1>2, <1>8, <2>12, Zenon DEF read_item
  <2> HIDE DEF u, z, r
  <2>14. z = IF u.ok THEN Consed(u.x, P[u.p][g]) ELSE u
    BY <2>13, ItemIs DEF g
  <2>15. u.ok = TRUE /\ u.x = x.x /\ u.p = x.p - a
    BY <2>11, MovedIs
  <2>16. z = Consed(x.x, w)
    BY <2>14, <2>15
  <2> HIDE DEF w
  <2>17. z = IF w.ok THEN Read(Pair(x.x, w.x), w.p) ELSE w
    BY <2>16, ConsedIs
  <2>18. w.ok = TRUE /\ w.x = r.x /\ w.p = r.p - a
    BY <2>9, MovedIs
  <2>19. z = Moved(a, y)
    BY <2>7, <2>17, <2>18 DEF Moved
  <2> QED
    BY <2>19 DEF y, z
<1> QED
  BY <1>5, <1>6, <1>7, <1>8

LEMMA WindowString ==
    ASSUME NEW s \in Writing, NoEscape(s), NEW t, NEW a, NEW m, Window(s, t, a, m), NEW q \in a + 1..m,
           WindowLater(s, t, a, m, q), Fits(m, read_string(s, q, Reader(s)))
    PROVE  read_string(t, q - a, Reader(t)) = Moved(a, read_string(s, q, Reader(s)))
<1> DEFINE R == Reader(s)
           P == Reader(t)
           y == read_string(s, q, R)
           z == read_string(t, q - a, P)
           i == q - a
<1>0. a \in Nat /\ m \in Nat /\ t \in Writing
  BY DEF Window
<1>1. q \in a + 1..m + 1 /\ q # m + 1 /\ q \in Int
  BY ONLY <1>0, q \in a + 1..m
<1>2. /\ q \in Places(s) /\ i \in Places(t) /\ ~Past(s, q) /\ ~Past(t, i) /\ t[i] = s[q]
      /\ q + 1 \in a + 1..m + 1 /\ i + 1 = (q + 1) - a
  BY <1>1, WindowPlace
<1>3. q + 1 \in Places(s) /\ q + 1 > q /\ s[q] # "\\"
  <2>1. q + 1 \in Places(s) /\ q + 1 > q
    BY <1>2, NextPlace
  <2>2. q \in 1..Len(s)
    BY <1>2, PlaceIs
  <2> QED
    BY <2>1, <2>2, Zenon DEF NoEscape
<1>4. y.ok /\ y.p <= m + 1
  BY DEF Fits
<1>5. CASE s[q] = "\""
  <2>1. y = Read(Str(<<>>), q + 1) /\ z = Read(Str(<<>>), i + 1)
    BY <1>2, <1>5, Zenon DEF read_string
  <2>2. y.x = Str(<<>>) /\ y.p = q + 1
    BY <2>1 DEF Read
  <2> QED
    BY <1>2, <2>1, <2>2 DEF Moved
<1>6. CASE s[q] # "\""
  <2> DEFINE r == R[q + 1]["string"]
             w == P[i + 1]["string"]
  <2>1. y = WithChar(s[q], r) /\ z = WithChar(s[q], w)
    BY <1>2, <1>3, <1>6, Zenon DEF read_string
  <2> HIDE DEF y, z
  <2>2. /\ y = IF r.ok THEN Read(Str(<<s[q]>> \o r.x[2]), r.p) ELSE r
        /\ z = IF w.ok THEN Read(Str(<<s[q]>> \o w.x[2]), w.p) ELSE w
    BY <2>1, WithCharIs
  <2> DEFINE v == Str(<<s[q]>> \o r.x[2])
  <2>3. r.ok /\ y.p = r.p /\ y.x = v
    <3> HIDE DEF r, v
    <3>1. y = IF r.ok THEN Read(v, r.p) ELSE r
      BY <2>2 DEF v
    <3> QED
      BY <1>4, <3>1 DEF Read
  <2>4. Fits(m, r)
    BY <1>4, <2>3 DEF Fits
  <2>s. "string" \in Reads /\ "string" # "all"
    BY DEF Reads
  <2>5. P[(q + 1) - a]["string"] = Moved(a, r)
    BY <1>3, <2>4, <2>s, WindowLook
  <2>6. w = Moved(a, r)
    BY <1>2, <2>5
  <2> HIDE DEF w, r
  <2>7. w.ok = TRUE /\ w.x = r.x /\ w.p = r.p - a
    BY <2>6, MovedIs
  <2>8. z = Read(v, w.p)
    BY <2>2, <2>7
  <2> HIDE DEF v
  <2>9. z = Moved(a, y)
    BY <2>3, <2>7, <2>8 DEF Moved
  <2> QED
    BY <2>9 DEF y, z
<1> QED
  BY <1>5, <1>6

LEMMA WindowReading ==
    ASSUME NEW s \in Writing, NoEscape(s), NEW t, NEW a, NEW m, Window(s, t, a, m), NEW p \in a + 1..m + 1,
           WindowLater(s, t, a, m, p)
    PROVE  WindowAt(s, t, a, m, p)
<1> SUFFICES ASSUME NEW f \in Reads \ {"all"}, Fits(m, Reader(s)[p][f])
             PROVE  Reader(t)[p - a][f] = Moved(a, Reader(s)[p][f])
  BY DEF WindowAt
<1> DEFINE R == Reader(s)
           P == Reader(t)
           q == skip_atmosphere(s, p)
<1>0. a \in Nat /\ m \in Nat /\ t \in Writing
  BY DEF Window
<1>1. p \in Places(s) /\ p - a \in Places(t) /\ p \in Nat
  BY WindowPlace
<1>2. R[p][f] = Reading(s, p, R, f) /\ P[p - a][f] = Reading(t, p - a, P, f) /\ Outcome(s, p, f, R[p][f])
  BY <1>0, <1>1, ReaderIs
<1>3. R[p][f].ok /\ R[p][f].p <= m + 1
  BY DEF Fits
<1>4. R[p][f].p > p /\ R[p][f].p \in Nat
  BY <1>1, <1>2, <1>3, ReadPlace
<1>5. p \in a + 1..m
  BY ONLY <1>0, <1>1, <1>3, <1>4, p \in a + 1..m + 1
<1>6. CASE f = "string"
  <2>1. R[p][f] = read_string(s, p, R) /\ P[p - a][f] = read_string(t, p - a, P)
    BY <1>2, <1>6, Zenon DEF Reading
  <2>2. Fits(m, read_string(s, p, R))
    BY <2>1
  <2>3. read_string(t, p - a, P) = Moved(a, read_string(s, p, R))
    BY <1>5, <2>2, WindowString
  <2> QED
    BY <2>1, <2>3
<1>7. CASE f # "string"
  <2>1. SkipTo(s, p, q) /\ q \in Nat /\ p <= q
    BY <1>1, SkipIs DEF SkipTo
  <2>2. q \in Places(s) /\ Begins(s, q)
    BY <1>1, <2>1, SkipAt DEF Begins
  <2>3. WindowLater(s, t, a, m, q)
    <3>a. \A r \in a + 1..m + 1 : r \in Int
      OBVIOUS
    <3>1. \A r \in a + 1..m + 1 : r > q => r > p
      BY ONLY <1>1, <2>1, <3>a
    <3> QED
      BY <3>1, Zenon DEF WindowLater
  <2>4. Later(s, q, R) /\ Alike(s, q, R, R)
    BY ReaderIs DEF Later, Alike
  <2>5. CASE f = "expr"
    <3>1. R[p][f] = read_expr(s, q, R) /\ P[p - a][f] = read_expr(t, skip_atmosphere(t, p - a), P)
      BY <1>2, <2>5, Zenon DEF Reading
    <3>2. Outcome(s, q, "expr", read_expr(s, q, R))
      BY <2>2, <2>4, ExprStep
    <3>3. R[p][f].p > q
      BY <1>3, <2>2, <3>1, <3>2, ReadPlace
    <3>4. q \in a + 1..m /\ q <= m
      BY ONLY <1>0, <1>3, <1>4, <1>5, <2>1, <3>3
    <3>5. skip_atmosphere(t, p - a) = q - a
      BY <2>1, <3>4, WindowSkip
    <3>6. read_expr(t, q - a, P) = Moved(a, read_expr(s, q, R))
      BY <2>2, <2>3, <3>1, <3>4, WindowExpr
    <3> QED
      BY <3>1, <3>5, <3>6
  <2>6. CASE f \in {"list", "rest", "vector"}
    <3>1. R[p][f] = read_item(s, q, R, f) /\ P[p - a][f] = read_item(t, skip_atmosphere(t, p - a), P, f)
      BY <1>2, <2>6, Zenon DEF Reading
    <3>2. Outcome(s, q, f, read_item(s, q, R, f))
      BY <2>2, <2>4, <2>6, ItemStep
    <3>3. R[p][f].p > q
      BY <1>3, <2>2, <2>6, <3>1, <3>2, ReadPlace
    <3>4. q \in a + 1..m /\ q <= m
      BY ONLY <1>0, <1>3, <1>4, <1>5, <2>1, <3>3
    <3>5. skip_atmosphere(t, p - a) = q - a
      BY <2>1, <3>4, WindowSkip
    <3>6. read_item(t, q - a, P, f) = Moved(a, read_item(s, q, R, f))
      BY <2>2, <2>3, <2>6, <3>1, <3>4, WindowItem
    <3> QED
      BY <3>1, <3>5, <3>6
  <2> QED
    BY <1>7, <2>5, <2>6 DEF Reads
<1> QED
  BY <1>6, <1>7

LEMMA WindowAll ==
    ASSUME NEW s \in Writing, NoEscape(s), NEW t, NEW a, NEW m, Window(s, t, a, m)
    PROVE  \A p \in a + 1..m + 1 : WindowAt(s, t, a, m, p)
<1> DEFINE N == m + 1
           T == {n \in Nat : \E p \in a + 1..m + 1 : N - p = n /\ ~WindowAt(s, t, a, m, p)}
<1>0. a \in Nat /\ m \in Nat
  BY DEF Window
<1>p. N \in Nat /\ \A p \in a + 1..m + 1 : p \in Nat /\ p <= N
  BY ONLY <1>0
<1> HIDE DEF N
<1>5. T = {}
  <2> SUFFICES ASSUME T # {} PROVE FALSE
    OBVIOUS
  <2>1. PICK n \in T : \A k \in T : n <= k
    BY LeastNumber
  <2>2. PICK p \in a + 1..m + 1 : N - p = n /\ ~WindowAt(s, t, a, m, p)
    OBVIOUS
  <2>3. ASSUME NEW q \in a + 1..m + 1, q > p PROVE WindowAt(s, t, a, m, q)
    <3>0. q \in Nat /\ q <= N /\ p \in Nat /\ p <= N
      BY <1>p
    <3>1. N - q \in Nat /\ ~(n <= N - q)
      BY ONLY <3>0, <1>p, <2>2, <2>3
    <3> QED
      BY <2>1, <3>1
  <2>4. WindowLater(s, t, a, m, p)
    BY <2>3, Zenon DEF WindowLater
  <2> QED
    BY <2>2, <2>4, WindowReading
<1>6. ASSUME NEW p \in a + 1..m + 1 PROVE WindowAt(s, t, a, m, p)
  <2>1. p \in Nat /\ p <= N
    BY <1>p
  <2>2. N - p \in Nat
    BY ONLY <1>p, <2>1
  <2>3. N - p \notin T
    BY ONLY <1>5
  <2> QED
    BY <2>2, <2>3
<1> QED
  BY <1>6

-----------------------------------------------------------------------------
(* read takes one datum from the port.                                     *)

\* The scan knows the situation k, and has not stopped before.
Tracks(s, k) ==
    LET a == Scan(s)[k] IN
    /\ a.depth = Depth(s, k) /\ (a.string <=> InString(s, k)) /\ (a.comment <=> Commented(s, k))
    /\ ~(InString(s, k) /\ Commented(s, k))
    /\ a.taken = k

\* One character further.
LEMMA ScanStep ==
    ASSUME NEW s \in Writing, NoEscape(s), NEW k \in 1..Len(s), Tracks(s, k - 1), ~Complete(Scan(s)[k - 1])
    PROVE  /\ Tracks(s, k)
           /\ Scan(s)[k - 1].seen => Scan(s)[k].seen
           /\ s[k] = "(" /\ Plain(s, k - 1) => Scan(s)[k].seen
           /\ s[k] = "\"" /\ InString(s, k - 1) => Scan(s)[k].seen
           /\ s[k] \in Spaces \/ Commented(s, k) => (Scan(s)[k].seen => Scan(s)[k - 1].seen)
<1> DEFINE c == s[k]
           a == Scan(s)[k - 1]
           b == Scan(s)[k]
           w == Walk(s)[k - 1]
           u == Walk(s)[k]
           z == scan(s, k, a)
<1>1. b = Scanned(s, k, a) /\ a \in ScanStates
  BY ScanIs, Zenon
<1>2. u = Turn(c, w) /\ w \in Situations
  BY WalkIs, Zenon
<1>3. QuoteAt(s, k) <=> c = "\""
  BY QuoteIs
<1>4. /\ Depth(s, k) = u.depth /\ InString(s, k) = u.string /\ Commented(s, k) = u.comment
      /\ Depth(s, k - 1) = w.depth /\ InString(s, k - 1) = w.string /\ Commented(s, k - 1) = w.comment
  BY DEF Depth, InString, Commented
<1>5. /\ a.depth = w.depth /\ (a.string <=> w.string) /\ (a.comment <=> w.comment)
      /\ ~(w.string /\ w.comment)
  BY <1>4 DEF Tracks
<1>6. b = [z EXCEPT !.taken = k]
  BY <1>1 DEF Scanned
<1>7. z = IF c # "\n" /\ (a.comment \/ (c = ";" /\ ~a.string)) THEN [a EXCEPT !.comment = TRUE]
          ELSE IF (QuoteAt(s, k) /\ ~a.string) \/ (a.string /\ ~QuoteAt(s, k))
          THEN [a EXCEPT !.comment = FALSE, !.string = TRUE]
          ELSE Outside(c, a)
  BY DEF scan
<1>8. Turned(c, w, u)
  BY <1>2, TurnIs, Zenon
<1>9. DepthAfter(c, a.depth) = DepthAfter(c, w.depth) /\ (c \notin {"(", ")"} => DepthAfter(c, a.depth) = a.depth)
  BY <1>5 DEF DepthAfter
<1> DEFINE o == Outside(c, a)
<1>10. o \in ScanStates /\ o.depth = DepthAfter(c, a.depth) /\ ~o.comment /\ ~o.string
       /\ (o.seen <=> a.seen \/ (c # ")" /\ c \notin Spaces))
  <2>1. DepthAfter(c, a.depth) \in Int
    BY <1>1 DEF ScanStates, DepthAfter
  <2> HIDE DEF c, a
  <2> QED
    BY <1>1, <2>1 DEF Outside, ScanStates
<1> HIDE DEF c, a, b, w, u, z, o
<1>11. w.string \in BOOLEAN /\ w.comment \in BOOLEAN /\ u \in Situations
  <2>1. u \in Situations
    BY <1>2, TurnIs, Zenon
  <2> QED
    BY <1>2, <2>1 DEF Situations
<1>12. CASE c # "\n" /\ (a.comment \/ (c = ";" /\ ~a.string))
  <2>1. z = [a EXCEPT !.comment = TRUE]
    BY <1>7, <1>12, Zenon
  <2>2. z.depth = a.depth /\ z.string = a.string /\ z.comment = TRUE /\ z.seen = a.seen /\ z \in ScanStates
    BY <1>1, <2>1 DEF ScanStates
  <2>3. b.depth = a.depth /\ b.string = a.string /\ b.comment = TRUE /\ b.seen = a.seen /\ b.taken = k
    BY <1>6, <2>2 DEF ScanStates
  <2>4. u.depth = w.depth /\ (u.string <=> w.string) /\ u.comment /\ ~w.string
    BY <1>5, <1>8, <1>11, <1>12, Zenon DEF Turned
  <2>5. Tracks(s, k)
    BY <1>4, <1>5, <2>3, <2>4, Zenon DEF Tracks, b
  <2>6. ~(c = "(" /\ Plain(s, k - 1)) /\ ~(c = "\"" /\ InString(s, k - 1))
    <3>1. "(" # ";"
      OBVIOUS
    <3> QED
      BY <1>4, <1>5, <1>12, <2>4, <3>1, Zenon DEF Plain
  <2> QED
    BY <2>3, <2>5, <2>6, Zenon DEF a, b, c
<1>13. CASE /\ ~(c # "\n" /\ (a.comment \/ (c = ";" /\ ~a.string)))
            /\ (c = "\"" /\ ~a.string) \/ (a.string /\ c # "\"")
  <2>1. z = [a EXCEPT !.comment = FALSE, !.string = TRUE]
    BY <1>3, <1>7, <1>13, Zenon
  <2>2. z.depth = a.depth /\ z.string = TRUE /\ z.comment = FALSE /\ z.seen = a.seen /\ z \in ScanStates
    BY <1>1, <2>1 DEF ScanStates
  <2>3. b.depth = a.depth /\ b.string = TRUE /\ b.comment = FALSE /\ b.seen = a.seen /\ b.taken = k
    BY <1>6, <2>2 DEF ScanStates
  <2>4. u.depth = w.depth /\ u.string /\ ~u.comment
    <3>1. "\"" # "\n"
      OBVIOUS
    <3> QED
      BY <1>5, <1>8, <1>11, <1>13, <3>1, Zenon DEF Turned
  <2>5. Tracks(s, k)
    BY <1>4, <1>5, <2>3, <2>4, Zenon DEF Tracks, b
  <2>6. ~(c = "(" /\ Plain(s, k - 1)) /\ ~(c = "\"" /\ InString(s, k - 1))
    <3>1. "(" # "\""
      OBVIOUS
    <3> QED
      BY <1>4, <1>5, <1>13, <3>1, Zenon DEF Plain
  <2> QED
    BY <2>3, <2>5, <2>6, Zenon DEF a, b, c
<1>14. CASE /\ ~(c # "\n" /\ (a.comment \/ (c = ";" /\ ~a.string)))
            /\ ~((c = "\"" /\ ~a.string) \/ (a.string /\ c # "\""))
  <2>1. z = o
    BY <1>3, <1>7, <1>14, Zenon DEF o
  <2>3. b.depth = o.depth /\ ~b.string /\ ~b.comment /\ b.seen = o.seen /\ b.taken = k
    BY <1>6, <1>10, <2>1 DEF ScanStates
  <2>4. u.depth = DepthAfter(c, w.depth) /\ ~u.string /\ ~u.comment
    <3>1. CASE c = "\n"
      <4>1. c \notin {"(", ")"} /\ c # "\""
        BY <3>1
      <4>2. ~w.string
        BY <1>5, <1>14, <4>1
      <4> QED
        BY <1>5, <1>8, <1>9, <3>1, <4>1, <4>2, Zenon DEF Turned
    <3>2. CASE c = "\""
      <4>1. c \notin {"(", ")"} /\ c # "\n"
        BY <3>2
      <4> QED
        BY <1>5, <1>8, <1>9, <1>11, <1>14, <3>2, <4>1, Zenon DEF Turned
    <3>3. CASE c # "\n" /\ c # "\""
      <4>1. ~w.comment /\ ~w.string /\ c # ";"
        BY <1>5, <1>14, <3>3, Zenon
      <4>2. c \notin {"\n", ";", "\""}
        BY <3>3, <4>1
      <4> QED
        BY <1>8, <4>1, <4>2, Zenon DEF Turned
    <3> QED
      BY <3>1, <3>2, <3>3
  <2>5. Tracks(s, k)
    BY <1>4, <1>5, <1>9, <1>10, <2>3, <2>4, Zenon DEF Tracks, b
  <2>6. c = "(" \/ c = "\"" => b.seen
    <3>1. c = "(" \/ c = "\"" => c # ")" /\ c \notin Spaces
      BY DEF Spaces
    <3> QED
      BY <1>10, <2>3, <3>1, Zenon
  <2>7. c \in Spaces \/ Commented(s, k) => (b.seen => a.seen)
    BY <1>4, <1>10, <2>3, <2>4, Zenon
  <2>8. a.seen => b.seen
    BY <1>10, <2>3, Zenon
  <2> QED
    BY <2>5, <2>6, <2>7, <2>8, Zenon DEF a, b, c
<1> QED
  BY <1>12, <1>13, <1>14

Opens(s, p) == CharAt(s, p) \in {"(", "\""}

\* A list or a string, as far as it goes: within brackets, or in the string.
LEMMA Within ==
    ASSUME NEW s \in Writing, NoEscape(s), NEW p, p = skip_atmosphere(s, 1), Opens(s, p),
           NEW x, x = Reader(s)[1]["expr"], x.ok
    PROVE  /\ p \in 1..Len(s) /\ SkipTo(s, 1, p) /\ CharAt(s, p) = s[p] /\ Plain(s, p - 1)
           /\ x.p \in Places(s) /\ x.p > p /\ x = Read(x.x, x.p)
           /\ Depth(s, x.p - 1) = 0 /\ Plain(s, x.p - 1)
           /\ \A j \in p..x.p - 2 : Depth(s, j) > 0 \/ InString(s, j)
           /\ s[p] = "\"" => InString(s, x.p - 2) /\ s[x.p - 1] = "\""
<1>1. 1 \in Places(s) /\ Len(s) \in Nat /\ 1 - 1 = 0
  <2>1. Len(s) \in Nat
    BY LengthIs
  <2> QED
    BY ONLY <2>1 DEF Places
<1>2. SkipTo(s, 1, p)
  BY <1>1, SkipIs
<1>3. p \in Places(s) /\ p \in Nat /\ p >= 1 /\ Begins(s, p)
  <2>1. p \in Places(s) /\ Begins(s, p)
    BY <1>1, <1>2, SkipAt DEF Begins
  <2> QED
    BY <2>1, PlaceIs
<1>4. p \in 1..Len(s) /\ CharAt(s, p) = s[p] /\ ~Past(s, p)
  <2>1. CharAt(s, p) # ""
    BY DEF Opens
  <2>2. p \in 1..Len(s) /\ CharAt(s, p) = s[p]
    BY <1>3, <2>1, CharIs
  <2> QED
    BY <1>3, <2>1, <2>2, Zenon DEF CharAt
<1>5. Depth(s, 0) = 0 /\ Plain(s, 0)
  BY AtFirst
<1>6. Plain(s, p - 1) /\ Depth(s, p - 1) = 0
  <2>1. p <= Len(s) /\ p - 1 \in 1 - 1..p - 1
    BY ONLY <1>1, <1>4
  <2>2. Plain(s, 1 - 1)
    BY <1>1, <1>5
  <2>3. Plain(s, p - 1) /\ Same(s, 1 - 1, p - 1)
    BY <1>1, <1>2, <2>1, <2>2, SkipWalk
  <2> QED
    BY <1>1, <1>5, <2>3 DEF Same
<1>7. x = read_expr(s, p, Reader(s))
  <2>1. "expr" \in Reads
    BY DEF Reads
  <2>2. x = Reading(s, 1, Reader(s), "expr")
    BY <1>1, <2>1, ReaderIs, Zenon
  <2> QED
    BY <2>2, Zenon DEF Reading
<1>8. WalkedLater(s, p)
  BY WalkAll, Zenon DEF WalkedLater
<1>9. Walked(s, p, "expr", x)
  BY <1>3, <1>4, <1>6, <1>7, <1>8, ExprWalk
<1>10. Outcome(s, p, "expr", x)
  <2>1. Later(s, p, Reader(s)) /\ Alike(s, p, Reader(s), Reader(s))
    BY ReaderIs DEF Later, Alike
  <2> QED
    BY <1>3, <1>7, <2>1, ExprStep
<1>11. x.p \in Places(s) /\ x.p \in Nat /\ x.p > p /\ x = Read(x.x, x.p)
  <2>1. "expr" # "all"
    OBVIOUS
  <2> QED
    BY <1>3, <1>10, <2>1, ReadPlace
<1>12. Depth(s, x.p - 1) = 0 /\ Plain(s, x.p - 1)
  <2>1. Loss("expr") = 0
    BY DEF Loss
  <2>2. Over(s, p, x.p, 0) /\ ~InString(s, x.p - 1) /\ ~Commented(s, x.p - 1)
    BY <1>9, <2>1, Zenon DEF Walked
  <2>3. Depth(s, x.p - 1) = 0 - 0
    BY <1>6, <2>2, Zenon DEF Over
  <2>4. Depth(s, x.p - 1) = 0
    BY ONLY <2>3
  <2> QED
    BY <2>2, <2>4, Zenon DEF Plain
<1>13. p + 1 \in Places(s) /\ p + 1 > p /\ p + 1 \in Nat /\ (p + 1) - 1 = p
  <2>1. p + 1 \in Places(s)
    BY <1>3, <1>4, NextPlace
  <2> QED
    BY ONLY <1>3, <2>1
<1>14. CASE s[p] = "("
  <2>1. x = Reader(s)[p + 1]["list"]
    BY <1>4, <1>7, <1>14, Zenon DEF read_expr
  <2>p. p <= p
    BY ONLY <1>3
  <2>2. \A j \in p..x.p - 2 : Depth(s, j) > Depth(s, p - 1)
    BY <1>3, <1>4, <1>6, <1>8, <1>14, <2>1, <2>p, BracketWalk
  <2>3. \A j \in p..x.p - 2 : Depth(s, j) > 0
    BY <1>6, <2>2
  <2>4. s[p] # "\""
    BY <1>14
  <2> QED
    BY <1>2, <1>4, <1>6, <1>11, <1>12, <2>3, <2>4
<1>15. CASE s[p] = "\""
  <2>1. x = Reader(s)[p + 1]["string"]
    <3>1. "\"" # "(" /\ "\"" # ")"
      OBVIOUS
    <3> QED
      BY <1>4, <1>7, <1>15, <3>1, Zenon DEF read_expr
  <2>2. InString(s, p) /\ ~Commented(s, p)
    BY <1>4, <1>6, <1>15, StepIs DEF Plain
  <2>3. Ready(s, p + 1, "string") /\ "string" \in Reads
    BY <1>13, <2>2, Zenon DEF Ready, Reads
  <2>4. Walked(s, p + 1, "string", x) /\ Outcome(s, p + 1, "string", x)
    BY <1>3, <1>8, <1>13, <2>1, <2>3, ReaderAt, Zenon
  <2>5. x.p > p + 1 /\ x.p <= Len(s) + 1
    <3>1. "string" # "all"
      OBVIOUS
    <3>2. x.p > p + 1
      BY <1>13, <2>4, <3>1, ReadPlace
    <3> QED
      BY <1>11, <3>2, PlaceIs
  <2>6. \A j \in (p + 1) - 1..x.p - 2 : InString(s, j)
    BY <2>4, Zenon DEF Walked
  <2>7. x.p - 2 \in (p + 1) - 1..x.p - 2 /\ x.p - 1 \in 1..Len(s) /\ (x.p - 1) - 1 = x.p - 2
    BY ONLY <1>1, <1>3, <1>11, <2>5
  <2>8. InString(s, x.p - 2)
    BY <2>6, <2>7
  <2>9. \A j \in p..x.p - 2 : InString(s, j)
    BY <1>13, <2>6
  <2>10. s[x.p - 1] = "\""
    <3> DEFINE k == x.p - 1
    <3>1. k \in 1..Len(s) /\ k - 1 = x.p - 2
      BY <2>7
    <3>2. InString(s, k - 1) /\ ~InString(s, k) /\ ~Commented(s, k)
      BY <1>12, <2>8, <3>1 DEF Plain
    <3> HIDE DEF k
    <3>3. ~Same(s, k - 1, k)
      BY <3>2, Zenon DEF Same
    <3>4. s[k] = "\n" => Same(s, k - 1, k)
      BY <3>1, StepIs, Zenon
    <3>5. s[k] # "\n" /\ Commented(s, k - 1) => Same(s, k - 1, k)
      BY <3>1, StepIs, Zenon
    <3>6. s[k] # "\"" /\ InString(s, k - 1) /\ ~Commented(s, k - 1) => Same(s, k - 1, k)
      BY <3>1, StepIs, Zenon
    <3>7. s[k] = "\""
      BY <3>2, <3>3, <3>4, <3>5, <3>6, Zenon
    <3> QED
      BY <3>7 DEF k
  <2> QED
    BY <1>2, <1>4, <1>6, <1>11, <1>12, <2>8, <2>9, <2>10
<1>16. s[p] = "(" \/ s[p] = "\""
  BY <1>4 DEF Opens
<1> QED
  BY <1>14, <1>15, <1>16

LEMMA ScanTakes ==
    ASSUME NEW s \in Writing, NoEscape(s), NEW p, p = skip_atmosphere(s, 1), Opens(s, p),
           NEW x, x = Reader(s)[1]["expr"], x.ok
    PROVE  LET st == Scan(s)[Len(s)] IN st.seen /\ st.taken = x.p - 1
<1> DEFINE m == x.p - 1
           n == Len(s)
           sc(k) == Scan(s)[k]
           Before(k) == /\ Tracks(s, k)
                        /\ k < p => ~sc(k).seen
                        /\ k >= p /\ s[p] = "(" => sc(k).seen
           T == {k \in 0..m : Before(k)}
           U == {k \in m..n : sc(k) = sc(m)}
<1>1. /\ p \in 1..n /\ SkipTo(s, 1, p) /\ Plain(s, p - 1)
      /\ x.p \in Places(s) /\ x.p > p
      /\ Depth(s, m) = 0 /\ Plain(s, m)
      /\ \A j \in p..x.p - 2 : Depth(s, j) > 0 \/ InString(s, j)
      /\ s[p] = "\"" => InString(s, x.p - 2) /\ s[m] = "\""
      /\ s[p] \in {"(", "\""}
  BY Within DEF Opens
<1>2. n \in Nat /\ p \in Nat /\ p >= 1 /\ p <= n /\ m \in Nat /\ m >= p /\ m <= n /\ x.p \in Nat /\ m - 1 = x.p - 2
  <2>1. n \in Nat /\ x.p \in Nat /\ x.p <= n + 1
    BY <1>1, PlaceIs
  <2>2. p \in 1..n /\ x.p > p
    BY <1>1
  <2> QED
    BY ONLY <2>1, <2>2
<1>3. /\ 1 \in Places(s) /\ 1 - 1 = 0 /\ Plain(s, 1 - 1) /\ \A j \in 0..p - 1 : j \in 1 - 1..p - 1
  <2>1. 1 \in Places(s) /\ 1 - 1 = 0 /\ \A j \in 0..p - 1 : j \in 1 - 1..p - 1
    BY ONLY <1>2 DEF Places, n
  <2>2. Plain(s, 0)
    BY AtFirst
  <2> QED
    BY <2>1, <2>2
<1>4. \A j \in 0..p - 1 : Commented(s, j) <=> InComment(s, 1, j)
  <2>1. \A j \in 1 - 1..p - 1 : Commented(s, j) <=> InComment(s, 1, j)
    BY <1>1, <1>3, SkipWalk
  <2> QED
    BY <1>3, <2>1, Zenon
<1>5. 0 \in T
  <2>1. sc(0) = Unseen
    BY ScanIs
  <2>2. Unseen.depth = 0 /\ ~Unseen.string /\ ~Unseen.comment /\ ~Unseen.seen /\ Unseen.taken = 0
    BY DEF Unseen
  <2>3. Depth(s, 0) = 0 /\ Plain(s, 0)
    BY AtFirst
  <2>4. Tracks(s, 0)
    BY <2>1, <2>2, <2>3, Zenon DEF Tracks, Plain
  <2>5. 0 \in 0..m /\ ~(0 >= p)
    BY ONLY <1>2
  <2>6. Before(0)
    BY <2>1, <2>2, <2>4, <2>5, Zenon
  <2> QED
    BY <2>5, <2>6
<1>6. ASSUME NEW i \in 0..m - 1, i \in T PROVE i + 1 \in T
  <2> DEFINE k == i + 1
  <2>1. /\ k \in 1..n /\ k - 1 = i /\ k \in 0..m /\ i \in 0..n /\ i \in Nat /\ k \in Nat
        /\ k < p => k \in 1..p - 1 /\ k \in 0..p - 1 /\ i < p
        /\ k >= p => k = p \/ i >= p
        /\ i < p \/ i \in p..x.p - 2
    BY ONLY <1>2, i \in 0..m - 1
  <2>2. Before(i)
    BY <1>6
  <2> HIDE DEF k
  <2>3. ~Complete(sc(i))
    <3>1. CASE i < p
      <4>1. ~sc(i).seen
        BY <2>2, <3>1, Zenon
      <4> QED
        BY <4>1, Zenon DEF Complete
    <3>2. CASE i \in p..x.p - 2
      <4>1. Depth(s, i) > 0 \/ InString(s, i)
        BY <1>1, <3>2
      <4>2. sc(i).depth = Depth(s, i) /\ (sc(i).string <=> InString(s, i))
        BY <2>2, Zenon DEF Tracks
      <4>3. ~(0 > 0)
        OBVIOUS
      <4> QED
        BY <4>1, <4>2, <4>3, Zenon DEF Complete
    <3> QED
      BY <2>1, <3>1, <3>2
  <2>4. /\ Tracks(s, k)
        /\ sc(i).seen => sc(k).seen
        /\ s[k] = "(" /\ Plain(s, i) => sc(k).seen
        /\ s[k] \in Spaces \/ Commented(s, k) => (sc(k).seen => sc(i).seen)
    <3>1. Tracks(s, k - 1) /\ ~Complete(Scan(s)[k - 1])
      BY <2>1, <2>2, <2>3, Zenon
    <3>2. /\ Tracks(s, k)
          /\ Scan(s)[k - 1].seen => Scan(s)[k].seen
          /\ s[k] = "(" /\ Plain(s, k - 1) => Scan(s)[k].seen
          /\ s[k] \in Spaces \/ Commented(s, k) => (Scan(s)[k].seen => Scan(s)[k - 1].seen)
      BY <2>1, <3>1, ScanStep, Zenon
    <3> QED
      BY <2>1, <3>2, Zenon
  <2>5. ASSUME k < p PROVE ~sc(k).seen
    <3>1. ~sc(i).seen
      BY <2>1, <2>2, <2>5, Zenon
    <3>2. s[k] \in Spaces \/ InComment(s, 1, k)
      BY <1>1, <2>1, <2>5 DEF SkipTo
    <3>3. s[k] \in Spaces \/ Commented(s, k)
      BY <1>4, <2>1, <2>5, <3>2, Zenon
    <3> QED
      BY <2>4, <3>1, <3>3, Zenon
  <2>6. ASSUME k >= p, s[p] = "(" PROVE sc(k).seen
    <3>1. CASE k = p
      <4>1. Plain(s, i)
        <5>1. p - 1 = i
          BY ONLY <2>1, <3>1
        <5> QED
          BY <1>1, <5>1
      <4> QED
        BY <2>4, <2>6, <3>1, <4>1, Zenon
    <3>2. CASE i >= p
      <4>1. sc(i).seen
        BY <2>2, <2>6, <3>2, Zenon
      <4> QED
        BY <2>4, <4>1, Zenon
    <3> QED
      BY <2>1, <2>6, <3>1, <3>2
  <2>7. Before(k)
    BY <2>4, <2>5, <2>6, Zenon
  <2> QED
    BY <2>1, <2>7 DEF k
<1>7. \A k \in 0..m : k \in T
  <2>1. 0 \in Nat
    OBVIOUS
  <2> HIDE DEF T, m
  <2> QED
    BY <1>2, <1>5, <1>6, <2>1, Upwards
<1>8. Before(m)
  <2>1. m \in 0..m
    BY ONLY <1>2
  <2> QED
    BY <1>7, <2>1
<1>9. sc(m).seen
  <2>1. CASE s[p] = "("
    BY <1>2, <1>8, <2>1, Zenon
  <2>2. CASE s[p] = "\""
    <3>1. m # p
      <4> SUFFICES ASSUME m = p PROVE FALSE
        OBVIOUS
      <4>1. x.p - 2 = p - 1
        BY ONLY <1>2, m = p
      <4> QED
        BY <1>1, <2>2, <4>1, Zenon DEF Plain
    <3>2. m \in 1..n /\ m - 1 \in 0..m /\ m - 1 \in p..x.p - 2
      BY ONLY <1>2, <3>1
    <3>3. Before(m - 1) /\ InString(s, m - 1)
      BY <1>1, <1>2, <1>7, <2>2, <3>2
    <3>4. ~Complete(sc(m - 1))
      <4>1. sc(m - 1).string <=> InString(s, m - 1)
        BY <3>3, Zenon DEF Tracks
      <4> QED
        BY <3>3, <4>1, Zenon DEF Complete
    <3>5. s[m] = "\""
      BY <1>1, <2>2
    <3> HIDE DEF m
    <3>6. Tracks(s, m - 1)
      BY <3>3, Zenon
    <3> QED
      BY <3>2, <3>3, <3>4, <3>5, <3>6, ScanStep, Zenon
  <2> QED
    BY <1>1, <2>1, <2>2
<1>10. Complete(sc(m)) /\ sc(m).taken = m
  <2>1. Tracks(s, m)
    BY <1>8, Zenon
  <2> QED
    BY <1>1, <1>9, <2>1, Zenon DEF Complete, Plain, Tracks
<1>11. \A k \in m..n : k \in U
  <2>1. m \in U
    <3>1. m \in m..n
      BY ONLY <1>2
    <3> QED
      BY <3>1
  <2>2. ASSUME NEW i \in m..n - 1, i \in U PROVE i + 1 \in U
    <3> DEFINE k == i + 1
    <3>1. k \in 1..n /\ k - 1 = i /\ k \in m..n
      BY ONLY <1>2, i \in m..n - 1
    <3> HIDE DEF k
    <3>2. sc(k) = Scanned(s, k, sc(k - 1)) /\ sc(k - 1) = sc(m)
      <4>1. sc(k) = Scanned(s, k, sc(k - 1))
        BY <3>1, ScanIs
      <4> QED
        BY <2>2, <3>1, <4>1
    <3>3. sc(k) = sc(m)
      BY <1>10, <3>2 DEF Scanned
    <3> QED
      BY <3>1, <3>3 DEF k
  <2> HIDE DEF U, m, n
  <2> QED
    BY <1>2, <2>1, <2>2, Upwards
<1>12. sc(n) = sc(m)
  <2>1. n \in m..n
    BY ONLY <1>2
  <2> QED
    BY <1>11, <2>1
<1> QED
  BY <1>9, <1>10, <1>12

LEMMA OneDatum ==
    ASSUME NEW s \in Writing, NoEscape(s), NEW p, p = skip_atmosphere(s, 1), Opens(s, p),
           NEW x, x = Reader(s)[1]["expr"], x.ok
    PROVE  read_one_from_port(s) = [taken |-> x.p - 1, datum |-> x]
<1> DEFINE m == x.p - 1
           t == SubSeq(s, 1, m)
<1>1. p \in 1..Len(s) /\ x.p \in Places(s) /\ x.p > p /\ x = Read(x.x, x.p)
  BY Within
<1>2. Len(s) \in Nat /\ x.p \in Nat /\ x.p <= Len(s) + 1
  BY <1>1, PlaceIs
<1>3. m \in Nat /\ m <= Len(s) /\ 0 <= m /\ 1 \in 0 + 1..m + 1 /\ x.p <= m + 1 /\ 1 - 0 = 1 /\ x.p - 0 = x.p /\ m >= 1
      /\ 0 \in Nat /\ m \in Int /\ 1 \in Nat \ {0} /\ 1 \in Places(s)
  BY ONLY <1>1, <1>2 DEF Places
<1> HIDE DEF m
<1>4. Window(s, t, 0, m)
  <2> DEFINE C == Chars \cup {"\n"}
  <2> HIDE DEF C
  <2>0. s \in Seq(C)
    BY DEF Writing, C
  <2>1. /\ t \in Seq(C) /\ Len(t) = (IF 1 <= m THEN m - 1 + 1 ELSE 0)
        /\ \A i \in 1..m - 1 + 1 : t[i] = s[1 + i - 1]
    BY <1>3, <2>0, Piece
  <2> HIDE DEF t
  <2>2. Len(t) = m - 0
    BY ONLY <1>3, <2>1
  <2>3. ASSUME NEW i \in 1..m - 0 PROVE t[i] = s[0 + i]
    <3>1. i \in 1..m - 1 + 1 /\ 1 + i - 1 = 0 + i
      BY ONLY <1>3, i \in 1..m - 0
    <3> QED
      BY <2>1, <3>1
  <2> QED
    BY <1>3, <2>1, <2>2, <2>3 DEF Window, Writing, C
<1> HIDE DEF t
<1>5. Reader(t)[1]["expr"] = x
  <2>1. WindowAt(s, t, 0, m, 1)
    BY <1>3, <1>4, WindowAll
  <2>2. "expr" \in Reads \ {"all"}
    BY DEF Reads
  <2>3. Fits(m, x)
    BY <1>3 DEF Fits
  <2>4. Reader(t)[1 - 0]["expr"] = Moved(0, x)
    BY <2>1, <2>2, <2>3, Zenon DEF WindowAt
  <2> QED
    BY <1>1, <1>3, <2>4 DEF Moved
<1> DEFINE st == Scan(s)[Len(s)]
<1>6. st.seen /\ st.taken = m
  BY ScanTakes DEF m
<1>7. read_one_from_port(s) =
                [taken |-> st.taken,
                 datum |-> IF st.seen THEN Reader(SubSeq(s, 1, st.taken))[1]["expr"] ELSE NoMore]
  BY PortReadIs
<1> HIDE DEF st
<1> QED
  BY <1>5, <1>6, <1>7 DEF m, t

\* read takes one list or string from the port, what the reader makes of it,
\* and not a character more (read_one_from_port at scheme14.cpp:4028 against
\* read_expr at :1106).
THEOREM TakesOneDatum == PromptSpec => []ReadTakesOneDatum
<1>1. PromptInv => ReadTakesOneDatum
  <2> SUFFICES ASSUME PromptInv, HasNo("\\"), CharAt(Coming, skip_atmosphere(Coming, 1)) \in {"(", "\""},
                      Reader(Coming)[1]["expr"].ok
               PROVE  read_one_from_port(Coming) = [taken |-> Reader(Coming)[1]["expr"].p - 1,
                                                    datum |-> Reader(Coming)[1]["expr"]]
    BY DEF ReadTakesOneDatum
  <2> DEFINE s == Coming
  <2> HIDE DEF s
  <2>1. s \in Writing /\ NoEscape(s)
    BY ComingIs, LettersAre DEF PromptInv, s
  <2>2. Opens(s, skip_atmosphere(s, 1)) /\ Reader(s)[1]["expr"].ok
    BY DEF Opens, s
  <2>3. read_one_from_port(s) = [taken |-> Reader(s)[1]["expr"].p - 1, datum |-> Reader(s)[1]["expr"]]
    BY <2>1, <2>2, OneDatum
  <2> QED
    BY <2>3 DEF s
<1> QED
  BY <1>1, AlwaysPrompt, PTL

-----------------------------------------------------------------------------
(* A text line by line.                                                    *)

LEMMA Downwards ==
    ASSUME NEW a \in Nat, NEW n \in Nat, NEW T,
           \A p \in a..n : (\A q \in a..n : q > p => q \in T) => p \in T
    PROVE  \A p \in a..n : p \in T
<1> DEFINE U == {k \in Nat : k <= n /\ n - k >= a /\ n - k \notin T}
<1>1. U = {}
  <2> SUFFICES ASSUME U # {} PROVE FALSE
    OBVIOUS
  <2>1. PICK k \in U : \A j \in U : k <= j
    BY LeastNumber
  <2>2. n - k \in a..n /\ n - k \notin T /\ k \in Nat
    BY <2>1
  <2>3. ASSUME NEW q \in a..n, q > n - k PROVE q \in T
    <3>1. n - q \in Nat /\ n - q <= n /\ n - (n - q) = q /\ q >= a /\ ~(k <= n - q)
      BY <2>2, <2>3
    <3>2. n - q \notin U
      BY <2>1, <3>1
    <3> QED
      BY <3>1, <3>2
  <2> QED
    BY <2>2, <2>3
<1>2. ASSUME NEW p \in a..n, p \notin T PROVE FALSE
  <2> DEFINE k == n - p
  <2>1. k \in Nat /\ k <= n /\ n - k = p /\ p >= a
    BY ONLY a \in Nat, n \in Nat, p \in a..n
  <2> HIDE DEF k
  <2>2. n - k >= a /\ n - k \notin T
    BY <1>2, <2>1
  <2> QED
    BY <1>1, <2>1, <2>2
<1> QED
  BY <1>2

IsSeq(z) == \E S : z \in Seq(S)

LEMMA SeqsAre ==
    /\ IsSeq(<<>>)
    /\ \A x : IsSeq(<<x>>)
    /\ \A u, v : IsSeq(u) /\ IsSeq(v) => IsSeq(u \o v)
    /\ \A u, v, w : IsSeq(u) /\ IsSeq(v) /\ IsSeq(w) => (u \o v) \o w = u \o (v \o w)
    /\ \A u : IsSeq(u) => u \o <<>> = u /\ <<>> \o u = u
<1>1. IsSeq(<<>>)
  <2>1. <<>> \in Seq({})
    OBVIOUS
  <2> QED
    BY <2>1 DEF IsSeq
<1>2. ASSUME NEW x PROVE IsSeq(<<x>>)
  <2>1. <<x>> \in Seq({x})
    OBVIOUS
  <2> QED
    BY <2>1 DEF IsSeq
<1>3. ASSUME NEW u, NEW v, IsSeq(u), IsSeq(v) PROVE IsSeq(u \o v)
  <2>1. PICK A : u \in Seq(A)
    BY <1>3 DEF IsSeq
  <2>2. PICK B : v \in Seq(B)
    BY <1>3 DEF IsSeq
  <2>3. u \in Seq(A \cup B) /\ v \in Seq(A \cup B)
    BY <2>1, <2>2, A \subseteq A \cup B, B \subseteq A \cup B
  <2>4. u \o v \in Seq(A \cup B)
    BY <2>3, ConcatProperties
  <2> QED
    BY <2>4 DEF IsSeq
<1>4. ASSUME NEW u, NEW v, NEW w, IsSeq(u), IsSeq(v), IsSeq(w) PROVE (u \o v) \o w = u \o (v \o w)
  <2>1. PICK A : u \in Seq(A)
    BY <1>4 DEF IsSeq
  <2>2. PICK B : v \in Seq(B)
    BY <1>4 DEF IsSeq
  <2>3. PICK C : w \in Seq(C)
    BY <1>4 DEF IsSeq
  <2> DEFINE S == A \cup B \cup C
  <2>4. A \subseteq S /\ B \subseteq S /\ C \subseteq S
    OBVIOUS
  <2> HIDE DEF S
  <2>5. u \in Seq(S) /\ v \in Seq(S) /\ w \in Seq(S)
    BY <2>1, <2>2, <2>3, <2>4
  <2> QED
    BY <2>5, ConcatAssociative
<1>5. ASSUME NEW u, IsSeq(u) PROVE u \o <<>> = u /\ <<>> \o u = u
  <2>1. PICK A : u \in Seq(A)
    BY <1>5 DEF IsSeq
  <2> QED
    BY <2>1, ConcatEmptySeq
<1> QED
  BY <1>1, <1>2, <1>3, <1>4, <1>5

\* The forms from p on: the first one, and those behind it.
LEMMA FormsAt ==
    ASSUME NEW s \in Writing, NEW p \in Places(s)
    PROVE  LET x == Reader(s)[p]["expr"]
               y == Reader(s)[p]["all"]
               r == Reader(s)[x.p]["all"]
           IN  /\ x = read_expr(s, skip_atmosphere(s, p), Reader(s))
               /\ x.ok => x.p \in Places(s) /\ x.p > p
               /\ y.ok => \/ x = NoMore /\ y.x = <<>>
                          \/ x.ok /\ r.ok /\ y.x = <<x.x>> \o r.x
               /\ x = NoMore => y.ok /\ y.x = <<>>
               /\ x.ok /\ r.ok => y.ok /\ y.x = <<x.x>> \o r.x
<1> DEFINE R == Reader(s)
           q == skip_atmosphere(s, p)
           x == R[p]["expr"]
           y == R[p]["all"]
           r == R[x.p]["all"]
<1>1. "expr" \in Reads /\ "all" \in Reads /\ "expr" # "all"
  BY DEF Reads
<1>2. x = Reading(s, p, R, "expr") /\ y = Reading(s, p, R, "all") /\ Outcome(s, p, "expr", x)
  BY <1>1, ReaderIs, Zenon
<1>3. x = read_expr(s, q, R) /\ y = read_forms(s, q, R)
  BY <1>2, Zenon DEF Reading
<1>4. y = IF x.ok THEN WithForm(x.x, r) ELSE IF x = NoMore THEN Read(<<>>, q) ELSE x
  BY <1>3, FormsIs, Zenon
<1>5. WithForm(x.x, r) = IF r.ok THEN Read(<<x.x>> \o r.x, r.p) ELSE r
  BY WithFormIs
<1>6. x.ok => x.p \in Places(s) /\ x.p > p
  BY <1>1, <1>2, ReadPlace
<1> HIDE DEF x, y, r, R, q
<1>7. \A v, z : Read(v, z).ok = TRUE /\ Read(v, z).x = v
  BY DEF Read
<1>8. NoMore.ok = FALSE
  BY DEF NoMore, Refuse
<1>9. ASSUME x.ok, r.ok PROVE y.ok /\ y.x = <<x.x>> \o r.x
  <2>1. y = Read(<<x.x>> \o r.x, r.p)
    BY <1>4, <1>5, <1>9
  <2> QED
    BY <1>7, <2>1
<1>10. ASSUME x = NoMore PROVE y.ok /\ y.x = <<>>
  <2>1. y = Read(<<>>, q)
    BY <1>4, <1>8, <1>10
  <2> QED
    BY <1>7, <2>1
<1>11. ASSUME x.ok, ~r.ok PROVE ~y.ok
  BY <1>4, <1>5, <1>11
<1>12. ASSUME ~x.ok, x # NoMore PROVE ~y.ok
  BY <1>4, <1>12
<1>13. y.ok => (x = NoMore /\ y.x = <<>>) \/ (x.ok /\ r.ok /\ y.x = <<x.x>> \o r.x)
  BY <1>9, <1>10, <1>11, <1>12
<1> QED
  BY <1>3, <1>6, <1>9, <1>10, <1>13 DEF x, y, r, R, q

LEMMA AllSeqs ==
    ASSUME NEW s \in Writing, NEW p \in Places(s), Reader(s)[p]["all"].ok
    PROVE  IsSeq(Reader(s)[p]["all"].x)
<1> DEFINE T == {q \in Places(s) : Reader(s)[q]["all"].ok => IsSeq(Reader(s)[q]["all"].x)}
           n == Len(s) + 1
<1>1. 1 \in Nat /\ n \in Nat /\ Places(s) = 1..n
  <2>1. Len(s) \in Nat
    BY LengthIs
  <2> QED
    BY <2>1 DEF Places
<1>2. ASSUME NEW i \in 1..n, \A q \in 1..n : q > i => q \in T PROVE i \in T
  <2> DEFINE x == Reader(s)[i]["expr"]
             y == Reader(s)[i]["all"]
             r == Reader(s)[x.p]["all"]
  <2>1. i \in Places(s)
    BY <1>1
  <2>2. /\ x.ok => x.p \in Places(s) /\ x.p > i
        /\ y.ok => \/ x = NoMore /\ y.x = <<>>
                   \/ x.ok /\ r.ok /\ y.x = <<x.x>> \o r.x
    BY <2>1, FormsAt
  <2>3. x.ok => x.p \in T
    BY <1>1, <1>2, <2>2
  <2>4. x.ok /\ r.ok => IsSeq(r.x)
    BY <2>3
  <2> HIDE DEF x, y, r
  <2>5. y.ok => IsSeq(y.x)
    <3> DEFINE v == <<x.x>>
    <3>1. IsSeq(v) /\ IsSeq(<<>>)
      BY SeqsAre
    <3>2. y.ok => (x = NoMore /\ y.x = <<>>) \/ (x.ok /\ r.ok /\ y.x = v \o r.x)
      BY <2>2
    <3> HIDE DEF v
    <3>3. x.ok /\ r.ok => IsSeq(v \o r.x)
      BY <2>4, <3>1, SeqsAre, Zenon
    <3> QED
      BY <3>1, <3>2, <3>3
  <2> QED
    BY <2>1, <2>5 DEF x, y
<1>3. \A i \in 1..n : i \in T
  <2> HIDE DEF T, n
  <2> QED
    BY <1>1, <1>2, Downwards
<1> QED
  BY <1>1, <1>3

\* The situations of a piece are those of the text.
LEMMA WindowWalk ==
    ASSUME NEW s \in Writing, NEW t, NEW a, NEW m, Window(s, t, a, m), Plain(s, a)
    PROVE  \A i \in 0..m - a : /\ Depth(t, i) = Depth(s, a + i) - Depth(s, a)
                               /\ InString(t, i) <=> InString(s, a + i)
                               /\ Commented(t, i) <=> Commented(s, a + i)
<1> DEFINE D == Depth(s, a)
           Here(i) == /\ Depth(t, i) = Depth(s, a + i) - D
                      /\ InString(t, i) <=> InString(s, a + i)
                      /\ Commented(t, i) <=> Commented(s, a + i)
           T == {i \in 0..m - a : Here(i)}
<1>1. a \in Nat /\ m \in Nat /\ a <= m /\ m <= Len(s) /\ Len(s) \in Nat /\ t \in Writing /\ Len(t) = m - a
  <2>1. Len(s) \in Nat
    BY LengthIs
  <2> QED
    BY <2>1 DEF Window
<1>2. 0 \in 0..m - a /\ m - a \in Nat /\ a + 0 = a /\ a \in 0..Len(s) /\ 0 \in Nat
  BY ONLY <1>1
<1>3. D \in Int
  BY <1>2, AtFirst
<1>4. 0 \in T
  <2>1. Depth(t, 0) = 0 /\ Plain(t, 0)
    BY <1>1, AtFirst
  <2>2. D - D = 0
    BY ONLY <1>3
  <2>3. Here(0)
    <3> HIDE DEF D
    <3>1. Depth(s, a + 0) = D
      BY <1>2 DEF D
    <3>2. Depth(t, 0) = Depth(s, a + 0) - D
      BY <2>1, <2>2, <3>1
    <3> QED
      BY <1>2, <2>1, <3>2, Zenon DEF Plain
  <2> QED
    BY <1>2, <2>3
<1>5. ASSUME NEW i \in 0..(m - a) - 1, i \in T PROVE i + 1 \in T
  <2> DEFINE k == i + 1
             j == a + k
  <2>1. /\ k \in 1..m - a /\ k \in 0..m - a /\ k - 1 = i /\ i \in 0..m - a /\ k \in 1..Len(t)
        /\ j \in 1..Len(s) /\ j - 1 = a + i /\ j \in 0..Len(s) /\ a + i \in 0..Len(s)
    BY ONLY <1>1, i \in 0..(m - a) - 1
  <2>2. Here(i)
    BY <1>5
  <2>3. t[k] = s[j]
    BY <2>1 DEF Window
  <2> HIDE DEF k, j
  <2> DEFINE u == Walk(t)[k - 1]
             w == Walk(s)[j - 1]
             c == s[j]
  <2>4. /\ Walk(t)[k] = Turn(c, u) /\ u \in Situations /\ Walk(s)[j] = Turn(c, w) /\ w \in Situations
    BY <1>1, <2>1, <2>3, WalkIs, Zenon
  <2>5. /\ u.depth = w.depth - D /\ (u.string <=> w.string) /\ (u.comment <=> w.comment)
    BY <2>1, <2>2, Zenon DEF Depth, InString, Commented
  <2>6. /\ Turn(c, u).depth = Turn(c, w).depth - D
        /\ (Turn(c, u).string <=> Turn(c, w).string) /\ (Turn(c, u).comment <=> Turn(c, w).comment)
    <3> HIDE DEF u, w, c, D
    <3>1. u.depth \in Int /\ w.depth \in Int /\ u.string \in BOOLEAN /\ w.string \in BOOLEAN
          /\ u.comment \in BOOLEAN /\ w.comment \in BOOLEAN
      BY <2>4 DEF Situations
    <3>2. DepthAfter(c, u.depth) = DepthAfter(c, w.depth) - D
      BY <1>3, <2>5, <3>1 DEF DepthAfter
    <3>3. \/ /\ Turn(c, u).depth = u.depth /\ Turn(c, w).depth = w.depth
          \/ /\ Turn(c, u).depth = DepthAfter(c, u.depth) /\ Turn(c, w).depth = DepthAfter(c, w.depth)
      BY <2>4, <2>5 DEF Turn, Situations
    <3>4. (Turn(c, u).string <=> Turn(c, w).string) /\ (Turn(c, u).comment <=> Turn(c, w).comment)
      BY <2>4, <2>5 DEF Turn, Situations
    <3>5. Turn(c, u).depth = Turn(c, w).depth - D
      BY <2>5, <3>2, <3>3, Zenon
    <3> QED
      BY <3>4, <3>5
  <2>7. Depth(t, k) = Depth(s, j) - D /\ (InString(t, k) <=> InString(s, j)) /\ (Commented(t, k) <=> Commented(s, j))
    BY <2>4, <2>6, Zenon DEF Depth, InString, Commented
  <2>8. k \in T
    <3>1. Here(k)
      BY <2>7 DEF j
    <3> QED
      BY <2>1, <3>1
  <2> QED
    BY <2>8 DEF k
<1>6. \A i \in 0..m - a : i \in T
  <2> HIDE DEF T
  <2> QED
    BY <1>2, <1>4, <1>5, Upwards
<1> QED
  BY <1>6

NoAbbrev(s)    == \A k \in 1..Len(s) : s[k] # "'"
LineEnds(s, e) == e = Len(s) \/ s[e + 1] = "\n"

\* A datum that begins in a line ends in one that brings the situation back.
LEMMA DatumEnds ==
    ASSUME NEW s \in Writing, NoEscape(s), NoAbbrev(s), NEW p \in Places(s), Plain(s, p - 1),
           NEW q, q = skip_atmosphere(s, p), NEW e \in 1..Len(s), q <= e, LineEnds(s, e),
           Depth(s, e) = Depth(s, p - 1), ~InString(s, e),
           NEW x, x = Reader(s)[p]["expr"], x.ok
    PROVE  x.p <= e + 1 /\ Plain(s, x.p - 1) /\ Depth(s, x.p - 1) = Depth(s, p - 1)
<1> DEFINE R == Reader(s)
<1>1. SkipTo(s, p, q) /\ x = read_expr(s, q, R)
  BY SkipIs, FormsAt
<1>2. q \in Places(s) /\ Begins(s, q) /\ q \in Nat /\ q >= 1 /\ p \in Nat /\ p >= 1 /\ p <= q /\ Len(s) \in Nat
  <2>1. q \in Places(s) /\ Begins(s, q) /\ q >= p
    BY <1>1, SkipAt DEF Begins
  <2>2. q \in Nat /\ q >= 1 /\ p \in Nat /\ p >= 1 /\ Len(s) \in Nat
    BY <2>1, PlaceIs
  <2> QED
    BY ONLY <2>1, <2>2
<1>3. q \in 1..Len(s) /\ e \in Nat /\ e <= Len(s)
  BY ONLY <1>2, q <= e, e \in 1..Len(s)
<1>4. ~Past(s, q)
  BY <1>2, <1>3, PlaceIs
<1>5. Plain(s, q - 1) /\ Depth(s, q - 1) = Depth(s, p - 1) /\ Depth(s, p - 1) \in Int
  <2>1. q <= Len(s) /\ q - 1 \in p - 1..q - 1
    BY ONLY <1>2, <1>3
  <2>2. Plain(s, q - 1) /\ Same(s, p - 1, q - 1)
    BY <1>1, <2>1, SkipWalk
  <2> QED
    BY <2>2, DepthIs DEF Same
<1>6. WalkedLater(s, q)
  BY WalkAll, Zenon DEF WalkedLater
<1>7. Walked(s, q, "expr", x)
  BY <1>1, <1>2, <1>5, <1>6, ExprWalk
<1>8. Outcome(s, q, "expr", x)
  <2>1. Later(s, q, R) /\ Alike(s, q, R, R)
    BY ReaderIs DEF Later, Alike
  <2> QED
    BY <1>1, <1>2, <2>1, ExprStep
<1>9. x.p \in Places(s) /\ x.p \in Nat /\ x.p > q /\ x.p <= Len(s) + 1
  <2>1. "expr" # "all"
    OBVIOUS
  <2>2. x.p \in Places(s) /\ x.p \in Nat /\ x.p > q
    BY <1>2, <1>8, <2>1, ReadPlace
  <2> QED
    BY <2>2, PlaceIs
<1>10. Plain(s, x.p - 1) /\ Depth(s, x.p - 1) = Depth(s, p - 1)
  <2>1. Loss("expr") = 0
    BY DEF Loss
  <2>2. Over(s, q, x.p, 0) /\ ~InString(s, x.p - 1) /\ ~Commented(s, x.p - 1)
    BY <1>7, <2>1, Zenon DEF Walked
  <2>3. Depth(s, x.p - 1) = Depth(s, p - 1) - 0
    BY <1>5, <2>2, Zenon DEF Over
  <2>4. Depth(s, x.p - 1) = Depth(s, p - 1)
    BY ONLY <1>5, <2>3
  <2> QED
    BY <2>2, <2>4, Zenon DEF Plain
<1>11. ASSUME ~(x.p <= e + 1) PROVE e \in q..x.p - 2 /\ e + 1 \in 1..Len(s) /\ e # Len(s) /\ e + 1 \in q..x.p - 1
                                   /\ (e # q => e \in q + 1..x.p - 2)
  BY ONLY <1>2, <1>3, <1>9, <1>11, q <= e
<1>12. q <= q /\ q + 1 \in Places(s) /\ q + 1 > q /\ q + 1 \in Nat /\ (q + 1) - 1 = q
  <2>1. q + 1 \in Places(s)
    BY <1>2, <1>4, NextPlace
  <2> QED
    BY ONLY <1>2, <2>1
<1>13. CASE s[q] = "("
  <2>1. x = R[q + 1]["list"]
    BY <1>1, <1>4, <1>13, Zenon DEF read_expr
  <2>2. \A j \in q..x.p - 2 : Depth(s, j) > Depth(s, q - 1)
    BY <1>2, <1>4, <1>5, <1>6, <1>12, <1>13, <2>1, BracketWalk
  <2>3. x.p <= e + 1
    <3> SUFFICES ASSUME ~(x.p <= e + 1) PROVE FALSE
      OBVIOUS
    <3>1. Depth(s, e) > Depth(s, q - 1)
      BY <1>11, <2>2
    <3>2. Depth(s, p - 1) > Depth(s, p - 1)
      BY <1>5, <3>1
    <3> QED
      BY ONLY <1>5, <3>2
  <2> QED
    BY <1>10, <2>3
<1>14. CASE s[q] = ")"
  <2>1. x = Refuse("unexpected )")
    BY <1>1, <1>4, <1>14, Zenon DEF read_expr
  <2> QED
    BY <2>1, Whys, Zenon
<1>15. CASE s[q] = "\""
  <2>1. x = R[q + 1]["string"]
    <3>1. "\"" # "(" /\ "\"" # ")"
      OBVIOUS
    <3> QED
      BY <1>1, <1>4, <1>15, <3>1, Zenon DEF read_expr
  <2>2. InString(s, q) /\ ~Commented(s, q)
    BY <1>3, <1>5, <1>15, StepIs DEF Plain
  <2>3. Ready(s, q + 1, "string") /\ "string" \in Reads
    BY <1>12, <2>2, Zenon DEF Ready, Reads
  <2>4. Walked(s, q + 1, "string", x)
    BY <1>2, <1>6, <1>12, <2>1, <2>3, ReaderAt, Zenon
  <2>5. \A j \in (q + 1) - 1..x.p - 2 : InString(s, j)
    BY <2>4, Zenon DEF Walked
  <2>6. x.p <= e + 1
    <3> SUFFICES ASSUME ~(x.p <= e + 1) PROVE FALSE
      OBVIOUS
    <3>1. InString(s, e)
      BY <1>11, <1>12, <2>5
    <3> QED
      BY <3>1
  <2> QED
    BY <1>10, <2>6
<1>16. CASE s[q] = "'"
  BY <1>3, <1>16 DEF NoAbbrev
<1>17. CASE s[q] = "#" /\ CharAt(s, q + 1) = "("
  <2> DEFINE r == R[q + 2]["vector"]
  <2>1. x = read_vector(r)
    BY <1>1, <1>4, <1>17, Zenon DEF read_expr
  <2>2. x = IF r.ok THEN Read(Vec(r.x), r.p) ELSE r
    BY <2>1, VectorIs
  <2>3. Same(s, q - 1, q) /\ Plain(s, q)
    <3>1. s[q] \notin {"\n", ";", "\"", "(", ")"}
      BY <1>17
    <3> QED
      BY <1>3, <1>5, <3>1, StepIs
  <2>4. q + 2 = (q + 1) + 1
    BY ONLY <1>2
  <2>5. s[q + 1] = "(" /\ ~Past(s, q + 1)
    <3>1. "(" # ""
      OBVIOUS
    <3> QED
      BY <1>17, <3>1, Zenon DEF CharAt
  <2>6. (x.ok <=> r.ok) /\ (x.ok => x.p = r.p) /\ (x = Unfinished => r = Unfinished) /\ (x = NoMore => r = NoMore)
    <3> HIDE DEF r
    <3>1. CASE r.ok
      <4>1. x = Read(Vec(r.x), r.p)
        BY <2>2, <3>1
      <4>2. x.ok = TRUE /\ x.p = r.p
        BY <4>1 DEF Read
      <4>3. x # NoMore /\ x # Unfinished
        BY <4>1, Whys, Zenon
      <4> QED
        BY <3>1, <4>2, <4>3
    <3>2. CASE ~r.ok
      BY <2>2, <3>2
    <3> QED
      BY <3>1, <3>2
  <2> HIDE DEF R
  <2>7. r = Reader(s)[(q + 1) + 1]["vector"]
    BY <2>4 DEF R
  <2> HIDE DEF r
  <2>8. Plain(s, (q + 1) - 1)
    BY <1>12, <2>3
  <2>9. q <= q + 1
    BY ONLY <1>2
  <2>10. \A j \in q + 1..x.p - 2 : Depth(s, j) > Depth(s, (q + 1) - 1)
    BY <1>2, <1>6, <1>12, <2>5, <2>6, <2>7, <2>8, <2>9, BracketWalk
  <2>11. x.p <= e + 1
    <3> SUFFICES ASSUME ~(x.p <= e + 1) PROVE FALSE
      OBVIOUS
    <3>1. s[e + 1] = "\n"
      BY <1>11 DEF LineEnds
    <3>2. e # q
      <4>1. "\n" # "("
        OBVIOUS
      <4> QED
        BY <2>5, <3>1, <4>1, Zenon
    <3>3. Depth(s, e) > Depth(s, (q + 1) - 1)
      BY <1>11, <2>10, <3>2
    <3>4. Depth(s, p - 1) > Depth(s, p - 1)
      BY <1>5, <1>12, <2>3, <3>3 DEF Same
    <3> QED
      BY ONLY <1>5, <3>4
  <2> QED
    BY <1>10, <2>11
<1>18. CASE s[q] \notin {"(", ")", "\"", "'"} /\ ~(s[q] = "#" /\ CharAt(s, q + 1) = "(")
  <2> DEFINE end == TokenEnd(s, q)
  <2>1. x = read_atom(s, q)
    BY <1>1, <1>4, <1>18, Zenon DEF read_expr
  <2>2. x = Read(Atom(SubSeq(s, q, end - 1)), end)
    BY <1>2, <1>4, <1>18, <2>1, AtomStep
  <2>3. end \in Nat /\ \A j \in q..end - 1 : ~DelimiterAt(s, j)
    BY <1>2, TokenIs
  <2> HIDE DEF end
  <2>4. x.p = end
    BY <2>2 DEF Read
  <2>5. x.p <= e + 1
    <3> SUFFICES ASSUME ~(x.p <= e + 1) PROVE FALSE
      OBVIOUS
    <3>1. s[e + 1] = "\n"
      BY <1>11 DEF LineEnds
    <3>2. ~DelimiterAt(s, e + 1)
      BY <1>11, <2>3, <2>4
    <3> QED
      BY <3>1, <3>2, Zenon DEF DelimiterAt, Delimiters, Spaces
  <2> QED
    BY <1>10, <2>5
<1> QED
  BY <1>13, <1>14, <1>15, <1>16, <1>17, <1>18

\* Atmosphere from the next line on.
LEMMA SkipOn ==
    ASSUME NEW s \in Writing, NEW p \in Places(s), NEW q, SkipTo(s, p, q),
           NEW b \in Places(s), p <= b, b <= q, b # p => s[b - 1] = "\n"
    PROVE  SkipTo(s, b, q) /\ Reader(s)[b]["all"] = Reader(s)[p]["all"]
<1>1. p \in Nat /\ p >= 1 /\ b \in Nat /\ b >= 1 /\ Len(s) \in Nat /\ q \in Nat /\ q <= Len(s) + 1
  BY PlaceIs DEF SkipTo
<1>2. ASSUME NEW j \in b..q, InComment(s, b, j) PROVE InComment(s, p, j)
  <2>1. \A i \in b..j : i \in p..j
    BY ONLY <1>1, p <= b, j \in b..q
  <2> QED
    BY <1>2, <2>1, Zenon DEF InComment
<1>3. ASSUME NEW j \in b..q - 1, InComment(s, p, j) PROVE InComment(s, b, j)
  <2>1. PICK i \in p..j : s[i] = ";" /\ \A r \in i..j : s[r] # "\n"
    BY <1>3, Zenon DEF InComment
  <2>2. i \in b..j
    <3>1. CASE b = p
      BY <3>1
    <3>2. CASE b # p
      <4>1. b - 1 \notin i..j
        BY <2>1, <3>2
      <4> QED
        BY ONLY <1>1, <4>1, i \in p..j, j \in b..q - 1
    <3> QED
      BY <3>1, <3>2
  <2> QED
    BY <2>1, <2>2, Zenon DEF InComment
<1>4. SkipTo(s, b, q)
  <2>1. q <= Len(s) => s[q] \notin Spaces /\ ~InComment(s, b, q)
    <3>1. q \in b..q
      BY ONLY <1>1, b <= q
    <3>2. q <= Len(s) => s[q] \notin Spaces /\ ~InComment(s, p, q)
      BY DEF SkipTo
    <3> QED
      BY <1>2, <3>1, <3>2
  <2>2. \A j \in b..q - 1 : s[j] \in Spaces \/ InComment(s, b, j)
    <3>1. \A j \in b..q - 1 : j \in p..q - 1
      BY ONLY <1>1, p <= b
    <3>2. \A j \in p..q - 1 : s[j] \in Spaces \/ InComment(s, p, j)
      BY DEF SkipTo
    <3> QED
      BY <1>3, <3>1, <3>2
  <2> QED
    BY <1>1, <2>1, <2>2 DEF SkipTo
<1>5. q = skip_atmosphere(s, b) /\ q = skip_atmosphere(s, p)
  BY <1>4, SkipUnique
<1>6. "all" \in Reads
  BY DEF Reads
<1>7. Reader(s)[b]["all"] = Reading(s, b, Reader(s), "all") /\ Reader(s)[p]["all"] = Reading(s, p, Reader(s), "all")
  BY <1>6, ReaderIs, Zenon
<1> QED
  BY <1>4, <1>5, <1>7, Zenon DEF Reading

LEMMA AllFrom ==
    ASSUME NEW s \in Writing, NEW p \in Places(s), NEW b \in Places(s),
           skip_atmosphere(s, p) = skip_atmosphere(s, b)
    PROVE  Reader(s)[b]["all"] = Reader(s)[p]["all"]
<1>1. "all" \in Reads
  BY DEF Reads
<1>2. Reader(s)[b]["all"] = Reading(s, b, Reader(s), "all") /\ Reader(s)[p]["all"] = Reading(s, p, Reader(s), "all")
  BY <1>1, ReaderIs, Zenon
<1> QED
  BY <1>2, Zenon DEF Reading

\* Where the line behind the one that ends at e begins.
Behind(s, e) == IF e = Len(s) THEN e + 1 ELSE e + 2

\* What stands from p on up to the end of the line, and what stands behind it.
CutAt(s, t, a, e, p) ==
    Plain(s, p - 1) /\ Depth(s, p - 1) = Depth(s, a) /\ Reader(s)[p]["all"].ok =>
        /\ Reader(s)[Behind(s, e)]["all"].ok /\ Reader(t)[p - a]["all"].ok
        /\ Reader(s)[p]["all"].x = Reader(t)[p - a]["all"].x \o Reader(s)[Behind(s, e)]["all"].x

LEMMA CutAtEnd ==
    ASSUME NEW s \in Writing, NEW t, NEW a, NEW e, Window(s, t, a, e), LineEnds(s, e),
           NEW p \in a + 1..e + 1, skip_atmosphere(s, p) > e
    PROVE  CutAt(s, t, a, e, p)
<1> DEFINE q == skip_atmosphere(s, p)
           b == Behind(s, e)
           i == p - a
           u == Reader(t)[i]["expr"]
           y == Reader(t)[i]["all"]
<1>1. a \in Nat /\ e \in Nat /\ e <= Len(s) /\ Len(s) \in Nat /\ t \in Writing /\ Len(t) = e - a /\ p \in Nat /\ p >= 1
  <2>1. Len(s) \in Nat
    BY LengthIs
  <2>2. a \in Nat /\ e \in Nat /\ e <= Len(s) /\ t \in Writing /\ Len(t) = e - a
    BY DEF Window
  <2>3. p \in Nat /\ p >= 1
    BY ONLY <2>2, p \in a + 1..e + 1
  <2> QED
    BY <2>1, <2>2, <2>3
<1>2. p \in Places(s) /\ i \in Places(t)
  BY WindowPlace
<1>3. SkipTo(s, p, q) /\ q > e
  BY <1>2, SkipIs
<1>4. q \in Nat /\ p <= q /\ q <= Len(s) + 1
  BY <1>3 DEF SkipTo
<1>5. ~(q <= e)
  BY ONLY <1>1, <1>3, <1>4
<1>6. skip_atmosphere(t, i) = Len(t) + 1
  <2>1. skip_atmosphere(t, i) = (e + 1) - a
    BY <1>3, <1>5, WindowSkip
  <2> QED
    BY ONLY <1>1, <2>1
<1>7. y.ok /\ y.x = <<>>
  <2>1. u = read_expr(t, Len(t) + 1, Reader(t))
    BY <1>1, <1>2, <1>6, FormsAt
  <2>2. Past(t, Len(t) + 1)
    <3>1. Len(t) \in Nat
      BY <1>1, LengthIs
    <3>2. Len(t) + 1 > Len(t)
      BY ONLY <3>1
    <3> QED
      BY <3>2 DEF Past
  <2>3. u = NoMore
    BY <2>1, <2>2, Zenon DEF read_expr
  <2> QED
    BY <1>1, <1>2, <2>3, FormsAt
<1>8. Reader(s)[b]["all"] = Reader(s)[p]["all"]
  <2>1. CASE e = Len(s)
    <3>1. b = Len(s) + 1 /\ q = Len(s) + 1
      <4>1. b = e + 1
        BY <2>1 DEF Behind
      <4> QED
        BY ONLY <1>1, <1>3, <1>4, <2>1, <4>1
    <3>2. b \in Places(s)
      BY <3>1, LengthIs
    <3>3. SkipTo(s, b, skip_atmosphere(s, b))
      BY <3>2, SkipIs
    <3>4. skip_atmosphere(s, b) \in Nat /\ b <= skip_atmosphere(s, b) /\ skip_atmosphere(s, b) <= Len(s) + 1
      BY <3>3 DEF SkipTo
    <3>5. skip_atmosphere(s, b) = q
      BY ONLY <1>1, <3>1, <3>4
    <3> QED
      BY <1>2, <3>2, <3>5, AllFrom
  <2>2. CASE e # Len(s)
    <3>1. s[e + 1] = "\n" /\ b = e + 2
      BY <2>2 DEF LineEnds, Behind
    <3>2. q # e + 1
      <4> SUFFICES ASSUME q = e + 1 PROVE FALSE
        OBVIOUS
      <4>1. q <= Len(s)
        BY ONLY <1>1, <2>2, q = e + 1
      <4>2. s[q] \notin Spaces
        BY <1>3, <4>1 DEF SkipTo
      <4> QED
        BY <3>1, <4>2, q = e + 1, Zenon DEF Spaces
    <3>3. b \in 1..Len(s) + 1 /\ p <= b /\ b <= q /\ b - 1 = e + 1
      BY ONLY <1>1, <1>3, <1>4, <2>2, <3>1, <3>2, p \in a + 1..e + 1
    <3>4. b \in Places(s) /\ s[b - 1] = "\n"
      BY <3>1, <3>3 DEF Places
    <3> QED
      BY <1>2, <1>3, <3>3, <3>4, SkipOn
  <2> QED
    BY <2>1, <2>2
<1>9. Reader(s)[p]["all"].ok => IsSeq(Reader(s)[p]["all"].x)
  BY <1>2, AllSeqs
<1> DEFINE z == Reader(s)[p]["all"]
<1>10. IsSeq(z.x) => z.x = <<>> \o z.x
  BY SeqsAre
<1> HIDE DEF z, y
<1>11. z.ok => z.x = y.x \o z.x
  BY <1>7, <1>9, <1>10 DEF z
<1> QED
  BY <1>7, <1>8, <1>11, Zenon DEF CutAt, z, y, b

LEMMA CutStep ==
    ASSUME NEW s \in Writing, NoEscape(s), NoAbbrev(s), NEW t, NEW a, NEW e, Window(s, t, a, e),
           LineEnds(s, e), Depth(s, e) = Depth(s, a), ~InString(s, e),
           NEW p \in a + 1..e + 1, skip_atmosphere(s, p) <= e,
           \A q \in a + 1..e + 1 : q > p => CutAt(s, t, a, e, q)
    PROVE  CutAt(s, t, a, e, p)
<1> DEFINE q == skip_atmosphere(s, p)
           rest == Reader(s)[Behind(s, e)]["all"]
           i == p - a
           x == Reader(s)[p]["expr"]
           y == Reader(s)[p]["all"]
           r == Reader(s)[x.p]["all"]
           u == Reader(t)[i]["expr"]
           z == Reader(t)[i]["all"]
           w == Reader(t)[u.p]["all"]
<1>1. a \in Nat /\ e \in Nat /\ e <= Len(s) /\ Len(s) \in Nat /\ t \in Writing /\ p \in Nat /\ p >= 1
  <2>1. Len(s) \in Nat
    BY LengthIs
  <2>2. a \in Nat /\ e \in Nat /\ e <= Len(s) /\ t \in Writing
    BY DEF Window
  <2>3. p \in Nat /\ p >= 1
    BY ONLY <2>2, p \in a + 1..e + 1
  <2> QED
    BY <2>1, <2>2, <2>3
<1>2. p \in Places(s) /\ i \in Places(t)
  BY WindowPlace
<1>3. SkipTo(s, p, q) /\ q <= e
  BY <1>2, SkipIs
<1>4. q \in Nat /\ p <= q /\ q \in Places(s) /\ Begins(s, q)
  <2>1. q \in Nat /\ p <= q
    BY <1>3 DEF SkipTo
  <2> QED
    BY <1>2, <1>3, <2>1, SkipAt DEF Begins
<1>5. ~Past(s, q) /\ e \in 1..Len(s) /\ q <= Len(s)
  <2>1. q <= Len(s) /\ e \in 1..Len(s)
    BY ONLY <1>1, <1>3, <1>4
  <2> QED
    BY <1>4, <2>1, PlaceIs
<1> SUFFICES ASSUME Plain(s, p - 1), Depth(s, p - 1) = Depth(s, a), y.ok
             PROVE  rest.ok /\ z.ok /\ y.x = z.x \o rest.x
  BY Zenon DEF CutAt
<1>6. x # NoMore
  <2>1. Plain(s, q - 1)
    BY <1>2, <1>3, <1>5, SkipWalk
  <2>2. WalkedLater(s, q)
    BY WalkAll, Zenon DEF WalkedLater
  <2>3. x = read_expr(s, q, Reader(s))
    BY <1>2, FormsAt
  <2>4. x = NoMore => Past(s, q)
    BY <1>4, <2>1, <2>2, <2>3, ExprWalk
  <2> QED
    BY <1>5, <2>4
<1>7. x.ok /\ r.ok /\ y.x = <<x.x>> \o r.x /\ x.p \in Places(s) /\ x.p > p
  BY <1>2, <1>6, FormsAt
<1>8. x.p <= e + 1 /\ Plain(s, x.p - 1) /\ Depth(s, x.p - 1) = Depth(s, a)
  BY <1>2, <1>3, <1>5, <1>7, DatumEnds
<1>9. x.p \in a + 1..e + 1 /\ x.p \in Nat
  <2>1. x.p \in Nat
    BY <1>7, PlaceIs
  <2>2. x.p > p /\ x.p <= e + 1
    BY <1>7, <1>8
  <2> QED
    BY ONLY <1>1, <2>1, <2>2, p \in a + 1..e + 1
<1>10. u = Moved(a, x)
  <2>1. Fits(e, x)
    BY <1>7, <1>8 DEF Fits
  <2>2. "expr" \in Reads \ {"all"}
    BY DEF Reads
  <2>3. WindowAt(s, t, a, e, p)
    BY WindowAll
  <2> QED
    BY <2>1, <2>2, <2>3, Zenon DEF WindowAt
<1>11. u.ok = TRUE /\ u.x = x.x /\ u.p = x.p - a
  BY <1>10, MovedIs
<1>12. rest.ok /\ w.ok /\ r.x = w.x \o rest.x
  <2>1. CutAt(s, t, a, e, x.p)
    BY <1>7, <1>9
  <2>2. rest.ok /\ Reader(t)[x.p - a]["all"].ok /\ r.x = Reader(t)[x.p - a]["all"].x \o rest.x
    BY <1>7, <1>8, <2>1, Zenon DEF CutAt
  <2> QED
    BY <1>11, <2>2
<1>13. z.ok /\ z.x = <<u.x>> \o w.x
  BY <1>1, <1>2, <1>11, <1>12, FormsAt
<1>14. IsSeq(w.x) /\ IsSeq(rest.x)
  <2>1. u.p \in Places(t)
    BY <1>1, <1>2, <1>11, FormsAt
  <2>2. Behind(s, e) \in Places(s)
    <3>1. Behind(s, e) = IF e = Len(s) THEN e + 1 ELSE e + 2
      BY DEF Behind
    <3>2. Behind(s, e) \in 1..Len(s) + 1
      BY ONLY <1>1, <3>1
    <3> QED
      BY <3>2 DEF Places
  <2> QED
    BY <1>1, <1>12, <2>1, <2>2, AllSeqs
<1> DEFINE v == <<x.x>>
<1>15. IsSeq(v)
  BY SeqsAre
<1>16. y.x = v \o r.x /\ z.x = v \o w.x
  BY <1>7, <1>11, <1>13
<1> HIDE DEF v, x, y, z, r, u, w, rest
<1>17. y.x = v \o (w.x \o rest.x)
  BY <1>12, <1>16
<1> DEFINE wx == w.x
           restx == rest.x
<1>18. (v \o wx) \o restx = v \o (wx \o restx)
  <2> HIDE DEF wx, restx
  <2>1. IsSeq(wx) /\ IsSeq(restx)
    BY <1>14 DEF wx, restx
  <2> QED
    BY ONLY <1>15, <2>1, SeqsAre
<1> QED
  BY <1>12, <1>13, <1>16, <1>17, <1>18

LEMMA CutAll ==
    ASSUME NEW s \in Writing, NoEscape(s), NoAbbrev(s), NEW t, NEW a, NEW e, Window(s, t, a, e),
           LineEnds(s, e), Depth(s, e) = Depth(s, a), ~InString(s, e)
    PROVE  \A p \in a + 1..e + 1 : CutAt(s, t, a, e, p)
<1> DEFINE T == {p \in a + 1..e + 1 : CutAt(s, t, a, e, p)}
<1>1. a + 1 \in Nat /\ e + 1 \in Nat /\ e \in Nat /\ a \in Nat
  BY DEF Window
<1>2. ASSUME NEW p \in a + 1..e + 1, \A q \in a + 1..e + 1 : q > p => q \in T PROVE p \in T
  <2>1. p \in Places(s)
    BY WindowPlace
  <2>2. skip_atmosphere(s, p) \in Nat
    BY <2>1, SkipIs DEF SkipTo
  <2>3. skip_atmosphere(s, p) <= e \/ skip_atmosphere(s, p) > e
    BY ONLY <1>1, <2>2
  <2>4. \A q \in a + 1..e + 1 : q > p => CutAt(s, t, a, e, q)
    BY <1>2
  <2>5. CutAt(s, t, a, e, p)
    BY <2>3, <2>4, CutStep, CutAtEnd
  <2> QED
    BY <2>5
<1>3. \A p \in a + 1..e + 1 : p \in T
  <2> HIDE DEF T
  <2> QED
    BY <1>1, <1>2, Downwards
<1> QED
  BY <1>3

LEMMA WindowIs ==
    ASSUME NEW s \in Writing, NEW a \in Nat, NEW e \in Nat, a <= e, e <= Len(s)
    PROVE  Window(s, SubSeq(s, a + 1, e), a, e)
<1> DEFINE C == Chars \cup {"\n"}
           t == SubSeq(s, a + 1, e)
<1>1. s \in Seq(C)
  BY DEF Writing
<1> HIDE DEF C
<1>2. a + 1 \in Nat \ {0} /\ e \in Int
  OBVIOUS
<1>3. /\ t \in Seq(C) /\ Len(t) = (IF a + 1 <= e THEN e - (a + 1) + 1 ELSE 0)
      /\ \A i \in 1..e - (a + 1) + 1 : t[i] = s[(a + 1) + i - 1]
  BY <1>1, <1>2, Piece
<1> HIDE DEF t
<1>4. Len(t) = e - a
  BY ONLY <1>3, a \in Nat, e \in Nat, a <= e
<1>5. ASSUME NEW i \in 1..e - a PROVE t[i] = s[a + i]
  <2>1. i \in 1..e - (a + 1) + 1 /\ (a + 1) + i - 1 = a + i
    BY ONLY a \in Nat, e \in Nat, i \in 1..e - a
  <2> QED
    BY <1>3, <2>1
<1>6. Window(s, t, a, e)
  BY <1>3, <1>4, <1>5 DEF Window, Writing, C
<1> QED
  BY <1>6 DEF t

LEMMA WindowCalm ==
    ASSUME NEW s \in Writing, NoEscape(s), NEW t, NEW a, NEW e, Window(s, t, a, e)
    PROVE  NoEscape(t)
<1>1. a \in Nat /\ e \in Nat /\ a <= e /\ e <= Len(s) /\ Len(t) = e - a /\ Len(s) \in Nat
  BY LengthIs DEF Window
<1>2. ASSUME NEW i \in 1..Len(t) PROVE t[i] # "\\"
  <2>1. i \in 1..e - a /\ a + i \in 1..Len(s)
    BY ONLY <1>1, i \in 1..Len(t)
  <2>2. t[i] = s[a + i]
    BY <2>1 DEF Window
  <2> QED
    BY <2>1, <2>2, Zenon DEF NoEscape
<1> QED
  BY <1>2 DEF NoEscape

\* A piece that balances is read as far as it goes, and what stands behind it
\* afterwards.
LEMMA LineCut ==
    ASSUME NEW s \in Writing, NoEscape(s), NoAbbrev(s), NEW a \in Nat, NEW e \in Nat, a < e, e <= Len(s),
           LineEnds(s, e), Plain(s, a), NEW t, t = SubSeq(s, a + 1, e), is_balanced(t),
           Reader(s)[a + 1]["all"].ok
    PROVE  /\ read_all(t).ok /\ IsSeq(read_all(t).x) /\ ~InString(s, e)
           /\ Reader(s)[Behind(s, e)]["all"].ok /\ IsSeq(Reader(s)[Behind(s, e)]["all"].x)
           /\ Reader(s)[a + 1]["all"].x = read_all(t).x \o Reader(s)[Behind(s, e)]["all"].x
<1>0. Len(s) \in Nat
  BY LengthIs
<1>a. a <= e
  BY ONLY a \in Nat, e \in Nat, a < e
<1>1. Window(s, t, a, e)
  BY <1>a, WindowIs
<1>2. NoEscape(t) /\ t \in Writing /\ Len(t) = e - a
  BY <1>1, WindowCalm DEF Window
<1>3. Depth(t, Len(t)) = 0 /\ ~InString(t, Len(t))
  BY <1>2, BalancedIs
<1>4. e - a \in 0..e - a /\ a + (e - a) = e /\ a \in 0..Len(s) /\ a + 1 \in a + 1..e + 1 /\ (a + 1) - 1 = a /\ (a + 1) - a = 1
      /\ e \in 0..Len(s) /\ a + 1 \in 1..Len(s) + 1
  BY ONLY <1>0, a \in Nat, e \in Nat, a < e, e <= Len(s)
<1>5. Depth(t, e - a) = Depth(s, a + (e - a)) - Depth(s, a) /\ (InString(t, e - a) <=> InString(s, a + (e - a)))
  BY <1>1, <1>4, WindowWalk
<1>6. Depth(s, e) = Depth(s, a) /\ ~InString(s, e)
  <2>1. 0 = Depth(s, e) - Depth(s, a) /\ ~InString(s, e)
    BY <1>2, <1>3, <1>4, <1>5
  <2>2. Depth(s, e) \in Int /\ Depth(s, a) \in Int
    BY <1>4, AtFirst
  <2>3. Depth(s, e) = Depth(s, a)
    BY ONLY <2>1, <2>2
  <2> QED
    BY <2>1, <2>3
<1>7. CutAt(s, t, a, e, a + 1)
  BY <1>1, <1>4, <1>6, CutAll
<1>8. /\ Reader(s)[Behind(s, e)]["all"].ok /\ Reader(t)[1]["all"].ok
      /\ Reader(s)[a + 1]["all"].x = Reader(t)[1]["all"].x \o Reader(s)[Behind(s, e)]["all"].x
  BY <1>4, <1>7, Zenon DEF CutAt
<1>9. 1 \in Places(t) /\ Behind(s, e) \in Places(s)
  <2>1. Behind(s, e) = IF e = Len(s) THEN e + 1 ELSE e + 2
    BY DEF Behind
  <2>2. Behind(s, e) \in 1..Len(s) + 1
    BY ONLY <1>0, <2>1, e \in Nat, e <= Len(s)
  <2>3. 1 \in 1..Len(t) + 1
    BY ONLY <1>2, a \in Nat, e \in Nat, a < e
  <2> QED
    BY <2>2, <2>3 DEF Places
<1>10. IsSeq(Reader(t)[1]["all"].x) /\ IsSeq(Reader(s)[Behind(s, e)]["all"].x)
  BY <1>2, <1>8, <1>9, AllSeqs
<1> QED
  BY <1>6, <1>8, <1>10 DEF read_all

\* All that is left balances, if the reader can read it.
LEMMA LastCut ==
    ASSUME NEW s \in Writing, NoEscape(s), NEW a \in Nat, NEW e \in Nat, a < e, e <= Len(s),
           e = Len(s) \/ (e + 1 = Len(s) /\ s[e + 1] = "\n"), Plain(s, a), Reader(s)[a + 1]["all"].ok
    PROVE  is_balanced(SubSeq(s, a + 1, e))
<1> DEFINE t == SubSeq(s, a + 1, e)
           n == Len(s)
           y == Reader(s)[a + 1]["all"]
<1>0. n \in Nat
  BY LengthIs
<1>a. a <= e
  BY ONLY a \in Nat, e \in Nat, a < e
<1>1. Window(s, t, a, e)
  BY <1>a, WindowIs
<1> HIDE DEF t
<1>2. NoEscape(t) /\ t \in Writing /\ Len(t) = e - a
  BY <1>1, WindowCalm DEF Window
<1>3. a + 1 \in 1..n + 1 /\ (a + 1) - 1 = a /\ a \in 0..n /\ e \in 0..n /\ (n + 1) - 1 = n /\ (n + 1) - 2 = n - 1 /\ n \in 0..n
      /\ a + (e - a) = e /\ e - a \in 0..e - a /\ \A i \in 0..e - a : a + i \in 0..n /\ (a + i = n \/ a + i \in a..n - 1)
      /\ a \in a..n - 1
  BY ONLY <1>0, a \in Nat, e \in Nat, a < e, e <= n
<1>4. Walked(s, a + 1, "all", y)
  <2>1. "all" \in Reads /\ "all" # "string"
    BY DEF Reads
  <2>2. Ready(s, a + 1, "all")
    BY <1>3, <2>1, Zenon DEF Ready, Plain
  <2>3. a + 1 \in Places(s)
    BY <1>3 DEF Places
  <2>4. WalkedAt(s, a + 1)
    BY <2>3, WalkAll
  <2> QED
    BY <2>1, <2>2, <2>4, Zenon DEF WalkedAt
<1>5. Over(s, a + 1, n + 1, 0) /\ ~InString(s, n)
  <2>1. Loss("all") = 0
    BY DEF Loss
  <2>2. Over(s, a + 1, y.p, 0) /\ ~InString(s, y.p - 1) /\ y.p = n + 1
    BY <1>4, <2>1, Zenon DEF Walked
  <2> QED
    BY <1>3, <2>2
<1>6. Depth(s, a) \in Int /\ Depth(s, e) \in Int /\ Depth(s, n) \in Int /\ \A j \in 0..n : Depth(s, j) \in Int
  BY <1>3, AtFirst
<1>7. Depth(s, n) = Depth(s, a) - 0 /\ \A j \in a..n - 1 : Depth(s, j) >= Depth(s, a)
  BY <1>3, <1>5, Zenon DEF Over
<1>8. Depth(s, n) = Depth(s, a)
  BY ONLY <1>6, <1>7
<1>9. Depth(s, e) = Depth(s, a) /\ ~InString(s, e)
  <2>1. CASE e = n
    BY <1>5, <1>8, <2>1
  <2>2. CASE e + 1 = n /\ s[e + 1] = "\n"
    <3>1. n \in 1..n /\ n - 1 = e
      BY ONLY <1>0, <2>2, e \in Nat
    <3>2. s[n] = "\n"
      BY <2>2
    <3>3. Same(s, n - 1, n)
      BY <3>1, <3>2, StepIs
    <3> QED
      BY <1>5, <1>8, <3>1, <3>3 DEF Same
  <2> QED
    BY <2>1, <2>2
<1>10. \A i \in 0..e - a : Depth(t, i) = Depth(s, a + i) - Depth(s, a) /\ (InString(t, i) <=> InString(s, a + i))
  BY <1>1, WindowWalk
<1>11. ASSUME NEW i \in 0..Len(t) PROVE Depth(t, i) >= 0
  <2>1. i \in 0..e - a
    BY <1>2
  <2>2. a + i \in 0..n /\ (a + i = n \/ a + i \in a..n - 1)
    BY <1>3, <2>1
  <2>3. Depth(t, i) = Depth(s, a + i) - Depth(s, a) /\ Depth(s, a + i) \in Int
    BY <1>6, <1>10, <2>1, <2>2
  <2>4. Depth(s, a + i) >= Depth(s, a)
    <3>1. CASE a + i = n
      BY <1>6, <1>8, <3>1
    <3>2. CASE a + i \in a..n - 1
      BY <1>7, <3>2
    <3> QED
      BY <2>2, <3>1, <3>2
  <2> QED
    BY ONLY <1>6, <2>3, <2>4
<1>12. Depth(t, Len(t)) = 0 /\ ~InString(t, Len(t))
  <2>1. Depth(t, e - a) = Depth(s, e) - Depth(s, a) /\ (InString(t, e - a) <=> InString(s, e))
    BY <1>3, <1>10
  <2>2. Depth(s, e) - Depth(s, a) = 0
    BY ONLY <1>6, <1>9
  <2> QED
    BY <1>2, <1>9, <2>1, <2>2
<1>13. is_balanced(t)
  BY <1>2, <1>11, <1>12, BalancedIs
<1> QED
  BY <1>13 DEF t

-----------------------------------------------------------------------------
(* Typed and loaded.                                                       *)

\* The text is one PromptIsLikeLoad is about.
Loads ==
    LET all == read_all(text) IN
    /\ all.ok /\ HasNo("\\") /\ HasNo("'")
    /\ \A k \in 1..Len(all.x) : all.x[k] \notin OnPort \cup {Failing}

\* What was typed ends with the line at e, and the next one begins at p.
LineAt(s, a, p, input) ==
    \E e \in a + 1..Len(s) : input = SubSeq(s, a + 1, e) /\ LineEnds(s, e) /\ p = Behind(s, e)

\* The input that is not complete began behind a: what was evaluated, what is
\* to be, and what the reader would read from there on is the text.
Unread(s, a, p, input, evaluated, todo) ==
    /\ a = Len(s) \/ Plain(s, a)
    /\ Reader(s)[a + 1]["all"].ok
    /\ IsSeq(evaluated) /\ IsSeq(todo)
    /\ evaluated \o todo \o Reader(s)[a + 1]["all"].x = read_all(s).x
    /\ IF input = <<>> THEN p = a + 1 ELSE LineAt(s, a, p, input)

LoadInv ==
    /\ PromptInv
    /\ Loads =>
          /\ \E a \in 0..Len(text) : Unread(text, a, pos, acc, done, forms)
          /\ doing \in {"prompt", "eval", "bye"}
          /\ doing # "eval" => forms = <<>>
          /\ doing # "prompt" => acc = <<>>
          /\ doing = "bye" => pos = End

LEMMA TextIs ==
    ASSUME LoadInv, Loads
    PROVE  text \in Writing /\ NoEscape(text) /\ NoAbbrev(text) /\ Len(text) \in Nat /\ End = Len(text) + 1
<1>1. text \in Seq(Chars)
  BY DEF LoadInv, PromptInv
<1>2. Len(text) \in Nat /\ text \in Seq(Letters) /\ \A s \in Seq(Letters) : s \in Writing /\ (HasNo("\\") => NoEscape(s))
  BY <1>1, LettersAre
<1>3. text \in Writing /\ NoEscape(text)
  BY <1>2 DEF Loads
<1>4. NoAbbrev(text)
  BY DEF Loads, HasNo, NoAbbrev
<1> QED
  BY <1>2, <1>3, <1>4 DEF End

LEMMA LoadInvInit == PromptInit => LoadInv
<1> SUFFICES ASSUME PromptInit PROVE LoadInv
  OBVIOUS
<1>1. PromptInv
  BY PromptInvInit
<1> SUFFICES ASSUME Loads
             PROVE  /\ \E a \in 0..Len(text) : Unread(text, a, pos, acc, done, forms)
                    /\ doing \in {"prompt", "eval", "bye"}
                    /\ doing # "eval" => forms = <<>>
                    /\ doing # "prompt" => acc = <<>>
                    /\ doing = "bye" => pos = End
  BY <1>1 DEF LoadInv
<1>2. pos = 1 /\ acc = <<>> /\ doing = "prompt" /\ forms = <<>> /\ done = <<>>
  BY DEF PromptInit
<1>3. text \in Writing /\ Len(text) \in Nat
  BY <1>1, LettersAre DEF PromptInv
<1>4. Plain(text, 0) /\ 0 \in 0..Len(text) /\ 0 + 1 = 1 /\ 1 \in Places(text)
  <2>1. 0 \in 0..Len(text) /\ 0 + 1 = 1 /\ 1 \in Places(text)
    BY ONLY <1>3 DEF Places
  <2> QED
    BY <1>3, <2>1, AtFirst
<1>5. Reader(text)[1]["all"] = read_all(text) /\ read_all(text).ok
  BY DEF read_all, Loads
<1> DEFINE z == read_all(text).x
<1>6. IsSeq(z)
  BY <1>3, <1>4, <1>5, AllSeqs
<1>7. <<>> \o <<>> \o z = z /\ IsSeq(<<>>)
  <2> HIDE DEF z
  <2>1. IsSeq(<<>>) /\ <<>> \o z = z
    BY <1>6, SeqsAre
  <2>2. <<>> \o <<>> = <<>>
    BY <2>1, SeqsAre
  <2> QED
    BY <2>1, <2>2
<1> HIDE DEF z
<1>8. Unread(text, 0, 1, <<>>, <<>>, <<>>)
  BY <1>4, <1>5, <1>7, Zenon DEF Unread, z
<1> QED
  BY <1>2, <1>4, <1>8

\* A form more evaluated, one less to evaluate.
LEMMA HeadDone ==
    ASSUME NEW d, NEW f, IsSeq(d), IsSeq(f), f # <<>>
    PROVE  /\ IsSeq(Append(d, Head(f))) /\ IsSeq(Tail(f))
           /\ Append(d, Head(f)) \o Tail(f) = d \o f
<1>1. PICK A : d \in Seq(A)
  BY DEF IsSeq
<1>2. PICK B : f \in Seq(B)
  BY DEF IsSeq
<1> DEFINE S == A \cup B
<1>3. A \subseteq S /\ B \subseteq S
  OBVIOUS
<1> HIDE DEF S
<1>4. d \in Seq(S) /\ f \in Seq(S)
  BY <1>1, <1>2, <1>3
<1>5. Head(f) \in S /\ Tail(f) \in Seq(S)
  BY <1>4, HeadTailProperties
<1>6. Append(d, Head(f)) \in Seq(S) /\ Append(d, Head(f)) = d \o <<Head(f)>>
  BY <1>4, <1>5, AppendProperties, AppendIsConcat
<1>7. f = <<Head(f)>> \o Tail(f)
  BY <1>4
<1>8. <<Head(f)>> \in Seq(S)
  BY <1>5
<1>9. (d \o <<Head(f)>>) \o Tail(f) = d \o (<<Head(f)>> \o Tail(f))
  BY <1>4, <1>5, <1>8, ConcatAssociative
<1> QED
  BY <1>5, <1>6, <1>7, <1>9 DEF IsSeq

\* The next form is one of the text.
LEMMA HeadIsForm ==
    ASSUME NEW d, NEW f, NEW r, IsSeq(d), IsSeq(f), IsSeq(r), f # <<>>
    PROVE  \E k \in 1..Len(d \o f \o r) : (d \o f \o r)[k] = Head(f)
<1> DEFINE z == d \o f \o r
<1>1. PICK A : d \in Seq(A)
  BY DEF IsSeq
<1>2. PICK B : f \in Seq(B)
  BY DEF IsSeq
<1>3. PICK C : r \in Seq(C)
  BY DEF IsSeq
<1> DEFINE S == A \cup B \cup C
<1>4. A \subseteq S /\ B \subseteq S /\ C \subseteq S
  OBVIOUS
<1> HIDE DEF S
<1>5. d \in Seq(S) /\ f \in Seq(S) /\ r \in Seq(S)
  BY <1>1, <1>2, <1>3, <1>4
<1>6. Len(d) \in Nat /\ Len(f) \in Nat /\ Len(r) \in Nat /\ Len(f) # 0
  BY <1>5
<1>7. d \o f \in Seq(S) /\ Len(d \o f) = Len(d) + Len(f)
      /\ \A i \in 1..Len(d) + Len(f) : (d \o f)[i] = IF i <= Len(d) THEN d[i] ELSE f[i - Len(d)]
  BY <1>5, ConcatProperties
<1>8. Len(z) = Len(d) + Len(f) + Len(r)
      /\ \A i \in 1..Len(d) + Len(f) + Len(r) : z[i] = IF i <= Len(d) + Len(f) THEN (d \o f)[i] ELSE r[i - (Len(d) + Len(f))]
  <2> DEFINE g == d \o f
  <2>1. g \in Seq(S) /\ Len(g) = Len(d) + Len(f) /\ z = g \o r
    BY <1>7
  <2> HIDE DEF g, z
  <2>a. g \in Seq(S) /\ r \in Seq(S)
    BY <1>5, <2>1
  <2>2. /\ Len(g \o r) = Len(g) + Len(r)
        /\ \A i \in 1..Len(g) + Len(r) : (g \o r)[i] = IF i <= Len(g) THEN g[i] ELSE r[i - Len(g)]
    BY ONLY <2>a, ConcatProperties
  <2>3. /\ Len(z) = Len(g) + Len(r)
        /\ \A i \in 1..Len(g) + Len(r) : z[i] = IF i <= Len(g) THEN g[i] ELSE r[i - Len(g)]
    BY <2>1, <2>2
  <2> QED
    BY <2>1, <2>3 DEF g
<1> DEFINE k == Len(d) + 1
<1>9. k \in 1..Len(d) + Len(f) /\ k \in 1..Len(d) + Len(f) + Len(r) /\ ~(k <= Len(d)) /\ k - Len(d) = 1 /\ k <= Len(d) + Len(f)
      /\ k \in 1..Len(z)
  BY ONLY <1>6, <1>8
<1> HIDE DEF k, z
<1>10. z[k] = f[1]
  BY <1>7, <1>8, <1>9
<1>11. Head(f) = f[1]
  BY <1>5
<1> QED
  BY <1>9, <1>10, <1>11 DEF z

LEMMA NoPort ==
    ASSUME LoadInv, Loads, forms # <<>>
    PROVE  Head(forms) \notin OnPort \cup {Failing}
<1>1. PICK a \in 0..Len(text) : Unread(text, a, pos, acc, done, forms)
  BY DEF LoadInv
<1> DEFINE z == read_all(text).x
           r == Reader(text)[a + 1]["all"].x
<1>2. text \in Writing /\ Len(text) \in Nat
  BY TextIs
<1>3. a + 1 \in Places(text)
  BY ONLY <1>2, a \in 0..Len(text) DEF Places
<1>4. IsSeq(r)
  BY <1>1, <1>2, <1>3, AllSeqs DEF Unread
<1>5. IsSeq(done) /\ IsSeq(forms) /\ done \o forms \o r = z
  BY <1>1 DEF Unread
<1>6. \A k \in 1..Len(z) : z[k] \notin OnPort \cup {Failing}
  BY DEF Loads
<1> HIDE DEF z, r
<1>7. \E k \in 1..Len(done \o forms \o r) : (done \o forms \o r)[k] = Head(forms)
  BY <1>4, <1>5, HeadIsForm
<1>8. PICK k \in 1..Len(z) : z[k] = Head(forms)
  BY <1>5, <1>7
<1> QED
  BY <1>6, <1>8

LEMMA LoadMoves ==
    ASSUME PromptInv', text' = text,
           Loads =>
              /\ \E a \in 0..Len(text) : Unread(text, a, pos', acc', done', forms')
              /\ doing' \in {"prompt", "eval", "bye"}
              /\ doing' # "eval" => forms' = <<>>
              /\ doing' # "prompt" => acc' = <<>>
              /\ doing' = "bye" => pos' = End
    PROVE  LoadInv'
<1>1. (Loads' <=> Loads) /\ End' = End
  <2>1. \A c : HasNo(c)' <=> HasNo(c)
    BY DEF HasNo
  <2>2. HasNo("\\")' <=> HasNo("\\")
    BY DEF HasNo
  <2>3. HasNo("'")' <=> HasNo("'")
    BY DEF HasNo
  <2>4. read_all(text)' = read_all(text)
    BY Zenon
  <2> QED
    BY <2>2, <2>3, <2>4 DEF Loads, End
<1>2. \A a : Unread(text, a, pos, acc, done, forms)' <=> Unread(text, a, pos', acc', done', forms')
  BY DEF Unread, LineAt
<1> QED
  BY <1>1, <1>2 DEF LoadInv

\* The lines of an input are a piece of the text.
LEMMA Joined ==
    ASSUME LoadInv, Loads, pos < End, NEW a \in 0..Len(text), Unread(text, a, pos, acc, done, forms),
           NEW e, e = LineEnd - 1
    PROVE  /\ WithLine(SubSeq(text, pos, e)) = SubSeq(text, a + 1, e)
           /\ LineEnds(text, e) /\ Lower(LineEnd + 1, End) = Behind(text, e)
           /\ a \in Nat /\ a < Len(text) /\ Plain(text, a)
           /\ e \in Nat /\ a <= e /\ e <= Len(text)
           /\ acc # <<>> => a < e
<1>1. text \in Writing /\ Len(text) \in Nat /\ End = Len(text) + 1
  BY TextIs
<1>2. LineEnd \in pos..End /\ (LineEnd = End \/ text[LineEnd] = "\n") /\ pos \in 1..End
  BY LineIs DEF LoadInv, PromptInv
<1>3. e \in Nat /\ e <= Len(text) /\ e + 1 = LineEnd /\ pos - 1 <= e /\ pos \in Nat
      /\ (e = Len(text) <=> LineEnd = End) /\ LineEnd \in Nat
  BY ONLY <1>1, <1>2, e = LineEnd - 1
<1>4. LineEnds(text, e)
  BY <1>2, <1>3 DEF LineEnds
<1>5. Lower(LineEnd + 1, End) = Behind(text, e)
  <2>1. CASE e = Len(text)
    <3>1. ~(LineEnd + 1 < End) /\ End = e + 1
      BY ONLY <1>1, <1>3, <2>1
    <3> QED
      BY <2>1, <3>1 DEF Lower, Behind
  <2>2. CASE e # Len(text)
    <3>1. LineEnd + 1 = e + 2 /\ (~(LineEnd + 1 < End) => End = e + 2)
      BY ONLY <1>1, <1>3, <2>2
    <3> QED
      BY <2>2, <3>1 DEF Lower, Behind
  <2> QED
    BY <2>1, <2>2
<1>6. CASE acc = <<>>
  <2>1. pos = a + 1
    BY <1>6 DEF Unread
  <2>2. a \in Nat /\ a < Len(text) /\ a <= e /\ a # Len(text)
    BY ONLY <1>1, <1>3, <2>1, pos < End, a \in 0..Len(text)
  <2>3. Plain(text, a)
    BY <2>2 DEF Unread
  <2>4. WithLine(SubSeq(text, pos, e)) = SubSeq(text, a + 1, e)
    BY <1>6, <2>1 DEF WithLine
  <2> QED
    BY <1>3, <1>4, <1>5, <1>6, <2>2, <2>3, <2>4
<1>7. CASE acc # <<>>
  <2>1. LineAt(text, a, pos, acc)
    BY <1>7 DEF Unread
  <2>2. PICK d \in a + 1..Len(text) : acc = SubSeq(text, a + 1, d) /\ LineEnds(text, d) /\ pos = Behind(text, d)
    BY <2>1 DEF LineAt
  <2>3. pos = IF d = Len(text) THEN d + 1 ELSE d + 2
    BY <2>2 DEF Behind
  <2>4. d # Len(text) /\ d \in Nat /\ pos = d + 2 /\ d < Len(text)
    BY ONLY <1>1, <2>3, pos < End, a \in 0..Len(text), d \in a + 1..Len(text)
  <2>5. text[d + 1] = "\n"
    BY <2>2, <2>4 DEF LineEnds
  <2>6. a \in Nat /\ a < Len(text) /\ a < e /\ a <= e /\ a # Len(text)
    BY ONLY <1>1, <1>3, <2>4, a \in 0..Len(text), d \in a + 1..Len(text)
  <2>7. Plain(text, a)
    BY <2>6 DEF Unread
  <2>8. WithLine(SubSeq(text, pos, e)) = SubSeq(text, a + 1, d) \o <<"\n">> \o SubSeq(text, d + 2, e)
    BY <1>7, <2>2, <2>4 DEF WithLine
  <2> DEFINE C == Chars \cup {"\n"}
  <2>9. text \in Seq(C)
    BY <1>1 DEF Writing
  <2> HIDE DEF C
  <2>10. <<"\n">> = SubSeq(text, d + 1, d + 1)
    <3>1. d + 1 \in Nat \ {0} /\ d + 1 \in Int /\ d + 1 <= Len(text) /\ (d + 1) - (d + 1) + 1 = 1 /\ (d + 1) + 1 - 1 = d + 1 /\ 1 \in 1..1
          /\ d + 1 <= d + 1
      BY ONLY <1>1, <2>4
    <3> DEFINE t == SubSeq(text, d + 1, d + 1)
    <3>2. t \in Seq(C) /\ Len(t) = 1 /\ t[1] = text[d + 1]
      <4>1. /\ t \in Seq(C) /\ Len(t) = (IF d + 1 <= d + 1 THEN (d + 1) - (d + 1) + 1 ELSE 0)
            /\ \A i \in 1..(d + 1) - (d + 1) + 1 : t[i] = text[(d + 1) + i - 1]
        BY <2>9, <3>1, Piece
      <4> HIDE DEF t
      <4>2. t[1] = text[(d + 1) + 1 - 1]
        BY <3>1, <4>1
      <4> QED
        BY <3>1, <4>1, <4>2
    <3> HIDE DEF t
    <3>3. t = <<t[1]>>
      BY <3>2
    <3> QED
      BY <2>5, <3>2, <3>3 DEF t
  <2>11. /\ a + 1 \in 1..Len(text) + 1 /\ d \in (a + 1) - 1..Len(text) /\ d + 1 \in d..Len(text)
         /\ d + 1 \in (a + 1) - 1..Len(text) /\ e \in d + 1..Len(text) /\ (d + 1) + 1 = d + 2
    BY ONLY <1>1, <1>3, <2>4, a \in 0..Len(text), d \in a + 1..Len(text)
  <2>12. SubSeq(text, a + 1, d) \o SubSeq(text, d + 1, d + 1) = SubSeq(text, a + 1, d + 1)
    BY <2>9, <2>11, ConcatAdjacentSubSeq
  <2>13. SubSeq(text, a + 1, d + 1) \o SubSeq(text, (d + 1) + 1, e) = SubSeq(text, a + 1, e)
    BY <2>9, <2>11, ConcatAdjacentSubSeq
  <2>14. WithLine(SubSeq(text, pos, e)) = SubSeq(text, a + 1, e)
    BY <2>8, <2>10, <2>11, <2>12, <2>13
  <2> QED
    BY <1>3, <1>4, <1>5, <2>6, <2>7, <2>14
<1> QED
  BY <1>6, <1>7

\* The line behind the one at e.
LEMMA NextLine ==
    ASSUME NEW s \in Writing, NEW e \in Nat, e <= Len(s), LineEnds(s, e), ~InString(s, e)
    PROVE  /\ Behind(s, e) - 1 \in 0..Len(s) /\ (Behind(s, e) - 1) + 1 = Behind(s, e)
           /\ Behind(s, e) - 1 = Len(s) \/ Plain(s, Behind(s, e) - 1)
<1>1. Len(s) \in Nat
  BY LengthIs
<1>2. Behind(s, e) = IF e = Len(s) THEN e + 1 ELSE e + 2
  BY DEF Behind
<1>3. /\ Behind(s, e) - 1 \in 0..Len(s) /\ (Behind(s, e) - 1) + 1 = Behind(s, e)
      /\ e = Len(s) => Behind(s, e) - 1 = Len(s)
      /\ e # Len(s) => Behind(s, e) - 1 = e + 1 /\ e + 1 \in 1..Len(s) /\ (e + 1) - 1 = e
  BY ONLY <1>1, <1>2, e \in Nat, e <= Len(s)
<1>4. CASE e = Len(s)
  BY <1>3, <1>4
<1>5. CASE e # Len(s)
  <2>1. s[e + 1] = "\n"
    BY <1>5 DEF LineEnds
  <2>2. Same(s, (e + 1) - 1, e + 1) /\ ~Commented(s, e + 1)
    BY <1>3, <1>5, <2>1, StepIs
  <2>3. Plain(s, e + 1)
    BY <1>3, <1>5, <2>2 DEF Same, Plain
  <2> QED
    BY <1>3, <1>5, <2>3
<1> QED
  BY <1>4, <1>5

LEMMA LineLoads ==
    ASSUME LoadInv, Loads, ReadLine
    PROVE  /\ \E a \in 0..Len(text) : Unread(text, a, pos', acc', done', forms')
           /\ doing' \in {"prompt", "eval", "bye"}
           /\ doing' # "eval" => forms' = <<>>
           /\ doing' # "prompt" => acc' = <<>>
           /\ doing' = "bye" => pos' = End
<1>1. text \in Writing /\ NoEscape(text) /\ NoAbbrev(text) /\ Len(text) \in Nat /\ End = Len(text) + 1
  BY TextIs
<1>2. doing = "prompt" /\ pos < End /\ pos' = Lower(LineEnd + 1, End)
  BY DEF ReadLine
<1>3. PICK a \in 0..Len(text) : Unread(text, a, pos, acc, done, forms)
  BY DEF LoadInv
<1>4. forms = <<>>
  BY <1>2 DEF LoadInv
<1> DEFINE e == LineEnd - 1
           input == WithLine(SubSeq(text, pos, LineEnd - 1))
           r == Reader(text)[a + 1]["all"]
           b == Behind(text, e)
           y == read_all(input)
<1>5. /\ \/ /\ input = <<>> \/ ~is_balanced(input)
            /\ acc' = input /\ doing' = doing /\ forms' = forms /\ done' = done
         \/ /\ input # <<>> /\ is_balanced(input) /\ acc' = <<>>
            /\ y.ok => doing' = "eval" /\ forms' = y.x /\ done' = done
  BY DEF ReadLine
<1> HIDE DEF e
<1>6. /\ input = SubSeq(text, a + 1, e) /\ LineEnds(text, e) /\ pos' = b
      /\ a \in Nat /\ a < Len(text) /\ Plain(text, a) /\ e \in Nat /\ a <= e /\ e <= Len(text)
      /\ acc # <<>> => a < e
  BY <1>2, <1>3, Joined DEF e
<1> HIDE DEF input
<1>7. /\ r.ok /\ IsSeq(done) /\ IsSeq(forms) /\ done \o forms \o r.x = read_all(text).x
      /\ acc = <<>> => pos = a + 1
  BY <1>3 DEF Unread
<1>8. a + 1 \in Places(text)
  BY ONLY <1>1, a \in 0..Len(text) DEF Places
<1>9. IsSeq(r.x)
  BY <1>1, <1>7, <1>8, AllSeqs
<1>10. input = <<>> <=> a = e
  <2>1. Window(text, input, a, e)
    BY <1>1, <1>6, WindowIs
  <2>2. Len(input) = e - a
    BY <2>1 DEF Window
  <2>3. a = e => Len(input) = 0
    BY ONLY <1>6, <2>2
  <2>4. a # e => Len(input) # 0
    BY ONLY <1>6, <2>2
  <2>5. input = <<>> <=> Len(input) = 0
    <3>1. input \in Seq(Chars \cup {"\n"})
      BY <2>1 DEF Window, Writing
    <3> DEFINE C == Chars \cup {"\n"}
    <3> HIDE DEF C
    <3>2. input \in Seq(C)
      BY <3>1 DEF C
    <3> QED
      BY ONLY <3>2
  <2> QED
    BY <2>3, <2>4, <2>5
<1>11. CASE input = <<>> /\ acc' = input /\ doing' = doing /\ forms' = forms /\ done' = done
  <2>1. a = e /\ acc = <<>>
    <3>1. a = e
      BY <1>10, <1>11
    <3>2. ~(a < e)
      BY ONLY <1>6, <3>1
    <3> QED
      BY <1>6, <3>1, <3>2
  <2>2. b = a + 2 /\ text[a + 1] = "\n" /\ a + 1 \in 1..Len(text) /\ a + 1 \in 0..Len(text) /\ (a + 1) - 1 = a /\ (a + 1) + 1 = a + 2
        /\ a + 2 \in 1..Len(text) + 1 /\ a + 1 <= a + 2 /\ (a + 2) - 1 = a + 1
    <3>1. a # Len(text)
      BY ONLY <1>6
    <3>2. b = a + 2 /\ text[a + 1] = "\n"
      BY <1>6, <2>1, <3>1 DEF Behind, LineEnds
    <3>3. a + 1 \in 1..Len(text) /\ a + 1 \in 0..Len(text) /\ (a + 1) - 1 = a /\ (a + 1) + 1 = a + 2
        /\ a + 2 \in 1..Len(text) + 1 /\ a + 1 <= a + 2 /\ (a + 2) - 1 = a + 1
      BY ONLY <1>1, <1>6
    <3> QED
      BY <3>2, <3>3
  <2>3. Plain(text, a + 1)
    <3>1. Same(text, (a + 1) - 1, a + 1) /\ ~Commented(text, a + 1)
      BY <1>1, <2>2, StepIs
    <3> QED
      BY <1>6, <2>2, <3>1 DEF Same, Plain
  <2>4. Reader(text)[a + 2]["all"] = r
    <3> DEFINE q == skip_atmosphere(text, a + 1)
    <3>1. SkipTo(text, a + 1, q)
      BY <1>1, <1>8, SkipIs
    <3>2. q \in Nat /\ a + 1 <= q /\ q <= Len(text) + 1
      BY <3>1 DEF SkipTo
    <3>3. q # a + 1
      <4> SUFFICES ASSUME q = a + 1 PROVE FALSE
        OBVIOUS
      <4>1. q <= Len(text)
        BY ONLY <1>1, <1>6, q = a + 1
      <4>2. text[q] \notin Spaces
        BY <3>1, <4>1 DEF SkipTo
      <4> QED
        BY <2>2, <4>2, q = a + 1, Zenon DEF Spaces
    <3> HIDE DEF q
    <3>4. a + 2 <= q
      BY ONLY <1>6, <3>2, <3>3
    <3>5. a + 2 \in Places(text)
      BY <2>2 DEF Places
    <3>6. Reader(text)[a + 2]["all"] = Reader(text)[a + 1]["all"]
      BY <1>1, <1>8, <2>2, <3>1, <3>4, <3>5, SkipOn
    <3> QED
      BY <3>6
  <2>5. Unread(text, a + 1, a + 2, <<>>, done, forms)
    BY <1>7, <2>2, <2>3, <2>4 DEF Unread
  <2>6. Unread(text, a + 1, pos', acc', done', forms')
    BY <1>6, <1>11, <2>2, <2>5
  <2> QED
    BY <1>2, <1>4, <1>11, <2>2, <2>6
<1>12. CASE input # <<>> /\ ~is_balanced(input) /\ acc' = input /\ doing' = doing /\ forms' = forms /\ done' = done
  <2>1. e \in a + 1..Len(text)
    <3>1. a # e
      BY <1>10, <1>12
    <3> QED
      BY ONLY <1>1, <1>6, <3>1
  <2>2. LineAt(text, a, pos', input)
    BY <1>6, <2>1 DEF LineAt
  <2>3. Unread(text, a, pos', input, done, forms)
    BY <1>6, <1>7, <1>12, <2>2 DEF Unread
  <2>4. Unread(text, a, pos', acc', done', forms')
    BY <1>12, <2>3
  <2> QED
    BY <1>2, <1>4, <1>12, <2>4
<1>13. CASE /\ input # <<>> /\ is_balanced(input) /\ acc' = <<>>
            /\ y.ok => doing' = "eval" /\ forms' = y.x /\ done' = done
  <2>1. a < e
    <3>1. a # e
      BY <1>10, <1>13
    <3> QED
      BY ONLY <1>6, <3>1
  <2> DEFINE rest == Reader(text)[b]["all"]
  <2>2. y.ok /\ IsSeq(y.x) /\ ~InString(text, e) /\ rest.ok /\ IsSeq(rest.x) /\ r.x = y.x \o rest.x
    BY <1>1, <1>6, <1>7, <1>13, <2>1, LineCut
  <2>3. b - 1 \in 0..Len(text) /\ (b - 1) + 1 = b /\ (b - 1 = Len(text) \/ Plain(text, b - 1))
    BY <1>1, <1>6, <2>2, NextLine
  <2>4. done \o y.x \o rest.x = read_all(text).x
    <3> DEFINE u == y.x
               v == rest.x
    <3>1. IsSeq(u) /\ IsSeq(v) /\ IsSeq(done) /\ r.x = u \o v
      BY <1>7, <2>2
    <3>2. done \o forms = done
      BY <1>4, <3>1, SeqsAre
    <3> HIDE DEF u, v
    <3>3. (done \o u) \o v = done \o (u \o v)
      BY <3>1, SeqsAre
    <3>4. (done \o u) \o v = read_all(text).x
      BY <1>7, <3>1, <3>2, <3>3
    <3> QED
      BY <3>4 DEF u, v
  <2>5. Unread(text, b - 1, b, <<>>, done, y.x)
    BY <1>7, <2>2, <2>3, <2>4 DEF Unread
  <2>6. Unread(text, b - 1, pos', acc', done', forms')
    BY <1>6, <1>13, <2>2, <2>5
  <2> QED
    BY <1>13, <2>2, <2>3, <2>6
<1> QED
  BY <1>5, <1>11, <1>12, <1>13

\* Nothing of an input that can be read to its end is left waiting.
LEMMA LastLine ==
    ASSUME LoadInv, Loads, pos = End, NEW a \in 0..Len(text), Unread(text, a, pos, acc, done, forms)
    PROVE  acc = <<>>
<1> SUFFICES ASSUME acc # <<>> PROVE FALSE
  OBVIOUS
<1>1. text \in Writing /\ NoEscape(text) /\ Len(text) \in Nat /\ End = Len(text) + 1
  BY TextIs
<1>2. LineAt(text, a, pos, acc) /\ (a = Len(text) \/ Plain(text, a)) /\ Reader(text)[a + 1]["all"].ok
  BY DEF Unread
<1>3. PICK e \in a + 1..Len(text) : acc = SubSeq(text, a + 1, e) /\ LineEnds(text, e) /\ pos = Behind(text, e)
  BY <1>2 DEF LineAt
<1>4. pos = IF e = Len(text) THEN e + 1 ELSE e + 2
  BY <1>3 DEF Behind
<1>5. /\ a \in Nat /\ e \in Nat /\ a < e /\ e <= Len(text) /\ a # Len(text)
      /\ e = Len(text) \/ e + 1 = Len(text)
  BY ONLY <1>1, <1>4, pos = End, a \in 0..Len(text), e \in a + 1..Len(text)
<1>6. e = Len(text) \/ (e + 1 = Len(text) /\ text[e + 1] = "\n")
  BY <1>3, <1>5 DEF LineEnds
<1>7. is_balanced(acc)
  BY <1>1, <1>2, <1>3, <1>5, <1>6, LastCut
<1> QED
  BY <1>7 DEF LoadInv, PromptInv

LEMMA LoadInvNext == LoadInv /\ [PromptNext]_promptVars => LoadInv'
<1> SUFFICES ASSUME LoadInv, [PromptNext]_promptVars PROVE LoadInv'
  OBVIOUS
<1>1. PromptInv'
  BY PromptInvNext DEF LoadInv
<1>2. text' = text
  BY DEF PromptNext, promptVars, Bye, ReadLine, Peek, Get, Datum, Other, Answered, Evaluating
<1> DEFINE Kept == /\ \E a \in 0..Len(text) : Unread(text, a, pos', acc', done', forms')
                   /\ doing' \in {"prompt", "eval", "bye"}
                   /\ doing' # "eval" => forms' = <<>>
                   /\ doing' # "prompt" => acc' = <<>>
                   /\ doing' = "bye" => pos' = End
<1> SUFFICES ASSUME Loads PROVE Kept
  BY <1>1, <1>2, LoadMoves
<1>3. PICK a \in 0..Len(text) : Unread(text, a, pos, acc, done, forms)
  BY DEF LoadInv
<1>4. /\ doing \in {"prompt", "eval", "bye"}
      /\ doing # "eval" => forms = <<>>
      /\ doing # "prompt" => acc = <<>>
      /\ doing = "bye" => pos = End
  BY DEF LoadInv
<1>5. CASE UNCHANGED promptVars
  <2>1. Unread(text, a, pos', acc', done', forms')
    BY <1>3, <1>5 DEF promptVars
  <2> QED
    BY <1>4, <1>5, <2>1 DEF promptVars
<1>6. CASE Bye
  <2>1. doing = "prompt" /\ pos = End /\ doing' = "bye" /\ pos' = pos /\ acc' = acc /\ forms' = forms /\ done' = done
    BY <1>6 DEF Bye
  <2>2. acc = <<>>
    BY <1>3, <2>1, LastLine
  <2>3. Unread(text, a, pos', acc', done', forms')
    BY <1>3, <2>1
  <2> QED
    BY <1>4, <2>1, <2>2, <2>3
<1>7. CASE ReadLine
  BY <1>7, LineLoads
<1>8. CASE Peek \/ Get \/ Datum
  <2>1. forms # <<>> /\ Head(forms) \in OnPort
    BY <1>8 DEF Peek, Get, Datum, Evaluating, OnPort
  <2> QED
    BY <2>1, NoPort
<1>9. CASE Other
  <2>1. forms # <<>> /\ doing = "eval" /\ doing' = doing /\ acc' = acc /\ pos' = pos
    BY <1>9 DEF Other, Evaluating
  <2>2. Head(forms) # Failing
    BY <2>1, NoPort
  <2>3. done' = Append(done, Head(forms)) /\ forms' = Tail(forms)
    BY <1>9, <2>2 DEF Other, Evaluated
  <2>4. IsSeq(done) /\ IsSeq(forms)
    BY <1>3 DEF Unread
  <2>5. /\ IsSeq(Append(done, Head(forms))) /\ IsSeq(Tail(forms))
        /\ Append(done, Head(forms)) \o Tail(forms) = done \o forms
    BY <2>1, <2>4, HeadDone
  <2>6. Unread(text, a, pos, acc, Append(done, Head(forms)), Tail(forms))
    BY <1>3, <2>5, Zenon DEF Unread
  <2>7. Unread(text, a, pos', acc', done', forms')
    BY <2>1, <2>3, <2>6
  <2> QED
    BY <1>4, <2>1, <2>7
<1>10. CASE Answered
  <2>1. doing' = "prompt" /\ forms = <<>> /\ forms' = forms /\ done' = done /\ acc' = acc /\ pos' = pos
    BY <1>10 DEF Answered
  <2>2. Unread(text, a, pos', acc', done', forms')
    BY <1>3, <2>1
  <2> QED
    BY <2>1, <2>2
<1> QED
  BY <1>5, <1>6, <1>7, <1>8, <1>9, <1>10 DEF PromptNext

LEMMA NothingLeft ==
    ASSUME NEW s \in Writing
    PROVE  LET r == Reader(s)[Len(s) + 1]["all"] IN r.ok => r.x = <<>>
<1> DEFINE p == Len(s) + 1
           r == Reader(s)[p]["all"]
           x == Reader(s)[p]["expr"]
           q == skip_atmosphere(s, p)
<1> SUFFICES ASSUME r.ok PROVE r.x = <<>>
  OBVIOUS
<1>1. Len(s) \in Nat
  BY LengthIs
<1>2. p \in Places(s)
  BY ONLY <1>1 DEF Places
<1>3. SkipTo(s, p, q)
  BY <1>2, SkipIs
<1>4. q \in Nat /\ p <= q
  BY <1>3 DEF SkipTo
<1>5. q > Len(s)
  BY ONLY <1>1, <1>4
<1>6. x = read_expr(s, q, Reader(s))
  BY <1>2, FormsAt
<1>7. x = NoMore
  <2>1. Past(s, q)
    BY <1>5 DEF Past
  <2> QED
    BY <1>6, <2>1, Zenon DEF read_expr
<1>8. \/ x = NoMore /\ r.x = <<>>
      \/ x.ok
  BY <1>2, FormsAt
<1>9. ~NoMore.ok
  BY DEF NoMore, Refuse
<1> QED
  BY <1>7, <1>8, <1>9

LEMMA AlwaysLoads == PromptSpec => []LoadInv
<1>1. PromptInit => LoadInv
  BY LoadInvInit
<1>2. LoadInv /\ [PromptNext]_promptVars => LoadInv'
  BY LoadInvNext
<1> QED
  BY <1>1, <1>2, PTL DEF PromptSpec

\* A text typed at the prompt, whatever its length and its lines, does what it
\* does as a file (read_multiline_input and run_repl at scheme14.cpp:6201
\* against read_all at :1252, whose forms load_from_path evaluates).
THEOREM IsLikeLoad == PromptSpec => []PromptIsLikeLoad
<1>1. LoadInv => PromptIsLikeLoad
  <2> SUFFICES ASSUME LoadInv, Loads, doing = "bye" PROVE done = read_all(text).x
    BY DEF PromptIsLikeLoad, Loads
  <2>1. forms = <<>> /\ acc = <<>> /\ pos = End
    BY DEF LoadInv
  <2>2. PICK a \in 0..Len(text) : Unread(text, a, pos, acc, done, forms)
    BY DEF LoadInv
  <2>3. text \in Writing /\ Len(text) \in Nat /\ End = Len(text) + 1
    BY TextIs
  <2>4. pos = a + 1
    BY <2>1, <2>2 DEF Unread
  <2>5. a + 1 = Len(text) + 1
    BY <2>1, <2>3, <2>4
  <2>6. /\ Reader(text)[Len(text) + 1]["all"].ok
        /\ IsSeq(done)
        /\ done \o forms \o Reader(text)[Len(text) + 1]["all"].x = read_all(text).x
    BY <2>2, <2>5, Zenon DEF Unread
  <2>7. Reader(text)[Len(text) + 1]["all"].x = <<>>
    BY <2>3, <2>6, NothingLeft
  <2>8. done \o <<>> = done
    BY <2>6, SeqsAre
  <2>9. done \o <<>> \o <<>> = read_all(text).x
    BY <2>1, <2>6, <2>7
  <2> QED
    BY <2>8, <2>9
<1>2. PromptSpec => []LoadInv
  BY AlwaysLoads
<1> QED
  BY <1>1, <1>2, PTL
=============================================================================
