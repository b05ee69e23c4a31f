--------------------------- MODULE ArithmeticProof ---------------------------
(***************************************************************************)
(* Theorems about Arithmetic, for integers of any width, fixnums of any    *)
(* smaller width, and any calls.                                           *)
(***************************************************************************)
EXTENDS Arithmetic, Recursion

IsNumber(v) == IsExact(v) \/ IsFlonum(v)

\* An argument is a flonum, no number, or an integer in its representation.
Argument(v) ==
    \/ v = Flonum \/ v = Other
    \/ v.n \in Int /\ v = make_int(v.n)

Typed ==
    /\ Len(args) \in Nat /\ DOMAIN args = 1..Len(args)
    /\ \A j \in 1..Len(args) : Argument(args[j])
    /\ op \in {"+", "-", "*"}
    /\ path \in {"fixnum", "big", "real", "done"}
    /\ i \in 0..Len(args) /\ acc \in Int /\ exact \in Int

\* What is known of the arguments on each path. A call of - with one argument
\* is answered at once.
PathKnows ==
    /\ path = "fixnum" => \A j \in 1..i : IsFixnum(args[j])
    /\ path = "big" => \A j \in 1..Len(args) : IsExact(args[j])
    /\ path = "real" => /\ \A j \in 1..Len(args) : IsNumber(args[j])
                        /\ \E j \in 1..Len(args) : IsFlonum(args[j])
    /\ op = "-" /\ Len(args) <= 1 => i = 0 /\ path \in {"fixnum", "done"}

Inv == Typed /\ NeverWraps /\ PathKnows /\ AnswerFits

-----------------------------------------------------------------------------
(* Integers of the machine.                                                *)

\* A number that fits is not changed by the width.
LEMMA WrappedFits ==
    ASSUME NEW n \in IntPtr
    PROVE  Wrapped(n) = n
BY WidthAssumption DEF Wrapped, IntPtr

LEMMA ComputeType ==
    ASSUME NEW o \in {"+", "-", "*"}, NEW a \in Int, NEW b \in Int
    PROVE  Compute(o, a, b) \in Int
BY DEF Compute

LEMMA FixnumType == Fixnum \subseteq Int /\ 0 \in Fixnum /\ FixMin \in Int
BY WidthAssumption DEF Fixnum, FixMin

\* make_int answers the one representation of its argument.
LEMMA MakeInt ==
    ASSUME NEW n \in Int
    PROVE  /\ IsExact(make_int(n)) /\ ~IsFlonum(make_int(n))
           /\ make_int(n).n = n /\ Canonical(make_int(n))
           /\ n \in Fixnum => make_int(n) = make_fixnum(n)
BY DEF make_int, make_fixnum, Number, IsExact, IsFlonum, IsFixnum, Canonical

LEMMA ArgumentKinds ==
    ASSUME NEW v, Argument(v)
    PROVE  /\ IsFixnum(v) => v.n \in Fixnum /\ IsExact(v)
           /\ IsExact(v) => v.n \in Int /\ ~IsFlonum(v)
BY DEF Argument, make_int, make_fixnum, Number, IsExact, IsFixnum, IsFlonum, Flonum, Other

-----------------------------------------------------------------------------
(* The invariant holds at first, and every step keeps it.                  *)

LEMMA InitInv == Init => Inv
<1> SUFFICES ASSUME Init PROVE Inv
  OBVIOUS
<1>1. Typed
  BY ArgumentsAssumption DEF Init, Typed, Argument
<1>2. NeverWraps
  BY WidthAssumption DEF Init, NeverWraps, Fixnum, FixMin
<1>3. PathKnows /\ AnswerFits
  BY <1>1 DEF Init, PathKnows, AnswerFits, Typed
<1> QED
  BY <1>1, <1>2, <1>3 DEF Inv

\* The negation of a single argument.
LEMMA NegateKeeps == Inv /\ Negate => Inv'
<1> SUFFICES ASSUME Inv, Negate PROVE Inv'
  OBVIOUS
<1> USE DEF Inv
<1>1. Typed' /\ NeverWraps' /\ PathKnows'
  BY DEF Negate, Answer, Typed, NeverWraps, PathKnows
<1>2. AnswerFits'
  <2> SUFFICES ASSUME args # <<>> PROVE AnswerFits'
    BY DEF AnswerFits, Negate, Answer
  <2>1. Len(args) = 1
    BY DEF Negate, Typed
  <2> DEFINE v == args[1]
  <2>2. Argument(v) /\ Rest(0) = {v}
    BY <2>1 DEF Rest, Typed
  <2>3. CASE IsExact(v)
    <3>1. v.n \in Int /\ ~IsFlonum(v)
      BY <2>2, <2>3, ArgumentKinds
    <3>2. result' = make_int(-v.n)
      <4>1. CASE IsFixnum(v) /\ v.n # FixMin
        <5>1. v.n \in Fixnum
          BY <2>2, <4>1, ArgumentKinds
        <5>2. -v.n \in Fixnum
          BY <5>1, <4>1, WidthAssumption DEF Fixnum, FixMin
        <5> QED
          BY <5>2, <4>1, <2>1 DEF Negate, Answer, make_int
      <4>2. CASE ~(IsFixnum(v) /\ v.n # FixMin)
        BY <4>2, <3>1, <2>1, <2>3 DEF Negate, Answer
      <4> QED
        BY <4>1, <4>2
    <3>3. /\ IsExact(result') /\ ~IsFlonum(result')
          /\ result'.n = -v.n /\ Canonical(result')
      BY <3>1, <3>2, MakeInt
    <3> QED
      BY <2>1, <2>2, <2>3, <3>1, <3>3 DEF AnswerFits, Negate, Answer, Rest
  <2>4. CASE IsFlonum(v)
    <3>1. result' = Flonum /\ ~IsExact(v)
      BY <2>1, <2>4 DEF Negate, Answer, IsFixnum, IsFlonum, IsExact
    <3> QED
      BY <2>1, <2>2, <2>4, <3>1
      DEF AnswerFits, Negate, Answer, Rest, Flonum, IsFlonum, IsExact, Canonical
  <2>5. CASE ~IsExact(v) /\ ~IsFlonum(v)
    <3>1. result' = Error
      BY <2>1, <2>5 DEF Negate, Answer, IsFixnum, IsExact
    <3> QED
      BY <2>1, <2>2, <2>5, <3>1
      DEF AnswerFits, Negate, Answer, Rest, Error, IsFlonum, IsExact, Canonical
  <2> QED
    BY <2>3, <2>4, <2>5
<1> QED
  BY <1>1, <1>2

LEMMA FirstKeeps == Inv /\ First => Inv'
<1> SUFFICES ASSUME Inv, First PROVE Inv'
  OBVIOUS
<1>1. args[1].n \in Fixnum
  BY ArgumentKinds DEF Inv, First, Typed
<1>2. Typed'
  <2>1. acc' \in Int /\ exact' \in Int
    BY <1>1, FixnumType DEF First
  <2>2. i' \in 0..Len(args)
    BY DEF Inv, First, Typed
  <2> QED
    BY <2>1, <2>2 DEF Inv, First, Typed
<1>3. NeverWraps' /\ AnswerFits'
  BY <1>1 DEF First, NeverWraps, AnswerFits
<1>4. PathKnows'
  BY DEF First, PathKnows
<1> QED
  BY <1>2, <1>3, <1>4 DEF Inv

\* What fits is the true result, and a fixnum.
LEMMA FastKeeps == Inv /\ Fast => Inv'
<1> SUFFICES ASSUME Inv, Fast PROVE Inv'
  OBVIOUS
<1> DEFINE v == args[i + 1]
<1>1. i + 1 \in 1..Len(args) /\ IsFixnum(v) /\ v.n \in Int
  BY ArgumentKinds, FixnumType DEF Inv, Fast, Fits, Typed
<1>2. acc' = Compute(op, acc, v.n) /\ acc' \in Fixnum
  <2>1. Compute(op, acc, v.n) \in IntPtr
    BY <1>1 DEF Fast, Fits, Overflows
  <2> QED
    BY <2>1, WrappedFits DEF Fast, Fits, ComputeWrapped
<1>3. acc' = exact' /\ acc' \in Int
  BY <1>2, FixnumType DEF Inv, Fast, NeverWraps
<1>4. Typed'
  BY <1>1, <1>3 DEF Inv, Fast, Typed
<1>5. NeverWraps'
  BY <1>2, <1>3 DEF NeverWraps
<1>6. PathKnows'
  BY <1>1 DEF Inv, Fast, Starting, Typed, PathKnows
<1> QED
  BY <1>4, <1>5, <1>6 DEF Inv, Fast, AnswerFits

\* The arguments seen so far are fixnums, so that those from here on decide.
LEMMA LeaveKeeps == Inv /\ Leave => Inv'
<1> SUFFICES ASSUME Inv, Leave PROVE Inv'
  OBVIOUS
<1>1. Typed' /\ NeverWraps'
  BY DEF Inv, Leave, Answer, Typed, NeverWraps
<1>2. \A j \in 1..i : IsFixnum(args[j]) /\ IsExact(args[j]) /\ ~IsFlonum(args[j])
  BY DEF Inv, Leave, Typed, PathKnows, IsFixnum, IsExact, IsFlonum
<1>3. Rest(i) \subseteq Rest(0) /\ Rest(0) = {args[j] : j \in 1..i} \cup Rest(i)
  BY DEF Rest, Inv, Typed
<1>4. op = "-" => Len(args) > 1
  BY DEF Leave, Inv, Typed, PathKnows, Starting
<1>5. CASE path' = "done"
  <2>1. result' = Error /\ \E v \in Rest(i) : ~IsExact(v) /\ ~IsFlonum(v)
    BY <1>5 DEF Leave, Answer
  <2>2. AnswerFits'
    BY <2>1, <1>3, <1>5 DEF Leave, Answer, AnswerFits, Rest, Error, Canonical, IsExact, IsFlonum
  <2> QED
    BY <1>1, <1>4, <1>5, <2>2 DEF Inv, PathKnows, Leave, Answer
<1>6. CASE path' # "done"
  <2>1. /\ \A v \in Rest(i) : IsNumber(v)
        /\ path' = IF \E v \in Rest(i) : IsFlonum(v) THEN "real" ELSE "big"
        /\ UNCHANGED <<op, args, i, acc, result, exact>>
    BY <1>6 DEF Leave, Answer, IsNumber
  <2>2. \A j \in 1..Len(args) : IsNumber(args[j])
    BY <1>2, <2>1 DEF Rest, IsNumber, Inv, Typed
  <2>3. CASE \E v \in Rest(i) : IsFlonum(v)
    <3>1. \E j \in 1..Len(args) : IsFlonum(args[j])
      BY <2>3 DEF Rest, Inv, Typed
    <3> QED
      BY <1>1, <1>4, <1>6, <2>1, <2>2, <2>3, <3>1 DEF Inv, PathKnows, AnswerFits, IsNumber, IsFlonum
  <2>4. CASE ~\E v \in Rest(i) : IsFlonum(v)
    <3>1. \A j \in 1..Len(args) : IsExact(args[j])
      BY <1>2, <2>1, <2>4 DEF Rest, IsNumber, Inv, Typed
    <3> QED
      BY <1>1, <1>4, <1>6, <2>1, <2>4, <3>1 DEF Inv, PathKnows, AnswerFits
  <2> QED
    BY <2>3, <2>4
<1> QED
  BY <1>5, <1>6

LEMMA BigKeeps == Inv /\ Big => Inv'
<1> SUFFICES ASSUME Inv, Big PROVE Inv'
  OBVIOUS
<1>1. i + 1 \in 1..Len(args) /\ args[i + 1].n \in Int
  BY ArgumentKinds DEF Inv, Big, Typed, PathKnows
<1>2. op = "-" => Len(args) > 1
  BY DEF Inv, Big, PathKnows, Typed
<1>3. acc' = exact' /\ acc' \in Int
  <2>1. CASE Starting
    BY <2>1, <1>1 DEF Big, Starting
  <2>2. CASE ~Starting
    BY <2>2, <1>1, ComputeType DEF Big, Inv, NeverWraps, Typed
  <2> QED
    BY <2>1, <2>2
<1> QED
  BY <1>1, <1>2, <1>3 DEF Inv, Big, Typed, NeverWraps, PathKnows, AnswerFits

\* The answer, from what each path knows of the arguments.
LEMMA FinishKeeps == Inv /\ Finish => Inv'
<1> SUFFICES ASSUME Inv, Finish PROVE Inv'
  OBVIOUS
<1>1. Typed' /\ NeverWraps' /\ PathKnows'
  BY DEF Inv, Finish, Answer, Typed, NeverWraps, PathKnows
<1>2. AnswerFits'
  <2>1. CASE path \in {"fixnum", "big"}
    <3>1. ~(op = "-" /\ Len(args) = 1)
      <4> SUFFICES ASSUME op = "-", Len(args) = 1 PROVE FALSE
        OBVIOUS
      <4>1. i = 0 /\ path = "fixnum"
        BY <2>1 DEF Inv, PathKnows
      <4> QED
        BY <4>1 DEF Finish, Starting
    <3>2. i = Len(args) /\ acc = exact /\ acc \in Int
      BY <2>1 DEF Inv, Finish, Typed, NeverWraps
    <3>3. result' = make_int(acc) /\ path' = "done"
      <4>1. CASE path = "fixnum"
        BY <4>1, <3>2, MakeInt DEF Inv, Finish, Answer, NeverWraps
      <4>2. CASE path = "big"
        BY <4>2 DEF Finish, Answer
      <4> QED
        BY <2>1, <4>1, <4>2
    <3>4. \A v \in Rest(0) : IsExact(v) /\ ~IsFlonum(v)
      BY <2>1, <3>2 DEF Inv, PathKnows, Rest, Typed, IsFixnum, IsExact, IsFlonum
    <3>5. /\ IsExact(result') /\ ~IsFlonum(result')
          /\ result'.n = exact /\ Canonical(result')
      BY <3>2, <3>3, MakeInt
    <3>6. UNCHANGED <<op, args, i, exact>>
      BY DEF Finish, Answer
    <3> QED
      BY <3>1, <3>2, <3>4, <3>5, <3>6 DEF AnswerFits, Rest
  <2>2. CASE path = "real"
    <3>1. result' = Flonum /\ UNCHANGED <<op, args, i, exact>>
      BY <2>2 DEF Finish, Answer
    <3>2. (\A v \in Rest(0) : IsNumber(v)) /\ (\E v \in Rest(0) : IsFlonum(v))
      BY <2>2, SMTT(30) DEF Inv, PathKnows, Rest, Typed
    <3>3. ~\A v \in Rest(0) : IsExact(v)
      BY <3>2 DEF IsExact, IsFlonum
    <3> QED
      BY <3>1, <3>2, <3>3 DEF AnswerFits, Rest, Flonum, IsFlonum, IsExact, IsNumber, Canonical
  <2> QED
    BY <2>1, <2>2 DEF Finish
<1> QED
  BY <1>1, <1>2 DEF Inv

LEMMA Stutters == Inv /\ UNCHANGED vars => Inv'
BY DEF Inv, vars, Typed, NeverWraps, PathKnows, AnswerFits, Rest, Argument

LEMMA Invariant == Spec => []Inv
<1>1. Inv /\ [Next]_vars => Inv'
  BY NegateKeeps, FirstKeeps, FastKeeps, LeaveKeeps, BigKeeps, FinishKeeps, Stutters DEF Next
<1> QED
  BY InitInv, <1>1, PTL DEF Spec

\* On every path of + - *, wherever a call leaves the fast one, what has been
\* computed is the true result, and the answer is that result in its one
\* representation, a flonum, or an error, as the arguments have it.
THEOREM SumsAreExact == Spec => []ComputesRight
<1>1. Inv => ComputesRight
  BY DEF Inv, ComputesRight
<1> QED
  BY <1>1, Invariant, PTL

-----------------------------------------------------------------------------
(* The divisions.                                                          *)

LEMMA DivMod ==
    ASSUME NEW a \in Nat, NEW b \in Nat \ {0}
    PROVE  a \div b \in Nat /\ a % b \in Nat /\ a % b < b /\ a = b * (a \div b) + (a % b)
OBVIOUS

\* A quotient is determined by what is left.
LEMMA QuotientUnique ==
    ASSUME NEW q \in Int, NEW b \in Nat \ {0}, NEW r \in Nat, r < b
    PROVE  (b * q + r) \div b = q /\ (b * q + r) % b = r
OBVIOUS

\* Multiples, as the remainder and as a product.
LEMMA MultipleIs ==
    ASSUME NEW n \in Int, NEW d \in Nat \ {0}
    PROVE  n % d = 0 <=> \E q \in Int : n = d * q
<1>1. n % d = 0 => n = d * (n \div d) /\ n \div d \in Int
  OBVIOUS
<1>2. ASSUME NEW q \in Int, n = d * q PROVE n % d = 0
  BY <1>2, QuotientUnique
<1> QED
  BY <1>1, <1>2

LEMMA SignAbs ==
    ASSUME NEW n \in Int
    PROVE  /\ Abs(n) \in Nat /\ Sign(n) \in {-1, 1} /\ n = Sign(n) * Abs(n)
           /\ n # 0 => Abs(n) \in Nat \ {0}
           /\ n = 0 => Abs(n) = 0
           /\ Abs(-n) = Abs(n) /\ Abs(Abs(n)) = Abs(n)
           /\ n \in Nat => Abs(n) = n
BY DEF Abs, Sign

\* Division towards zero, and its remainder.
LEMMA Truncates ==
    ASSUME NEW x \in Int, NEW y \in Int, y # 0
    PROVE  /\ BigDiv(x, y) \in Int /\ BigMod(x, y) \in Int
           /\ x = BigDiv(x, y) * y + BigMod(x, y)
           /\ Abs(BigMod(x, y)) < Abs(y)
           /\ BigMod(x, y) = 0 \/ Sign(BigMod(x, y)) = Sign(x)
           /\ Abs(BigMod(x, y)) = Abs(x) % Abs(y)
           /\ Abs(BigDiv(x, y)) = Abs(x) \div Abs(y)
<1> DEFINE a == Abs(x)
           b == Abs(y)
           q == a \div b
           r == a % b
           s == Sign(x)
           t == Sign(y)
<1>1. a \in Nat /\ b \in Nat \ {0} /\ s \in {-1, 1} /\ t \in {-1, 1} /\ x = s * a /\ y = t * b
  BY SignAbs
<1>2. q \in Nat /\ r \in Nat /\ r < b /\ a = b * q + r
  BY <1>1, DivMod
<1>3. (a = 0 => s = 1) /\ (a # 0 => (s = 1 <=> x > 0) /\ (s = -1 <=> x < 0))
  BY DEF Sign, Abs
<1>4. r # 0 => a # 0
  BY <1>1, <1>2
<1>5. BigDiv(x, y) = s * t * q /\ BigMod(x, y) = s * r
  BY DEF BigDiv, BigMod
<1> HIDE DEF a, b, q, r, s, t
<1> DEFINE bq == b * q
<1>6. bq \in Nat /\ (t * q) * (t * b) = bq
  <2>1. CASE t = 1
    BY <1>1, <1>2, <2>1
  <2>2. CASE t = -1
    <3>1. (-q) * (-b) = q * b
      BY <1>1, <1>2
    <3> QED
      BY <1>1, <1>2, <2>2, <3>1
  <2> QED
    BY <1>1, <2>1, <2>2
<1>7. s * t * q \in Int /\ s * r \in Int
  BY <1>1, <1>2
<1>8. s * t * q * y = s * bq
  <2>1. CASE s = 1
    BY <1>1, <1>2, <1>6, <2>1
  <2>2. CASE s = -1
    <3>1. s * t * q = -(t * q) /\ t * q \in Int /\ t * b \in Int
      BY <1>1, <1>2, <2>2
    <3>2. (-(t * q)) * (t * b) = -((t * q) * (t * b))
      BY <3>1
    <3> QED
      BY <1>1, <1>6, <2>2, <3>1, <3>2
  <2> QED
    BY <1>1, <2>1, <2>2
<1>9. x = s * bq + s * r
  BY <1>1, <1>2, <1>6 DEF bq
<1>10. Abs(s * r) = r /\ Abs(s * t * q) = q
  BY <1>1, <1>2 DEF Abs
<1>11. s * r = 0 \/ Sign(s * r) = s
  BY <1>1, <1>2 DEF Sign
<1> QED
  BY <1>1, <1>2, <1>5, <1>7, <1>8, <1>9, <1>10, <1>11 DEF a, b, q, r, s

\* The remainder with the sign of the divisor, as modulo answers it.
LEMMA ModuloIs ==
    ASSUME NEW x \in Int, NEW y \in Int, y # 0
    PROVE  /\ modulo(x, y).n \in Int /\ modulo(x, y) = make_int(modulo(x, y).n)
           /\ \E k \in Int : x = y * k + modulo(x, y).n
           /\ Abs(modulo(x, y).n) < Abs(y)
           /\ modulo(x, y).n = 0 \/ Sign(modulo(x, y).n) = Sign(y)
<1> DEFINE r == BigMod(x, y)
           q == BigDiv(x, y)
           m == IF (r < 0 /\ y > 0) \/ (r > 0 /\ y < 0) THEN r + y ELSE r
<1>1. /\ q \in Int /\ r \in Int /\ x = q * y + r /\ Abs(r) < Abs(y)
  BY Truncates
<1>2. modulo(x, y) = make_int(m)
  BY DEF modulo
<1> HIDE DEF r, q
<1>3. m \in Int /\ Abs(m) < Abs(y) /\ (m = 0 \/ Sign(m) = Sign(y))
  BY <1>1 DEF Abs, Sign
<1>4. \E k \in Int : x = y * k + m
  <2>1. CASE m = r
    <3>1. x = y * q + m
      BY <1>1, <2>1
    <3> QED
      BY <1>1, <3>1
  <2>2. CASE m = r + y
    <3>1. y * (q - 1) = y * q - y /\ q - 1 \in Int
      BY <1>1
    <3>2. x = y * (q - 1) + m
      BY <1>1, <2>2, <3>1
    <3> QED
      BY <3>1, <3>2
  <2> QED
    BY <2>1, <2>2
<1> HIDE DEF m
<1>5. modulo(x, y).n = m
  BY <1>2, <1>3, MakeInt
<1> QED
  BY <1>2, <1>3, <1>4, <1>5

LEMMA DivisionIsRight ==
    ASSUME NEW x \in Int, NEW y \in Int, y # 0
    PROVE  LET q == quotient(x, y) r == remainder(x, y) m == modulo(x, y) IN
           /\ x = q.n * y + r.n
           /\ Abs(r.n) < Abs(y) /\ (r.n = 0 \/ Sign(r.n) = Sign(x))
           /\ Abs(m.n) < Abs(y) /\ (m.n = 0 \/ Sign(m.n) = Sign(y))
           /\ (x - m.n) % Abs(y) = 0
           /\ Canonical(q) /\ Canonical(r) /\ Canonical(m)
<1> DEFINE q == quotient(x, y)
           r == remainder(x, y)
           m == modulo(x, y)
<1>1. q.n = BigDiv(x, y) /\ r.n = BigMod(x, y) /\ Canonical(q) /\ Canonical(r)
  BY Truncates, MakeInt DEF quotient, remainder
<1>2. x = q.n * y + r.n /\ Abs(r.n) < Abs(y) /\ (r.n = 0 \/ Sign(r.n) = Sign(x))
  BY <1>1, Truncates
<1>3. m.n \in Int /\ Canonical(m) /\ Abs(m.n) < Abs(y) /\ (m.n = 0 \/ Sign(m.n) = Sign(y))
  BY ModuloIs, MakeInt
<1>4. (x - m.n) % Abs(y) = 0
  <2> DEFINE n == m.n
             b == Abs(y)
  <2>1. PICK k \in Int : x = y * k + n
    BY ModuloIs
  <2>2. n \in Int /\ b \in Nat \ {0} /\ (y = b \/ y = -b)
    BY <1>3, SignAbs DEF Abs
  <2> HIDE DEF n, b
  <2>3. x - n = b * k \/ x - n = b * (-k)
    <3>1. CASE y = b
      BY <2>1, <2>2, <3>1
    <3>2. CASE y = -b
      <4>1. (-b) * k = b * (-k)
        BY <2>2
      <4> QED
        BY <2>1, <2>2, <3>2, <4>1
    <3> QED
      BY <2>2, <3>1, <3>2
  <2>4. (x - n) % b = 0
    <3>1. x - n \in Int /\ -k \in Int
      BY <2>2
    <3>2. \E j \in Int : x - n = b * j
      BY <2>3, <3>1
    <3> QED
      BY <2>2, <3>1, <3>2, MultipleIs
  <2> QED
    BY <2>4 DEF n, b
<1> QED
  BY <1>1, <1>2, <1>3, <1>4

-----------------------------------------------------------------------------
(* gcd and lcm.                                                            *)

DivisorOf(d, n) == \E q \in Nat : n = d * q

\* The common divisors that all common divisors divide.
Greatest(a, b) ==
    {g \in Nat : \A d \in Nat : DivisorOf(d, g) <=> DivisorOf(d, a) /\ DivisorOf(d, b)}

LEMMA DivisorSum ==
    ASSUME NEW d \in Nat, NEW b \in Nat, NEW q \in Nat, NEW r \in Nat, DivisorOf(d, b)
    PROVE  DivisorOf(d, b * q + r) <=> DivisorOf(d, r)
<1>1. PICK k \in Nat : b = d * k
  BY DEF DivisorOf
<1>2. k * q \in Nat /\ b * q = d * (k * q)
  BY <1>1
<1> DEFINE e == k * q
<1>3. ASSUME NEW j \in Nat, r = d * j PROVE DivisorOf(d, b * q + r)
  <2>1. d * (e + j) = d * e + d * j /\ e + j \in Nat
    BY <1>2
  <2> QED
    BY <1>2, <1>3, <2>1 DEF DivisorOf
<1>4. ASSUME NEW j \in Nat, b * q + r = d * j PROVE DivisorOf(d, r)
  <2> HIDE DEF e
  <2>0. e \in Nat /\ d * e + r = d * j
    BY <1>2, <1>4 DEF e
  <2>1. CASE e <= j
    <3>1. j - e \in Nat /\ d * (j - e) = d * j - d * e
      BY <2>0, <2>1
    <3>2. d * e \in Nat /\ d * j \in Nat
      BY <2>0
    <3>3. r = d * (j - e)
      BY <2>0, <3>1, <3>2
    <3> QED
      BY <3>1, <3>3 DEF DivisorOf
  <2>2. CASE j < e
    <3>1. e - j \in Nat /\ d * (e - j) = d * e - d * j
      BY <2>0, <2>2
    <3>2. d * e \in Nat /\ d * j \in Nat /\ d * (e - j) \in Nat
      BY <2>0, <3>1
    <3>3. r = 0
      BY <2>0, <3>1, <3>2
    <3>4. r = d * 0
      BY <3>3
    <3> QED
      BY <3>4 DEF DivisorOf
  <2> QED
    BY <2>0, <2>1, <2>2
<1> QED
  BY <1>3, <1>4 DEF DivisorOf

LEMMA DivisorFacts ==
    ASSUME NEW n \in Nat
    PROVE  /\ DivisorOf(n, n) /\ DivisorOf(n, 0) /\ DivisorOf(1, n)
           /\ \A d \in Nat : DivisorOf(d, n) /\ n # 0 => d # 0 /\ d <= n
           /\ \A d \in Nat : DivisorOf(d, n) /\ DivisorOf(n, d) => d = n
<1>1. n = n * 1 /\ 0 = n * 0 /\ n = 1 * n
  OBVIOUS
<1>2. DivisorOf(n, n) /\ DivisorOf(n, 0) /\ DivisorOf(1, n)
  BY <1>1 DEF DivisorOf
<1>3. ASSUME NEW d \in Nat, NEW m \in Nat, DivisorOf(d, m), m # 0 PROVE d # 0 /\ d <= m
  <2>1. PICK q \in Nat : m = d * q
    BY <1>3 DEF DivisorOf
  <2>2. q # 0 /\ d # 0
    BY <1>3, <2>1
  <2>3. q - 1 \in Nat /\ d * q = d + d * (q - 1) /\ d * (q - 1) \in Nat
    BY <2>2
  <2> QED
    BY <2>1, <2>2, <2>3
<1>4. ASSUME NEW d \in Nat, DivisorOf(d, n), DivisorOf(n, d) PROVE d = n
  <2>1. n = 0 => d = 0
    BY <1>4 DEF DivisorOf
  <2>2. d = 0 => n = 0
    BY <1>4 DEF DivisorOf
  <2>3. n # 0 /\ d # 0 => d <= n /\ n <= d
    BY <1>3, <1>4
  <2> QED
    BY <2>1, <2>2, <2>3
<1> QED
  BY <1>2, <1>3, <1>4

\* Naturals go through modulo as through %.
LEMMA ModuloOfNat ==
    ASSUME NEW a \in Nat, NEW b \in Nat \ {0}
    PROVE  /\ modulo(a, b).n = a % b /\ quotient(a, b).n = a \div b
           /\ a \div b \in Nat /\ a % b \in Nat /\ a % b < b
           /\ a = b * (a \div b) + (a % b)
<1> DEFINE q == a \div b
           r == a % b
<1>1. q \in Nat /\ r \in Nat /\ r < b /\ a = b * q + r
  BY DivMod
<1>2. BigDiv(a, b) = q /\ BigMod(a, b) = r
  <2> HIDE DEF q, r
  <2>1. Sign(a) = 1 /\ Sign(b) = 1 /\ Abs(a) = a /\ Abs(b) = b
    BY DEF Sign, Abs
  <2>2. BigDiv(a, b) = 1 * 1 * q /\ BigMod(a, b) = 1 * r
    BY <2>1 DEF BigDiv, BigMod, q, r
  <2> QED
    BY <1>1, <2>2
<1> HIDE DEF q, r
<1>3. modulo(a, b) = make_int(r) /\ quotient(a, b) = make_int(q)
  BY <1>1, <1>2 DEF modulo, quotient
<1>4. modulo(a, b).n = r /\ quotient(a, b).n = q
  BY <1>1, <1>3, MakeInt
<1> QED
  BY <1>1, <1>4 DEF q, r

LEMMA GreatestStep ==
    ASSUME NEW a \in Nat, NEW b \in Nat \ {0}
    PROVE  Greatest(a, b) = Greatest(b, a % b)
<1> DEFINE q == a \div b
           r == a % b
<1>1. q \in Nat /\ r \in Nat /\ a = b * q + r
  BY ModuloOfNat
<1> HIDE DEF q, r
<1>2. ASSUME NEW d \in Nat
      PROVE  (DivisorOf(d, a) /\ DivisorOf(d, b)) <=> (DivisorOf(d, b) /\ DivisorOf(d, r))
  BY <1>1, DivisorSum
<1>3. Greatest(a, b) = Greatest(b, r)
  BY <1>2 DEF Greatest
<1> QED
  BY <1>3 DEF r

LEMMA GreatestOfZero ==
    ASSUME NEW a \in Nat
    PROVE  Greatest(a, 0) = {a}
<1>1. \A d \in Nat : DivisorOf(d, 0)
  BY DivisorFacts
<1>2. a \in Greatest(a, 0)
  BY <1>1 DEF Greatest
<1>3. ASSUME NEW g \in Greatest(a, 0) PROVE g = a
  <2>1. g \in Nat /\ DivisorOf(g, a) /\ DivisorOf(a, g)
    BY <1>1, DivisorFacts DEF Greatest
  <2> QED
    BY <2>1, DivisorFacts
<1> QED
  BY <1>2, <1>3

\* The recursion of gcd2 has a solution, and so gcd2 is one.
LEMMA Gcd2Is ==
    \A a, b \in Nat : gcd2[a][b] = IF b = 0 THEN a ELSE gcd2[b][modulo(a, b).n]
<1> DEFINE G(a, b) == CHOOSE g : g \in Greatest(a, b)
           f == [a \in Nat |-> [b \in Nat |-> G(a, b)]]
<1>1. ASSUME NEW a \in Nat, NEW b \in Nat
      PROVE  G(a, b) = IF b = 0 THEN a ELSE f[b][modulo(a, b).n]
  <2>1. CASE b = 0
    BY <2>1, GreatestOfZero
  <2>2. CASE b # 0
    <3>1. modulo(a, b).n = a % b /\ a % b \in Nat
      BY <2>2, ModuloOfNat
    <3>2. G(a, b) = G(b, a % b)
      BY <2>2, GreatestStep
    <3>3. ASSUME NEW r \in Nat PROVE f[b][r] = G(b, r)
      <4> HIDE DEF G
      <4> QED
        OBVIOUS
    <3> HIDE DEF f, G
    <3> QED
      BY <2>2, <3>1, <3>2, <3>3
  <2> QED
    BY <2>1, <2>2
<1> DEFINE Body(g) == [a \in Nat |-> [b \in Nat |-> IF b = 0 THEN a ELSE g[b][modulo(a, b).n]]]
<1>2. f = Body(f)
  <2> HIDE DEF G
  <2>1. ASSUME NEW a \in Nat PROVE [b \in Nat |-> G(a, b)] = [b \in Nat |-> IF b = 0 THEN a ELSE f[b][modulo(a, b).n]]
    BY <1>1
  <2> HIDE DEF f
  <2>2. f = [a \in Nat |-> [b \in Nat |-> G(a, b)]]
    BY DEF f
  <2> QED
    BY <2>1, <2>2
<1>3. ASSUME NEW g, NEW h, g = Body(h)
      PROVE  \A a, b \in Nat : g[a][b] = IF b = 0 THEN a ELSE h[b][modulo(a, b).n]
  BY <1>3
<1>4. gcd2 = CHOOSE g : g = Body(g)
  BY DEF gcd2
<1> HIDE DEF f, Body
<1>5. gcd2 = Body(gcd2)
  BY <1>2, <1>4
<1> QED
  BY <1>3, <1>5

\* gcd2 answers a greatest common divisor, which so exists.
LEMMA Gcd2IsGreatest == \A a, b \in Nat : gcd2[a][b] \in Greatest(a, b)
<1> DEFINE T == {b \in Nat : \E a \in Nat : gcd2[a][b] \notin Greatest(a, b)}
<1> SUFFICES ASSUME T # {} PROVE FALSE
  OBVIOUS
<1>1. PICK b \in T : \A c \in T : b <= c
  BY LeastNumber
<1>2. PICK a \in Nat : gcd2[a][b] \notin Greatest(a, b)
  OBVIOUS
<1>3. CASE b = 0
  BY <1>2, <1>3, Gcd2Is, GreatestOfZero
<1>4. CASE b # 0
  <2> DEFINE r == a % b
  <2>1. r \in Nat /\ r < b /\ modulo(a, b).n = r
    BY <1>4, ModuloOfNat
  <2>2. Greatest(a, b) = Greatest(b, r)
    BY <1>4, GreatestStep
  <2> HIDE DEF r
  <2>3. r \notin T
    BY <1>1, <2>1
  <2>4. gcd2[a][b] = gcd2[b][r]
    BY <1>4, <2>1, Gcd2Is
  <2> QED
    BY <1>2, <2>1, <2>2, <2>3, <2>4
<1> QED
  BY <1>3, <1>4

LEMMA GreatestOfSame ==
    ASSUME NEW a \in Nat, NEW b \in Nat
    PROVE  Greatest(a, b) = Greatest(b, a)
BY DEF Greatest

LEMMA GcdIs ==
    ASSUME NEW a \in Int, NEW b \in Int
    PROVE  gcd(a, b) \in Greatest(Abs(a), Abs(b))
<1>1. Abs(a) \in Nat /\ Abs(b) \in Nat
  BY SignAbs
<1>2. gcd2[0][Abs(a)] = Abs(a)
  BY <1>1, Gcd2IsGreatest, GreatestOfSame, GreatestOfZero
<1> QED
  BY <1>1, <1>2, Gcd2IsGreatest DEF gcd

LEMMA DivisorIs ==
    ASSUME NEW n \in Int, NEW d \in Nat \ {0}
    PROVE  n % d = 0 <=> DivisorOf(d, Abs(n))
<1> DEFINE m == Abs(n)
<1>1. m \in Nat /\ (n = m \/ n = -m)
  BY DEF Abs
<1> HIDE DEF m
<1>2. ASSUME NEW q \in Nat, m = d * q PROVE \E k \in Int : n = d * k
  <2>1. -q \in Int /\ d * (-q) = -(d * q) /\ q \in Int
    OBVIOUS
  <2> QED
    BY <1>1, <1>2, <2>1
<1>3. ASSUME NEW k \in Int, n = d * k PROVE DivisorOf(d, m)
  <2>1. \E q \in Int : m = d * q
    <3>1. d * (-k) = -(d * k) /\ -k \in Int
      OBVIOUS
    <3> QED
      BY <1>1, <1>3, <3>1
  <2>2. PICK q \in Int : m = d * q
    BY <2>1
  <2>3. q \in Nat
    <3> SUFFICES ASSUME q < 0 PROVE FALSE
      OBVIOUS
    <3>1. -q - 1 \in Nat /\ d * (-q - 1) \in Nat /\ d * (-q - 1) = -(d * q) - d
      OBVIOUS
    <3> QED
      BY <1>1, <2>2, <3>1
  <2> QED
    BY <2>2, <2>3 DEF DivisorOf
<1>4. (\E k \in Int : n = d * k) <=> DivisorOf(d, m)
  BY <1>2, <1>3 DEF DivisorOf
<1> QED
  BY <1>4, MultipleIs DEF m

\* The greatest common divisor as DivisorsAndRoots has it.
LEMMA GcdIsRight ==
    ASSUME NEW a \in Int, NEW b \in Int
    PROVE  LET g == gcd(a, b)
               Both == {d \in 1..Abs(a) + Abs(b) : a % d = 0 /\ b % d = 0}
           IN IF a = 0 /\ b = 0 THEN g = 0 ELSE g \in Both /\ \A d \in Both : d <= g
<1> DEFINE g == gcd(a, b)
           x == Abs(a)
           y == Abs(b)
           Both == {d \in 1..x + y : a % d = 0 /\ b % d = 0}
<1>1. x \in Nat /\ y \in Nat /\ (x = 0 <=> a = 0) /\ (y = 0 <=> b = 0)
  BY SignAbs
<1>2. g \in Greatest(x, y)
  BY GcdIs
<1>3. \A d \in Nat \ {0} : (a % d = 0 <=> DivisorOf(d, x)) /\ (b % d = 0 <=> DivisorOf(d, y))
  BY DivisorIs
<1>4. Both = {d \in 1..x + y : DivisorOf(d, x) /\ DivisorOf(d, y)}
  <2>1. 1..x + y \subseteq Nat \ {0}
    BY <1>1
  <2> HIDE DEF x, y
  <2> QED
    BY <1>3, <2>1
<1> HIDE DEF g, x, y, Both
<1>5. g \in Nat /\ DivisorOf(g, x) /\ DivisorOf(g, y)
  BY <1>2, DivisorFacts DEF Greatest
<1>6. ASSUME a = 0 /\ b = 0 PROVE g = 0
  BY <1>1, <1>2, <1>6, GreatestOfZero
<1>7. ASSUME ~(a = 0 /\ b = 0) PROVE g \in Both /\ \A d \in Both : d <= g
  <2>1. g # 0 /\ g <= x + y
    <3>1. CASE x # 0
      <4>1. g # 0 /\ g <= x
        BY <1>1, <1>5, <3>1, DivisorFacts
      <4> QED
        BY <1>1, <1>5, <4>1
    <3>2. CASE y # 0
      <4>1. g # 0 /\ g <= y
        BY <1>1, <1>5, <3>2, DivisorFacts
      <4> QED
        BY <1>1, <1>5, <4>1
    <3> QED
      BY <1>1, <1>7, <3>1, <3>2
  <2>2. g \in 1..x + y
    BY <1>1, <1>5, <2>1
  <2>3. ASSUME NEW d \in Both PROVE d <= g
    <3>1. d \in Nat /\ DivisorOf(d, x) /\ DivisorOf(d, y)
      BY <1>1, <1>4
    <3>2. DivisorOf(d, g)
      BY <1>2, <3>1 DEF Greatest
    <3> QED
      BY <1>5, <2>1, <3>1, <3>2, DivisorFacts
  <2> QED
    BY <1>4, <1>5, <2>2, <2>3
<1>8. IF a = 0 /\ b = 0 THEN g = 0 ELSE g \in Both /\ \A d \in Both : d <= g
  BY <1>6, <1>7
<1> QED
  BY <1>8 DEF g, Both, x, y

\* lcm's divisions leave nothing.
LEMMA LcmIsRight ==
    ASSUME NEW a \in Int, NEW b \in Int
    PROVE  lcm(a, b) * gcd(a, b) = Abs(a) * Abs(b)
<1> DEFINE x == Abs(a)
           y == Abs(b)
           g == gcd(a, b)
<1>1. x \in Nat /\ y \in Nat /\ (x = 0 <=> a = 0) /\ (y = 0 <=> b = 0) /\ Abs(x) = x /\ Abs(1) = 1
  BY SignAbs
<1>2. g \in Nat /\ DivisorOf(g, x)
  BY <1>1, GcdIs, DivisorFacts DEF Greatest
<1>3. CASE a = 0 \/ b = 0
  <2>1. lcm(a, b) = 0 /\ (x = 0 \/ y = 0)
    BY <1>1, <1>3 DEF lcm
  <2> HIDE DEF x, y, g
  <2>2. 0 * g = 0 /\ x * y = 0
    BY <1>1, <1>2, <2>1
  <2> QED
    BY <2>1, <2>2 DEF x, y, g
<1>4. CASE ~(a = 0 \/ b = 0)
  <2>1. gcd(1, a) = 1
    <3>1. gcd(1, a) \in Greatest(1, x)
      BY <1>1, GcdIs
    <3>2. gcd(1, a) \in Nat /\ DivisorOf(gcd(1, a), 1)
      BY <1>1, <3>1, DivisorFacts DEF Greatest
    <3> QED
      BY <3>2, DivisorFacts
  <2>2. quotient(x, 1).n = x
    <3> HIDE DEF x
    <3>1. x \div 1 = x
      BY <1>1
    <3> QED
      BY <1>1, <3>1, ModuloOfNat
  <2>3. gcd(x, b) = g
    BY <1>1 DEF gcd
  <2>4. lcm(a, b) = quotient(x * y, g).n
    BY <1>4, <2>1, <2>2, <2>3 DEF lcm
  <2>5. g # 0
    BY <1>1, <1>2, <1>4, DivisorFacts
  <2>6. PICK k \in Nat : x = g * k
    BY <1>2 DEF DivisorOf
  <2> HIDE DEF x, y, g
  <2>7. x * y \in Nat /\ k * y \in Nat /\ x * y = g * (k * y)
    BY <1>1, <1>2, <2>6
  <2>8. (x * y) \div g = k * y
    <3> DEFINE p == k * y
    <3>1. p \in Nat /\ x * y = g * p + 0
      BY <1>2, <2>7
    <3> HIDE DEF p
    <3>2. (g * p + 0) \div g = p
      BY <1>2, <2>5, <3>1, QuotientUnique
    <3> QED
      BY <3>1, <3>2 DEF p
  <2>9. quotient(x * y, g).n = k * y
    BY <1>2, <2>5, <2>7, <2>8, ModuloOfNat
  <2>10. (k * y) * g = x * y
    BY <1>1, <1>2, <2>6
  <2> QED
    BY <2>4, <2>9, <2>10 DEF x, y, g
<1> QED
  BY <1>3, <1>4
-----------------------------------------------------------------------------
(* expt.                                                                   *)

LEMMA PowerIs ==
    /\ \A b \in Int, n \in Nat : Power[b][n] \in Int
    /\ \A b \in Int : Power[b][0] = 1
    /\ \A b \in Int, n \in Nat : Power[b][n + 1] = b * Power[b][n]
<1> DEFINE Powers(b, g) == g[0] = 1 /\ \A n \in Nat : g[n + 1] = b * g[n]
           f == [b \in Int |-> CHOOSE g \in [Nat -> Int] : Powers(b, g)]
           Body(h) == [b \in Int |-> [n \in Nat |-> IF n = 0 THEN 1 ELSE b * h[b][n - 1]]]
<1>1. ASSUME NEW b \in Int PROVE f[b] \in [Nat -> Int] /\ Powers(b, f[b])
  <2> DEFINE times == [v \in Int |-> b * v]
  <2>1. times \in [Int -> Int] /\ 1 \in Int
    OBVIOUS
  <2> HIDE DEF times
  <2> DEFINE Z   == Int
             one == 1
  <2> HIDE DEF Z, one
  <2>a. times \in [Z -> Z] /\ one \in Z
    BY <2>1 DEF Z, one
  <2>b. \E g \in [Nat -> Z] : g[0] = one /\ \A n \in Nat : g[n + 1] = times[g[n]]
    BY <2>a, Iteration
  <2>2. PICK g \in [Nat -> Int] : g[0] = 1 /\ \A n \in Nat : g[n + 1] = times[g[n]]
    BY <2>b DEF Z, one
  <2>3. Powers(b, g)
    BY <2>2 DEF times
  <2> HIDE DEF Powers
  <2> QED
    BY <2>3
<1>2. f = Body(f)
  <2>1. ASSUME NEW b \in Int PROVE f[b] = [n \in Nat |-> IF n = 0 THEN 1 ELSE b * f[b][n - 1]]
    <3> DEFINE g == f[b]
    <3>1. g \in [Nat -> Int] /\ Powers(b, g)
      BY <1>1
    <3> HIDE DEF g
    <3>2. ASSUME NEW n \in Nat PROVE g[n] = IF n = 0 THEN 1 ELSE b * g[n - 1]
      <4>1. n # 0 => n - 1 \in Nat /\ (n - 1) + 1 = n
        OBVIOUS
      <4> QED
        BY <3>1, <4>1
    <3>3. g = [n \in Nat |-> IF n = 0 THEN 1 ELSE b * g[n - 1]]
      BY <3>1, <3>2
    <3> QED
      BY <3>3 DEF g
  <2>2. f = [b \in Int |-> f[b]]
    OBVIOUS
  <2> HIDE DEF f
  <2> QED
    BY <2>1, <2>2
<1>3. ASSUME NEW g, NEW h, g = Body(h)
      PROVE  /\ \A b \in Int : g[b] \in [Nat -> {IF n = 0 THEN 1 ELSE b * h[b][n - 1] : n \in Nat}]
             /\ \A b \in Int, n \in Nat : g[b][n] = IF n = 0 THEN 1 ELSE b * h[b][n - 1]
  BY <1>3
<1>4. Power = CHOOSE h : h = Body(h)
  BY DEF Power
<1> HIDE DEF f, Body
<1>5. Power = Body(Power)
  BY <1>2, <1>4
<1>6. \A b \in Int, n \in Nat : Power[b][n] = IF n = 0 THEN 1 ELSE b * Power[b][n - 1]
  BY <1>3, <1>5
<1>7. ASSUME NEW b \in Int, NEW n \in Nat PROVE Power[b][n + 1] = b * Power[b][n]
  <2>1. n + 1 \in Nat /\ n + 1 # 0 /\ (n + 1) - 1 = n
    OBVIOUS
  <2> QED
    BY <1>6, <2>1
<1>8. ASSUME NEW b \in Int, NEW n \in Nat PROVE Power[b][n] \in Int
  <2> DEFINE T == {m \in Nat : Power[b][m] \notin Int}
  <2> SUFFICES ASSUME T # {} PROVE FALSE
    OBVIOUS
  <2>1. PICK m \in T : \A k \in T : m <= k
    BY LeastNumber
  <2>2. m # 0
    BY <1>6
  <2>3. m - 1 \in Nat /\ m - 1 \notin T
    BY <2>1, <2>2
  <2> QED
    BY <1>6, <2>2, <2>3
<1> QED
  BY <1>6, <1>7, <1>8

LEMMA PowerOfSquare ==
    ASSUME NEW b \in Int, NEW n \in Nat
    PROVE  b * b \in Int /\ Power[b * b][n] = Power[b][2 * n]
<1> DEFINE c == b * b
           T == {m \in Nat : Power[c][m] # Power[b][2 * m]}
<1>1. c \in Int
  OBVIOUS
<1> SUFFICES ASSUME T # {} PROVE FALSE
  BY <1>1
<1>2. PICK m \in T : \A k \in T : m <= k
  BY LeastNumber
<1>3. m # 0
  <2>1. 2 * 0 = 0
    OBVIOUS
  <2> QED
    BY <1>1, <2>1, PowerIs
<1> DEFINE k == m - 1
           p == Power[b][2 * k]
<1>4. k \in Nat /\ k \notin T /\ k + 1 = m /\ 2 * k \in Nat /\ (2 * k + 1) + 1 = 2 * m /\ 2 * k + 1 \in Nat
  BY <1>2, <1>3
<1> HIDE DEF k
<1>5. p \in Int /\ Power[c][k] = p
  BY <1>4, PowerIs
<1> HIDE DEF c, p
<1>6. Power[c][m] = c * p
  <2>1. Power[c][k + 1] = c * Power[c][k]
    BY <1>1, <1>4, PowerIs
  <2> QED
    BY <1>4, <1>5, <2>1
<1>7. Power[b][2 * m] = b * (b * p)
  <2>1. Power[b][2 * k + 1] = b * p
    BY <1>4, PowerIs DEF p
  <2>2. Power[b][(2 * k + 1) + 1] = b * Power[b][2 * k + 1]
    BY ONLY <1>4, PowerIs, b \in Int
  <2> QED
    BY <1>4, <2>1, <2>2
<1>8. c * p = b * (b * p)
  <2>1. p \in Int /\ c = b * b
    BY <1>5 DEF c
  <2> QED
    BY ONLY <2>1, b \in Int
<1> QED
  BY <1>2, <1>6, <1>7, <1>8

Scaled(r, b, n) == IF modulo(n, 2).n = 1 THEN r * b ELSE r
Halved(n)       == quotient(n, 2).n

\* A step of expt: half the exponent, of the square.
LEMMA PowerStep ==
    ASSUME NEW r \in Int, NEW b \in Int, NEW n \in Nat \ {0}
    PROVE  /\ Scaled(r, b, n) \in Int /\ b * b \in Int /\ Halved(n) \in Nat /\ Halved(n) < n
           /\ Scaled(r, b, n) * Power[b * b][Halved(n)] = r * Power[b][n]
<1> DEFINE k == n \div 2
           m == n % 2
           p == Power[b][2 * k]
<1>0. /\ modulo(n, 2).n = m /\ quotient(n, 2).n = k
      /\ k \in Nat /\ m \in Nat /\ m < 2 /\ n = 2 * k + m
  <2>1. n \in Nat /\ 2 \in Nat \ {0}
    OBVIOUS
  <2> QED
    BY <2>1, ModuloOfNat
<1> HIDE DEF k, m
<1>1. /\ Scaled(r, b, n) = (IF m = 1 THEN r * b ELSE r) /\ Halved(n) = k
      /\ k \in Nat /\ m \in {0, 1} /\ n = 2 * k + m
  BY <1>0 DEF Scaled, Halved
<1>2. k < n /\ 2 * k \in Nat
  BY <1>1
<1>3. p \in Int /\ b * b \in Int /\ Power[b * b][k] = p
  BY <1>1, <1>2, PowerIs, PowerOfSquare
<1>4. CASE m = 0
  <2>1. Power[b][n] = p
    BY <1>1, <1>4
  <2> QED
    BY <1>1, <1>2, <1>3, <1>4, <2>1
<1>5. CASE m = 1
  <2>1. Power[b][n] = b * p
    BY <1>1, <1>2, <1>5, PowerIs
  <2> HIDE DEF p
  <2>2. (r * b) * p = r * (b * p)
    BY <1>3
  <2> QED
    BY <1>1, <1>2, <1>3, <1>5, <2>1, <2>2
<1> QED
  BY <1>1, <1>4, <1>5

LEMMA ExptGoIs ==
    \A r, b \in Int, n \in Nat :
        expt_go[r][b][n] =
            IF n = 0 THEN r ELSE expt_go[Scaled(r, b, n)][b * b][Halved(n)]
<1> DEFINE E(r, b, n) == r * Power[b][n]
           f == [r \in Int |-> [b \in Int |-> [n \in Nat |-> E(r, b, n)]]]
           Body(h) == [r \in Int |-> [b \in Int |-> [n \in Nat |->
                          IF n = 0 THEN r ELSE h[Scaled(r, b, n)][b * b][Halved(n)]]]]
<1>1. ASSUME NEW r \in Int, NEW b \in Int, NEW n \in Nat
      PROVE  E(r, b, n) = IF n = 0 THEN r ELSE f[Scaled(r, b, n)][b * b][Halved(n)]
  <2>1. CASE n = 0
    <3>1. r * 1 = r
      OBVIOUS
    <3> QED
      BY <2>1, <3>1, PowerIs
  <2>2. CASE n # 0
    <3> DEFINE s == Scaled(r, b, n)
               c == b * b
               k == Halved(n)
    <3>1. s \in Int /\ c \in Int /\ k \in Nat /\ E(s, c, k) = E(r, b, n)
      BY <2>2, PowerStep
    <3>2. ASSUME NEW t \in Int, NEW d \in Int, NEW j \in Nat PROVE f[t][d][j] = E(t, d, j)
      <4> HIDE DEF E
      <4> QED
        OBVIOUS
    <3> HIDE DEF s, c, k, E, f
    <3>3. f[s][c][k] = E(r, b, n)
      BY <3>1, <3>2
    <3> QED
      BY <2>2, <3>3 DEF s, c, k
  <2> QED
    BY <2>1, <2>2
<1>2. f = Body(f)
  <2> HIDE DEF E
  <2>1. ASSUME NEW r \in Int, NEW b \in Int
        PROVE [n \in Nat |-> E(r, b, n)] = [n \in Nat |-> IF n = 0 THEN r ELSE f[Scaled(r, b, n)][b * b][Halved(n)]]
    <3> HIDE DEF f
    <3> QED
      BY <1>1
  <2>2. f = [r \in Int |-> [b \in Int |-> [n \in Nat |-> E(r, b, n)]]]
    OBVIOUS
  <2> HIDE DEF f
  <2> QED
    BY <2>1, <2>2
<1>3. ASSUME NEW g, NEW h, g = Body(h)
      PROVE  \A r, b \in Int, n \in Nat :
                g[r][b][n] = IF n = 0 THEN r ELSE h[Scaled(r, b, n)][b * b][Halved(n)]
  BY <1>3
<1>4. expt_go = CHOOSE h : h = Body(h)
  BY DEF expt_go, Scaled, Halved
<1> HIDE DEF f, Body
<1>5. expt_go = Body(expt_go)
  BY <1>2, <1>4
<1> QED
  BY <1>3, <1>5

\* expt by squaring is repeated multiplication.
LEMMA ExptIsRight ==
    ASSUME NEW b \in Int, NEW n \in Nat
    PROVE  expt(b, n) = Power[b][n]
<1> DEFINE T == {k \in Nat : \E r, c \in Int : expt_go[r][c][k] # r * Power[c][k]}
<1>1. T = {}
  <2> SUFFICES ASSUME T # {} PROVE FALSE
    OBVIOUS
  <2>1. PICK m \in T : \A k \in T : m <= k
    BY LeastNumber
  <2>2. PICK r \in Int, c \in Int : expt_go[r][c][m] # r * Power[c][m]
    OBVIOUS
  <2>3. CASE m = 0
    <3>1. r * 1 = r
      OBVIOUS
    <3> QED
      BY <2>2, <2>3, <3>1, ExptGoIs, PowerIs
  <2>4. CASE m # 0
    <3> DEFINE s == Scaled(r, c, m)
               k == Halved(m)
               d == c * c
    <3>0. m \in Nat \ {0}
      BY <2>1, <2>4
    <3>1. s \in Int /\ d \in Int /\ k \in Nat /\ k < m /\ s * Power[d][k] = r * Power[c][m]
      BY <3>0, PowerStep
    <3>2. expt_go[r][c][m] = expt_go[s][d][k]
      BY <2>4, ExptGoIs
    <3> HIDE DEF s, k, d
    <3>3. k \notin T
      BY <2>1, <3>1
    <3>4. expt_go[s][d][k] = s * Power[d][k]
      BY <3>1, <3>3
    <3> QED
      BY <2>2, <3>1, <3>2, <3>4
  <2> QED
    BY <2>3, <2>4
<1>2. expt_go[1][b][n] = 1 * Power[b][n] /\ Power[b][n] \in Int
  BY <1>1, PowerIs
<1> QED
  BY <1>2 DEF expt
-----------------------------------------------------------------------------
(* The square root.                                                        *)

\* A step of the iteration, and the roots in integers.
Better(x, g) == quotient(g + quotient(x, g).n, 2).n

Roots(x) == {r \in Nat : r * r <= x /\ x < (r + 1) * (r + 1)}

LEMMA SquaresGrow ==
    ASSUME NEW a \in Nat, NEW b \in Nat, a <= b
    PROVE  a * a <= b * b
<1> DEFINE d == b - a
<1>1. d \in Nat /\ b = a + d
  OBVIOUS
<1> HIDE DEF d
<1>2. (a + d) * (a + d) = a * a + (2 * (a * d) + d * d) /\ a * d \in Nat /\ d * d \in Nat /\ a * a \in Nat
  BY <1>1
<1> QED
  BY <1>1, <1>2

LEMMA OneRoot ==
    ASSUME NEW x \in Nat, NEW r \in Roots(x)
    PROVE  Roots(x) = {r}
<1>1. ASSUME NEW p \in Roots(x), NEW q \in Roots(x) PROVE ~(p < q)
  <2> SUFFICES ASSUME p < q PROVE FALSE
    OBVIOUS
  <2>1. p \in Nat /\ q \in Nat /\ q * q <= x /\ x < (p + 1) * (p + 1)
    BY DEF Roots
  <2>2. (p + 1) * (p + 1) <= q * q
    BY <2>1, SquaresGrow
  <2> DEFINE a == q * q
             b == (p + 1) * (p + 1)
  <2>3. a \in Nat /\ b \in Nat
    BY <2>1
  <2>4. a <= x /\ x < b /\ b <= a
    BY <2>1, <2>2
  <2> HIDE DEF a, b
  <2> QED
    BY <2>3, <2>4
<1>2. ASSUME NEW p \in Roots(x) PROVE p = r
  <2>1. ~(p < r) /\ ~(r < p)
    BY <1>1
  <2> QED
    BY <2>1 DEF Roots
<1> QED
  BY <1>2

\* From above the root the next step is nearer, and never below it.
LEMMA BetterIs ==
    ASSUME NEW x \in Nat \ {0}, NEW g \in Nat \ {0}
    PROVE  /\ Better(x, g) \in Nat
           /\ Better(x, g) < g <=> x < g * g
           /\ Better(x, g) < g => Better(x, g) # 0
           /\ x < (Better(x, g) + 1) * (Better(x, g) + 1)
<1> DEFINE q == x \div g
           r == x % g
           s == g + q
           h == s \div 2
           m == s % 2
<1>1. quotient(x, g).n = q /\ q \in Nat /\ r \in Nat /\ r < g /\ x = g * q + r
  BY ModuloOfNat
<1>2. s \in Nat
  BY <1>1
<1> HIDE DEF q, r, s
<1>3. quotient(s, 2).n = h /\ h \in Nat /\ m \in Nat /\ m < 2 /\ s = 2 * h + m
  <2>1. 2 \in Nat \ {0}
    OBVIOUS
  <2> QED
    BY <1>2, <2>1, ModuloOfNat
<1>4. Better(x, g) = h
  BY <1>1, <1>3 DEF Better, s
<1> HIDE DEF h, m
<1>5. h < g <=> q < g
  BY <1>1, <1>3 DEF s
<1>6. q < g <=> x < g * g
  <2>1. ASSUME q < g PROVE x < g * g
    <3> DEFINE d == (g - 1) - q
    <3>1. d \in Nat /\ g = (q + 1) + d
      BY <1>1, <2>1
    <3> HIDE DEF d
    <3>2. g * g = g * ((q + 1) + d)
      BY <3>1
    <3>3. g * ((q + 1) + d) = (g * q + g) + g * d /\ g * d \in Nat /\ g * q \in Nat
      BY <1>1, <3>1
    <3> HIDE <3>1
    <3> QED
      BY <1>1, <3>2, <3>3
  <2>2. ASSUME g <= q PROVE g * g <= x
    <3> DEFINE d == q - g
    <3>1. d \in Nat /\ q = g + d
      BY <1>1, <2>2
    <3> HIDE DEF d
    <3>2. g * q = g * (g + d)
      BY <3>1
    <3>3. g * (g + d) = g * g + g * d /\ g * d \in Nat /\ g * g \in Nat
      BY <3>1
    <3> QED
      BY <1>1, <3>2, <3>3
  <2>3. g * g \in Nat
    OBVIOUS
  <2> QED
    BY <1>1, <2>1, <2>2, <2>3
<1>7. h < g => h # 0
  <2> SUFFICES ASSUME h = 0 PROVE FALSE
    OBVIOUS
  <2>1. g = 1 /\ q = 0
    BY <1>1, <1>3 DEF s
  <2>2. g * q = 0
    BY <2>1
  <2> QED
    BY <1>1, <2>1, <2>2
<1>8. x < (h + 1) * (h + 1)
  <2> DEFINE t == q + 1
             k == h + 1
  <2>1. t \in Nat /\ k \in Nat /\ g + t <= 2 * k
    BY <1>1, <1>3 DEF s
  <2>2. x < g * t
    <3>1. g * (q + 1) = g * q + g /\ g * q \in Nat
      BY <1>1
    <3> QED
      BY <1>1, <3>1
  <2> HIDE DEF t, k
  <2>3. (g + t) * (g + t) <= (2 * k) * (2 * k)
    BY <2>1, SquaresGrow
  <2>4. (2 * k) * (2 * k) = 4 * (k * k) /\ k * k \in Nat
    BY <2>1
  <2>5. (g + t) * (g + t) = 4 * (g * t) + (g - t) * (g - t) /\ g * t \in Nat
    BY <2>1
  <2>6. (g - t) * (g - t) \in Nat
    <3> DEFINE d == g - t
    <3>1. d \in Int
      BY <2>1
    <3> HIDE DEF d
    <3>2. d * d \in Int /\ d * d >= 0
      BY <3>1
    <3> QED
      BY <3>2 DEF d
  <2> DEFINE gt == g * t
             kk == k * k
             dd == (g - t) * (g - t)
             ss == (g + t) * (g + t)
  <2>7. /\ x < gt /\ ss <= 4 * kk /\ ss = 4 * gt + dd
        /\ gt \in Nat /\ kk \in Nat /\ dd \in Nat
    BY <2>2, <2>3, <2>4, <2>5, <2>6
  <2> HIDE DEF gt, kk, dd, ss
  <2>8. x < kk
    BY <2>7
  <2> QED
    BY <2>8 DEF kk, k
<1> QED
  BY <1>3, <1>4, <1>5, <1>6, <1>7, <1>8

LEMMA IsqrtGoIs ==
    \A x, g \in Nat \ {0} :
        isqrt_go[x][g] = IF Better(x, g) < g THEN isqrt_go[x][Better(x, g)] ELSE g
<1> DEFINE P == Nat \ {0}
           R(x, g) == IF x < g * g THEN CHOOSE r : r \in Roots(x) ELSE g
           f == [x \in P |-> [g \in P |-> R(x, g)]]
           Body(h) == [x \in P |-> [g \in P |-> IF Better(x, g) < g THEN h[x][Better(x, g)] ELSE g]]
<1>1. ASSUME NEW x \in P, NEW g \in P
      PROVE  R(x, g) = IF Better(x, g) < g THEN f[x][Better(x, g)] ELSE g
  <2> DEFINE b == Better(x, g)
  <2>1. b \in Nat /\ (b < g <=> x < g * g) /\ (b < g => b # 0) /\ x < (b + 1) * (b + 1)
    BY BetterIs
  <2>2. ASSUME NEW c \in P PROVE f[x][c] = R(x, c)
    <3> HIDE DEF R
    <3> QED
      OBVIOUS
  <2> HIDE DEF b, f
  <2>3. CASE b < g
    <3>1. b \in P /\ f[x][b] = R(x, b) /\ x < g * g
      BY <2>1, <2>2, <2>3
    <3>2. CASE x < b * b
      BY <2>3, <3>1, <3>2 DEF b
    <3>3. CASE ~(x < b * b)
      <4> DEFINE bb == b * b
      <4>0. bb \in Int /\ ~(x < bb)
        BY <2>1, <3>3
      <4> HIDE DEF bb
      <4>1. bb <= x
        BY <4>0
      <4>2. b \in Roots(x)
        BY <2>1, <4>1 DEF Roots, bb
      <4>3. Roots(x) = {b}
        BY <4>2, OneRoot
      <4> QED
        BY <2>3, <3>1, <3>3, <4>3 DEF b
    <3> QED
      BY <3>2, <3>3
  <2>4. CASE ~(b < g)
    BY <2>1, <2>4 DEF b
  <2> QED
    BY <2>3, <2>4
<1>2. f = Body(f)
  <2> HIDE DEF R
  <2>1. ASSUME NEW x \in P
        PROVE [g \in P |-> R(x, g)] = [g \in P |-> IF Better(x, g) < g THEN f[x][Better(x, g)] ELSE g]
    <3> HIDE DEF f, P
    <3> QED
      BY <1>1
  <2>2. f = [x \in P |-> [g \in P |-> R(x, g)]]
    OBVIOUS
  <2> HIDE DEF f, P
  <2> QED
    BY <2>1, <2>2
<1>3. ASSUME NEW g, NEW h, g = Body(h)
      PROVE  \A x, c \in P : g[x][c] = IF Better(x, c) < c THEN h[x][Better(x, c)] ELSE c
  BY <1>3
<1>4. isqrt_go = CHOOSE h : h = Body(h)
  BY DEF isqrt_go, Better
<1> HIDE DEF f, Body
<1>5. isqrt_go = Body(isqrt_go)
  BY <1>2, <1>4
<1> QED
  BY <1>3, <1>5

\* Newton's method, begun above the root, ends at it.
LEMMA IsqrtGoIsRight ==
    ASSUME NEW x \in Nat \ {0}, NEW g \in Nat \ {0}, x < (g + 1) * (g + 1)
    PROVE  isqrt_go[x][g] \in Roots(x)
<1> DEFINE T == {c \in Nat : c # 0 /\ x < (c + 1) * (c + 1) /\ isqrt_go[x][c] \notin Roots(x)}
<1> SUFFICES ASSUME T # {} PROVE FALSE
  OBVIOUS
<1>1. PICK c \in T : \A d \in T : c <= d
  BY LeastNumber
<1> DEFINE b == Better(x, c)
<1>2. /\ b \in Nat /\ (b < c <=> x < c * c) /\ (b < c => b # 0) /\ x < (b + 1) * (b + 1)
      /\ isqrt_go[x][c] = IF b < c THEN isqrt_go[x][b] ELSE c
  BY BetterIs, IsqrtGoIs
<1> HIDE DEF b
<1>3. CASE b < c
  <2>1. b \notin T
    BY <1>1, <1>2, <1>3
  <2> QED
    BY <1>2, <1>3, <2>1
<1>4. CASE ~(b < c)
  <2> DEFINE cc == c * c
  <2>1. cc \in Int /\ ~(x < cc)
    BY <1>2, <1>4
  <2> HIDE DEF cc
  <2>2. cc <= x
    BY <2>1
  <2>3. c \in Roots(x)
    BY <2>2 DEF Roots, cc
  <2> QED
    BY <1>2, <1>4, <2>3
<1> QED
  BY <1>3, <1>4

LEMMA IsqrtIsRight ==
    ASSUME NEW x \in Nat
    PROVE  LET r == isqrt(x) IN r * r <= x /\ x < (r + 1) * (r + 1)
<1>1. isqrt(x) \in Roots(x)
  <2>1. CASE x < 2
    <3>1. x = 0 \/ x = 1
      BY <2>1
    <3>2. 0 \in Roots(0) /\ 1 \in Roots(1)
      BY DEF Roots
    <3> QED
      BY <2>1, <3>1, <3>2 DEF isqrt
  <2>2. CASE ~(x < 2)
    <3> DEFINE y == x + 1
               g == y \div 2
               m == y % 2
    <3>1. y \in Nat /\ 2 \in Nat \ {0}
      OBVIOUS
    <3>2. quotient(y, 2).n = g /\ g \in Nat /\ m \in Nat /\ m < 2 /\ y = 2 * g + m
      BY <3>1, ModuloOfNat
    <3>3. isqrt(x) = isqrt_go[x][g]
      BY <2>2, <3>2 DEF isqrt
    <3> HIDE DEF g, m
    <3>4. g # 0 /\ x <= 2 * g
      BY <2>2, <3>2
    <3>5. (g + 1) * (g + 1) = g * g + (2 * g + 1) /\ g * g \in Nat
      BY <3>2
    <3>6. x < (g + 1) * (g + 1)
      BY <3>2, <3>4, <3>5
    <3>7. x \in Nat \ {0} /\ g \in Nat \ {0}
      BY <2>2, <3>2, <3>4
    <3> QED
      BY <3>3, <3>6, <3>7, IsqrtGoIsRight
  <2> QED
    BY <2>1, <2>2
<1> QED
  BY <1>1 DEF Roots
-----------------------------------------------------------------------------
(* The theorems.                                                           *)

LEMMA DividesHolds == Inv => IntegersDivide
<1> SUFFICES ASSUME Inv, NEW k \in 2..Len(args), IsExact(args[k - 1]), IsExact(args[k])
             PROVE  LET a == args[k - 1] b == args[k] IN
                    /\ b.n # 0 =>
                          LET q == quotient(a.n, b.n) r == remainder(a.n, b.n) m == modulo(a.n, b.n) IN
                          /\ a.n = q.n * b.n + r.n
                          /\ Abs(r.n) < Abs(b.n) /\ (r.n = 0 \/ Sign(r.n) = Sign(a.n))
                          /\ Abs(m.n) < Abs(b.n) /\ (m.n = 0 \/ Sign(m.n) = Sign(b.n))
                          /\ (a.n - m.n) % Abs(b.n) = 0
                          /\ Canonical(q) /\ Canonical(r) /\ Canonical(m)
                    /\ LET g == gcd(a.n, b.n) x == Abs(a.n) * Abs(b.n) r == isqrt(x)
                           Both == {d \in 1..Abs(a.n) + Abs(b.n) : a.n % d = 0 /\ b.n % d = 0}
                       IN /\ IF a.n = 0 /\ b.n = 0 THEN g = 0 ELSE g \in Both /\ \A d \in Both : d <= g
                          /\ lcm(a.n, b.n) * g = x
                          /\ expt(a.n, Abs(b.n)) = Power[a.n][Abs(b.n)]
                          /\ r * r <= x /\ x < (r + 1) * (r + 1)
  BY Zenon DEF IntegersDivide, Divides, DivisorsAndRoots
<1> DEFINE a == args[k - 1].n
           b == args[k].n
           x == Abs(a) * Abs(b)
           r == isqrt(x)
<1>1. a \in Int /\ b \in Int
  <2>1. k - 1 \in 1..Len(args) /\ k \in 1..Len(args)
    BY DEF Inv, Typed
  <2>2. Argument(args[k - 1]) /\ Argument(args[k])
    BY <2>1 DEF Inv, Typed
  <2> QED
    BY <2>2, ArgumentKinds
<1>2. Abs(a) \in Nat /\ Abs(b) \in Nat
  BY <1>1, SignAbs
<1>3. x \in Nat
  <2> DEFINE m == Abs(a)
             n == Abs(b)
  <2>1. m \in Nat /\ n \in Nat
    BY <1>2
  <2> HIDE DEF m, n
  <2>2. m * n \in Nat
    BY <2>1
  <2> QED
    BY <2>2 DEF m, n
<1>4. r * r <= x /\ x < (r + 1) * (r + 1)
  BY <1>3, IsqrtIsRight
<1>5. expt(a, Abs(b)) = Power[a][Abs(b)] /\ lcm(a, b) * gcd(a, b) = x
  BY <1>1, <1>2, ExptIsRight, LcmIsRight
<1> HIDE DEF a, b, x, r
<1>6. LET g == gcd(a, b) Both == {d \in 1..Abs(a) + Abs(b) : a % d = 0 /\ b % d = 0}
      IN IF a = 0 /\ b = 0 THEN g = 0 ELSE g \in Both /\ \A d \in Both : d <= g
  BY <1>1, GcdIsRight
<1>7. b # 0 =>
        LET q == quotient(a, b) s == remainder(a, b) m == modulo(a, b) IN
        /\ a = q.n * b + s.n
        /\ Abs(s.n) < Abs(b) /\ (s.n = 0 \/ Sign(s.n) = Sign(a))
        /\ Abs(m.n) < Abs(b) /\ (m.n = 0 \/ Sign(m.n) = Sign(b))
        /\ (a - m.n) % Abs(b) = 0
        /\ Canonical(q) /\ Canonical(s) /\ Canonical(m)
  BY <1>1, DivisionIsRight
<1> QED
  BY <1>4, <1>5, <1>6, <1>7, Zenon DEF a, b, x, r

\* quotient, remainder and modulo fit one another, and gcd, lcm, expt and
\* %isqrt compute what they are named for, of all integers of a call: also at
\* FIXNUM_MIN, for negative ones and zero, and wherever Newton's iteration
\* and the squaring of expt stop.
THEOREM DivisionsAreRight == Spec => []IntegersDivide
BY DividesHolds, Invariant, PTL
=============================================================================
