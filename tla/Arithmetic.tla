----------------------------- MODULE Arithmetic -----------------------------
(***************************************************************************)
(* +, -, * and the integer divisions: a fast path over fixnums that must   *)
(* leave for big integers or flonums at the right argument, and results    *)
(* that must have the one representation make_int gives them. The machine  *)
(* does one argument a step. A flonum is only known to be inexact.         *)
(***************************************************************************)
EXTENDS Integers, Sequences

CONSTANTS
    Half,       \* half of the range of intptr_t: 2^63 on a 64-bit build
    FixMax,     \* FIXNUM_MAX: 2^62 - 1
    Arguments   \* the argument lists of the calls

\* FIXNUM_MIN is -FIXNUM_MAX - 1, and a tagged integer fits the machine's.
ASSUME WidthAssumption == Half \in Nat /\ FixMax \in Nat \ {0} /\ FixMax < Half

VARIABLES
    op, args,       \* the call
    i,              \* the arguments done
    acc,            \* what has been computed from them
    path,           \* "fixnum", "big", "real" or "done"
    result,
    exact           \* history: the sum, difference or product so far, in Int

vars == <<op, args, i, acc, path, result, exact>>

FixMin == -FixMax - 1
Fixnum == FixMin..FixMax
IntPtr == -Half..Half - 1

\* Integers below FIXNUM_MIN or above FIXNUM_MAX are Bignums, the others
\* never are.
Number(rep, n) == [rep |-> rep, n |-> n]
Flonum == [rep |-> "flonum"]
Other  == [rep |-> "symbol"]
Error  == [rep |-> "error"]

make_fixnum(n) == Number("fixnum", n)
make_int(n)    == IF n \in Fixnum THEN make_fixnum(n) ELSE Number("bignum", n)

IsFixnum(v) == v.rep = "fixnum"
IsExact(v)  == v.rep \in {"fixnum", "bignum"}
IsFlonum(v) == v.rep = "flonum"

\* What a call may be given.
ASSUME ArgumentsAssumption ==
    \A as \in Arguments :
        /\ Len(as) \in Nat /\ DOMAIN as = 1..Len(as)
        /\ \A j \in 1..Len(as) :
              as[j] \in {Flonum, Other} \/ (as[j].n \in Int /\ as[j] = make_int(as[j].n))

Compute(o, a, b) == CASE o = "+" -> a + b [] o = "-" -> a - b [] o = "*" -> a * b

\* __builtin_add_overflow and its kin: the result modulo the width, and
\* whether it is another number than the true one.
Wrapped(n)              == ((n + Half) % (2 * Half)) - Half
ComputeWrapped(o, a, b) == Wrapped(Compute(o, a, b))
\* Mutant: overflow is not looked at, only the wrapped result.
OverflowsUnseen(o, a, b) == FALSE

Overflows(o, a, b)   == Compute(o, a, b) \notin IntPtr

-----------------------------------------------------------------------------
Rest(k) == {args[j] : j \in k + 1..Len(args)}

Answer(v) ==
    /\ path' = "done" /\ result' = v
    /\ UNCHANGED <<op, args, i, acc, exact>>

Init ==
    /\ args \in Arguments
    /\ op \in {"+", "-", "*"}
    /\ i = 0 /\ path = "fixnum" /\ result = Error
    /\ acc = (IF op = "*" THEN 1 ELSE 0) /\ exact = acc

\* (-) is an error; (- x) negates, and -FIXNUM_MIN is no fixnum.
Negate ==
    /\ path = "fixnum" /\ op = "-" /\ i = 0 /\ Len(args) <= 1
    /\ Answer(IF args = <<>> THEN Error
              ELSE IF IsFixnum(args[1]) /\ args[1].n # FixMin THEN make_fixnum(-args[1].n)
              ELSE IF IsFlonum(args[1]) THEN Flonum
              ELSE IF IsExact(args[1]) THEN make_int(-args[1].n)
              ELSE Error)

\* The first of several arguments of - is what the others are taken from.
First ==
    /\ path = "fixnum" /\ op = "-" /\ i = 0 /\ Len(args) > 1
    /\ IsFixnum(args[1])
    /\ i' = 1 /\ acc' = args[1].n /\ exact' = acc'
    /\ UNCHANGED <<op, args, path, result>>

Starting == op = "-" /\ i = 0

Fits(a) == LET r == ComputeWrapped(op, acc, a.n) IN
    IsFixnum(a) /\ ~Overflows(op, acc, a.n) /\ r \in Fixnum

Fast ==
    /\ path = "fixnum" /\ ~Starting /\ i < Len(args)
    /\ Fits(args[i + 1])
    /\ acc' = ComputeWrapped(op, acc, args[i + 1].n)
    /\ exact' = Compute(op, exact, args[i + 1].n)
    /\ i' = i + 1
    /\ UNCHANGED <<op, args, path, result>>

\* The fast path breaks off at an argument that is no fixnum or takes the
\* result out of range. any_inexact looks at that argument and those behind.
Leave ==
    /\ path = "fixnum" /\ i < Len(args)
    /\ IF Starting THEN Len(args) > 1 /\ ~IsFixnum(args[1]) ELSE ~Fits(args[i + 1])
    /\ \/ /\ \A v \in Rest(i) : IsExact(v) \/ IsFlonum(v)
          /\ path' = IF \E v \in Rest(i) : IsFlonum(v) THEN "real" ELSE "big"
          /\ UNCHANGED <<op, args, i, acc, result, exact>>
       \/ /\ \E v \in Rest(i) : ~IsExact(v) /\ ~IsFlonum(v)
          /\ Answer(Error)

Big ==
    /\ path = "big" /\ i < Len(args)
    /\ i' = i + 1
    /\ acc' = IF Starting THEN args[1].n ELSE Compute(op, acc, args[i + 1].n)
    /\ exact' = IF Starting THEN args[1].n ELSE Compute(op, exact, args[i + 1].n)
    /\ UNCHANGED <<op, args, path, result>>

Finish ==
    \/ path = "fixnum" /\ ~Starting /\ i = Len(args) /\ Answer(make_fixnum(acc))
    \/ path = "big" /\ i = Len(args) /\ Answer(make_int(acc))
    \/ path = "real" /\ Answer(Flonum)

Next == Negate \/ First \/ Fast \/ Leave \/ Big \/ Finish

Spec == Init /\ [][Next]_vars

-----------------------------------------------------------------------------
(* The divisions. Boost divides towards zero, and the remainder has the    *)
(* sign of the dividend.                                                   *)

Abs(n)  == IF n < 0 THEN -n ELSE n
Sign(n) == IF n < 0 THEN -1 ELSE 1
BigDiv(x, y) == Sign(x) * Sign(y) * (Abs(x) \div Abs(y))
BigMod(x, y) == Sign(x) * (Abs(x) % Abs(y))

quotient(x, y)  == make_int(BigDiv(x, y))
remainder(x, y) == make_int(BigMod(x, y))
\* Mutant: the sign of the dividend.
modulo_of_dividend(x, y) == make_int(BigMod(x, y))

modulo(x, y) ==
    LET r == BigMod(x, y)
    IN make_int(IF (r < 0 /\ y > 0) \/ (r > 0 /\ y < 0) THEN r + y ELSE r)

\* gcd, lcm, expt and %isqrt of lib14.scm, on exact arguments.
gcd2[a \in Nat] == [b \in Nat |-> IF b = 0 THEN a ELSE gcd2[b][modulo(a, b).n]]
gcd(a, b) == gcd2[gcd2[0][Abs(a)]][Abs(b)]
lcm(a, b) == IF a = 0 \/ b = 0 THEN 0
             ELSE LET acc1 == quotient(Abs(a), gcd(1, a)).n
                  IN quotient(acc1 * Abs(b), gcd(acc1, b)).n

expt_go[r \in Int] == [b \in Int |-> [n \in Nat |->
    IF n = 0 THEN r
    ELSE expt_go[IF modulo(n, 2).n = 1 THEN r * b ELSE r][b * b][quotient(n, 2).n]]]
expt(b, n) == expt_go[1][b][n]

\* Newton's method from above.
isqrt_go[x \in Nat \ {0}] == [g \in Nat \ {0} |->
    LET next == quotient(g + quotient(x, g).n, 2).n IN IF next < g THEN isqrt_go[x][next] ELSE g]
isqrt(x) == IF x < 2 THEN x ELSE isqrt_go[x][quotient(x + 1, 2).n]

-----------------------------------------------------------------------------
(* Properties.                                                             *)

\* One representation for each integer, so that fixnums can be told from the
\* others and equal ones compared in place.
Canonical(v) == IsExact(v) => (IsFixnum(v) <=> v.n \in Fixnum)

\* The machine's own values.
TypeOK ==
    /\ path \in {"fixnum", "big", "real", "done"}
    /\ op \in {"+", "-", "*"}
    /\ i \in 0..Len(args) /\ acc \in Int /\ exact \in Int

\* On every path, and wherever it left the fast one, what has been computed
\* is the true sum, difference or product: no intermediate result wraps
\* round, and no argument is taken twice or left out on the way from one
\* path to the other. On the fast path it is a fixnum.
NeverWraps == acc = exact /\ (path = "fixnum" => acc \in Fixnum)

\* An answer is an integer, in its one representation, just when all
\* arguments are integers; a flonum just when one of them is and all are
\* numbers; else an error, wherever the wrong argument stands and whatever
\* overflowed before it.
AnswerFits ==
    (path = "done" /\ args # <<>>) =>
        /\ Canonical(result)
        /\ IsExact(result) <=> \A v \in Rest(0) : IsExact(v)
        /\ IsFlonum(result) <=> /\ \A v \in Rest(0) : IsExact(v) \/ IsFlonum(v)
                                /\ \E v \in Rest(0) : IsFlonum(v)
        /\ IsExact(result) =>
              IF Len(args) = 1 /\ op = "-" THEN result.n = -args[1].n
                                          ELSE result.n = exact /\ i = Len(args)

\* What + - * compute on the way, and what they answer.
ComputesRight == NeverWraps /\ AnswerFits

\* quotient and remainder give the dividend back and the remainder has its
\* sign; modulo has the sign of the divisor and differs by a multiple of it;
\* also for FIXNUM_MIN / -1, which is no fixnum.
Divides ==
    \A k \in 2..Len(args) :
        LET a == args[k - 1] b == args[k] IN
        (IsExact(a) /\ IsExact(b) /\ b.n # 0) =>
            LET q == quotient(a.n, b.n) r == remainder(a.n, b.n) m == modulo(a.n, b.n) IN
            /\ a.n = q.n * b.n + r.n
            /\ Abs(r.n) < Abs(b.n) /\ (r.n = 0 \/ Sign(r.n) = Sign(a.n))
            /\ Abs(m.n) < Abs(b.n) /\ (m.n = 0 \/ Sign(m.n) = Sign(b.n))
            /\ (a.n - m.n) % Abs(b.n) = 0
            /\ Canonical(q) /\ Canonical(r) /\ Canonical(m)

\* gcd is the greatest number that divides both, whatever their signs, and
\* lcm goes with it; expt by squaring is repeated multiplication; %isqrt, from
\* its starting value on, ends at the greatest integer whose square is no
\* greater, so that sqrt knows the squares.
Power[b \in Int] == [n \in Nat |-> IF n = 0 THEN 1 ELSE b * Power[b][n - 1]]

DivisorsAndRoots ==
    \A k \in 2..Len(args) :
        LET a == args[k - 1] b == args[k] IN
        (IsExact(a) /\ IsExact(b)) =>
            LET g == gcd(a.n, b.n) x == Abs(a.n) * Abs(b.n) r == isqrt(x)
                Both == {d \in 1..Abs(a.n) + Abs(b.n) : a.n % d = 0 /\ b.n % d = 0}
            IN /\ IF a.n = 0 /\ b.n = 0 THEN g = 0 ELSE g \in Both /\ \A d \in Both : d <= g
               /\ lcm(a.n, b.n) * g = x
               /\ expt(a.n, Abs(b.n)) = Power[a.n][Abs(b.n)]
               /\ r * r <= x /\ x < (r + 1) * (r + 1)

IntegersDivide == Divides /\ DivisorsAndRoots
=============================================================================
