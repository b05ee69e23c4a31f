----------------------------- MODULE PortsProof -----------------------------
(***************************************************************************)
(* Theorems about the input ports of module Ports, for texts of any length *)
(* and any number of descriptors. The invariant says where in its file a   *)
(* port is: what the program took is the file up to there, and a character *)
(* read ahead is the next one.                                             *)
(***************************************************************************)
EXTENDS Ports, TLAPS, SequenceTheorems, FiniteSetTheorems, WellFoundedInduction

-----------------------------------------------------------------------------
(* What is assumed of the constants.                                       *)

Characters == {Text[j] : j \in 1..Len(Text)} \cup {Typed[j] : j \in 1..Len(Typed)}

\* Files hold characters, and neither of the two marks is one.
TextsAreTexts ==
    /\ Text \in Seq(Characters) /\ Typed \in Seq(Characters)
    /\ Eof \notin Characters /\ NoPeek \notin Characters

LimitIsNumber == Limit \in Nat

-----------------------------------------------------------------------------
(* The invariant.                                                          *)

\* How many characters of its file a port has answered.
Front(port) == port.pos - Len(Ahead(port))

\* t is what the program took from a port of file f.
PortOK(f, port, t) ==
    /\ port \in Port /\ port.pos <= Len(f)
    /\ port.peek_ch = Eof => port.pos = Len(f)
    /\ port.peek_ch \notin {Eof, NoPeek} => port.pos > 0 /\ port.peek_ch = f[port.pos]
    /\ t = SubSeq(f, 1, Front(port))

Inv ==
    /\ DOMAIN ports \subseteq Ids \cup {Console} /\ DOMAIN taken = DOMAIN ports
    /\ held \subseteq DOMAIN ports /\ stdin \in DOMAIN ports
    /\ Console \in DOMAIN ports /\ ~ports[Console].is_closed
    /\ \A p \in DOMAIN ports : PortOK(File(p), ports[p], taken[p])

-----------------------------------------------------------------------------
(* One port.                                                               *)

\* A piece of a file.
LEMMA Piece ==
    ASSUME NEW S, NEW f \in Seq(S), NEW m \in Nat \ {0}, NEW n \in Nat, n <= Len(f)
    PROVE  /\ SubSeq(f, m, n) \in Seq(S)
           /\ Len(SubSeq(f, m, n)) = IF m <= n THEN n - m + 1 ELSE 0
           /\ \A i \in 1..n - m + 1 : SubSeq(f, m, n)[i] = f[m + i - 1]
<1>1. Len(f) \in Nat
  BY LenProperties
<1>2. \A i \in m..n : f[i] \in S
  BY <1>1, ElementOfSeq
<1> QED
  BY <1>2, SubSeqProperties

\* A file is what lies before a place and what lies behind it.
LEMMA Cut ==
    ASSUME NEW S, NEW f \in Seq(S), NEW k \in 0..Len(f)
    PROVE  /\ SubSeq(f, 1, k) \o SubSeq(f, k + 1, Len(f)) = f
           /\ \A m \in k..Len(f) : SubSeq(f, 1, k) \o SubSeq(f, k + 1, m) = SubSeq(f, 1, m)
<1>1. Len(f) \in Nat
  BY LenProperties
<1>2. ASSUME NEW m \in k..Len(f) PROVE SubSeq(f, 1, k) \o SubSeq(f, k + 1, m) = SubSeq(f, 1, m)
  <2> DEFINE one == 1
  <2>1. one \in 1..Len(f) + 1 /\ k \in one - 1..Len(f) /\ m \in k..Len(f)
    BY <1>1
  <2> HIDE DEF one
  <2>2. SubSeq(f, one, k) \o SubSeq(f, k + 1, m) = SubSeq(f, one, m)
    BY <2>1, ConcatAdjacentSubSeq
  <2> QED
    BY <2>2 DEF one
<1>3. Len(f) \in k..Len(f) /\ SubSeq(f, 1, Len(f)) = f
  BY <1>1, SubSeqFull
<1> QED
  BY <1>2, <1>3

\* One character more.
LEMMA NextTaken ==
    ASSUME NEW S, NEW f \in Seq(S), NEW k \in Nat, k < Len(f)
    PROVE  Append(SubSeq(f, 1, k), f[k + 1]) = SubSeq(f, 1, k + 1)
<1>1. Len(f) \in Nat /\ f[k + 1] \in S
  BY LenProperties, ElementOfSeq
<1>2. SubSeq(f, 1, k) \in Seq(S)
  BY <1>1, Piece
<1> DEFINE n == k + 1
           one == 1
<1>3. one \in 1..Len(f) /\ n \in one..Len(f) /\ n - 1 = k
  BY <1>1
<1> HIDE DEF n, one
<1>4. SubSeq(f, one, n) = SubSeq(f, one, n - 1) \o <<f[n]>>
  BY <1>3, SubSeqRecursiveSecond
<1>5. Append(SubSeq(f, 1, k), f[k + 1]) = SubSeq(f, 1, k) \o <<f[k + 1]>>
  BY <1>1, <1>2, AppendIsConcat
<1> QED
  BY <1>3, <1>4, <1>5 DEF n, one

\* Where a port is, in numbers.
LEMMA PortIs ==
    ASSUME NEW f, Len(f) \in Nat, NEW port, NEW t, PortOK(f, port, t)
    PROVE  /\ port.pos \in Nat /\ port.pos <= Len(f) /\ port.is_closed \in BOOLEAN
           /\ Front(port) \in Nat /\ Front(port) <= port.pos
           /\ port.peek_ch \in {Eof, NoPeek} => Front(port) = port.pos /\ Ahead(port) = <<>>
           /\ port.peek_ch \notin {Eof, NoPeek} =>
                 /\ Front(port) = port.pos - 1 /\ port.pos > 0
                 /\ Ahead(port) = <<f[port.pos]>> /\ port.peek_ch = f[port.pos]
<1>1. port.pos \in Nat /\ port.pos <= Len(f) /\ port.is_closed \in BOOLEAN
  BY DEF PortOK, Port
<1>2. CASE port.peek_ch \in {Eof, NoPeek}
  <2>1. Ahead(port) = <<>> /\ Len(Ahead(port)) = 0
    BY <1>2 DEF Ahead
  <2> QED
    BY <1>1, <1>2, <2>1 DEF Front
<1>3. CASE port.peek_ch \notin {Eof, NoPeek}
  <2>1. Ahead(port) = <<f[port.pos]>> /\ Len(Ahead(port)) = 1 /\ port.pos > 0 /\ port.peek_ch = f[port.pos]
    BY <1>3 DEF Ahead, PortOK
  <2> QED
    BY <1>1, <1>3, <2>1 DEF Front
<1> QED
  BY <1>1, <1>2, <1>3

\* What is taken, read ahead and not read yet is the file.
LEMMA WholeText ==
    ASSUME NEW S, NEW f \in Seq(S), NEW port, NEW t, PortOK(f, port, t)
    PROVE  /\ t \o Ahead(port) \o SubSeq(f, port.pos + 1, Len(f)) = f
           /\ Left(f, port) = SubSeq(f, Front(port) + 1, Len(f))
<1> DEFINE k == port.pos
           rest == SubSeq(f, k + 1, Len(f))
<1>1. Len(f) \in Nat
  BY LenProperties
<1>2. k \in 0..Len(f) /\ t = SubSeq(f, 1, Front(port))
  <2>1. k \in Nat /\ k <= Len(f)
    BY <1>1, PortIs
  <2> QED
    BY <1>1, <2>1 DEF PortOK
<1>3. SubSeq(f, 1, k) \o rest = f
  BY <1>2, Cut
<1>4. rest \in Seq(S) /\ SubSeq(f, 1, k) \in Seq(S)
  <2> DEFINE m == k + 1
             n == Len(f)
             one == 1
  <2>1. m \in Nat \ {0} /\ n \in Nat /\ n <= Len(f) /\ one \in Nat \ {0} /\ k \in Nat /\ k <= Len(f)
    BY <1>1, <1>2
  <2> HIDE DEF m, n, one, k
  <2>2. SubSeq(f, m, n) \in Seq(S) /\ SubSeq(f, one, k) \in Seq(S)
    BY <2>1, Piece
  <2> QED
    BY <2>2 DEF m, n, one
<1>5. CASE port.peek_ch \in {Eof, NoPeek}
  <2>1. Ahead(port) = <<>> /\ Front(port) = k
    BY <1>1, <1>5, PortIs
  <2>2. t \o <<>> = t /\ <<>> \o rest = rest
    BY <1>2, <1>4, <2>1, ConcatEmptySeq
  <2>3. Left(f, port) = rest
    <3>1. CASE port.peek_ch = Eof
      <4>1. k = Len(f) /\ Left(f, port) = <<>>
        BY <3>1 DEF PortOK, Left
      <4>2. rest = <<>>
        BY <1>1, <4>1, SubSeqEmpty
      <4> QED
        BY <4>1, <4>2
    <3>2. CASE port.peek_ch # Eof
      BY <2>1, <2>2, <3>2 DEF Left
    <3> QED
      BY <3>1, <3>2
  <2> QED
    BY <1>2, <1>3, <2>1, <2>2, <2>3
<1>6. CASE port.peek_ch \notin {Eof, NoPeek}
  <2> DEFINE n == k - 1
  <2>1. Ahead(port) = <<f[k]>> /\ Front(port) = n /\ k > 0 /\ n \in Nat /\ n < Len(f) /\ n + 1 = k
    BY <1>1, <1>2, <1>6, PortIs
  <2>2. f[k] \in S
    BY <1>1, <1>2, <2>1, ElementOfSeq
  <2>3. t \o Ahead(port) = SubSeq(f, 1, k)
    <3>1. SubSeq(f, 1, n) \in Seq(S)
      BY <1>1, <2>1, Piece
    <3>2. Append(SubSeq(f, 1, n), f[n + 1]) = SubSeq(f, 1, n + 1)
      BY <2>1, NextTaken
    <3>3. Append(t, f[k]) = t \o <<f[k]>>
      BY <1>2, <2>1, <2>2, <3>1, AppendIsConcat
    <3> QED
      BY <1>2, <2>1, <3>2, <3>3
  <2>4. <<f[k]>> \o rest = SubSeq(f, k, Len(f))
    <3> DEFINE l == Len(f)
    <3>1. k \in 1..Len(f) /\ l \in k..Len(f)
      BY <1>1, <1>2, <2>1
    <3> HIDE DEF k, l
    <3>2. SubSeq(f, k, l) = <<f[k]>> \o SubSeq(f, k + 1, l)
      BY <3>1, SubSeqRecursiveFirst
    <3> QED
      BY <3>2 DEF l
  <2>5. Left(f, port) = Ahead(port) \o rest
    BY <1>6 DEF Left
  <2> QED
    BY <1>3, <2>1, <2>3, <2>4, <2>5
<1> QED
  BY <1>5, <1>6

-----------------------------------------------------------------------------
(* The operations on characters.                                           *)

\* A file of some port.
LEMMA FilesAre ==
    ASSUME TextsAreTexts, NEW f \in {Text, Typed}
    PROVE  /\ f \in Seq(Characters) /\ Len(f) \in Nat /\ Len(f) <= Len(Text) + Len(Typed)
           /\ \A i \in 1..Len(f) : f[i] \in Characters /\ f[i] \notin {Eof, NoPeek}
<1>1. Len(Text) \in Nat /\ Len(Typed) \in Nat /\ Text \in Seq(Characters) /\ Typed \in Seq(Characters)
  BY LenProperties DEF TextsAreTexts
<1>2. f \in Seq(Characters) /\ Len(f) \in Nat /\ Len(f) <= Len(Text) + Len(Typed)
  BY <1>1
<1>3. \A i \in 1..Len(f) : f[i] \in Characters
  BY <1>2, ElementOfSeq
<1> QED
  BY <1>2, <1>3 DEF TextsAreTexts

\* A port at k with nothing read ahead, or with the character before k.
LEMMA PortAt ==
    ASSUME TextsAreTexts, NEW f \in {Text, Typed}, NEW k \in Nat, k <= Len(f), NEW ch, NEW b \in BOOLEAN,
           NEW port, port = [pos |-> k, peek_ch |-> ch, is_closed |-> b]
    PROVE  /\ ch = NoPeek \/ (ch = Eof /\ k = Len(f)) => PortOK(f, port, SubSeq(f, 1, k))
           /\ k > 0 /\ ch = f[k] => PortOK(f, port, SubSeq(f, 1, k - 1))
<1>1. /\ Len(f) \in Nat /\ Len(f) <= Len(Text) + Len(Typed) /\ Len(Text) + Len(Typed) \in Nat
      /\ \A i \in 1..Len(f) : f[i] \in Characters /\ f[i] \notin {Eof, NoPeek}
  BY FilesAre, LenProperties DEF TextsAreTexts
<1>2. port.pos = k /\ port.peek_ch = ch /\ port.is_closed = b
  OBVIOUS
<1>3. ASSUME ch \in Characters \cup {Eof, NoPeek} PROVE port \in Port
  BY <1>1, <1>3 DEF Port, Characters
<1>4. ASSUME ch = NoPeek \/ (ch = Eof /\ k = Len(f)) PROVE PortOK(f, port, SubSeq(f, 1, k))
  <2>1. Ahead(port) = <<>> /\ Front(port) = k
    BY <1>2, <1>4 DEF Ahead, Front
  <2> QED
    BY <1>2, <1>3, <1>4, <2>1 DEF PortOK, Eof, NoPeek
<1>5. ASSUME k > 0, ch = f[k] PROVE PortOK(f, port, SubSeq(f, 1, k - 1))
  <2>1. ch \in Characters /\ ch \notin {Eof, NoPeek}
    BY <1>1, <1>5
  <2>2. Len(Ahead(port)) = 1
    BY <1>2, <2>1 DEF Ahead
  <2>3. Front(port) = k - 1
    BY <1>2, <2>2 DEF Front
  <2> QED
    BY <1>2, <1>3, <1>5, <2>1, <2>3 DEF PortOK
<1> QED
  BY <1>4, <1>5

\* A port with other fields.
LEMMA PortChanged ==
    ASSUME NEW port \in Port, NEW k, NEW ch
    PROVE  /\ [port EXCEPT !.peek_ch = ch] = [pos |-> port.pos, peek_ch |-> ch, is_closed |-> port.is_closed]
           /\ [port EXCEPT !.pos = k] = [pos |-> k, peek_ch |-> port.peek_ch, is_closed |-> port.is_closed]
<1> DEFINE a == port.pos
           c == port.peek_ch
           b == port.is_closed
<1>1. port = [pos |-> a, peek_ch |-> c, is_closed |-> b]
  BY DEF Port
<1> HIDE DEF a, b, c
<1>2. [port EXCEPT !.peek_ch = ch] = [pos |-> a, peek_ch |-> ch, is_closed |-> b]
  BY <1>1
<1>3. [port EXCEPT !.pos = k] = [pos |-> k, peek_ch |-> c, is_closed |-> b]
  BY <1>1
<1> QED
  BY <1>2, <1>3 DEF a, b, c

\* get_char.
LEMMA GetKeeps ==
    ASSUME TextsAreTexts, NEW f \in {Text, Typed}, NEW port, NEW t, PortOK(f, port, t),
           NEW r, r = get_char(f, port)
    PROVE  /\ PortOK(f, r.port, IF r.ch = Eof THEN t ELSE Append(t, r.ch))
           /\ r.port.is_closed = port.is_closed
<1> DEFINE k == port.pos
           b == port.is_closed
<1>1. /\ f \in Seq(Characters) /\ Len(f) \in Nat
      /\ \A i \in 1..Len(f) : f[i] \notin {Eof, NoPeek}
  BY FilesAre
<1>2. /\ k \in Nat /\ k <= Len(f) /\ b \in BOOLEAN
      /\ port.peek_ch \in {Eof, NoPeek} => Front(port) = k
      /\ port.peek_ch \notin {Eof, NoPeek} => Front(port) = k - 1 /\ k > 0 /\ port.peek_ch = f[k]
  BY <1>1, PortIs
<1>3. port \in Port /\ t = SubSeq(f, 1, Front(port)) /\ (port.peek_ch = Eof => k = Len(f))
  BY DEF PortOK
<1>4. CASE port.peek_ch # NoPeek
  <2> DEFINE q == [pos |-> k, peek_ch |-> NoPeek, is_closed |-> b]
  <2>1. r.ch = port.peek_ch /\ r.port = q
    BY <1>3, <1>4, PortChanged DEF get_char
  <2>2. PortOK(f, q, SubSeq(f, 1, k))
    <3> DEFINE no == NoPeek
               q1 == q
    <3>1. q1 = [pos |-> k, peek_ch |-> no, is_closed |-> b] /\ no = NoPeek
      OBVIOUS
    <3> HIDE DEF no, q1, k, b
    <3>2. PortOK(f, q1, SubSeq(f, 1, k))
      BY <1>2, <3>1, PortAt
    <3> QED
      BY <3>2 DEF q1, no
  <2>3. q.is_closed = b
    OBVIOUS
  <2> HIDE DEF q
  <2>4. CASE port.peek_ch = Eof
    BY <1>2, <1>3, <2>1, <2>2, <2>3, <2>4
  <2>5. CASE port.peek_ch # Eof
    <3> DEFINE n == k - 1
    <3>1. n \in Nat /\ n < Len(f) /\ n + 1 = k
      BY <1>1, <1>2, <1>4, <2>5
    <3> HIDE DEF n
    <3>2. Append(SubSeq(f, 1, n), f[n + 1]) = SubSeq(f, 1, n + 1)
      BY <1>1, <3>1, NextTaken
    <3>3. t = SubSeq(f, 1, n) /\ r.ch = f[k]
      BY <1>2, <1>3, <1>4, <2>1, <2>5 DEF n
    <3> QED
      BY <2>1, <2>2, <2>3, <2>5, <3>1, <3>2, <3>3
  <2> QED
    BY <2>4, <2>5
<1>5. CASE port.peek_ch = NoPeek /\ k < Len(f)
  <2> DEFINE q == [pos |-> k + 1, peek_ch |-> NoPeek, is_closed |-> b]
  <2>1. r.ch = f[k + 1] /\ r.port = q
    BY <1>3, <1>5, PortChanged DEF get_char, fgetc
  <2>2. PortOK(f, q, SubSeq(f, 1, k + 1))
    <3> DEFINE no == NoPeek
               q1 == q
               n  == k + 1
    <3>1. q1 = [pos |-> n, peek_ch |-> no, is_closed |-> b] /\ no = NoPeek /\ n \in Nat /\ n <= Len(f)
      BY <1>1, <1>2, <1>5
    <3> HIDE DEF no, q1, n, b
    <3>2. PortOK(f, q1, SubSeq(f, 1, n))
      BY <1>2, <3>1, PortAt
    <3> QED
      BY <3>2 DEF q1, no, n
  <2>3. q.is_closed = b
    OBVIOUS
  <2> HIDE DEF q
  <2>4. Append(SubSeq(f, 1, k), f[k + 1]) = SubSeq(f, 1, k + 1)
    <3> HIDE DEF k
    <3> QED
      BY <1>1, <1>2, <1>5, NextTaken
  <2>5. k + 1 \in 1..Len(f)
    BY <1>1, <1>2, <1>5
  <2>6. r.ch # Eof
    BY <1>1, <2>1, <2>5
  <2> QED
    BY <1>2, <1>3, <1>5, <2>1, <2>2, <2>3, <2>4, <2>6
<1>6. CASE port.peek_ch = NoPeek /\ ~(k < Len(f))
  <2>1. r.ch = Eof /\ r.port = port
    BY <1>6 DEF get_char, fgetc
  <2> QED
    BY <2>1
<1> QED
  BY <1>4, <1>5, <1>6

\* peek_char.
LEMMA PeekKeeps ==
    ASSUME TextsAreTexts, NEW f \in {Text, Typed}, NEW port, NEW t, PortOK(f, port, t),
           NEW q, q = peek_char(f, port).port
    PROVE  PortOK(f, q, t) /\ q.is_closed = port.is_closed
<1> DEFINE k == port.pos
           b == port.is_closed
<1>1. f \in Seq(Characters) /\ Len(f) \in Nat
  BY FilesAre
<1>2. k \in Nat /\ k <= Len(f) /\ b \in BOOLEAN /\ (port.peek_ch = NoPeek => Front(port) = k)
  BY <1>1, PortIs
<1>3. port \in Port /\ t = SubSeq(f, 1, Front(port))
  BY DEF PortOK
<1>4. CASE port.peek_ch # NoPeek
  BY <1>4 DEF peek_char
<1>5. CASE port.peek_ch = NoPeek /\ k < Len(f)
  <2> DEFINE n  == k + 1
             ch == f[n]
  <2>1. q = [pos |-> n, peek_ch |-> ch, is_closed |-> b]
    BY <1>3, <1>5 DEF peek_char, fgetc, Port
  <2>2. n \in Nat /\ n <= Len(f) /\ n > 0 /\ ch = f[n] /\ n - 1 = k
    BY <1>1, <1>2, <1>5
  <2> HIDE DEF n, ch, b
  <2>3. PortOK(f, q, SubSeq(f, 1, n - 1))
    BY <1>2, <2>1, <2>2, PortAt
  <2>4. q.is_closed = b
    BY <2>1
  <2> QED
    BY <1>2, <1>3, <1>5, <2>2, <2>3, <2>4 DEF b
<1>6. CASE port.peek_ch = NoPeek /\ ~(k < Len(f))
  <2> DEFINE ch == Eof
  <2>1. q = [pos |-> k, peek_ch |-> ch, is_closed |-> b] /\ ch = Eof /\ k = Len(f)
    BY <1>1, <1>2, <1>3, <1>6 DEF peek_char, fgetc, Port
  <2> HIDE DEF ch, b, k
  <2>2. PortOK(f, q, SubSeq(f, 1, k))
    BY <1>2, <2>1, PortAt
  <2>3. q.is_closed = b
    BY <2>1
  <2> QED
    BY <1>2, <1>3, <1>6, <2>2, <2>3 DEF b
<1> QED
  BY <1>4, <1>5, <1>6

\* A port that is made.
LEMMA NewPort ==
    ASSUME TextsAreTexts, NEW f \in {Text, Typed}
    PROVE  PortOK(f, New, <<>>)
<1> DEFINE k  == 0
           ch == NoPeek
           b  == FALSE
           port == New
<1>1. /\ port = [pos |-> k, peek_ch |-> ch, is_closed |-> b] /\ k \in Nat /\ k <= Len(f) /\ b \in BOOLEAN
      /\ ch = NoPeek
  BY FilesAre DEF New
<1> HIDE DEF k, ch, b, port
<1>2. PortOK(f, port, SubSeq(f, 1, k))
  BY <1>1, PortAt
<1>3. SubSeq(f, 1, k) = <<>>
  BY SubSeqEmpty DEF k
<1> QED
  BY <1>2, <1>3 DEF port

\* Port::close.
LEMMA ClosedKeeps ==
    ASSUME NEW f, NEW port, NEW t, PortOK(f, port, t)
    PROVE  PortOK(f, [port EXCEPT !.is_closed = TRUE], t)
<1> DEFINE q == [port EXCEPT !.is_closed = TRUE]
<1>1. q \in Port /\ q.pos = port.pos /\ q.peek_ch = port.peek_ch
  BY DEF PortOK, Port
<1> HIDE DEF q
<1>2. Front(q) = Front(port)
  BY <1>1 DEF Front, Ahead
<1>3. PortOK(f, q, t)
  BY <1>1, <1>2 DEF PortOK
<1> QED
  BY <1>3 DEF q

\* The least of some numbers.
LEMMA LeastNumber ==
    ASSUME NEW T, T \subseteq Nat, T # {}
    PROVE  (CHOOSE n \in T : \A m \in T : n <= m) \in T
<1>1. PICK n \in T : \A m \in T : ~(<<m, n>> \in OpToRel(<, Nat))
  BY WFMin, NatLessThanWellFounded, Zenon
<1>2. \A m \in T : ~(m < n)
  BY <1>1, Zenon DEF OpToRel
<1>3. \E k \in T : \A m \in T : k <= m
  BY <1>2
<1> QED
  BY <1>3

\* read-line.
LEMMA LineKeeps ==
    ASSUME TextsAreTexts, NEW f \in {Text, Typed}, NEW port, NEW t, PortOK(f, port, t),
           NEW r, r = line_from(f, port)
    PROVE  PortOK(f, r.port, t \o r.got) /\ r.port.is_closed = port.is_closed
<1> DEFINE k  == Front(port)
           b  == port.is_closed
           cs == Left(f, port)
           n  == LineLength(cs)
           looks == n > 0 /\ cs[n] = "CR" /\ n < Len(cs)
           m  == IF looks /\ cs[n + 1] = "LF" THEN n + 1 ELSE n
           at == (port.pos + m) - Len(Ahead(port))
           past == [pos |-> at, peek_ch |-> NoPeek, is_closed |-> b]
           back == looks /\ cs[n + 1] # "LF"
           kept == unget_char([past EXCEPT !.pos = @ + 1], cs[n + 1])
           got  == SubSeq(cs, 1, m)
<1>1. f \in Seq(Characters) /\ Len(f) \in Nat
  BY FilesAre
<1>2. k \in Nat /\ k <= Len(f) /\ b \in BOOLEAN /\ port.pos - Len(Ahead(port)) = k /\ port.pos \in Nat
      /\ Len(Ahead(port)) \in Nat /\ t = SubSeq(f, 1, k)
  <2>1. k \in Nat /\ port.pos \in Nat /\ k <= port.pos /\ port.pos <= Len(f) /\ b \in BOOLEAN
    BY <1>1, PortIs
  <2>2. Len(Ahead(port)) \in Nat
    BY DEF Ahead
  <2>3. t = SubSeq(f, 1, k)
    BY DEF PortOK
  <2> QED
    BY <1>1, <2>1, <2>2, <2>3 DEF Front
<1>3. r.got = got /\ (back => r.port = kept) /\ (~back => r.port = past)
  <2>1. r = [got |-> got, port |-> IF back THEN kept ELSE past]
    BY DEF line_from
  <2> HIDE DEF got, back, kept, past
  <2> QED
    BY <2>1
<1>4. cs = SubSeq(f, k + 1, Len(f))
  BY <1>1, WholeText
<1> HIDE DEF k, b, cs, n
<1>5. /\ Len(cs) = Len(f) - k /\ cs \in Seq(Characters)
      /\ \A i \in 1..Len(cs) : cs[i] = f[k + i]
  <2> DEFINE first == k + 1
             last  == Len(f)
  <2>1. first \in Nat \ {0} /\ last \in Nat /\ last <= Len(f)
    BY <1>1, <1>2
  <2>2. (last - first) + 1 = Len(f) - k /\ (IF first <= last THEN (last - first) + 1 ELSE 0) = Len(f) - k
    BY <1>1, <1>2
  <2>3. \A i \in Nat : (first + i) - 1 = k + i
    BY <1>2
  <2> DEFINE s == SubSeq(f, first, last)
  <2>4. s = cs
    BY <1>4
  <2> HIDE DEF first, last
  <2>5. s \in Seq(Characters) /\ Len(s) = (IF first <= last THEN (last - first) + 1 ELSE 0)
        /\ \A i \in 1..(last - first) + 1 : s[i] = f[(first + i) - 1]
    BY <1>1, <2>1, Piece
  <2> HIDE DEF s
  <2> QED
    BY <2>2, <2>3, <2>4, <2>5
<1>6. Len(cs) \in Nat
  BY <1>1, <1>2, <1>5
<1>7. n \in Nat /\ n <= Len(cs)
  <2>1. CASE LineEnds(cs) = {}
    BY <1>6, <2>1 DEF n, LineLength
  <2>2. CASE LineEnds(cs) # {}
    <3>1. LineEnds(cs) \subseteq Nat
      BY <1>6 DEF LineEnds
    <3>2. n \in LineEnds(cs)
      BY <2>2, <3>1, LeastNumber DEF n, LineLength
    <3> QED
      BY <1>6, <3>2 DEF LineEnds
  <2> QED
    BY <2>1, <2>2
<1>8. m \in Nat /\ m <= Len(cs) /\ n <= m
  BY <1>6, <1>7
<1>9. t \o SubSeq(cs, 1, m) = SubSeq(f, 1, k + m)
  <2>1. SubSeq(cs, 1, m) = SubSeq(f, k + 1, k + m)
    <3> HIDE DEF m
    <3> DEFINE first == k + 1
               last  == k + m
               one   == 1
    <3>1. /\ first \in Nat \ {0} /\ last \in Nat /\ last <= Len(f)
          /\ one \in Nat \ {0} /\ m \in Nat /\ m <= Len(cs)
      BY <1>1, <1>2, <1>5, <1>8
    <3>2. (last - first) + 1 = m /\ (m - one) + 1 = m /\ (first <= last <=> m > 0) /\ (one <= m <=> m > 0)
          /\ \A i \in 1..m : (one + i) - 1 = i /\ (first + i) - 1 = k + i /\ i \in 1..Len(cs)
      BY <1>1, <1>2, <1>6, <1>8
    <3> DEFINE s1 == SubSeq(cs, one, m)
               s2 == SubSeq(f, first, last)
    <3> HIDE DEF first, last, one
    <3>3. s1 \in Seq(Characters) /\ Len(s1) = (IF one <= m THEN (m - one) + 1 ELSE 0)
          /\ \A i \in 1..(m - one) + 1 : s1[i] = cs[(one + i) - 1]
      BY <1>5, <3>1, Piece
    <3>4. s2 \in Seq(Characters) /\ Len(s2) = (IF first <= last THEN (last - first) + 1 ELSE 0)
          /\ \A i \in 1..(last - first) + 1 : s2[i] = f[(first + i) - 1]
      BY <1>1, <3>1, Piece
    <3> HIDE DEF s1, s2
    <3>5. Len(s1) = m /\ Len(s2) = m
      BY <1>8, <3>2, <3>3, <3>4
    <3>6. \A i \in 1..Len(s1) : s1[i] = s2[i]
      BY <1>5, <3>2, <3>3, <3>4, <3>5
    <3>7. s1 = s2
      BY <3>3, <3>4, <3>5, <3>6, SeqEqual
    <3> QED
      BY <3>7 DEF s1, s2, first, last, one
  <2> DEFINE j == k + m
  <2>2. j \in k..Len(f) /\ k \in 0..Len(f)
    BY <1>1, <1>2, <1>5, <1>8
  <2> HIDE DEF j
  <2>3. SubSeq(f, 1, k) \o SubSeq(f, k + 1, j) = SubSeq(f, 1, j)
    BY <1>1, <2>2, Cut
  <2> QED
    BY <1>2, <2>1, <2>3 DEF j
<1>10. at = k + m /\ at \in Nat /\ at <= Len(f)
  <2> DEFINE ahead == Len(Ahead(port))
             pos   == port.pos
             all   == Len(f)
             rest  == Len(cs)
  <2>1. at = (pos + m) - ahead
    OBVIOUS
  <2>2. /\ k \in Nat /\ pos \in Nat /\ ahead \in Nat /\ pos - ahead = k
        /\ all \in Nat /\ k <= all
    BY <1>1, <1>2
  <2>3. m \in Nat /\ m <= rest /\ rest = all - k
    BY <1>5, <1>8
  <2> HIDE DEF at, m, ahead, pos, all, rest
  <2>4. at = k + m /\ at \in Nat /\ at <= all
    BY <2>1, <2>2, <2>3
  <2> QED
    BY <2>4 DEF all
<1>11. CASE ~back
  <2> DEFINE no == NoPeek
             q == past
             j == at
  <2>1. r.got = SubSeq(cs, 1, m) /\ r.port = q
    <3> HIDE DEF past, back
    <3> QED
      BY <1>3, <1>11
  <2>2. q = [pos |-> j, peek_ch |-> no, is_closed |-> b] /\ no = NoPeek /\ j \in Nat /\ j <= Len(f) /\ q.is_closed = b
    BY <1>10
  <2>3. t \o r.got = SubSeq(f, 1, j)
    BY <1>9, <1>10, <2>1
  <2> HIDE DEF q, no, j
  <2>4. PortOK(f, q, SubSeq(f, 1, j))
    BY <1>2, <2>2, PortAt
  <2> QED
    BY <2>1, <2>2, <2>3, <2>4 DEF b
<1>12. CASE back
  <2> DEFINE j  == at + 1
             ch == cs[n + 1]
             q  == kept
  <2>1. r.got = SubSeq(cs, 1, m) /\ r.port = q
    <3> HIDE DEF past, back, kept
    <3> QED
      BY <1>3, <1>12
  <2>2. m = n /\ n + 1 \in 1..Len(cs)
    BY <1>6, <1>7, <1>12
  <2>3. j \in Nat /\ j <= Len(f) /\ j > 0 /\ j - 1 = at /\ at = k + n /\ k + (n + 1) = j
    BY <1>1, <1>2, <1>5, <1>7, <1>10, <2>2
  <2>4. ch = f[j]
    BY <1>5, <2>2, <2>3
  <2>5. q = [pos |-> j, peek_ch |-> ch, is_closed |-> b] /\ q.is_closed = b
    <3> DEFINE p0 == past
               i  == at
               no == NoPeek
    <3>1. p0 = [pos |-> i, peek_ch |-> no, is_closed |-> b] /\ q = unget_char([p0 EXCEPT !.pos = @ + 1], ch) /\ j = i + 1
      OBVIOUS
    <3> HIDE DEF p0, q, i, j, no, ch
    <3>2. [p0 EXCEPT !.pos = @ + 1] = [pos |-> j, peek_ch |-> no, is_closed |-> b]
      BY <3>1
    <3> DEFINE p1 == [p0 EXCEPT !.pos = @ + 1]
    <3>3. p1 = [pos |-> j, peek_ch |-> no, is_closed |-> b] /\ q = [p1 EXCEPT !.peek_ch = ch]
      BY <3>1, <3>2 DEF unget_char
    <3> HIDE DEF p1
    <3>4. [p1 EXCEPT !.peek_ch = ch] = [pos |-> j, peek_ch |-> ch, is_closed |-> b]
      BY <3>3
    <3> QED
      BY <3>3, <3>4
  <2>6. t \o r.got = SubSeq(f, 1, j - 1)
    BY <1>9, <1>10, <2>1, <2>3
  <2> HIDE DEF q, ch, j
  <2>7. PortOK(f, q, SubSeq(f, 1, j - 1))
    BY <1>2, <2>3, <2>4, <2>5, PortAt
  <2> QED
    BY <2>1, <2>5, <2>6, <2>7 DEF b
<1> QED
  BY <1>11, <1>12

-----------------------------------------------------------------------------
(* The ports there are.                                                    *)

LEMMA InvInit ==
    ASSUME TextsAreTexts, PortsInit
    PROVE  Inv
<1>1. DOMAIN ports = {Console} /\ ports[Console] = New /\ DOMAIN taken = {Console} /\ taken[Console] = <<>>
  BY DEF PortsInit, With, Nothing
<1>2. PortOK(File(Console), New, <<>>)
  BY NewPort DEF File
<1>3. ~New.is_closed
  BY DEF New
<1>4. held = {} /\ stdin = Console
  BY DEF PortsInit
<1> QED
  BY <1>1, <1>2, <1>3, <1>4 DEF Inv

\* Reading changes one port, and leaves it open or closed as it was.
LEMMA ReadKeeps ==
    ASSUME Inv, NEW p \in DOMAIN ports, NEW q, NEW u, PortOK(File(p), q, u), q.is_closed = ports[p].is_closed,
           ports' = [ports EXCEPT ![p] = q], DOMAIN taken' = DOMAIN taken,
           \A x \in DOMAIN taken : taken'[x] = IF x = p THEN u ELSE taken[x],
           held' = held, stdin' = stdin
    PROVE  Inv'
<1>1. DOMAIN ports' = DOMAIN ports /\ \A x \in DOMAIN ports : ports'[x] = IF x = p THEN q ELSE ports[x]
  OBVIOUS
<1>2. /\ DOMAIN ports \subseteq Ids \cup {Console} /\ DOMAIN taken = DOMAIN ports
      /\ held \subseteq DOMAIN ports /\ stdin \in DOMAIN ports
      /\ Console \in DOMAIN ports /\ ~ports[Console].is_closed
      /\ \A x \in DOMAIN ports : PortOK(File(x), ports[x], taken[x])
  BY DEF Inv
<1>3. \A x \in DOMAIN ports' : PortOK(File(x), ports'[x], taken'[x])
  BY <1>1, <1>2
<1>4. ~ports'[Console].is_closed
  BY <1>1, <1>2
<1> QED
  BY <1>1, <1>2, <1>3, <1>4 DEF Inv

\* A port may be read when there is one.
LEMMA Reads ==
    ASSUME Inv, NEW p, Readable(p)
    PROVE  p \in DOMAIN ports /\ File(p) \in {Text, Typed} /\ PortOK(File(p), ports[p], taken[p])
BY DEF Readable, IsOpen, Inv, File

\* What is left when the collector is done: what the program can reach, as it was.
LEMMA Collected ==
    ASSUME Inv, NEW after, after = gc_with_finalizers(ports)
    PROVE  /\ DOMAIN after = DOMAIN ports \cap Reachable
           /\ \A x \in DOMAIN after : after[x] = ports[x]
           /\ held \subseteq DOMAIN after /\ stdin \in DOMAIN after /\ Console \in DOMAIN after
<1> DEFINE lost == DOMAIN ports \ Reachable
           ps   == Close(ports, lost)
<1>1. DOMAIN ps = DOMAIN ports /\ \A x \in DOMAIN ps : x \notin lost => ps[x] = ports[x]
  BY DEF Close
<1>2. after = Kept(ps)
  BY DEF gc_with_finalizers
<1> HIDE DEF ps
<1>3. DOMAIN after = DOMAIN ports \cap Reachable /\ \A x \in DOMAIN after : after[x] = ps[x]
  BY <1>1, <1>2 DEF Kept
<1>4. \A x \in DOMAIN after : after[x] = ports[x]
  BY <1>1, <1>3
<1> QED
  BY <1>3, <1>4 DEF Inv, Reachable

\* Ports go, and the rest stay.
LEMMA FewerKeeps ==
    ASSUME Inv, DOMAIN ports' \subseteq DOMAIN ports, \A x \in DOMAIN ports' : ports'[x] = ports[x],
           taken' = [x \in DOMAIN ports' |-> taken[x]],
           held' \subseteq held, held' \subseteq DOMAIN ports', stdin' = stdin, stdin \in DOMAIN ports',
           Console \in DOMAIN ports'
    PROVE  Inv'
<1>1. DOMAIN taken' = DOMAIN ports' /\ \A x \in DOMAIN ports' : taken'[x] = taken[x]
  OBVIOUS
<1> QED
  BY <1>1 DEF Inv

LEMMA CollectKeeps ==
    ASSUME Inv, collect
    PROVE  Inv'
<1> DEFINE after == gc_with_finalizers(ports)
<1>1. ports' = after /\ taken' = [x \in DOMAIN ports' |-> taken[x]] /\ UNCHANGED <<held, stdin>>
  BY DEF collect
<1>2. /\ DOMAIN after = DOMAIN ports \cap Reachable
      /\ \A x \in DOMAIN after : after[x] = ports[x]
      /\ held \subseteq DOMAIN after /\ stdin \in DOMAIN after /\ Console \in DOMAIN after
  BY Collected
<1> HIDE DEF after
<1> QED
  BY <1>1, <1>2, FewerKeeps

LEMMA LoseKeeps ==
    ASSUME Inv, NEW p, lose(p)
    PROVE  Inv'
<1>1. /\ p \in held /\ held' = held \ {p} /\ stdin' = stdin
      /\ taken' = [x \in DOMAIN ports' |-> taken[x]]
      /\ ports' = IF ports[p].is_closed /\ p # stdin THEN Without(ports, p) ELSE ports
  BY DEF lose
<1>2. held \subseteq DOMAIN ports /\ stdin \in DOMAIN ports /\ Console \in DOMAIN ports /\ ~ports[Console].is_closed
  BY DEF Inv
<1>3. CASE ports[p].is_closed /\ p # stdin
  <2>1. DOMAIN ports' = DOMAIN ports \ {p} /\ \A x \in DOMAIN ports' : ports'[x] = ports[x]
    BY <1>1, <1>3 DEF Without
  <2>2. p # Console
    BY <1>2, <1>3
  <2> QED
    BY <1>1, <1>2, <1>3, <2>1, <2>2, FewerKeeps
<1>4. CASE ~(ports[p].is_closed /\ p # stdin)
  <2>1. ports' = ports
    BY <1>1, <1>4
  <2> QED
    BY <1>1, <1>2, <2>1, FewerKeeps
<1> QED
  BY <1>3, <1>4

LEMMA CloseKeeps ==
    ASSUME Inv, NEW p, close(p)
    PROVE  Inv'
<1>1. p \in held /\ ports' = Close(ports, {p}) /\ UNCHANGED <<held, stdin, taken>>
  BY DEF close
<1>2. DOMAIN ports' = DOMAIN ports
  BY <1>1 DEF Close
<1>3. ASSUME NEW x \in DOMAIN ports
      PROVE  ports'[x] = ports[x] \/ (x # Console /\ ports'[x] = [ports[x] EXCEPT !.is_closed = TRUE])
  BY <1>1 DEF Close
<1>4. ASSUME NEW x \in DOMAIN ports PROVE PortOK(File(x), ports'[x], taken'[x])
  <2>1. PortOK(File(x), ports[x], taken[x]) /\ taken'[x] = taken[x]
    BY <1>1 DEF Inv
  <2>2. PortOK(File(x), [ports[x] EXCEPT !.is_closed = TRUE], taken[x])
    BY <2>1, ClosedKeeps
  <2> QED
    BY <1>3, <2>1, <2>2
<1>5. ports'[Console] = ports[Console]
  BY <1>3 DEF Inv
<1> QED
  BY <1>1, <1>2, <1>4, <1>5 DEF Inv

LEMMA OpenKeeps ==
    ASSUME TextsAreTexts, LimitIsNumber, Inv, open_input_file
    PROVE  Inv'
<1> DEFINE after == IF fopen(ports) THEN ports ELSE gc_with_finalizers(ports)
           free  == Ids \ DOMAIN after
           p     == CHOOSE x \in free : \A y \in free : x <= y
<1>1. /\ DOMAIN after \subseteq DOMAIN ports
      /\ \A x \in DOMAIN after : after[x] = ports[x]
      /\ held \subseteq DOMAIN after /\ stdin \in DOMAIN after /\ Console \in DOMAIN after
  <2>1. CASE fopen(ports)
    BY <2>1 DEF Inv
  <2>2. CASE ~fopen(ports)
    <3> DEFINE g == gc_with_finalizers(ports)
    <3>1. DOMAIN g \subseteq DOMAIN ports /\ (\A x \in DOMAIN g : g[x] = ports[x])
          /\ held \subseteq DOMAIN g /\ stdin \in DOMAIN g /\ Console \in DOMAIN g
      BY Collected
    <3>2. after = g
      BY <2>2
    <3> HIDE DEF g, after
    <3> QED
      BY <3>1, <3>2
  <2> QED
    BY <2>1, <2>2
<1>2. \/ /\ free # {} /\ ports' = With(after, p, New)
         /\ taken' = [x \in DOMAIN ports' |-> IF x = p THEN <<>> ELSE taken[x]]
         /\ held' = held \cup {p} /\ stdin' = stdin
      \/ /\ ports' = after /\ taken' = [x \in DOMAIN after |-> taken[x]]
         /\ held' = held /\ stdin' = stdin
  BY DEF open_input_file
<1>3. free # {} => p \in free
  <2>1. free \subseteq Nat
    BY DEF Ids, LimitIsNumber
  <2> HIDE DEF free
  <2> QED
    BY <2>1, LeastNumber
<1> HIDE DEF after, p
<1>4. CASE /\ free # {} /\ ports' = With(after, p, New)
           /\ taken' = [x \in DOMAIN ports' |-> IF x = p THEN <<>> ELSE taken[x]]
           /\ held' = held \cup {p} /\ stdin' = stdin
  <2>1. p \in Ids /\ p \notin DOMAIN after /\ p # Console
    BY <1>3, <1>4 DEF Ids, Console, LimitIsNumber
  <2>2. /\ DOMAIN ports' = DOMAIN after \cup {p}
        /\ \A x \in DOMAIN ports' : ports'[x] = IF x = p THEN New ELSE after[x]
        /\ DOMAIN taken' = DOMAIN ports' /\ \A x \in DOMAIN ports' : taken'[x] = IF x = p THEN <<>> ELSE taken[x]
    BY <1>4 DEF With
  <2>3. PortOK(File(p), New, <<>>)
    BY NewPort DEF File
  <2>4. ASSUME NEW x \in DOMAIN ports' PROVE PortOK(File(x), ports'[x], taken'[x])
    BY <1>1, <2>2, <2>3 DEF Inv
  <2>5. ~ports'[Console].is_closed
    BY <1>1, <2>1, <2>2 DEF Inv
  <2> QED
    BY <1>1, <1>4, <2>1, <2>2, <2>4, <2>5 DEF Inv
<1>5. CASE /\ ports' = after /\ taken' = [x \in DOMAIN after |-> taken[x]]
           /\ held' = held /\ stdin' = stdin
  BY <1>1, <1>5, FewerKeeps
<1> QED
  BY <1>2, <1>4, <1>5

LEMMA InvNext ==
    ASSUME TextsAreTexts, LimitIsNumber, Inv, [PortsNext]_portVars
    PROVE  Inv'
<1>1. \/ \E p : read_char(p) \/ peek(p) \/ read_line(p)
      \/ \E p : close(p) \/ lose(p) \/ set_current_input_port(p)
      \/ open_input_file \/ collect \/ read_closed \/ UNCHANGED portVars
  BY DEF PortsNext
<1>2. ASSUME NEW p, read_char(p) PROVE Inv'
  <2> DEFINE port == ports[p]
             f == File(p)
             r == get_char(f, port)
             u == IF r.ch = Eof THEN taken[p] ELSE Append(taken[p], r.ch)
             q == r.port
  <2>1. p \in DOMAIN ports /\ f \in {Text, Typed} /\ PortOK(f, port, taken[p])
    BY <1>2, Reads DEF read_char
  <2>2. /\ ports' = [ports EXCEPT ![p] = q] /\ held' = held /\ stdin' = stdin
        /\ taken' = IF r.ch = Eof THEN taken ELSE [taken EXCEPT ![p] = Append(@, r.ch)]
    BY <1>2 DEF read_char
  <2>3. /\ DOMAIN taken' = DOMAIN taken
        /\ \A x \in DOMAIN taken : taken'[x] = IF x = p THEN u ELSE taken[x]
    <3> HIDE DEF r
    <3> QED
      BY <2>2
  <2>4. PortOK(f, q, u) /\ q.is_closed = port.is_closed
    <3> HIDE DEF f, port
    <3> DEFINE t == taken[p]
    <3> HIDE DEF t
    <3>1. PortOK(f, r.port, IF r.ch = Eof THEN t ELSE Append(t, r.ch)) /\ r.port.is_closed = port.is_closed
      BY <2>1, GetKeeps DEF t
    <3> QED
      BY <3>1 DEF t
  <2> HIDE DEF q, u
  <2> QED
    BY <2>1, <2>2, <2>3, <2>4, ReadKeeps
<1>3. ASSUME NEW p, peek(p) PROVE Inv'
  <2> DEFINE port == ports[p]
             f == File(p)
             q == peek_char(f, port).port
             u == taken[p]
  <2>1. p \in DOMAIN ports /\ f \in {Text, Typed} /\ PortOK(f, port, u)
    BY <1>3, Reads DEF peek
  <2>2. ports' = [ports EXCEPT ![p] = q] /\ held' = held /\ stdin' = stdin /\ taken' = taken
    BY <1>3 DEF peek
  <2>3. PortOK(f, q, u) /\ q.is_closed = port.is_closed
    <3> HIDE DEF f, port, u
    <3> QED
      BY <2>1, PeekKeeps
  <2>4. \A x \in DOMAIN taken : taken'[x] = IF x = p THEN u ELSE taken[x]
    BY <2>2
  <2> HIDE DEF q, u
  <2> QED
    BY <2>1, <2>2, <2>3, <2>4, ReadKeeps
<1>4. ASSUME NEW p, read_line(p) PROVE Inv'
  <2> DEFINE port == ports[p]
             f == File(p)
             r == line_from(f, port)
             t == taken[p]
             u == t \o r.got
             q == r.port
  <2>1. p \in DOMAIN ports /\ f \in {Text, Typed} /\ PortOK(f, port, t)
    BY <1>4, Reads DEF read_line
  <2>2. /\ ports' = [ports EXCEPT ![p] = q] /\ held' = held /\ stdin' = stdin
        /\ taken' = [taken EXCEPT ![p] = @ \o r.got]
    BY <1>4 DEF read_line
  <2>3. /\ DOMAIN taken' = DOMAIN taken
        /\ \A x \in DOMAIN taken : taken'[x] = IF x = p THEN u ELSE taken[x]
    <3> HIDE DEF r
    <3> QED
      BY <2>2
  <2>4. PortOK(f, q, u) /\ q.is_closed = port.is_closed
    <3> HIDE DEF f, port, t
    <3> QED
      BY <2>1, LineKeeps
  <2> HIDE DEF q, u
  <2> QED
    BY <2>1, <2>2, <2>3, <2>4, ReadKeeps
<1>5. ASSUME NEW p, set_current_input_port(p) PROVE Inv'
  BY <1>5 DEF set_current_input_port, Inv
<1>6. CASE read_closed \/ UNCHANGED portVars
  BY <1>6 DEF read_closed, portVars, Inv
<1> QED
  BY <1>1, <1>2, <1>3, <1>4, <1>5, <1>6, CloseKeeps, LoseKeeps, OpenKeeps, CollectKeeps

LEMMA AlwaysInv ==
    ASSUME TextsAreTexts, LimitIsNumber
    PROVE  PortsSpec => []Inv
<1>1. PortsInit => Inv
  BY InvInit
<1>2. Inv /\ [PortsNext]_portVars => Inv'
  BY InvNext
<1> QED
  BY <1>1, <1>2, PTL DEF PortsSpec

-----------------------------------------------------------------------------
(* What follows.                                                           *)

LEMMA CountTo ==
    ASSUME NEW n \in Nat
    PROVE  IsFiniteSet(1..n) /\ Cardinality(1..n) = n
<1> DEFINE one == 1
<1>1. one \in Int /\ n \in Int
  OBVIOUS
<1>2. (IF one > n THEN 0 ELSE n - one + 1) = n
  OBVIOUS
<1> HIDE DEF one
<1>3. IsFiniteSet(one..n) /\ Cardinality(one..n) = IF one > n THEN 0 ELSE n - one + 1
  BY <1>1, FS_Interval
<1> QED
  BY <1>2, <1>3 DEF one

LEMMA NotLess ==
    ASSUME NEW m \in Nat, NEW n \in Nat, m <= n, ~(m < n)
    PROVE  m = n
OBVIOUS

\* Every character of a file is taken once and in its place, however
\* read-char, peek-char and read-line follow one another (Port::get_char,
\* peek_char, unget_char and prim_read_line in scheme14.cpp).
THEOREM TextIsInOrder ==
    ASSUME TextsAreTexts, LimitIsNumber
    PROVE  PortsSpec => []TextInOrder
<1>1. Inv => TextInOrder
  <2> SUFFICES ASSUME Inv, NEW p \in DOMAIN ports
               PROVE  taken[p] \o Ahead(ports[p]) \o SubSeq(File(p), ports[p].pos + 1, Len(File(p))) = File(p)
    BY DEF TextInOrder
  <2> DEFINE f == File(p)
             port == ports[p]
             t == taken[p]
  <2>1. f \in Seq(Characters) /\ PortOK(f, port, t)
    BY DEF Inv, File, TextsAreTexts
  <2> HIDE DEF f, port, t
  <2>2. t \o Ahead(port) \o SubSeq(f, port.pos + 1, Len(f)) = f
    BY <2>1, WholeText
  <2> QED
    BY <2>2 DEF f, port, t
<1> QED
  BY <1>1, AlwaysInv, PTL

\* An open that finds no descriptor, and none after the collection it asked
\* for, fails because the program holds them all (fopen_with_gc_retry and
\* port_finalizer in scheme14.cpp).
THEOREM OneCollectionIsEnough ==
    ASSUME TextsAreTexts, LimitIsNumber
    PROVE  PortsSpec => []OpensIfItCan
<1>1. PortsInit => OpensIfItCan
  BY DEF PortsInit, OpensIfItCan
<1>2. Inv /\ OpensIfItCan /\ [PortsNext]_portVars => OpensIfItCan'
  <2> SUFFICES ASSUME Inv, OpensIfItCan, [PortsNext]_portVars, outcome' = "no descriptors"
               PROVE  Cardinality(Open(Kept(ports)))' = Limit
    BY DEF OpensIfItCan
  <2>1. CASE UNCHANGED portVars
    BY <2>1 DEF portVars, OpensIfItCan, Open, Kept, Reachable
  <2>2. CASE open_input_file
    <3> DEFINE after == gc_with_finalizers(ports)
    <3>1. ports' = after /\ ~fopen(after) /\ held' = held /\ stdin' = stdin
      BY <2>2 DEF open_input_file
    <3>2. /\ DOMAIN after = DOMAIN ports \cap Reachable
          /\ \A x \in DOMAIN after : after[x] = ports[x]
      BY Collected
    <3>3. after = [x \in DOMAIN after |-> after[x]]
      BY DEF gc_with_finalizers, Kept
    <3> HIDE DEF after
    <3>4. Reachable' = Reachable
      BY <3>1 DEF Reachable
    <3>5. Kept(ports)' = after
      <4>1. Kept(ports)' = [x \in DOMAIN ports' \cap Reachable' |-> ports'[x]]
        BY DEF Kept
      <4>2. DOMAIN ports' \cap Reachable' = DOMAIN after
        BY <3>1, <3>2, <3>4
      <4> QED
        BY <3>1, <3>3, <4>1, <4>2
    <3>6. IsFiniteSet(1..Limit) /\ Cardinality(1..Limit) = Limit
      BY CountTo DEF LimitIsNumber
    <3>7. Open(after) \subseteq 1..Limit
      BY <3>2 DEF Open, Inv, Ids
    <3>8. Cardinality(Open(after)) \in Nat /\ Cardinality(Open(after)) <= Limit
      BY <3>6, <3>7, FS_Subset, FS_CardinalityType
    <3>9. Cardinality(Open(after)) = Limit
      <4>1. ~(Cardinality(Open(after)) < Limit)
        BY <3>1 DEF fopen
      <4> QED
        BY <3>8, <4>1, NotLess DEF LimitIsNumber
    <3>10. Open(Kept(ports))' = Open(after)
      <4>1. Open(Kept(ports))' = {x \in DOMAIN (Kept(ports)') \ {Console} : ~(Kept(ports)')[x].is_closed}
        BY DEF Open
      <4> QED
        BY <3>5, <4>1 DEF Open
    <3> QED
      BY <3>9, <3>10
  <2>3. CASE PortsNext /\ ~open_input_file
    BY <2>3 DEF PortsNext, read_char, peek, read_line, close, lose, set_current_input_port, collect, read_closed
  <2> QED
    BY <2>1, <2>2, <2>3
<1> QED
  BY <1>1, <1>2, AlwaysInv, PTL DEF PortsSpec
=============================================================================
