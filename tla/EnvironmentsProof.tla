-------------------------- MODULE EnvironmentsProof --------------------------
(***************************************************************************)
(* Theorems about Environments, for any names, forms, macros, libraries    *)
(* and candidates, nested to any depth.                                    *)
(*                                                                         *)
(* Every step but an error takes the innermost frame off the stack, puts a *)
(* few on it, or both. What makes a stack sound is therefore kept by two   *)
(* lemmas, Pop and Push, and one for errors.                               *)
(***************************************************************************)
EXTENDS Environments, Integers, SequenceTheorems, WellFoundedInduction, TLAPS

Writes == {"define", "define-macro", "set!"}

CompileFrame == [at : {"compile"}, form : Form, env : Env, saved : Env, top : BOOLEAN]
RunFrame     == [at : {"run"}, form : Form, env : Env]
LoadFrame    == [at : {"load", "library"}, forms : Seq(Form)]

TablesTyped ==
    /\ disk \in Disks /\ DOMAIN tables = Env /\ DOMAIN tables["interaction"] = Names
    /\ \A e \in Env : \A n \in DOMAIN tables[e] :
          tables[e][n].macro \in {NoMacro} \cup [does : Form, gives : Form]

\* The innermost of the first n frames that compiles does so in e.
CompilesIn(s, n, e) ==
    \/ (\A j \in 1..n : s[j].at # "compile") /\ e = "interaction"
    \/ \E j \in 1..n : /\ s[j].at = "compile" /\ s[j].env = e
                       /\ \A m \in j + 1..n : s[m].at # "compile"

HasMachine(s, n) == \E m \in 1..n : s[m].at = "machine"
NeedsMachine(f)  == f.at \in {"run", "catch"} \/ (f.at = "compile" /\ ~f.top)

\* A guard holds the table of the compilation around it; only a machine of its
\* own runs while a form is compiled; code that writes was compiled in the
\* interaction environment.
SoundAt(s, k) ==
    /\ s[k].at = "compile" => CompilesIn(s, k - 1, s[k].saved)
    /\ s[k].at = "compile" /\ k < Len(s) => s[k + 1].at = "machine"
    /\ NeedsMachine(s[k]) => HasMachine(s, k - 1)
    /\ s[k].at = "run" /\ s[k].form.op \in Writes => s[k].env = "interaction"

Sound(s, t) ==
    /\ s \in Seq(Frame) /\ t \in Env
    /\ \A k \in 1..Len(s) : SoundAt(s, k)
    /\ CompilesIn(s, Len(s), t)

Inv == TablesTyped /\ Sound(stack, compileTable)

-----------------------------------------------------------------------------
(* Frames and stacks.                                                      *)

LEMMA FrameKinds ==
    ASSUME NEW f \in Frame
    PROVE  /\ f.at \in {"compile", "run", "load", "library", "machine", "catch"}
           /\ f.at = "compile" => f \in CompileFrame
           /\ f.at = "run" => f \in RunFrame
           /\ f.at \in {"load", "library"} => f \in LoadFrame
           /\ f.at = "machine" => f = Machine
           /\ f.at = "catch" => f = Catch
BY DEF Frame, CompileFrame, RunFrame, LoadFrame, Machine, Catch

LEMMA Frames ==
    /\ CompileFrame \subseteq Frame /\ RunFrame \subseteq Frame /\ LoadFrame \subseteq Frame
    /\ Machine \in Frame /\ Catch \in Frame
    /\ Machine.at = "machine" /\ Catch.at = "catch"
BY DEF Frame, CompileFrame, RunFrame, LoadFrame, Machine, Catch

LEMMA FrontIs ==
    ASSUME NEW S, NEW s \in Seq(S), s # <<>>
    PROVE  LET b == SubSeq(s, 1, Len(s) - 1) IN
           /\ Len(s) \in Nat \ {0} /\ s[Len(s)] \in S
           /\ b \in Seq(S) /\ Len(b) = Len(s) - 1
           /\ \A k \in 1..Len(b) : b[k] = s[k]
<1>1. Len(s) \in Nat \ {0} /\ Len(s) \in Nat /\ Len(s) >= 1
  BY EmptySeq
<1>2. \A k \in 1..Len(s) : s[k] \in S
  BY ElementOfSeq
<1> DEFINE b == SubSeq(s, 1, Len(s) - 1)
<1>3. \A k \in 1..Len(s) - 1 : s[k] \in S
  BY <1>1, <1>2
<1>4. /\ b \in Seq(S) /\ Len(b) = IF 1 <= Len(s) - 1 THEN Len(s) - 1 - 1 + 1 ELSE 0
      /\ \A k \in 1..Len(s) - 1 - 1 + 1 : b[k] = s[1 + k - 1]
  <2>1. Len(s) - 1 \in Int
    BY <1>1
  <2> QED
    BY <1>3, <2>1, SubSeqProperties
<1> HIDE DEF b
<1>5. Len(b) = Len(s) - 1
  <2> DEFINE n == Len(s)
             m == Len(b)
  <2>1. n \in Nat /\ n >= 1 /\ m = IF 1 <= n - 1 THEN n - 1 - 1 + 1 ELSE 0
    BY <1>1, <1>4
  <2> HIDE DEF n, m
  <2>2. m = n - 1
    BY <2>1
  <2> QED
    BY <2>2 DEF n, m
<1>6. \A k \in 1..Len(b) : b[k] = s[k]
  BY <1>1, <1>4, <1>5
<1> QED
  BY <1>1, <1>2, <1>4, <1>5, <1>6 DEF b

\* What compiles in the first frames depends on them alone.
LEMMA SameFront ==
    ASSUME NEW s, NEW a, NEW n \in Int, \A k \in 1..n : a[k] = s[k]
    PROVE  /\ \A e : CompilesIn(s, n, e) <=> CompilesIn(a, n, e)
           /\ HasMachine(s, n) <=> HasMachine(a, n)
<1>1. ASSUME NEW e PROVE CompilesIn(s, n, e) <=> CompilesIn(a, n, e)
  <2>1. (\A j \in 1..n : s[j].at # "compile") <=> (\A j \in 1..n : a[j].at # "compile")
    OBVIOUS
  <2>2. ASSUME NEW j \in 1..n
        PROVE  (\A m \in j + 1..n : s[m].at # "compile") <=> (\A m \in j + 1..n : a[m].at # "compile")
    OBVIOUS
  <2> QED
    BY <2>1, <2>2 DEF CompilesIn
<1>2. HasMachine(s, n) <=> HasMachine(a, n)
  BY DEF HasMachine
<1> QED
  BY <1>1, <1>2

\* The innermost frame is taken off.
LEMMA Pop ==
    ASSUME NEW s, NEW t, Sound(s, t), s # <<>>
    PROVE  LET b == SubSeq(s, 1, Len(s) - 1)
               f == s[Len(s)]
           IN /\ Sound(b, IF f.at = "compile" THEN f.saved ELSE t)
              /\ f \in Frame
              /\ f.at = "compile" => t = f.env
              /\ NeedsMachine(f) => HasMachine(b, Len(b))
              /\ b # <<>> /\ b[Len(b)].at = "compile" => f.at = "machine"
              /\ f.at = "run" /\ f.form.op \in Writes => f.env = "interaction"
<1> DEFINE b == SubSeq(s, 1, Len(s) - 1)
           f == s[Len(s)]
           u == IF f.at = "compile" THEN f.saved ELSE t
<1>1. /\ s \in Seq(Frame) /\ t \in Env
      /\ \A k \in 1..Len(s) : SoundAt(s, k)
      /\ CompilesIn(s, Len(s), t)
  BY DEF Sound
<1>2. /\ Len(s) \in Nat \ {0} /\ f \in Frame
      /\ b \in Seq(Frame) /\ Len(b) = Len(s) - 1
      /\ \A k \in 1..Len(b) : b[k] = s[k]
  BY <1>1, FrontIs
<1> HIDE DEF b
<1>3. ASSUME NEW k \in 1..Len(b) PROVE SoundAt(b, k)
  <2>1. SoundAt(s, k) /\ b[k] = s[k]
    BY <1>1, <1>2
  <2>2. k - 1 \in Int /\ \A j \in 1..k - 1 : b[j] = s[j]
    BY <1>2
  <2>3. /\ CompilesIn(s, k - 1, s[k].saved) => CompilesIn(b, k - 1, s[k].saved)
        /\ HasMachine(s, k - 1) => HasMachine(b, k - 1)
    BY <2>2, SameFront
  <2>4. k < Len(b) => k < Len(s) /\ b[k + 1] = s[k + 1]
    BY <1>2
  <2> QED
    BY <2>1, <2>3, <2>4 DEF SoundAt
<1>4. SoundAt(s, Len(s))
  BY <1>1, <1>2
<1>5. u \in Env
  BY <1>1, <1>2, FrameKinds DEF CompileFrame
<1>6. CompilesIn(b, Len(b), u)
  <2>1. CASE f.at = "compile"
    <3>1. CompilesIn(s, Len(s) - 1, f.saved)
      BY <1>4, <2>1 DEF SoundAt
    <3> QED
      BY <3>1, <2>1, <1>2, SMTT(30) DEF CompilesIn
  <2>2. CASE f.at # "compile"
    BY <2>2, <1>1, <1>2 DEF CompilesIn
  <2> QED
    BY <2>1, <2>2
<1>7. f.at = "compile" => t = f.env
  BY <1>1, <1>2 DEF CompilesIn
<1>8. NeedsMachine(f) => HasMachine(b, Len(b))
  BY <1>2, <1>4 DEF SoundAt, HasMachine
<1>9. b # <<>> /\ b[Len(b)].at = "compile" => f.at = "machine"
  <2> SUFFICES ASSUME b # <<>>, b[Len(b)].at = "compile" PROVE f.at = "machine"
    OBVIOUS
  <2>1. Len(b) \in 1..Len(s) /\ Len(b) + 1 = Len(s) /\ b[Len(b)] = s[Len(b)]
    BY <1>2, EmptySeq
  <2> QED
    BY <2>1, <1>1, <1>2 DEF SoundAt
<1>10. f.at = "run" /\ f.form.op \in Writes => f.env = "interaction"
  BY <1>4 DEF SoundAt
<1> QED
  BY <1>2, <1>3, <1>5, <1>6, <1>7, <1>8, <1>9, <1>10 DEF Sound, b

\* A frame is put on.
Fits(s, t, f) ==
    /\ f \in Frame
    /\ s # <<>> /\ s[Len(s)].at = "compile" => f.at = "machine"
    /\ f.at = "compile" => f.saved = t
    /\ NeedsMachine(f) => HasMachine(s, Len(s))
    /\ f.at = "run" /\ f.form.op \in Writes => f.env = "interaction"

LEMMA Push ==
    ASSUME NEW s, NEW t, Sound(s, t), NEW f, Fits(s, t, f)
    PROVE  Sound(Append(s, f), IF f.at = "compile" THEN f.env ELSE t)
<1> DEFINE a == Append(s, f)
           u == IF f.at = "compile" THEN f.env ELSE t
<1>1. /\ s \in Seq(Frame) /\ t \in Env
      /\ \A k \in 1..Len(s) : SoundAt(s, k)
      /\ CompilesIn(s, Len(s), t)
  BY DEF Sound
<1>2. f \in Frame
  BY DEF Fits
<1>3. /\ Len(s) \in Nat
      /\ a \in Seq(Frame) /\ Len(a) = Len(s) + 1 /\ a[Len(a)] = f
      /\ \A k \in 1..Len(s) : a[k] = s[k]
  BY <1>1, <1>2, AppendProperties, LenProperties
<1> HIDE DEF a
<1>4. ASSUME NEW k \in 1..Len(s) PROVE SoundAt(a, k)
  <2>1. SoundAt(s, k) /\ a[k] = s[k]
    BY <1>1, <1>3
  <2>2. k - 1 \in Int /\ \A j \in 1..k - 1 : a[j] = s[j]
    BY <1>3
  <2>3. /\ CompilesIn(s, k - 1, s[k].saved) => CompilesIn(a, k - 1, s[k].saved)
        /\ HasMachine(s, k - 1) => HasMachine(a, k - 1)
    BY <2>2, SameFront
  <2>4. s[k].at = "compile" => a[k + 1].at = "machine"
    <3>1. CASE k = Len(s)
      BY <3>1, <1>3 DEF Fits
    <3>2. CASE k < Len(s)
      BY <3>2, <2>1, <1>3 DEF SoundAt
    <3> QED
      BY <3>1, <3>2, <1>3
  <2> QED
    BY <2>1, <2>2, <2>3, <2>4 DEF SoundAt
<1>5. SoundAt(a, Len(a))
  <2>1. f.at = "compile" => CompilesIn(a, Len(s), f.saved)
    BY <1>1, <1>3 DEF CompilesIn, Fits
  <2>2. NeedsMachine(f) => HasMachine(a, Len(s))
    BY <1>3 DEF HasMachine, Fits
  <2> QED
    BY <2>1, <2>2, <1>3 DEF SoundAt, Fits
<1>6. u \in Env
  BY <1>1, <1>2, FrameKinds DEF CompileFrame
<1>7. CompilesIn(a, Len(a), u)
  <2>1. CASE f.at = "compile"
    BY <2>1, <1>3 DEF CompilesIn
  <2>2. CASE f.at # "compile"
    <3>1. CASE \A j \in 1..Len(s) : s[j].at # "compile"
      BY <3>1, <2>2, <1>1, <1>3 DEF CompilesIn
    <3>2. CASE ~ \A j \in 1..Len(s) : s[j].at # "compile"
      <4>1. PICK j \in 1..Len(s) : /\ s[j].at = "compile" /\ s[j].env = t
                                   /\ \A m \in j + 1..Len(s) : s[m].at # "compile"
        BY <3>2, <1>1 DEF CompilesIn
      <4>2. \A m \in j + 1..Len(a) : a[m].at # "compile"
        BY <4>1, <2>2, <1>3
      <4> QED
        BY <4>1, <4>2, <2>2, <1>3 DEF CompilesIn
    <3> QED
      BY <3>1, <3>2
  <2> QED
    BY <2>1, <2>2
<1> QED
  BY <1>3, <1>4, <1>5, <1>6, <1>7 DEF Sound, a

LEMMA Appended ==
    ASSUME NEW s \in Seq(Frame), NEW f \in Frame
    PROVE  LET a == Append(s, f) IN
           /\ a \in Seq(Frame) /\ a # <<>> /\ a[Len(a)] = f /\ a = s \o <<f>>
           /\ HasMachine(s, Len(s)) \/ f.at = "machine" => HasMachine(a, Len(a))
<1> DEFINE a == Append(s, f)
<1>1. /\ Len(s) \in Nat /\ a \in Seq(Frame) /\ Len(a) = Len(s) + 1
      /\ a[Len(s) + 1] = f /\ \A k \in 1..Len(s) : a[k] = s[k]
      /\ a = s \o <<f>> /\ a # <<>>
  BY AppendProperties, AppendIsConcat, LenProperties
<1> HIDE DEF a
<1> QED
  BY <1>1 DEF HasMachine, a

LEMMA ThreeMore ==
    ASSUME NEW S, NEW s \in Seq(S), NEW x \in S, NEW y \in S, NEW z \in S
    PROVE  s \o <<x, y, z>> = Append(Append(Append(s, x), y), z)
<1> DEFINE more == <<x, y, z>>
           joined == s \o more
           a == Append(s, x)
           b == Append(a, y)
           c == Append(b, z)
<1>1. /\ more \in Seq(S) /\ Len(more) = 3
      /\ more[1] = x /\ more[2] = y /\ more[3] = z
  OBVIOUS
<1> HIDE DEF more
<1>2. /\ joined \in Seq(S) /\ Len(joined) = Len(s) + Len(more)
      /\ \A k \in 1..Len(s) + Len(more) : joined[k] = IF k <= Len(s) THEN s[k] ELSE more[k - Len(s)]
  BY <1>1, ConcatProperties
<1>3. a \in Seq(S) /\ Len(a) = Len(s) + 1 /\ a[Len(s) + 1] = x /\ \A k \in 1..Len(s) : a[k] = s[k]
  BY AppendProperties
<1> HIDE DEF a
<1>4. b \in Seq(S) /\ Len(b) = Len(a) + 1 /\ b[Len(a) + 1] = y /\ \A k \in 1..Len(a) : b[k] = a[k]
  BY <1>3, AppendProperties
<1> HIDE DEF b
<1>5. c \in Seq(S) /\ Len(c) = Len(b) + 1 /\ c[Len(b) + 1] = z /\ \A k \in 1..Len(b) : c[k] = b[k]
  BY <1>4, AppendProperties
<1> HIDE DEF c, joined
<1>6. Len(s) \in Nat
  BY LenProperties
<1>7. Len(c) = Len(joined) /\ Len(joined) = Len(s) + 3
  BY <1>1, <1>2, <1>3, <1>4, <1>5, <1>6
<1>8. ASSUME NEW k \in 1..Len(joined) PROVE joined[k] = c[k]
  <2>1. CASE k \in 1..Len(s)
    BY <2>1, <1>1, <1>2, <1>3, <1>4, <1>5, <1>6, SMTT(30)
  <2>2. CASE k = Len(s) + 1
    <3>1. k - Len(s) = 1 /\ ~(k <= Len(s)) /\ k \in 1..Len(s) + Len(more)
      BY <2>2, <1>1, <1>6
    <3>2. joined[k] = more[1]
      BY <3>1, <1>2
    <3>3. c[k] = x
      BY <2>2, <1>3, <1>4, <1>5, <1>6
    <3> QED
      BY <3>2, <3>3, <1>1
  <2>3. CASE k = Len(s) + 2
    <3>1. k - Len(s) = 2 /\ ~(k <= Len(s)) /\ k \in 1..Len(s) + Len(more)
      BY <2>3, <1>1, <1>6
    <3>2. joined[k] = more[2]
      BY <3>1, <1>2
    <3>3. c[k] = y
      BY <2>3, <1>3, <1>4, <1>5, <1>6
    <3> QED
      BY <3>2, <3>3, <1>1
  <2>4. CASE k = Len(s) + 3
    <3>1. k - Len(s) = 3 /\ ~(k <= Len(s)) /\ k \in 1..Len(s) + Len(more)
      BY <2>4, <1>1, <1>6
    <3>2. joined[k] = more[3]
      BY <3>1, <1>2
    <3>3. c[k] = z
      BY <2>4, <1>3, <1>4, <1>5, <1>6
    <3> QED
      BY <3>2, <3>3, <1>1
  <2> QED
    BY <1>6, <1>7, <2>1, <2>2, <2>3, <2>4
<1>9. joined = c
  BY <1>2, <1>5, <1>7, <1>8, SeqEqual
<1> QED
  BY <1>9 DEF joined, more, a, b, c

-----------------------------------------------------------------------------
(* The steps, errors aside.                                                *)

\* What is left below the innermost frame.
LEMMA Popped ==
    ASSUME Inv, stack # <<>>
    PROVE  /\ Below \in Seq(Frame) /\ Top \in Frame
           /\ Sound(Below, IF Top.at = "compile" THEN Top.saved ELSE compileTable)
           /\ Top.at = "compile" => compileTable = Top.env
           /\ NeedsMachine(Top) => HasMachine(Below, Len(Below))
           /\ Top.at # "machine" /\ Below # <<>> => Below[Len(Below)].at # "compile"
           /\ Top.at = "run" /\ Top.form.op \in Writes => Top.env = "interaction"
BY Pop DEF Inv, Below, Top, Sound

LEMMA ReturnKeeps ==
    ASSUME Inv, stack # <<>>, Top.at # "compile", Return
    PROVE  Sound(stack', compileTable')
BY Popped DEF Return

LEMMA EnterKeeps ==
    ASSUME NEW below, Sound(below, compileTable),
           below # <<>> => below[Len(below)].at # "compile",
           NEW f \in Form, NEW e \in Env, NEW top \in BOOLEAN,
           top \/ HasMachine(below, Len(below)),
           Enter(below, f, e, top)
    PROVE  Sound(stack', compileTable')
<1> DEFINE c == Compiling(f, e, compileTable, top)
<1>1. /\ c \in CompileFrame /\ c.at = "compile" /\ c.env = e
      /\ c.saved = compileTable /\ c.top = top
  BY DEF Compiling, CompileFrame, Sound
<1>2. Fits(below, compileTable, c)
  BY <1>1, Frames DEF Fits, NeedsMachine
<1> HIDE DEF c
<1>3. Sound(Append(below, c), IF c.at = "compile" THEN c.env ELSE compileTable)
  BY <1>2, Push
<1> QED
  BY <1>1, <1>3 DEF Enter, c

LEMMA LoadingKeeps ==
    ASSUME NEW below, Sound(below, compileTable),
           below # <<>> => below[Len(below)].at # "compile",
           NEW at \in {"load", "library"}, NEW fs \in Seq(Form)
    PROVE  /\ Sound(Append(below, Loading(at, fs)), compileTable)
           /\ LET a == Append(below, Loading(at, fs)) IN a[Len(a)].at = at /\ a \in Seq(Frame)
<1> DEFINE l == Loading(at, fs)
<1>1. l \in LoadFrame /\ l.at = at
  BY DEF Loading, LoadFrame
<1>2. l \in Frame
  BY <1>1, Frames
<1>3. Fits(below, compileTable, l)
  BY <1>1, <1>2 DEF Fits, NeedsMachine
<1>4. below \in Seq(Frame)
  BY SMTT(30) DEF Sound
<1> HIDE DEF l
<1> QED
  BY <1>1, <1>2, <1>3, <1>4, Push, Appended DEF l

LEMMA ExpandKeeps == Inv /\ Expand => Inv'
<1> SUFFICES ASSUME Inv, Expand PROVE Inv'
  OBVIOUS
<1> DEFINE m == tables[compileTable][Top.form.name].macro
           x == [Top EXCEPT !.form = m.gives]
           r == Running(m.does, "interaction")
           s1 == Append(Below, x)
           s2 == Append(s1, Machine)
           s3 == Append(s2, r)
<1>1. stack # <<>> /\ Top.at = "compile"
  BY DEF Expand, At
<1>2. Top \in CompileFrame /\ Below \in Seq(Frame) /\ Sound(Below, Top.saved)
  BY <1>1, Popped, FrameKinds
<1>3. compileTable \in Env /\ compileTable = Top.env
  BY <1>1, Popped, SMTT(30) DEF Inv, Sound
<1>4. m.gives \in Form /\ m.does \in Form
  BY <1>3 DEF Expand, Expands, Inv, TablesTyped
<1>5. /\ x \in CompileFrame /\ x.at = "compile" /\ x.env = compileTable
      /\ x.saved = Top.saved /\ x.top = Top.top
  BY <1>2, <1>3, <1>4 DEF CompileFrame
<1>6. r \in RunFrame /\ r.at = "run" /\ r.env = "interaction"
  BY <1>4 DEF Running, RunFrame, Env
<1>7. stack' = s3 /\ compileTable' = compileTable
  <2>1. x \in Frame /\ Machine \in Frame /\ r \in Frame
    BY <1>5, <1>6, Frames
  <2>2. stack' = Below \o <<x, Machine, r>> /\ compileTable' = compileTable
    BY DEF Expand
  <2> QED
    <3> HIDE DEF x, r
    <3> QED
      BY <1>2, <2>1, <2>2, ThreeMore
<1>8. Fits(Below, Top.saved, x)
  <2>1. NeedsMachine(x) => NeedsMachine(Top)
    BY <1>1, <1>5 DEF NeedsMachine
  <2> QED
    BY <1>1, <1>5, <2>1, Popped, Frames DEF Fits
<1> HIDE DEF x, r
<1>9. Sound(s1, compileTable) /\ s1 \in Seq(Frame)
  BY <1>2, <1>5, <1>8, Push, Appended, Frames
<1>10. s2 \in Seq(Frame) /\ HasMachine(s2, Len(s2)) /\ s2[Len(s2)] = Machine /\ Sound(s2, compileTable)
  <2>1. Fits(s1, compileTable, Machine)
    BY Frames DEF Fits, NeedsMachine
  <2> HIDE DEF s1
  <2> QED
    BY <1>9, <2>1, Push, Appended, Frames
<1>11. Sound(s3, compileTable)
  <2>1. Fits(s2, compileTable, r)
    BY <1>6, <1>10, Frames DEF Fits
  <2> HIDE DEF s2
  <2> QED
    BY <1>6, <1>10, <2>1, Push
<1> QED
  BY <1>7, <1>11 DEF Inv, TablesTyped, Expand

LEMMA CompiledKeeps == Inv /\ Compiled => Inv'
<1> SUFFICES ASSUME Inv, Compiled PROVE Inv'
  OBVIOUS
<1> DEFINE r == Running(Top.form, compileTable)
           s1 == IF Top.top THEN Append(Below, Machine) ELSE Below
           s2 == Append(s1, r)
<1>1. stack # <<>> /\ Top.at = "compile"
  BY DEF Compiled, At
<1>2. /\ Top \in CompileFrame /\ Below \in Seq(Frame) /\ Sound(Below, Top.saved)
      /\ compileTable \in Env
  BY <1>1, Popped, FrameKinds DEF Inv, Sound
<1>3. r \in RunFrame /\ r.at = "run" /\ r.env = compileTable /\ r.form = Top.form
  BY <1>2 DEF Running, RunFrame, CompileFrame
<1>4. s1 \in Seq(Frame) /\ Sound(s1, Top.saved) /\ HasMachine(s1, Len(s1))
      /\ (s1 # <<>> => s1[Len(s1)].at # "compile")
  <2>1. CASE Top.top
    <3>1. Fits(Below, Top.saved, Machine)
      BY Frames DEF Fits, NeedsMachine
    <3> QED
      BY <2>1, <3>1, <1>2, Push, Appended, Frames
  <2>2. CASE ~Top.top
    <3>1. HasMachine(Below, Len(Below))
      BY <1>1, <2>2, Popped DEF NeedsMachine
    <3>2. Below # <<>> => Below[Len(Below)].at # "compile"
      BY <1>1, Popped
    <3> QED
      BY <2>2, <3>1, <3>2, <1>2
  <2> QED
    BY <2>1, <2>2
<1>5. stack' = s2 /\ compileTable' = Top.saved
  <2>1. stack' = s1 \o <<r>> /\ compileTable' = Top.saved
    BY DEF Compiled
  <2> HIDE DEF s1, r
  <2> QED
    BY <2>1, <1>3, <1>4, Appended, Frames
<1>6. r.form.op \in Writes => r.env = "interaction"
  BY <1>3 DEF Compiled, Rejected, Is, Writes
<1> HIDE DEF s1, r
<1>7. Fits(s1, Top.saved, r)
  BY <1>3, <1>4, <1>6, Frames DEF Fits
<1>8. Sound(s2, Top.saved)
  BY <1>3, <1>4, <1>7, Push
<1> QED
  BY <1>5, <1>8 DEF Inv, TablesTyped, Compiled

\* A cell of the name gets a macro of the right kind.
LEMMA StoreKeeps ==
    ASSUME TablesTyped, NEW v, NEW m \in {NoMacro} \cup [does : Form, gives : Form],
           Top.env \in Env, Top.form.name \in Names, Store(Cell(v, m)), UNCHANGED disk
    PROVE  TablesTyped'
<1>1. tables' = [tables EXCEPT ![Top.env] = With(tables[Top.env], Top.form.name, Cell(v, m))]
  BY DEF Store
<1>2. /\ DOMAIN tables' = Env
      /\ \A e \in Env : tables'[e] = IF e = Top.env THEN With(tables[e], Top.form.name, Cell(v, m))
                                                   ELSE tables[e]
  BY <1>1 DEF TablesTyped
<1>3. Cell(v, m).macro = m
  BY DEF Cell
<1>4. ASSUME NEW e \in Env, NEW n \in DOMAIN tables'[e]
      PROVE  tables'[e][n].macro \in {NoMacro} \cup [does : Form, gives : Form]
  <2>1. CASE e = Top.env
    <3> DEFINE w == With(tables[e], Top.form.name, Cell(v, m))
    <3>1. tables'[e] = w /\ n \in DOMAIN w
      BY <1>2, <2>1
    <3>2. w[n] = (IF n = Top.form.name THEN Cell(v, m) ELSE tables[e][n])
          /\ (n = Top.form.name \/ n \in DOMAIN tables[e])
      BY <3>1 DEF With
    <3> HIDE DEF w
    <3> QED
      BY <3>1, <3>2, <1>3 DEF TablesTyped
  <2>2. CASE e # Top.env
    BY <1>2, <2>2 DEF TablesTyped
  <2> QED
    BY <2>1, <2>2
<1>5. DOMAIN tables'["interaction"] = Names
  BY <1>2 DEF TablesTyped, With, Env
<1> QED
  BY <1>2, <1>4, <1>5 DEF TablesTyped

LEMMA BindKeeps == Inv /\ Bind => Inv'
<1> SUFFICES ASSUME Inv, Bind PROVE Inv'
  OBVIOUS
<1>1. stack # <<>> /\ Top.at = "run" /\ Top.form.op \in {"define", "set!"}
  BY DEF Bind, At, Is
<1>2. Top \in RunFrame /\ Top.form \in Form /\ Top.env = "interaction" /\ Top.env \in Env
  BY <1>1, Popped, FrameKinds DEF RunFrame, Writes
<1>3. TablesTyped'
  <2>1. Top.form.name \in Names
    BY <1>1, <1>2, FormAssumption
  <2>2. tables[Top.env][Top.form.name].macro \in {NoMacro} \cup [does : Form, gives : Form]
    BY <1>2, <2>1 DEF Inv, TablesTyped
  <2> QED
    BY <1>2, <2>1, <2>2, StoreKeeps DEF Bind, Return, Inv
<1> QED
  BY <1>1, <1>3, ReturnKeeps DEF Bind, Inv

LEMMA BindMacroKeeps == Inv /\ BindMacro => Inv'
<1> SUFFICES ASSUME Inv, BindMacro PROVE Inv'
  OBVIOUS
<1>1. stack # <<>> /\ Top.at = "run" /\ Top.form.op = "define-macro"
  BY DEF BindMacro, At, Is
<1>2. Top \in RunFrame /\ Top.form \in Form /\ Top.env \in Env
  BY <1>1, Popped, FrameKinds DEF RunFrame
<1>3. [does |-> Top.form.does, gives |-> Top.form.gives] \in [does : Form, gives : Form]
  BY <1>1, <1>2, FormAssumption
<1>4. Top.form.name \in Names
  BY <1>1, <1>2, FormAssumption
<1>5. TablesTyped'
  BY <1>2, <1>3, <1>4, StoreKeeps DEF BindMacro, Return, Inv
<1> QED
  BY <1>1, <1>5, ReturnKeeps DEF BindMacro, Inv

\* Below a form that eval or load is called from, with or without a handler.
LEMMA GuardedIs ==
    ASSUME Inv, stack # <<>>, Top.at = "run"
    PROVE  /\ Sound(Guarded, compileTable) /\ HasMachine(Guarded, Len(Guarded))
           /\ Guarded # <<>> => Guarded[Len(Guarded)].at # "compile"
<1>1. /\ Sound(Below, compileTable) /\ HasMachine(Below, Len(Below))
      /\ Below \in Seq(Frame) /\ (Below # <<>> => Below[Len(Below)].at # "compile")
  BY Popped DEF NeedsMachine
<1>2. Fits(Below, compileTable, Catch)
  BY <1>1, Frames DEF Fits
<1> QED
  BY <1>1, <1>2, Push, Appended, Frames DEF Guarded

LEMMA EvalKeeps == Inv /\ Eval => Inv'
<1> SUFFICES ASSUME Inv, Eval PROVE Inv'
  OBVIOUS
<1>1. stack # <<>> /\ Top.at = "run" /\ Top.form.op = "eval"
  BY DEF Eval, At, Is
<1>2. Top.form \in Form
  BY <1>1, Popped, FrameKinds DEF RunFrame
<1>3. Top.form.form \in Form /\ Top.form.env \in Env
  BY <1>1, <1>2, FormAssumption
<1>4. Enter(Guarded, Top.form.form, Top.form.env, FALSE)
  BY DEF Eval
<1>5. Sound(stack', compileTable')
  BY <1>1, <1>3, <1>4, GuardedIs, EnterKeeps
<1> QED
  BY <1>5 DEF Inv, TablesTyped, Eval

LEMMA LoadKeeps == Inv /\ Load => Inv'
<1> SUFFICES ASSUME Inv, Load PROVE Inv'
  OBVIOUS
<1>1. stack # <<>> /\ Top.at = "run" /\ Top.form.op = "load"
  BY DEF Load, At, Is
<1>2. Top.form \in Form
  BY <1>1, Popped, FrameKinds DEF RunFrame
<1>3. Top.form.forms \in Seq(Form)
  BY <1>1, <1>2, FormAssumption
<1>4. Sound(stack', compileTable')
  BY <1>1, <1>3, GuardedIs, LoadingKeeps DEF Load
<1> QED
  BY <1>4 DEF Inv, TablesTyped, Load

\* The forms still to be loaded, and the next one.
LEMMA RemainingIs ==
    ASSUME Inv, stack # <<>>, Top.at \in {"load", "library"}, Top.forms # <<>>
    PROVE  /\ Head(Top.forms) \in Form
           /\ Sound(Remaining, compileTable) /\ Remaining[Len(Remaining)].at # "compile"
<1>1. Top.forms \in Seq(Form)
  BY Popped, FrameKinds DEF LoadFrame
<1>2. Head(Top.forms) \in Form /\ Tail(Top.forms) \in Seq(Form)
  BY <1>1, HeadTailProperties
<1>3. Sound(Below, compileTable) /\ (Below # <<>> => Below[Len(Below)].at # "compile")
  BY Popped
<1> QED
  BY <1>2, <1>3, LoadingKeeps DEF Remaining

LEMMA NextFormKeeps == Inv /\ NextForm => Inv'
<1> SUFFICES ASSUME Inv, NextForm PROVE Inv'
  OBVIOUS
<1>1. stack # <<>> /\ Top.at \in {"load", "library"} /\ Top.forms # <<>>
  BY DEF NextForm, At
<1>2. Enter(Remaining, Head(Top.forms), "interaction", TRUE)
  BY DEF NextForm
<1>3. Sound(stack', compileTable')
  BY <1>1, <1>2, RemainingIs, EnterKeeps DEF Env
<1> QED
  BY <1>3 DEF Inv, TablesTyped, NextForm

LEMMA SkipKeeps == Inv /\ Skip => Inv'
<1> SUFFICES ASSUME Inv, Skip PROVE Inv'
  OBVIOUS
<1>1. stack # <<>> /\ Top.at \in {"load", "library"} /\ Top.forms # <<>>
  BY DEF Skip, At
<1> QED
  BY <1>1, RemainingIs DEF Inv, TablesTyped, Skip

\* An empty stack, on which a library or a form is started.
LEMMA EmptySound ==
    ASSUME Inv, stack = <<>>
    PROVE  Sound(<<>>, compileTable)
BY DEF Inv

LEMMA TryCandidateKeeps == Inv /\ TryCandidate => Inv'
<1> SUFFICES ASSUME Inv, TryCandidate PROVE Inv'
  OBVIOUS
<1>1. CASE UNCHANGED stack
  BY <1>1 DEF Inv, TablesTyped, TryCandidate
<1>2. CASE ~UNCHANGED stack
  <2> DEFINE c == disk[lib][cand]
  <2>1. /\ stack = <<>> /\ lib \in {1, 2} /\ cand \in 1..Len(disk[lib]) /\ c # Missing
        /\ stack' = <<Loading("library", c.forms)>>
        /\ UNCHANGED <<tables, compileTable, disk>>
    BY <1>2 DEF TryCandidate, Searching
  <2>2. disk[lib] \in Seq([forms : Seq(Form)] \cup {Missing})
    BY <2>1, FormAssumption DEF Inv, TablesTyped
  <2>3. c \in [forms : Seq(Form)] \cup {Missing}
    BY <2>1, <2>2, ElementOfSeq
  <2>4. c.forms \in Seq(Form)
    BY <2>1, <2>3
  <2> HIDE DEF c
  <2>5. Sound(Append(<<>>, Loading("library", c.forms)), compileTable)
    BY <2>1, <2>4, EmptySound, LoadingKeeps
  <2>6. stack' = Append(<<>>, Loading("library", c.forms))
    BY <2>1
  <2> QED
    BY <2>1, <2>5, <2>6 DEF Inv, TablesTyped
<1> QED
  BY <1>1, <1>2

LEMMA TypeKeeps == ASSUME NEW f \in Form PROVE Inv /\ Type(f) => Inv'
<1> SUFFICES ASSUME Inv, Type(f) PROVE Inv'
  OBVIOUS
<1>1. stack = <<>> /\ Enter(<<>>, f, "interaction", TRUE)
  BY DEF Type
<1>2. Sound(stack', compileTable')
  BY <1>1, EmptySound, EnterKeeps DEF Env
<1> QED
  BY <1>2 DEF Inv, TablesTyped, Type

LEMMA LibraryLoadedKeeps == Inv /\ LibraryLoaded => Inv'
<1> SUFFICES ASSUME Inv, LibraryLoaded PROVE Inv'
  OBVIOUS
<1>1. stack # <<>> /\ Top.at = "library"
  BY DEF LibraryLoaded, At
<1> QED
  BY <1>1, Popped DEF LibraryLoaded, Inv, TablesTyped

\* Copies of sound tables are sound.
LEMMA FreezeKeeps == Inv /\ Freeze => Inv'
<1> SUFFICES ASSUME Inv, Freeze PROVE Inv'
  OBVIOUS
<1>1. /\ DOMAIN tables' = Env /\ disk' = disk
      /\ \A e \in Env : tables'[e] = CASE e = "report"      -> Copy(Names)
                                       [] e = "null"        -> Copy(Special)
                                       [] e = "interaction" -> tables["interaction"]
  BY DEF Freeze, Inv, TablesTyped, Env
<1>2. \A ns : ns \subseteq Names => \A n \in DOMAIN Copy(ns) :
          Copy(ns)[n] = tables["interaction"][n] /\ n \in Names
  BY DEF Copy
<1>3. ASSUME NEW e \in Env, NEW n \in DOMAIN tables'[e]
      PROVE  tables'[e][n].macro \in {NoMacro} \cup [does : Form, gives : Form]
  <2>1. "interaction" \in Env
    BY DEF Env
  <2>2. CASE e = "report"
    BY <2>1, <2>2, <1>1, <1>2 DEF Inv, TablesTyped
  <2>3. CASE e = "null"
    BY <2>1, <2>3, <1>1, <1>2, NamesAssumption DEF Inv, TablesTyped
  <2>4. CASE e = "interaction"
    BY <2>1, <2>4, <1>1 DEF Inv, TablesTyped
  <2> QED
    BY <2>2, <2>3, <2>4 DEF Env
<1>4. TablesTyped'
  BY <1>1, <1>3 DEF Inv, TablesTyped, Env
<1> QED
  BY <1>4 DEF Inv, Freeze

-----------------------------------------------------------------------------
(* Errors.                                                                 *)

LEMMA LeastIs ==
    ASSUME NEW T, T \subseteq Nat, T # {}
    PROVE  Least(T) \in T /\ \A j \in T : Least(T) <= j
<1>1. PICK n \in T : \A m \in T : ~(<<m, n>> \in OpToRel(<, Nat))
  BY WFMin, NatLessThanWellFounded, Zenon
<1>2. \A m \in T : ~(m < n)
  BY <1>1, Zenon DEF OpToRel
<1>3. \A m \in T : n <= m
  BY <1>2
<1> QED
  BY <1>3 DEF Least

LEMMA GreatestIs ==
    ASSUME NEW n \in Nat, NEW T, T \subseteq 1..n, T # {}
    PROVE  Greatest(T) \in T /\ \A j \in T : j <= Greatest(T)
<1> DEFINE D == {n - j : j \in T}
<1>1. \A j \in T : n - j \in D /\ n - j \in Nat
  OBVIOUS
<1>2. D \subseteq Nat /\ D # {}
  BY <1>1
<1>3. PICK d \in D : \A e \in D : d <= e
  BY <1>2, LeastIs
<1>4. PICK i \in T : d = n - i
  BY <1>3
<1>5. \A j \in T : n - i <= n - j
  BY <1>1, <1>3, <1>4
<1>6. \A j \in T : j <= i
  BY <1>5
<1> QED
  BY <1>6 DEF Greatest

LEMMA NothingBetween ==
    ASSUME NEW s, NEW m \in Int, NEW n \in Int, m <= n,
           \A k \in m + 1..n : s[k].at # "compile"
    PROVE  \A e : CompilesIn(s, n, e) <=> CompilesIn(s, m, e)
<1> SUFFICES ASSUME NEW e PROVE CompilesIn(s, n, e) <=> CompilesIn(s, m, e)
  OBVIOUS
<1>1. (\A j \in 1..n : s[j].at # "compile") <=> (\A j \in 1..m : s[j].at # "compile")
  OBVIOUS
<1>2. ASSUME NEW j \in 1..m
      PROVE  (\A k \in j + 1..n : s[k].at # "compile") <=> (\A k \in j + 1..m : s[k].at # "compile")
  OBVIOUS
<1>3. \A j \in 1..n : s[j].at = "compile" => j \in 1..m
  OBVIOUS
<1> QED
  BY <1>1, <1>2, <1>3 DEF CompilesIn

LEMMA SubSeqFacts ==
    ASSUME NEW S, NEW s \in Seq(S), NEW m \in 0..Len(s), NEW n \in m..Len(s)
    PROVE  /\ SubSeq(s, m + 1, n) \in Seq(S) /\ Len(SubSeq(s, m + 1, n)) = n - m
           /\ \A k \in 1..n - m : SubSeq(s, m + 1, n)[k] = s[m + k]
<1> DEFINE b == SubSeq(s, m + 1, n)
<1>1. Len(s) \in Nat /\ \A k \in m + 1..n : s[k] \in S
  BY LenProperties, ElementOfSeq
<1>2. m + 1 \in Int /\ n \in Int
  BY <1>1
<1>3. /\ b \in Seq(S) /\ Len(b) = IF m + 1 <= n THEN n - (m + 1) + 1 ELSE 0
      /\ \A k \in 1..n - (m + 1) + 1 : b[k] = s[(m + 1) + k - 1]
  BY <1>1, <1>2, SubSeqProperties
<1> HIDE DEF b
<1>4. Len(b) = n - m
  <2> DEFINE l == Len(b)
  <2>1. l = (IF m + 1 <= n THEN n - (m + 1) + 1 ELSE 0) /\ m \in Int /\ n \in Int /\ m <= n
    BY <1>1, <1>3
  <2> HIDE DEF l
  <2>2. l = n - m
    BY <2>1
  <2> QED
    BY <2>2 DEF l
<1>5. ASSUME NEW k \in 1..n - m PROVE b[k] = s[m + k]
  <2>1. k \in 1..n - (m + 1) + 1 /\ (m + 1) + k - 1 = m + k
    BY <1>1
  <2> QED
    BY <1>3, <2>1
<1> QED
  BY <1>3, <1>4, <1>5 DEF b

LEMMA JoinFacts ==
    ASSUME NEW S, NEW a \in Seq(S), NEW r \in Seq(S)
    PROVE  /\ a \o r \in Seq(S) /\ Len(a \o r) = Len(a) + Len(r)
           /\ Len(a) \in Nat /\ Len(r) \in Nat
           /\ \A k \in 1..Len(a) : (a \o r)[k] = a[k]
           /\ \A k \in Len(a) + 1..Len(a) + Len(r) : (a \o r)[k] = r[k - Len(a)] /\ k - Len(a) \in 1..Len(r)
<1> DEFINE j == a \o r
<1>1. /\ j \in Seq(S) /\ Len(j) = Len(a) + Len(r)
      /\ \A k \in 1..Len(a) + Len(r) : j[k] = IF k <= Len(a) THEN a[k] ELSE r[k - Len(a)]
  BY ConcatProperties
<1>2. Len(a) \in Nat /\ Len(r) \in Nat
  BY LenProperties
<1> HIDE DEF j
<1>3. \A k \in 1..Len(a) : j[k] = a[k]
  BY <1>1, <1>2
<1>4. \A k \in Len(a) + 1..Len(a) + Len(r) : j[k] = r[k - Len(a)] /\ k - Len(a) \in 1..Len(r)
  BY <1>1, <1>2
<1> QED
  BY <1>1, <1>2, <1>3, <1>4 DEF j

\* Of the guards an error leaves the outermost has the table that was used
\* below them.
LEMMA GuardsRestore ==
    ASSUME Inv, Throw, NEW o \in 0..Len(stack), Outermost = o
    PROVE  CompilesIn(stack, o, compileTable') /\ compileTable' \in Env
<1>1. /\ stack \in Seq(Frame) /\ Len(stack) \in Nat /\ compileTable \in Env
      /\ \A k \in 1..Len(stack) : stack[k] \in Frame /\ SoundAt(stack, k)
      /\ CompilesIn(stack, Len(stack), compileTable)
  BY LenProperties, ElementOfSeq DEF Inv, Sound
<1>2. Guards = {k \in 1..Len(stack) : stack[k].at = "compile" /\ k > o}
  BY DEF Guards, Indices
<1>3. CASE Guards = {}
  <2>1. \A k \in o + 1..Len(stack) : stack[k].at # "compile"
    BY <1>1, <1>2, <1>3
  <2> QED
    BY <1>1, <1>3, <2>1, NothingBetween DEF Throw
<1>4. CASE Guards # {}
  <2> DEFINE g == Least(Guards)
  <2>1. g \in Guards /\ \A k \in Guards : g <= k
    BY <1>1, <1>2, <1>4, LeastIs, SMTT(30)
  <2>2. compileTable' = stack[g].saved
    BY <1>4 DEF Throw
  <2> HIDE DEF g
  <2>3. g \in 1..Len(stack) /\ stack[g].at = "compile" /\ g > o
    BY <1>2, <2>1
  <2>4. CompilesIn(stack, g - 1, stack[g].saved) /\ stack[g].saved \in Env
    BY <1>1, <2>3, FrameKinds DEF SoundAt, CompileFrame
  <2>5. o <= g - 1 /\ \A k \in o + 1..g - 1 : stack[k].at # "compile"
    BY <1>1, <1>2, <2>1, <2>3
  <2> QED
    BY <1>1, <2>2, <2>3, <2>4, <2>5, NothingBetween, SMTT(30)
<1> QED
  BY <1>3, <1>4

\* What is left behind a handler: the frames up to the outermost machine o, and
\* those between the last machine m below the handler c and the handler. They
\* compile nothing, for only a machine stands on a compilation.
LEMMA Caught ==
    ASSUME Inv, Indices("catch") # {}
    PROVE  \E o \in 1..Len(stack), m \in 1..Len(stack), c \in 1..Len(stack) :
              /\ Outermost = o /\ stack[o].at = "machine" /\ o <= m /\ m < c
              /\ \A k \in m + 1..c - 1 : stack[k].at # "compile"
              /\ Survives \in Seq(Frame) /\ Len(Survives) = o + (c - 1 - m)
              /\ \A k \in 1..o : Survives[k] = stack[k]
              /\ \A k \in o + 1..Len(Survives) :
                    Survives[k] = stack[m + (k - o)] /\ m + (k - o) \in m + 1..c - 1
<1>1. /\ stack \in Seq(Frame) /\ Len(stack) \in Nat
      /\ \A k \in 1..Len(stack) : stack[k] \in Frame /\ SoundAt(stack, k)
  BY LenProperties, ElementOfSeq DEF Inv, Sound
<1> DEFINE c == Greatest(Indices("catch"))
           o == Least(Indices("machine"))
           Before == {k \in Indices("machine") : k < c}
           m == Greatest(Before)
           a == SubSeq(stack, 1, o)
           r == SubSeq(stack, m + 1, c - 1)
           j == a \o r
<1>2. c \in 1..Len(stack) /\ stack[c].at = "catch"
  <2>1. Indices("catch") \subseteq 1..Len(stack)
    BY DEF Indices
  <2>2. c \in Indices("catch")
    BY <1>1, <2>1, GreatestIs
  <2> QED
    BY <2>2 DEF Indices
<1>3. Outermost = o /\ Survives = j
  BY DEF Outermost, Survives, Resumed
<1> HIDE DEF c
<1>4. Before # {} /\ Before \subseteq 1..Len(stack) /\ \A k \in Before : stack[k].at = "machine"
  BY <1>1, <1>2 DEF SoundAt, NeedsMachine, HasMachine, Indices
<1>5. m \in Before /\ \A k \in Before : k <= m
  BY <1>1, <1>4, GreatestIs
<1> HIDE DEF m
<1>6. o \in Indices("machine") /\ o <= m /\ m < c
  <2>1. Indices("machine") \subseteq Nat /\ Before \subseteq Indices("machine")
    BY DEF Indices
  <2>2. o \in Indices("machine") /\ \A k \in Indices("machine") : o <= k
    BY <1>5, <2>1, LeastIs
  <2> QED
    BY <1>5, <2>1, <2>2
<1> HIDE DEF o
<1>7. o \in 1..Len(stack) /\ m \in 1..Len(stack) /\ stack[o].at = "machine"
  BY <1>4, <1>5, <1>6 DEF Indices
<1>8. \A k \in m + 1..c - 1 : stack[k].at # "compile"
  <2> SUFFICES ASSUME NEW k \in m + 1..c - 1, stack[k].at = "compile" PROVE FALSE
    OBVIOUS
  <2>1. k \in 1..Len(stack) /\ k < Len(stack) /\ k + 1 \in 1..Len(stack)
    BY <1>1, <1>2, <1>7
  <2>2. stack[k + 1].at = "machine"
    BY <1>1, <2>1 DEF SoundAt
  <2>3. k + 1 < c
    BY <1>2, <1>7, <2>2
  <2>4. k + 1 \in Before
    BY <2>1, <2>2, <2>3 DEF Indices
  <2> QED
    BY <1>5, <1>7, <2>4
<1>9. a \in Seq(Frame) /\ Len(a) = o /\ \A k \in 1..o : a[k] = stack[k]
  BY <1>1, <1>7, SubSeqFacts
<1>10. r \in Seq(Frame) /\ Len(r) = c - 1 - m /\ \A k \in 1..Len(r) : r[k] = stack[m + k]
  BY <1>1, <1>2, <1>6, <1>7, SubSeqFacts
<1> HIDE DEF a, r
<1>11. /\ j \in Seq(Frame) /\ Len(j) = Len(a) + Len(r)
       /\ \A k \in 1..Len(a) : j[k] = a[k]
       /\ \A k \in Len(a) + 1..Len(a) + Len(r) : j[k] = r[k - Len(a)] /\ k - Len(a) \in 1..Len(r)
  BY <1>9, <1>10, JoinFacts
<1> HIDE DEF j
<1>12. /\ j \in Seq(Frame) /\ Len(j) = o + (c - 1 - m)
       /\ \A k \in 1..o : j[k] = stack[k]
       /\ \A k \in o + 1..Len(j) : j[k] = stack[m + (k - o)]
  BY <1>9, <1>10, <1>11
<1>13. ASSUME NEW k \in o + 1..Len(j) PROVE m + (k - o) \in m + 1..c - 1
  <2>1. o \in Nat /\ m \in Nat /\ c \in Nat /\ m < c
    BY <1>2, <1>6, <1>7
  <2>2. k <= o + (c - 1 - m) /\ k \in Int /\ k >= o + 1
    BY <1>12, <2>1
  <2> QED
    BY <2>1, <2>2
<1> QED
  BY <1>2, <1>3, <1>6, <1>7, <1>8, <1>12, <1>13

\* What goes on behind a handler is sound.
LEMMA ThrowKeeps == Inv /\ Throw => Inv'
<1> SUFFICES ASSUME Inv, Throw PROVE Inv'
  OBVIOUS
<1>1. /\ stack \in Seq(Frame) /\ Len(stack) \in Nat
      /\ \A k \in 1..Len(stack) : stack[k] \in Frame /\ SoundAt(stack, k)
  BY LenProperties, ElementOfSeq DEF Inv, Sound
<1>2. CASE Indices("catch") = {}
  <2>1. Outermost = 0 /\ stack' = <<>>
    BY <1>2 DEF Throw, Outermost, Survives
  <2>2. CompilesIn(stack, 0, compileTable') /\ compileTable' \in Env
    BY <1>1, <2>1, GuardsRestore
  <2>3. CompilesIn(<<>>, 0, compileTable')
    BY <2>2 DEF CompilesIn
  <2>4. Sound(<<>>, compileTable')
    BY <2>2, <2>3 DEF Sound
  <2> QED
    BY <2>1, <2>4 DEF Inv, TablesTyped, Throw
<1>3. CASE Indices("catch") # {}
  <2>1. PICK o \in 1..Len(stack), m \in 1..Len(stack), c \in 1..Len(stack) :
              /\ Outermost = o /\ stack[o].at = "machine" /\ o <= m /\ m < c
              /\ \A k \in m + 1..c - 1 : stack[k].at # "compile"
              /\ Survives \in Seq(Frame) /\ Len(Survives) = o + (c - 1 - m)
              /\ \A k \in 1..o : Survives[k] = stack[k]
              /\ \A k \in o + 1..Len(Survives) :
                    Survives[k] = stack[m + (k - o)] /\ m + (k - o) \in m + 1..c - 1
    BY <1>3, Caught
  <2>2. stack' = Survives
    BY DEF Throw
  <2>3. CompilesIn(stack, o, compileTable') /\ compileTable' \in Env
    BY <1>1, <2>1, GuardsRestore
  <2>4. /\ stack' \in Seq(Frame) /\ Len(stack') \in Nat /\ o <= Len(stack')
        /\ \A k \in 1..o : stack'[k] = stack[k]
        /\ \A k \in o + 1..Len(stack') : stack'[k] = stack[m + (k - o)]
    BY <1>1, <2>1, <2>2
  <2>5. /\ o \in 1..Len(stack') /\ stack'[o].at = "machine"
        /\ \A k \in o + 1..Len(stack') :
              m + (k - o) \in 1..Len(stack) /\ stack'[k].at # "compile" /\ o \in 1..k - 1
    <3>1. o \in 1..Len(stack') /\ stack'[o].at = "machine"
      BY <1>1, <2>1, <2>4
    <3>2. ASSUME NEW k \in o + 1..Len(stack')
          PROVE  m + (k - o) \in 1..Len(stack) /\ stack'[k].at # "compile" /\ o \in 1..k - 1
      <4> DEFINE j == m + (k - o)
      <4>1. stack'[k] = stack[j] /\ j \in m + 1..c - 1
        BY <2>1, <2>2
      <4> HIDE DEF j
      <4>2. j \in 1..Len(stack) /\ stack[j].at # "compile"
        BY <1>1, <2>1, <4>1
      <4>3. o \in 1..k - 1
        BY <1>1, <2>1, <2>4
      <4> QED
        BY <4>1, <4>2, <4>3 DEF j
    <3> QED
      BY <3>1, <3>2
  <2>6. ASSUME NEW k \in 1..Len(stack') PROVE SoundAt(stack', k)
    <3>1. CASE k \in 1..o
      <4>1. SoundAt(stack, k) /\ stack'[k] = stack[k]
        BY <1>1, <2>1, <2>4, <3>1
      <4>2. stack[k].at = "compile" => k < o /\ stack'[k + 1] = stack[k + 1] /\ k < Len(stack)
        BY <1>1, <2>1, <2>4, <3>1
      <4>3. /\ CompilesIn(stack, k - 1, stack[k].saved) => CompilesIn(stack', k - 1, stack[k].saved)
            /\ HasMachine(stack, k - 1) => HasMachine(stack', k - 1)
        <5>1. k - 1 \in Int /\ \A j \in 1..k - 1 : stack'[j] = stack[j]
          BY <2>1, <2>4, <3>1
        <5> QED
          BY <5>1, SameFront
      <4> QED
        BY <4>1, <4>2, <4>3 DEF SoundAt
    <3>2. CASE k \in o + 1..Len(stack')
      <4> DEFINE j == m + (k - o)
      <4>1. stack'[k] = stack[j] /\ j \in 1..Len(stack) /\ stack[j].at # "compile"
        BY <2>4, <2>5, <3>2
      <4>2. SoundAt(stack, j)
        BY <1>1, <4>1
      <4>3. HasMachine(stack', k - 1)
        BY <2>5, <3>2 DEF HasMachine
      <4> QED
        BY <4>1, <4>2, <4>3 DEF SoundAt
    <3> QED
      BY <2>1, <2>4, <3>1, <3>2
  <2>7. CompilesIn(stack', Len(stack'), compileTable')
    <3>1. o \in Int /\ \A k \in 1..o : stack'[k] = stack[k]
      BY <2>1, <2>4
    <3>2. CompilesIn(stack', o, compileTable')
      BY <2>3, <3>1, SameFront
    <3>3. Len(stack') \in Int /\ o <= Len(stack')
          /\ \A k \in o + 1..Len(stack') : stack'[k].at # "compile"
      BY <2>4, <2>5
    <3> QED
      BY <3>1, <3>2, <3>3, NothingBetween
  <2>8. Sound(stack', compileTable')
    BY <2>3, <2>4, <2>6, <2>7 DEF Sound
  <2> QED
    BY <2>8 DEF Inv, TablesTyped, Throw
<1> QED
  BY <1>2, <1>3

-----------------------------------------------------------------------------
(* The invariant, and what follows from it.                                *)

LEMMA InitInv == Init => Inv
<1> SUFFICES ASSUME Init PROVE Inv
  OBVIOUS
<1>1. TablesTyped
  <2>1. /\ DOMAIN tables = Env /\ disk \in Disks
        /\ tables["interaction"] = [n \in Names |-> Cell(IF n \in Builtin THEN BuiltinValue ELSE Unbound, NoMacro)]
        /\ \A e \in Env : e # "interaction" => tables[e] = Nothing
    BY DEF Init, Env
  <2>2. \A v : Cell(v, NoMacro).macro = NoMacro
    BY DEF Cell
  <2> QED
    BY <2>1, <2>2 DEF TablesTyped, Nothing
<1>2. Sound(<<>>, "interaction")
  BY DEF Sound, CompilesIn, Env
<1> QED
  BY <1>1, <1>2 DEF Init, Inv

LEMMA NextKeeps == Inv /\ [Next]_vars => Inv'
<1> SUFFICES ASSUME Inv, [Next]_vars PROVE Inv'
  OBVIOUS
<1>1. CASE Expand
  BY <1>1, ExpandKeeps
<1>2. CASE Reject
  BY <1>2, ThrowKeeps DEF Reject
<1>3. CASE Compiled
  BY <1>3, CompiledKeeps
<1>4. CASE Bind \/ BindMacro
  BY <1>4, BindKeeps, BindMacroKeeps
<1>5. CASE Refer
  <2>1. CASE Return /\ UNCHANGED tables
    <3>1. stack # <<>> /\ Top.at # "compile"
      BY <1>5 DEF Refer, At
    <3> QED
      BY <2>1, <3>1, ReturnKeeps DEF Inv, TablesTyped, Return
  <2>2. CASE Throw
    BY <2>2, ThrowKeeps
  <2> QED
    BY <1>5, <2>1, <2>2 DEF Refer
<1>6. CASE Eval \/ Load
  BY <1>6, EvalKeeps, LoadKeeps
<1>7. CASE Fail
  BY <1>7, ThrowKeeps DEF Fail
<1>8. CASE Returned \/ Loaded
  <2>1. stack # <<>> /\ Top.at # "compile" /\ Return /\ UNCHANGED tables
    BY <1>8 DEF Returned, Loaded, At
  <2> QED
    BY <2>1, ReturnKeeps DEF Inv, TablesTyped, Return
<1>9. CASE NextForm \/ Skip
  BY <1>9, NextFormKeeps, SkipKeeps
<1>10. CASE TryCandidate \/ LibraryLoaded \/ Freeze
  BY <1>10, TryCandidateKeeps, LibraryLoadedKeeps, FreezeKeeps
<1>11. CASE Warn
  BY <1>11 DEF Warn, Inv, TablesTyped
<1>12. CASE \E f \in Typed : Type(f)
  BY <1>12, TypeKeeps, FormAssumption
<1>13. CASE UNCHANGED vars
  BY <1>13 DEF vars, Inv, TablesTyped
<1> QED
  BY <1>1, <1>2, <1>3, <1>4, <1>5, <1>6, <1>7, <1>8, <1>9, <1>10, <1>11, <1>12, <1>13 DEF Next

LEMMA Invariant == Spec => []Inv
BY InitInv, NextKeeps, PTL DEF Spec

\* Whatever transformers, evals and loads are inside one another and whichever
\* of them fail, the compiler is in the table it was started with, and in the
\* interaction environment when nothing is being compiled.
THEOREM GuardsPutTheTableBack == Spec => []TableRestored
<1>1. Inv => TableRestored
  <2> SUFFICES ASSUME Inv PROVE TableRestored
    OBVIOUS
  <2>1. Len(stack) \in Nat /\ CompilesIn(stack, Len(stack), compileTable)
    BY LenProperties DEF Inv, Sound
  <2>2. ASSUME NEW k \in 1..Len(stack), IsCompile(k), Innermost(k)
        PROVE  compileTable = stack[k].env
    BY <2>1, <2>2 DEF CompilesIn, IsCompile, Innermost
  <2>3. (\A k \in 1..Len(stack) : ~IsCompile(k)) => compileTable = "interaction"
    BY <2>1 DEF CompilesIn, IsCompile
  <2> QED
    BY <2>2, <2>3 DEF TableRestored
<1> QED
  BY <1>1, Invariant, PTL

\* Nothing a session does reaches the copies of the report and null
\* environments: code that writes was compiled in the interaction environment.
THEOREM CopiesStayFrozen == Spec => ReportFrozen
<1>1. Inv /\ [Next]_vars => [phase = "session" => \A e \in {"report", "null"} : tables'[e] = tables[e]]_vars
  <2> SUFFICES ASSUME Inv, Next, phase = "session", NEW e \in {"report", "null"}
               PROVE  tables'[e] = tables[e]
    OBVIOUS
  <2>1. CASE Bind \/ BindMacro
    <3>1. stack # <<>> /\ Top.at = "run" /\ Top.form.op \in Writes
      BY <2>1 DEF Bind, BindMacro, At, Is, Writes
    <3>2. Top.env = "interaction"
      BY <3>1, Popped
    <3>3. \E cell : Store(cell)
      BY <2>1 DEF Bind, BindMacro
    <3> QED
      BY <3>2, <3>3 DEF Store, Inv, TablesTyped, Env
  <2>2. CASE Freeze
    BY <2>2, SMTT(30) DEF Freeze, Searching
  <2>3. CASE ~(Bind \/ BindMacro \/ Freeze)
    BY <2>3 DEF Next, Expand, Reject, Compiled, Refer, Eval, Load, Fail, Returned, NextForm, Skip,
                Loaded, TryCandidate, LibraryLoaded, Warn, Type, Throw
  <2> QED
    BY <2>1, <2>2, <2>3
<1> QED
  BY <1>1, Invariant, PTL DEF Spec, ReportFrozen

-----------------------------------------------------------------------------
(* The first definition wins. While libraries that only define are read,   *)
(* the form that is compiled or run is one that was not defined when it    *)
(* was taken from the library, and nothing has been defined since.         *)

Fresh(f) == f \in OnDisk /\ ~Defined(f)

ShapeAtStartup ==
    /\ stack # <<>> => /\ Len(stack) \in 1..3 /\ stack[1].at = "library"
                       /\ \A k \in 1..Len(stack[1].forms) : stack[1].forms[k] \in OnDisk
    /\ Len(stack) = 2 =>
          \/ stack[2] = Machine
          \/ stack[2].at = "compile" /\ stack[2].top = TRUE /\ Fresh(stack[2].form)
    /\ Len(stack) = 3 => stack[2] = Machine /\ stack[3].at = "run" /\ Fresh(stack[3].form)

\* What has a value and no macro was given it by a definition.
Given ==
    \A n \in Names :
        tables["interaction"][n].value # Unbound /\ tables["interaction"][n].macro = NoMacro
            => n \in NamesGiven("define") \cup Builtin

AtStartup  == ShapeAtStartup /\ Given
StartupInv == phase = "startup" /\ OnlyDefines => AtStartup

LEMMA SameDisk == UNCHANGED disk => OnDisk' = OnDisk /\ (OnlyDefines' <=> OnlyDefines)
BY DEF OnDisk, OnlyDefines, NamesGiven

LEMMA NextKeepsDisk == [Next]_vars => UNCHANGED disk
BY DEF Next, vars, Expand, Reject, Compiled, Bind, BindMacro, Return, Refer, Eval, Load, Fail, Returned,
       NextForm, Skip, Loaded, TryCandidate, LibraryLoaded, Warn, Freeze, Type, Throw

\* Where the innermost frame can be.
LEMMA TopAtStartup ==
    ASSUME Inv, AtStartup, OnlyDefines, stack # <<>>
    PROVE  /\ Len(stack) \in 1..3 /\ Indices("catch") = {}
           /\ Top.at = "library" => Len(stack) = 1
           /\ Top.at = "machine" => Len(stack) = 2
           /\ Top.at = "compile" => /\ Len(stack) = 2 /\ Top.top = TRUE /\ Fresh(Top.form)
                                    /\ Top.form.op \in {"define", "define-macro", "ref", "fail"}
           /\ Top.at = "run" => /\ Len(stack) = 3 /\ Fresh(Top.form)
                                /\ Top.form.op \in {"define", "define-macro", "ref", "fail"}
           /\ Top.at # "load" /\ Top.at # "catch"
<1>1. /\ Len(stack) \in 1..3 /\ stack[1].at = "library"
      /\ Machine.at = "machine"
  BY Frames DEF AtStartup, ShapeAtStartup
<1>2. CASE Len(stack) = 1
  BY <1>1, <1>2 DEF Top, Indices
<1>3. CASE Len(stack) = 2
  BY <1>1, <1>3 DEF AtStartup, ShapeAtStartup, Top, Indices, Fresh, OnlyDefines
<1>4. CASE Len(stack) = 3
  BY <1>1, <1>4 DEF AtStartup, ShapeAtStartup, Top, Indices, Fresh, OnlyDefines
<1>5. Len(stack) = 1 \/ Len(stack) = 2 \/ Len(stack) = 3
  BY <1>1
<1> QED
  BY <1>2, <1>3, <1>4, <1>5, Zenon

\* A step that binds nothing keeps what is known of the tables.
LEMMA GivenKept ==
    ASSUME Given, UNCHANGED <<tables, disk>>
    PROVE  Given' /\ OnDisk' = OnDisk /\ \A f : Fresh(f)' <=> Fresh(f)
BY DEF Given, NamesGiven, OnDisk, Fresh, Defined

LEMMA BelowAtStartup ==
    ASSUME Inv, AtStartup, OnlyDefines, stack # <<>>
    PROVE  /\ Len(Below) = Len(stack) - 1
           /\ \A k \in 1..Len(Below) : Below[k] = stack[k]
           /\ Len(Below) \in 0..2 /\ (Len(Below) = 0 <=> Below = <<>>)
<1>1. stack \in Seq(Frame)
  BY DEF Inv, Sound
<1>2. Len(Below) = Len(stack) - 1 /\ Below \in Seq(Frame) /\ \A k \in 1..Len(Below) : Below[k] = stack[k]
  BY <1>1, FrontIs DEF Below
<1>3. Len(Below) \in 0..2
  BY <1>2, TopAtStartup
<1> QED
  BY <1>2, <1>3, EmptySeq

LEMMA ReturnAtStartup ==
    ASSUME Inv, AtStartup, OnlyDefines, stack # <<>>, Top.at # "library", stack' = Below,
           UNCHANGED <<tables, disk>>
    PROVE  AtStartup'
<1>1. Len(stack) = 2 \/ Len(stack) = 3
  <2>1. Len(stack) \in 1..3 /\ stack[1].at = "library"
    BY DEF AtStartup, ShapeAtStartup
  <2>2. Len(stack) # 1
    BY <2>1 DEF Top
  <2> QED
    BY <2>1, <2>2
<1>2. Len(stack') = Len(stack) - 1 /\ \A k \in 1..Len(stack') : stack'[k] = stack[k]
  BY BelowAtStartup
<1>3. /\ Len(stack') \in 1..2 /\ stack'[1] = stack[1] /\ (Len(stack') = 2 => stack'[2] = Machine)
  BY <1>1, <1>2 DEF AtStartup, ShapeAtStartup
<1>4. Given' /\ OnDisk' = OnDisk
  BY GivenKept DEF AtStartup
<1>5. ShapeAtStartup'
  BY <1>3, <1>4 DEF AtStartup, ShapeAtStartup
<1> QED
  BY <1>4, <1>5 DEF AtStartup

LEMMA ThrowAtStartup ==
    ASSUME Inv, AtStartup, OnlyDefines, stack # <<>>, Throw
    PROVE  AtStartup'
<1>1. stack' = <<>> /\ UNCHANGED <<tables, disk>>
  BY TopAtStartup DEF Throw, Survives
<1> QED
  BY <1>1, GivenKept DEF AtStartup, ShapeAtStartup

\* After DEF or DEFM: the name of a definition.
LEMMA BindAtStartup ==
    ASSUME Inv, AtStartup, OnlyDefines, Bind \/ BindMacro
    PROVE  /\ AtStartup'
           /\ \A n \in Names : tables["interaction"][n].value # Unbound =>
                                 tables'["interaction"][n] = tables["interaction"][n]
<1> DEFINE f == Top.form
           old == tables["interaction"]
           new == tables'["interaction"]
<1>1. stack # <<>> /\ Top.at = "run" /\ stack' = Below /\ disk' = disk
  BY DEF Bind, BindMacro, At, Return
<1>2. Len(stack) = 3 /\ f \in OnDisk /\ ~Defined(f) /\ f.op \in {"define", "define-macro"}
  BY <1>1, TopAtStartup DEF Fresh, Bind, BindMacro, Is
<1>3. f.name \in NamesGiven(f.op) /\ Top.env = "interaction" /\ f.name \in Names
  <2>1. f \in Form
    BY <1>1, Popped, FrameKinds DEF RunFrame
  <2> QED
    BY <1>1, <1>2, <2>1, Popped, FormAssumption DEF NamesGiven, Writes
<1>4. /\ DOMAIN old = Names /\ DOMAIN new = Names
      /\ \A n \in Names : n # f.name => new[n] = old[n]
  <2>1. \E c : Store(c)
    BY DEF Bind, BindMacro
  <2> QED
    BY <1>3, <2>1 DEF Store, With, Inv, TablesTyped, Env
<1>5. old[f.name].value = Unbound
  <2>1. CASE f.op = "define"
    BY <2>1, <1>2 DEF Defined
  <2>2. CASE f.op = "define-macro"
    <3>1. old[f.name].macro = NoMacro
      BY <2>2, <1>2 DEF Defined
    <3>2. f.name \notin NamesGiven("define") \cup Builtin
      BY <2>2, <1>3 DEF OnlyDefines
    <3> QED
      BY <1>3, <3>1, <3>2 DEF AtStartup, Given
  <2> QED
    BY <1>2, <2>1, <2>2
<1>6. new[f.name].macro = NoMacro => f.name \in NamesGiven("define")
  <2>1. CASE f.op = "define"
    BY <2>1, <1>3
  <2>2. CASE f.op = "define-macro"
    <3> DEFINE m == [does |-> f.does, gives |-> f.gives]
    <3>1. Store(Cell(Who, m))
      BY <2>2 DEF Bind, BindMacro, Is
    <3>2. m # NoMacro
      BY DEF NoMacro
    <3> HIDE DEF m
    <3>3. new = With(old, f.name, Cell(Who, m))
      BY <1>3, <3>1 DEF Store, Inv, TablesTyped, Env
    <3>4. new[f.name].macro = m
      BY <3>3 DEF With, Cell
    <3> QED
      BY <3>2, <3>4
  <2> QED
    BY <1>2, <2>1, <2>2
<1>7. NamesGiven("define")' = NamesGiven("define") /\ OnDisk' = OnDisk
  BY <1>1 DEF NamesGiven, OnDisk
<1>8. Len(stack') = 2 /\ stack'[1] = stack[1] /\ stack'[2] = Machine
  BY <1>1, <1>2, BelowAtStartup DEF AtStartup, ShapeAtStartup
<1>9. AtStartup'
  <2> HIDE DEF f, old, new
  <2>1. \A n \in Names : new[n].value # Unbound /\ new[n].macro = NoMacro =>
                             n \in NamesGiven("define") \cup Builtin
    BY <1>4, <1>6 DEF AtStartup, Given, old
  <2> QED
    BY <1>1, <1>2, <1>7, <1>8, <2>1 DEF AtStartup, ShapeAtStartup, Given, new
<1>10. \A n \in Names : old[n].value # Unbound => new[n] = old[n]
  BY <1>4, <1>5
<1> QED
  BY <1>9, <1>10

LEMMA AppendAt ==
    ASSUME NEW s \in Seq(Frame), NEW f \in Frame, NEW n \in Nat, Len(s) = n
    PROVE  /\ Append(s, f) \in Seq(Frame) /\ Len(Append(s, f)) = n + 1 /\ Append(s, f)[n + 1] = f
           /\ \A k \in 1..n : Append(s, f)[k] = s[k]
BY AppendProperties

LEMMA CompiledAtStartup ==
    ASSUME Inv, AtStartup, OnlyDefines, Compiled
    PROVE  AtStartup'
<1>1. stack # <<>> /\ Top.at = "compile" /\ UNCHANGED <<tables, disk>>
  BY DEF Compiled, At
<1>2. Len(stack) = 2 /\ Top.top = TRUE /\ Fresh(Top.form)
  BY <1>1, TopAtStartup
<1>3. Below \in Seq(Frame) /\ Len(Below) = 1 /\ Below[1] = stack[1]
  <2>1. Len(Below) = 1 /\ \A k \in 1..Len(Below) : Below[k] = stack[k]
    BY <1>1, <1>2, BelowAtStartup
  <2>2. Below \in Seq(Frame)
    BY <1>1, Popped
  <2> QED
    BY <2>1, <2>2
<1> DEFINE r == Running(Top.form, compileTable)
           b == Append(Below, Machine)
<1>4. r \in Frame /\ r.at = "run" /\ r.form = Top.form
  <2>1. Top \in CompileFrame /\ compileTable \in Env
    BY <1>1, Popped, FrameKinds DEF Inv, Sound
  <2>2. r \in RunFrame /\ r.at = "run" /\ r.form = Top.form
    BY <2>1 DEF Running, RunFrame, CompileFrame
  <2> QED
    BY <2>2, Frames
<1>5. stack' = b \o <<r>>
  BY <1>2 DEF Compiled
<1> HIDE DEF r
<1>6. b \in Seq(Frame) /\ Len(b) = 2 /\ b[1] = stack[1] /\ b[2] = Machine
  <2>1. b \in Seq(Frame) /\ Len(b) = 1 + 1 /\ b[1 + 1] = Machine /\ \A k \in 1..1 : b[k] = Below[k]
    BY <1>3, Frames, AppendAt
  <2> HIDE DEF b
  <2> QED
    BY <1>3, <2>1
<1> HIDE DEF b
<1>7. stack' = Append(b, r)
  BY <1>4, <1>5, <1>6, AppendIsConcat
<1>8. Len(stack') = 3 /\ stack'[1] = stack[1] /\ stack'[2] = Machine /\ stack'[3] = r
  <2>1. Len(stack') = 2 + 1 /\ stack'[2 + 1] = r /\ \A k \in 1..2 : stack'[k] = b[k]
    BY <1>4, <1>6, <1>7, AppendAt
  <2> QED
    BY <1>6, <2>1
<1>9. Given' /\ OnDisk' = OnDisk
  BY <1>1, GivenKept DEF AtStartup
<1>10. Fresh(stack[3].form)'
  BY <1>1, <1>2, <1>4, <1>8, <1>9 DEF Fresh, Defined
<1>11. stack[1].at = "library" /\ \A k \in 1..Len(stack[1].forms) : stack[1].forms[k] \in OnDisk
  BY <1>1 DEF AtStartup, ShapeAtStartup
<1>12. ShapeAtStartup'
  BY <1>4, <1>8, <1>9, <1>10, <1>11 DEF ShapeAtStartup
<1> QED
  BY <1>9, <1>12 DEF AtStartup

\* What the library holds once its first form is taken.
LEMMA RemainingAtStartup ==
    ASSUME Inv, AtStartup, OnlyDefines, stack # <<>>, Top.at = "library", Top.forms # <<>>
    PROVE  /\ Remaining \in Seq(Frame) /\ Len(Remaining) = 1 /\ Remaining[1].at = "library"
           /\ Head(Top.forms) \in OnDisk
           /\ \A k \in 1..Len(Remaining[1].forms) : Remaining[1].forms[k] \in OnDisk
<1> DEFINE l == Loading("library", Tail(Top.forms))
<1>1. Len(stack) = 1 /\ Top = stack[1]
  <2>1. Len(stack) = 1
    BY TopAtStartup
  <2> QED
    BY <2>1 DEF Top
<1>2. Below = <<>>
  <2>1. Len(Below) = 0
    BY <1>1, BelowAtStartup
  <2> QED
    BY <2>1, BelowAtStartup
<1>3. Top.forms \in Seq(Form) /\ \A k \in 1..Len(Top.forms) : Top.forms[k] \in OnDisk
  <2>1. Top.forms \in Seq(Form)
    BY Popped, FrameKinds DEF LoadFrame
  <2> QED
    BY <1>1, <2>1 DEF AtStartup, ShapeAtStartup
<1>4. /\ Head(Top.forms) = Top.forms[1] /\ Len(Top.forms) \in Nat /\ Len(Top.forms) > 0
      /\ Tail(Top.forms) \in Seq(Form) /\ Len(Tail(Top.forms)) = Len(Top.forms) - 1
      /\ \A k \in 1..Len(Tail(Top.forms)) : Tail(Top.forms)[k] = Top.forms[k + 1]
  BY <1>3, HeadTailProperties, LenProperties, EmptySeq
<1>5. l \in Frame /\ l.at = "library" /\ l.forms = Tail(Top.forms)
  <2>1. l \in LoadFrame /\ l.at = "library" /\ l.forms = Tail(Top.forms)
    BY <1>4 DEF Loading, LoadFrame
  <2> QED
    BY <2>1, Frames
<1> HIDE DEF l
<1>6. Remaining = Append(<<>>, l)
  BY <1>2 DEF Remaining, l
<1>7. Remaining \in Seq(Frame) /\ Len(Remaining) = 1 /\ Remaining[1] = l
  <2>1. <<>> \in Seq(Frame) /\ Len(<<>>) = 0
    OBVIOUS
  <2>2. Remaining \in Seq(Frame) /\ Len(Remaining) = 0 + 1 /\ Remaining[0 + 1] = l
    BY <1>5, <1>6, <2>1, AppendAt
  <2> QED
    BY <2>2
<1>8. \A k \in 1..Len(Tail(Top.forms)) : k + 1 \in 1..Len(Top.forms)
  BY <1>4
<1>9. \A k \in 1..Len(Tail(Top.forms)) : Tail(Top.forms)[k] \in OnDisk
  BY <1>3, <1>4, <1>8
<1>10. Head(Top.forms) \in OnDisk
  BY <1>3, <1>4
<1> QED
  BY <1>5, <1>7, <1>9, <1>10

LEMMA NextFormAtStartup ==
    ASSUME Inv, AtStartup, OnlyDefines, NextForm
    PROVE  AtStartup'
<1> DEFINE f == Head(Top.forms)
           c == Compiling(f, "interaction", compileTable, TRUE)
<1>1. stack # <<>> /\ Top.at = "library" /\ Top.forms # <<>> /\ UNCHANGED <<tables, disk>>
  BY TopAtStartup DEF NextForm, At
<1>2. ~Defined(f) /\ stack' = Append(Remaining, c)
  BY <1>1 DEF NextForm, Enter
<1>3. f \in OnDisk /\ f \in Form
  BY <1>1, RemainingAtStartup, RemainingIs
<1>4. c \in Frame /\ c.at = "compile" /\ c.top = TRUE /\ c.form = f
  <2>1. c \in CompileFrame /\ c.at = "compile" /\ c.top = TRUE /\ c.form = f
    BY <1>3 DEF Inv, Sound, Compiling, CompileFrame, Env
  <2> QED
    BY <2>1, Frames
<1> HIDE DEF c, f
<1>5. Len(stack') = 2 /\ stack'[1] = Remaining[1] /\ stack'[2] = c
  <2>1. Len(stack') = 1 + 1 /\ stack'[1 + 1] = c /\ \A k \in 1..1 : stack'[k] = Remaining[k]
    BY <1>1, <1>2, <1>4, RemainingAtStartup, AppendAt
  <2> QED
    BY <2>1
<1>6. Given' /\ OnDisk' = OnDisk
  BY <1>1, GivenKept DEF AtStartup
<1>7. Fresh(stack[2].form)'
  BY <1>1, <1>2, <1>3, <1>4, <1>5, <1>6 DEF Fresh, Defined
<1>8. /\ Remaining[1].at = "library"
      /\ \A k \in 1..Len(Remaining[1].forms) : Remaining[1].forms[k] \in OnDisk
  BY <1>1, RemainingAtStartup
<1>9. ShapeAtStartup'
  BY <1>4, <1>5, <1>6, <1>7, <1>8 DEF ShapeAtStartup
<1> QED
  BY <1>6, <1>9 DEF AtStartup

LEMMA SkipAtStartup ==
    ASSUME Inv, AtStartup, OnlyDefines, Skip
    PROVE  AtStartup'
<1>1. /\ stack # <<>> /\ Top.at = "library" /\ Top.forms # <<>>
      /\ stack' = Remaining /\ UNCHANGED <<tables, disk>>
  BY DEF Skip, At
<1>2. Given' /\ OnDisk' = OnDisk
  BY <1>1, GivenKept DEF AtStartup
<1>3. /\ Len(stack') = 1 /\ stack'[1].at = "library"
      /\ \A k \in 1..Len(stack'[1].forms) : stack'[1].forms[k] \in OnDisk
  BY <1>1, RemainingAtStartup
<1>4. ShapeAtStartup'
  BY <1>2, <1>3 DEF ShapeAtStartup
<1> QED
  BY <1>2, <1>4 DEF AtStartup

\* A library is begun on an empty stack, and leaves it empty.
LEMMA SearchAtStartup ==
    ASSUME Inv, AtStartup, OnlyDefines, TryCandidate \/ LibraryLoaded \/ Warn
    PROVE  AtStartup'
<1>1. UNCHANGED <<tables, disk>>
  BY DEF TryCandidate, LibraryLoaded, Warn
<1>2. Given' /\ OnDisk' = OnDisk
  BY <1>1, GivenKept DEF AtStartup
<1>3. CASE stack' = <<>>
  BY <1>2, <1>3 DEF AtStartup, ShapeAtStartup
<1>4. CASE LibraryLoaded
  <2>1. stack # <<>> /\ Top.at = "library" /\ stack' = Below
    BY <1>4 DEF LibraryLoaded, At
  <2>2. Len(Below) = 0
    BY <2>1, TopAtStartup, BelowAtStartup
  <2>3. stack' = <<>>
    BY <2>1, <2>2, BelowAtStartup
  <2> QED
    BY <1>3, <2>3
<1>5. CASE Warn
  BY <1>3, <1>5 DEF Warn, Searching
<1>6. CASE TryCandidate /\ stack' # <<>>
  <2> DEFINE c == disk[lib][cand]
  <2>1. /\ lib \in {1, 2} /\ cand \in 1..Len(disk[lib]) /\ c # Missing
        /\ stack' = <<Loading("library", c.forms)>>
    BY <1>6 DEF TryCandidate, Searching
  <2>2. \A k \in 1..Len(c.forms) : c.forms[k] \in FormsOf(c)
    BY <2>1 DEF FormsOf
  <2>3. FormsOf(c) \subseteq OnDisk
    BY <2>1 DEF OnDisk
  <2> HIDE DEF c
  <2>4. /\ Len(stack') = 1 /\ stack'[1].at = "library" /\ stack'[1].forms = c.forms
    BY <2>1 DEF Loading
  <2>5. ShapeAtStartup'
    BY <1>2, <2>2, <2>3, <2>4 DEF ShapeAtStartup
  <2> QED
    BY <1>2, <2>5 DEF AtStartup
<1> QED
  BY <1>3, <1>4, <1>5, <1>6

LEMMA StepAtStartup ==
    ASSUME Inv, AtStartup, OnlyDefines, phase = "startup", Next, phase' = "startup"
    PROVE  AtStartup'
<1>1. CASE Bind \/ BindMacro
  BY <1>1, BindAtStartup
<1>2. CASE Compiled
  BY <1>2, CompiledAtStartup
<1>3. CASE NextForm \/ Skip
  BY <1>3, NextFormAtStartup, SkipAtStartup
<1>4. CASE TryCandidate \/ LibraryLoaded \/ Warn
  BY <1>4, SearchAtStartup
<1>5. CASE stack # <<>> /\ Throw
  BY <1>5, ThrowAtStartup
<1>6. CASE stack # <<>> /\ Top.at # "library" /\ Return /\ UNCHANGED tables
  BY <1>6, ReturnAtStartup DEF Return
<1>7. Reject \/ Refer \/ Fail \/ Returned \/ Loaded =>
          stack # <<>> /\ (Throw \/ (Top.at # "library" /\ Return /\ UNCHANGED tables))
  BY DEF Reject, Refer, Fail, Returned, Loaded, At
<1>8. ~Expand /\ ~Eval /\ ~Load
  BY TopAtStartup DEF Expand, Expands, Eval, Load, At, Is
<1>9. ~Freeze /\ ~ \E f \in Typed : Type(f)
  BY DEF Freeze, Type
<1> QED
  BY <1>1, <1>2, <1>3, <1>4, <1>5, <1>6, <1>7, <1>8, <1>9 DEF Next

LEMMA StartupInvariant == Spec => []StartupInv
<1>1. Init => StartupInv
  <2> SUFFICES ASSUME Init PROVE Given /\ ShapeAtStartup
    BY DEF StartupInv, AtStartup
  <2>1. ASSUME NEW n \in Names, tables["interaction"][n].value # Unbound PROVE n \in Builtin
    BY <2>1 DEF Init, Env, Cell
  <2>2. stack = <<>> /\ Len(stack) = 0
    BY DEF Init
  <2>3. ShapeAtStartup
    BY <2>2 DEF ShapeAtStartup
  <2> QED
    BY <2>1, <2>3 DEF Given
<1>2. Inv /\ StartupInv /\ [Next]_vars => StartupInv'
  <2> SUFFICES ASSUME Inv, StartupInv, [Next]_vars, phase' = "startup", OnlyDefines' PROVE AtStartup'
    BY DEF StartupInv
  <2>1. OnlyDefines
    BY NextKeepsDisk, SameDisk
  <2>2. CASE UNCHANGED vars
    BY <2>1, <2>2, GivenKept DEF vars, StartupInv, AtStartup, ShapeAtStartup, Fresh, Defined
  <2>3. CASE Next
    <3>1. phase = "startup"
      BY <2>3 DEF Next, Expand, Reject, Compiled, Bind, BindMacro, Return, Refer, Eval, Load, Fail,
                  Returned, NextForm, Skip, Loaded, TryCandidate, LibraryLoaded, Warn, Freeze, Type, Throw
    <3> QED
      BY <2>1, <2>3, <3>1, StepAtStartup DEF StartupInv
  <2> QED
    BY <2>2, <2>3
<1> QED
  BY <1>1, <1>2, Invariant, PTL DEF Spec

\* Whatever candidates are missing or break off in the middle, a library that
\* only defines never rebinds a name: not one of an earlier library, not one
\* of the candidate that broke off, not a builtin.
THEOREM FirstDefinitionWins == Spec => FirstBindingWins
<1> DEFINE Kept == (phase = "startup" /\ OnlyDefines) =>
                       \A n \in Names : LET old == tables["interaction"][n] IN
                           old.value # Unbound => tables'["interaction"][n] = old
<1>1. Inv /\ StartupInv /\ [Next]_vars => [Kept]_vars
  <2> SUFFICES ASSUME Inv, StartupInv, Next, phase = "startup", OnlyDefines,
                      NEW n \in Names, tables["interaction"][n].value # Unbound
               PROVE  tables'["interaction"][n] = tables["interaction"][n]
    OBVIOUS
  <2>1. AtStartup
    BY DEF StartupInv
  <2>2. CASE Bind \/ BindMacro
    BY <2>1, <2>2, BindAtStartup
  <2>3. CASE Freeze
    BY <2>3 DEF Freeze, Inv, TablesTyped, Env
  <2>4. CASE ~(Bind \/ BindMacro \/ Freeze)
    BY <2>4 DEF Next, Expand, Reject, Compiled, Refer, Eval, Load, Fail, Returned, NextForm, Skip,
                Loaded, TryCandidate, LibraryLoaded, Warn, Type, Throw, Return
  <2> QED
    BY <2>2, <2>3, <2>4
<1> QED
  BY <1>1, Invariant, StartupInvariant, PTL DEF Spec, FirstBindingWins

-----------------------------------------------------------------------------
(* That no library is lost without a warning, for libraries that hold any  *)
(* forms at all: definitions, but also calls of macros, evals, loads of    *)
(* other files and errors, behind handlers or not.                         *)
(*                                                                         *)
(* While a candidate is read each of its definitions is bound, is still to *)
(* be read, or is the very form that is compiled or run now, alone on the  *)
(* library. What stands on the library otherwise may come and go.          *)

Defines(f) == f.op \in {"define", "define-macro"}
HasCell(n) == tables["interaction"][n] # Cell(Unbound, NoMacro)

Read(l, c) == disk[l][c] # Missing /\ \A f \in FormsOf(disk[l][c]) : Defines(f) => HasCell(f.name)
Accounted(l) == l \in warned \/ \E c \in 1..Len(disk[l]) : Read(l, c)

StillToRead(f)   == \E k \in 1..Len(stack[1].forms) : stack[1].forms[k] = f
BeingCompiled(f) == Len(stack) = 2 /\ stack[2].at = "compile" /\ stack[2].top = TRUE /\ stack[2].form = f
BeingRun(f)      == Len(stack) = 3 /\ stack[2] = Machine /\ stack[3].at = "run" /\ stack[3].form = f

OnLibrary(s) == s[1].at = "library" /\ \A k \in 2..Len(s) : s[k].at # "library"

Underway ==
    /\ lib \in {1, 2} /\ cand \in 1..Len(disk[lib]) /\ disk[lib][cand] # Missing
    /\ OnLibrary(stack)
    /\ \A f \in FormsOf(disk[lib][cand]) :
          Defines(f) => HasCell(f.name) \/ StillToRead(f) \/ BeingCompiled(f) \/ BeingRun(f)

LibrariesInv ==
    /\ phase = "startup" =>
          /\ lib \in 1..3
          /\ \A l \in {1, 2} : l < lib => Accounted(l)
          /\ stack # <<>> => Underway
    /\ NoSilentLoss

-----------------------------------------------------------------------------
(* What is bound stays bound.                                              *)

LEMMA StoredIsCell ==
    ASSUME Inv, Bind \/ BindMacro
    PROVE  /\ stack # <<>> /\ Top.at = "run" /\ Top.form \in Form /\ Top.form.name \in Names
           /\ DOMAIN tables'["interaction"] = Names
           /\ tables'["interaction"][Top.form.name] # Cell(Unbound, NoMacro)
           /\ \A n \in Names : n # Top.form.name => tables'["interaction"][n] = tables["interaction"][n]
<1>1. stack # <<>> /\ Top.at = "run" /\ Top.form.op \in Writes
  BY DEF Bind, BindMacro, At, Is, Writes
<1>2. Top.form \in Form /\ Top.env = "interaction"
  BY <1>1, Popped, FrameKinds DEF RunFrame
<1>3. Top.form.name \in Names
  BY <1>1, <1>2, FormAssumption DEF Writes
<1>4. PICK v, m : Store(Cell(v, m)) /\ (v # Unbound \/ m # NoMacro)
  <2>1. CASE Bind
    <3>1. Who # Unbound
      BY DEF Who, Unbound, User
    <3> QED
      BY <2>1, <3>1 DEF Bind
  <2>2. CASE BindMacro
    <3>1. [does |-> Top.form.does, gives |-> Top.form.gives] # NoMacro
      BY DEF NoMacro
    <3> QED
      BY <2>2, <3>1 DEF BindMacro
  <2> QED
    BY <2>1, <2>2
<1>5. tables'["interaction"] = With(tables["interaction"], Top.form.name, Cell(v, m))
  BY <1>2, <1>4 DEF Store, Inv, TablesTyped, Env
<1>6. /\ DOMAIN tables'["interaction"] = Names /\ tables'["interaction"][Top.form.name] = Cell(v, m)
      /\ \A n \in Names : n # Top.form.name => tables'["interaction"][n] = tables["interaction"][n]
  BY <1>3, <1>5 DEF With, Inv, TablesTyped
<1>7. Cell(v, m) # Cell(Unbound, NoMacro)
  BY <1>4 DEF Cell
<1> QED
  BY <1>1, <1>2, <1>3, <1>6, <1>7

\* Only DEF, GSET, DEFM and the copies change the tables.
LEMMA TablesChange ==
    ASSUME Next
    PROVE  Bind \/ BindMacro \/ Freeze \/ UNCHANGED tables
BY DEF Next, Expand, Reject, Compiled, Bind, BindMacro, Refer, Eval, Load, Fail, Returned, NextForm, Skip,
       Loaded, TryCandidate, LibraryLoaded, Warn, Type, Throw

LEMMA BoundStaysBound ==
    ASSUME Inv, Next, NEW n \in Names, HasCell(n)
    PROVE  HasCell(n)'
<1>1. CASE Bind \/ BindMacro
  BY <1>1, StoredIsCell DEF HasCell
<1>2. CASE Freeze
  BY <1>2 DEF Freeze, HasCell, Inv, TablesTyped, Env
<1>3. CASE UNCHANGED tables
  BY <1>3 DEF HasCell
<1> QED
  BY <1>1, <1>2, <1>3, TablesChange

\* What a candidate defines has a name.
LEMMA NamedOnDisk ==
    ASSUME Inv, NEW l \in {1, 2}, NEW c \in 1..Len(disk[l]), NEW f \in FormsOf(disk[l][c]), Defines(f)
    PROVE  f \in Form /\ f.name \in Names
<1>1. disk[l] \in Seq([forms : Seq(Form)] \cup {Missing})
  BY FormAssumption DEF Inv, TablesTyped
<1>2. disk[l][c] \in [forms : Seq(Form)]
  <2>1. disk[l][c] \in [forms : Seq(Form)] \cup {Missing}
    BY <1>1, ElementOfSeq
  <2> QED
    BY <2>1 DEF FormsOf
<1>3. f \in Form
  BY <1>2, ElementOfSeq DEF FormsOf, Missing
<1> QED
  BY <1>3, FormAssumption DEF Defines

LEMMA AccountedStays ==
    ASSUME Inv, Next, disk' = disk, warned \subseteq warned', NEW l \in {1, 2}, Accounted(l)
    PROVE  Accounted(l)'
<1>1. CASE l \in warned
  BY <1>1 DEF Accounted
<1>2. ASSUME NEW c \in 1..Len(disk[l]), Read(l, c) PROVE Accounted(l)'
  <2>1. \A f \in FormsOf(disk[l][c]) : Defines(f) => HasCell(f.name)'
    BY <1>2, NamedOnDisk, BoundStaysBound DEF Read
  <2>2. Read(l, c)'
    BY <1>2, <2>1 DEF Read, FormsOf
  <2> QED
    BY <2>2 DEF Accounted
<1> QED
  BY <1>1, <1>2 DEF Accounted

-----------------------------------------------------------------------------
(* While a candidate is read.                                              *)

\* A definition may move on to the next stage, and the rest of the file stays.
LEMMA UnderwayStays ==
    ASSUME Inv, Next, Underway, UNCHANGED <<disk, lib, cand>>, OnLibrary(stack'),
           \A f \in Form :
              Defines(f) /\ (StillToRead(f) \/ BeingCompiled(f) \/ BeingRun(f))
                 => HasCell(f.name)' \/ StillToRead(f)' \/ BeingCompiled(f)' \/ BeingRun(f)'
    PROVE  Underway'
<1>1. /\ lib \in {1, 2} /\ cand \in 1..Len(disk[lib]) /\ disk[lib][cand] # Missing
      /\ \A f \in FormsOf(disk[lib][cand]) :
            Defines(f) => HasCell(f.name) \/ StillToRead(f) \/ BeingCompiled(f) \/ BeingRun(f)
  BY DEF Underway
<1>2. ASSUME NEW f \in FormsOf(disk[lib][cand]), Defines(f)
      PROVE  HasCell(f.name)' \/ StillToRead(f)' \/ BeingCompiled(f)' \/ BeingRun(f)'
  <2>1. f \in Form /\ f.name \in Names
    BY <1>1, <1>2, NamedOnDisk
  <2>2. HasCell(f.name) => HasCell(f.name)'
    BY <2>1, BoundStaysBound
  <2> QED
    BY <1>1, <1>2, <2>1, <2>2
<1> QED
  BY <1>1, <1>2 DEF Underway, FormsOf

\* The frames while the library is at the bottom.
LEMMA FramesUnderway ==
    ASSUME Inv, Underway, stack # <<>>
    PROVE  /\ Len(stack) \in Nat /\ Len(stack) >= 1 /\ Below \in Seq(Frame) /\ Top \in Frame
           /\ Len(Below) = Len(stack) - 1 /\ \A k \in 1..Len(Below) : Below[k] = stack[k]
           /\ Top.at = "library" => Len(stack) = 1 /\ Top = stack[1] /\ Below = <<>>
           /\ Top.at # "library" => Len(Below) >= 1 /\ Below[1] = stack[1] /\ OnLibrary(Below)
           /\ \A f : BeingCompiled(f) => Top.at = "compile" /\ Top.top = TRUE /\ Top.form = f
           /\ \A f : BeingRun(f) => Top.at = "run" /\ Top.form = f
<1>1. stack \in Seq(Frame) /\ OnLibrary(stack)
  BY DEF Inv, Sound, Underway
<1>2. /\ Len(stack) \in Nat /\ Len(stack) >= 1 /\ Below \in Seq(Frame) /\ Top \in Frame
      /\ Len(Below) = Len(stack) - 1 /\ \A k \in 1..Len(Below) : Below[k] = stack[k]
  BY <1>1, FrontIs DEF Below, Top
<1>3. ASSUME Top.at = "library" PROVE Len(stack) = 1 /\ Top = stack[1] /\ Below = <<>>
  <2>1. Len(stack) = 1
    BY <1>1, <1>2, <1>3 DEF OnLibrary, Top
  <2> QED
    BY <1>2, <2>1, EmptySeq DEF Top
<1>4. ASSUME Top.at # "library" PROVE Len(Below) >= 1 /\ Below[1] = stack[1] /\ OnLibrary(Below)
  <2>1. Len(stack) >= 2
    BY <1>1, <1>2, <1>4 DEF OnLibrary, Top
  <2>2. Len(Below) >= 1 /\ Below[1] = stack[1]
    BY <1>2, <2>1
  <2> QED
    BY <1>1, <1>2, <2>1, <2>2 DEF OnLibrary
<1>5. /\ \A f : BeingCompiled(f) => Top.at = "compile" /\ Top.top = TRUE /\ Top.form = f
      /\ \A f : BeingRun(f) => Top.at = "run" /\ Top.form = f
  BY DEF BeingCompiled, BeingRun, Top
<1> QED
  BY <1>2, <1>3, <1>4, <1>5

LEMMA ExpandedFrames ==
    ASSUME Inv, Expand
    PROVE  LET m == tables[compileTable][Top.form.name].macro
               x == [Top EXCEPT !.form = m.gives]
               r == Running(m.does, "interaction")
           IN x \in Frame /\ x.at = "compile" /\ r \in Frame /\ r.at = "run"
<1> DEFINE m == tables[compileTable][Top.form.name].macro
           x == [Top EXCEPT !.form = m.gives]
           r == Running(m.does, "interaction")
<1>1. /\ stack # <<>> /\ Top.at = "compile" /\ m # NoMacro
      /\ Top.form.name \in DOMAIN tables[compileTable] /\ compileTable \in Env
  BY DEF Expand, Expands, At, Inv, Sound
<1>2. m \in [does : Form, gives : Form]
  BY <1>1 DEF Inv, TablesTyped
<1> HIDE DEF m
<1>3. Top \in CompileFrame
  BY <1>1, Popped, FrameKinds
<1>4. x \in CompileFrame /\ x.at = "compile"
  BY <1>2, <1>3 DEF CompileFrame
<1>5. r \in RunFrame /\ r.at = "run"
  BY <1>2 DEF Running, RunFrame, Env
<1> HIDE DEF x, r
<1>6. x \in Frame /\ r \in Frame
  BY <1>4, <1>5, Frames
<1> QED
  BY <1>4, <1>5, <1>6 DEF x, r, m

LEMMA OneMore ==
    ASSUME NEW s \in Seq(Frame), Len(s) >= 1, OnLibrary(s), NEW f \in Frame, f.at # "library"
    PROVE  LET a == Append(s, f) IN
           /\ a \in Seq(Frame) /\ Len(a) = Len(s) + 1 /\ Len(a) >= 1 /\ OnLibrary(a)
           /\ a[1] = s[1] /\ a[Len(s) + 1] = f /\ \A k \in 1..Len(s) : a[k] = s[k]
<1> DEFINE a == Append(s, f)
<1>1. /\ Len(s) \in Nat /\ a \in Seq(Frame) /\ Len(a) = Len(s) + 1
      /\ a[Len(s) + 1] = f /\ \A k \in 1..Len(s) : a[k] = s[k]
  BY AppendProperties, LenProperties
<1> HIDE DEF a
<1>2. OnLibrary(a)
  BY <1>1 DEF OnLibrary
<1> QED
  BY <1>1, <1>2 DEF a

\* A step above the library.
LEMMA AboveStays ==
    ASSUME Inv, Next, Underway, UNCHANGED <<disk, lib, cand>>, OnLibrary(stack'), stack'[1] = stack[1],
           \A f \in Form : Defines(f) /\ (BeingCompiled(f) \/ BeingRun(f))
                             => HasCell(f.name)' \/ BeingCompiled(f)' \/ BeingRun(f)'
    PROVE  Underway'
<1>1. \A f : StillToRead(f) => StillToRead(f)'
  BY DEF StillToRead
<1> QED
  BY <1>1, UnderwayStays

LEMMA ExpandUnderway ==
    ASSUME Inv, Next, Underway, Expand
    PROVE  Underway'
<1> DEFINE m == tables[compileTable][Top.form.name].macro
           x == [Top EXCEPT !.form = m.gives]
           r == Running(m.does, "interaction")
           s1 == Append(Below, x)
           s2 == Append(s1, Machine)
           s3 == Append(s2, r)
<1>1. /\ stack # <<>> /\ Top.at = "compile" /\ Top.form.op = "use"
      /\ UNCHANGED <<disk, lib, cand>> /\ stack' = Below \o <<x, Machine, r>>
  BY DEF Expand, Expands, Is, At
<1>2. /\ Below \in Seq(Frame) /\ Len(Below) >= 1 /\ Below[1] = stack[1] /\ OnLibrary(Below)
      /\ \A f : (BeingCompiled(f) => Top.form = f) /\ ~BeingRun(f)
  BY <1>1, FramesUnderway
<1>3. x \in Frame /\ x.at = "compile" /\ r \in Frame /\ r.at = "run"
  BY <1>1, ExpandedFrames
<1> HIDE DEF x, r
<1>4. stack' = s3
  BY <1>1, <1>2, <1>3, Frames, ThreeMore
<1>5. s1 \in Seq(Frame) /\ Len(s1) >= 1 /\ OnLibrary(s1) /\ s1[1] = stack[1]
  BY <1>2, <1>3, OneMore
<1> HIDE DEF s1
<1>6. s2 \in Seq(Frame) /\ Len(s2) >= 1 /\ OnLibrary(s2) /\ s2[1] = stack[1]
  BY <1>5, Frames, OneMore
<1> HIDE DEF s2
<1>7. OnLibrary(s3) /\ s3[1] = stack[1]
  BY <1>3, <1>6, OneMore
<1> HIDE DEF s3
<1>8. \A f \in Form : ~(Defines(f) /\ (BeingCompiled(f) \/ BeingRun(f)))
  BY <1>1, <1>2 DEF Defines
<1> QED
  BY <1>1, <1>4, <1>7, <1>8, AboveStays

LEMMA CompiledUnderway ==
    ASSUME Inv, Next, Underway, Compiled
    PROVE  Underway'
<1> DEFINE r == Running(Top.form, compileTable)
           b == IF Top.top THEN Append(Below, Machine) ELSE Below
           s == Append(b, r)
<1>1. stack # <<>> /\ Top.at = "compile" /\ UNCHANGED <<disk, lib, cand>> /\ stack' = b \o <<r>>
  BY DEF Compiled, At
<1>2. /\ Below \in Seq(Frame) /\ Len(Below) = Len(stack) - 1 /\ Len(Below) >= 1
      /\ Below[1] = stack[1] /\ OnLibrary(Below)
      /\ \A f : (BeingCompiled(f) => Top.form = f /\ Top.top = TRUE) /\ ~BeingRun(f)
  BY <1>1, FramesUnderway
<1>3. r \in Frame /\ r.at = "run" /\ r.form = Top.form
  <2>1. Top \in CompileFrame /\ compileTable \in Env
    BY <1>1, Popped, FrameKinds DEF Inv, Sound
  <2>2. r \in RunFrame /\ r.at = "run" /\ r.form = Top.form
    BY <2>1 DEF Running, RunFrame, CompileFrame
  <2> QED
    BY <2>2, Frames
<1> HIDE DEF r
<1>4. /\ b \in Seq(Frame) /\ Len(b) >= 1 /\ OnLibrary(b) /\ b[1] = stack[1]
      /\ Top.top = TRUE => Len(b) = Len(stack) /\ b[Len(stack)] = Machine
  <2>1. LET a == Append(Below, Machine) IN
        /\ a \in Seq(Frame) /\ Len(a) >= 1 /\ OnLibrary(a) /\ a[1] = stack[1]
        /\ Len(a) = Len(stack) /\ a[Len(stack)] = Machine
    <3> DEFINE a == Append(Below, Machine)
               n == Len(Below)
    <3>1. /\ a \in Seq(Frame) /\ Len(a) = n + 1 /\ Len(a) >= 1 /\ OnLibrary(a)
          /\ a[1] = Below[1] /\ a[n + 1] = Machine
      BY <1>2, Frames, OneMore
    <3>2. n + 1 = Len(stack)
      BY <1>1, <1>2, FramesUnderway
    <3> HIDE DEF a, n
    <3> QED
      BY <1>2, <3>1, <3>2 DEF a
  <2> QED
    BY <1>2, <2>1
<1> HIDE DEF b
<1>5. stack' = s
  BY <1>1, <1>3, <1>4, AppendIsConcat
<1>6. /\ OnLibrary(s) /\ s[1] = stack[1] /\ Len(s) = Len(b) + 1 /\ s[Len(b) + 1] = r
      /\ \A k \in 1..Len(b) : s[k] = b[k]
  BY <1>3, <1>4, OneMore
<1> HIDE DEF s
<1>7. ASSUME NEW f \in Form, BeingCompiled(f) PROVE BeingRun(f)'
  <2>1. Len(stack) = 2 /\ Top.form = f /\ Top.top = TRUE
    BY <1>2, <1>7 DEF BeingCompiled
  <2>2. Len(s) = 3 /\ s[2] = Machine /\ s[3] = r
    BY <1>4, <1>6, <2>1
  <2> QED
    BY <1>3, <1>5, <2>1, <2>2 DEF BeingRun
<1> QED
  BY <1>1, <1>2, <1>5, <1>6, <1>7, AboveStays

\* After a definition or anything else that returns.
LEMMA ReturnUnderway ==
    ASSUME Inv, Next, Underway, stack # <<>>, Top.at \notin {"compile", "library"}, Return,
           \/ Bind \/ BindMacro
           \/ Top.at = "run" => ~Defines(Top.form)
    PROVE  Underway'
<1>1. stack' = Below /\ UNCHANGED <<disk, lib, cand>>
  BY DEF Return
<1>2. /\ Below[1] = stack[1] /\ OnLibrary(Below)
      /\ \A f : ~BeingCompiled(f) /\ (BeingRun(f) => Top.at = "run" /\ Top.form = f)
  BY FramesUnderway
<1>3. ASSUME NEW f \in Form, Defines(f), BeingRun(f) PROVE HasCell(f.name)'
  <2>1. Top.form = f /\ (Bind \/ BindMacro)
    BY <1>2, <1>3
  <2> QED
    BY <2>1, StoredIsCell DEF HasCell
<1> QED
  BY <1>1, <1>2, <1>3, AboveStays

LEMMA CallUnderway ==
    ASSUME Inv, Next, Underway, Eval \/ Load
    PROVE  Underway'
<1>1. /\ stack # <<>> /\ Top.at = "run" /\ Top.form.op \in {"eval", "load"}
      /\ UNCHANGED <<disk, lib, cand>>
  BY DEF Eval, Load, At, Is
<1>2. /\ Below \in Seq(Frame) /\ Len(Below) >= 1 /\ Below[1] = stack[1] /\ OnLibrary(Below)
      /\ \A f : ~BeingCompiled(f) /\ (BeingRun(f) => Top.form = f)
  BY <1>1, FramesUnderway
<1>3. /\ Guarded \in Seq(Frame) /\ Len(Guarded) >= 1
      /\ OnLibrary(Guarded) /\ Guarded[1] = stack[1]
  BY <1>2, Frames, OneMore DEF Guarded
<1>4. PICK f \in Frame : f.at # "library" /\ stack' = Append(Guarded, f)
  <2>1. Top.form \in Form
    BY <1>1, Popped, FrameKinds DEF RunFrame
  <2>2. CASE Eval
    <3> DEFINE c == Compiling(Top.form.form, Top.form.env, compileTable, FALSE)
    <3>1. Top.form.form \in Form /\ Top.form.env \in Env /\ compileTable \in Env
      BY <2>1, <2>2, FormAssumption DEF Eval, Is, Inv, Sound
    <3>2. c \in CompileFrame /\ c.at = "compile"
      BY <3>1 DEF Compiling, CompileFrame
    <3>3. stack' = Append(Guarded, c)
      BY <2>2 DEF Eval, Enter
    <3> HIDE DEF c
    <3> QED
      BY <3>2, <3>3, Frames
  <2>3. CASE Load
    <3> DEFINE l == Loading("load", Top.form.forms)
    <3>1. Top.form.forms \in Seq(Form)
      BY <2>1, <2>3, FormAssumption DEF Load, Is
    <3>2. l \in LoadFrame /\ l.at = "load"
      BY <3>1 DEF Loading, LoadFrame
    <3>3. stack' = Append(Guarded, l)
      BY <2>3 DEF Load
    <3> HIDE DEF l
    <3> QED
      BY <3>2, <3>3, Frames
  <2> QED
    BY <2>2, <2>3
<1>5. OnLibrary(stack') /\ stack'[1] = stack[1]
  <2>1. LET a == Append(Guarded, f) IN OnLibrary(a) /\ a[1] = Guarded[1]
    BY <1>3, <1>4, OneMore
  <2> QED
    BY <1>3, <1>4, <2>1
<1>6. \A g \in Form : ~(Defines(g) /\ (BeingCompiled(g) \/ BeingRun(g)))
  BY <1>1, <1>2 DEF Defines
<1> QED
  BY <1>1, <1>5, <1>6, AboveStays

\* The next form of a file that a form of the library loads.
LEMMA LoadingUnderway ==
    ASSUME Inv, Next, Underway, NextForm, Top.at = "load"
    PROVE  Underway'
<1> DEFINE l == Loading("load", Tail(Top.forms))
           c == Compiling(Head(Top.forms), "interaction", compileTable, TRUE)
<1>1. /\ stack # <<>> /\ Top.forms # <<>> /\ UNCHANGED <<disk, lib, cand>>
      /\ stack' = Append(Append(Below, l), c)
  BY DEF NextForm, At, Enter, Remaining
<1>2. /\ Below \in Seq(Frame) /\ Len(Below) >= 1 /\ Below[1] = stack[1] /\ OnLibrary(Below)
      /\ \A f : ~BeingCompiled(f) /\ ~BeingRun(f)
  BY <1>1, FramesUnderway
<1>3. l \in Frame /\ l.at = "load" /\ c \in Frame /\ c.at = "compile"
  <2>1. Top.forms \in Seq(Form) /\ compileTable \in Env
    BY <1>1, Popped, FrameKinds DEF LoadFrame, Inv, Sound
  <2>2. Head(Top.forms) \in Form /\ Tail(Top.forms) \in Seq(Form)
    BY <1>1, <2>1, HeadTailProperties
  <2>3. l \in LoadFrame /\ l.at = "load" /\ c \in CompileFrame /\ c.at = "compile"
    BY <2>1, <2>2 DEF Loading, LoadFrame, Compiling, CompileFrame, Env
  <2> QED
    BY <2>3, Frames
<1> HIDE DEF l, c
<1> DEFINE b == Append(Below, l)
<1>4. b \in Seq(Frame) /\ Len(b) >= 1 /\ OnLibrary(b) /\ b[1] = stack[1]
  BY <1>2, <1>3, OneMore
<1>5. stack' = Append(b, c)
  BY <1>1
<1> HIDE DEF b
<1>6. OnLibrary(stack') /\ stack'[1] = stack[1]
  BY <1>3, <1>4, <1>5, OneMore
<1> QED
  BY <1>1, <1>2, <1>6, AboveStays

\* A form is taken from the library, or skipped because it is defined.
LEMMA TakenUnderway ==
    ASSUME Inv, Next, Underway, NextForm \/ Skip, Top.at = "library"
    PROVE  Underway'
<1> DEFINE fs == stack[1].forms
           l == Loading("library", Tail(fs))
           c == Compiling(Head(fs), "interaction", compileTable, TRUE)
<1>1. /\ stack # <<>> /\ Top.forms # <<>> /\ UNCHANGED <<disk, lib, cand>>
      /\ Skip => stack' = Remaining /\ Defined(Head(Top.forms)) /\ UNCHANGED tables
      /\ ~Skip => stack' = Append(Remaining, Compiling(Head(Top.forms), "interaction", compileTable, TRUE))
  BY DEF NextForm, Skip, At, Enter
<1>2. /\ Len(stack) = 1 /\ Top = stack[1] /\ Below = <<>>
      /\ \A f : ~BeingCompiled(f) /\ ~BeingRun(f)
  BY <1>1, FramesUnderway
<1>3. /\ Remaining = Append(<<>>, l) /\ (Skip => stack' = Remaining) /\ (~Skip => stack' = Append(Remaining, c))
      /\ fs # <<>> /\ (Skip => Defined(Head(fs)))
  BY <1>1, <1>2 DEF Remaining
<1>4. fs \in Seq(Form) /\ compileTable \in Env
  BY <1>1, <1>2, Popped, FrameKinds DEF LoadFrame, Inv, Sound
<1>5. /\ Head(fs) = fs[1] /\ Head(fs) \in Form /\ Len(fs) \in Nat /\ Len(fs) >= 1
      /\ Tail(fs) \in Seq(Form) /\ Len(Tail(fs)) = Len(fs) - 1
      /\ \A k \in 1..Len(Tail(fs)) : Tail(fs)[k] = fs[k + 1]
  BY <1>3, <1>4, HeadTailProperties, LenProperties, EmptySeq
<1>6. /\ l \in Frame /\ l.at = "library" /\ l.forms = Tail(fs)
      /\ c \in Frame /\ c.at = "compile" /\ c.top = TRUE /\ c.form = Head(fs)
  <2>1. /\ l \in LoadFrame /\ l.at = "library" /\ l.forms = Tail(fs)
        /\ c \in CompileFrame /\ c.at = "compile" /\ c.top = TRUE /\ c.form = Head(fs)
    BY <1>4, <1>5 DEF Loading, LoadFrame, Compiling, CompileFrame, Env
  <2> QED
    BY <2>1, Frames
<1> HIDE DEF l, c
<1>7. Remaining \in Seq(Frame) /\ Len(Remaining) = 1 /\ Remaining[1] = l
  <2>1. <<>> \in Seq(Frame) /\ Len(<<>>) = 0
    OBVIOUS
  <2>2. Remaining \in Seq(Frame) /\ Len(Remaining) = 0 + 1 /\ Remaining[0 + 1] = l
    BY <1>3, <1>6, <2>1, AppendAt
  <2> QED
    BY <2>2
<1>8. OnLibrary(Remaining)
  BY <1>6, <1>7 DEF OnLibrary
<1>9. OnLibrary(stack') /\ stack'[1] = l /\ (~Skip => Len(stack') = 2 /\ stack'[2] = c)
  <2>1. LET a == Append(Remaining, c) IN OnLibrary(a) /\ a[1] = l /\ Len(a) = 2 /\ a[2] = c
    <3> DEFINE a == Append(Remaining, c)
               n == Len(Remaining)
    <3>1. Remaining \in Seq(Frame) /\ n = 1 /\ n >= 1 /\ c \in Frame /\ c.at # "library"
      BY <1>6, <1>7
    <3>2. OnLibrary(a) /\ a[1] = Remaining[1] /\ Len(a) = n + 1 /\ a[n + 1] = c
      BY <1>8, <3>1, OneMore
    <3> HIDE DEF a, n
    <3> QED
      BY <1>7, <3>1, <3>2 DEF a
  <2> QED
    BY <1>3, <1>7, <1>8, <2>1
<1>10. ASSUME NEW f \in Form, Defines(f), StillToRead(f)
       PROVE  HasCell(f.name)' \/ StillToRead(f)' \/ BeingCompiled(f)'
  <2>1. PICK k \in 1..Len(fs) : fs[k] = f
    BY <1>10 DEF StillToRead
  <2>2. CASE k > 1
    <3>1. k - 1 \in 1..Len(Tail(fs)) /\ Tail(fs)[k - 1] = fs[k - 1 + 1] /\ k - 1 + 1 = k
      BY <1>5, <2>2
    <3>2. stack'[1].forms = Tail(fs)
      BY <1>6, <1>9
    <3>3. k - 1 \in 1..Len(stack'[1].forms) /\ stack'[1].forms[k - 1] = f
      BY <2>1, <3>1, <3>2
    <3> QED
      BY <3>3 DEF StillToRead
  <2>3. CASE k = 1 /\ ~Skip
    <3>1. Len(stack') = 2 /\ stack'[2].at = "compile" /\ stack'[2].top = TRUE /\ stack'[2].form = f
      BY <1>5, <1>6, <1>9, <2>1, <2>3
    <3> QED
      BY <3>1 DEF BeingCompiled
  <2>4. CASE k = 1 /\ Skip
    <3>1. Defined(f) /\ UNCHANGED tables
      BY <1>1, <1>3, <1>5, <2>1, <2>4
    <3>2. tables["interaction"][f.name] # Cell(Unbound, NoMacro)
      BY <3>1 DEF Defined, Cell
    <3> QED
      BY <3>1, <3>2 DEF HasCell
  <2> QED
    BY <2>2, <2>3, <2>4
<1> HIDE DEF fs
<1> QED
  BY <1>1, <1>2, <1>9, <1>10, UnderwayStays

\* An error that a handler above the library catches.
LEMMA CaughtUnderway ==
    ASSUME Inv, Next, Underway, stack # <<>>, Throw, Indices("catch") # {}
    PROVE  Underway'
<1>1. PICK o \in 1..Len(stack), m \in 1..Len(stack), c \in 1..Len(stack) :
              /\ Outermost = o /\ stack[o].at = "machine" /\ o <= m /\ m < c
              /\ \A k \in m + 1..c - 1 : stack[k].at # "compile"
              /\ Survives \in Seq(Frame) /\ Len(Survives) = o + (c - 1 - m)
              /\ \A k \in 1..o : Survives[k] = stack[k]
              /\ \A k \in o + 1..Len(Survives) :
                    Survives[k] = stack[m + (k - o)] /\ m + (k - o) \in m + 1..c - 1
  BY Caught
<1>2. stack' = Survives /\ UNCHANGED <<disk, lib, cand>>
  BY DEF Throw, TriesNext
<1>3. Len(stack) \in Nat /\ OnLibrary(stack)
  BY LenProperties DEF Inv, Sound, Underway
<1>4. stack'[1] = stack[1]
  BY <1>1, <1>2, <1>3
<1>5. ASSUME NEW k \in 2..Len(stack') PROVE stack'[k].at # "library"
  <2>1. CASE k <= o
    <3>1. k \in 1..o /\ k \in 2..Len(stack)
      BY <1>1, <1>2, <1>3, <2>1
    <3>2. stack'[k] = stack[k]
      BY <1>1, <1>2, <3>1
    <3> QED
      BY <1>3, <3>1, <3>2 DEF OnLibrary
  <2>2. CASE k > o
    <3> DEFINE j == m + (k - o)
    <3>1. stack'[k] = stack[j] /\ j \in m + 1..c - 1
      BY <1>1, <1>2, <1>3, <2>2
    <3> HIDE DEF j
    <3>2. j \in 2..Len(stack)
      BY <1>1, <1>3, <3>1
    <3> QED
      BY <1>3, <3>1, <3>2 DEF OnLibrary
  <2> QED
    BY <1>1, <1>3, <2>1, <2>2
<1>6. OnLibrary(stack')
  BY <1>3, <1>4, <1>5 DEF OnLibrary
<1>7. ASSUME NEW f, BeingCompiled(f) \/ BeingRun(f) PROVE FALSE
  <2>1. PICK k \in 1..Len(stack) : stack[k].at = "catch"
    BY DEF Indices
  <2>2. Len(stack) = 2 \/ Len(stack) = 3
    BY <1>7 DEF BeingCompiled, BeingRun
  <2>3. k = 1 \/ k = 2 \/ k = 3
    BY <2>1, <2>2
  <2> QED
    BY <1>3, <1>7, <2>1, <2>2, <2>3, Frames DEF BeingCompiled, BeingRun, OnLibrary
<1> QED
  BY <1>2, <1>4, <1>6, <1>7, AboveStays

\* A definition in a library is not turned away: the compiler is in the
\* interaction environment.
LEMMA ThrowUnderway ==
    ASSUME Inv, Next, Underway, stack # <<>>, Throw
    PROVE  stack' # <<>> => Underway'
<1>1. CASE Indices("catch") = {}
  BY <1>1 DEF Throw, Survives
<1>2. CASE Indices("catch") # {}
  BY <1>2, CaughtUnderway
<1> QED
  BY <1>1, <1>2

-----------------------------------------------------------------------------
(* From candidate to candidate, and the session.                           *)

LEMMA StepUnderway ==
    ASSUME Inv, Underway, stack # <<>>, Next, ~LibraryLoaded, phase = "startup"
    PROVE  /\ stack' # <<>> => Underway'
           /\ phase' = "startup" /\ UNCHANGED <<disk, lib, warned>>
<1>1. CASE Expand \/ Compiled
  BY <1>1, ExpandUnderway, CompiledUnderway DEF Expand, Compiled
<1>2. CASE Bind \/ BindMacro
  <2>1. Top.at = "run" /\ Return
    BY <1>2 DEF Bind, BindMacro, At
  <2> QED
    BY <1>2, <2>1, ReturnUnderway DEF Return
<1>3. CASE Throw
  BY <1>3, ThrowUnderway DEF Throw
<1>4. CASE (Refer \/ Returned \/ Loaded) /\ ~Throw
  <2>1. /\ Return /\ Top.at \in {"run", "catch", "machine", "load"}
        /\ Top.at = "run" => Top.form.op \in {"ref", "use"}
    BY <1>4 DEF Refer, Returned, Loaded, At, Is
  <2> QED
    BY <2>1, ReturnUnderway DEF Return, Defines
<1>5. CASE Eval \/ Load
  BY <1>5, CallUnderway DEF Eval, Load
<1>6. CASE NextForm \/ Skip
  <2>1. Top.at \in {"load", "library"} /\ (Skip => Top.at = "library")
    BY <1>6 DEF NextForm, Skip, At
  <2> QED
    BY <1>6, <2>1, LoadingUnderway, TakenUnderway DEF NextForm, Skip
<1>7. Reject \/ Fail => Throw
  BY DEF Reject, Fail
<1>8. ~TryCandidate /\ ~Warn /\ ~Freeze /\ ~ \E f \in Typed : Type(f)
  BY DEF TryCandidate, Warn, Freeze, Type, Searching
<1> QED
  BY <1>1, <1>2, <1>3, <1>4, <1>5, <1>6, <1>7, <1>8 DEF Next

\* The whole candidate is read: all its definitions are bound.
LEMMA LibraryLoadedKeepsAll ==
    ASSUME Inv, LibrariesInv, phase = "startup", Next, LibraryLoaded
    PROVE  LibrariesInv'
<1>1. /\ stack # <<>> /\ Top.at = "library" /\ Top.forms = <<>> /\ stack' = Below
      /\ lib' = lib + 1 /\ phase' = "startup" /\ UNCHANGED <<tables, disk, warned>>
  BY DEF LibraryLoaded, At
<1>2. Underway /\ \A l \in {1, 2} : l < lib => Accounted(l)
  BY <1>1 DEF LibrariesInv
<1>3. Len(stack) = 1 /\ Top = stack[1] /\ Below = <<>>
  BY <1>1, <1>2, FramesUnderway
<1>4. lib \in {1, 2} /\ cand \in 1..Len(disk[lib]) /\ disk[lib][cand] # Missing
  BY <1>2 DEF Underway
<1>5. Accounted(lib)
  <2>1. \A f : ~StillToRead(f) /\ ~BeingCompiled(f) /\ ~BeingRun(f)
    BY <1>1, <1>3 DEF StillToRead, BeingCompiled, BeingRun
  <2>2. Read(lib, cand)
    BY <1>2, <1>4, <2>1 DEF Underway, Read
  <2> QED
    BY <1>4, <2>2 DEF Accounted
<1>6. \A l \in {1, 2} : l < lib' => Accounted(l)
  BY <1>1, <1>2, <1>4, <1>5
<1>7. \A l \in {1, 2} : l < lib' => Accounted(l)'
  <2>1. ASSUME NEW l \in {1, 2}, Accounted(l) PROVE Accounted(l)'
    BY <1>1, <2>1, AccountedStays
  <2> QED
    BY <1>6, <2>1
<1> QED
  BY <1>1, <1>3, <1>4, <1>7 DEF LibrariesInv, NoSilentLoss

LEMMA SearchKeepsAll ==
    ASSUME Inv, LibrariesInv, phase = "startup", Next, TryCandidate \/ Warn
    PROVE  LibrariesInv'
<1>1. /\ stack = <<>> /\ phase' = "startup" /\ UNCHANGED <<tables, disk>> /\ lib \in {1, 2}
      /\ warned \subseteq warned' /\ (TryCandidate => lib' = lib)
      /\ ~TryCandidate => stack' = <<>> /\ lib' = lib + 1 /\ warned' = warned \cup {lib}
  BY DEF TryCandidate, Warn, Searching
<1>2. \A l \in {1, 2} : l < lib => Accounted(l)'
  <2>1. ASSUME NEW l \in {1, 2}, l < lib PROVE Accounted(l)'
    BY <1>1, <2>1, AccountedStays DEF LibrariesInv
  <2> QED
    BY <2>1
<1>3. CASE ~TryCandidate
  <2>1. \A l \in {1, 2} : l < lib' => l < lib \/ l = lib
    BY <1>1, <1>3
  <2>2. ASSUME NEW l \in {1, 2}, l = lib PROVE Accounted(l)'
    BY <1>1, <1>3, <2>2 DEF Accounted
  <2>3. \A l \in {1, 2} : l < lib' => Accounted(l)'
    BY <1>2, <2>1, <2>2
  <2> QED
    BY <1>1, <1>3, <2>3 DEF LibrariesInv, NoSilentLoss
<1>4. CASE TryCandidate
  <2>1. \A l \in {1, 2} : l < lib' => Accounted(l)'
    BY <1>1, <1>2, <1>4
  <2>2. ASSUME stack' # <<>> PROVE Underway'
    <3> DEFINE c == disk[lib][cand]
    <3>1. /\ cand \in 1..Len(disk[lib]) /\ c # Missing /\ cand' = cand
          /\ stack' = <<Loading("library", c.forms)>>
      BY <1>1, <1>4, <2>2 DEF TryCandidate
    <3>2. Len(stack') = 1 /\ stack'[1].at = "library" /\ stack'[1].forms = c.forms
      BY <3>1 DEF Loading
    <3>3. FormsOf(c) = {c.forms[k] : k \in 1..Len(c.forms)}
      BY <3>1 DEF FormsOf
    <3> HIDE DEF c
    <3>4. ASSUME NEW f \in FormsOf(c) PROVE StillToRead(f)'
      BY <3>2, <3>3, <3>4 DEF StillToRead
    <3>5. FormsOf(disk[lib][cand])' = FormsOf(c)
      BY <1>1, <1>4, <3>1 DEF c, FormsOf
    <3>6. OnLibrary(stack')
      BY <3>2 DEF OnLibrary
    <3> QED
      BY <1>1, <1>4, <3>1, <3>4, <3>5, <3>6 DEF Underway, c
  <2> QED
    BY <1>1, <1>4, <2>1, <2>2 DEF LibrariesInv, NoSilentLoss
<1> QED
  BY <1>3, <1>4

\* The copy for the report has what is bound.
LEMMA FreezeKeepsAll ==
    ASSUME Inv, LibrariesInv, phase = "startup", Next, Freeze
    PROVE  LibrariesInv'
<1>1. /\ lib = 3 /\ phase' = "session" /\ UNCHANGED <<disk, warned>>
      /\ tables' = [tables EXCEPT !["report"] = Copy(Names), !["null"] = Copy(Special)]
  BY DEF Freeze
<1>2. tables'["report"] = Copy(Names)
  BY <1>1 DEF Inv, TablesTyped, Env
<1>3. \A n \in Names : HasCell(n) => n \in DOMAIN tables'["report"]
  BY <1>2 DEF Copy, HasCell
<1>4. \A l \in {1, 2} : Accounted(l)
  BY <1>1 DEF LibrariesInv
<1>5. ASSUME NEW l \in {1, 2}, l \notin warned
      PROVE  \E c \in 1..Len(disk[l]) :
                /\ disk[l][c] # Missing
                /\ \A f \in FormsOf(disk[l][c]) :
                      f.op \in {"define", "define-macro"} => f.name \in DOMAIN tables'["report"]
  <2>1. PICK c \in 1..Len(disk[l]) : Read(l, c)
    BY <1>4, <1>5 DEF Accounted
  <2>2. ASSUME NEW f \in FormsOf(disk[l][c]), Defines(f) PROVE f.name \in DOMAIN tables'["report"]
    BY <1>3, <2>1, <2>2, NamedOnDisk DEF Read
  <2> QED
    BY <2>1, <2>2 DEF Read, Defines
<1>6. NoSilentLoss'
  BY <1>1, <1>5 DEF NoSilentLoss
<1> QED
  BY <1>1, <1>6 DEF LibrariesInv

LEMMA SessionKeepsAll ==
    ASSUME Inv, LibrariesInv, phase = "session", Next
    PROVE  LibrariesInv'
<1>1. phase' = "session" /\ UNCHANGED <<disk, warned>>
  BY DEF Next, Expand, Reject, Compiled, Bind, BindMacro, Return, Refer, Eval, Load, Fail, Returned,
         NextForm, Skip, Loaded, TryCandidate, LibraryLoaded, Warn, Freeze, Type, Throw, Searching
<1>2. tables'["report"] = tables["report"]
  <2>1. CASE Bind \/ BindMacro
    <3>1. stack # <<>> /\ Top.at = "run" /\ Top.form.op \in Writes
      BY <2>1 DEF Bind, BindMacro, At, Is, Writes
    <3>2. Top.env = "interaction"
      BY <3>1, Popped
    <3>3. \E cell : Store(cell)
      BY <2>1 DEF Bind, BindMacro
    <3> QED
      BY <3>2, <3>3 DEF Store, Inv, TablesTyped, Env
  <2>2. ~Freeze
    BY DEF Freeze, Searching
  <2> QED
    BY <2>1, <2>2, TablesChange
<1>3. NoSilentLoss'
  BY <1>1, <1>2 DEF LibrariesInv, NoSilentLoss, FormsOf
<1> QED
  BY <1>1, <1>3 DEF LibrariesInv

LEMMA NextKeepsAll == Inv /\ LibrariesInv /\ [Next]_vars => LibrariesInv'
<1> SUFFICES ASSUME Inv, LibrariesInv, [Next]_vars PROVE LibrariesInv'
  OBVIOUS
<1>1. CASE UNCHANGED vars
  BY <1>1 DEF vars, LibrariesInv, NoSilentLoss, Accounted, Read, HasCell, FormsOf, Underway, OnLibrary,
              StillToRead, BeingCompiled, BeingRun
<1>2. CASE Next /\ phase # "startup"
  <2>1. CASE phase = "session"
    BY <1>2, <2>1, SessionKeepsAll
  <2>2. CASE phase # "session"
    <3>1. phase' = phase
      BY <1>2, <2>2 DEF Next, Expand, Reject, Compiled, Bind, BindMacro, Return, Refer, Eval, Load, Fail,
                Returned, NextForm, Skip, Loaded, TryCandidate, LibraryLoaded, Warn, Freeze, Type, Throw,
                Searching
    <3> QED
      BY <1>2, <2>2, <3>1 DEF LibrariesInv, NoSilentLoss
  <2> QED
    BY <2>1, <2>2
<1>3. CASE Next /\ phase = "startup" /\ (TryCandidate \/ Warn \/ Freeze \/ LibraryLoaded)
  BY <1>3, SearchKeepsAll, FreezeKeepsAll, LibraryLoadedKeepsAll
<1>4. CASE Next /\ phase = "startup" /\ ~(TryCandidate \/ Warn \/ Freeze \/ LibraryLoaded)
  <2>1. stack # <<>>
    BY <1>4 DEF Next, Expand, Reject, Compiled, Bind, BindMacro, Refer, Eval, Load, Fail, Returned,
                NextForm, Skip, Loaded, Type, At
  <2>2. Underway /\ lib \in 1..3 /\ \A l \in {1, 2} : l < lib => Accounted(l)
    BY <1>4, <2>1 DEF LibrariesInv
  <2>3. (stack' # <<>> => Underway') /\ phase' = "startup" /\ UNCHANGED <<disk, lib, warned>>
    BY <1>4, <2>1, <2>2, StepUnderway
  <2>4. ASSUME NEW l \in {1, 2}, l < lib' PROVE Accounted(l)'
    BY <1>4, <2>2, <2>3, <2>4, AccountedStays
  <2> QED
    BY <2>2, <2>3, <2>4 DEF LibrariesInv, NoSilentLoss
<1> QED
  BY <1>1, <1>2, <1>3, <1>4

\* A library the program did not warn about is there: there is a candidate of
\* which everything it defines, itself or skipped as defined, is bound in the
\* copy for the report. Not so if load_library_dedup took a
\* candidate that broke off for read.
THEOREM NoLibraryIsLost == Spec => []NoSilentLoss
<1>1. Init => LibrariesInv
  BY DEF Init, LibrariesInv, NoSilentLoss
<1>2. LibrariesInv => NoSilentLoss
  BY DEF LibrariesInv
<1> QED
  BY <1>1, <1>2, Invariant, NextKeepsAll, PTL DEF Spec
=============================================================================
