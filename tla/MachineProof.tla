---------------------------- MODULE MachineProof -----------------------------
(***************************************************************************)
(* Proofs about module SECD, for every compiler, library, program, set of  *)
(* files and bound on random.                                              *)
(*                                                                         *)
(* First, dynamic-wind and the session. A step concerns dynamic-wind in    *)
(* few ways: the current stack of frames stays, grows by a frame with the  *)
(* next id, loses its innermost frame or becomes the one of a              *)
(* continuation, and a new continuation gets a copy of it. WindStep says   *)
(* so; lemmas show that each action is such a step, and that such steps    *)
(* keep Inv.                                                               *)
(*                                                                         *)
(* Then the discipline of the code the compiler makes (Discipline): on     *)
(* code that keeps it the machine never breaks. No operand, frame, slot or *)
(* dump entry is missing, the floors of the suspended procedures lie in    *)
(* order, and the scratch closure is not kept.                             *)
(*                                                                         *)
(* The blocks the machine is in form levels: one for each entry of the     *)
(* dump and one on top. Each level has an entry height, from which its     *)
(* block counts its operands, and rests on the level below, to which RTN   *)
(* or JOIN goes back. STOP and rewind code go back nowhere; below such a   *)
(* level nothing is known of the dump, and nothing need be. A continuation *)
(* and a machine waiting in a load are the same, stored. The world of      *)
(* code, frames and lists the levels refer to only grows, so that what was *)
(* stored stays right. Each instruction, call, primitive, error and step   *)
(* of the session keeps Soundness; what it says of a running machine is    *)
(* unfolded by Begins and Facts.                                           *)
(***************************************************************************)
EXTENDS SECD, Discipline, TLAPS, SequenceTheorems, WellFoundedInduction

-----------------------------------------------------------------------------
(* Sequences whose elements have no set of their own.                      *)

LEMMA SequenceIs ==
    ASSUME NEW s, IsSequence(s)
    PROVE  Len(s) \in Nat /\ DOMAIN s = 1..Len(s)
BY DEF IsSequence

LEMMA SequenceEmpty == IsSequence(<<>>) /\ Len(<<>>) = 0 /\ DOMAIN <<>> = {}
<1>1. <<>> \in Seq({<<>>[i] : i \in DOMAIN <<>>})
  BY EmptySeq
<1> QED
  BY <1>1, EmptySeq DEF IsSequence

\* Any sequence over any set is one.
LEMMA SequenceOver ==
    ASSUME NEW S, NEW s \in Seq(S)
    PROVE  IsSequence(s)
<1>1. s = [i \in 1..Len(s) |-> s[i]] /\ Len(s) \in Nat /\ DOMAIN s = 1..Len(s)
  BY SMT
<1>2. \A i \in 1..Len(s) : s[i] \in {s[j] : j \in DOMAIN s}
  BY <1>1
<1>3. s \in Seq({s[i] : i \in DOMAIN s})
  BY <1>1, <1>2, IsASeq
<1> QED
  BY <1>3 DEF IsSequence

LEMMA SequenceAppend ==
    ASSUME NEW s, NEW x, IsSequence(s)
    PROVE  /\ IsSequence(Append(s, x))
           /\ Len(Append(s, x)) = Len(s) + 1
           /\ \A i \in 1..Len(s) : Append(s, x)[i] = s[i]
           /\ Append(s, x)[Len(s) + 1] = x
<1> DEFINE T == {s[i] : i \in DOMAIN s} \cup {x}
<1>1. s \in Seq(T)
  BY SeqMonotonic DEF IsSequence
<1>2. x \in T
  OBVIOUS
<1> HIDE DEF T
<1>3. IsSequence(Append(s, x))
  <2>1. Append(s, x) \in Seq(T)
    BY <1>1, <1>2, AppendProperties
  <2> QED
    BY <2>1, SequenceOver
<1> QED
  BY <1>1, <1>2, <1>3, AppendProperties

LEMMA Prefix ==
    ASSUME NEW T, NEW s, NEW n \in Nat, \A i \in 1..n : s[i] \in T
    PROVE  /\ SubSeq(s, 1, n) \in Seq(T)
           /\ Len(SubSeq(s, 1, n)) = n
           /\ \A i \in 1..n : SubSeq(s, 1, n)[i] = s[i]
<1>1. SubSeq(s, 1, n) \in Seq(T)
  OBVIOUS
<1>2. Len(SubSeq(s, 1, n)) = n
  OBVIOUS
<1>3. \A i \in 1..n : SubSeq(s, 1, n)[i] = s[i]
  OBVIOUS
<1> QED
  BY <1>1, <1>2, <1>3

LEMMA SequencePop ==
    ASSUME NEW s, IsSequence(s), s # <<>>
    PROVE  /\ IsSequence(Pop(s))
           /\ Len(Pop(s)) = Len(s) - 1
           /\ \A i \in 1..Len(Pop(s)) : Pop(s)[i] = s[i] /\ i \in 1..Len(s)
<1> DEFINE T == {s[i] : i \in DOMAIN s}
<1>1. s \in Seq(T)
  BY DEF IsSequence
<1> HIDE DEF T
<1>2. Len(s) \in Nat /\ Len(s) # 0
  BY <1>1, EmptySeq
<1>3. PICK n \in Nat : Len(s) = n + 1 /\ Len(s) - 1 = n
  BY <1>2
<1>4. Pop(s) = SubSeq(s, 1, n)
  BY <1>3 DEF Pop
<1>5. \A i \in 1..n : s[i] \in T /\ i \in 1..Len(s)
  BY <1>1, <1>3
<1>6. /\ SubSeq(s, 1, n) \in Seq(T)
      /\ Len(SubSeq(s, 1, n)) = n
      /\ \A i \in 1..n : SubSeq(s, 1, n)[i] = s[i]
  BY <1>5, Prefix
<1>7. IsSequence(SubSeq(s, 1, n))
  BY <1>6, SequenceOver
<1> HIDE DEF Pop
<1> QED
  BY <1>3, <1>4, <1>5, <1>6, <1>7

-----------------------------------------------------------------------------
(* One tree of wind frames.                                                *)

LEMMA OnePathSymmetric ==
    ASSUME NEW a, NEW b, OnePath(a, b)
    PROVE  OnePath(b, a)
BY DEF OnePath

LEMMA OnePathPush ==
    ASSUME NEW a, NEW b, NEW f, IsSequence(a), OnePath(a, b),
           \A j \in 1..Len(b) : b[j].id # f.id
    PROVE  OnePath(Append(a, f), b)
<1>1. /\ Len(a) \in Nat /\ Len(Append(a, f)) = Len(a) + 1
      /\ \A i \in 1..Len(a) : Append(a, f)[i] = a[i]
      /\ Append(a, f)[Len(a) + 1] = f
  BY SequenceIs, SequenceAppend
<1> DEFINE p == Append(a, f)
<1> HIDE DEF p
<1>2. SUFFICES ASSUME NEW i \in 1..Len(p), NEW j \in 1..Len(b), p[i].id = b[j].id
               PROVE  i = j /\ \A h \in 1..i : p[h] = b[h]
  BY DEF OnePath, p
<1>3. i \in 1..Len(a) /\ \A h \in 1..i : h \in 1..Len(a) /\ p[h] = a[h]
  BY <1>1, <1>2 DEF p
<1> QED
  BY <1>2, <1>3 DEF OnePath

LEMMA OnePathPushBoth ==
    ASSUME NEW a, NEW f, IsSequence(a), OnePath(a, a),
           \A i \in 1..Len(a) : a[i].id # f.id
    PROVE  OnePath(Append(a, f), Append(a, f))
<1>1. OnePath(Append(a, f), a)
  BY OnePathPush
<1>2. OnePath(a, Append(a, f))
  BY <1>1, OnePathSymmetric
<1>3. /\ Len(a) \in Nat /\ Len(Append(a, f)) = Len(a) + 1
      /\ \A i \in 1..Len(a) : Append(a, f)[i] = a[i]
      /\ Append(a, f)[Len(a) + 1] = f
  BY SequenceIs, SequenceAppend
<1> DEFINE p == Append(a, f)
<1> HIDE DEF p
<1>4. SUFFICES ASSUME NEW i \in 1..Len(p), NEW j \in 1..Len(p), p[i].id = p[j].id
               PROVE  i = j
  BY DEF OnePath, p
<1>5. CASE i = Len(a) + 1
  BY <1>3, <1>4, <1>5 DEF p
<1>6. CASE i \in 1..Len(a)
  BY <1>2, <1>3, <1>4, <1>6 DEF p, OnePath
<1> QED
  BY <1>3, <1>5, <1>6 DEF p

LEMMA OnePathPop ==
    ASSUME NEW a, NEW b, IsSequence(a), a # <<>>, OnePath(a, b)
    PROVE  OnePath(Pop(a), b)
<1>1. /\ Len(a) \in Nat /\ Len(Pop(a)) = Len(a) - 1
      /\ \A i \in 1..Len(Pop(a)) : Pop(a)[i] = a[i] /\ i \in 1..Len(a)
  BY SequenceIs, SequencePop
<1>2. SUFFICES ASSUME NEW i \in 1..Len(Pop(a)), NEW j \in 1..Len(b), Pop(a)[i].id = b[j].id
               PROVE  i = j /\ \A h \in 1..i : Pop(a)[h] = b[h]
  BY DEF OnePath
<1>3. i \in 1..Len(a) /\ \A h \in 1..i : Pop(a)[h] = a[h]
  BY <1>1
<1> QED
  BY <1>1, <1>2, <1>3 DEF OnePath

\* The part of TypeOK about wind frames.
WindsOK ==
    /\ nextWind \in Nat \ {0}
    /\ IsWinds(winds)
    /\ IsSequence(conts) /\ \A k \in DOMAIN conts : IsWinds(conts[k].winds)

\* What a step may do to them.
FrameAdded   == /\ \E x, y : winds' = Append(winds, [before |-> x, after |-> y, id |-> nextWind])
                /\ nextWind' = nextWind + 1
FrameRemoved == winds # <<>> /\ winds' = Pop(winds) /\ nextWind' = nextWind
Jumped       == /\ \E k \in DOMAIN conts : winds' = conts[k].winds
                /\ nextWind' = nextWind
WindStep     == UNCHANGED wind \/ FrameAdded \/ FrameRemoved \/ Jumped
Captured     == \E k : k.winds = winds /\ conts' = Append(conts, k)
ContStep     == conts' = conts \/ Captured

\* The wind stacks of the next state were there before, but the current one.
LEMMA StacksFrom ==
    ASSUME WindsOK, ContStep
    PROVE  /\ IsSequence(conts')
           /\ \A k \in DOMAIN conts' : conts'[k].winds \in WindStacks
<1>1. CASE conts' = conts
  BY <1>1 DEF WindsOK, WindStacks
<1>2. CASE Captured
  <2>1. PICK k : k.winds = winds /\ conts' = Append(conts, k)
    BY <1>2 DEF Captured
  <2>2. IsSequence(conts) /\ Len(conts) \in Nat /\ DOMAIN conts = 1..Len(conts)
    BY SequenceIs DEF WindsOK
  <2>3. /\ IsSequence(conts')
        /\ Len(conts') = Len(conts) + 1
        /\ \A i \in 1..Len(conts) : conts'[i] = conts[i]
        /\ conts'[Len(conts) + 1] = k
    BY <2>1, <2>2, SequenceAppend
  <2>4. DOMAIN conts' = 1..Len(conts) + 1
    BY <2>3, SequenceIs
  <2> QED
    BY <2>1, <2>2, <2>3, <2>4 DEF WindStacks
<1> QED
  BY <1>1, <1>2 DEF ContStep

LEMMA WindsKept ==
    ASSUME WindsOK, WindTree, WindStep, ContStep
    PROVE  WindsOK' /\ WindTree'
<1>1. /\ IsSequence(conts')
      /\ \A k \in DOMAIN conts' : conts'[k].winds \in WindStacks
  BY StacksFrom
<1>2. /\ nextWind \in Nat \ {0} /\ IsSequence(winds)
      /\ \A a \in WindStacks : IsSequence(a) /\ \A i \in 1..Len(a) : a[i].id \in 1..nextWind - 1
  BY DEF WindsOK, IsWinds, WindStacks
<1>3. \A a, b \in WindStacks : OnePath(a, b)
  BY DEF WindTree
<1>4. winds \in WindStacks
  BY DEF WindStacks
<1>5. /\ nextWind' \in Nat \ {0} /\ nextWind' >= nextWind
      /\ IsSequence(winds') /\ \A i \in 1..Len(winds') : winds'[i].id \in 1..nextWind' - 1
      /\ OnePath(winds', winds')
      /\ \A b \in WindStacks : OnePath(winds', b)
  <2>1. CASE UNCHANGED wind
    BY <1>2, <1>3, <1>4, <2>1 DEF wind
  <2>2. CASE FrameAdded
    <3>1. PICK x, y : winds' = Append(winds, [before |-> x, after |-> y, id |-> nextWind])
      BY <2>2 DEF FrameAdded
    <3> DEFINE f == [before |-> x, after |-> y, id |-> nextWind]
    <3>2. winds' = Append(winds, f) /\ f.id = nextWind /\ nextWind' = nextWind + 1
      BY <2>2, <3>1 DEF FrameAdded
    <3> HIDE DEF f
    <3>3. \A b \in WindStacks : \A j \in 1..Len(b) : b[j].id # f.id
      BY <1>2, <3>2
    <3>4. \A b \in WindStacks : OnePath(winds', b)
      BY <1>2, <1>3, <1>4, <3>2, <3>3, OnePathPush
    <3>5. OnePath(winds', winds')
      BY <1>2, <1>3, <1>4, <3>2, <3>3, OnePathPushBoth
    <3>6. /\ Len(winds) \in Nat /\ IsSequence(winds') /\ Len(winds') = Len(winds) + 1
          /\ \A i \in 1..Len(winds) : winds'[i] = winds[i]
          /\ winds'[Len(winds) + 1] = f
      BY <1>2, <3>2, SequenceIs, SequenceAppend
    <3> QED
      BY <1>2, <1>4, <3>2, <3>4, <3>5, <3>6
  <2>3. CASE FrameRemoved
    <3>1. winds # <<>> /\ winds' = Pop(winds) /\ nextWind' = nextWind
      BY <2>3 DEF FrameRemoved
    <3>2. \A b \in WindStacks : OnePath(winds', b)
      BY <1>2, <1>3, <1>4, <3>1, OnePathPop
    <3>3. OnePath(winds', winds')
      BY <1>2, <1>4, <3>1, <3>2, OnePathSymmetric, OnePathPop
    <3>4. IsSequence(winds') /\ \A i \in 1..Len(winds') : winds'[i] = winds[i] /\ i \in 1..Len(winds)
      BY <1>2, <3>1, SequencePop
    <3> QED
      BY <1>2, <1>4, <3>1, <3>2, <3>3, <3>4
  <2>4. CASE Jumped
    BY <1>2, <1>3, <2>4 DEF Jumped, WindStacks
  <2> QED
    BY <2>1, <2>2, <2>3, <2>4 DEF WindStep
<1>6. WindsOK'
  <2>1. \A a \in WindStacks : IsSequence(a) /\ \A i \in 1..Len(a) : a[i].id \in 1..nextWind' - 1
    BY <1>2, <1>5
  <2> QED
    BY <1>1, <1>5, <2>1 DEF WindsOK, IsWinds
<1>7. WindTree'
  <2>1. WindStacks' \subseteq WindStacks \cup {winds'}
    BY <1>1 DEF WindStacks
  <2>2. \A b \in WindStacks : OnePath(b, winds')
    BY <1>5, OnePathSymmetric
  <2> QED
    BY <1>3, <1>5, <2>1, <2>2 DEF WindTree
<1> QED
  BY <1>6, <1>7

-----------------------------------------------------------------------------
(* What a step does, action by action.                                     *)

PortsOK   == stdout \in Ports /\ open \subseteq Ports
FuelOK    == fuel \in 0..RandomFuel
SessionOK == /\ status \in {"idle", "run", "exit", "crash"}
             /\ input \in Nat \ {0} /\ form \in Nat \ {0}
             /\ IsSequence(results)

LEMMA TypeParts == TypeOK <=> SessionOK /\ FuelOK /\ WindsOK /\ PortsOK
BY DEF TypeOK, SessionOK, FuelOK, WindsOK, PortsOK

\* While the process runs, results grows by at most one; under --load an
\* error is the end.
Answered     == \E r : results' = Append(results, r) /\ (r.kind = "error" /\ Mode = "load" => status' = "exit")
SessionMoves ==
    /\ Running
    /\ status' \in {"idle", "run", "exit", "crash"}
    /\ input' \in {input, input + 1} /\ form' \in {form, form + 1, 1}
    /\ results' = results \/ Answered
SessionStep == UNCHANGED session \/ SessionMoves

\* A step as the invariant sees it, but for conts.
StepOK == WindStep /\ SessionStep /\ PortsOK' /\ FuelOK'

\* Most instructions touch nothing of all that.
Quiet == UNCHANGED <<wind, ports, fuel, session>>

LEMMA QuietIsOK ==
    ASSUME PortsOK, FuelOK, Quiet
    PROVE  StepOK
BY DEF PortsOK, FuelOK, Quiet, StepOK, WindStep, SessionStep, ports

\* An error changes the session at most.
LEMMA FailStep ==
    ASSUME PortsOK, FuelOK, status = "run", NEW e, Fail(e)
    PROVE  StepOK /\ conts' = conts
<1>1. conts' = conts /\ UNCHANGED <<wind, ports, fuel>>
  BY DEF Fail
<1>2. CASE UNCHANGED session
  BY <1>1, <1>2, QuietIsOK DEF Quiet
<1>3. ASSUME NEW msg, Die(msg)
      PROVE  SessionStep
  <2>1. results' = Append(results, Result("error", msg)) /\ (Mode = "load" => status' = "exit")
    BY <1>3 DEF Die
  <2>2. Answered
    BY <2>1
       DEF Answered
  <2> QED
    BY <1>3, <2>2 DEF Die, SessionStep, SessionMoves, Running
<1>4. UNCHANGED session \/ \E msg : Die(msg)
  BY DEF Fail, Abandon
<1>5. PortsOK' /\ FuelOK'
  BY <1>1 DEF PortsOK, FuelOK, ports
<1> QED
  BY <1>1, <1>2, <1>3, <1>4, <1>5 DEF StepOK, WindStep

\* The value of a run ends a form or stays inside the machine.
LEMMA FinishStep ==
    ASSUME PortsOK, FuelOK, status = "run", NEW v, Finish(v), UNCHANGED <<wind, ports, fuel>>
    PROVE  StepOK
<1>1. CASE UNCHANGED session
  BY <1>1, QuietIsOK DEF Quiet
<1>2. CASE /\ status' = "idle" /\ form' = form + 1 /\ input' = input
           /\ results' = Append(results, Result("value", Show(v)))
  <2>1. Answered
    BY <1>2 DEF Answered, Result
  <2> QED
    BY <1>2, <2>1 DEF StepOK, WindStep, SessionStep, SessionMoves, Running, PortsOK, FuelOK, ports
<1> QED
  BY <1>1, <1>2 DEF Finish

\* A port made current, or opened, is one of Ports: the checks come first.
LEMMA SetStdoutChecked ==
    ASSUME PortsOK, NEW p, NEW a, PrimError(p, a) = NoError, p = "%set-current-output-port!"
    PROVE  a[1].port \in Ports
<1>1. IsOpenPort(a[1])
  BY DEF PrimError, NoError, Raises
<1> QED
  BY <1>1 DEF IsOpenPort, PortsOK

LEMMA OpenPortChecked ==
    ASSUME NEW p, NEW a, PrimError(p, a) = NoError, p = "open-output-file"
    PROVE  a[1].name \in Ports
BY DEF PrimError, NoError, Raises

LEMMA PrimitiveStep ==
    ASSUME PortsOK, FuelOK, status = "run",
           NEW f, NEW s, NEW argp, NEW tail,
           CallError(f, Above(s, argp)) = NoError, CallPrimitive(f, s, argp, tail)
    PROVE  StepOK
<1> DEFINE p == f.prim
           a == Above(s, argp)
<1>1. f.tag = "prim" /\ PrimError(p, a) = NoError
  <2>1. f.tag = "prim"
    BY DEF CallPrimitive
  <2> QED
    BY <2>1 DEF CallError
<1>2. \/ Look(p, s, argp, a)     \/ Allocate(p, s, argp, a)
      \/ WindPush(p, s, argp, a) \/ WindPop(p, s, argp, a)
      \/ SetHandler(p, s, argp, a)
      \/ OpenPort(p, s, argp, a) \/ ClosePort(p, s, argp, a)
      \/ SetStdout(p, s, argp, a) \/ Display(p, s, argp, a)
      \/ Random(p, s, argp, a)
      \/ Exit(p, a)
      \/ Eval(p, s, argp, tail, a)
      \/ Load(p, s, argp, a)
  BY DEF CallPrimitive
<1> HIDE DEF p, a
<1>3. CASE Look(p, s, argp, a)
  BY <1>3, QuietIsOK DEF Look, Others, Quiet
<1>4. CASE Allocate(p, s, argp, a)
  BY <1>4, QuietIsOK DEF Allocate, Others, Quiet
<1>5. CASE WindPush(p, s, argp, a)
  <2>1. FrameAdded
    BY <1>5 DEF WindPush, FrameAdded
  <2> QED
    BY <1>5, <2>1 DEF WindPush, StepOK, WindStep, SessionStep, PortsOK, FuelOK, ports
<1>6. CASE WindPop(p, s, argp, a)
  <2>1. FrameRemoved \/ UNCHANGED wind
    BY <1>6 DEF WindPop, FrameRemoved, wind
  <2> QED
    BY <1>6, <2>1 DEF WindPop, StepOK, WindStep, SessionStep, PortsOK, FuelOK, ports
<1>7. CASE SetHandler(p, s, argp, a)
  BY <1>7, QuietIsOK DEF SetHandler, Quiet
<1>8. CASE OpenPort(p, s, argp, a)
  <2>1. a[1].name \in Ports
    BY <1>1, <1>8, OpenPortChecked DEF OpenPort
  <2> QED
    BY <1>8, <2>1 DEF OpenPort, StepOK, WindStep, SessionStep, PortsOK, FuelOK
<1>9. CASE ClosePort(p, s, argp, a)
  BY <1>9 DEF ClosePort, StepOK, WindStep, SessionStep, PortsOK, FuelOK
<1>10. CASE SetStdout(p, s, argp, a)
  <2>1. a[1].port \in Ports
    BY <1>1, <1>10, SetStdoutChecked DEF SetStdout
  <2> QED
    BY <1>10, <2>1 DEF SetStdout, StepOK, WindStep, SessionStep, PortsOK, FuelOK
<1>11. CASE Display(p, s, argp, a)
  <2>1. UNCHANGED session \/ (status' = "crash" /\ UNCHANGED <<input, form, results>>)
    BY <1>11 DEF Display
  <2>2. SessionStep
    BY <2>1 DEF SessionStep, SessionMoves, Running
  <2> QED
    BY <1>11, <2>2 DEF Display, StepOK, WindStep, PortsOK, FuelOK
<1>12. CASE Random(p, s, argp, a)
  <2>1. UNCHANGED <<wind, ports, session>> /\ (fuel' = fuel \/ (fuel # 0 /\ fuel' = fuel - 1))
    BY <1>12 DEF Random
  <2>2. FuelOK'
    BY <2>1, FuelAssumption DEF FuelOK
  <2> QED
    BY <2>1, <2>2 DEF StepOK, WindStep, SessionStep, PortsOK, ports
<1>13. CASE Exit(p, a)
  <2>1. Answered
    BY <1>13 DEF Exit, Answered, Result
  <2> QED
    BY <1>13, <2>1
       DEF Exit, StepOK, WindStep, SessionStep, SessionMoves, Running, PortsOK, FuelOK, ports
<1>14. CASE Eval(p, s, argp, tail, a)
  <2>1. PICK r : IF r.id = 0 THEN Fail(Raises("syntax error"))
                             ELSE UNCHANGED <<lists, Others>>
    BY <1>14 DEF Eval
  <2>2. CASE r.id = 0
    BY <2>1, <2>2, FailStep
  <2>3. CASE r.id # 0
    BY <2>1, <2>3, QuietIsOK DEF Others, Quiet
  <2> QED
    BY <2>2, <2>3
<1>15. CASE Load(p, s, argp, a)
  BY <1>15, QuietIsOK DEF Load, Others, Quiet
<1> QED
  BY <1>2, <1>3, <1>4, <1>5, <1>6, <1>7, <1>8, <1>9, <1>10, <1>11, <1>12, <1>13, <1>14, <1>15

\* The checks of the callee come before the call.
LEMMA CallChecked ==
    ASSUME Ins.op \in Calls, ErrorOf = NoError
    PROVE  CallError(Calling.f, Above(Calling.s, Calling.argp)) = NoError
<1>1. c # 0 /\ ~Broken /\ ~SpreadsImproper
  BY DEF ErrorOf, NoError, Stops, Raises
<1>2. Ins.op # "LDG"
  BY DEF Calls
<1> QED
  BY <1>1, <1>2 DEF ErrorOf

LEMMA CallStep ==
    ASSUME PortsOK, FuelOK, status = "run", Ins.op \in Calls, ErrorOf = NoError, DoCall
    PROVE  StepOK
<1> DEFINE f    == Calling.f
           s    == Calling.s
           argp == Calling.argp
           tail == Ins.op \in TailCalls
<1>1. CallError(f, Above(s, argp)) = NoError
  BY CallChecked
<1>2. \/ CallPrimitive(f, s, argp, tail)
      \/ CallClosure(f, s, argp, tail)
      \/ CallContinuation(f, s, argp)
  BY DEF DoCall
<1> HIDE DEF f, s, argp, tail
<1>3. CASE CallPrimitive(f, s, argp, tail)
  BY <1>1, <1>3, PrimitiveStep
<1>4. CASE CallClosure(f, s, argp, tail)
  BY <1>4, QuietIsOK DEF CallClosure, Others, Quiet
<1>5. CASE CallContinuation(f, s, argp)
  <2>1. UNCHANGED <<nextWind, ports, fuel, session>>
    BY <1>5 DEF CallContinuation
  <2>2. UNCHANGED wind \/ Jumped
    BY <1>5, <2>1 DEF CallContinuation, Jumped, wind
  <2> QED
    BY <2>1, <2>2 DEF StepOK, WindStep, SessionStep, PortsOK, FuelOK, ports
<1> QED
  BY <1>2, <1>3, <1>4, <1>5

LEMMA InstructionStep ==
    ASSUME PortsOK, FuelOK, status = "run", ErrorOf = NoError, Instruction
    PROVE  StepOK /\ ContStep
<1>1. CASE LoadValue
  BY <1>1, QuietIsOK DEF LoadValue, Outside, heap, Quiet, ContStep
<1>2. CASE LoadScratch
  BY <1>2, QuietIsOK DEF LoadScratch, Outside, heap, Quiet, ContStep
<1>3. CASE Apply
  BY <1>3, CallStep DEF Apply, ContStep
<1>4. CASE PackArgs
  BY <1>4, QuietIsOK DEF PackArgs, Others, Quiet, ContStep
<1>5. CASE Return
  <2>1. conts' = conts /\ UNCHANGED <<wind, ports, fuel>>
    BY <1>5 DEF Return
  <2>2. Finish(TopOrNil) \/ UNCHANGED session
    BY <1>5 DEF Return
  <2> QED
    BY <2>1, <2>2, FinishStep, QuietIsOK DEF Quiet, ContStep
<1>6. CASE Stop
  BY <1>6, FinishStep DEF Stop, ContStep
<1>7. CASE Select
  BY <1>7, QuietIsOK DEF Select, Outside, heap, Quiet, ContStep
<1>8. CASE Join
  BY <1>8, QuietIsOK DEF Join, Outside, heap, Quiet, ContStep
<1>9. CASE Define
  BY <1>9, QuietIsOK DEF Define, heap, Quiet, ContStep
<1>10. CASE Assign
  BY <1>10, QuietIsOK DEF Assign, Quiet, ContStep
<1>11. CASE CallCC
  <2>1. Captured
    BY <1>11 DEF CallCC, Captured
  <2>2. DoCall /\ Ins.op \in Calls
    BY <1>11 DEF CallCC, Calls, Op
  <2> QED
    BY <2>1, <2>2, CallStep DEF ContStep
<1> QED
  BY <1>1, <1>2, <1>3, <1>4, <1>5, <1>6, <1>7, <1>8, <1>9, <1>10, <1>11 DEF Instruction

LEMMA NextStep ==
    ASSUME PortsOK, FuelOK, [Next]_vars
    PROVE  StepOK /\ ContStep
<1>1. CASE Step
  <2>1. PICK e : e = ErrorOf /\ ((e = NoError /\ Instruction) \/ (e # NoError /\ Fail(e)))
    BY <1>1 DEF Step
  <2>2. status = "run"
    BY <1>1 DEF Step
  <2>3. CASE e = NoError /\ Instruction
    BY <2>1, <2>2, <2>3, InstructionStep
  <2>4. CASE e # NoError /\ Fail(e)
    BY <2>2, <2>4, FailStep DEF ContStep
  <2> QED
    BY <2>1, <2>3, <2>4
<1>2. CASE StartForm \/ NextInput \/ EndOfSession
  <2>1. conts' = conts /\ UNCHANGED <<wind, ports, fuel>>
    BY <1>2 DEF StartForm, NextInput, EndOfSession, heap
  <2>2. SessionMoves
    BY <1>2 DEF StartForm, NextInput, EndOfSession, SessionMoves, Running
  <2> QED
    BY <2>1, <2>2 DEF StepOK, ContStep, WindStep, SessionStep, PortsOK, FuelOK, ports
<1>3. CASE UNCHANGED vars
  BY <1>3, QuietIsOK DEF vars, heap, Quiet, ContStep
<1> QED
  BY <1>1, <1>2, <1>3 DEF Next, Over

-----------------------------------------------------------------------------
(* The inductive invariant and the theorems.                               *)

LEMMA SessionKept ==
    ASSUME SessionOK, FirstErrorEnds, SessionStep
    PROVE  SessionOK' /\ FirstErrorEnds'
<1>1. CASE UNCHANGED session
  BY <1>1 DEF SessionOK, FirstErrorEnds, session
<1>2. CASE SessionMoves
  <2>1. status # "exit" /\ IsSequence(results) /\ Len(results) \in Nat /\ DOMAIN results = 1..Len(results)
    BY <1>2, SequenceIs DEF SessionMoves, Running, SessionOK
  <2>2. /\ status' \in {"idle", "run", "exit", "crash"}
        /\ input' \in Nat \ {0} /\ form' \in Nat \ {0}
    BY <1>2 DEF SessionMoves, SessionOK
  <2>3. Mode = "load" => \A i \in 1..Len(results) : results[i].kind # "error"
    BY <2>1 DEF FirstErrorEnds
  <2>4. CASE results' = results
    BY <2>1, <2>2, <2>3, <2>4 DEF SessionOK, FirstErrorEnds
  <2>5. CASE Answered
    <3>1. PICK r : results' = Append(results, r) /\ (r.kind = "error" /\ Mode = "load" => status' = "exit")
      BY <2>5 DEF Answered
    <3>2. /\ IsSequence(results') /\ Len(results') = Len(results) + 1
          /\ \A i \in 1..Len(results) : results'[i] = results[i]
          /\ results'[Len(results) + 1] = r
      BY <2>1, <3>1, SequenceAppend
    <3>3. DOMAIN results' = 1..Len(results) + 1
      BY <3>2, SequenceIs
    <3>4. FirstErrorEnds'
      BY <2>1, <2>3, <3>1, <3>2, <3>3 DEF FirstErrorEnds
    <3> QED
      BY <2>2, <3>2, <3>4 DEF SessionOK
  <2> QED
    BY <1>2, <2>4, <2>5 DEF SessionMoves
<1> QED
  BY <1>1, <1>2 DEF SessionStep

\* TypeOK and WindTree hold of the wind frames together: that the next id is
\* new is what keeps a pushed frame apart from those of every continuation.
Inv == TypeOK /\ WindTree /\ FirstErrorEnds

LEMMA InitInv == Init => Inv
<1> SUFFICES ASSUME Init PROVE Inv
  OBVIOUS
<1>1. SessionOK /\ FuelOK /\ PortsOK
  BY SequenceEmpty, PortsAssumption, FuelAssumption DEF Init, SessionOK, FuelOK, PortsOK
<1>2. WindsOK
  BY SequenceEmpty DEF Init, WindsOK, IsWinds
<1>3. WindTree
  <2>1. WindStacks = {<<>>}
    BY SequenceEmpty DEF Init, WindStacks
  <2> QED
    BY <2>1, SequenceEmpty DEF WindTree, OnePath
<1>4. FirstErrorEnds
  BY SequenceEmpty DEF Init, FirstErrorEnds
<1> QED
  BY <1>1, <1>2, <1>3, <1>4, TypeParts DEF Inv

LEMMA NextInv == Inv /\ [Next]_vars => Inv'
<1> SUFFICES ASSUME Inv, [Next]_vars PROVE Inv'
  OBVIOUS
<1>1. SessionOK /\ FuelOK /\ WindsOK /\ PortsOK /\ WindTree /\ FirstErrorEnds
  BY TypeParts DEF Inv
<1>2. StepOK /\ ContStep
  BY <1>1, NextStep
<1>3. WindsOK' /\ WindTree'
  BY <1>1, <1>2, WindsKept DEF StepOK
<1>4. SessionOK' /\ FirstErrorEnds'
  BY <1>1, <1>2, SessionKept DEF StepOK
<1>5. TypeOK'
  BY <1>2, <1>3, <1>4 DEF StepOK, TypeOK, SessionOK, FuelOK, WindsOK, PortsOK
<1> QED
  BY <1>3, <1>4, <1>5 DEF Inv

LEMMA Invariant == Spec => []Inv
BY InitInv, NextInv, PTL DEF Spec

\* The control state keeps its type: counters count, every wind stack holds
\* frames with ids given out, and the current port is always one that opened
\* (prim_set_current_output_port checks it before it is installed).
THEOREM TypeCorrect == Spec => []TypeOK
<1>1. Inv => TypeOK
  BY DEF Inv
<1> QED
  BY <1>1, Invariant, PTL

\* The wind stacks of the machine and of all continuations are paths of one
\* tree, whatever programs, libraries and errors do (prim_wind_push,
\* prim_wind_pop, CALLCC and build_rewind_code).
THEOREM OneWindTree == Spec => []WindTree
<1>1. Inv => WindTree
  BY DEF Inv
<1> QED
  BY <1>1, Invariant, PTL

\* Under --load nothing runs after an error that was not handled
\* (load_from_path and the catch clause of main).
THEOREM LoadEndsAtFirstError == Spec => []FirstErrorEnds
<1>1. Inv => FirstErrorEnds
  BY DEF Inv
<1> QED
  BY <1>1, Invariant, PTL

-----------------------------------------------------------------------------
(* Jumps. Common is a CHOOSE: that a common outer part exists takes the    *)
(* least place where two wind stacks part.                                 *)

LEMMA LeastNatural ==
    ASSUME NEW T, T \subseteq Nat, T # {}
    PROVE  \E n \in T : \A m \in T : n <= m
<1>1. PICK n \in T : \A m \in T : ~(<<m, n>> \in OpToRel(<, Nat))
  BY WFMin, NatLessThanWellFounded, Zenon
<1>2. \A m \in T : ~(m < n)
  BY <1>1, Zenon DEF OpToRel
<1> QED
  BY <1>2

LEMMA CommonIs ==
    ASSUME NEW a, NEW b, IsSequence(a), IsSequence(b)
    PROVE  /\ Common(a, b) \in Nat /\ Common(a, b) <= Len(a) /\ Common(a, b) <= Len(b)
           /\ Common(a, b) < Len(a) /\ Common(a, b) < Len(b)
                => a[Common(a, b) + 1].id # b[Common(a, b) + 1].id
<1> DEFINE Parted(n) == n < Len(a) /\ n < Len(b) => a[n + 1].id # b[n + 1].id
           T         == {n \in Nat : Parted(n)}
<1>1. Len(a) \in Nat /\ Len(b) \in Nat
  BY SequenceIs
<1>2. T # {}
  BY <1>1
<1>3. PICK n \in T : \A m \in T : n <= m
  BY <1>2, LeastNatural
<1>4. n <= Len(a) /\ n <= Len(b)
  BY <1>1, <1>3
<1>5. \A i \in 1..n : a[i].id = b[i].id
  <2>1. SUFFICES ASSUME NEW i \in 1..n PROVE a[i].id = b[i].id
    OBVIOUS
  <2>2. i - 1 \in Nat /\ i - 1 < n /\ (i - 1) + 1 = i
    BY <1>3
  <2>3. ~Parted(i - 1)
    BY <1>3, <2>2
  <2> QED
    BY <2>2, <2>3
<1>6. n \in 0..Len(a) /\ Parted(n)
  BY <1>3, <1>4
<1>7. \E m \in 0..Len(a) : m <= Len(b) /\ (\A i \in 1..m : a[i].id = b[i].id) /\ Parted(m)
  BY <1>4, <1>5, <1>6
<1> QED
  BY <1>1, <1>7 DEF Common

LEMMA ShortestFromTree == TypeOK /\ WindTree => JumpsAreShortest
<1> SUFFICES ASSUME TypeOK, WindTree,
                    NEW k \in DOMAIN conts,
                    NEW i \in Common(winds, conts[k].winds) + 1..Len(winds),
                    NEW j \in Common(winds, conts[k].winds) + 1..Len(conts[k].winds),
                    winds[i].id = conts[k].winds[j].id
             PROVE  FALSE
  BY DEF JumpsAreShortest
<1> DEFINE b == conts[k].winds
           n == Common(winds, b)
<1>1. IsSequence(winds) /\ IsSequence(b)
  BY DEF TypeOK, IsWinds
<1>2. OnePath(winds, b)
  BY DEF WindTree, WindStacks
<1>3. n \in Nat /\ (n < Len(winds) /\ n < Len(b) => winds[n + 1].id # b[n + 1].id)
  BY <1>1, CommonIs
<1>4. Len(winds) \in Nat /\ Len(b) \in Nat
  BY <1>1, SequenceIs
<1> HIDE DEF b, n
<1>5. i \in n + 1..Len(winds) /\ j \in n + 1..Len(b) /\ winds[i].id = b[j].id
  BY DEF b, n
<1>6. i = j /\ \A h \in 1..i : winds[h] = b[h]
  BY <1>2, <1>3, <1>4, <1>5 DEF OnePath
<1> QED
  BY <1>3, <1>4, <1>5, <1>6

\* No jump leaves a dynamic-wind extent only to enter it again: what
\* build_rewind_code unwinds and rewinds is what differs, and no more.
THEOREM ShortestJumps == Spec => []JumpsAreShortest
<1>1. Inv => JumpsAreShortest
  BY ShortestFromTree DEF Inv
<1> QED
  BY <1>1, Invariant, PTL

-----------------------------------------------------------------------------
(* The invariant. A world w is what addresses refer to.                    *)

Now == [code |-> code, templates |-> templates, frames |-> frames, lists |-> lists, conts |-> conts]

\* e is the environment of a block whose scope is sh.
EnvFits(w, e, sh) ==
    /\ IsSequence(e) /\ sh \in Seq(Nat) /\ Len(e) = Len(sh)
    /\ \A i \in 1..Len(e) : e[i] \in DOMAIN w.frames /\ Len(w.frames[e[i]]) = sh[i]

\* Block n may run in e.
Fits(w, n, e) == \E sh : RunsIn(w.code, w.templates, n, sh) /\ EnvFits(w, e, sh)

\* A closure's body may run in a frame of its own before the closure's.
ClosureOK(w, t, e) ==
    /\ Procedure(w.code, w.templates, t)
    /\ \E sh : /\ RunsIn(w.code, w.templates, w.templates[t].body, <<Width(w.templates[t])>> \o sh)
               /\ EnvFits(w, e, sh)

ValueOK(w, v) ==
    /\ v.tag # "scratch"
    /\ v.tag = "closure" => ClosureOK(w, v.tmpl, v.env)
    /\ v.tag = "cont"    => v.cont \in DOMAIN w.conts
    /\ v.tag = "pair"    => v.list \in DOMAIN w.lists /\ v.at \in 1..Len(w.lists[v.list].elems)
    /\ v.tag = "literal" => Data(v)
    /\ v.tag = "values"  => v.box \in DOMAIN w.lists

AllOK(w, s) == IsSequence(s) /\ \A i \in 1..Len(s) : ValueOK(w, s[i])

\* The operands a block has on the stack, counted from its entry.
DepthOf(b)    == CHOOSE depth \in [0..Len(b) -> Nat] : Counts(b, depth)
DepthAt(w, r) == DepthOf(w.code[r.c])[r.pc]

Bottom(b) == Ends(b, "STOP") \/ EndsInJump(b)

\* The level of the registers r, entered with y operands on the stack.
Placed(w, r, y) ==
    /\ r.c \in DOMAIN w.code /\ r.pc \in Nat /\ r.pc < Len(w.code[r.c])
    /\ r.base \in Nat /\ y \in Nat /\ r.base <= y
    /\ Fits(w, r.c, r.env)

\* The last instruction before r saved the registers or a copy of them.
Waiting(w, r) == r.pc # 0 /\ w.code[r.c][r.pc].op \in Calls \cup {"SEL"}

\* What the level hi, entered at y, leaves is enough for the level lo below
\* it, entered at x.
Links(w, lo, hi, x, y) ==
    /\ Ends(w.code[hi.c], "RTN")  => hi.base + 1 >= x + DepthAt(w, lo)
    /\ Ends(w.code[hi.c], "JOIN") => y + 1 >= x + DepthAt(w, lo) /\ lo.base = hi.base /\ lo.env = hi.env

\* The levels of the dump d, down to the first that goes back nowhere, when
\* the topmost was entered at y.
Chain(w, d, m, e) ==
    /\ m \in 1..Len(d) /\ e \in [1..Len(d) -> Nat]
    /\ Bottom(w.code[d[m].c])
    /\ \A i \in m..Len(d) : Placed(w, d[i], e[i]) /\ Waiting(w, d[i])
    /\ \A i \in m..Len(d) - 1 : Links(w, d[i], d[i + 1], e[i], e[i + 1])
Chained(w, d, y) == \E m, e : Chain(w, d, m, e) /\ e[Len(d)] = y

\* The level r, entered at y, rests on the dump d.
Rests(w, d, r, y) ==
    Bottom(w.code[r.c]) \/ (d # <<>> /\ \E x \in Nat : Chained(w, d, x) /\ Links(w, Top(d), r, x, y))

\* The machine with registers r and dump d may run with n operands.
Entered(w, d, r, n, y) == Placed(w, r, y) /\ Rests(w, d, r, y) /\ n \in Nat /\ n >= y + DepthAt(w, r)
Stands(w, d, r, n) == IsSequence(d) /\ \E y : Entered(w, d, r, n, y)

\* What is stored.
BlockOK(w, n) ==
    /\ IsSequence(w.code[n]) /\ Balanced(w.code[n]) /\ Shaped(w.code[n])
    /\ Linked(w.code, w.templates, n)
ConstantsOK(w, n) == \A p \in 1..Len(w.code[n]) : w.code[n][p].op = "LDC" => ValueOK(w, w.code[n][p].val)
ListOK(w, l)      == AllOK(w, l.elems) /\ ValueOK(w, l.ending)
ThunksOK(w, ws)   == IsSequence(ws) /\ \A i \in 1..Len(ws) : ValueOK(w, ws[i].before) /\ ValueOK(w, ws[i].after)
ContOK(w, k)      == /\ AllOK(w, k.stack) /\ Stands(w, k.dump, k, Len(k.stack) + 1) /\ Waiting(w, k)
                     /\ ThunksOK(w, k.winds)

CodeOK(w) == IsSequence(w.code) /\ IsSequence(w.templates) /\ \A n \in DOMAIN w.code : BlockOK(w, n)
HeapOK(w) ==
    /\ CodeOK(w) /\ \A n \in DOMAIN w.code : ConstantsOK(w, n)
    /\ IsSequence(w.frames) /\ \A a \in DOMAIN w.frames : AllOK(w, w.frames[a])
    /\ IsSequence(w.lists) /\ \A a \in DOMAIN w.lists : ListOK(w, w.lists[a])
    /\ IsSequence(w.conts) /\ \A k \in DOMAIN w.conts : ContOK(w, w.conts[k])

GlobalsOK(w) ==
    /\ DOMAIN cells = Cells /\ "raise" \in Cells /\ \A x \in Cells : ValueOK(w, cells[x])
    /\ ValueOK(w, handler) /\ ThunksOK(w, winds)

\* A machine that waits for a load.
SuspendedOK(w, o) ==
    /\ {"stack", "base", "env", "c", "pc", "dump", "argp", "file", "next"} \subseteq DOMAIN o
    /\ AllOK(w, o.stack) /\ o.argp \in 0..Len(o.stack)
    /\ Stands(w, o.dump, o, o.argp + 1) /\ Waiting(w, o)
    /\ o.file \in DOMAIN Files /\ o.next \in Nat \ {0}
OuterOK(w) == IsSequence(outer) /\ \A i \in 1..Len(outer) : SuspendedOK(w, outer[i])

\* The machine that runs. The last instruction may have put the scratch
\* closure, or a constant the next one goes by, on top.
Here  == [c |-> c, pc |-> pc, env |-> env, base |-> base]
Marked == pc # 0 /\ IsScratch(code[c][pc])
OperandsOK ==
    /\ IsSequence(stack)
    /\ Marked => /\ stack # <<>> /\ Top(stack) = Scratch /\ AllOK(Now, Pop(stack))
                 /\ scratch.tag = "closure" /\ ValueOK(Now, scratch)
    /\ ~Marked => AllOK(Now, stack)
    /\ (pc # 0 /\ code[c][pc].op = "LDC") => stack # <<>> /\ Top(stack) = code[c][pc].val
MachineOK ==
    status = "run" =>
        IF c = 0 THEN stack = <<>> /\ base = 0 /\ dump = <<>>
        ELSE Stands(Now, dump, Here, Len(stack)) /\ OperandsOK

Soundness == HeapOK(Now) /\ GlobalsOK(Now) /\ OuterOK(Now) /\ MachineOK

-----------------------------------------------------------------------------
(* Sequences.                                                              *)

LEMMA SequenceSub ==
    ASSUME NEW s, IsSequence(s), NEW m \in Nat \ {0}, NEW n \in Nat, n <= Len(s)
    PROVE  /\ IsSequence(SubSeq(s, m, n))
           /\ Len(SubSeq(s, m, n)) = IF m <= n THEN n - m + 1 ELSE 0
           /\ \A i \in 1..Len(SubSeq(s, m, n)) : SubSeq(s, m, n)[i] = s[m + i - 1] /\ m + i - 1 \in 1..Len(s)
<1> DEFINE T == {s[i] : i \in DOMAIN s}
<1>1. DOMAIN s = 1..Len(s) /\ Len(s) \in Nat
  BY SequenceIs
<1>2. \A i \in m..n : s[i] \in T
  BY <1>1
<1> HIDE DEF T
<1>3. m \in Int /\ n \in Int
  OBVIOUS
<1>4. /\ SubSeq(s, m, n) \in Seq(T)
      /\ Len(SubSeq(s, m, n)) = IF m <= n THEN n - m + 1 ELSE 0
      /\ \A i \in 1..n - m + 1 : SubSeq(s, m, n)[i] = s[m + i - 1]
  BY <1>2, <1>3, SubSeqProperties
<1>5. IsSequence(SubSeq(s, m, n))
  BY <1>4, SequenceOver
<1> DEFINE t == SubSeq(s, m, n)
<1> HIDE DEF t
<1>6. \A i \in 1..Len(t) : t[i] = s[m + i - 1] /\ m + i - 1 \in 1..Len(s)
  BY <1>1, <1>4 DEF t
<1> QED
  BY <1>4, <1>5, <1>6 DEF t

LEMMA SequenceConcat ==
    ASSUME NEW s, NEW t, IsSequence(s), IsSequence(t)
    PROVE  /\ IsSequence(s \o t)
           /\ Len(s \o t) = Len(s) + Len(t)
           /\ \A i \in 1..Len(s \o t) : (s \o t)[i] = IF i <= Len(s) THEN s[i] ELSE t[i - Len(s)]
<1> DEFINE S == {s[i] : i \in DOMAIN s}
           T == {t[i] : i \in DOMAIN t}
           U == S \cup T
<1>1. s \in Seq(S) /\ t \in Seq(T)
  BY DEF IsSequence
<1>2. S \subseteq U /\ T \subseteq U
  OBVIOUS
<1> HIDE DEF S, T, U
<1>3. s \in Seq(U) /\ t \in Seq(U)
  BY <1>1, <1>2, SeqMonotonic
<1>4. /\ s \o t \in Seq(U)
      /\ Len(s \o t) = Len(s) + Len(t)
      /\ \A i \in 1..Len(s) + Len(t) : (s \o t)[i] = IF i <= Len(s) THEN s[i] ELSE t[i - Len(s)]
  BY <1>3, ConcatProperties
<1>5. IsSequence(s \o t)
  BY <1>4, SequenceOver
<1> QED
  BY <1>4, <1>5

LEMMA SequenceMade ==
    ASSUME NEW n \in Nat, NEW s, s = [i \in 1..n |-> s[i]]
    PROVE  IsSequence(s) /\ Len(s) = n
<1> DEFINE T == {s[i] : i \in 1..n}
<1>1. \A i \in 1..n : s[i] \in T
  OBVIOUS
<1> HIDE DEF T
<1>2. s \in Seq(T) /\ Len(s) = n
  BY <1>1
<1> QED
  BY <1>2, SequenceOver

LEMMA SequenceResize ==
    ASSUME NEW s, NEW n \in Nat
    PROVE  /\ IsSequence(Resize(s, n)) /\ Len(Resize(s, n)) = n
           /\ \A i \in 1..n : Resize(s, n)[i] = IF i <= Len(s) THEN s[i] ELSE Null
<1> DEFINE t == Resize(s, n)
<1>1. /\ t = [i \in 1..n |-> t[i]]
      /\ \A i \in 1..n : t[i] = IF i <= Len(s) THEN s[i] ELSE Null
  BY DEF Resize
<1> HIDE DEF t
<1>2. IsSequence(t) /\ Len(t) = n
  BY <1>1, SequenceMade
<1> QED
  BY <1>1, <1>2 DEF t

LEMMA SequenceSame ==
    ASSUME NEW s, NEW t, IsSequence(s), IsSequence(t), Len(s) = Len(t), \A i \in 1..Len(s) : s[i] = t[i]
    PROVE  s = t
<1> DEFINE S == {s[i] : i \in DOMAIN s}
           T == {t[i] : i \in DOMAIN t}
           U == S \cup T
<1>1. s \in Seq(S) /\ t \in Seq(T)
  BY DEF IsSequence
<1>2. S \subseteq U /\ T \subseteq U
  OBVIOUS
<1> HIDE DEF S, T, U
<1>3. s \in Seq(U) /\ t \in Seq(U)
  BY <1>1, <1>2, SeqMonotonic
<1> QED
  BY <1>3, SeqEqual

LEMMA SequenceNonEmpty ==
    ASSUME NEW s, IsSequence(s)
    PROVE  s # <<>> <=> Len(s) > 0
<1> DEFINE S == {s[i] : i \in DOMAIN s}
<1>1. s \in Seq(S)
  BY DEF IsSequence
<1> HIDE DEF S
<1> QED
  BY <1>1, EmptySeq

Updated(s, i, x) == [s EXCEPT ![i] = x]

LEMMA SequenceUpdated ==
    ASSUME NEW s, IsSequence(s), NEW i \in 1..Len(s), NEW x
    PROVE  /\ IsSequence(Updated(s, i, x)) /\ Len(Updated(s, i, x)) = Len(s)
           /\ \A j \in 1..Len(s) : Updated(s, i, x)[j] = IF j = i THEN x ELSE s[j]
<1> DEFINE t == [s EXCEPT ![i] = x]
           S == {s[j] : j \in DOMAIN s}
           U == S \cup {x}
<1>1. s \in Seq(S) /\ S \subseteq U /\ x \in U
  BY DEF IsSequence
<1> HIDE DEF S, U
<1>2. s \in Seq(U)
  BY <1>1, SeqMonotonic
<1>3. t \in Seq(U) /\ Len(t) = Len(s) /\ \A j \in 1..Len(s) : t[j] = IF j = i THEN x ELSE s[j]
  BY <1>1, <1>2, ExceptSeq
<1> QED
  BY <1>3, SequenceOver DEF Updated

\* What Append puts on top is what Top and Pop take apart again.
LEMMA PushPop ==
    ASSUME NEW s, NEW x, IsSequence(s)
    PROVE  /\ Append(s, x) # <<>> /\ Top(Append(s, x)) = x /\ Pop(Append(s, x)) = s
<1> DEFINE t == Append(s, x)
<1>1. /\ IsSequence(t) /\ Len(t) = Len(s) + 1 /\ \A i \in 1..Len(s) : t[i] = s[i]
      /\ t[Len(s) + 1] = x /\ Len(s) \in Nat
  BY SequenceAppend, SequenceIs
<1> HIDE DEF t
<1>2. t # <<>>
  BY <1>1, SequenceNonEmpty
<1>3. Top(t) = x
  BY <1>1 DEF Top
<1>4. /\ IsSequence(Pop(t)) /\ Len(Pop(t)) = Len(t) - 1
      /\ \A i \in 1..Len(Pop(t)) : Pop(t)[i] = t[i] /\ i \in 1..Len(t)
  BY <1>1, <1>2, SequencePop
<1>5. Pop(t) = s
  <2> DEFINE u == Pop(t)
  <2>1. IsSequence(u) /\ Len(u) = Len(s) /\ \A i \in 1..Len(u) : u[i] = s[i]
    BY <1>1, <1>4
  <2> HIDE DEF u
  <2>2. u = s
    BY <2>1, SequenceSame
  <2> QED
    BY <2>2 DEF u
<1> QED
  BY <1>2, <1>3, <1>5 DEF t

LEMMA ExtendsItself ==
    ASSUME NEW s, IsSequence(s)
    PROVE  Extends(s, s)
BY SequenceIs DEF Extends

LEMMA ExtendsAppend ==
    ASSUME NEW s, NEW x, IsSequence(s)
    PROVE  Extends(Append(s, x), s)
BY SequenceIs, SequenceAppend DEF Extends

LEMMA ExtendsDomain ==
    ASSUME NEW s, NEW t, IsSequence(s), Extends(t, s)
    PROVE  \A i \in DOMAIN s : i \in DOMAIN t /\ t[i] = s[i]
BY SequenceIs DEF Extends

-----------------------------------------------------------------------------
(* A world that grows keeps what is right about it.                        *)

Grows(w, w2) ==
    /\ Extends(w2.code, w.code) /\ Extends(w2.templates, w.templates)
    /\ Extends(w2.lists, w.lists) /\ Extends(w2.conts, w.conts)
    /\ IsSequence(w2.frames) /\ Len(w.frames) <= Len(w2.frames)
    /\ \A a \in 1..Len(w.frames) : Len(w2.frames[a]) = Len(w.frames[a])

\* What is needed to speak of it.
WorldOK(w) == CodeOK(w) /\ IsSequence(w.frames) /\ IsSequence(w.lists) /\ IsSequence(w.conts)

LEMMA HeapIsWorld ==
    ASSUME NEW w, HeapOK(w)
    PROVE  WorldOK(w)
BY DEF HeapOK, WorldOK

\* What there was is still there.
LEMMA GrowsKeeps ==
    ASSUME NEW w, NEW w2, WorldOK(w), Grows(w, w2)
    PROVE  /\ \A n \in DOMAIN w.code : n \in DOMAIN w2.code /\ w2.code[n] = w.code[n]
           /\ \A t \in DOMAIN w.templates : t \in DOMAIN w2.templates /\ w2.templates[t] = w.templates[t]
           /\ \A l \in DOMAIN w.lists : l \in DOMAIN w2.lists /\ w2.lists[l] = w.lists[l]
           /\ \A k \in DOMAIN w.conts : k \in DOMAIN w2.conts /\ w2.conts[k] = w.conts[k]
           /\ \A a \in DOMAIN w.frames : a \in DOMAIN w2.frames /\ Len(w2.frames[a]) = Len(w.frames[a])
<1>1. /\ IsSequence(w.code) /\ IsSequence(w.templates)
      /\ IsSequence(w.frames) /\ IsSequence(w.lists) /\ IsSequence(w.conts)
  BY DEF WorldOK, CodeOK
<1>2. /\ DOMAIN w.frames = 1..Len(w.frames) /\ Len(w.frames) \in Nat
      /\ DOMAIN w2.frames = 1..Len(w2.frames) /\ Len(w2.frames) \in Nat
  BY <1>1, SequenceIs DEF Grows
<1>3. \A a \in DOMAIN w.frames : a \in DOMAIN w2.frames /\ Len(w2.frames[a]) = Len(w.frames[a])
  BY <1>2 DEF Grows
<1> QED
  BY <1>1, <1>3, ExtendsDomain DEF Grows

LEMMA ProcedureGrows ==
    ASSUME NEW w, NEW w2, WorldOK(w), Grows(w, w2), NEW t, Procedure(w.code, w.templates, t)
    PROVE  Procedure(w2.code, w2.templates, t) /\ w2.templates[t] = w.templates[t]
BY GrowsKeeps DEF Procedure

LEMMA LinkedGrows ==
    ASSUME NEW w, NEW w2, WorldOK(w), Grows(w, w2), NEW n \in DOMAIN w.code
    PROVE  Linked(w2.code, w2.templates, n)
<1>1. Linked(w.code, w.templates, n)
  BY DEF WorldOK, CodeOK, BlockOK
<1>2. n \in DOMAIN w2.code /\ w2.code[n] = w.code[n]
  BY GrowsKeeps
<1>3. SUFFICES ASSUME NEW p \in 1..Len(w.code[n])
               PROVE  LET i == w.code[n][p] IN
                      /\ i.op = "SEL"  => \A m \in {i.onTrue, i.onFalse} : m \in DOMAIN w2.code /\ Ends(w2.code[m], "JOIN")
                      /\ i.op = "SELR" => \A m \in {i.onTrue, i.onFalse} : m \in DOMAIN w2.code /\ Ends(w2.code[m], "RTN")
                      /\ i.op = "LDF"  => Procedure(w2.code, w2.templates, i.tmpl)
                      /\ i.op \in {"LDG", "DEF", "GSET"} => i.cell \in Cells
  BY <1>2 DEF Linked
<1> DEFINE i == w.code[n][p]
<1>4. /\ i.op = "SEL"  => \A m \in {i.onTrue, i.onFalse} : m \in DOMAIN w.code /\ Ends(w.code[m], "JOIN")
      /\ i.op = "SELR" => \A m \in {i.onTrue, i.onFalse} : m \in DOMAIN w.code /\ Ends(w.code[m], "RTN")
      /\ i.op = "LDF"  => Procedure(w.code, w.templates, i.tmpl)
      /\ i.op \in {"LDG", "DEF", "GSET"} => i.cell \in Cells
  BY <1>1 DEF Linked
<1> HIDE DEF i
<1>5. i.op = "LDF"  => Procedure(w2.code, w2.templates, i.tmpl)
  BY <1>4, ProcedureGrows
<1>6. \A m \in DOMAIN w.code : m \in DOMAIN w2.code /\ w2.code[m] = w.code[m]
  BY GrowsKeeps
<1> QED
  BY <1>4, <1>5, <1>6 DEF i

LEMMA RunsGrows ==
    ASSUME NEW w, NEW w2, WorldOK(w), Grows(w, w2), NEW n, NEW sh, RunsIn(w.code, w.templates, n, sh)
    PROVE  RunsIn(w2.code, w2.templates, n, sh)
<1>0. PICK S \in SUBSET DOMAIN w.code : \E scope \in [S -> Seq(Nat)] :
         n \in S /\ scope[n] = sh /\ Scoped(w.code, w.templates, scope)
  BY DEF RunsIn
<1>1. PICK scope \in [S -> Seq(Nat)] : n \in S /\ scope[n] = sh /\ Scoped(w.code, w.templates, scope)
  BY <1>0
<1>2. S \in SUBSET DOMAIN w2.code /\ \A m \in S : w2.code[m] = w.code[m]
  BY <1>1, GrowsKeeps
<1>3. Scoped(w2.code, w2.templates, scope)
  <2>1. SUFFICES ASSUME NEW m \in S, NEW p \in 1..Len(w.code[m])
                 PROVE  InScope(w.code[m][p], m, w2.templates, scope)
    BY <1>1, <1>2 DEF Scoped
  <2>2. InScope(w.code[m][p], m, w.templates, scope)
    BY <1>1 DEF Scoped
  <2>3. Linked(w.code, w.templates, m)
    BY <1>1 DEF WorldOK, CodeOK, BlockOK
  <2>4. w.code[m][p].op = "LDF" => w2.templates[w.code[m][p].tmpl] = w.templates[w.code[m][p].tmpl]
    BY <2>3, ProcedureGrows DEF Linked
  <2> QED
    BY <2>2, <2>4 DEF InScope
<1> QED
  BY <1>1, <1>2, <1>3 DEF RunsIn

LEMMA EnvGrows ==
    ASSUME NEW w, NEW w2, WorldOK(w), Grows(w, w2), NEW e, NEW sh, EnvFits(w, e, sh)
    PROVE  EnvFits(w2, e, sh)
BY GrowsKeeps DEF EnvFits

LEMMA FitsGrows ==
    ASSUME NEW w, NEW w2, WorldOK(w), Grows(w, w2), NEW n, NEW e, Fits(w, n, e)
    PROVE  Fits(w2, n, e)
BY RunsGrows, EnvGrows DEF Fits

LEMMA ClosureGrows ==
    ASSUME NEW w, NEW w2, WorldOK(w), Grows(w, w2), NEW t, NEW e, ClosureOK(w, t, e)
    PROVE  ClosureOK(w2, t, e)
<1>1. Procedure(w2.code, w2.templates, t) /\ w2.templates[t] = w.templates[t]
  BY ProcedureGrows DEF ClosureOK
<1>2. PICK sh : /\ RunsIn(w.code, w.templates, w.templates[t].body, <<Width(w.templates[t])>> \o sh)
                /\ EnvFits(w, e, sh)
  BY DEF ClosureOK
<1>3. /\ RunsIn(w2.code, w2.templates, w.templates[t].body, <<Width(w.templates[t])>> \o sh)
      /\ EnvFits(w2, e, sh)
  BY <1>2, RunsGrows, EnvGrows
<1> QED
  BY <1>1, <1>3 DEF ClosureOK

LEMMA ValueGrows ==
    ASSUME NEW w, NEW w2, WorldOK(w), Grows(w, w2), NEW v, ValueOK(w, v)
    PROVE  ValueOK(w2, v)
<1>1. v.tag = "closure" => ClosureOK(w2, v.tmpl, v.env)
  BY ClosureGrows DEF ValueOK
<1>2. v.tag = "cont" => v.cont \in DOMAIN w2.conts
  BY GrowsKeeps DEF ValueOK
<1>3. /\ v.tag = "pair"    => v.list \in DOMAIN w2.lists /\ v.at \in 1..Len(w2.lists[v.list].elems)
      /\ v.tag = "values"  => v.box \in DOMAIN w2.lists
  BY GrowsKeeps DEF ValueOK
<1> QED
  BY <1>1, <1>2, <1>3 DEF ValueOK

LEMMA AllGrows ==
    ASSUME NEW w, NEW w2, WorldOK(w), Grows(w, w2), NEW s, AllOK(w, s)
    PROVE  AllOK(w2, s)
BY ValueGrows DEF AllOK

LEMMA ThunksGrow ==
    ASSUME NEW w, NEW w2, WorldOK(w), Grows(w, w2), NEW ws, ThunksOK(w, ws)
    PROVE  ThunksOK(w2, ws)
BY ValueGrows DEF ThunksOK

LEMMA PlacedGrows ==
    ASSUME NEW w, NEW w2, WorldOK(w), Grows(w, w2), NEW r, NEW y, Placed(w, r, y)
    PROVE  /\ Placed(w2, r, y) /\ DepthAt(w2, r) = DepthAt(w, r)
           /\ w2.code[r.c] = w.code[r.c]
           /\ Waiting(w, r) => Waiting(w2, r)
<1>1. r.c \in DOMAIN w2.code /\ w2.code[r.c] = w.code[r.c]
  BY GrowsKeeps DEF Placed
<1>2. Fits(w2, r.c, r.env)
  BY FitsGrows DEF Placed
<1> QED
  BY <1>1, <1>2 DEF Placed, DepthAt, Waiting

LEMMA LinksGrow ==
    ASSUME NEW w, NEW w2, WorldOK(w), Grows(w, w2), NEW lo, NEW hi, NEW x, NEW y,
           Placed(w, lo, x), Placed(w, hi, y), Links(w, lo, hi, x, y)
    PROVE  Links(w2, lo, hi, x, y)
<1>1. DepthAt(w2, lo) = DepthAt(w, lo) /\ w2.code[hi.c] = w.code[hi.c]
  BY PlacedGrows
<1> QED
  BY <1>1 DEF Links

LEMMA ChainGrows ==
    ASSUME NEW w, NEW w2, WorldOK(w), Grows(w, w2), NEW d, IsSequence(d), NEW y, Chained(w, d, y)
    PROVE  Chained(w2, d, y)
<1>1. PICK m, e : Chain(w, d, m, e) /\ e[Len(d)] = y
  BY DEF Chained
<1>2. /\ m \in 1..Len(d) /\ e \in [1..Len(d) -> Nat] /\ Bottom(w.code[d[m].c])
      /\ \A i \in m..Len(d) : Placed(w, d[i], e[i]) /\ Waiting(w, d[i])
      /\ \A i \in m..Len(d) - 1 : Links(w, d[i], d[i + 1], e[i], e[i + 1])
  BY <1>1 DEF Chain
<1>3. \A i \in m..Len(d) : Placed(w2, d[i], e[i]) /\ Waiting(w2, d[i]) /\ w2.code[d[i].c] = w.code[d[i].c]
  BY <1>2, PlacedGrows
<1>4. Len(d) \in Nat
  BY SequenceIs
<1>5. \A i \in m..Len(d) - 1 : Links(w2, d[i], d[i + 1], e[i], e[i + 1])
  <2>1. SUFFICES ASSUME NEW i \in m..Len(d) - 1 PROVE Links(w2, d[i], d[i + 1], e[i], e[i + 1])
    OBVIOUS
  <2>2. i \in m..Len(d) /\ i + 1 \in m..Len(d)
    BY <1>2, <1>4
  <2> QED
    BY <1>2, <2>2, LinksGrow
<1>6. Bottom(w2.code[d[m].c])
  BY <1>2, <1>3, <1>4
<1> QED
  BY <1>1, <1>2, <1>3, <1>5, <1>6 DEF Chain, Chained

\* The topmost level of a dump.
LEMMA ChainTop ==
    ASSUME NEW w, NEW d, IsSequence(d), NEW y, Chained(w, d, y)
    PROVE  d # <<>> /\ Placed(w, Top(d), y) /\ Waiting(w, Top(d))
<1>1. PICK m, e : Chain(w, d, m, e) /\ e[Len(d)] = y
  BY DEF Chained
<1>2. Len(d) \in Nat /\ Len(d) > 0 /\ Len(d) \in m..Len(d)
  BY <1>1, SequenceIs DEF Chain
<1>3. d # <<>>
  BY <1>2, SequenceNonEmpty
<1> QED
  BY <1>1, <1>2, <1>3 DEF Chain, Top

LEMMA EnteredGrows ==
    ASSUME NEW w, NEW w2, WorldOK(w), Grows(w, w2), NEW d, IsSequence(d), NEW r, NEW n, NEW y, Entered(w, d, r, n, y)
    PROVE  Entered(w2, d, r, n, y)
<1>1. Placed(w, r, y) /\ Rests(w, d, r, y) /\ n \in Nat /\ n >= y + DepthAt(w, r)
  BY DEF Entered
<1>2. Placed(w2, r, y) /\ DepthAt(w2, r) = DepthAt(w, r) /\ w2.code[r.c] = w.code[r.c]
  BY <1>1, PlacedGrows
<1>3. CASE Bottom(w.code[r.c])
  BY <1>1, <1>2, <1>3 DEF Rests, Entered
<1>4. CASE ~Bottom(w.code[r.c])
  <2>1. PICK x \in Nat : d # <<>> /\ Chained(w, d, x) /\ Links(w, Top(d), r, x, y)
    BY <1>1, <1>4 DEF Rests
  <2>2. Chained(w2, d, x) /\ Placed(w, Top(d), x)
    BY <2>1, ChainGrows, ChainTop
  <2>3. Links(w2, Top(d), r, x, y)
    BY <1>1, <2>1, <2>2, LinksGrow
  <2> QED
    BY <1>1, <1>2, <2>1, <2>2, <2>3 DEF Rests, Entered
<1> QED
  BY <1>3, <1>4

LEMMA StandsGrows ==
    ASSUME NEW w, NEW w2, WorldOK(w), Grows(w, w2), NEW d, NEW r, NEW n, Stands(w, d, r, n)
    PROVE  Stands(w2, d, r, n)
BY EnteredGrows DEF Stands

LEMMA WaitingGrows ==
    ASSUME NEW w, NEW w2, WorldOK(w), Grows(w, w2), NEW d, NEW r, NEW n, Stands(w, d, r, n), Waiting(w, r)
    PROVE  Waiting(w2, r)
BY PlacedGrows DEF Stands, Entered

LEMMA ContGrows ==
    ASSUME NEW w, NEW w2, WorldOK(w), Grows(w, w2), NEW k, ContOK(w, k)
    PROVE  ContOK(w2, k)
BY AllGrows, StandsGrows, WaitingGrows, ThunksGrow DEF ContOK

LEMMA SuspendedGrows ==
    ASSUME NEW w, NEW w2, WorldOK(w), Grows(w, w2), NEW o, SuspendedOK(w, o)
    PROVE  SuspendedOK(w2, o)
BY AllGrows, StandsGrows, WaitingGrows DEF SuspendedOK

-----------------------------------------------------------------------------
(* Levels.                                                                 *)

LEMMA DepthIs ==
    ASSUME NEW b, Balanced(b)
    PROVE  DepthOf(b) \in [0..Len(b) -> Nat] /\ Counts(b, DepthOf(b))
BY DEF Balanced, DepthOf

\* One instruction: i is the next of block n after p of them.
LEMMA InBlock ==
    ASSUME NEW w, WorldOK(w), NEW n \in DOMAIN w.code, NEW p \in Nat, p < Len(w.code[n]),
           NEW i, i = w.code[n][p + 1]
    PROVE  /\ Len(w.code[n]) \in Nat /\ p + 1 \in 1..Len(w.code[n])
           /\ Takes(i) \in Nat /\ Gives(i) \in {0, 1}
           /\ DepthOf(w.code[n])[0] = 0
           /\ DepthOf(w.code[n])[p] \in Nat /\ DepthOf(w.code[n])[p + 1] \in Nat
           /\ DepthOf(w.code[n])[p] >= Takes(i)
           /\ DepthOf(w.code[n])[p + 1] = DepthOf(w.code[n])[p] - Takes(i) + Gives(i)
<1> DEFINE b == w.code[n]
           depth == DepthOf(b)
<1>1. IsSequence(b) /\ Balanced(b) /\ Shaped(b)
  BY DEF WorldOK, CodeOK, BlockOK
<1>2. Len(b) \in Nat
  BY <1>1, SequenceIs
<1>3. depth \in [0..Len(b) -> Nat] /\ Counts(b, depth)
  BY <1>1, DepthIs
<1>4. i = b[p + 1]
  OBVIOUS
<1>5. p < Len(b)
  OBVIOUS
<1> HIDE DEF b, depth
<1>6. p + 1 \in 1..Len(b) /\ p \in 0..Len(b) /\ p + 1 \in 0..Len(b) /\ 0 \in 0..Len(b) /\ (p + 1) - 1 = p
  BY <1>2, <1>5
<1>7. i.op \in {"APP", "TAPP"} => i.n \in Nat
  BY <1>1, <1>4, <1>6 DEF Shaped
<1>8. i.op = "ARGS_AP" => i.n \in Nat
  BY <1>1, <1>4, <1>6 DEF Shaped
<1>9. Takes(i) \in Nat /\ Gives(i) \in {0, 1}
  BY <1>7, <1>8 DEF Takes, Needs, Gives
<1>10. depth[0] = 0 /\ depth[p] >= Takes(i) /\ depth[p + 1] = depth[p] - Takes(i) + Gives(i)
  <2> HIDE DEF Takes, Gives
  <2> QED
    BY <1>3, <1>4, <1>6 DEF Counts
<1>11. depth[p] \in Nat /\ depth[p + 1] \in Nat
  BY <1>3, <1>6
<1> QED
  BY <1>2, <1>6, <1>9, <1>10, <1>11 DEF b, depth

\* A block ends only so.
LEMMA AtEnd ==
    ASSUME NEW w, WorldOK(w), NEW n \in DOMAIN w.code, NEW p \in Nat, p + 1 = Len(w.code[n]),
           w.code[n][p + 1].op \notin {"RTN", "JOIN", "STOP"}
    PROVE  EndsInJump(w.code[n])
<1>1. Shaped(w.code[n])
  BY DEF WorldOK, CodeOK, BlockOK
<1> QED
  BY <1>1 DEF Shaped, Ends

LEMMA Pushed ==
    ASSUME NEW w, NEW d, IsSequence(d), NEW r, NEW y, Placed(w, r, y), Rests(w, d, r, y), Waiting(w, r)
    PROVE  Chained(w, Append(d, r), y)
<1> DEFINE t == Append(d, r)
<1>1. /\ Len(d) \in Nat /\ IsSequence(t) /\ Len(t) = Len(d) + 1
      /\ \A i \in 1..Len(d) : t[i] = d[i]
      /\ t[Len(d) + 1] = r
  BY SequenceIs, SequenceAppend
<1> HIDE DEF t
<1>2. y \in Nat
  BY DEF Placed
<1>3. CASE Bottom(w.code[r.c])
  <2> DEFINE e == [i \in 1..Len(t) |-> y]
  <2>1. Chain(w, t, Len(t), e) /\ e[Len(t)] = y
    BY <1>1, <1>2, <1>3 DEF Chain
  <2> QED
    BY <2>1 DEF Chained, t
<1>4. CASE ~Bottom(w.code[r.c])
  <2>1. PICK x \in Nat : d # <<>> /\ Chained(w, d, x) /\ Links(w, Top(d), r, x, y)
    BY <1>4 DEF Rests
  <2>2. PICK m, f : Chain(w, d, m, f) /\ f[Len(d)] = x
    BY <2>1 DEF Chained
  <2>3. /\ m \in 1..Len(d) /\ f \in [1..Len(d) -> Nat] /\ Bottom(w.code[d[m].c])
        /\ \A i \in m..Len(d) : Placed(w, d[i], f[i]) /\ Waiting(w, d[i])
        /\ \A i \in m..Len(d) - 1 : Links(w, d[i], d[i + 1], f[i], f[i + 1])
    BY <2>2 DEF Chain
  <2> DEFINE e == [i \in 1..Len(t) |-> IF i <= Len(d) THEN f[i] ELSE y]
  <2>4. e \in [1..Len(t) -> Nat] /\ m \in 1..Len(t) /\ e[Len(t)] = y
    BY <1>1, <1>2, <2>3
  <2>5. \A i \in 1..Len(d) : e[i] = f[i] /\ t[i] = d[i]
    BY <1>1
  <2>6. e[Len(d) + 1] = y /\ t[Len(d) + 1] = r
    BY <1>1
  <2> HIDE DEF e
  <2>7. \A i \in m..Len(t) : Placed(w, t[i], e[i]) /\ Waiting(w, t[i])
    <3>1. SUFFICES ASSUME NEW i \in m..Len(t) PROVE Placed(w, t[i], e[i]) /\ Waiting(w, t[i])
      OBVIOUS
    <3>2. CASE i = Len(d) + 1
      BY <2>6, <3>2
    <3>3. CASE i # Len(d) + 1
      <4>1. i \in m..Len(d) /\ i \in 1..Len(d)
        BY <1>1, <2>3, <3>3, SMTT(30)
      <4> QED
        BY <2>3, <2>5, <4>1
    <3> QED
      BY <3>2, <3>3
  <2>8. \A i \in m..Len(t) - 1 : Links(w, t[i], t[i + 1], e[i], e[i + 1])
    <3>1. SUFFICES ASSUME NEW i \in m..Len(t) - 1 PROVE Links(w, t[i], t[i + 1], e[i], e[i + 1])
      OBVIOUS
    <3>2. CASE i = Len(d)
      BY <1>1, <2>1, <2>2, <2>3, <2>5, <2>6, <3>2 DEF Top
    <3>3. CASE i # Len(d)
      <4>1. i \in m..Len(d) - 1 /\ i \in 1..Len(d) /\ i + 1 \in 1..Len(d)
        BY <1>1, <2>3, <3>3
      <4> QED
        BY <2>3, <2>5, <4>1
    <3> QED
      BY <3>2, <3>3
  <2>9. Bottom(w.code[t[m].c])
    BY <2>3, <2>5
  <2> QED
    BY <2>4, <2>7, <2>8, <2>9 DEF Chain, Chained, t
<1> QED
  BY <1>3, <1>4

LEMMA Popped ==
    ASSUME NEW w, NEW d, IsSequence(d), NEW x, Chained(w, d, x)
    PROVE  IsSequence(Pop(d)) /\ Rests(w, Pop(d), Top(d), x)
<1>1. PICK m, f : Chain(w, d, m, f) /\ f[Len(d)] = x
  BY DEF Chained
<1>2. /\ m \in 1..Len(d) /\ f \in [1..Len(d) -> Nat] /\ Bottom(w.code[d[m].c])
      /\ \A i \in m..Len(d) : Placed(w, d[i], f[i]) /\ Waiting(w, d[i])
      /\ \A i \in m..Len(d) - 1 : Links(w, d[i], d[i + 1], f[i], f[i + 1])
  BY <1>1 DEF Chain
<1>3. Len(d) \in Nat /\ d # <<>>
  BY ChainTop, SequenceIs
<1> DEFINE t == Pop(d)
<1>4. IsSequence(t) /\ Len(t) = Len(d) - 1 /\ \A i \in 1..Len(t) : t[i] = d[i] /\ i \in 1..Len(d)
  BY <1>3, SequencePop
<1> HIDE DEF t
<1>5. CASE m = Len(d)
  BY <1>2, <1>4, <1>5 DEF Rests, Top, t
<1>6. CASE m # Len(d)
  <2>1. Len(t) \in Nat /\ m \in 1..Len(t) /\ Len(t) > 0
    BY <1>2, <1>3, <1>4, <1>6
  <2>2. t # <<>>
    BY <1>4, <2>1, SequenceNonEmpty
  <2> DEFINE e == [i \in 1..Len(t) |-> f[i]]
  <2>3. e \in [1..Len(t) -> Nat] /\ \A i \in 1..Len(t) : e[i] = f[i]
    BY <1>2, <1>4
  <2> HIDE DEF e
  <2>4. \A i \in m..Len(t) : Placed(w, t[i], e[i]) /\ Waiting(w, t[i])
    BY <1>2, <1>3, <1>4, <2>1, <2>3
  <2>5. \A i \in m..Len(t) - 1 : Links(w, t[i], t[i + 1], e[i], e[i + 1])
    <3>1. SUFFICES ASSUME NEW i \in m..Len(t) - 1 PROVE Links(w, t[i], t[i + 1], e[i], e[i + 1])
      OBVIOUS
    <3>2. i \in 1..Len(t) /\ i + 1 \in 1..Len(t) /\ i \in m..Len(d) - 1
      BY <1>2, <1>3, <1>4, <2>1
    <3> QED
      BY <1>2, <1>4, <2>3, <3>2
  <2>6. Chain(w, t, m, e)
    BY <1>2, <1>4, <2>1, <2>3, <2>4, <2>5 DEF Chain
  <2>7. Chained(w, t, e[Len(t)]) /\ e[Len(t)] \in Nat
    BY <2>1, <2>3, <2>6 DEF Chained
  <2>8. Links(w, Top(t), Top(d), e[Len(t)], x)
    <3>1. Len(t) \in m..Len(d) - 1 /\ Len(t) + 1 = Len(d) /\ Len(t) \in 1..Len(t)
      BY <1>3, <1>4, <2>1
    <3> QED
      BY <1>1, <1>2, <1>4, <2>3, <3>1 DEF Top
  <2>9. Rests(w, t, Top(d), x)
    BY <2>2, <2>7, <2>8 DEF Rests
  <2> QED
    BY <1>4, <2>9 DEF t
<1> QED
  BY <1>4, <1>5, <1>6 DEF t

\* The level below goes on.
LEMMA Resumes ==
    ASSUME NEW w, NEW d, IsSequence(d), NEW x, Chained(w, d, x), NEW n \in Nat, n >= x + DepthAt(w, Top(d))
    PROVE  Stands(w, Pop(d), Top(d), n)
BY ChainTop, Popped DEF Stands, Entered

\* Only the registers count.
SameLevel(r, q) == q.c = r.c /\ q.pc = r.pc /\ q.base = r.base /\ q.env = r.env

LEMMA StandsSame ==
    ASSUME NEW w, NEW d, NEW r, NEW q, SameLevel(r, q), NEW n, Stands(w, d, r, n)
    PROVE  Stands(w, d, q, n)
<1>1. PICK y : Entered(w, d, r, n, y) /\ IsSequence(d)
  BY DEF Stands
<1>2. Placed(w, q, y) /\ DepthAt(w, q) = DepthAt(w, r)
  BY <1>1 DEF Entered, Placed, DepthAt, SameLevel
<1>3. Rests(w, d, q, y)
  BY <1>1 DEF Entered, Rests, Links, SameLevel
<1> QED
  BY <1>1, <1>2, <1>3 DEF Stands, Entered

-----------------------------------------------------------------------------
(* A world that grows by what is right is right.                           *)

Fresh(w, w2) ==
    /\ \A n \in DOMAIN w2.code \ DOMAIN w.code : BlockOK(w2, n) /\ ConstantsOK(w2, n)
    /\ \A a \in DOMAIN w2.frames : \/ a \in DOMAIN w.frames /\ w2.frames[a] = w.frames[a]
                                   \/ AllOK(w2, w2.frames[a])
    /\ \A l \in DOMAIN w2.lists \ DOMAIN w.lists : ListOK(w2, w2.lists[l])
    /\ \A k \in DOMAIN w2.conts \ DOMAIN w.conts : ContOK(w2, w2.conts[k])

LEMMA HeapGrows ==
    ASSUME NEW w, NEW w2, HeapOK(w), Grows(w, w2), Fresh(w, w2)
    PROVE  HeapOK(w2)
<1>1. WorldOK(w)
  BY HeapIsWorld
<1>2. /\ \A n \in DOMAIN w.code : n \in DOMAIN w2.code /\ w2.code[n] = w.code[n]
      /\ \A l \in DOMAIN w.lists : l \in DOMAIN w2.lists /\ w2.lists[l] = w.lists[l]
      /\ \A k \in DOMAIN w.conts : k \in DOMAIN w2.conts /\ w2.conts[k] = w.conts[k]
  BY <1>1, GrowsKeeps
<1>3. ASSUME NEW n \in DOMAIN w2.code PROVE BlockOK(w2, n) /\ ConstantsOK(w2, n)
  <2>1. CASE n \in DOMAIN w.code
    <3>1. BlockOK(w, n) /\ ConstantsOK(w, n)
      BY <2>1 DEF HeapOK, CodeOK
    <3>2. Linked(w2.code, w2.templates, n)
      BY <1>1, <2>1, LinkedGrows
    <3>3. ConstantsOK(w2, n)
      BY <1>1, <1>2, <2>1, <3>1, ValueGrows DEF ConstantsOK
    <3> QED
      BY <1>2, <2>1, <3>1, <3>2, <3>3 DEF BlockOK
  <2>2. CASE n \notin DOMAIN w.code
    BY <2>2 DEF Fresh
  <2> QED
    BY <2>1, <2>2
<1>4. ASSUME NEW a \in DOMAIN w2.frames PROVE AllOK(w2, w2.frames[a])
  BY <1>1, AllGrows DEF Fresh, HeapOK
<1>5. ASSUME NEW l \in DOMAIN w2.lists PROVE ListOK(w2, w2.lists[l])
  <2>1. CASE l \in DOMAIN w.lists
    BY <1>1, <1>2, <2>1, AllGrows, ValueGrows DEF HeapOK, ListOK
  <2> QED
    BY <2>1 DEF Fresh
<1>6. ASSUME NEW k \in DOMAIN w2.conts PROVE ContOK(w2, w2.conts[k])
  <2>1. CASE k \in DOMAIN w.conts
    BY <1>1, <1>2, <2>1, ContGrows DEF HeapOK
  <2> QED
    BY <2>1 DEF Fresh
<1> QED
  BY <1>3, <1>4, <1>5, <1>6 DEF HeapOK, CodeOK, Grows, Extends

LEMMA GrowsItself ==
    ASSUME NEW w, WorldOK(w)
    PROVE  Grows(w, w)
BY ExtendsItself, SequenceIs DEF WorldOK, CodeOK, Grows

\* At most one thing more.
Longer(t, s) == t = s \/ \E x : t = Append(s, x)

LEMMA LongerExtends ==
    ASSUME NEW s, NEW t, IsSequence(s), Longer(t, s)
    PROVE  Extends(t, s)
BY ExtendsItself, ExtendsAppend DEF Longer

LEMMA GrowsBy ==
    ASSUME NEW w, NEW w2, WorldOK(w), Longer(w2.code, w.code), Longer(w2.templates, w.templates),
           Longer(w2.frames, w.frames), Longer(w2.lists, w.lists), Longer(w2.conts, w.conts)
    PROVE  Grows(w, w2)
<1>1. /\ Extends(w2.code, w.code) /\ Extends(w2.templates, w.templates) /\ Extends(w2.frames, w.frames)
      /\ Extends(w2.lists, w.lists) /\ Extends(w2.conts, w.conts)
  BY LongerExtends DEF WorldOK, CodeOK
<1> QED
  BY <1>1 DEF Grows, Extends

\* What Append adds is the only new element.
LEMMA NewIs ==
    ASSUME NEW s, NEW x, IsSequence(s)
    PROVE  /\ \A i \in DOMAIN Append(s, x) \ DOMAIN s : Append(s, x)[i] = x
           /\ \A i \in DOMAIN s : Append(s, x)[i] = s[i]
           /\ \A i \in DOMAIN Append(s, x) : i \in DOMAIN s \/ i = Len(s) + 1
           /\ Len(s) + 1 \in DOMAIN Append(s, x) /\ Append(s, x)[Len(s) + 1] = x
<1> DEFINE t == Append(s, x)
<1>1. /\ IsSequence(t) /\ Len(t) = Len(s) + 1 /\ \A i \in 1..Len(s) : t[i] = s[i]
      /\ t[Len(s) + 1] = x /\ Len(s) \in Nat /\ DOMAIN s = 1..Len(s)
  BY SequenceAppend, SequenceIs
<1> HIDE DEF t
<1>2. DOMAIN t = 1..Len(t)
  BY <1>1, SequenceIs
<1>3. \A i \in DOMAIN t : i \in DOMAIN s \/ i = Len(s) + 1
  BY <1>1, <1>2
<1> QED
  BY <1>1, <1>2, <1>3 DEF t

LEMMA MoreLists ==
    ASSUME NEW w, NEW w2, HeapOK(w),
           w2.code = w.code, w2.templates = w.templates, w2.frames = w.frames, w2.conts = w.conts,
           NEW l, w2.lists = Append(w.lists, l), ListOK(w, l)
    PROVE  Grows(w, w2) /\ HeapOK(w2)
<1>1. WorldOK(w) /\ IsSequence(w.lists)
  BY HeapIsWorld DEF HeapOK
<1>2. Grows(w, w2)
  BY <1>1, GrowsBy DEF Longer
<1>3. ListOK(w2, l)
  BY <1>1, <1>2, AllGrows, ValueGrows DEF ListOK
<1>4. Fresh(w, w2)
  BY <1>1, <1>3, NewIs DEF Fresh
<1> QED
  BY <1>2, <1>4, HeapGrows

LEMMA MoreConts ==
    ASSUME NEW w, NEW w2, HeapOK(w),
           w2.code = w.code, w2.templates = w.templates, w2.frames = w.frames, w2.lists = w.lists,
           NEW k, w2.conts = Append(w.conts, k), ContOK(w, k)
    PROVE  Grows(w, w2) /\ HeapOK(w2)
<1>1. WorldOK(w) /\ IsSequence(w.conts)
  BY HeapIsWorld DEF HeapOK
<1>2. Grows(w, w2)
  BY <1>1, GrowsBy DEF Longer
<1>3. ContOK(w2, k)
  BY <1>1, <1>2, ContGrows
<1>4. Fresh(w, w2)
  BY <1>1, <1>3, NewIs DEF Fresh
<1> QED
  BY <1>2, <1>4, HeapGrows

\* A procedure's frame; it holds a list of its own when there is a rest.
LEMMA MoreFrames ==
    ASSUME NEW w, NEW w2, HeapOK(w),
           w2.code = w.code, w2.templates = w.templates, w2.conts = w.conts, w2.lists = w.lists,
           NEW f, w2.frames = Append(w.frames, f), AllOK(w, f)
    PROVE  Grows(w, w2) /\ HeapOK(w2)
<1>1. WorldOK(w) /\ IsSequence(w.frames)
  BY HeapIsWorld DEF HeapOK
<1>2. Grows(w, w2)
  BY <1>1, GrowsBy DEF Longer
<1>3. AllOK(w2, f)
  BY <1>1, <1>2, AllGrows
<1>4. \A a \in DOMAIN w2.frames : \/ a \in DOMAIN w.frames /\ w2.frames[a] = w.frames[a]
                                  \/ AllOK(w2, w2.frames[a])
  BY <1>1, <1>3, NewIs
<1>5. Fresh(w, w2)
  BY <1>4 DEF Fresh
<1> QED
  BY <1>2, <1>5, HeapGrows

\* set! of a local variable.
LEMMA SlotAssigned ==
    ASSUME NEW w, NEW w2, HeapOK(w),
           w2.code = w.code, w2.templates = w.templates, w2.conts = w.conts, w2.lists = w.lists,
           NEW a \in DOMAIN w.frames, NEW i \in 1..Len(w.frames[a]), NEW v, ValueOK(w, v),
           w2.frames = [w.frames EXCEPT ![a][i] = v]
    PROVE  Grows(w, w2) /\ HeapOK(w2)
<1>1. /\ WorldOK(w) /\ IsSequence(w.frames) /\ AllOK(w, w.frames[a])
      /\ Len(w.frames) \in Nat /\ DOMAIN w.frames = 1..Len(w.frames)
  BY HeapIsWorld, SequenceIs DEF HeapOK
<1> DEFINE F == w.frames
           g == F[a]
           f == [g EXCEPT ![i] = v]
<1>0. IsSequence(g) /\ i \in 1..Len(g) /\ g = F[a]
  BY <1>1 DEF AllOK
<1> HIDE DEF g
<1>a. f = Updated(g, i, v)
  BY DEF Updated
<1>2. /\ IsSequence(f) /\ Len(f) = Len(F[a])
      /\ \A j \in 1..Len(F[a]) : f[j] = IF j = i THEN v ELSE F[a][j]
  <2> HIDE DEF f
  <2>1. IsSequence(f) /\ Len(f) = Len(g) /\ \A j \in 1..Len(g) : f[j] = IF j = i THEN v ELSE g[j]
    BY <1>0, <1>a, SequenceUpdated
  <2> QED
    BY <1>0, <2>1
<1>3. w2.frames = Updated(F, a, f)
  BY <1>0 DEF Updated
<1>4. F = w.frames /\ a \in 1..Len(F)
  BY <1>1
<1> HIDE DEF F, f
<1>5. /\ IsSequence(w2.frames) /\ Len(w2.frames) = Len(F)
      /\ \A j \in 1..Len(F) : w2.frames[j] = IF j = a THEN f ELSE F[j]
  BY <1>1, <1>3, <1>4, SequenceUpdated, SMTT(30)
<1>6. Grows(w, w2)
  <2>1. Extends(w2.code, w.code) /\ Extends(w2.templates, w.templates) /\ Extends(w2.lists, w.lists) /\ Extends(w2.conts, w.conts)
    BY <1>1, ExtendsItself DEF WorldOK, CodeOK
  <2>2. /\ IsSequence(w2.frames) /\ Len(w.frames) <= Len(w2.frames)
        /\ \A b \in 1..Len(w.frames) : Len(w2.frames[b]) = Len(w.frames[b])
    BY <1>1, <1>2, <1>3, <1>4, <1>5
  <2> QED
    BY <2>1, <2>2 DEF Grows
<1>7. AllOK(w, f)
  BY <1>1, <1>2, <1>4 DEF AllOK
<1>8. AllOK(w2, f)
  BY <1>1, <1>6, <1>7, AllGrows
<1>9. \A b \in DOMAIN w2.frames : \/ b \in DOMAIN w.frames /\ w2.frames[b] = w.frames[b]
                                  \/ AllOK(w2, w2.frames[b])
  <2>1. DOMAIN w2.frames = DOMAIN w.frames
    BY <1>3, <1>4 DEF Updated
  <2> QED
    BY <1>1, <1>3, <1>4, <1>5, <1>8, <2>1
<1>10. Fresh(w, w2)
  BY <1>9 DEF Fresh
<1> QED
  BY <1>6, <1>10, HeapGrows

\* One more block, that refers to no other: the error's and the rewind's.
Alone(b) ==
    /\ IsSequence(b) /\ Balanced(b) /\ Shaped(b)
    /\ \A p \in 1..Len(b) : b[p].op \in {"LDC", "APP", "POP", "STOP"}

LEMMA MoreCode ==
    ASSUME NEW w, NEW w2, HeapOK(w), NEW b, w2.code = Append(w.code, b), Alone(b),
           \A p \in 1..Len(b) : b[p].op = "LDC" => ValueOK(w, b[p].val),
           w2.templates = w.templates, w2.frames = w.frames, w2.conts = w.conts, w2.lists = w.lists
    PROVE  /\ Grows(w, w2) /\ HeapOK(w2)
           /\ Len(w.code) + 1 \in DOMAIN w2.code /\ w2.code[Len(w.code) + 1] = b
           /\ \A e, sh : EnvFits(w, e, sh) => Fits(w2, Len(w.code) + 1, e)
<1> DEFINE n == Len(w.code) + 1
<1>1. WorldOK(w) /\ IsSequence(w.code)
  BY HeapIsWorld DEF HeapOK, CodeOK
<1>2. Grows(w, w2)
  BY <1>1, GrowsBy DEF Longer
<1>3. n \in DOMAIN w2.code /\ w2.code[n] = b /\ \A m \in DOMAIN w2.code : m \in DOMAIN w.code \/ m = n
  BY <1>1, NewIs
<1> HIDE DEF n
<1>4. BlockOK(w2, n) /\ ConstantsOK(w2, n)
  BY <1>1, <1>2, <1>3, ValueGrows DEF BlockOK, ConstantsOK, Linked, Alone
<1>5. Fresh(w, w2)
  BY <1>3, <1>4 DEF Fresh
<1>6. HeapOK(w2)
  BY <1>2, <1>5, HeapGrows
<1>7. ASSUME NEW e, NEW sh, EnvFits(w, e, sh) PROVE Fits(w2, n, e)
  <2> DEFINE scope == [m \in {n} |-> sh]
  <2>1. scope \in [{n} -> Seq(Nat)] /\ scope[n] = sh
    BY <1>7 DEF EnvFits
  <2>2. Scoped(w2.code, w2.templates, scope)
    BY <1>3 DEF Scoped, InScope, Alone
  <2> HIDE DEF scope
  <2>3. RunsIn(w2.code, w2.templates, n, sh)
    BY <1>3, <2>1, <2>2 DEF RunsIn
  <2>4. EnvFits(w2, e, sh)
    BY <1>1, <1>2, <1>7, EnvGrows
  <2> QED
    BY <2>3, <2>4 DEF Fits
<1> QED
  BY <1>2, <1>3, <1>6, <1>7 DEF n

\* More blocks, compiled.
LEMMA MoreBlocks ==
    ASSUME NEW w, NEW w2, HeapOK(w), NEW r, NEW end, NEW given, Adds(r, w.code, w.templates, end, given), r.id # 0,
           w2.code = r.code, w2.templates = r.templates,
           w2.frames = w.frames, w2.conts = w.conts, w2.lists = w.lists,
           \A v \in given : ValueOK(w, v)
    PROVE  /\ Grows(w, w2) /\ HeapOK(w2)
           /\ r.id \in DOMAIN w2.code /\ r.id \in Nat
           /\ Ends(w2.code[r.id], end) /\ Fits(w2, r.id, <<>>)
<1>1. /\ WorldOK(w) /\ IsSequence(w.code) /\ IsSequence(w.templates)
      /\ IsSequence(w.frames) /\ IsSequence(w.lists) /\ IsSequence(w.conts)
  BY HeapIsWorld DEF HeapOK, CodeOK
<1>2. /\ Extends(r.code, w.code) /\ Extends(r.templates, w.templates)
      /\ \A n \in Len(w.code) + 1..Len(r.code) : WellMade(r.code, r.templates, n, given)
      /\ r.id \in Len(w.code) + 1..Len(r.code)
      /\ Ends(r.code[r.id], end) /\ RunsIn(r.code, r.templates, r.id, <<>>)
  BY DEF Adds
<1>3. Grows(w, w2)
  BY <1>1, <1>2, ExtendsItself, SequenceIs DEF Grows
<1>4. /\ DOMAIN w.code = 1..Len(w.code) /\ Len(w.code) \in Nat
      /\ DOMAIN w2.code = 1..Len(w2.code) /\ Len(w2.code) \in Nat
  BY <1>1, <1>2, SequenceIs DEF Extends
<1>5. ASSUME NEW n \in DOMAIN w2.code \ DOMAIN w.code PROVE BlockOK(w2, n) /\ ConstantsOK(w2, n)
  <2>1. n \in Len(w.code) + 1..Len(r.code)
    BY <1>4
  <2>2. WellMade(w2.code, w2.templates, n, given)
    BY <1>2, <2>1
  <2>3. \A v : Data(v) => ValueOK(w2, v)
    BY DEF Data, ValueOK
  <2>4. \A v \in given : ValueOK(w2, v)
    BY <1>1, <1>3, ValueGrows
  <2> QED
    BY <2>2, <2>3, <2>4 DEF WellMade, BlockOK, ConstantsOK
<1>6. Fresh(w, w2)
  BY <1>5 DEF Fresh
<1>7. HeapOK(w2)
  BY <1>3, <1>6, HeapGrows
<1>8. EnvFits(w2, <<>>, <<>>)
  <2>1. IsSequence(<<>>) /\ Len(<<>>) = 0 /\ <<>> \in Seq(Nat)
    BY DEF IsSequence
  <2> QED
    BY <2>1 DEF EnvFits
<1> QED
  BY <1>2, <1>3, <1>4, <1>7, <1>8 DEF Fits

-----------------------------------------------------------------------------
(* Values and stacks of values.                                            *)

LEMMA EmptyOK ==
    ASSUME NEW w
    PROVE  AllOK(w, <<>>) /\ IsSequence(<<>>) /\ Len(<<>>) = 0
<1>1. IsSequence(<<>>) /\ Len(<<>>) = 0
  BY DEF IsSequence
<1> QED
  BY <1>1 DEF AllOK

LEMMA AllAppend ==
    ASSUME NEW w, NEW s, NEW v, AllOK(w, s), ValueOK(w, v)
    PROVE  AllOK(w, Append(s, v)) /\ Len(Append(s, v)) = Len(s) + 1 /\ Len(s) \in Nat
<1> DEFINE t == Append(s, v)
<1>1. /\ IsSequence(t) /\ Len(t) = Len(s) + 1 /\ \A i \in 1..Len(s) : t[i] = s[i]
      /\ t[Len(s) + 1] = v /\ Len(s) \in Nat
  BY SequenceAppend, SequenceIs DEF AllOK
<1> HIDE DEF t
<1>2. ASSUME NEW i \in 1..Len(t) PROVE ValueOK(w, t[i])
  <2>1. i \in 1..Len(s) \/ i = Len(s) + 1
    BY <1>1
  <2> QED
    BY <1>1, <2>1 DEF AllOK
<1> QED
  BY <1>1, <1>2 DEF AllOK, t

LEMMA AllPop ==
    ASSUME NEW w, NEW s, AllOK(w, s), s # <<>>
    PROVE  /\ AllOK(w, Pop(s)) /\ Len(Pop(s)) = Len(s) - 1 /\ Len(s) \in Nat /\ Len(s) > 0
           /\ ValueOK(w, Top(s))
<1>1. /\ IsSequence(Pop(s)) /\ Len(Pop(s)) = Len(s) - 1
      /\ \A i \in 1..Len(Pop(s)) : Pop(s)[i] = s[i] /\ i \in 1..Len(s)
      /\ Len(s) \in Nat /\ Len(s) > 0
  BY SequencePop, SequenceIs, SequenceNonEmpty DEF AllOK
<1>2. Len(s) \in 1..Len(s)
  BY <1>1
<1> QED
  BY <1>1, <1>2 DEF AllOK, Top

LEMMA AllSub ==
    ASSUME NEW w, NEW s, AllOK(w, s), NEW m \in Nat \ {0}, NEW n \in Nat, n <= Len(s)
    PROVE  AllOK(w, SubSeq(s, m, n)) /\ Len(SubSeq(s, m, n)) = IF m <= n THEN n - m + 1 ELSE 0
BY SequenceSub DEF AllOK

LEMMA AllConcat ==
    ASSUME NEW w, NEW s, NEW t, AllOK(w, s), AllOK(w, t)
    PROVE  AllOK(w, s \o t) /\ Len(s \o t) = Len(s) + Len(t)
<1> DEFINE u == s \o t
<1>1. /\ IsSequence(u) /\ Len(u) = Len(s) + Len(t)
      /\ \A i \in 1..Len(u) : u[i] = IF i <= Len(s) THEN s[i] ELSE t[i - Len(s)]
      /\ Len(s) \in Nat /\ Len(t) \in Nat
  BY SequenceConcat, SequenceIs DEF AllOK
<1> HIDE DEF u
<1>2. ASSUME NEW i \in 1..Len(u) PROVE ValueOK(w, u[i])
  <2>1. CASE i <= Len(s)
    BY <1>1, <2>1 DEF AllOK
  <2>2. CASE ~(i <= Len(s))
    <3>1. i - Len(s) \in 1..Len(t)
      BY <1>1, <2>2
    <3> QED
      BY <1>1, <2>2, <3>1 DEF AllOK
  <2> QED
    BY <2>1, <2>2
<1> QED
  BY <1>1, <1>2 DEF AllOK, u

\* What is no address is right in every world.
LEMMA PlainOK ==
    ASSUME NEW w
    PROVE  /\ ValueOK(w, Nil) /\ ValueOK(w, True) /\ ValueOK(w, False) /\ ValueOK(w, Null)
           /\ ValueOK(w, Unbound) /\ ValueOK(w, Environment)
           /\ \A x : ValueOK(w, Const(x)) /\ ValueOK(w, ErrorObject(x)) /\ ValueOK(w, PortRef(x))
BY DEF ValueOK, Nil, True, False, Null, Unbound, Environment, Const, ErrorObject, PortRef

LEMMA AllResize ==
    ASSUME NEW w, NEW s, NEW n \in Nat, AllOK(w, s)
    PROVE  AllOK(w, Resize(s, n)) /\ Len(Resize(s, n)) = n
<1> DEFINE t == Resize(s, n)
<1>1. /\ IsSequence(t) /\ Len(t) = n /\ \A i \in 1..n : t[i] = IF i <= Len(s) THEN s[i] ELSE Null
      /\ Len(s) \in Nat
  BY SequenceResize, SequenceIs DEF AllOK
<1> HIDE DEF t
<1>2. ASSUME NEW i \in 1..n PROVE ValueOK(w, t[i])
  <2>1. CASE i <= Len(s)
    BY <1>1, <2>1 DEF AllOK
  <2>2. CASE ~(i <= Len(s))
    BY <1>1, <2>2, PlainOK
  <2> QED
    BY <2>1, <2>2
<1> QED
  BY <1>1, <1>2 DEF AllOK, t

\* The arguments of a call.
LEMMA AllAbove ==
    ASSUME NEW w, NEW s, AllOK(w, s), NEW n \in Nat, n <= Len(s)
    PROVE  AllOK(w, Above(s, n)) /\ Len(Above(s, n)) = Len(s) - n
<1>1. Len(s) \in Nat /\ n + 1 \in Nat \ {0}
  BY SequenceIs DEF AllOK
<1> QED
  BY <1>1, AllSub DEF Above

\* The elements of a list, what ends it and what is behind some of them.
LEMMA ElemsOK ==
    ASSUME NEW w, HeapOK(w), w.lists = lists, NEW v, ValueOK(w, v)
    PROVE  /\ AllOK(w, Elems(v)) /\ ValueOK(w, Ending(v))
           /\ IsPair(v) => Elems(v) # <<>> /\ Len(Elems(v)) > 0
           /\ \A n \in 0..Len(Elems(v)) : ValueOK(w, Behind(v, n))
<1>1. CASE v.tag = "pair"
  <2> DEFINE l == lists[v.list]
  <2>1. v.list \in DOMAIN lists /\ v.at \in 1..Len(l.elems) /\ AllOK(w, l.elems) /\ ValueOK(w, l.ending)
    BY <1>1 DEF ValueOK, HeapOK, ListOK
  <2> HIDE DEF l
  <2>2. Len(l.elems) \in Nat
    BY <2>1, SequenceIs DEF AllOK
  <2>3. Elems(v) = SubSeq(l.elems, v.at, Len(l.elems)) /\ Ending(v) = l.ending
    BY <1>1 DEF Elems, Ending, l
  <2> DEFINE xs == Elems(v)
  <2>4. AllOK(w, xs) /\ Len(xs) = Len(l.elems) - v.at + 1 /\ Len(xs) > 0
    BY <2>1, <2>2, <2>3, AllSub
  <2> HIDE DEF xs
  <2>5. xs # <<>>
    BY <2>4, SequenceNonEmpty DEF AllOK
  <2>6. ASSUME NEW n \in 0..Len(xs) PROVE ValueOK(w, Behind(v, n))
    <3>1. CASE n = Len(xs)
      BY <2>1, <2>3, <3>1 DEF Behind, xs
    <3>2. CASE n # Len(xs)
      <4>1. n < Len(xs) /\ v.at + n \in 1..Len(l.elems)
        BY <2>1, <2>2, <2>4, <3>2
      <4>2. Behind(v, n) = PairAt(v.list, v.at + n)
        BY <1>1, <3>2, <4>1 DEF Behind, xs
      <4> QED
        BY <2>1, <4>1, <4>2 DEF ValueOK, PairAt, l
    <3> QED
      BY <3>1, <3>2
  <2> QED
    BY <2>1, <2>3, <2>4, <2>5, <2>6 DEF xs
<1>2. CASE v.tag = "literal"
  <2> DEFINE q == v.elems
  <2>1. /\ IsSequence(q) /\ Len(q) > 0
        /\ \A i \in 1..Len(q) : q[i].tag = "const"
        /\ Len(q) \in Nat
    BY <1>2, SequenceIs DEF ValueOK, Data
  <2> HIDE DEF q
  <2>2. Elems(v) = q /\ Ending(v) = Nil
    BY <1>2 DEF Elems, Ending, q
  <2>3. AllOK(w, q)
    BY <2>1 DEF AllOK, ValueOK
  <2>4. q # <<>>
    BY <2>1, SequenceNonEmpty
  <2>5. ASSUME NEW n \in 0..Len(q) PROVE ValueOK(w, Behind(v, n))
    <3>1. CASE n = Len(q)
      BY <2>2, <3>1, PlainOK DEF Behind
    <3>2. CASE n # Len(q)
      <4> DEFINE t == SubSeq(q, n + 1, Len(q))
      <4>1. Behind(v, n) = Literal(t)
        BY <1>2, <2>2, <3>2 DEF Behind, q
      <4>2. n + 1 \in Nat \ {0} /\ n + 1 <= Len(q)
        BY <2>1, <3>2
      <4>3. /\ IsSequence(t) /\ Len(t) = Len(q) - (n + 1) + 1
            /\ \A i \in 1..Len(t) : t[i] = q[(n + 1) + i - 1] /\ (n + 1) + i - 1 \in 1..Len(q)
        BY <2>1, <4>2, SequenceSub
      <4> HIDE DEF t
      <4>4. Len(t) > 0 /\ \A i \in 1..Len(t) : t[i].tag = "const"
        BY <2>1, <4>2, <4>3
      <4> QED
        BY <4>1, <4>3, <4>4 DEF ValueOK, Data, Literal
    <3> QED
      BY <3>1, <3>2
  <2> QED
    BY <2>2, <2>3, <2>4, <2>1, <2>5, PlainOK
<1>3. CASE v.tag \notin {"pair", "literal"}
  <2>1. Elems(v) = <<>> /\ Ending(v) = v /\ ~IsPair(v)
    BY <1>3 DEF Elems, Ending, IsPair
  <2>2. \A n \in 0..Len(Elems(v)) : Behind(v, n) = v
    BY <2>1, EmptyOK DEF Behind
  <2> QED
    BY <2>1, <2>2, EmptyOK
<1> QED
  BY <1>1, <1>2, <1>3

\* A fresh list. It is right where its cell is.
LEMMA ListMade ==
    ASSUME NEW w, NEW w2, HeapOK(w), w.lists = lists,
           NEW xs, NEW end, AllOK(w, xs), ValueOK(w, end),
           w2.code = w.code, w2.templates = w.templates, w2.frames = w.frames, w2.conts = w.conts,
           w2.lists = AddList(xs, end)
    PROVE  Grows(w, w2) /\ HeapOK(w2) /\ ValueOK(w2, NewList(xs, end))
<1>1. CASE xs = <<>>
  <2>1. w2.lists = w.lists /\ NewList(xs, end) = end
    BY <1>1 DEF AddList, NewList
  <2>2. Grows(w, w2)
    BY <2>1, HeapIsWorld, GrowsBy DEF Longer
  <2>3. Fresh(w, w2)
    BY <2>1 DEF Fresh
  <2> QED
    BY <2>1, <2>2, <2>3, HeapGrows, HeapIsWorld, ValueGrows
<1>2. CASE xs # <<>>
  <2> DEFINE l == [elems |-> xs, ending |-> end]
  <2>1. w2.lists = Append(w.lists, l) /\ NewList(xs, end) = PairAt(Len(w.lists) + 1, 1)
    BY <1>2 DEF AddList, NewList
  <2>2. ListOK(w, l)
    BY DEF ListOK
  <2>3. l.elems = xs
    OBVIOUS
  <2> HIDE DEF l
  <2>4. Grows(w, w2) /\ HeapOK(w2)
    BY <2>1, <2>2, MoreLists
  <2>5. Len(w.lists) + 1 \in DOMAIN w2.lists /\ w2.lists[Len(w.lists) + 1] = l
    BY <2>1, NewIs DEF HeapOK
  <2>6. Len(xs) \in Nat /\ Len(xs) > 0
    BY <1>2, SequenceIs, SequenceNonEmpty DEF AllOK
  <2>7. ValueOK(w2, PairAt(Len(w.lists) + 1, 1))
    BY <2>3, <2>5, <2>6 DEF ValueOK, PairAt
  <2> QED
    BY <2>1, <2>4, <2>7
<1> QED
  BY <1>1, <1>2

-----------------------------------------------------------------------------
(* The code the machine makes itself.                                      *)

\* What a short sequence holds.
LEMMA Three ==
    ASSUME NEW x, NEW y, NEW z
    PROVE  /\ IsSequence(<<x, y, z>>) /\ Len(<<x, y, z>>) = 3
           /\ <<x, y, z>>[1] = x /\ <<x, y, z>>[2] = y /\ <<x, y, z>>[3] = z
<1>1. <<x, y, z>> \in Seq({x, y, z})
  OBVIOUS
<1> QED
  BY <1>1, SequenceOver

LEMMA Four ==
    ASSUME NEW x, NEW y, NEW z, NEW u
    PROVE  /\ IsSequence(<<x, y, z, u>>) /\ Len(<<x, y, z, u>>) = 4
           /\ <<x, y, z, u>>[1] = x /\ <<x, y, z, u>>[2] = y /\ <<x, y, z, u>>[3] = z /\ <<x, y, z, u>>[4] = u
<1>1. <<x, y, z, u>> \in Seq({x, y, z, u})
  OBVIOUS
<1> QED
  BY <1>1, SequenceOver

STOP == [op |-> "STOP"]
POP  == [op |-> "POP"]

LEMMA Effects ==
    /\ \A v : Takes(LDC(v)) = 0 /\ Gives(LDC(v)) = 1 /\ LDC(v).op = "LDC" /\ LDC(v).val = v
    /\ \A n \in Nat : Takes(APP(n)) = n + 1 /\ Gives(APP(n)) = 1 /\ APP(n).op = "APP" /\ APP(n).n = n
    /\ Takes(POP) = 1 /\ Gives(POP) = 0 /\ POP.op = "POP"
    /\ Takes(STOP) = 0 /\ Gives(STOP) = 0 /\ STOP.op = "STOP"
BY DEF Takes, Needs, Gives, LDC, APP, POP, STOP

\* abandon_to_raise: (raise obj), and STOP.
LEMMA AbandonCode ==
    ASSUME NEW v, NEW h, NEW b, b = <<LDC(v), LDC(h), APP(1), [op |-> "STOP"]>>
    PROVE  /\ Alone(b) /\ Ends(b, "STOP") /\ Len(b) = 4
           /\ \A p \in 1..Len(b) : b[p].op = "LDC" => b[p].val \in {v, h}
<1>1. /\ IsSequence(b) /\ Len(b) = 4
      /\ b[1] = LDC(v) /\ b[2] = LDC(h) /\ b[3] = APP(1) /\ b[4] = STOP
  BY Four DEF STOP
<1>2. \A p \in 1..Len(b) : p = 1 \/ p = 2 \/ p = 3 \/ p = 4
  BY <1>1
<1> DEFINE depth == [p \in 0..Len(b) |-> IF p = 0 THEN 0 ELSE IF p = 2 THEN 2 ELSE 1]
<1>3. depth \in [0..Len(b) -> Nat] /\ depth[0] = 0 /\ depth[1] = 1 /\ depth[2] = 2 /\ depth[3] = 1 /\ depth[4] = 1
  BY <1>1
<1> HIDE DEF depth
<1>4. Counts(b, depth)
  <2>1. SUFFICES ASSUME NEW p \in 1..Len(b)
                 PROVE  depth[p - 1] >= Takes(b[p]) /\ depth[p] = depth[p - 1] - Takes(b[p]) + Gives(b[p])
    BY <1>3 DEF Counts
  <2> QED
    BY <1>1, <1>2, <1>3, Effects
<1>5. Shaped(b)
  <2>1. Ends(b, "STOP")
    BY <1>1, Effects DEF Ends
  <2>2. \A p \in 1..Len(b) : b[p].op \in {"LDC", "APP", "STOP"} /\ (b[p].op = "APP" => b[p].n \in Nat)
    BY <1>1, <1>2, Effects
  <2> QED
    BY <2>1, <2>2 DEF Shaped, Leaving, TailCalls, IsScratch
<1>6. \A p \in 1..Len(b) : b[p].op \in {"LDC", "APP", "POP", "STOP"}
  BY <1>1, <1>2, Effects
<1>7. \A p \in 1..Len(b) : b[p].op = "LDC" => b[p].val \in {v, h}
  BY <1>1, <1>2, Effects
<1> QED
  BY <1>1, <1>3, <1>4, <1>5, <1>6, <1>7, Effects DEF Alone, Balanced, Ends

\* build_rewind_code: each thunk called and its value dropped, and the
\* continuation called.
LEMMA RewindIs ==
    ASSUME NEW thunks, IsSequence(thunks), NEW v, NEW k, NEW b, b = RewindCode(thunks, v, k), NEW m, m = 3 * Len(thunks)
    PROVE  /\ IsSequence(b) /\ m \in Nat /\ Len(b) = m + 3
           /\ \A p \in 1..m : /\ p % 3 = 1 => b[p] = LDC(thunks[(p + 2) \div 3]) /\ (p + 2) \div 3 \in 1..Len(thunks)
                              /\ p % 3 = 2 => b[p] = APP(0)
                              /\ p % 3 = 0 => b[p] = POP
           /\ b[m + 1] = LDC(v) /\ b[m + 2] = LDC(ContRef(k)) /\ b[m + 3] = APP(1)
<1> DEFINE P == [j \in 1..3 * Len(thunks) |-> CASE j % 3 = 1 -> LDC(thunks[(j + 2) \div 3])
                                                 [] j % 3 = 2 -> APP(0)
                                                 [] OTHER     -> [op |-> "POP"]]
           Q == <<LDC(v), LDC(ContRef(k)), APP(1)>>
<1>1. Len(thunks) \in Nat /\ m \in Nat /\ m = 3 * Len(thunks)
  BY SequenceIs
<1>2. b = P \o Q
  BY DEF RewindCode
<1>3. \A p \in 1..m : /\ p % 3 = 1 => P[p] = LDC(thunks[(p + 2) \div 3])
                      /\ p % 3 = 2 => P[p] = APP(0)
                      /\ p % 3 = 0 => P[p] = POP
  BY <1>1 DEF POP
<1>4. P = [j \in 1..m |-> P[j]]
  OBVIOUS
<1>5. IsSequence(Q) /\ Len(Q) = 3 /\ Q[1] = LDC(v) /\ Q[2] = LDC(ContRef(k)) /\ Q[3] = APP(1)
  BY Three
<1> HIDE DEF P, Q
<1>6. IsSequence(P) /\ Len(P) = m
  BY <1>1, <1>4, SequenceMade
<1>7. /\ IsSequence(b) /\ Len(b) = m + 3
      /\ \A i \in 1..Len(b) : b[i] = IF i <= m THEN P[i] ELSE Q[i - m]
  <2>1. /\ IsSequence(P \o Q) /\ Len(P \o Q) = Len(P) + Len(Q)
        /\ \A i \in 1..Len(P \o Q) : (P \o Q)[i] = IF i <= Len(P) THEN P[i] ELSE Q[i - Len(P)]
    BY <1>5, <1>6, SequenceConcat
  <2> QED
    BY <1>2, <1>5, <1>6, <2>1
<1>8. b[m + 1] = Q[1] /\ b[m + 2] = Q[2] /\ b[m + 3] = Q[3]
  <2>1. m + 1 \in 1..Len(b) /\ m + 2 \in 1..Len(b) /\ m + 3 \in 1..Len(b)
    BY <1>1, <1>7
  <2>2. /\ ~(m + 1 <= m) /\ ~(m + 2 <= m) /\ ~(m + 3 <= m)
        /\ (m + 1) - m = 1 /\ (m + 2) - m = 2 /\ (m + 3) - m = 3
    BY <1>1
  <2> QED
    BY <1>7, <2>1, <2>2
<1>9. \A p \in 1..m : b[p] = P[p] /\ (p % 3 = 1 => (p + 2) \div 3 \in 1..Len(thunks))
  BY <1>1, <1>7
<1> QED
  BY <1>1, <1>3, <1>5, <1>7, <1>8, <1>9

LEMMA RewindAlone ==
    ASSUME NEW thunks, IsSequence(thunks), NEW v, NEW k, NEW b, b = RewindCode(thunks, v, k)
    PROVE  /\ Alone(b) /\ EndsInJump(b) /\ Len(b) > 0
           /\ \A p \in 1..Len(b) : b[p].op = "LDC" =>
                 \/ b[p].val \in {v, ContRef(k)}
                 \/ \E i \in 1..Len(thunks) : b[p].val = thunks[i]
<1> DEFINE m == 3 * Len(thunks)
<1>1. m = 3 * Len(thunks)
  OBVIOUS
<1> HIDE DEF m
<1>2. /\ IsSequence(b) /\ m \in Nat /\ Len(b) = m + 3
      /\ \A p \in 1..m : /\ p % 3 = 1 => b[p] = LDC(thunks[(p + 2) \div 3]) /\ (p + 2) \div 3 \in 1..Len(thunks)
                         /\ p % 3 = 2 => b[p] = APP(0)
                         /\ p % 3 = 0 => b[p] = POP
      /\ b[m + 1] = LDC(v) /\ b[m + 2] = LDC(ContRef(k)) /\ b[m + 3] = APP(1)
  BY <1>1, RewindIs
<1>a. ASSUME NEW p \in 1..m
      PROVE  \/ /\ p % 3 = 1 /\ Takes(b[p]) = 0 /\ Gives(b[p]) = 1 /\ b[p].op = "LDC"
                /\ \E i \in 1..Len(thunks) : b[p].val = thunks[i]
             \/ p % 3 = 2 /\ Takes(b[p]) = 1 /\ Gives(b[p]) = 1 /\ b[p].op = "APP" /\ b[p].n = 0
             \/ p % 3 = 0 /\ Takes(b[p]) = 1 /\ Gives(b[p]) = 0 /\ b[p].op = "POP"
  <2>1. p % 3 = 0 \/ p % 3 = 1 \/ p % 3 = 2
    BY <1>2
  <2>2. CASE p % 3 = 1
    <3> DEFINE x == thunks[(p + 2) \div 3]
    <3>1. b[p] = LDC(x) /\ \E i \in 1..Len(thunks) : x = thunks[i]
      BY <1>2, <2>2
    <3> HIDE DEF x
    <3>2. Takes(LDC(x)) = 0 /\ Gives(LDC(x)) = 1 /\ LDC(x).op = "LDC" /\ LDC(x).val = x
      BY Effects
    <3> QED
      BY <2>2, <3>1, <3>2
  <2>3. CASE p % 3 = 2
    <3>1. b[p] = APP(0)
      BY <1>2, <2>3
    <3>2. Takes(APP(0)) = 0 + 1 /\ Gives(APP(0)) = 1 /\ APP(0).op = "APP" /\ APP(0).n = 0
      BY Effects
    <3> QED
      BY <2>3, <3>1, <3>2
  <2>4. CASE p % 3 = 0
    <3>1. b[p] = POP
      BY <1>2, <2>4
    <3> QED
      BY <2>4, <3>1, Effects
  <2> QED
    BY <2>1, <2>2, <2>3, <2>4
<1>b. /\ Takes(b[m + 1]) = 0 /\ Gives(b[m + 1]) = 1 /\ b[m + 1].op = "LDC" /\ b[m + 1].val = v
      /\ Takes(b[m + 2]) = 0 /\ Gives(b[m + 2]) = 1 /\ b[m + 2].op = "LDC" /\ b[m + 2].val = ContRef(k)
      /\ Takes(b[m + 3]) = 2 /\ Gives(b[m + 3]) = 1 /\ b[m + 3].op = "APP" /\ b[m + 3].n = 1
  <2>1. Takes(APP(1)) = 1 + 1 /\ Gives(APP(1)) = 1 /\ APP(1).op = "APP" /\ APP(1).n = 1
    BY Effects
  <2> QED
    BY <1>2, <2>1, Effects
<1>3. \A p \in 1..Len(b) : p \in 1..m \/ p = m + 1 \/ p = m + 2 \/ p = m + 3
  BY <1>2
<1>4. m % 3 = 0
  BY <1>1, SequenceIs
<1>5. \A p \in 1..m : p % 3 = 0 \/ p % 3 = 1 \/ p % 3 = 2
  BY <1>2
<1> DEFINE depth == [p \in 0..Len(b) |-> IF p = m + 2 THEN 2 ELSE IF p <= m /\ p % 3 = 0 THEN 0 ELSE 1]
<1>6. /\ depth \in [0..Len(b) -> Nat] /\ depth[0] = 0
      /\ depth[m] = 0 /\ depth[m + 1] = 1 /\ depth[m + 2] = 2 /\ depth[m + 3] = 1
      /\ \A p \in 0..m : depth[p] = IF p % 3 = 0 THEN 0 ELSE 1
  BY <1>2, <1>4
<1> HIDE DEF depth
<1>7. Counts(b, depth)
  <2>1. SUFFICES ASSUME NEW p \in 1..Len(b)
                 PROVE  depth[p - 1] >= Takes(b[p]) /\ depth[p] = depth[p - 1] - Takes(b[p]) + Gives(b[p])
    BY <1>6 DEF Counts
  <2>2. CASE p \in 1..m
    <3>1. p - 1 \in 0..m /\ p \in 0..m
      BY <1>2, <2>2
    <3>2. CASE p % 3 = 1
      <4>1. (p - 1) % 3 = 0
        BY <2>2, <3>2
      <4>2. depth[p - 1] = 0 /\ depth[p] = 1
        BY <1>6, <3>1, <3>2, <4>1
      <4> QED
        BY <1>a, <2>2, <3>2, <4>2
    <3>3. CASE p % 3 = 2
      <4>1. (p - 1) % 3 # 0
        BY <2>2, <3>3
      <4>2. depth[p - 1] = 1 /\ depth[p] = 1
        BY <1>6, <3>1, <3>3, <4>1
      <4>3. Takes(b[p]) = 1 /\ Gives(b[p]) = 1
        BY <1>a, <2>2, <3>3
      <4> QED
        BY <4>2, <4>3
    <3>4. CASE p % 3 = 0
      <4>1. (p - 1) % 3 # 0
        BY <2>2, <3>4
      <4>2. depth[p - 1] = 1 /\ depth[p] = 0
        BY <1>6, <3>1, <3>4, <4>1
      <4> QED
        BY <1>a, <2>2, <3>4, <4>2
    <3> QED
      BY <1>5, <2>2, <3>2, <3>3, <3>4
  <2>3. CASE p = m + 1
    <3>1. p - 1 = m
      BY <1>2, <2>3
    <3> QED
      BY <1>2, <1>b, <1>6, <2>3, <3>1
  <2>4. CASE p = m + 2
    <3>1. p - 1 = m + 1
      BY <1>2, <2>4
    <3> QED
      BY <1>b, <1>6, <2>4, <3>1
  <2>5. CASE p = m + 3
    <3>1. p - 1 = m + 2
      BY <1>2, <2>5
    <3> QED
      BY <1>b, <1>6, <2>5, <3>1
  <2> QED
    BY <1>3, <2>2, <2>3, <2>4, <2>5
<1>8. ASSUME NEW p \in 1..Len(b)
      PROVE  /\ b[p].op \in {"LDC", "APP", "POP"} /\ (b[p].op = "APP" => b[p].n \in Nat)
             /\ b[p].op = "LDC" => \/ b[p].val \in {v, ContRef(k)}
                                   \/ \E i \in 1..Len(thunks) : b[p].val = thunks[i]
  <2>1. CASE p \in 1..m
    BY <1>a, <2>1
  <2>2. CASE p = m + 1 \/ p = m + 2 \/ p = m + 3
    BY <1>b, <2>2
  <2> QED
    BY <1>3, <2>1, <2>2
<1>9. EndsInJump(b)
  <2>1. Len(b) > 1 /\ Len(b) - 1 = m + 2
    BY <1>2
  <2> QED
    BY <1>2, <2>1, Effects, SMTT(30) DEF EndsInJump, ContRef
<1>10. Shaped(b)
  BY <1>8, <1>9 DEF Shaped, Leaving, TailCalls, IsScratch
<1> QED
  BY <1>2, <1>6, <1>7, <1>8, <1>9, <1>10, SMTT(30) DEF Alone, Balanced

\* The thunks between two wind stacks are some of theirs.
LEMMA ThunksAre ==
    ASSUME NEW w, NEW a, NEW b, ThunksOK(w, a), ThunksOK(w, b)
    PROVE  AllOK(w, Thunks(a, b))
<1> DEFINE n == Common(a, b)
           P == [i \in 1..Len(a) - n |-> a[Len(a) - i + 1].after]
           Q == [i \in 1..Len(b) - n |-> b[n + i].before]
<1>1. Len(a) \in Nat /\ Len(b) \in Nat /\ n \in Nat /\ n <= Len(a) /\ n <= Len(b)
  BY SequenceIs, CommonIs DEF ThunksOK
<1>2. Thunks(a, b) = P \o Q
  BY DEF Thunks
<1>3. /\ P = [i \in 1..Len(a) - n |-> P[i]] /\ \A i \in 1..Len(a) - n : P[i] = a[Len(a) - i + 1].after
      /\ Q = [i \in 1..Len(b) - n |-> Q[i]] /\ \A i \in 1..Len(b) - n : Q[i] = b[n + i].before
  OBVIOUS
<1> HIDE DEF n, P, Q
<1>4. IsSequence(P) /\ Len(P) = Len(a) - n /\ IsSequence(Q) /\ Len(Q) = Len(b) - n
  <2>1. Len(a) - n \in Nat /\ Len(b) - n \in Nat
    BY <1>1
  <2> QED
    BY <1>3, <2>1, SequenceMade
<1>5. ASSUME NEW i \in 1..Len(a) - n PROVE ValueOK(w, P[i])
  <2>1. Len(a) - i + 1 \in 1..Len(a)
    BY <1>1
  <2> QED
    BY <1>3, <2>1 DEF ThunksOK
<1>6. ASSUME NEW i \in 1..Len(b) - n PROVE ValueOK(w, Q[i])
  <2>1. n + i \in 1..Len(b)
    BY <1>1
  <2> QED
    BY <1>3, <2>1 DEF ThunksOK
<1>7. AllOK(w, P) /\ AllOK(w, Q)
  BY <1>4, <1>5, <1>6 DEF AllOK
<1> QED
  BY <1>2, <1>7, AllConcat

-----------------------------------------------------------------------------
(* One instruction, where it is.                                           *)

LEMMA NowIs ==
    /\ Now.code = code /\ Now.templates = templates /\ Now.frames = frames
    /\ Now.lists = lists /\ Now.conts = conts
BY DEF Now

LEMMA NextIs ==
    /\ Now'.code = code' /\ Now'.templates = templates' /\ Now'.frames = frames'
    /\ Now'.lists = lists' /\ Now'.conts = conts'
BY DEF Now

\* The world of now with the continuations of the next state: call/cc adds
\* one before it calls.
Mid == [code |-> code, templates |-> templates, frames |-> frames, lists |-> lists, conts |-> conts']

LEMMA MidIs ==
    /\ Mid.code = code /\ Mid.templates = templates /\ Mid.frames = frames
    /\ Mid.lists = lists /\ Mid.conts = conts'
    /\ UNCHANGED conts => Mid = Now
BY DEF Mid, Now

LEMMA HereIs ==
    /\ Here.c = c /\ Here.pc = pc /\ Here.env = env /\ Here.base = base
    /\ Here'.c = c' /\ Here'.pc = pc' /\ Here'.env = env' /\ Here'.base = base'
BY DEF Here

\* What an instruction of a block finds in the block's environment.
LEMMA ScopeHere ==
    ASSUME NEW w, NEW n, NEW e, Fits(w, n, e), Linked(w.code, w.templates, n),
           NEW p \in 1..Len(w.code[n]), NEW i, i = w.code[n][p]
    PROVE  /\ i.op \in {"LD", "LSET"} =>
                 /\ i.depth \in Nat /\ i.depth < Len(e) /\ Len(e) \in Nat /\ e[i.depth + 1] \in DOMAIN w.frames
                 /\ i.index \in 1..Len(w.frames[e[i.depth + 1]])
           /\ i.op \in {"SEL", "SELR"} => Fits(w, i.onTrue, e) /\ Fits(w, i.onFalse, e)
           /\ i.op = "LDF" => ClosureOK(w, i.tmpl, e)
<1>1. PICK sh : RunsIn(w.code, w.templates, n, sh) /\ EnvFits(w, e, sh)
  BY DEF Fits
<1>2. PICK S \in SUBSET DOMAIN w.code : \E scope \in [S -> Seq(Nat)] :
         n \in S /\ scope[n] = sh /\ Scoped(w.code, w.templates, scope)
  BY <1>1 DEF RunsIn
<1>3. PICK scope \in [S -> Seq(Nat)] : n \in S /\ scope[n] = sh /\ Scoped(w.code, w.templates, scope)
  BY <1>2
<1>4. InScope(i, n, w.templates, scope)
  BY <1>3 DEF Scoped
<1>5. ASSUME NEW m \in S PROVE RunsIn(w.code, w.templates, m, scope[m])
  BY <1>3 DEF RunsIn
<1>6. ASSUME i.op \in {"LD", "LSET"}
      PROVE  /\ i.depth \in Nat /\ i.depth < Len(e) /\ Len(e) \in Nat /\ e[i.depth + 1] \in DOMAIN w.frames
             /\ i.index \in 1..Len(w.frames[e[i.depth + 1]])
  <2>1. i.depth \in Nat /\ i.depth < Len(sh) /\ i.index \in 1..sh[i.depth + 1]
    BY <1>3, <1>4, <1>6 DEF InScope
  <2>2. Len(e) = Len(sh) /\ Len(e) \in Nat
    BY <1>1, SequenceIs DEF EnvFits
  <2>3. i.depth + 1 \in 1..Len(e)
    BY <2>1, <2>2
  <2> QED
    BY <1>1, <2>1, <2>2, <2>3 DEF EnvFits
<1>7. ASSUME i.op \in {"SEL", "SELR"} PROVE Fits(w, i.onTrue, e) /\ Fits(w, i.onFalse, e)
  <2>1. /\ i.onTrue \in S /\ scope[i.onTrue] = sh
        /\ i.onFalse \in S /\ scope[i.onFalse] = sh
    BY <1>3, <1>4, <1>7, ZenonT(40) DEF InScope
  <2> QED
    BY <1>1, <1>5, <2>1 DEF Fits
<1>8. ASSUME i.op = "LDF" PROVE ClosureOK(w, i.tmpl, e)
  <2>1. Procedure(w.code, w.templates, i.tmpl)
    BY <1>8 DEF Linked
  <2> DEFINE t == w.templates[i.tmpl]
  <2>2. t.body \in S /\ scope[t.body] = <<Width(t)>> \o sh
    BY <1>3, <1>4, <1>8 DEF InScope
  <2> QED
    BY <1>1, <1>5, <2>1, <2>2 DEF ClosureOK
<1> QED
  BY <1>6, <1>7, <1>8

\* The machine is within a block, with the operands it counts on.
LEMMA Fetching ==
    ASSUME HeapOK(Now), NEW y, Entered(Now, dump, Here, Len(stack), y)
    PROVE  /\ c \in DOMAIN code /\ c # 0 /\ pc \in Nat /\ pc < Len(code[c]) /\ Len(code[c]) \in Nat
           /\ Fetched /\ pc + 1 \in 1..Len(code[c]) /\ Ins = code[c][pc + 1]
           /\ base \in Nat /\ y \in Nat /\ base <= y /\ Len(stack) \in Nat
           /\ Takes(Ins) \in Nat /\ Gives(Ins) \in {0, 1}
           /\ DepthAt(Now, Here) \in Nat /\ DepthAt(Now, Here) >= Takes(Ins)
           /\ Len(stack) >= y + DepthAt(Now, Here)
           /\ Shaped(code[c]) /\ Linked(code, templates, c) /\ ConstantsOK(Now, c) /\ IsSequence(code[c])
           /\ Fits(Now, c, env)
<1>1. Placed(Now, Here, y) /\ Len(stack) \in Nat /\ Len(stack) >= y + DepthAt(Now, Here)
  BY DEF Entered
<1>2. /\ c \in DOMAIN code /\ pc \in Nat /\ pc < Len(code[c]) /\ base \in Nat /\ y \in Nat /\ base <= y
      /\ Fits(Now, c, env)
  BY <1>1, HereIs, NowIs DEF Placed
<1>3. WorldOK(Now) /\ IsSequence(code) /\ BlockOK(Now, c) /\ ConstantsOK(Now, c)
  BY <1>2, NowIs, HeapIsWorld DEF HeapOK, CodeOK
<1>4. /\ Len(code[c]) \in Nat /\ pc + 1 \in 1..Len(code[c])
      /\ Takes(Ins) \in Nat /\ Gives(Ins) \in {0, 1}
      /\ DepthAt(Now, Here) \in Nat /\ DepthAt(Now, Here) >= Takes(Ins)
  BY <1>2, <1>3, InBlock, NowIs, HereIs DEF DepthAt, Ins
<1>5. c # 0
  BY <1>2, <1>3, SequenceIs
<1> QED
  BY <1>1, <1>2, <1>3, <1>4, <1>5, NowIs DEF Fetched, Ins, BlockOK

\* The next instruction of a block.
LEMMA GoesOn ==
    ASSUME NEW w, WorldOK(w), NEW d, NEW r, NEW y, Placed(w, r, y), Rests(w, d, r, y),
           NEW q, q.c = r.c, q.pc = r.pc + 1, q.base = r.base, q.env = r.env,
           r.pc + 1 < Len(w.code[r.c]),
           NEW i, i = w.code[r.c][r.pc + 1]
    PROVE  /\ Placed(w, q, y) /\ Rests(w, d, q, y)
           /\ DepthAt(w, q) \in Nat /\ DepthAt(w, q) = DepthAt(w, r) - Takes(i) + Gives(i)
           /\ w.code[q.c][q.pc] = i /\ q.pc # 0
           /\ i.op \in Calls \cup {"SEL"} => Waiting(w, q)
<1>1. /\ r.c \in DOMAIN w.code /\ r.pc \in Nat /\ r.pc < Len(w.code[r.c])
      /\ r.base \in Nat /\ y \in Nat /\ r.base <= y /\ Fits(w, r.c, r.env)
  BY DEF Placed
<1>2. /\ DepthOf(w.code[r.c])[r.pc + 1] \in Nat
      /\ DepthOf(w.code[r.c])[r.pc + 1] = DepthOf(w.code[r.c])[r.pc] - Takes(i) + Gives(i)
  BY <1>1, InBlock, SMTT(30)
<1>3. Placed(w, q, y)
  BY <1>1 DEF Placed
<1>4. Rests(w, d, q, y)
  BY DEF Rests, Links
<1> QED
  BY <1>1, <1>2, <1>3, <1>4 DEF DepthAt, Waiting

\* Where a block starts.
LEMMA AtStart ==
    ASSUME NEW w, WorldOK(w), NEW r, r.c \in DOMAIN w.code, r.pc = 0
    PROVE  DepthAt(w, r) = 0 /\ r.pc \in Nat /\ r.pc < Len(w.code[r.c])
<1>1. IsSequence(w.code[r.c]) /\ Shaped(w.code[r.c]) /\ Balanced(w.code[r.c])
  BY DEF WorldOK, CodeOK, BlockOK
<1>2. Len(w.code[r.c]) > 0 /\ Len(w.code[r.c]) \in Nat
  <2> DEFINE b == w.code[r.c]
  <2>1. IsSequence(b) /\ Shaped(b)
    BY <1>1
  <2> HIDE DEF b
  <2>2. Len(b) \in Nat
    BY <2>1, SequenceIs
  <2>3. Len(b) > 0 \/ Len(b) > 1
    BY <2>1, Zenon DEF Shaped, Ends, EndsInJump
  <2>4. Len(b) > 0
    BY <2>2, <2>3
  <2> QED
    BY <2>2, <2>4 DEF b
<1>3. DepthOf(w.code[r.c])[0] = 0
  BY <1>1, DepthIs DEF Counts
<1> QED
  BY <1>2, <1>3 DEF DepthAt

\* A block ends with RTN, JOIN or STOP, and rewind code with the call of a
\* continuation, which is on top by then.
LEMMA NotLast ==
    ASSUME HeapOK(Now), NEW y, Entered(Now, dump, Here, Len(stack), y), OperandsOK,
           Ins.op \notin {"RTN", "JOIN", "STOP"}
    PROVE  \/ pc + 1 < Len(code[c])
           \/ Ins.op = "APP" /\ stack # <<>> /\ Top(stack).tag = "cont"
<1>1. /\ c \in DOMAIN code /\ pc \in Nat /\ pc < Len(code[c]) /\ Len(code[c]) \in Nat /\ Ins = code[c][pc + 1]
  BY Fetching
<1>2. CASE pc + 1 = Len(code[c])
  <2>1. EndsInJump(code[c])
    BY <1>1, <1>2, AtEnd, HeapIsWorld, NowIs
  <2>2. /\ pc # 0 /\ Ins = APP(1) /\ code[c][pc].op = "LDC" /\ code[c][pc].val.tag = "cont"
    BY <1>1, <1>2, <2>1 DEF EndsInJump
  <2> QED
    BY <2>2 DEF OperandsOK, APP
<1> QED
  BY <1>1, <1>2

\* None of the checks that are marked internal errors fires.
LEMMA NotBroken ==
    ASSUME HeapOK(Now), NEW y, Entered(Now, dump, Here, Len(stack), y)
    PROVE  ~Broken
<1>1. /\ Fetched /\ Ins = code[c][pc + 1] /\ pc + 1 \in 1..Len(code[c]) /\ Len(stack) \in Nat
      /\ y \in Nat /\ Takes(Ins) \in Nat
      /\ DepthAt(Now, Here) \in Nat /\ DepthAt(Now, Here) >= Takes(Ins) /\ Len(stack) >= y + DepthAt(Now, Here)
      /\ Shaped(code[c]) /\ Linked(code, templates, c) /\ Fits(Now, c, env)
  BY Fetching
<1>2. Len(stack) >= Takes(Ins)
  BY <1>1
<1>3. ~(Len(stack) < Needs(Ins))
  <2>1. CASE Ins.op = "JOIN"
    BY <1>1, <2>1 DEF Needs
  <2>2. CASE Ins.op # "JOIN"
    <3>1. Takes(Ins) = Needs(Ins)
      BY <2>2 DEF Takes
    <3> QED
      BY <1>1, <1>2, <3>1
  <2> QED
    BY <2>1, <2>2
<1>4. CASE Ins.op \in {"LD", "LSET"}
  <2>1. /\ Ins.depth \in Nat /\ Ins.depth < Len(env) /\ env[Ins.depth + 1] \in DOMAIN frames
        /\ Ins.index \in 1..Len(frames[env[Ins.depth + 1]])
    BY <1>1, <1>4, ScopeHere, NowIs
  <2>2. IsSequence(frames)
    BY NowIs DEF HeapOK
  <2>3. EnvAt(Ins.depth) = env[Ins.depth + 1] /\ EnvAt(Ins.depth) # 0
    BY <2>1, <2>2, SequenceIs DEF EnvAt
  <2>4. ~(Ins.index > Len(frames[EnvAt(Ins.depth)]))
    <3>1. IsSequence(frames[env[Ins.depth + 1]])
      BY <2>1, NowIs DEF HeapOK, AllOK
    <3>2. Len(frames[env[Ins.depth + 1]]) \in Nat
      BY <3>1, SequenceIs
    <3> QED
      BY <2>1, <2>3, <3>2
  <2>5. ~Op("JOIN")
    BY <1>4 DEF Op
  <2> QED
    BY <1>1, <1>3, <2>3, <2>4, <2>5 DEF Broken
<1>5. CASE Op("JOIN")
  <2>1. Ends(code[c], "JOIN")
    BY <1>1, <1>5 DEF Shaped, Op
  <2>2. ~Bottom(code[c])
    BY <2>1 DEF Bottom, Ends, EndsInJump, APP
  <2>3. dump # <<>>
    BY <2>2, NowIs, HereIs DEF Entered, Rests
  <2> QED
    BY <1>1, <1>3, <1>5, <2>3 DEF Broken, Op
<1> QED
  BY <1>1, <1>3, <1>4, <1>5 DEF Broken

-----------------------------------------------------------------------------
(* What a step leaves alone stays right.                                   *)

LEMMA GlobalsKept ==
    ASSUME WorldOK(Now), Grows(Now, Now'), GlobalsOK(Now), UNCHANGED <<cells, handler, winds>>
    PROVE  GlobalsOK(Now)'
BY ValueGrows, ThunksGrow DEF GlobalsOK

LEMMA OuterKept ==
    ASSUME WorldOK(Now), Grows(Now, Now'), OuterOK(Now), outer' = outer
    PROVE  OuterOK(Now)'
BY SuspendedGrows DEF OuterOK

LEMMA RunsOn ==
    ASSUME HeapOK(Now'), Stands(Now', dump', Here', Len(stack')), OperandsOK'
    PROVE  MachineOK'
<1>1. c' \in DOMAIN code' /\ IsSequence(code')
  BY HereIs, NextIs DEF Stands, Entered, Placed, HeapOK, CodeOK
<1>2. c' # 0
  BY <1>1, SequenceIs
<1> QED
  BY <1>2 DEF MachineOK

LEMMA OperandsAtStart ==
    ASSUME pc' = 0, AllOK(Now', stack')
    PROVE  OperandsOK'
BY DEF OperandsOK, Marked, AllOK

-----------------------------------------------------------------------------
(* The instructions that call nothing.                                     *)

\* The machine runs a block, entered at y.
Runs(y) ==
    /\ HeapOK(Now) /\ GlobalsOK(Now) /\ OuterOK(Now)
    /\ status = "run" /\ c # 0
    /\ IsSequence(dump) /\ Entered(Now, dump, Here, Len(stack), y) /\ OperandsOK

LEMMA Begins ==
    ASSUME Soundness, status = "run", c # 0
    PROVE  \E y : Runs(y)
BY DEF Soundness, MachineOK, Stands, Runs

\* Runs, with what it says of the instruction.
LEMMA Facts ==
    ASSUME NEW y, Runs(y)
    PROVE  /\ c \in DOMAIN code /\ pc \in Nat /\ pc < Len(code[c]) /\ Len(code[c]) \in Nat
           /\ pc + 1 \in 1..Len(code[c]) /\ Ins = code[c][pc + 1]
           /\ base \in Nat /\ y \in Nat /\ base <= y /\ Len(stack) \in Nat
           /\ Takes(Ins) \in Nat /\ Gives(Ins) \in {0, 1}
           /\ DepthAt(Now, Here) \in Nat /\ DepthAt(Now, Here) >= Takes(Ins)
           /\ Len(stack) >= y + DepthAt(Now, Here)
           /\ Shaped(code[c]) /\ Linked(code, templates, c) /\ ConstantsOK(Now, c)
           /\ Fits(Now, c, env) /\ IsSequence(code[c])
           /\ WorldOK(Now) /\ IsSequence(stack) /\ IsSequence(dump)
           /\ Placed(Now, Here, y) /\ Rests(Now, dump, Here, y)
BY Fetching, HeapIsWorld DEF Runs, OperandsOK, Entered

\* Only a call finds the scratch closure on the stack.
LEMMA Unmarked ==
    ASSUME NEW y, Runs(y), Ins.op \notin {"APP", "TAPP"}
    PROVE  ~Marked /\ AllOK(Now, stack)
<1>1. /\ pc \in Nat /\ pc < Len(code[c]) /\ Len(code[c]) \in Nat /\ Ins = code[c][pc + 1] /\ Shaped(code[c])
  BY Facts
<1>2. ~Marked
  <2>1. ASSUME pc # 0 PROVE pc \in 1..Len(code[c])
    BY <1>1, <2>1
  <2> QED
    BY <1>1, <2>1 DEF Marked, Shaped
<1> QED
  BY <1>2 DEF Runs, OperandsOK

\* The registers one instruction on.
LEMMA Onward ==
    ASSUME NEW y, Runs(y), HeapOK(Now'), Grows(Now, Now'), pc + 1 < Len(code[c]),
           c' = c, pc' = pc + 1, base' = base, env' = env, dump' = dump,
           Len(stack') \in Nat, Len(stack') >= Len(stack) - Takes(Ins) + Gives(Ins)
    PROVE  /\ Stands(Now', dump', Here', Len(stack'))
           /\ pc' # 0 /\ code'[c'][pc'] = Ins
<1> DEFINE q == Here'
<1>1. q.c = Here.c /\ q.pc = Here.pc + 1 /\ q.base = Here.base /\ q.env = Here.env
  BY HereIs
<1>2. WorldOK(Now) /\ Placed(Now, Here, y) /\ Rests(Now, dump, Here, y) /\ Ins = code[c][pc + 1] /\ IsSequence(dump)
  BY Facts
<1> HIDE DEF q
<1>3. /\ Placed(Now, q, y) /\ Rests(Now, dump, q, y)
      /\ DepthAt(Now, q) \in Nat /\ DepthAt(Now, q) = DepthAt(Now, Here) - Takes(Ins) + Gives(Ins)
      /\ code[q.c][q.pc] = Ins /\ q.pc # 0
  BY <1>1, <1>2, GoesOn, NowIs, HereIs
<1>4. Len(stack') >= y + DepthAt(Now, q)
  <2>1. /\ y \in Nat /\ Len(stack) \in Nat /\ Takes(Ins) \in Nat /\ Gives(Ins) \in {0, 1}
        /\ DepthAt(Now, Here) \in Nat /\ Len(stack) >= y + DepthAt(Now, Here)
    BY Facts
  <2> QED
    BY <1>3, <2>1
<1>5. Entered(Now, dump, q, Len(stack'), y)
  BY <1>3, <1>4 DEF Entered
<1>6. Stands(Now', dump, q, Len(stack'))
  BY <1>2, <1>5, StandsGrows DEF Stands
<1>7. code'[c] = code[c]
  BY <1>2, GrowsKeeps, Facts, NowIs, NextIs
<1>8. pc' # 0
  BY Facts
<1>9. code'[c'][pc'] = Ins
  BY <1>2, <1>7
<1> QED
  BY <1>6, <1>8, <1>9 DEF q

LEMMA Continues ==
    ASSUME NEW y, Runs(y), HeapOK(Now'), Grows(Now, Now'), pc + 1 < Len(code[c]),
           NEW s, Continue(s), Len(s) >= Len(stack) - Takes(Ins) + Gives(Ins), AllOK(Now', s), ~IsScratch(Ins),
           Ins.op = "LDC" => s # <<>> /\ Top(s) = Ins.val
    PROVE  MachineOK'
<1>1. /\ c' = c /\ pc' = pc + 1 /\ base' = base /\ env' = env /\ dump' = dump /\ stack' = s
      /\ Len(s) \in Nat
  BY SequenceIs DEF Continue, AllOK
<1>2. Stands(Now', dump', Here', Len(stack')) /\ pc' # 0 /\ code'[c'][pc'] = Ins
  BY <1>1, Onward
<1>3. OperandsOK'
  BY <1>1, <1>2 DEF OperandsOK, Marked, AllOK
<1> QED
  BY <1>2, <1>3, RunsOn

\* The heap as it is.
LEMMA SameHeap ==
    ASSUME HeapOK(Now), UNCHANGED heap
    PROVE  Now' = Now /\ HeapOK(Now') /\ Grows(Now, Now')
<1>1. Now' = Now
  BY DEF Now, heap, image
<1>2. Grows(Now, Now)
  BY HeapIsWorld, GrowsItself
<1> QED
  BY <1>1, <1>2

\* Parts of Soundness that a step within the machine keeps.
LEMMA Sound ==
    ASSUME Soundness, HeapOK(Now'), Grows(Now, Now'), MachineOK', UNCHANGED <<outer, cells, handler, winds>>
    PROVE  Soundness'
BY HeapIsWorld, GlobalsKept, OuterKept DEF Soundness

LEMMA LoadValueKeeps ==
    ASSUME Soundness, NEW y, Runs(y), LoadValue
    PROVE  Soundness'
<1>1. UNCHANGED heap /\ UNCHANGED <<outer, cells, handler, winds>>
  BY DEF LoadValue, Outside, wind
<1>2. HeapOK(Now) /\ GlobalsOK(Now) /\ HeapOK(Now') /\ Grows(Now, Now') /\ Now' = Now
  BY <1>1, SameHeap DEF Runs
<1>3. Ins.op \in {"LD", "LDC", "LDG", "LDF", "POP"}
  BY DEF LoadValue, Op
<1>4. AllOK(Now, stack) /\ pc + 1 < Len(code[c])
  BY <1>3, Unmarked, NotLast DEF Runs
<1>5. ASSUME NEW v, ValueOK(Now, v), Continue(Append(stack, v)), ~IsScratch(Ins), Takes(Ins) = 0, Gives(Ins) = 1,
             Ins.op = "LDC" => v = Ins.val
      PROVE  MachineOK'
  <2> DEFINE s == Append(stack, v)
  <2>1. AllOK(Now, s) /\ Len(s) = Len(stack) + 1 /\ Len(stack) \in Nat
    BY <1>4, <1>5, AllAppend
  <2>2. s # <<>> /\ Top(s) = v
    BY <1>4, PushPop DEF AllOK
  <2>3. Continue(s)
    BY <1>5
  <2> HIDE DEF s
  <2>4. Len(s) >= Len(stack) - Takes(Ins) + Gives(Ins)
    BY <1>5, <2>1
  <2> QED
    BY <1>2, <1>4, <1>5, <2>1, <2>2, <2>3, <2>4, Continues
<1>6. /\ Linked(code, templates, c) /\ Fits(Now, c, env) /\ Ins = code[c][pc + 1] /\ pc + 1 \in 1..Len(code[c])
      /\ ConstantsOK(Now, c)
  BY Facts
<1>7. ASSUME Op("LD") /\ Continue(Append(stack, frames[EnvAt(Ins.depth)][Ins.index]))
       PROVE  MachineOK'
  <2>1. /\ Ins.depth \in Nat /\ Ins.depth < Len(env) /\ env[Ins.depth + 1] \in DOMAIN frames
        /\ Ins.index \in 1..Len(frames[env[Ins.depth + 1]])
    BY <1>6, <1>7, ScopeHere, NowIs DEF Op
  <2>2. EnvAt(Ins.depth) = env[Ins.depth + 1]
    BY <2>1 DEF EnvAt
  <2>3. ValueOK(Now, frames[EnvAt(Ins.depth)][Ins.index])
    BY <1>2, <2>1, <2>2, NowIs DEF HeapOK, AllOK
  <2> QED
    BY <1>5, <1>7, <2>3 DEF Op, Takes, Needs, Gives, IsScratch
<1>8. ASSUME Op("LDC") /\ Continue(Append(stack, Ins.val))
       PROVE  MachineOK'
  <2>1. ValueOK(Now, Ins.val)
    BY <1>6, <1>8, NowIs DEF ConstantsOK, Op
  <2> QED
    BY <1>5, <1>8, <2>1 DEF Op, Takes, Needs, Gives, IsScratch
<1>9. ASSUME Op("LDG") /\ Continue(Append(stack, cells[Ins.cell]))
       PROVE  MachineOK'
  <2>1. Ins.cell \in Cells
    BY <1>6, <1>9 DEF Linked, Op
  <2>2. ValueOK(Now, cells[Ins.cell])
    BY <1>2, <2>1 DEF GlobalsOK
  <2> QED
    BY <1>5, <1>9, <2>2 DEF Op, Takes, Needs, Gives, IsScratch
<1>10. ASSUME Op("LDF") /\ ~Ins.scratch /\ Continue(Append(stack, Closure(Ins.tmpl, env)))
       PROVE  MachineOK'
  <2>1. ClosureOK(Now, Ins.tmpl, env)
    BY <1>6, <1>10, ScopeHere, NowIs DEF Op
  <2>2. ValueOK(Now, Closure(Ins.tmpl, env))
    BY <2>1 DEF ValueOK, Closure
  <2> QED
    BY <1>5, <1>10, <2>2 DEF Op, Takes, Needs, Gives, IsScratch
<1>11. ASSUME Op("POP") /\ Continue(Pop(stack))
       PROVE  MachineOK'
  <2>1. Takes(Ins) = 1 /\ Gives(Ins) = 0 /\ ~IsScratch(Ins) /\ Ins.op # "LDC"
    BY <1>11 DEF Op, Takes, Needs, Gives, IsScratch
  <2>2. Len(stack) > 0 /\ Len(stack) \in Nat
    BY <2>1, Facts
  <2>3. stack # <<>>
    BY <1>4, <2>2, SequenceNonEmpty DEF AllOK
  <2> DEFINE s == Pop(stack)
  <2>4. AllOK(Now, s) /\ Len(s) = Len(stack) - 1
    BY <1>4, <2>3, AllPop
  <2>5. Continue(s)
    BY <1>11
  <2> HIDE DEF s
  <2>6. Len(s) >= Len(stack) - Takes(Ins) + Gives(Ins)
    BY <2>1, <2>2, <2>4
  <2> QED
    BY <1>2, <1>4, <2>1, <2>4, <2>5, <2>6, Continues
<1>12. MachineOK'
  BY <1>7, <1>8, <1>9, <1>10, <1>11, Zenon DEF LoadValue
<1> QED
  BY <1>1, <1>2, <1>12, Sound

LEMMA LoadScratchKeeps ==
    ASSUME Soundness, NEW y, Runs(y), LoadScratch
    PROVE  Soundness'
<1>1. UNCHANGED heap /\ UNCHANGED <<outer, cells, handler, winds>>
  BY DEF LoadScratch, Outside, wind
<1>2. HeapOK(Now) /\ HeapOK(Now') /\ Grows(Now, Now') /\ Now' = Now
  BY <1>1, SameHeap DEF Runs
<1>3. Ins.op = "LDF" /\ Ins.scratch /\ scratch' = Closure(Ins.tmpl, env)
  BY DEF LoadScratch, Op
<1>4. AllOK(Now, stack) /\ pc + 1 < Len(code[c])
  BY <1>3, Unmarked, NotLast DEF Runs
<1>5. /\ Linked(code, templates, c) /\ Fits(Now, c, env) /\ Ins = code[c][pc + 1] /\ pc + 1 \in 1..Len(code[c])
  BY Facts
<1>6. ValueOK(Now, scratch') /\ scratch'.tag = "closure"
  <2>1. ClosureOK(Now, Ins.tmpl, env)
    BY <1>3, <1>5, ScopeHere, NowIs
  <2> QED
    BY <1>3, <2>1 DEF ValueOK, Closure
<1>7. c' = c /\ pc' = pc + 1 /\ base' = base /\ env' = env /\ dump' = dump /\ stack' = Append(stack, Scratch)
  BY DEF LoadScratch
<1>8. /\ IsSequence(stack') /\ Len(stack') = Len(stack) + 1 /\ Len(stack) \in Nat
      /\ stack' # <<>> /\ Top(stack') = Scratch /\ Pop(stack') = stack
  BY <1>4, <1>7, SequenceAppend, SequenceIs, PushPop DEF AllOK
<1>9. Takes(Ins) = 0 /\ Gives(Ins) = 1
  BY <1>3 DEF Takes, Needs, Gives
<1>10. Stands(Now', dump', Here', Len(stack')) /\ pc' # 0 /\ code'[c'][pc'] = Ins
  BY <1>2, <1>4, <1>7, <1>8, <1>9, Onward
<1>11. OperandsOK'
  BY <1>2, <1>3, <1>4, <1>6, <1>8, <1>10 DEF OperandsOK, Marked, IsScratch
<1>12. MachineOK'
  BY <1>2, <1>10, <1>11, RunsOn
<1> QED
  BY <1>1, <1>2, <1>12, Sound

LEMMA PackArgsKeeps ==
    ASSUME Soundness, NEW y, Runs(y), PackArgs
    PROVE  Soundness'
<1> DEFINE n  == Len(stack) - Ins.n
           s  == SubSeq(stack, 1, n)
           xs == Above(Pop(stack), n) \o Elems(Top(stack))
           t  == Append(s, NewList(xs, Nil))
<1>1. /\ Op("ARGS_AP") /\ Continue(t) /\ lists' = AddList(xs, Nil)
      /\ UNCHANGED <<frames, conts, image>> /\ UNCHANGED <<outer, cells, handler, winds>>
  BY DEF PackArgs, Others, wind
<1>2. /\ Ins = code[c][pc + 1] /\ pc + 1 \in 1..Len(code[c]) /\ Shaped(code[c]) /\ Len(stack) \in Nat
      /\ Takes(Ins) \in Nat /\ Len(stack) >= Takes(Ins)
  BY Facts
<1>3. Ins.n \in Nat \ {0} /\ Takes(Ins) = Ins.n /\ Gives(Ins) = 1 /\ Ins.op = "ARGS_AP"
  BY <1>1, <1>2 DEF Op, Shaped, Takes, Needs, Gives
<1>4. n \in Nat /\ n = Len(stack) - Ins.n /\ n < Len(stack)
  BY <1>2, <1>3
<1>5. HeapOK(Now) /\ AllOK(Now, stack) /\ pc + 1 < Len(code[c])
  BY <1>3, Unmarked, NotLast DEF Runs
<1> HIDE DEF n
<1>6. stack # <<>>
  BY <1>2, <1>4, <1>5, SequenceNonEmpty DEF AllOK
<1>7. AllOK(Now, Pop(stack)) /\ Len(Pop(stack)) = Len(stack) - 1 /\ ValueOK(Now, Top(stack))
  BY <1>5, <1>6, AllPop
<1>8. AllOK(Now, Above(Pop(stack), n)) /\ AllOK(Now, Elems(Top(stack)))
  <2>1. n <= Len(Pop(stack))
    BY <1>2, <1>4, <1>7
  <2> QED
    BY <1>4, <1>5, <1>7, <2>1, AllAbove, ElemsOK, NowIs
<1>9. AllOK(Now, xs)
  BY <1>8, AllConcat
<1>10. AllOK(Now, s) /\ Len(s) = n
  <2>1. AllOK(Now, s) /\ Len(s) = IF 1 <= n THEN n - 1 + 1 ELSE 0
    BY <1>2, <1>4, <1>5, AllSub
  <2> QED
    BY <1>4, <2>1
<1> HIDE DEF s, xs
<1>11. Grows(Now, Now') /\ HeapOK(Now') /\ ValueOK(Now', NewList(xs, Nil))
  <2>1. /\ Now'.code = Now.code /\ Now'.templates = Now.templates /\ Now'.frames = Now.frames /\ Now'.conts = Now.conts
        /\ Now'.lists = AddList(xs, Nil) /\ Now.lists = lists
    BY <1>1, NowIs, NextIs DEF image
  <2> DEFINE w2 == Now'
  <2> HIDE DEF w2
  <2>2. Grows(Now, w2) /\ HeapOK(w2) /\ ValueOK(w2, NewList(xs, Nil))
    BY <1>5, <1>9, <2>1, ListMade, PlainOK DEF w2
  <2> QED
    BY <2>2 DEF w2
<1>12. AllOK(Now', s)
  BY <1>5, <1>10, <1>11, AllGrows, HeapIsWorld
<1>13. AllOK(Now', t) /\ Len(t) = n + 1
  BY <1>10, <1>11, <1>12, AllAppend
<1> HIDE DEF t
<1>14. Len(t) >= Len(stack) - Takes(Ins) + Gives(Ins)
  BY <1>2, <1>3, <1>4, <1>13
<1>15. MachineOK'
  <2>1. ~IsScratch(Ins)
    BY <1>3 DEF IsScratch
  <2> QED
    BY <1>1, <1>3, <1>5, <1>11, <1>13, <1>14, <2>1, Continues
<1> QED
  BY <1>1, <1>11, <1>15, Sound

\* A block that RTN ends is not at the bottom, nor one that JOIN ends.
LEMMA NotBottom ==
    ASSUME NEW b, Ends(b, "RTN") \/ Ends(b, "JOIN")
    PROVE  ~Bottom(b)
BY DEF Bottom, Ends, EndsInJump, APP

\* The level that RTN or JOIN goes back to.
LEMMA Below ==
    ASSUME NEW y, Runs(y), Ends(code[c], "RTN") \/ Ends(code[c], "JOIN")
    PROVE  /\ dump # <<>>
           /\ \E x \in Nat : /\ Chained(Now, dump, x) /\ Links(Now, Top(dump), Here, x, y)
                             /\ Placed(Now, Top(dump), x) /\ Waiting(Now, Top(dump))
                             /\ DepthAt(Now, Top(dump)) \in Nat
<1>1. Rests(Now, dump, Here, y) /\ IsSequence(dump) /\ WorldOK(Now)
  BY Facts
<1>2. ~Bottom(code[c])
  BY NotBottom
<1>3. dump # <<>> /\ \E x \in Nat : Chained(Now, dump, x) /\ Links(Now, Top(dump), Here, x, y)
  BY <1>1, <1>2, NowIs, HereIs DEF Rests
<1>4. PICK x \in Nat : Chained(Now, dump, x) /\ Links(Now, Top(dump), Here, x, y)
  BY <1>3
<1>5. Placed(Now, Top(dump), x) /\ Waiting(Now, Top(dump))
  BY <1>1, <1>4, ChainTop
<1>6. DepthAt(Now, Top(dump)) \in Nat
  BY <1>1, <1>5, InBlock DEF Placed, DepthAt
<1> QED
  BY <1>3, <1>4, <1>5, <1>6

\* Where the last instruction called or branched, nothing is marked.
LEMMA OperandsAtWait ==
    ASSUME Waiting(Now', Here'), AllOK(Now', stack')
    PROVE  OperandsOK'
<1>1. code'[c'][pc'].op \in Calls \cup {"SEL"}
  BY HereIs, NextIs DEF Waiting
<1> QED
  BY <1>1 DEF OperandsOK, Marked, IsScratch, AllOK, Calls

\* The machine goes on with the registers d, saved in the dump.
LEMMA Restored ==
    ASSUME HeapOK(Now'), NEW d, Stands(Now', dump', d, Len(stack')), Waiting(Now', d), AllOK(Now', stack'),
           c' = d.c, pc' = d.pc, env' = d.env, base' = d.base
    PROVE  MachineOK'
<1> DEFINE q == Here'
<1>1. SameLevel(d, q)
  BY HereIs DEF SameLevel
<1> HIDE DEF q
<1>2. Stands(Now', dump', q, Len(stack')) /\ Waiting(Now', q)
  BY <1>1, StandsSame DEF SameLevel, Waiting
<1> QED
  BY <1>2, OperandsAtWait, RunsOn DEF q

\* RTN goes back to a caller. That the dump is empty, so that it would end
\* the run, does not happen: what the session runs ends with STOP.
LEMMA ReturnKeeps ==
    ASSUME Soundness, NEW y, Runs(y), Return
    PROVE  Soundness'
<1>1. Ins.op = "RTN" /\ UNCHANGED <<frames, lists, conts, cells, handler, winds>>
  BY DEF Return, Op, wind
<1>2. /\ Shaped(code[c]) /\ Ins = code[c][pc + 1] /\ pc + 1 \in 1..Len(code[c]) /\ base \in Nat
      /\ IsSequence(dump) /\ AllOK(Now, stack)
  BY <1>1, Facts, Unmarked
<1>3. Ends(code[c], "RTN")
  BY <1>1, <1>2 DEF Shaped, Leaving
<1>4. PICK x \in Nat : /\ Chained(Now, dump, x) /\ Links(Now, Top(dump), Here, x, y)
                       /\ Placed(Now, Top(dump), x) /\ Waiting(Now, Top(dump))
                       /\ DepthAt(Now, Top(dump)) \in Nat
  BY <1>3, Below
<1>5. dump # <<>>
  BY <1>3, Below
<1>6. /\ stack' = Append(Resize(stack, base), TopOrNil) /\ dump' = Pop(dump)
      /\ c' = Top(dump).c /\ pc' = Top(dump).pc /\ env' = Top(dump).env /\ base' = Top(dump).base
      /\ UNCHANGED image /\ outer' = outer
  BY <1>5 DEF Return
<1>7. UNCHANGED heap
  BY <1>1, <1>6 DEF heap, image
<1>8. HeapOK(Now) /\ Now' = Now /\ HeapOK(Now') /\ Grows(Now, Now')
  BY <1>7, SameHeap DEF Runs
<1>9. ValueOK(Now, TopOrNil)
  BY <1>2, AllPop, PlainOK DEF TopOrNil
<1>10. AllOK(Now, stack') /\ Len(stack') = base + 1
  <2> DEFINE r == Resize(stack, base)
  <2>1. stack' = Append(r, TopOrNil)
    BY <1>6
  <2>2. AllOK(Now, r) /\ Len(r) = base
    BY <1>2, AllResize
  <2> HIDE DEF r
  <2> QED
    BY <1>9, <2>1, <2>2, AllAppend
<1>11. base + 1 >= x + DepthAt(Now, Top(dump))
  BY <1>3, <1>4, NowIs, HereIs DEF Links
<1>12. Stands(Now, Pop(dump), Top(dump), Len(stack'))
  BY <1>2, <1>4, <1>10, <1>11, Resumes
<1>13. MachineOK'
  BY <1>4, <1>6, <1>8, <1>10, <1>12, Restored
<1> QED
  BY <1>1, <1>6, <1>8, <1>13, Sound

LEMMA JoinKeeps ==
    ASSUME Soundness, NEW y, Runs(y), Join
    PROVE  Soundness'
<1>1. /\ Ins.op = "JOIN" /\ c' = Top(dump).c /\ pc' = Top(dump).pc /\ dump' = Pop(dump)
      /\ UNCHANGED <<stack, base, env>> /\ UNCHANGED heap /\ UNCHANGED <<outer, cells, handler, winds>>
  BY DEF Join, Op, Outside, wind
<1>2. /\ Shaped(code[c]) /\ Ins = code[c][pc + 1] /\ pc + 1 \in 1..Len(code[c]) /\ base \in Nat
      /\ IsSequence(dump) /\ AllOK(Now, stack) /\ Len(stack) \in Nat /\ y \in Nat
      /\ DepthAt(Now, Here) \in Nat /\ DepthAt(Now, Here) >= Takes(Ins) /\ Len(stack) >= y + DepthAt(Now, Here)
  BY <1>1, Facts, Unmarked
<1>3. Ends(code[c], "JOIN") /\ Takes(Ins) = 1
  BY <1>1, <1>2 DEF Shaped, Takes
<1>4. PICK x \in Nat : /\ Chained(Now, dump, x) /\ Links(Now, Top(dump), Here, x, y)
                       /\ Placed(Now, Top(dump), x) /\ Waiting(Now, Top(dump))
                       /\ DepthAt(Now, Top(dump)) \in Nat
  BY <1>3, Below
<1>5. HeapOK(Now) /\ Now' = Now /\ HeapOK(Now') /\ Grows(Now, Now')
  BY <1>1, SameHeap DEF Runs
<1>6. y + 1 >= x + DepthAt(Now, Top(dump)) /\ Top(dump).base = base /\ Top(dump).env = env
  BY <1>3, <1>4, NowIs, HereIs DEF Links
<1>7. Len(stack) >= x + DepthAt(Now, Top(dump))
  BY <1>2, <1>3, <1>4, <1>6
<1>8. Stands(Now, Pop(dump), Top(dump), Len(stack))
  BY <1>2, <1>4, <1>7, Resumes
<1>9. MachineOK'
  BY <1>1, <1>2, <1>4, <1>5, <1>6, <1>8, Restored
<1> QED
  BY <1>1, <1>5, <1>9, Sound

\* A block entered with the registers of now, above the operands of now.
LEMMA SelectKeeps ==
    ASSUME Soundness, NEW y, Runs(y), Select
    PROVE  Soundness'
<1> DEFINE target == IF IsTrue(Top(stack)) THEN Ins.onTrue ELSE Ins.onFalse
           saved  == [c |-> c, pc |-> pc + 1, env |-> env, base |-> base]
           n      == Len(stack) - 1
           q      == Here'
<1>1. /\ Ins.op \in {"SEL", "SELR"} /\ c' = target /\ pc' = 0 /\ stack' = Pop(stack)
      /\ UNCHANGED <<base, env>> /\ UNCHANGED heap /\ UNCHANGED <<outer, cells, handler, winds>>
      /\ Ins.op = "SEL"  => dump' = Append(dump, saved)
      /\ Ins.op = "SELR" => dump' = dump
  BY DEF Select, Op, Outside, wind
<1>2. /\ Shaped(code[c]) /\ Ins = code[c][pc + 1] /\ pc + 1 \in 1..Len(code[c]) /\ base \in Nat /\ base <= y
      /\ IsSequence(dump) /\ AllOK(Now, stack) /\ Len(stack) \in Nat /\ y \in Nat
      /\ DepthAt(Now, Here) \in Nat /\ DepthAt(Now, Here) >= Takes(Ins) /\ Len(stack) >= y + DepthAt(Now, Here)
      /\ Linked(code, templates, c) /\ Fits(Now, c, env) /\ WorldOK(Now)
      /\ Placed(Now, Here, y) /\ Rests(Now, dump, Here, y)
  BY <1>1, Facts, Unmarked
<1>3. Takes(Ins) = 1 /\ Gives(Ins) = IF Ins.op = "SEL" THEN 1 ELSE 0
  BY <1>1 DEF Takes, Needs, Gives
<1>4. n \in Nat /\ n >= y /\ n + 1 = Len(stack)
  BY <1>2, <1>3
<1>5. pc + 1 < Len(code[c])
  BY <1>1, NotLast DEF Runs
<1>6. HeapOK(Now) /\ Now' = Now /\ HeapOK(Now') /\ Grows(Now, Now')
  BY <1>1, SameHeap DEF Runs
<1>7. AllOK(Now, stack') /\ Len(stack') = n
  <2>1. stack # <<>>
    BY <1>2, <1>3, SequenceNonEmpty DEF AllOK
  <2> QED
    BY <1>1, <1>2, <2>1, AllPop
<1>8. /\ target \in DOMAIN code /\ Fits(Now, target, env)
      /\ Ins.op = "SEL" => Ends(code[target], "JOIN")
      /\ Ins.op = "SELR" => Ends(code[target], "RTN")
  <2>1. target \in {Ins.onTrue, Ins.onFalse}
    OBVIOUS
  <2> HIDE DEF target
  <2>2. /\ target \in DOMAIN code
        /\ Ins.op = "SEL" => Ends(code[target], "JOIN")
        /\ Ins.op = "SELR" => Ends(code[target], "RTN")
    BY <1>1, <1>2, <2>1 DEF Linked
  <2>3. Fits(Now, Ins.onTrue, env) /\ Fits(Now, Ins.onFalse, env)
    BY <1>1, <1>2, ScopeHere, NowIs
  <2> QED
    BY <2>1, <2>2, <2>3
<1>9. q.c = target /\ q.pc = 0 /\ q.base = base /\ q.env = env
  BY <1>1, HereIs
<1> HIDE DEF q, target, n
<1>10. Placed(Now, q, n) /\ DepthAt(Now, q) = 0
  <2>1. DepthAt(Now, q) = 0 /\ q.pc \in Nat /\ q.pc < Len(code[q.c])
    BY <1>2, <1>8, <1>9, AtStart, NowIs
  <2> QED
    BY <1>2, <1>4, <1>8, <1>9, <2>1, NowIs DEF Placed
<1>11. IsSequence(dump') /\ Rests(Now, dump', q, n)
  <2>1. CASE Ins.op = "SEL"
    <3>1. saved.c = Here.c /\ saved.pc = Here.pc + 1 /\ saved.base = Here.base /\ saved.env = Here.env
      BY HereIs
    <3>2. saved.base = base /\ saved.env = env
      OBVIOUS
    <3> HIDE DEF saved
    <3>3. /\ Placed(Now, saved, y) /\ Rests(Now, dump, saved, y) /\ Waiting(Now, saved)
          /\ DepthAt(Now, saved) \in Nat /\ DepthAt(Now, saved) = DepthAt(Now, Here) - Takes(Ins) + Gives(Ins)
      BY <1>2, <1>5, <2>1, <3>1, GoesOn, NowIs, HereIs, SMTT(30)
    <3>4. Chained(Now, dump', y)
      BY <1>1, <1>2, <2>1, <3>3, Pushed
    <3>5. IsSequence(dump') /\ dump' # <<>> /\ Top(dump') = saved
      <4>1. dump' = Append(dump, saved)
        BY <1>1, <2>1
      <4>2. IsSequence(Append(dump, saved)) /\ Append(dump, saved) # <<>> /\ Top(Append(dump, saved)) = saved
        BY <1>2, SequenceAppend, PushPop
      <4> QED
        BY <4>1, <4>2
    <3>6. Links(Now, Top(dump'), q, y, n)
      <4>1. n + 1 >= y + DepthAt(Now, saved)
        BY <1>2, <1>3, <1>4, <2>1, <3>3
      <4>2. ~Ends(code[q.c], "RTN")
        BY <1>8, <1>9, <2>1 DEF Ends
      <4> QED
        BY <1>9, <3>2, <3>5, <4>1, <4>2, NowIs DEF Links
    <3> QED
      BY <1>2, <3>4, <3>5, <3>6 DEF Rests
  <2>2. CASE Ins.op = "SELR"
    <3>1. Ends(code[c], "RTN")
      BY <1>2, <2>2 DEF Shaped, Leaving
    <3>2. PICK x \in Nat : Chained(Now, dump, x) /\ Links(Now, Top(dump), Here, x, y)
      BY <3>1, Below
    <3>3. dump # <<>> /\ dump' = dump
      BY <1>1, <2>2, <3>1, Below
    <3>4. ~Ends(code[q.c], "JOIN")
      BY <1>8, <1>9, <2>2 DEF Ends
    <3>5. Links(Now, Top(dump), q, x, n)
      BY <1>9, <3>1, <3>2, <3>4, NowIs, HereIs DEF Links
    <3> QED
      BY <1>2, <3>2, <3>3, <3>5 DEF Rests
  <2> QED
    BY <1>1, <2>1, <2>2
<1>12. Stands(Now, dump', q, n)
  BY <1>4, <1>10, <1>11 DEF Stands, Entered
<1>13. OperandsOK'
  BY <1>1, <1>6, <1>7, OperandsAtStart
<1>14. MachineOK'
  BY <1>6, <1>7, <1>12, <1>13, RunsOn DEF q
<1> QED
  BY <1>1, <1>6, <1>14, Sound

LEMMA DefineKeeps ==
    ASSUME Soundness, NEW y, Runs(y), Define
    PROVE  Soundness'
<1> DEFINE s == Append(Pop(stack), Const(Ins.cell))
<1>1. /\ Ins.op = "DEF" /\ cells' = [cells EXCEPT ![Ins.cell] = Top(stack)] /\ Continue(s)
      /\ UNCHANGED heap /\ UNCHANGED <<outer, handler, winds>>
  BY DEF Define, Op, wind
<1>2. /\ Ins = code[c][pc + 1] /\ pc + 1 \in 1..Len(code[c]) /\ Linked(code, templates, c)
      /\ AllOK(Now, stack) /\ Len(stack) \in Nat /\ Len(stack) >= Takes(Ins)
  BY <1>1, Facts, Unmarked
<1>3. Takes(Ins) = 1 /\ Gives(Ins) = 1 /\ ~IsScratch(Ins)
  BY <1>1 DEF Takes, Needs, Gives, IsScratch
<1>4. stack # <<>>
  BY <1>2, <1>3, SequenceNonEmpty DEF AllOK
<1>5. AllOK(Now, Pop(stack)) /\ Len(Pop(stack)) = Len(stack) - 1 /\ ValueOK(Now, Top(stack))
  BY <1>2, <1>4, AllPop
<1>6. AllOK(Now, s) /\ Len(s) = Len(stack)
  <2>1. AllOK(Now, s) /\ Len(s) = Len(Pop(stack)) + 1
    BY <1>5, PlainOK, AllAppend
  <2> QED
    BY <1>2, <1>5, <2>1
<1>7. HeapOK(Now) /\ Now' = Now /\ HeapOK(Now') /\ Grows(Now, Now')
  BY <1>1, SameHeap DEF Runs
<1>8. pc + 1 < Len(code[c])
  BY <1>1, NotLast DEF Runs
<1> HIDE DEF s
<1>9. MachineOK'
  <2>1. Len(s) >= Len(stack) - Takes(Ins) + Gives(Ins)
    BY <1>2, <1>3, <1>6
  <2> QED
    BY <1>1, <1>3, <1>6, <1>7, <1>8, <2>1, Continues
<1>10. GlobalsOK(Now)'
  <2>1. GlobalsOK(Now)
    BY DEF Runs
  <2>2. DOMAIN cells' = Cells /\ \A x \in Cells : cells'[x] = cells[x] \/ cells'[x] = Top(stack)
    BY <1>1, <2>1 DEF GlobalsOK
  <2> QED
    BY <1>1, <1>5, <1>7, <2>1, <2>2 DEF GlobalsOK
<1>11. OuterOK(Now)'
  BY <1>1, <1>7, OuterKept, HeapIsWorld DEF Runs
<1> QED
  BY <1>7, <1>9, <1>10, <1>11 DEF Soundness

LEMMA AssignKeeps ==
    ASSUME Soundness, NEW y, Runs(y), Assign
    PROVE  Soundness'
<1>1. /\ Ins.op \in {"GSET", "LSET"} /\ Continue(stack)
      /\ UNCHANGED <<lists, conts, image>> /\ UNCHANGED <<outer, handler, winds>>
  BY DEF Assign, Op, wind
<1>2. /\ Ins = code[c][pc + 1] /\ pc + 1 \in 1..Len(code[c]) /\ Linked(code, templates, c) /\ Fits(Now, c, env)
      /\ AllOK(Now, stack) /\ Len(stack) \in Nat /\ Len(stack) >= Takes(Ins)
  BY <1>1, Facts, Unmarked
<1>3. Takes(Ins) = 1 /\ Gives(Ins) = 1 /\ ~IsScratch(Ins)
  BY <1>1 DEF Takes, Needs, Gives, IsScratch
<1>4. stack # <<>>
  BY <1>2, <1>3, SequenceNonEmpty DEF AllOK
<1>5. ValueOK(Now, Top(stack))
  BY <1>2, <1>4, AllPop
<1>6. pc + 1 < Len(code[c])
  BY <1>1, NotLast DEF Runs
<1>7. HeapOK(Now) /\ GlobalsOK(Now)
  BY DEF Runs
<1>8. HeapOK(Now') /\ Grows(Now, Now') /\ GlobalsOK(Now)'
  <2>1. CASE Ins.op = "GSET"
    <3>1. cells' = [cells EXCEPT ![Ins.cell] = Top(stack)] /\ UNCHANGED heap
      BY <1>1, <2>1 DEF Assign, Op, heap
    <3>2. Now' = Now /\ HeapOK(Now') /\ Grows(Now, Now')
      BY <1>7, <3>1, SameHeap
    <3>3. DOMAIN cells' = Cells /\ \A x \in Cells : cells'[x] = cells[x] \/ cells'[x] = Top(stack)
      BY <1>7, <3>1 DEF GlobalsOK
    <3> QED
      BY <1>1, <1>5, <1>7, <3>2, <3>3 DEF GlobalsOK
  <2>2. CASE Ins.op = "LSET"
    <3>1. frames' = [frames EXCEPT ![EnvAt(Ins.depth)][Ins.index] = Top(stack)] /\ UNCHANGED cells
      BY <2>2 DEF Assign, Op
    <3> DEFINE a == EnvAt(Ins.depth)
    <3>2. /\ Ins.depth \in Nat /\ Ins.depth < Len(env) /\ env[Ins.depth + 1] \in DOMAIN frames
          /\ Ins.index \in 1..Len(frames[env[Ins.depth + 1]])
      BY <1>2, <2>2, ScopeHere, NowIs
    <3>3. a \in DOMAIN frames /\ Ins.index \in 1..Len(frames[a])
      BY <3>2 DEF EnvAt
    <3> HIDE DEF a
    <3>4. /\ Now'.code = Now.code /\ Now'.templates = Now.templates /\ Now'.conts = Now.conts
          /\ Now'.lists = Now.lists /\ Now'.frames = [Now.frames EXCEPT ![a][Ins.index] = Top(stack)]
          /\ a \in DOMAIN Now.frames /\ Ins.index \in 1..Len(Now.frames[a])
      BY <1>1, <3>1, <3>3, NowIs, NextIs DEF image, a
    <3> DEFINE w2 == Now'
               i  == Ins.index
    <3> HIDE DEF w2, i
    <3>5. Grows(Now, w2) /\ HeapOK(w2)
      BY <1>5, <1>7, <3>4, SlotAssigned DEF w2, i
    <3>6. Grows(Now, Now') /\ HeapOK(Now')
      BY <3>5 DEF w2
    <3>7. UNCHANGED <<cells, handler, winds>>
      BY <1>1, <3>1
    <3> QED
      BY <1>7, <3>6, <3>7, GlobalsKept, HeapIsWorld
  <2> QED
    BY <1>1, <2>1, <2>2
<1>9. AllOK(Now', stack)
  BY <1>2, <1>7, <1>8, AllGrows, HeapIsWorld
<1>10. MachineOK'
  <2>1. Len(stack) >= Len(stack) - Takes(Ins) + Gives(Ins) /\ Ins.op # "LDC"
    BY <1>1, <1>2, <1>3
  <2> QED
    BY <1>1, <1>3, <1>6, <1>8, <1>9, <2>1, Continues
<1>11. OuterOK(Now)'
  BY <1>1, <1>7, <1>8, OuterKept, HeapIsWorld DEF Runs
<1> QED
  BY <1>8, <1>10, <1>11 DEF Soundness

-----------------------------------------------------------------------------
(* Errors, and the session.                                                *)

\* Nothing runs, and nothing is suspended.
LEMMA RunsNothing ==
    ASSUME Soundness, UNCHANGED <<heap, cells, handler, winds>>, outer' = <<>> \/ outer' = outer, status' # "run"
    PROVE  Soundness'
<1>1. HeapOK(Now') /\ Grows(Now, Now')
  BY SameHeap DEF Soundness
<1>2. GlobalsOK(Now)'
  BY <1>1, GlobalsKept, HeapIsWorld DEF Soundness
<1>3. OuterOK(Now)'
  <2>1. CASE outer' = <<>>
    BY <2>1, EmptyOK DEF OuterOK
  <2>2. CASE outer' = outer
    BY <1>1, <2>2, OuterKept, HeapIsWorld DEF Soundness
  <2> QED
    BY <2>1, <2>2
<1>4. MachineOK'
  BY DEF MachineOK
<1> QED
  BY <1>1, <1>2, <1>3, <1>4 DEF Soundness

LEMMA EmptyFits ==
    ASSUME NEW w
    PROVE  EnvFits(w, <<>>, <<>>)
<1>1. IsSequence(<<>>) /\ Len(<<>>) = 0 /\ <<>> \in Seq(Nat)
  BY EmptyOK
<1> QED
  BY <1>1 DEF EnvFits

\* A machine that starts with a block that needs no frame and goes back
\* nowhere.
LEMMA StartsAfresh ==
    ASSUME HeapOK(Now'), c' \in DOMAIN code', Fits(Now', c', <<>>), Ends(code'[c'], "STOP"),
           stack' = <<>>, base' = 0, env' = <<>>, pc' = 0, IsSequence(dump')
    PROVE  MachineOK'
<1> DEFINE w2 == Now'
           q  == Here'
<1>1. /\ q.c = c' /\ q.pc = 0 /\ q.base = 0 /\ q.env = <<>> /\ w2.code = code'
      /\ HeapOK(w2) /\ WorldOK(w2) /\ Fits(w2, c', <<>>)
  BY HereIs, NextIs, HeapIsWorld
<1> HIDE DEF w2, q
<1>2. DepthAt(w2, q) = 0 /\ q.pc < Len(w2.code[q.c])
  BY <1>1, AtStart
<1>3. Placed(w2, q, 0)
  BY <1>1, <1>2 DEF Placed
<1>4. Rests(w2, dump', q, 0)
  BY <1>1 DEF Rests, Bottom
<1>5. Stands(w2, dump', q, 0)
  BY <1>2, <1>3, <1>4 DEF Stands, Entered
<1>6. Len(stack') = 0 /\ AllOK(w2, stack')
  BY EmptyOK
<1>7. OperandsOK'
  BY <1>6, OperandsAtStart DEF w2
<1> QED
  BY <1>1, <1>5, <1>6, <1>7, RunsOn DEF w2, q

\* abandon_to_raise.
LEMMA AbandonKeeps ==
    ASSUME Soundness, status = "run", NEW msg, Abandon(msg),
           UNCHANGED <<frames, lists, conts, templates, cells, handler, winds>>
    PROVE  Soundness'
<1> DEFINE h  == cells["raise"]
           v  == ErrorObject(msg)
           b  == <<LDC(v), LDC(h), APP(1), [op |-> "STOP"]>>
           n  == Len(code) + 1
           w2 == Now'
<1>1. HeapOK(Now) /\ GlobalsOK(Now) /\ OuterOK(Now)
  BY DEF Soundness
<1>2. /\ code' = Append(code, b) /\ c' = n /\ pc' = 0 /\ stack' = <<>> /\ base' = 0 /\ env' = <<>>
      /\ outer' = <<>> /\ (dump' = dump \/ (outer # <<>> /\ dump' = outer[1].dump))
  BY DEF Abandon, NewCode
<1>3. ValueOK(Now, h) /\ ValueOK(Now, v)
  BY <1>1, PlainOK DEF GlobalsOK
<1>4. b = <<LDC(v), LDC(h), APP(1), [op |-> "STOP"]>>
  OBVIOUS
<1> HIDE DEF h, v, b, w2
<1>5. /\ Alone(b) /\ Ends(b, "STOP")
      /\ \A p \in 1..Len(b) : b[p].op = "LDC" => ValueOK(Now, b[p].val)
  <2>1. /\ Alone(b) /\ Ends(b, "STOP") /\ Len(b) = 4
        /\ \A p \in 1..Len(b) : b[p].op = "LDC" => b[p].val \in {v, h}
    BY <1>4, AbandonCode
  <2> QED
    BY <1>3, <2>1
<1>6. /\ Now.code = code /\ w2.code = Append(Now.code, b)
      /\ w2.templates = Now.templates /\ w2.frames = Now.frames /\ w2.conts = Now.conts /\ w2.lists = Now.lists
      /\ w2.code = code'
  BY <1>2, NowIs, NextIs DEF w2
<1>7. /\ Grows(Now, w2) /\ HeapOK(w2)
      /\ n \in DOMAIN code' /\ code'[n] = b
      /\ \A e, sh : EnvFits(Now, e, sh) => Fits(w2, n, e)
  <2>1. /\ Grows(Now, w2) /\ HeapOK(w2)
        /\ Len(Now.code) + 1 \in DOMAIN w2.code /\ w2.code[Len(Now.code) + 1] = b
        /\ \A e, sh : EnvFits(Now, e, sh) => Fits(w2, Len(Now.code) + 1, e)
    <3>1. \A p \in 1..Len(b) : b[p].op = "LDC" => ValueOK(Now, b[p].val)
      BY <1>5
    <3> QED
      BY <1>1, <1>5, <1>6, <3>1, MoreCode
  <2> QED
    BY <1>6, <2>1
<1>8. Fits(w2, n, <<>>)
  BY <1>7, EmptyFits
<1>9. IsSequence(dump')
  <2>1. CASE dump' = dump
    BY <2>1, EmptyOK DEF Soundness, MachineOK, Stands
  <2>2. CASE outer # <<>> /\ dump' = outer[1].dump
    <3>1. 1 \in 1..Len(outer)
      BY <1>1, <2>2, SequenceNonEmpty, SequenceIs DEF OuterOK
    <3> QED
      BY <1>1, <2>2, <3>1 DEF OuterOK, SuspendedOK, Stands
  <2> QED
    BY <1>2, <2>1, <2>2
<1>10. MachineOK'
  BY <1>2, <1>5, <1>7, <1>8, <1>9, StartsAfresh DEF w2
<1>11. GlobalsOK(Now)'
  BY <1>1, <1>7, GlobalsKept, HeapIsWorld DEF w2
<1>12. OuterOK(Now)'
  BY <1>2, EmptyOK DEF OuterOK
<1> QED
  BY <1>7, <1>10, <1>11, <1>12 DEF Soundness, w2

LEMMA FailKeeps ==
    ASSUME Soundness, status = "run", NEW e, Fail(e)
    PROVE  Soundness'
<1>1. UNCHANGED <<frames, lists, conts, templates, cells, handler, winds>>
  BY DEF Fail, wind
<1>2. CASE \E msg : Die(msg)
  <2>1. /\ outer' = <<>> /\ UNCHANGED code /\ status' # "run"
    BY <1>2 DEF Die
  <2> QED
    BY <1>1, <2>1, RunsNothing DEF heap, image
<1>3. CASE \E msg : Abandon(msg)
  BY <1>1, <1>3, AbandonKeeps
<1> QED
  BY <1>2, <1>3 DEF Fail

\* compile_top: a form that does not compile leaves a machine with nothing
\* on its stack.
LEMMA FormStarts ==
    ASSUME CompilerIsSound, HeapOK(Mid), NEW e \in FormsRead, EvalTop(e), UNCHANGED <<frames, lists>>
    PROVE  HeapOK(Now') /\ Grows(Mid, Now') /\ MachineOK'
<1> DEFINE r  == CompileTop(e, code, templates)
           w2 == Now'
<1>1. /\ stack' = <<>> /\ base' = 0 /\ env' = <<>> /\ pc' = 0 /\ dump' = <<>>
      /\ c' = r.id /\ code' = r.code /\ templates' = r.templates
  BY DEF EvalTop, EmptyMachine, Compiled
<1>2. Adds(r, code, templates, "STOP", {})
  BY MidIs DEF CompilerIsSound, HeapOK, CodeOK
<1>3. /\ w2.code = r.code /\ w2.templates = r.templates /\ w2.frames = Mid.frames /\ w2.lists = Mid.lists
      /\ w2.conts = Mid.conts /\ w2.code = code' /\ Mid.code = code /\ Mid.templates = templates
  BY <1>1, MidIs, NextIs
<1> HIDE DEF r, w2
<1>4. CASE r.id = 0
  <2>0. r.code = code /\ r.templates = templates
    <3>1. IsSequence(code)
      BY MidIs DEF HeapOK, CodeOK
    <3>2. ~(r.id \in Len(code) + 1..Len(r.code))
      BY <1>4, <3>1, SequenceIs
    <3> QED
      BY <1>2, <3>2 DEF Adds
  <2>1. w2 = Mid
    BY <1>1, <2>0 DEF w2, Now, Mid
  <2>2. MachineOK'
    BY <1>1, <1>4 DEF MachineOK
  <2> QED
    BY <2>1, <2>2, GrowsItself, HeapIsWorld DEF w2
<1>5. CASE r.id # 0
  <2>1. /\ Grows(Mid, w2) /\ HeapOK(w2) /\ r.id \in DOMAIN code'
        /\ Ends(code'[r.id], "STOP") /\ Fits(w2, r.id, <<>>)
    <3> DEFINE given == {}
               end   == "STOP"
    <3>1. Adds(r, Mid.code, Mid.templates, end, given) /\ \A v \in given : ValueOK(Mid, v)
      BY <1>2, <1>3
    <3> HIDE DEF given, end
    <3>2. /\ Grows(Mid, w2) /\ HeapOK(w2)
          /\ r.id \in DOMAIN w2.code /\ r.id \in Nat
          /\ Ends(w2.code[r.id], end) /\ Fits(w2, r.id, <<>>)
      BY <1>3, <1>5, <3>1, MoreBlocks
    <3> QED
      BY <1>3, <3>2 DEF end
  <2>2. IsSequence(dump')
    BY <1>1, EmptyOK
  <2> QED
    BY <1>1, <2>1, <2>2, StartsAfresh DEF w2
<1> QED
  BY <1>4, <1>5

\* A load: what is in a file is read.
LEMMA FileForm ==
    ASSUME NEW f \in DOMAIN Files, NEW i \in Nat \ {0}, i <= Len(Files[f].forms)
    PROVE  Files[f].forms[i] \in FormsRead
<1>1. i \in DOMAIN Files[f].forms
  BY ProgramAssumption, SequenceIs
<1> QED
  BY <1>1 DEF FormsRead

LEMMA InputForm ==
    ASSUME input \in Nat \ {0}, form \in Nat \ {0}, input <= Len(Program), form <= Len(Program[input])
    PROVE  Program[input][form] \in FormsRead
<1>1. input \in DOMAIN Program
  BY ProgramAssumption, SequenceIs
<1>2. form \in DOMAIN Program[input]
  BY <1>1, ProgramAssumption, SequenceIs
<1> QED
  BY <1>1, <1>2 DEF FormsRead

\* A suspended machine whose file has a form more behind it.
LEMMA NextForm ==
    ASSUME NEW w, NEW o, SuspendedOK(w, o), NEW p, p = [o EXCEPT !.next = @ + 1]
    PROVE  SuspendedOK(w, p)
<1>1. /\ p.stack = o.stack /\ p.base = o.base /\ p.env = o.env /\ p.c = o.c /\ p.pc = o.pc
      /\ p.dump = o.dump /\ p.argp = o.argp /\ p.file = o.file /\ p.next = o.next + 1
      /\ DOMAIN p = DOMAIN o
  BY DEF SuspendedOK
<1>2. Stands(w, p.dump, p, p.argp + 1) /\ Waiting(w, p)
  BY <1>1, StandsSame DEF SuspendedOK, SameLevel, Waiting
<1>3. p.next \in Nat \ {0}
  BY <1>1 DEF SuspendedOK
<1> QED
  BY <1>1, <1>2, <1>3 DEF SuspendedOK

LEMMA FinishKeeps ==
    ASSUME CompilerIsSound, Soundness, NEW v, ValueOK(Now, v), Finish(v),
           UNCHANGED <<frames, lists, conts, cells, handler, winds>>
    PROVE  Soundness'
<1>1. HeapOK(Now) /\ GlobalsOK(Now) /\ OuterOK(Now) /\ WorldOK(Now)
  BY HeapIsWorld DEF Soundness
<1>2. CASE outer = <<>>
  <2>1. status' # "run" /\ UNCHANGED image /\ UNCHANGED outer
    BY <1>2 DEF Finish, machine
  <2> QED
    BY <2>1, RunsNothing DEF heap
<1>3. CASE outer # <<>>
  <2> DEFINE o == Top(outer)
  <2>1. Len(outer) \in Nat /\ Len(outer) \in 1..Len(outer) /\ o = outer[Len(outer)] /\ IsSequence(outer)
    BY <1>1, <1>3, SequenceNonEmpty, SequenceIs DEF OuterOK, Top
  <2>2. SuspendedOK(Now, o)
    BY <1>1, <2>1 DEF OuterOK
  <2>3. CASE o.next <= Len(Files[o.file].forms)
    <3>1. /\ EvalTop(Files[o.file].forms[o.next])
          /\ outer' = [outer EXCEPT ![Len(outer)].next = @ + 1]
      BY <1>3, <2>3 DEF Finish
    <3>2. Files[o.file].forms[o.next] \in FormsRead
      BY <2>2, <2>3, FileForm DEF SuspendedOK
    <3>3. HeapOK(Now') /\ Grows(Now, Now') /\ MachineOK'
      BY <1>1, <3>1, <3>2, MidIs, FormStarts
    <3>4. GlobalsOK(Now)'
      BY <1>1, <3>3, GlobalsKept
    <3>5. OuterOK(Now)'
      <4> DEFINE p == [o EXCEPT !.next = @ + 1]
                 n == Len(outer)
      <4>1. outer' = [outer EXCEPT ![n] = p]
        BY <2>1, <3>1
      <4>2. SuspendedOK(Now, p)
        BY <2>2, NextForm
      <4>3. n \in 1..Len(outer)
        BY <2>1
      <4> HIDE DEF o, p, n
      <4>4. /\ IsSequence(outer') /\ Len(outer') = Len(outer)
            /\ \A i \in 1..Len(outer) : outer'[i] = IF i = n THEN p ELSE outer[i]
        <5> DEFINE t == outer'
                   s == outer
        <5>1. IsSequence(s) /\ n \in 1..Len(s) /\ t = Updated(s, n, p)
          BY <2>1, <4>1, <4>3 DEF Updated
        <5> HIDE DEF t, s
        <5>2. IsSequence(t) /\ Len(t) = Len(s) /\ \A i \in 1..Len(s) : t[i] = IF i = n THEN p ELSE s[i]
          BY <5>1, SequenceUpdated
        <5> QED
          BY <5>2 DEF t, s
      <4>5. \A i \in 1..Len(outer') : SuspendedOK(Now, outer'[i])
        BY <1>1, <4>2, <4>4 DEF OuterOK
      <4> QED
        BY <1>1, <3>3, <4>4, <4>5, SuspendedGrows DEF OuterOK
    <3> QED
      BY <3>3, <3>4, <3>5 DEF Soundness
  <2>4. CASE ~(o.next <= Len(Files[o.file].forms))
    <3>1. /\ outer' = Pop(outer) /\ stack' = Append(Resize(o.stack, o.argp), v)
          /\ base' = o.base /\ env' = o.env /\ c' = o.c /\ pc' = o.pc /\ dump' = o.dump
          /\ UNCHANGED image
      BY <1>3, <2>4 DEF Finish
    <3>2. Now' = Now /\ HeapOK(Now') /\ Grows(Now, Now')
      BY <1>1, <3>1, SameHeap DEF heap
    <3> HIDE DEF o
    <3>3. AllOK(Now, o.stack) /\ o.argp \in Nat /\ Stands(Now, o.dump, o, o.argp + 1) /\ Waiting(Now, o)
      BY <2>2, SequenceIs DEF SuspendedOK, AllOK
    <3>4. AllOK(Now, stack') /\ Len(stack') = o.argp + 1
      <4> DEFINE r == Resize(o.stack, o.argp)
      <4>1. stack' = Append(r, v)
        BY <3>1
      <4>2. AllOK(Now, r) /\ Len(r) = o.argp
        BY <3>3, AllResize
      <4> HIDE DEF r
      <4> QED
        BY <4>1, <4>2, AllAppend
    <3>5. MachineOK'
      BY <3>1, <3>2, <3>3, <3>4, Restored
    <3>6. GlobalsOK(Now)'
      BY <1>1, <3>2, GlobalsKept
    <3>7. OuterOK(Now)'
      <4>1. /\ IsSequence(Pop(outer))
            /\ \A i \in 1..Len(Pop(outer)) : Pop(outer)[i] = outer[i] /\ i \in 1..Len(outer)
        BY <1>3, <2>1, SequencePop
      <4> QED
        BY <1>1, <3>1, <3>2, <4>1 DEF OuterOK
    <3> QED
      BY <3>2, <3>5, <3>6, <3>7 DEF Soundness
  <2> QED
    BY <2>3, <2>4
<1> QED
  BY <1>2, <1>3

LEMMA StopKeeps ==
    ASSUME CompilerIsSound, Soundness, NEW y, Runs(y), Stop
    PROVE  Soundness'
<1>1. Ins.op = "STOP" /\ Finish(TopOrNil) /\ UNCHANGED <<frames, lists, conts, cells, handler, winds>>
  BY DEF Stop, Op, wind
<1>2. AllOK(Now, stack)
  BY <1>1, Unmarked
<1>3. ValueOK(Now, TopOrNil)
  BY <1>2, AllPop, PlainOK DEF TopOrNil
<1> QED
  BY <1>1, <1>3, FinishKeeps

LEMMA SessionKeeps ==
    ASSUME CompilerIsSound, Soundness, TypeOK, StartForm \/ NextInput \/ EndOfSession \/ UNCHANGED vars
    PROVE  Soundness'
<1>1. CASE StartForm
  <2>1. Program[input][form] \in FormsRead
    BY <1>1, InputForm DEF StartForm, TypeOK
  <2>2. EvalTop(Program[input][form]) /\ UNCHANGED <<frames, lists, conts, outer, cells, handler, winds>>
    BY <1>1 DEF StartForm, wind
  <2>3. HeapOK(Now') /\ Grows(Now, Now') /\ MachineOK'
    BY <2>1, <2>2, MidIs, FormStarts DEF Soundness
  <2> QED
    BY <2>2, <2>3, Sound
<1>2. CASE NextInput \/ EndOfSession
  <2>1. UNCHANGED heap /\ UNCHANGED <<cells, handler, winds, outer>> /\ status' # "run"
    BY <1>2 DEF NextInput, EndOfSession, machine, wind
  <2> QED
    BY <2>1, RunsNothing
<1>3. CASE UNCHANGED vars
  <2>1. UNCHANGED heap /\ UNCHANGED <<cells, handler, winds, outer>> /\ UNCHANGED <<regs, status>>
    BY <1>3 DEF vars, machine, wind, session
  <2>2. HeapOK(Now') /\ Grows(Now, Now') /\ Now' = Now
    BY <2>1, SameHeap DEF Soundness
  <2>3. MachineOK'
    BY <2>1, <2>2 DEF Soundness, MachineOK, regs, Here, OperandsOK, Marked, heap, image
  <2> QED
    BY <2>1, <2>2, <2>3, Sound
<1> QED
  BY <1>1, <1>2, <1>3

LEMMA InitSound ==
    ASSUME StartupIsSound, Init
    PROVE  Soundness
<1>1. /\ code = Startup.code /\ templates = Startup.templates /\ cells = Startup.cells
      /\ frames = <<>> /\ lists = <<>> /\ conts = <<>> /\ outer = <<>>
      /\ winds = <<>> /\ handler = False /\ status = "idle"
  BY DEF Init
<1>2. /\ IsSequence(code) /\ IsSequence(templates)
      /\ \A n \in DOMAIN code : WellMade(code, templates, n, {})
      /\ DOMAIN cells = Cells /\ "raise" \in Cells
      /\ \A x \in Cells : LET v == cells[x] IN
           \/ v.tag \in {"const", "prim", "unbound"}
           \/ /\ v.tag = "closure" /\ v.env = <<>> /\ Procedure(code, templates, v.tmpl)
              /\ RunsIn(code, templates, templates[v.tmpl].body, <<Width(templates[v.tmpl])>>)
  BY <1>1 DEF StartupIsSound
<1>3. \A v : Data(v) => ValueOK(Now, v)
  BY DEF Data, ValueOK
<1>4. \A n \in DOMAIN code : BlockOK(Now, n) /\ ConstantsOK(Now, n)
  BY <1>2, <1>3, NowIs DEF WellMade, BlockOK, ConstantsOK
<1>5. HeapOK(Now)
  BY <1>1, <1>2, <1>4, NowIs, SequenceEmpty DEF HeapOK, CodeOK
<1>6. ASSUME NEW x \in Cells PROVE ValueOK(Now, cells[x])
  <2> DEFINE v == cells[x]
             t == templates[v.tmpl]
  <2>1. CASE v.tag \in {"const", "prim", "unbound"}
    BY <2>1 DEF ValueOK
  <2>2. CASE v.tag = "closure" /\ v.env = <<>> /\ Procedure(code, templates, v.tmpl)
             /\ RunsIn(code, templates, t.body, <<Width(t)>>)
    <3>1. Width(t) \in Nat
      BY <2>2 DEF Procedure, Width
    <3>2. <<Width(t)>> \o <<>> = <<Width(t)>>
      <4>1. <<Width(t)>> \in Seq(Nat)
        BY <3>1
      <4> QED
        BY <4>1, ConcatEmptySeq
    <3>3. ClosureOK(Now, v.tmpl, v.env)
      BY <2>2, <3>2, NowIs, EmptyFits DEF ClosureOK
    <3> QED
      BY <2>2, <3>3 DEF ValueOK
  <2> QED
    BY <1>2, <2>1, <2>2
<1>7. GlobalsOK(Now)
  BY <1>1, <1>2, <1>6, PlainOK, EmptyOK DEF GlobalsOK, ThunksOK
<1>8. OuterOK(Now)
  BY <1>1, EmptyOK DEF OuterOK
<1>9. MachineOK
  BY <1>1 DEF MachineOK
<1> QED
  BY <1>5, <1>7, <1>8, <1>9 DEF Soundness

-----------------------------------------------------------------------------
(* Calls.                                                                  *)

LEMMA ExtendsTwice ==
    ASSUME NEW s, NEW t, NEW u, IsSequence(s), Extends(t, s), Extends(u, t)
    PROVE  Extends(u, s)
<1>1. Len(s) \in Nat /\ Len(t) \in Nat /\ Len(u) \in Nat
  BY SequenceIs DEF Extends
<1> QED
  BY <1>1 DEF Extends

LEMMA GrowsTwice ==
    ASSUME NEW w, NEW w1, NEW w2, WorldOK(w), Grows(w, w1), Grows(w1, w2)
    PROVE  Grows(w, w2)
<1>1. /\ Extends(w2.code, w.code) /\ Extends(w2.templates, w.templates)
      /\ Extends(w2.lists, w.lists) /\ Extends(w2.conts, w.conts)
  BY ExtendsTwice DEF Grows, WorldOK, CodeOK
<1>2. Len(w.frames) \in Nat /\ Len(w1.frames) \in Nat /\ Len(w2.frames) \in Nat
  BY SequenceIs DEF Grows, WorldOK
<1>3. /\ Len(w.frames) <= Len(w1.frames) /\ Len(w1.frames) <= Len(w2.frames) /\ IsSequence(w2.frames)
      /\ \A a \in 1..Len(w.frames) : Len(w1.frames[a]) = Len(w.frames[a])
      /\ \A a \in 1..Len(w1.frames) : Len(w2.frames[a]) = Len(w1.frames[a])
  BY DEF Grows
<1>4. \A a \in 1..Len(w.frames) : a \in 1..Len(w1.frames)
  BY <1>2, <1>3
<1> QED
  BY <1>1, <1>2, <1>3, <1>4 DEF Grows

\* The callee f with its arguments above argp on the stack s.
CallOK(f, s, argp) ==
    /\ HeapOK(Mid) /\ Grows(Now, Mid)
    /\ AllOK(Mid, s) /\ argp \in Nat /\ argp <= Len(s)
    /\ ValueOK(Mid, f) \/ (f = Scratch /\ scratch.tag = "closure" /\ ValueOK(Mid, scratch))
    /\ argp + Takes(Ins) = Len(stack)
    /\ pc + 1 < Len(code[c]) \/ f.tag = "cont"

LEMMA CallIsOK ==
    ASSUME NEW y, Runs(y), Ins.op \in Calls, HeapOK(Mid), Grows(Now, Mid),
           Ins.op \in {"CALLCC", "TCALLCC"} => Len(conts) + 1 \in DOMAIN conts'
    PROVE  CallOK(Calling.f, Calling.s, Calling.argp)
<1>1. /\ Ins = code[c][pc + 1] /\ pc + 1 \in 1..Len(code[c]) /\ Shaped(code[c])
      /\ Len(stack) \in Nat /\ Takes(Ins) \in Nat /\ Len(stack) >= Takes(Ins)
      /\ WorldOK(Now) /\ IsSequence(stack) /\ HeapOK(Now) /\ OperandsOK
  BY Facts DEF Runs
<1>2. Takes(Ins) > 0 /\ Len(stack) > 0
  <2>1. Ins.op \in {"APP", "TAPP"} => Ins.n \in Nat
    BY <1>1 DEF Shaped
  <2>2. Takes(Ins) > 0
    BY <2>1 DEF Takes, Needs, Calls
  <2> QED
    BY <1>1, <2>2
<1>3. stack # <<>>
  BY <1>1, <1>2, SequenceNonEmpty
<1>4. pc + 1 < Len(code[c]) \/ (Ins.op = "APP" /\ Top(stack).tag = "cont")
  BY NotLast DEF Runs, Calls
<1>5. \A s : AllOK(Now, s) => AllOK(Mid, s)
  BY <1>1, AllGrows
<1>6. CASE Ins.op \in {"APP", "TAPP"}
  <2>1. Ins.n \in Nat /\ Takes(Ins) = Ins.n + 1
    BY <1>1, <1>6 DEF Shaped, Takes, Needs
  <2>2. Calling = [f |-> Top(stack), s |-> Pop(stack), argp |-> Len(stack) - 1 - Ins.n]
    BY <1>6 DEF Calling
  <2>3. Len(Pop(stack)) = Len(stack) - 1
    BY <1>1, <1>3, SequencePop
  <2>4. /\ AllOK(Mid, Pop(stack))
        /\ ValueOK(Mid, Top(stack)) \/ (Top(stack) = Scratch /\ scratch.tag = "closure" /\ ValueOK(Mid, scratch))
    <3>1. CASE Marked
      BY <1>1, <1>5, <3>1, ValueGrows DEF OperandsOK
    <3>2. CASE ~Marked
      <4>1. AllOK(Now, stack)
        BY <1>1, <3>2 DEF OperandsOK
      <4> QED
        BY <1>1, <1>3, <1>5, <4>1, AllPop, ValueGrows
    <3> QED
      BY <3>1, <3>2
  <2>5. /\ Len(stack) - 1 - Ins.n \in Nat /\ Len(stack) - 1 - Ins.n <= Len(Pop(stack))
        /\ (Len(stack) - 1 - Ins.n) + Takes(Ins) = Len(stack)
    BY <1>1, <2>1, <2>3, SMTT(30)
  <2> QED
    BY <1>4, <2>2, <2>4, <2>5 DEF CallOK
<1>7. CASE Ins.op \in {"APPLY", "TAPPLY"}
  <2> DEFINE s == Pop(Pop(stack))
             l == Top(Pop(stack))
  <2>1. Takes(Ins) = 2
    BY <1>7 DEF Takes, Needs
  <2>2. Calling = [f |-> Top(stack), s |-> s \o Elems(l), argp |-> Len(s)]
    BY <1>7 DEF Calling
  <2>3. AllOK(Now, stack)
    BY <1>7, Unmarked
  <2>4. AllOK(Now, Pop(stack)) /\ Len(Pop(stack)) = Len(stack) - 1 /\ ValueOK(Now, Top(stack))
    BY <1>3, <2>3, AllPop
  <2>5. Pop(stack) # <<>>
    BY <1>1, <2>1, <2>4, SequenceNonEmpty DEF AllOK
  <2>6. AllOK(Now, s) /\ Len(s) = Len(stack) - 2 /\ ValueOK(Now, l)
    <3> DEFINE u == Pop(stack)
    <3>1. AllOK(Now, u) /\ u # <<>> /\ Len(u) = Len(stack) - 1 /\ s = Pop(u) /\ l = Top(u)
      BY <2>4, <2>5
    <3> HIDE DEF u
    <3>2. AllOK(Now, Pop(u)) /\ Len(Pop(u)) = Len(u) - 1 /\ ValueOK(Now, Top(u))
      BY <3>1, AllPop
    <3> QED
      BY <1>1, <3>1, <3>2
  <2> HIDE DEF s, l
  <2>7. AllOK(Now, Elems(l))
    BY <1>1, <2>6, ElemsOK, NowIs
  <2>8. AllOK(Now, s \o Elems(l)) /\ Len(s \o Elems(l)) = Len(s) + Len(Elems(l)) /\ Len(Elems(l)) \in Nat
    BY <2>6, <2>7, AllConcat, SequenceIs DEF AllOK
  <2>9. AllOK(Mid, s \o Elems(l)) /\ ValueOK(Mid, Top(stack))
    BY <1>1, <1>5, <2>4, <2>8, ValueGrows
  <2>10. pc + 1 < Len(code[c])
    BY <1>4, <1>7
  <2>11. Len(s) \in Nat /\ Len(s) <= Len(s \o Elems(l)) /\ Len(s) + Takes(Ins) = Len(stack)
    BY <1>1, <2>1, <2>6, <2>8
  <2> QED
    BY <2>2, <2>9, <2>10, <2>11 DEF CallOK
<1>8. CASE Ins.op \in {"CALLCC", "TCALLCC"}
  <2> DEFINE k == ContRef(Len(conts) + 1)
             s == Append(Pop(stack), k)
  <2>1. Takes(Ins) = 1
    BY <1>8 DEF Takes, Needs
  <2>2. Calling = [f |-> Top(stack), s |-> s, argp |-> Len(stack) - 1]
    BY <1>8 DEF Calling
  <2>3. AllOK(Now, stack)
    BY <1>8, Unmarked
  <2>4. AllOK(Now, Pop(stack)) /\ Len(Pop(stack)) = Len(stack) - 1 /\ ValueOK(Now, Top(stack))
    BY <1>3, <2>3, AllPop
  <2>5. ValueOK(Mid, k)
    BY <1>8, MidIs DEF ValueOK, ContRef
  <2>6. AllOK(Mid, Pop(stack)) /\ ValueOK(Mid, Top(stack))
    BY <1>1, <1>5, <2>4, ValueGrows
  <2> HIDE DEF k
  <2>7. AllOK(Mid, s) /\ Len(s) = Len(stack) - 1 + 1
    BY <2>4, <2>5, <2>6, AllAppend
  <2> HIDE DEF s
  <2>8. pc + 1 < Len(code[c])
    BY <1>4, <1>8
  <2>9. Len(stack) - 1 \in Nat /\ Len(stack) - 1 <= Len(s) /\ (Len(stack) - 1) + Takes(Ins) = Len(stack)
    BY <1>1, <1>2, <2>1, <2>7
  <2> QED
    BY <2>2, <2>6, <2>7, <2>8, <2>9 DEF CallOK
<1> QED
  BY <1>6, <1>7, <1>8 DEF Calls

\* A value replaces the arguments.
LEMMA AnswerKeeps ==
    ASSUME NEW y, Runs(y), Ins.op \in Calls, NEW f, NEW s, NEW argp, CallOK(f, s, argp), f.tag # "cont",
           NEW v, Answer(s, argp, v), HeapOK(Now'), Grows(Mid, Now'), ValueOK(Now', v)
    PROVE  MachineOK' /\ Grows(Now, Now')
<1>1. /\ HeapOK(Mid) /\ Grows(Now, Mid) /\ AllOK(Mid, s) /\ argp \in Nat
      /\ argp + Takes(Ins) = Len(stack) /\ pc + 1 < Len(code[c])
  BY DEF CallOK
<1>2. WorldOK(Now) /\ WorldOK(Mid) /\ Takes(Ins) \in Nat /\ Gives(Ins) \in {0, 1}
  BY <1>1, HeapIsWorld, Facts
<1>3. Grows(Now, Now')
  BY <1>1, <1>2, GrowsTwice
<1>4. /\ stack' = Append(Resize(s, argp), v)
      /\ c' = c /\ pc' = pc + 1 /\ base' = base /\ env' = env /\ dump' = dump
  BY DEF Answer
<1>5. AllOK(Now', stack') /\ Len(stack') = argp + 1
  <2> DEFINE r == Resize(s, argp)
  <2>1. stack' = Append(r, v)
    BY <1>4
  <2>2. AllOK(Mid, r) /\ Len(r) = argp
    BY <1>1, AllResize
  <2> HIDE DEF r
  <2>3. AllOK(Now', r)
    BY <1>2, <2>2, AllGrows
  <2> QED
    BY <2>1, <2>2, <2>3, AllAppend
<1>6. Len(stack') \in Nat /\ Len(stack') >= Len(stack) - Takes(Ins) + Gives(Ins)
  BY <1>1, <1>2, <1>5
<1>7. Stands(Now', dump', Here', Len(stack')) /\ pc' # 0 /\ code'[c'][pc'] = Ins
  BY <1>1, <1>3, <1>4, <1>6, Onward
<1>8. OperandsOK'
  BY <1>5, <1>7 DEF OperandsOK, Marked, IsScratch, AllOK, Calls
<1> QED
  BY <1>3, <1>7, <1>8, RunsOn

\* A procedure body is entered: on a level of its own, or, by a tail call,
\* in place of the caller's.
LEMMA EnterKeeps ==
    ASSUME NEW y, Runs(y), Ins.op \in Calls, NEW f, NEW s, NEW argp, CallOK(f, s, argp), f.tag # "cont",
           Enter(s, argp, Ins.op \in TailCalls),
           HeapOK(Now'), Grows(Now, Now'), AllOK(Now', s),
           c' \in DOMAIN code', Ends(code'[c'], "RTN"), Fits(Now', c', env')
    PROVE  MachineOK'
<1> DEFINE w2 == Now'
           q  == Here'
<1>1. /\ argp \in Nat /\ argp + Takes(Ins) = Len(stack) /\ pc + 1 < Len(code[c])
  BY DEF CallOK
<1>2. /\ Ins = code[c][pc + 1] /\ pc + 1 \in 1..Len(code[c]) /\ Shaped(code[c])
      /\ Takes(Ins) \in Nat /\ Gives(Ins) \in {0, 1} /\ base \in Nat /\ y \in Nat /\ base <= y
      /\ DepthAt(Now, Here) \in Nat /\ DepthAt(Now, Here) >= Takes(Ins)
      /\ Len(stack) \in Nat /\ Len(stack) >= y + DepthAt(Now, Here)
      /\ WorldOK(Now) /\ IsSequence(dump) /\ Placed(Now, Here, y) /\ Rests(Now, dump, Here, y)
  BY Facts
<1>3. /\ q.c = c' /\ q.pc = 0 /\ q.base = base' /\ q.env = env' /\ w2.code = code' /\ pc' = 0
      /\ HeapOK(w2) /\ WorldOK(w2) /\ Grows(Now, w2) /\ AllOK(w2, s) /\ Fits(w2, c', env')
  BY HereIs, NextIs, HeapIsWorld DEF Enter
<1>4. ~Ends(w2.code[q.c], "JOIN")
  BY <1>3 DEF Ends
<1> HIDE DEF w2, q
<1>5. DepthAt(w2, q) = 0 /\ q.pc \in Nat /\ q.pc < Len(w2.code[q.c])
  BY <1>3, AtStart
<1>6. CASE Ins.op \in TailCalls
  <2>1. stack' = Resize(s, base) /\ dump' = dump /\ base' = base
    BY <1>6 DEF Enter
  <2>2. AllOK(w2, stack') /\ Len(stack') = base
    BY <1>2, <1>3, <2>1, AllResize
  <2>3. Ends(code[c], "RTN")
    BY <1>2, <1>6 DEF Shaped, Leaving
  <2>4. PICK x \in Nat : Chained(Now, dump, x) /\ Links(Now, Top(dump), Here, x, y) /\ Placed(Now, Top(dump), x)
    BY <2>3, Below
  <2>5. dump # <<>>
    BY <2>3, Below
  <2>6. Chained(w2, dump, x) /\ DepthAt(w2, Top(dump)) = DepthAt(Now, Top(dump))
    BY <1>2, <1>3, <2>4, ChainGrows, PlacedGrows
  <2>7. base + 1 >= x + DepthAt(Now, Top(dump))
    BY <2>3, <2>4, NowIs, HereIs DEF Links
  <2>8. Links(w2, Top(dump), q, x, base)
    BY <1>3, <1>4, <2>1, <2>6, <2>7 DEF Links
  <2>9. Rests(w2, dump, q, base)
    BY <2>4, <2>5, <2>6, <2>8 DEF Rests
  <2>10. Placed(w2, q, base)
    BY <1>2, <1>3, <1>5, <2>1 DEF Placed
  <2>11. Stands(w2, dump', q, Len(stack'))
    BY <1>2, <1>5, <2>1, <2>2, <2>9, <2>10 DEF Stands, Entered
  <2>12. OperandsOK'
    BY <1>3, <2>2, OperandsAtStart DEF w2
  <2> QED
    BY <1>3, <2>11, <2>12, RunsOn DEF w2, q
<1>7. CASE Ins.op \notin TailCalls
  <2> DEFINE saved == [c |-> c, pc |-> pc + 1, env |-> env, base |-> base]
  <2>1. stack' = Resize(s, argp) /\ dump' = Append(dump, saved) /\ base' = argp
    BY <1>7 DEF Enter
  <2>2. AllOK(w2, stack') /\ Len(stack') = argp
    BY <1>1, <1>3, <2>1, AllResize
  <2>3. saved.c = Here.c /\ saved.pc = Here.pc + 1 /\ saved.base = Here.base /\ saved.env = Here.env
    BY HereIs
  <2> HIDE DEF saved
  <2>17. Here.pc + 1 < Len(Now.code[Here.c]) /\ Ins = Now.code[Here.c][Here.pc + 1] /\ Ins.op \in Calls \cup {"SEL"}
    BY <1>1, <1>2, NowIs, HereIs
  <2>4. /\ Placed(Now, saved, y) /\ Rests(Now, dump, saved, y) /\ Waiting(Now, saved)
        /\ DepthAt(Now, saved) \in Nat /\ DepthAt(Now, saved) = DepthAt(Now, Here) - Takes(Ins) + Gives(Ins)
    <3> DEFINE here == Here
               now  == Now
               ins  == Ins
    <3>1. /\ WorldOK(now) /\ Placed(now, here, y) /\ Rests(now, dump, here, y)
          /\ saved.c = here.c /\ saved.pc = here.pc + 1 /\ saved.base = here.base /\ saved.env = here.env
          /\ here.pc + 1 < Len(now.code[here.c]) /\ ins = now.code[here.c][here.pc + 1]
      BY <1>2, <2>3, <2>17
    <3>2. ins.op \in Calls \cup {"SEL"}
      BY <2>17
    <3> HIDE DEF here, now, ins
    <3>3. /\ Placed(now, saved, y) /\ Rests(now, dump, saved, y)
          /\ DepthAt(now, saved) \in Nat /\ DepthAt(now, saved) = DepthAt(now, here) - Takes(ins) + Gives(ins)
          /\ ins.op \in Calls \cup {"SEL"} => Waiting(now, saved)
      BY <3>1, GoesOn
    <3> QED
      BY <3>2, <3>3 DEF here, now, ins
  <2> DEFINE n == y + DepthAt(Now, saved)
  <2>5. Entered(Now, dump, saved, n, y)
    BY <1>2, <2>4 DEF Entered
  <2> HIDE DEF n
  <2>6. Entered(w2, dump, saved, n, y)
    BY <1>2, <1>3, <2>5, EnteredGrows
  <2>7. Placed(w2, saved, y) /\ Rests(w2, dump, saved, y)
    BY <2>6 DEF Entered
  <2>8. Waiting(w2, saved) /\ DepthAt(w2, saved) = DepthAt(Now, saved)
    BY <1>2, <1>3, <2>4, PlacedGrows
  <2> DEFINE d == Append(dump, saved)
  <2>9. Chained(w2, d, y) /\ d # <<>> /\ Top(d) = saved /\ IsSequence(d)
    BY <1>2, <2>7, <2>8, Pushed, PushPop, SequenceAppend
  <2> HIDE DEF d
  <2>10. argp + 1 >= y + DepthAt(w2, saved)
    BY <1>1, <1>2, <2>4, <2>8, SMTT(30)
  <2>11. Links(w2, Top(d), q, y, argp)
    BY <1>3, <1>4, <2>1, <2>9, <2>10 DEF Links
  <2>12. Rests(w2, d, q, argp)
    BY <1>2, <2>9, <2>11 DEF Rests
  <2>13. Placed(w2, q, argp)
    BY <1>1, <1>3, <1>5, <2>1 DEF Placed
  <2>14. Stands(w2, d, q, Len(stack'))
    BY <1>1, <1>5, <2>2, <2>9, <2>12, <2>13 DEF Stands, Entered
  <2>15. OperandsOK'
    BY <1>3, <2>2, OperandsAtStart DEF w2
  <2>16. dump' = d
    BY <2>1 DEF d
  <2> QED
    BY <1>3, <2>14, <2>15, <2>16, RunsOn DEF w2, q
<1> QED
  BY <1>6, <1>7

\* A frame more.
LEMMA FrameFits ==
    ASSUME NEW w, NEW e, NEW sh, EnvFits(w, e, sh), NEW n \in DOMAIN w.frames, NEW k \in Nat, Len(w.frames[n]) = k
    PROVE  EnvFits(w, <<n>> \o e, <<k>> \o sh)
<1> DEFINE a == <<n>>
           b == <<k>>
<1>1. IsSequence(a) /\ Len(a) = 1 /\ a[1] = n /\ b \in Seq(Nat) /\ IsSequence(b) /\ Len(b) = 1 /\ b[1] = k
  BY DEF IsSequence
<1>2. IsSequence(e) /\ sh \in Seq(Nat) /\ Len(e) = Len(sh) /\ Len(e) \in Nat
  BY SequenceIs DEF EnvFits
<1>3. IsSequence(sh)
  BY <1>2, SMTT(30) DEF IsSequence
<1> HIDE DEF a, b
<1>4. /\ IsSequence(a \o e) /\ Len(a \o e) = 1 + Len(e)
      /\ \A i \in 1..Len(a \o e) : (a \o e)[i] = IF i <= 1 THEN a[i] ELSE e[i - 1]
  <2>1. /\ IsSequence(a \o e) /\ Len(a \o e) = Len(a) + Len(e)
        /\ \A i \in 1..Len(a \o e) : (a \o e)[i] = IF i <= Len(a) THEN a[i] ELSE e[i - Len(a)]
    BY <1>1, <1>2, SequenceConcat
  <2> QED
    BY <1>1, <2>1
<1>5. /\ b \o sh \in Seq(Nat) /\ Len(b \o sh) = 1 + Len(sh)
      /\ \A i \in 1..Len(b \o sh) : (b \o sh)[i] = IF i <= 1 THEN b[i] ELSE sh[i - 1]
  <2>1. /\ Len(b \o sh) = Len(b) + Len(sh)
        /\ \A i \in 1..Len(b \o sh) : (b \o sh)[i] = IF i <= Len(b) THEN b[i] ELSE sh[i - Len(b)]
    BY <1>1, <1>3, SequenceConcat
  <2>2. b \o sh \in Seq(Nat)
    BY <1>1, <1>2
  <2> QED
    BY <1>1, <2>1, <2>2
<1>6. ASSUME NEW i \in 1..Len(a \o e)
      PROVE  (a \o e)[i] \in DOMAIN w.frames /\ Len(w.frames[(a \o e)[i]]) = (b \o sh)[i]
  <2>1. CASE i = 1
    BY <1>1, <1>2, <1>4, <1>5, <2>1
  <2>2. CASE i # 1
    <3>1. i - 1 \in 1..Len(e) /\ ~(i <= 1) /\ i \in 1..Len(b \o sh)
      BY <1>2, <1>4, <1>5, <2>2
    <3>2. e[i - 1] \in DOMAIN w.frames /\ Len(w.frames[e[i - 1]]) = sh[i - 1]
      BY <3>1 DEF EnvFits
    <3> QED
      BY <1>4, <1>5, <3>1, <3>2
  <2> QED
    BY <2>1, <2>2
<1>7. EnvFits(w, a \o e, b \o sh)
  BY <1>2, <1>4, <1>5, <1>6 DEF EnvFits
<1> QED
  BY <1>7 DEF a, b

\* A procedure is called with as many arguments as it takes.
LEMMA ArityKept ==
    ASSUME NEW f, NEW a, f.tag \in {"closure", "scratch"}, CallError(f, a) = NoError, NEW t, t = templates[AsClosure(f).tmpl]
    PROVE  Len(a) = t.params \/ (t.rest /\ Len(a) > t.params)
BY DEF CallError, NoError, Raises

LEMMA ClosureKeeps ==
    ASSUME NEW y, Runs(y), Ins.op \in Calls, NEW f, NEW s, NEW argp, CallOK(f, s, argp),
           CallError(f, Above(s, argp)) = NoError, CallClosure(f, s, argp, Ins.op \in TailCalls)
    PROVE  HeapOK(Now') /\ Grows(Now, Now') /\ MachineOK'
<1> DEFINE g     == AsClosure(f)
           t     == templates[AsClosure(f).tmpl]
           fixed == SubSeq(s, argp + 1, argp + t.params)
           extra == SubSeq(s, argp + t.params + 1, Len(s))
           fr    == IF t.rest THEN Append(fixed, NewList(extra, Nil)) ELSE fixed
           w1    == [code |-> code, templates |-> templates, frames |-> frames, lists |-> lists', conts |-> conts']
<1>1. /\ HeapOK(Mid) /\ Grows(Now, Mid) /\ AllOK(Mid, s) /\ argp \in Nat /\ argp <= Len(s) /\ Len(s) \in Nat
      /\ WorldOK(Now) /\ WorldOK(Mid)
  BY HeapIsWorld, Facts, SequenceIs DEF CallOK, AllOK
<1>2. f.tag \in {"closure", "scratch"}
  BY DEF CallClosure
<1>3. f.tag # "cont"
  BY <1>2
<1>4. ClosureOK(Mid, g.tmpl, g.env)
  <2>1. CASE f.tag = "closure"
    <3>1. ValueOK(Mid, f)
      BY <2>1 DEF CallOK, Scratch
    <3> QED
      BY <2>1, <3>1 DEF ValueOK, AsClosure
  <2>2. CASE f.tag = "scratch"
    <3>1. scratch.tag = "closure" /\ ValueOK(Mid, scratch)
      BY <2>2 DEF CallOK, ValueOK
    <3> QED
      BY <2>2, <3>1 DEF ValueOK, AsClosure
  <2> QED
    BY <1>2, <2>1, <2>2
<1>5. /\ g.tmpl \in DOMAIN templates /\ t.params \in Nat /\ t.rest \in BOOLEAN
      /\ t.body \in DOMAIN code /\ Ends(code[t.body], "RTN") /\ Procedure(code, templates, g.tmpl)
  BY <1>4, MidIs DEF ClosureOK, Procedure
<1>6. Len(Above(s, argp)) = Len(s) - argp
  BY <1>1, AllAbove
<1>7. /\ Len(s) - argp = t.params \/ (t.rest /\ Len(s) - argp > t.params)
  BY <1>2, <1>6, ArityKept
<1>8. /\ frames' = Append(frames, fr)
      /\ lists' = IF t.rest THEN AddList(extra, Nil) ELSE lists
      /\ env' = <<Len(frames) + 1>> \o g.env
      /\ c' = t.body /\ Enter(s, argp, Ins.op \in TailCalls)
      /\ code' = code /\ templates' = templates
  BY DEF CallClosure, image
<1>9. /\ w1.code = code /\ w1.templates = templates /\ w1.frames = frames /\ w1.lists = lists' /\ w1.conts = conts'
  OBVIOUS
<1> HIDE DEF w1, fr
<1>10. AllOK(Mid, fixed) /\ Len(fixed) = t.params
  <2>1. argp + 1 \in Nat \ {0} /\ argp + t.params \in Nat /\ argp + t.params <= Len(s)
    BY <1>1, <1>5, <1>7
  <2>2. AllOK(Mid, fixed) /\ Len(fixed) = IF argp + 1 <= argp + t.params THEN (argp + t.params) - (argp + 1) + 1 ELSE 0
    BY <1>1, <2>1, AllSub
  <2> HIDE DEF fixed
  <2> QED
    BY <1>1, <1>5, <2>2
<1>11. AllOK(Mid, extra)
  <2>1. argp + t.params + 1 \in Nat \ {0} /\ Len(s) \in Nat /\ Len(s) <= Len(s)
    BY <1>1, <1>5
  <2> QED
    BY <1>1, <2>1, AllSub
<1>12. /\ Grows(Mid, w1) /\ HeapOK(w1) /\ AllOK(w1, fr) /\ Len(fr) = Width(t)
  <2>1. CASE t.rest
    <3> DEFINE l == NewList(extra, Nil)
    <3>1. Grows(Mid, w1) /\ HeapOK(w1) /\ ValueOK(w1, l)
      <4> DEFINE x == extra
                 n == Nil
      <4>1. w1.lists = AddList(x, n) /\ AllOK(Mid, x) /\ ValueOK(Mid, n)
        BY <1>8, <1>9, <1>11, <2>1, PlainOK
      <4> HIDE DEF x, n
      <4>2. Grows(Mid, w1) /\ HeapOK(w1) /\ ValueOK(w1, NewList(x, n))
        BY <1>1, <1>9, <4>1, MidIs, ListMade
      <4> QED
        BY <4>2 DEF x, n
    <3> HIDE DEF l
    <3>2. AllOK(w1, fixed)
      BY <1>1, <1>10, <3>1, AllGrows
    <3>3. fr = Append(fixed, l)
      BY <2>1 DEF fr, l
    <3> HIDE DEF fixed
    <3>4. AllOK(w1, fr) /\ Len(fr) = t.params + 1
      BY <1>10, <3>1, <3>2, <3>3, AllAppend
    <3> QED
      BY <2>1, <3>1, <3>4 DEF Width
  <2>2. CASE ~t.rest
    <3>1. w1 = Mid
      BY <1>8, <2>2 DEF w1, Mid
    <3> QED
      BY <1>1, <1>10, <2>2, <3>1, GrowsItself DEF fr, Width
  <2> QED
    BY <2>1, <2>2
<1>13. Grows(w1, Now') /\ HeapOK(Now') /\ WorldOK(w1)
  <2> DEFINE w2 == Now'
  <2>1. w2.code = w1.code /\ w2.templates = w1.templates /\ w2.conts = w1.conts /\ w2.lists = w1.lists
        /\ w2.frames = Append(w1.frames, fr)
    BY <1>8, <1>9, NextIs
  <2> HIDE DEF w2
  <2>2. Grows(w1, w2) /\ HeapOK(w2)
    BY <1>12, <2>1, MoreFrames
  <2> QED
    BY <1>12, <2>2, HeapIsWorld DEF w2
<1>14. Grows(Mid, Now') /\ Grows(Now, Now')
  <2>1. Grows(Mid, Now')
    BY <1>1, <1>12, <1>13, GrowsTwice
  <2> QED
    BY <1>1, <2>1, GrowsTwice
<1>15. Fits(Now', c', env')
  <2> DEFINE w2 == Now'
             n  == Len(frames) + 1
  <2>1. IsSequence(frames) /\ w2.frames = Append(frames, fr)
    BY <1>1, <1>8, NextIs, MidIs DEF WorldOK
  <2>2. w2.templates = templates /\ Grows(Mid, w2)
    BY <1>8, <1>14, NextIs
  <2> HIDE DEF w2
  <2>3. n \in DOMAIN w2.frames /\ w2.frames[n] = fr
    BY <2>1, NewIs
  <2>4. PICK sh : /\ RunsIn(code, templates, t.body, <<Width(t)>> \o sh)
                  /\ EnvFits(Mid, g.env, sh)
    BY <1>4, MidIs DEF ClosureOK
  <2> DEFINE shape == <<Width(t)>> \o sh
             body  == t.body
             e     == g.env
             k     == Width(t)
  <2>5. RunsIn(Mid.code, Mid.templates, body, shape) /\ EnvFits(Mid, e, sh) /\ k \in Nat /\ Len(fr) = k
    BY <1>5, <1>12, <2>4, MidIs DEF Width
  <2> HIDE DEF shape, body, e, k, n
  <2>6. RunsIn(w2.code, w2.templates, body, shape) /\ EnvFits(w2, e, sh)
    BY <1>1, <2>2, <2>5, RunsGrows, EnvGrows
  <2>7. EnvFits(w2, <<n>> \o e, <<k>> \o sh)
    BY <2>3, <2>5, <2>6, FrameFits
  <2>8. env' = <<n>> \o e /\ shape = <<k>> \o sh /\ c' = body
    BY <1>8 DEF n, e, shape, k, body
  <2>9. Fits(w2, c', env')
    BY <2>6, <2>7, <2>8 DEF Fits
  <2> QED
    BY <2>9 DEF w2
<1>16. AllOK(Now', s)
  BY <1>1, <1>14, AllGrows
<1>17. c' \in DOMAIN code' /\ Ends(code'[c'], "RTN")
  BY <1>5, <1>8
<1>18. MachineOK'
  BY <1>3, <1>8, <1>13, <1>14, <1>15, <1>16, <1>17, EnterKeeps
<1> QED
  BY <1>13, <1>14, <1>18

\* The level of a call is entered below its arguments.
LEMMA BelowArguments ==
    ASSUME NEW y, Runs(y), NEW f, NEW s, NEW argp, CallOK(f, s, argp)
    PROVE  /\ base \in Nat /\ y \in Nat /\ argp \in Nat /\ Len(s) \in Nat
           /\ base <= y /\ y <= argp /\ argp <= Len(s) /\ base <= Len(s)
<1>1. /\ base \in Nat /\ y \in Nat /\ base <= y /\ Len(stack) \in Nat
      /\ Takes(Ins) \in Nat /\ DepthAt(Now, Here) \in Nat /\ DepthAt(Now, Here) >= Takes(Ins)
      /\ Len(stack) >= y + DepthAt(Now, Here)
  BY Facts
<1>2. argp \in Nat /\ argp <= Len(s) /\ argp + Takes(Ins) = Len(stack) /\ Len(s) \in Nat
  BY SequenceIs DEF CallOK, AllOK
<1> QED
  BY <1>1, <1>2

LEMMA ContinuationKeeps ==
    ASSUME Soundness, NEW y, Runs(y), Ins.op \in Calls, NEW f, NEW s, NEW argp, CallOK(f, s, argp),
           CallContinuation(f, s, argp)
    PROVE  Soundness'
<1> DEFINE k == conts[f.cont]
           v == IF Len(s) = argp THEN Nil ELSE s[argp + 1]
           w2 == Now'
<1>1. /\ HeapOK(Mid) /\ Grows(Now, Mid) /\ AllOK(Mid, s) /\ argp \in Nat /\ argp <= Len(s) /\ Len(s) \in Nat
      /\ WorldOK(Now) /\ WorldOK(Mid) /\ HeapOK(Now) /\ GlobalsOK(Now) /\ OuterOK(Now)
  BY HeapIsWorld, Facts, SequenceIs DEF CallOK, AllOK, Soundness
<1>2. /\ f.cont \in DOMAIN conts /\ outer' = outer /\ frames' = frames /\ lists' = lists /\ templates' = templates
      /\ cells' = cells /\ handler' = handler
  BY DEF CallContinuation
<1>3. ContOK(Now, k) /\ ContOK(Mid, k)
  <2>1. ContOK(Now, k)
    BY <1>1, <1>2, NowIs DEF HeapOK
  <2> QED
    BY <1>1, <2>1, ContGrows
<1>4. ValueOK(Mid, v)
  <2>1. CASE Len(s) = argp
    BY <2>1, PlainOK
  <2>2. CASE Len(s) # argp
    <3>1. argp + 1 \in 1..Len(s)
      BY <1>1, <2>2
    <3> QED
      BY <1>1, <2>2, <3>1 DEF AllOK
  <2> QED
    BY <2>1, <2>2
<1>5. \/ /\ stack' = Append(k.stack, v)
         /\ dump' = k.dump /\ env' = k.env /\ c' = k.c /\ pc' = k.pc /\ base' = k.base
         /\ winds' = winds /\ code' = code
      \/ /\ code' = Append(code, RewindCode(Thunks(winds, k.winds), v, f.cont))
         /\ c' = Len(code) + 1 /\ pc' = 0 /\ stack' = s /\ winds' = k.winds
         /\ dump' = dump /\ env' = env /\ base' = base
  BY DEF CallContinuation, NewCode
<1>6. w2.code = code' /\ w2.templates = templates /\ w2.frames = frames /\ w2.lists = lists /\ w2.conts = conts'
  BY <1>2, NextIs
<1> HIDE DEF k, v
<1>7. CASE /\ stack' = Append(k.stack, v)
           /\ dump' = k.dump /\ env' = k.env /\ c' = k.c /\ pc' = k.pc /\ base' = k.base
           /\ winds' = winds /\ code' = code
  <2>1. w2 = Mid
    BY <1>2, <1>7 DEF Now, Mid
  <2>2. AllOK(Mid, k.stack) /\ Stands(Mid, k.dump, k, Len(k.stack) + 1) /\ Waiting(Mid, k)
    BY <1>3 DEF ContOK
  <2> DEFINE ks == k.stack
  <2>3. AllOK(Mid, ks)
    BY <2>2
  <2> HIDE DEF ks
  <2>4. AllOK(Mid, Append(ks, v)) /\ Len(Append(ks, v)) = Len(ks) + 1
    BY <1>4, <2>3, AllAppend
  <2>5. AllOK(w2, stack') /\ Len(stack') = Len(k.stack) + 1
    BY <1>7, <2>1, <2>4 DEF ks
  <2>6. HeapOK(w2) /\ Stands(w2, dump', k, Len(stack')) /\ Waiting(w2, k) /\ Grows(Now, w2)
    BY <1>1, <1>7, <2>1, <2>2, <2>5
  <2>7. MachineOK'
    BY <1>7, <2>5, <2>6, Restored
  <2> QED
    BY <1>2, <1>7, <2>6, <2>7, Sound
<1>8. CASE /\ code' = Append(code, RewindCode(Thunks(winds, k.winds), v, f.cont))
           /\ c' = Len(code) + 1 /\ pc' = 0 /\ stack' = s /\ winds' = k.winds
           /\ dump' = dump /\ env' = env /\ base' = base
  <2> DEFINE th == Thunks(winds, k.winds)
             b  == RewindCode(th, v, f.cont)
             n  == Len(code) + 1
  <2>1. ThunksOK(Mid, winds) /\ ThunksOK(Mid, k.winds)
    BY <1>1, <1>3, ThunksGrow DEF GlobalsOK, ContOK
  <2> DEFINE kw == k.winds
             wi == winds
  <2>2. AllOK(Mid, th)
    <3>1. ThunksOK(Mid, kw) /\ ThunksOK(Mid, wi)
      BY <2>1
    <3> HIDE DEF kw, wi
    <3>2. AllOK(Mid, Thunks(wi, kw))
      BY <3>1, ThunksAre
    <3> QED
      BY <3>2 DEF wi, kw
  <2>3. ValueOK(Mid, ContRef(f.cont)) /\ IsSequence(th)
    <3>1. f.cont \in DOMAIN Mid.conts
      BY <1>1, <1>2, NowIs, GrowsKeeps
    <3>2. ContRef(f.cont).tag = "cont" /\ ContRef(f.cont).cont = f.cont
      BY DEF ContRef
    <3> QED
      BY <2>2, <3>1, <3>2 DEF ValueOK, AllOK
  <2> DEFINE kk == f.cont
  <2> HIDE DEF th, kk
  <2>4. b = RewindCode(th, v, kk)
    BY DEF kk
  <2> HIDE DEF b
  <2>5. /\ Alone(b) /\ EndsInJump(b) /\ Len(b) > 0
        /\ \A p \in 1..Len(b) : b[p].op = "LDC" =>
                 \/ b[p].val \in {v, ContRef(kk)}
                 \/ \E i \in 1..Len(th) : b[p].val = th[i]
    BY <2>3, <2>4, RewindAlone
  <2>6. \A p \in 1..Len(b) : b[p].op = "LDC" => ValueOK(Mid, b[p].val)
    BY <1>4, <2>2, <2>3, <2>5 DEF AllOK, kk
  <2>7. w2.code = Append(Mid.code, b) /\ w2.templates = Mid.templates /\ w2.frames = Mid.frames
        /\ w2.conts = Mid.conts /\ w2.lists = Mid.lists
    BY <1>6, <1>8, MidIs DEF th, b
  <2>8. Mid.code = code /\ Len(code) \in Nat
    BY <1>1, MidIs, SequenceIs DEF WorldOK, CodeOK
  <2> HIDE DEF w2
  <2>9. /\ Grows(Mid, w2) /\ HeapOK(w2)
        /\ n \in DOMAIN w2.code /\ w2.code[n] = b
        /\ \A e, sh : EnvFits(Mid, e, sh) => Fits(w2, n, e)
    <3> DEFINE m == Mid
    <3>1. /\ HeapOK(m) /\ w2.code = Append(m.code, b) /\ Alone(b)
          /\ \A p \in 1..Len(b) : b[p].op = "LDC" => ValueOK(m, b[p].val)
          /\ w2.templates = m.templates /\ w2.frames = m.frames /\ w2.conts = m.conts /\ w2.lists = m.lists
      BY <1>1, <2>5, <2>6, <2>7
    <3>2. n = Len(m.code) + 1
      BY <2>8
    <3> HIDE DEF m, n
    <3>3. /\ Grows(m, w2) /\ HeapOK(w2)
          /\ Len(m.code) + 1 \in DOMAIN w2.code /\ w2.code[Len(m.code) + 1] = b
          /\ \A e, sh : EnvFits(m, e, sh) => Fits(w2, Len(m.code) + 1, e)
      BY <3>1, MoreCode
    <3> QED
      BY <3>2, <3>3 DEF m
  <2>10. Grows(Now, w2)
    BY <1>1, <2>9, GrowsTwice
  <2>11. Fits(w2, n, env)
    <3>1. PICK sh : EnvFits(Now, env, sh)
      BY Facts DEF Fits
    <3>2. EnvFits(Mid, env, sh)
      BY <1>1, <3>1, EnvGrows
    <3> QED
      BY <2>9, <3>2
  <2> DEFINE q == Here'
  <2>12. q.c = n /\ q.pc = 0 /\ q.base = base /\ q.env = env
    BY <1>8, HereIs
  <2> HIDE DEF q, n
  <2>13. DepthAt(w2, q) = 0 /\ q.pc \in Nat /\ q.pc < Len(w2.code[q.c])
    BY <2>9, <2>12, AtStart, HeapIsWorld
  <2>14. base \in Nat /\ base <= Len(s)
    BY BelowArguments
  <2>15. Placed(w2, q, Len(s))
    BY <1>1, <2>9, <2>11, <2>12, <2>13, <2>14 DEF Placed
  <2>16. Rests(w2, dump', q, Len(s))
    BY <2>5, <2>9, <2>12 DEF Rests, Bottom
  <2>17. IsSequence(dump')
    BY <1>8, Facts
  <2>18. Stands(w2, dump', q, Len(stack'))
    BY <1>1, <1>8, <2>13, <2>15, <2>16, <2>17 DEF Stands, Entered
  <2>19. AllOK(w2, stack')
    BY <1>1, <1>8, <2>9, AllGrows
  <2>20. MachineOK'
    BY <1>8, <2>9, <2>18, <2>19, OperandsAtStart, RunsOn DEF w2, q
  <2>21. GlobalsOK(Now)'
    <3>1. ThunksOK(w2, winds')
      BY <1>1, <1>8, <2>1, <2>9, ThunksGrow
    <3>2. /\ DOMAIN cells' = Cells /\ "raise" \in Cells /\ \A x \in Cells : ValueOK(w2, cells'[x])
          /\ ValueOK(w2, handler')
      BY <1>1, <1>2, <2>10, ValueGrows DEF GlobalsOK
    <3> QED
      BY <3>1, <3>2 DEF GlobalsOK, w2
  <2>22. OuterOK(Now)'
    BY <1>1, <1>2, <2>10, OuterKept DEF w2
  <2> QED
    BY <2>9, <2>20, <2>21, <2>22 DEF Soundness, w2
<1> QED
  BY <1>5, <1>7, <1>8

-----------------------------------------------------------------------------
(* Primitives.                                                             *)

\* How many arguments the primitives take.
LEMMA ArityIs ==
    ASSUME NEW p
    PROVE  /\ Arity(p)[1] \in Nat /\ Arity(p)[2] \in Nat
           /\ p \in {"car", "cdr", "load"} => Arity(p)[1] = 1 /\ Arity(p)[2] = 1
           /\ p = "eval" => Arity(p)[1] = 2 /\ Arity(p)[2] = 2
<1>1. CASE p \in {"values", "list", "eq?", "%wind-pop", "%wind-top-after", "%current-exception-handler",
                  "current-output-port"}
  BY <1>1 DEF Arity, NoLimit
<1>2. CASE p \in {"interaction-environment", "display", "%exit"}
  BY <1>2 DEF Arity, NoLimit
<1>3. CASE p \in {"error", "cons", "memv", "%wind-push", "eval"}
  BY <1>3 DEF Arity, NoLimit
<1>4. CASE p \notin {"values", "list", "eq?", "%wind-pop", "%wind-top-after", "%current-exception-handler",
                     "current-output-port", "interaction-environment", "display", "%exit", "error",
                     "cons", "memv", "%wind-push", "eval"}
  <2>1. Arity(p) = <<1, 1>>
    BY <1>4 DEF Arity
  <2> QED
    BY <1>4, <2>1
<1> QED
  BY <1>1, <1>2, <1>3, <1>4

\* What a call that throws nothing has for arguments.
LEMMA PrimArguments ==
    ASSUME NEW f, NEW a, f.tag = "prim", Len(a) \in Nat, CallError(f, a) = NoError
    PROVE  PrimError(f.prim, a) = NoError /\ Len(a) >= Arity(f.prim)[1] /\ Len(a) <= Arity(f.prim)[2]
<1>1. PrimError(f.prim, a) = NoError
  BY DEF CallError
<1>2. ~(Len(a) < Arity(f.prim)[1] \/ Len(a) > Arity(f.prim)[2])
  BY <1>1 DEF PrimError, NoError, Raises
<1>3. Arity(f.prim)[1] \in Nat /\ Arity(f.prim)[2] \in Nat
  BY ArityIs
<1> QED
  BY <1>1, <1>2, <1>3

\* A primitive is called in the middle of a run: what it finds.
Called(y, f, s, argp) ==
    /\ Soundness /\ Runs(y) /\ Ins.op \in Calls /\ CallOK(f, s, argp)
    /\ f.tag = "prim" /\ CallError(f, Above(s, argp)) = NoError

LEMMA Finds ==
    ASSUME NEW y, NEW f, NEW s, NEW argp, Called(y, f, s, argp), NEW a, a = Above(s, argp)
    PROVE  /\ WorldOK(Now) /\ HeapOK(Mid) /\ WorldOK(Mid) /\ Grows(Now, Mid)
           /\ GlobalsOK(Now) /\ OuterOK(Now)
           /\ \A x \in Cells : ValueOK(Mid, cells[x])
           /\ ValueOK(Mid, handler) /\ ThunksOK(Mid, winds)
           /\ AllOK(Mid, s) /\ argp \in Nat /\ argp <= Len(s)
           /\ AllOK(Mid, a) /\ Len(a) = Len(s) - argp /\ Len(a) \in Nat
           /\ \A i \in 1..Len(a) : ValueOK(Mid, a[i])
           /\ PrimError(f.prim, a) = NoError /\ Len(a) >= Arity(f.prim)[1] /\ Len(a) <= Arity(f.prim)[2]
<1>1. /\ Soundness /\ Runs(y) /\ CallOK(f, s, argp) /\ f.tag = "prim" /\ CallError(f, a) = NoError
      /\ WorldOK(Now)
  BY Facts DEF Called
<1>2. /\ HeapOK(Mid) /\ Grows(Now, Mid) /\ AllOK(Mid, s) /\ argp \in Nat /\ argp <= Len(s)
      /\ GlobalsOK(Now) /\ OuterOK(Now) /\ WorldOK(Mid)
  BY <1>1, HeapIsWorld DEF CallOK, Soundness
<1>3. /\ \A x \in Cells : ValueOK(Mid, cells[x])
      /\ ValueOK(Mid, handler) /\ ThunksOK(Mid, winds)
  BY <1>1, <1>2, ValueGrows, ThunksGrow DEF GlobalsOK
<1>4. AllOK(Mid, a) /\ Len(a) = Len(s) - argp
  BY <1>2, AllAbove
<1>5. Len(a) \in Nat /\ \A i \in 1..Len(a) : ValueOK(Mid, a[i])
  BY <1>4, SequenceIs DEF AllOK
<1>6. PrimError(f.prim, a) = NoError /\ Len(a) >= Arity(f.prim)[1] /\ Len(a) <= Arity(f.prim)[2]
  BY <1>1, <1>5, PrimArguments
<1> QED
  BY <1>1, <1>2, <1>3, <1>4, <1>5, <1>6

\* It answers, and leaves the globals as right as they were.
LEMMA AnswerSound ==
    ASSUME NEW y, NEW f, NEW s, NEW argp, Called(y, f, s, argp),
           NEW v, Answer(s, argp, v), HeapOK(Now'), Grows(Mid, Now'), ValueOK(Now', v),
           cells' = cells, ValueOK(Mid, handler'), ThunksOK(Mid, winds')
    PROVE  Soundness'
<1>1. /\ Runs(y) /\ Ins.op \in Calls /\ CallOK(f, s, argp) /\ f.tag # "cont"
      /\ WorldOK(Now) /\ WorldOK(Mid) /\ GlobalsOK(Now) /\ OuterOK(Now)
  BY Finds DEF Called
<1>2. MachineOK' /\ Grows(Now, Now')
  BY <1>1, AnswerKeeps
<1>3. OuterOK(Now)'
  BY <1>1, <1>2, OuterKept DEF Answer
<1>4. ValueOK(Now', handler') /\ ThunksOK(Now', winds') /\ \A x \in Cells : ValueOK(Now', cells'[x])
  BY <1>1, <1>2, ValueGrows, ThunksGrow DEF GlobalsOK
<1>5. GlobalsOK(Now)'
  BY <1>1, <1>4 DEF GlobalsOK
<1> QED
  BY <1>2, <1>3, <1>5 DEF Soundness

LEMMA AnswerHere ==
    ASSUME NEW y, NEW f, NEW s, NEW argp, Called(y, f, s, argp),
           NEW v, Answer(s, argp, v), lists' = lists, ValueOK(Mid, v),
           cells' = cells, ValueOK(Mid, handler'), ThunksOK(Mid, winds')
    PROVE  Soundness'
<1>1. Now' = Mid
  BY DEF Answer, image, Now, Mid
<1>2. HeapOK(Mid) /\ WorldOK(Mid)
  BY Finds
<1>3. HeapOK(Now') /\ Grows(Mid, Now') /\ ValueOK(Now', v)
  BY <1>1, <1>2, GrowsItself
<1> QED
  BY <1>3, AnswerSound

\* A value answered with a list made for it.
LEMMA AnswerList ==
    ASSUME NEW y, NEW f, NEW s, NEW argp, Called(y, f, s, argp),
           NEW xs, NEW end, Answer(s, argp, NewList(xs, end)), lists' = AddList(xs, end),
           AllOK(Mid, xs), ValueOK(Mid, end), UNCHANGED <<cells, handler, winds>>
    PROVE  Soundness'
<1> DEFINE w2 == Now'
           v  == NewList(xs, end)
<1>1. HeapOK(Mid) /\ ValueOK(Mid, handler) /\ ThunksOK(Mid, winds)
  BY Finds
<1>2. /\ w2.code = Mid.code /\ w2.templates = Mid.templates /\ w2.frames = Mid.frames /\ w2.conts = Mid.conts
      /\ w2.lists = AddList(xs, end)
  BY MidIs, NextIs DEF Answer, image
<1> HIDE DEF w2
<1>3. Grows(Mid, w2) /\ HeapOK(w2) /\ ValueOK(w2, v)
  BY <1>1, <1>2, MidIs, ListMade
<1>4. Answer(s, argp, v)
  OBVIOUS
<1> HIDE DEF v
<1> QED
  BY <1>1, <1>3, <1>4, AnswerSound DEF w2

LEMMA LookKeeps ==
    ASSUME NEW y, NEW f, NEW s, NEW argp, Called(y, f, s, argp), Look(f.prim, s, argp, Above(s, argp))
    PROVE  Soundness'
<1> DEFINE p == f.prim
           a == Above(s, argp)
           v == Value(p, a)
<1>1. /\ HeapOK(Mid) /\ ValueOK(Mid, handler) /\ ThunksOK(Mid, winds) /\ Len(a) \in Nat
      /\ \A i \in 1..Len(a) : ValueOK(Mid, a[i])
      /\ PrimError(p, a) = NoError /\ Len(a) >= Arity(p)[1] /\ Len(a) <= Arity(p)[2]
  BY Finds
<1>2. p \in LookPrims /\ Answer(s, argp, v) /\ UNCHANGED <<lists, cells, winds, handler>>
  BY DEF Look, Others, wind
<1> HIDE DEF a
<1>3. ASSUME p \in {"car", "cdr"} PROVE ValueOK(Mid, v)
  <2>1. Len(a) = 1
    <3>1. Arity(p)[1] = 1 /\ Arity(p)[2] = 1
      BY <1>3, ArityIs
    <3>2. Len(a) \in Nat /\ Len(a) >= Arity(p)[1] /\ Len(a) <= Arity(p)[2]
      BY <1>1
    <3> QED
      BY <3>1, <3>2, SMTT(30)
  <2>2. IsPair(a[1])
    BY <1>1, <1>3, <2>1 DEF PrimError, NoError, Raises, Arity
  <2>3. ValueOK(Mid, a[1])
    BY <1>1, <2>1
  <2> DEFINE x == a[1]
  <2>4. x = a[1] /\ ValueOK(Mid, x) /\ IsPair(x)
    BY <2>2, <2>3
  <2> HIDE DEF x
  <2>5. /\ AllOK(Mid, Elems(x)) /\ Len(Elems(x)) > 0
        /\ \A n \in 0..Len(Elems(x)) : ValueOK(Mid, Behind(x, n))
    BY <1>1, <2>4, MidIs, ElemsOK
  <2>6. Len(Elems(x)) \in Nat
    BY <2>5, SequenceIs DEF AllOK
  <2>7. ValueOK(Mid, Elems(x)[1]) /\ ValueOK(Mid, Behind(x, 1))
    BY <2>5, <2>6 DEF AllOK
  <2>8. (p = "car" => v = Elems(x)[1]) /\ (p = "cdr" => v = Behind(x, 1))
    BY <2>4 DEF Value, Car, Cdr
  <2> QED
    BY <1>3, <2>7, <2>8
<1>4. ASSUME p = "memv" PROVE ValueOK(Mid, v)
  <2>1. Len(a) = 2
    BY <1>1, <1>4, SMTT(30) DEF Arity
  <2> DEFINE x == a[2]
             P == Places(a[1], a[2])
  <2>2. x = a[2] /\ ValueOK(Mid, x) /\ P = {i \in 1..Len(Elems(x)) : Elems(x)[i] = a[1]}
    BY <1>1, <2>1 DEF Places
  <2>3. P # {} => v = Behind(x, (CHOOSE i \in P : \A j \in P : i <= j) - 1)
    BY <1>4 DEF Value
  <2>4. P = {} => v = False
    BY <1>4 DEF Value
  <2> HIDE DEF x, P
  <2>5. AllOK(Mid, Elems(x)) /\ \A n \in 0..Len(Elems(x)) : ValueOK(Mid, Behind(x, n))
    BY <1>1, <2>2, MidIs, ElemsOK
  <2>6. Len(Elems(x)) \in Nat
    BY <2>5, SequenceIs DEF AllOK
  <2>7. CASE P # {}
    <3>1. P \subseteq Nat
      BY <2>2, <2>6
    <3>2. PICK i \in P : \A j \in P : i <= j
      BY <2>7, <3>1, LeastNatural
    <3> DEFINE m == CHOOSE k \in P : \A j \in P : k <= j
    <3>3. m \in P
      BY <3>2
    <3>4. m - 1 \in 0..Len(Elems(x))
      BY <2>2, <2>6, <3>3
    <3> QED
      BY <2>3, <2>5, <2>7, <3>4
  <2>8. CASE P = {}
    BY <2>4, <2>8, PlainOK
  <2> QED
    BY <2>7, <2>8
<1>5. ASSUME p \in {"null?", "eq?", "not", "procedure?"} PROVE ValueOK(Mid, v)
  <2>1. v \in {True, False}
    BY <1>5 DEF Value
  <2> QED
    BY <2>1, PlainOK
<1>6. ASSUME p \in {"interaction-environment", "current-output-port", "%make-error-object"} PROVE ValueOK(Mid, v)
  <2>1. v = Environment \/ v = PortRef(stdout) \/ v = ErrorObject(a[1].name)
    BY <1>6 DEF Value
  <2> QED
    BY <2>1, PlainOK
<1>7. ASSUME p = "%current-exception-handler" PROVE ValueOK(Mid, v)
  <2>1. v = handler
    BY <1>7 DEF Value
  <2> QED
    BY <1>1, <2>1
<1>8. ASSUME p = "%wind-top-after" PROVE ValueOK(Mid, v)
  <2>1. v = IF winds = <<>> THEN False ELSE Top(winds).after
    BY <1>8 DEF Value
  <2>2. CASE winds = <<>>
    BY <2>1, <2>2, PlainOK
  <2>3. CASE winds # <<>>
    <3>1. IsSequence(winds) /\ \A i \in 1..Len(winds) : ValueOK(Mid, winds[i].after)
      BY <1>1 DEF ThunksOK
    <3>2. Len(winds) \in 1..Len(winds)
      BY <2>3, <3>1, SequenceIs, SequenceNonEmpty
    <3> QED
      BY <2>1, <2>3, <3>1, <3>2 DEF Top
  <2> QED
    BY <2>2, <2>3
<1>9. ValueOK(Mid, v)
  BY <1>2, <1>3, <1>4, <1>5, <1>6, <1>7, <1>8 DEF LookPrims
<1> HIDE DEF v
<1> QED
  BY <1>1, <1>2, <1>9, AnswerHere

LEMMA AllocateKeeps ==
    ASSUME NEW y, NEW f, NEW s, NEW argp, Called(y, f, s, argp), Allocate(f.prim, s, argp, Above(s, argp))
    PROVE  Soundness'
<1> DEFINE p == f.prim
           a == Above(s, argp)
<1>1. /\ HeapOK(Mid) /\ ValueOK(Mid, handler) /\ ThunksOK(Mid, winds) /\ Len(a) \in Nat /\ AllOK(Mid, a)
      /\ \A i \in 1..Len(a) : ValueOK(Mid, a[i])
      /\ Len(a) >= Arity(p)[1] /\ Len(a) <= Arity(p)[2]
  BY Finds
<1>2. UNCHANGED <<cells, winds, handler>>
  BY DEF Allocate, Others, wind
<1>3. ValueOK(Mid, Nil)
  BY PlainOK
<1>4. CASE p = "cons"
  <2>1. ValueOK(Mid, a[1]) /\ ValueOK(Mid, a[2])
    BY <1>1, <1>4 DEF Arity
  <2> DEFINE u  == <<a[1]>>
             z  == a[2]
             ez == Elems(z)
             xs == u \o ez
             end == Ending(z)
  <2>2. AllOK(Mid, u)
    BY <2>1 DEF AllOK, IsSequence
  <2>3. Answer(s, argp, NewList(xs, end)) /\ lists' = AddList(xs, end)
    BY <1>4 DEF Allocate
  <2>4. ValueOK(Mid, z)
    BY <2>1
  <2> HIDE DEF u, z
  <2>5. AllOK(Mid, ez) /\ ValueOK(Mid, end)
    BY <1>1, <2>4, MidIs, ElemsOK
  <2> HIDE DEF ez, end
  <2>6. AllOK(Mid, xs)
    BY <2>2, <2>5, AllConcat
  <2> HIDE DEF xs
  <2> QED
    BY <1>2, <2>3, <2>5, <2>6, AnswerList
<1>5. CASE p = "list"
  <2> DEFINE end == Nil
             xs  == a
  <2>1. Answer(s, argp, NewList(xs, end)) /\ lists' = AddList(xs, end)
    BY <1>5 DEF Allocate
  <2>2. ValueOK(Mid, end) /\ AllOK(Mid, xs)
    BY <1>1, <1>3
  <2> HIDE DEF end, xs
  <2> QED
    BY <1>2, <2>1, <2>2, AnswerList
<1>6. CASE p = "%values->list"
  <2> DEFINE xs  == IF a[1].tag = "values" THEN lists[a[1].box].elems ELSE a
             end == Nil
  <2>1. Answer(s, argp, NewList(xs, end)) /\ lists' = AddList(xs, end)
    BY <1>6 DEF Allocate
  <2>2. AllOK(Mid, xs)
    <3>1. CASE a[1].tag = "values"
      <4>1. ValueOK(Mid, a[1])
        BY <1>1, <1>6 DEF Arity
      <4>2. a[1].box \in DOMAIN Mid.lists
        BY <3>1, <4>1 DEF ValueOK
      <4> QED
        BY <1>1, <3>1, <4>2, MidIs DEF HeapOK, ListOK
    <3>2. CASE a[1].tag # "values"
      BY <1>1, <3>2
    <3> QED
      BY <3>1, <3>2
  <2>3. ValueOK(Mid, end)
    BY <1>3
  <2> HIDE DEF end, xs
  <2> QED
    BY <1>2, <2>1, <2>2, <2>3, AnswerList
<1>7. CASE p = "values" /\ Len(a) = 1
  <2>1. Answer(s, argp, a[1]) /\ lists' = lists
    BY <1>7 DEF Allocate
  <2> DEFINE v == a[1]
  <2>2. Answer(s, argp, v) /\ ValueOK(Mid, v)
    BY <1>1, <1>7, <2>1
  <2> HIDE DEF v
  <2> QED
    BY <1>1, <1>2, <2>1, <2>2, AnswerHere
<1>8. CASE p = "values" /\ Len(a) # 1
  <2> DEFINE v  == ValuesBox(Len(lists) + 1)
             l  == [elems |-> a, ending |-> Nil]
             w2 == Now'
  <2>1. Answer(s, argp, v) /\ lists' = Append(lists, l)
    BY <1>8 DEF Allocate
  <2>2. /\ w2.code = Mid.code /\ w2.templates = Mid.templates /\ w2.frames = Mid.frames /\ w2.conts = Mid.conts
        /\ w2.lists = Append(Mid.lists, l)
    BY <2>1, MidIs, NextIs DEF Answer, image
  <2>3. ListOK(Mid, l)
    BY <1>1, <1>3 DEF ListOK
  <2>4. v.tag = "values" /\ v.box = Len(Mid.lists) + 1
    BY MidIs DEF ValuesBox
  <2> HIDE DEF l, w2, v
  <2>5. Grows(Mid, w2) /\ HeapOK(w2)
    BY <1>1, <2>2, <2>3, MoreLists
  <2>6. IsSequence(Mid.lists)
    BY <1>1 DEF HeapOK
  <2>7. v.box \in DOMAIN w2.lists
    BY <2>2, <2>4, <2>6, NewIs
  <2>8. ValueOK(w2, v)
    BY <2>4, <2>7 DEF ValueOK
  <2> QED
    BY <1>1, <1>2, <2>1, <2>5, <2>8, AnswerSound DEF w2
<1> QED
  BY <1>4, <1>5, <1>6, <1>7, <1>8 DEF Allocate

LEMMA WindPushKeeps ==
    ASSUME NEW y, NEW f, NEW s, NEW argp, Called(y, f, s, argp), WindPush(f.prim, s, argp, Above(s, argp))
    PROVE  Soundness'
<1> DEFINE p == f.prim
           a == Above(s, argp)
           fr == [before |-> a[1], after |-> a[2], id |-> nextWind]
           v == Nil
<1>1. /\ ValueOK(Mid, handler) /\ ThunksOK(Mid, winds) /\ Len(a) \in Nat
      /\ \A i \in 1..Len(a) : ValueOK(Mid, a[i])
      /\ Len(a) >= Arity(p)[1] /\ Len(a) <= Arity(p)[2]
  BY Finds
<1>2. /\ p = "%wind-push" /\ winds' = Append(winds, fr) /\ Answer(s, argp, v)
      /\ UNCHANGED <<lists, cells, handler>>
  BY DEF WindPush
<1>3. ValueOK(Mid, v)
  BY PlainOK
<1>4. ValueOK(Mid, fr.before) /\ ValueOK(Mid, fr.after)
  BY <1>1, <1>2 DEF Arity
<1> HIDE DEF v, fr
<1>5. ThunksOK(Mid, winds')
  <2>1. IsSequence(winds) /\ \A i \in 1..Len(winds) : ValueOK(Mid, winds[i].before) /\ ValueOK(Mid, winds[i].after)
    BY <1>1 DEF ThunksOK
  <2>2. /\ IsSequence(Append(winds, fr)) /\ Len(Append(winds, fr)) = Len(winds) + 1 /\ Len(winds) \in Nat
        /\ Append(winds, fr)[Len(winds) + 1] = fr
        /\ \A i \in 1..Len(winds) : Append(winds, fr)[i] = winds[i]
    BY <2>1, SequenceAppend, SequenceIs
  <2>3. \A i \in 1..Len(winds) + 1 : i \in 1..Len(winds) \/ i = Len(winds) + 1
    BY <2>2
  <2> QED
    BY <1>2, <1>4, <2>1, <2>2, <2>3 DEF ThunksOK
<1> QED
  BY <1>1, <1>2, <1>3, <1>5, AnswerHere

LEMMA WindPopKeeps ==
    ASSUME NEW y, NEW f, NEW s, NEW argp, Called(y, f, s, argp), WindPop(f.prim, s, argp, Above(s, argp))
    PROVE  Soundness'
<1> DEFINE v == Nil
<1>1. ValueOK(Mid, handler) /\ ThunksOK(Mid, winds)
  BY Finds
<1>2. /\ winds' = (IF winds = <<>> THEN winds ELSE Pop(winds)) /\ Answer(s, argp, v)
      /\ UNCHANGED <<lists, cells, handler>>
  BY DEF WindPop
<1>3. ValueOK(Mid, v)
  BY PlainOK
<1> HIDE DEF v
<1>4. ThunksOK(Mid, winds')
  <2>1. CASE winds = <<>>
    BY <1>1, <1>2, <2>1
  <2>2. CASE winds # <<>>
    <3>1. IsSequence(winds) /\ \A i \in 1..Len(winds) : ValueOK(Mid, winds[i].before) /\ ValueOK(Mid, winds[i].after)
      BY <1>1 DEF ThunksOK
    <3>2. /\ IsSequence(Pop(winds)) /\ Len(Pop(winds)) = Len(winds) - 1 /\ Len(winds) \in Nat
          /\ \A i \in 1..Len(Pop(winds)) : Pop(winds)[i] = winds[i]
      BY <2>2, <3>1, SequencePop, SequenceIs
    <3>3. \A i \in 1..Len(Pop(winds)) : i \in 1..Len(winds)
      BY <3>2
    <3> QED
      BY <1>2, <2>2, <3>1, <3>2, <3>3 DEF ThunksOK
  <2> QED
    BY <2>1, <2>2
<1> QED
  BY <1>1, <1>2, <1>3, <1>4, AnswerHere

LEMMA SetHandlerKeeps ==
    ASSUME NEW y, NEW f, NEW s, NEW argp, Called(y, f, s, argp), SetHandler(f.prim, s, argp, Above(s, argp))
    PROVE  Soundness'
<1> DEFINE a == Above(s, argp)
           v == Nil
<1>1. /\ ThunksOK(Mid, winds) /\ Len(a) \in Nat
      /\ \A i \in 1..Len(a) : ValueOK(Mid, a[i])
      /\ Len(a) >= Arity(f.prim)[1]
  BY Finds
<1>2. /\ f.prim = "%set-exception-handler!" /\ handler' = a[1] /\ Answer(s, argp, v)
      /\ UNCHANGED <<lists, cells, winds>>
  BY DEF SetHandler, wind
<1>3. ValueOK(Mid, v)
  BY PlainOK
<1>4. ValueOK(Mid, handler')
  BY <1>1, <1>2 DEF Arity
<1> HIDE DEF v
<1> QED
  BY <1>1, <1>2, <1>3, <1>4, AnswerHere

\* Ports, and random.
LEMMA PlainAnswer ==
    ASSUME NEW y, NEW f, NEW s, NEW argp, Called(y, f, s, argp),
           NEW v, Answer(s, argp, v), ValueOK(Mid, v), UNCHANGED <<lists, cells, handler, winds>>
    PROVE  Soundness'
<1>1. ValueOK(Mid, handler) /\ ThunksOK(Mid, winds)
  BY Finds
<1> QED
  BY <1>1, AnswerHere

LEMMA PortsKeep ==
    ASSUME NEW y, NEW f, NEW s, NEW argp, Called(y, f, s, argp), NEW a, a = Above(s, argp),
           \/ OpenPort(f.prim, s, argp, a) \/ ClosePort(f.prim, s, argp, a)
           \/ SetStdout(f.prim, s, argp, a) \/ Random(f.prim, s, argp, a)
    PROVE  Soundness'
<1>1. UNCHANGED <<lists, cells, handler, winds>>
  BY DEF OpenPort, ClosePort, SetStdout, Random, wind
<1>2. \E v : Answer(s, argp, v) /\ \/ v = True
                                   \/ \E x : v = PortRef(x) \/ v = Const(x)
  BY DEF OpenPort, ClosePort, SetStdout, Random
<1>3. PICK v : Answer(s, argp, v) /\ ValueOK(Mid, v)
  BY <1>2, PlainOK
<1> QED
  BY <1>1, <1>3, PlainAnswer

\* The process ends, by exit or for a closed port.
LEMMA EndKeeps ==
    ASSUME NEW y, NEW f, NEW s, NEW argp, Called(y, f, s, argp),
           UNCHANGED <<outer, frames, lists, image, cells, handler, winds>>, status' # "run"
    PROVE  Soundness'
<1>1. /\ HeapOK(Mid) /\ Grows(Now, Mid) /\ WorldOK(Now) /\ GlobalsOK(Now) /\ OuterOK(Now)
  BY Finds
<1>2. Now' = Mid
  BY DEF image, Now, Mid
<1>3. GlobalsOK(Now)' /\ OuterOK(Now)'
  BY <1>1, <1>2, GlobalsKept, OuterKept
<1>4. MachineOK'
  BY DEF MachineOK
<1> QED
  BY <1>1, <1>2, <1>3, <1>4 DEF Soundness

LEMMA DisplayKeeps ==
    ASSUME NEW y, NEW f, NEW s, NEW argp, Called(y, f, s, argp), Display(f.prim, s, argp, Above(s, argp))
    PROVE  Soundness'
<1> DEFINE a == Above(s, argp)
           v == a[1]
<1>1. /\ Len(a) \in Nat /\ \A i \in 1..Len(a) : ValueOK(Mid, a[i])
      /\ Len(a) >= Arity(f.prim)[1]
  BY Finds
<1>2. f.prim = "display" /\ UNCHANGED <<lists, cells, handler, winds>>
  BY DEF Display, wind
<1>3. ValueOK(Mid, v)
  BY <1>1, <1>2 DEF Arity
<1>4. \/ Answer(s, argp, v)
      \/ status' = "crash" /\ UNCHANGED <<outer, frames, image>>
  BY DEF Display, machine
<1> HIDE DEF v
<1>5. CASE Answer(s, argp, v)
  BY <1>2, <1>3, <1>5, PlainAnswer
<1>6. CASE status' = "crash" /\ UNCHANGED <<outer, frames, image>>
  BY <1>2, <1>6, EndKeeps
<1> QED
  BY <1>4, <1>5, <1>6

LEMMA ExitKeeps ==
    ASSUME NEW y, NEW f, NEW s, NEW argp, Called(y, f, s, argp), Exit(f.prim, Above(s, argp))
    PROVE  Soundness'
<1>1. UNCHANGED <<outer, frames, lists, image, cells, handler, winds>> /\ status' # "run"
  BY DEF Exit, machine, wind
<1> QED
  BY <1>1, EndKeeps

LEMMA EvalKeeps ==
    ASSUME CompilerIsSound, NEW y, NEW f, NEW s, NEW argp, Called(y, f, s, argp),
           Eval(f.prim, s, argp, Ins.op \in TailCalls, Above(s, argp))
    PROVE  Soundness'
<1> DEFINE a  == Above(s, argp)
           v  == a[1]
           xs == Elems(v)
           r  == CompileEval(DatumOf(v, xs), code, templates)
           w2 == Now'
<1>1. /\ HeapOK(Mid) /\ WorldOK(Mid) /\ WorldOK(Now) /\ Grows(Now, Mid) /\ AllOK(Mid, s)
      /\ Len(a) \in Nat /\ (\A i \in 1..Len(a) : ValueOK(Mid, a[i])) /\ Len(a) >= Arity(f.prim)[1]
  BY Finds
<1>2. f.prim = "eval"
  BY DEF Eval
<1>3. ValueOK(Mid, v)
  <2>1. Arity(f.prim)[1] = 2
    BY <1>2, ArityIs
  <2>2. Len(a) \in Nat /\ Len(a) >= Arity(f.prim)[1]
    BY <1>1
  <2>3. 1 \in 1..Len(a)
    BY <2>1, <2>2
  <2> QED
    BY <1>1, <2>3
<1>4. CASE r.id = 0
  <2>1. Fail(Raises("syntax error"))
    BY <1>4 DEF Eval, Datum
  <2> DEFINE e == Raises("syntax error")
  <2>2. Soundness /\ status = "run" /\ Fail(e)
    BY <2>1 DEF Called, Runs
  <2> HIDE DEF e
  <2> QED
    BY <2>2, FailKeeps
<1>5. CASE r.id # 0
  <2>1. /\ c' = r.id /\ code' = r.code /\ templates' = r.templates
        /\ Enter(s, argp, Ins.op \in TailCalls) /\ env' = <<>> /\ UNCHANGED <<frames, lists, cells, handler, winds>>
    BY <1>5 DEF Eval, Datum, Compiled, Others, wind
  <2> HIDE DEF v
  <2>2. AllOK(Mid, xs) /\ (IsPair(v) => xs # <<>>)
    BY <1>1, <1>3, MidIs, ElemsOK
  <2>3. IsSequence(xs) /\ (v.tag = "pair" => xs # <<>>)
    BY <2>2 DEF AllOK, IsPair
  <2> DEFINE given == {v} \cup {xs[i] : i \in 1..Len(xs)}
             end   == "RTN"
  <2>4. Adds(r, Mid.code, Mid.templates, end, given)
    <3>1. IsSequence(code) /\ IsSequence(templates)
      BY <1>1, MidIs DEF HeapOK, CodeOK
    <3> HIDE DEF xs
    <3> QED
      BY <2>3, <3>1, MidIs DEF CompilerIsSound
  <2>5. \A x \in given : ValueOK(Mid, x)
    BY <1>3, <2>2 DEF AllOK
  <2>6. /\ w2.code = r.code /\ w2.templates = r.templates
        /\ w2.frames = Mid.frames /\ w2.conts = Mid.conts /\ w2.lists = Mid.lists
    BY <2>1, MidIs, NextIs
  <2> HIDE DEF given, end, w2, r
  <2>7. /\ Grows(Mid, w2) /\ HeapOK(w2)
        /\ r.id \in DOMAIN w2.code /\ r.id \in Nat
        /\ Ends(w2.code[r.id], end) /\ Fits(w2, r.id, <<>>)
    BY <1>1, <1>5, <2>4, <2>5, <2>6, MoreBlocks
  <2>8. Grows(Now, w2) /\ AllOK(w2, s)
    BY <1>1, <2>7, GrowsTwice, AllGrows
  <2>9. c' \in DOMAIN code' /\ Ends(code'[c'], "RTN") /\ Fits(w2, c', env')
    BY <2>1, <2>6, <2>7 DEF end
  <2>10. Soundness /\ Runs(y) /\ Ins.op \in Calls /\ CallOK(f, s, argp) /\ f.tag # "cont"
    BY DEF Called
  <2>11. MachineOK'
    BY <2>1, <2>7, <2>8, <2>9, <2>10, EnterKeeps DEF w2
  <2>12. outer' = outer
    BY <2>1 DEF Enter
  <2> QED
    BY <2>1, <2>7, <2>8, <2>10, <2>11, <2>12, Sound DEF w2
<1> QED
  BY <1>4, <1>5

LEMMA LoadFinds ==
    ASSUME NEW a, Len(a) = 1, PrimError("load", a) = NoError
    PROVE  a[1].name \in DOMAIN Files
BY DEF PrimError, NoError, Raises, Arity

\* The machine that called load waits for it.
Suspended(s, argp, file) ==
    [stack |-> s, base |-> base, env |-> env, c |-> c, pc |-> pc + 1,
     dump |-> dump, scratch |-> scratch, argp |-> argp,
     file |-> file, next |-> 2]

LEMMA Suspends ==
    ASSUME NEW y, NEW f, NEW s, NEW argp, Called(y, f, s, argp), HeapOK(Now'), Grows(Mid, Now'),
           NEW file \in DOMAIN Files,
           NEW o, o = Suspended(s, argp, file)
    PROVE  SuspendedOK(Now', o)
<1> DEFINE w2 == Now'
<1>1. /\ WorldOK(Now) /\ WorldOK(Mid) /\ Grows(Now, Mid) /\ AllOK(Mid, s) /\ argp \in Nat /\ argp <= Len(s)
      /\ Len(s) \in Nat
  BY Finds, SequenceIs DEF AllOK
<1>2. /\ Runs(y) /\ Ins.op \in Calls /\ argp + Takes(Ins) = Len(stack) /\ pc + 1 < Len(code[c])
  BY DEF Called, CallOK
<1>3. Grows(Now, w2) /\ AllOK(w2, s)
  BY <1>1, GrowsTwice, AllGrows
<1>4. /\ Ins = code[c][pc + 1]
      /\ Takes(Ins) \in Nat /\ Gives(Ins) \in {0, 1} /\ y \in Nat
      /\ DepthAt(Now, Here) \in Nat /\ DepthAt(Now, Here) >= Takes(Ins)
      /\ Len(stack) \in Nat /\ Len(stack) >= y + DepthAt(Now, Here)
      /\ IsSequence(dump) /\ Placed(Now, Here, y) /\ Rests(Now, dump, Here, y)
  BY <1>2, Facts
<1>5. /\ o.stack = s /\ o.argp = argp /\ o.dump = dump /\ o.file = file /\ o.next = 2
      /\ o.c = Here.c /\ o.pc = Here.pc + 1 /\ o.base = Here.base /\ o.env = Here.env
      /\ {"stack", "base", "env", "c", "pc", "dump", "argp", "file", "next"} \subseteq DOMAIN o
  BY HereIs DEF Suspended
<1>6. Here.pc + 1 < Len(Now.code[Here.c]) /\ Ins = Now.code[Here.c][Here.pc + 1] /\ Ins.op \in Calls \cup {"SEL"}
  BY <1>2, <1>4, NowIs, HereIs
<1> HIDE DEF w2
<1>13. o.c = Here.c /\ o.pc = Here.pc + 1 /\ o.base = Here.base /\ o.env = Here.env
  BY <1>5
<1>7. /\ Placed(Now, o, y) /\ Rests(Now, dump, o, y) /\ Waiting(Now, o)
      /\ DepthAt(Now, o) \in Nat /\ DepthAt(Now, o) = DepthAt(Now, Here) - Takes(Ins) + Gives(Ins)
  BY <1>1, <1>4, <1>6, <1>13, GoesOn, SMTT(30)
<1>8. argp + 1 \in Nat /\ argp + 1 >= y + DepthAt(Now, o)
  BY <1>1, <1>2, <1>4, <1>7, SMTT(30)
<1>9. Stands(Now, dump, o, argp + 1)
  BY <1>4, <1>7, <1>8 DEF Stands, Entered
<1> DEFINE n == argp + 1
<1>10. Stands(Now, dump, o, n)
  BY <1>9
<1> HIDE DEF n
<1>11. Stands(w2, dump, o, n) /\ Waiting(w2, o)
  BY <1>1, <1>3, <1>7, <1>10, StandsGrows, WaitingGrows
<1>12. o.argp \in 0..Len(o.stack) /\ o.next \in Nat \ {0}
  BY <1>1, <1>5
<1> QED
  BY <1>3, <1>5, <1>11, <1>12 DEF SuspendedOK, w2, n

LEMMA LoadKeeps ==
    ASSUME CompilerIsSound, NEW y, NEW f, NEW s, NEW argp, Called(y, f, s, argp), Load(f.prim, s, argp, Above(s, argp))
    PROVE  Soundness'
<1> DEFINE a == Above(s, argp)
           file == a[1].name
           forms == Files[file].forms
           v == Nil
<1>1. /\ HeapOK(Mid) /\ WorldOK(Mid) /\ WorldOK(Now) /\ Grows(Now, Mid) /\ GlobalsOK(Now) /\ OuterOK(Now)
      /\ Len(a) \in Nat /\ Len(a) >= Arity(f.prim)[1] /\ Len(a) <= Arity(f.prim)[2]
      /\ PrimError(f.prim, a) = NoError
  BY Finds
<1>2. f.prim = "load" /\ UNCHANGED <<lists, cells, handler, winds>>
  BY DEF Load, Others, wind
<1>3. file \in DOMAIN Files
  <2>1. Len(a) = 1
    BY <1>1, <1>2 DEF Arity
  <2> HIDE DEF a
  <2> QED
    BY <1>1, <1>2, <2>1, LoadFinds
<1>4. CASE forms = <<>>
  <2>1. Answer(s, argp, v)
    BY <1>4 DEF Load
  <2>2. ValueOK(Mid, v)
    BY PlainOK
  <2> HIDE DEF v
  <2> QED
    BY <1>2, <2>1, <2>2, PlainAnswer
<1>5. CASE forms # <<>>
  <2> DEFINE o == Suspended(s, argp, file)
             e == forms[1]
  <2>1. outer' = Append(outer, o) /\ EvalTop(e) /\ frames' = frames
    BY <1>5 DEF Load, Suspended
  <2>2. e \in FormsRead
    <3>1. IsSequence(forms)
      BY <1>3, ProgramAssumption
    <3>2. 1 <= Len(forms)
      BY <1>5, <3>1, SequenceIs, SequenceNonEmpty
    <3> QED
      BY <1>3, <3>2, FileForm
  <2> HIDE DEF e
  <2>3. HeapOK(Now') /\ Grows(Mid, Now') /\ MachineOK'
    BY <1>1, <1>2, <2>1, <2>2, FormStarts
  <2>4. Grows(Now, Now')
    BY <1>1, <2>3, GrowsTwice
  <2>5. SuspendedOK(Now', o)
    <3> DEFINE file1 == file
    <3>1. file1 \in DOMAIN Files
      BY <1>3
    <3>2. o = Suspended(s, argp, file1)
      OBVIOUS
    <3> HIDE DEF o, file1
    <3> QED
      BY <2>3, <3>1, <3>2, Suspends
  <2> HIDE DEF o
  <2>6. OuterOK(Now)'
    <3>1. IsSequence(outer) /\ \A i \in 1..Len(outer) : SuspendedOK(Now', outer[i])
      BY <1>1, <2>4, SuspendedGrows DEF OuterOK
    <3>2. /\ IsSequence(Append(outer, o)) /\ Len(Append(outer, o)) = Len(outer) + 1 /\ Len(outer) \in Nat
          /\ Append(outer, o)[Len(outer) + 1] = o
          /\ \A i \in 1..Len(outer) : Append(outer, o)[i] = outer[i]
      BY <3>1, SequenceAppend, SequenceIs
    <3>3. \A i \in 1..Len(outer) + 1 : i \in 1..Len(outer) \/ i = Len(outer) + 1
      BY <3>2
    <3> QED
      BY <2>1, <2>5, <3>1, <3>2, <3>3 DEF OuterOK
  <2>7. GlobalsOK(Now)'
    BY <1>1, <1>2, <2>4, GlobalsKept
  <2> QED
    BY <2>3, <2>6, <2>7 DEF Soundness
<1> QED
  BY <1>4, <1>5

-----------------------------------------------------------------------------
(* Every step.                                                             *)

LEMMA CallKeeps ==
    ASSUME CompilerIsSound, Soundness, NEW y, Runs(y), Ins.op \in Calls, ErrorOf = NoError, DoCall,
           HeapOK(Mid), Grows(Now, Mid), Ins.op \in {"CALLCC", "TCALLCC"} => Len(conts) + 1 \in DOMAIN conts'
    PROVE  Soundness'
<1> DEFINE f    == Calling.f
           s    == Calling.s
           argp == Calling.argp
           tail == Ins.op \in TailCalls
<1>1. CallOK(f, s, argp)
  BY CallIsOK
<1>2. CallError(f, Above(s, argp)) = NoError
  BY CallChecked
<1>3. \/ CallPrimitive(f, s, argp, tail) \/ CallClosure(f, s, argp, tail) \/ CallContinuation(f, s, argp)
  BY DEF DoCall
<1> HIDE DEF f, s, argp
<1>4. CASE CallPrimitive(f, s, argp, tail)
  <2>1. Called(y, f, s, argp)
    BY <1>1, <1>2, <1>4 DEF Called, CallPrimitive
  <2> DEFINE a == Above(s, argp)
             p == f.prim
  <2>2. \/ Look(p, s, argp, a)     \/ Allocate(p, s, argp, a)
        \/ WindPush(p, s, argp, a) \/ WindPop(p, s, argp, a)
        \/ SetHandler(p, s, argp, a)
        \/ OpenPort(p, s, argp, a) \/ ClosePort(p, s, argp, a)
        \/ SetStdout(p, s, argp, a) \/ Display(p, s, argp, a)
        \/ Random(p, s, argp, a)
        \/ Exit(p, a)
        \/ Eval(p, s, argp, tail, a)
        \/ Load(p, s, argp, a)
    BY <1>4 DEF CallPrimitive
  <2> QED
    BY <2>1, <2>2, LookKeeps, AllocateKeeps, WindPushKeeps, WindPopKeeps, SetHandlerKeeps, PortsKeep,
       DisplayKeeps, ExitKeeps, EvalKeeps, LoadKeeps
<1>5. CASE CallClosure(f, s, argp, tail)
  <2>1. HeapOK(Now') /\ Grows(Now, Now') /\ MachineOK'
    BY <1>1, <1>2, <1>5, ClosureKeeps
  <2>2. UNCHANGED <<outer, cells, handler, winds>>
    BY <1>5 DEF CallClosure, Enter, Others, wind
  <2> QED
    BY <2>1, <2>2, Sound
<1>6. CASE CallContinuation(f, s, argp)
  BY <1>1, <1>6, ContinuationKeeps
<1> QED
  BY <1>3, <1>4, <1>5, <1>6

LEMMA ApplyKeeps ==
    ASSUME CompilerIsSound, Soundness, NEW y, Runs(y), ErrorOf = NoError, Apply
    PROVE  Soundness'
<1>1. Ins.op \in Calls /\ Ins.op \notin {"CALLCC", "TCALLCC"} /\ DoCall /\ conts' = conts
  BY DEF Apply
<1>2. Mid = Now /\ HeapOK(Now) /\ WorldOK(Now)
  BY <1>1, MidIs, HeapIsWorld DEF Soundness
<1>3. HeapOK(Mid) /\ Grows(Now, Mid)
  BY <1>2, GrowsItself
<1> QED
  BY <1>1, <1>3, CallKeeps

\* What call/cc copies may be gone on with.
Copied == [stack |-> Pop(stack), dump |-> dump, winds |-> winds,
           c |-> c, pc |-> pc + 1, env |-> env, base |-> base]

LEMMA CopyGoesOn ==
    ASSUME Soundness, NEW y, Runs(y), Ins.op \in {"CALLCC", "TCALLCC"}
    PROVE  ContOK(Now, Copied)
<1> DEFINE k == Copied
<1>0. Takes(Ins) = 1
  BY DEF Takes, Needs
<1>1. /\ Ins = code[c][pc + 1]
      /\ Takes(Ins) = 1 /\ Gives(Ins) \in {0, 1} /\ y \in Nat
      /\ DepthAt(Now, Here) \in Nat /\ DepthAt(Now, Here) >= Takes(Ins)
      /\ Len(stack) \in Nat /\ Len(stack) >= y + DepthAt(Now, Here)
      /\ IsSequence(dump) /\ IsSequence(stack) /\ WorldOK(Now) /\ Placed(Now, Here, y) /\ Rests(Now, dump, Here, y)
  BY <1>0, Facts
<1>2. pc + 1 < Len(code[c])
  BY NotLast DEF Runs
<1>3. /\ k.stack = Pop(stack) /\ k.dump = dump /\ k.winds = winds
      /\ k.c = Here.c /\ k.pc = Here.pc + 1 /\ k.base = Here.base /\ k.env = Here.env
  BY HereIs DEF Copied
<1> HIDE DEF k
<1>4. Here.pc + 1 < Len(Now.code[Here.c]) /\ Ins = Now.code[Here.c][Here.pc + 1] /\ Ins.op \in Calls \cup {"SEL"}
  BY <1>1, <1>2, NowIs, HereIs DEF Calls
<1>5. AllOK(Now, stack) /\ stack # <<>>
  BY <1>1, Unmarked, SequenceNonEmpty
<1>6. AllOK(Now, Pop(stack)) /\ Len(Pop(stack)) = Len(stack) - 1
  BY <1>5, AllPop
<1>7. /\ Placed(Now, k, y) /\ Rests(Now, dump, k, y) /\ Waiting(Now, k)
      /\ DepthAt(Now, k) \in Nat /\ DepthAt(Now, k) = DepthAt(Now, Here) - Takes(Ins) + Gives(Ins)
  BY <1>1, <1>3, <1>4, GoesOn
<1>8. Len(k.stack) + 1 \in Nat /\ Len(k.stack) + 1 >= y + DepthAt(Now, k)
  BY <1>1, <1>3, <1>6, <1>7
<1>9. Stands(Now, k.dump, k, Len(k.stack) + 1)
  BY <1>1, <1>3, <1>7, <1>8 DEF Stands, Entered
<1>10. ThunksOK(Now, k.winds)
  BY <1>3 DEF Soundness, GlobalsOK
<1>11. ContOK(Now, k)
  BY <1>3, <1>6, <1>7, <1>9, <1>10 DEF ContOK
<1> QED
  BY <1>11 DEF k

LEMMA CallCCKeeps ==
    ASSUME CompilerIsSound, Soundness, NEW y, Runs(y), ErrorOf = NoError, CallCC
    PROVE  Soundness'
<1> DEFINE k == Copied
<1>1. Ins.op \in {"CALLCC", "TCALLCC"} /\ conts' = Append(conts, k) /\ DoCall
  BY DEF CallCC, Op, Copied
<1>2. ContOK(Now, k)
  BY <1>1, CopyGoesOn
<1> HIDE DEF k
<1>3. HeapOK(Now) /\ IsSequence(conts)
  BY NowIs DEF Soundness, HeapOK
<1> DEFINE m == Mid
<1>4. /\ m.code = Now.code /\ m.templates = Now.templates /\ m.frames = Now.frames /\ m.lists = Now.lists
      /\ m.conts = Append(Now.conts, k)
  BY <1>1, MidIs, NowIs
<1> HIDE DEF m
<1>5. Grows(Now, m) /\ HeapOK(m)
  BY <1>2, <1>3, <1>4, MoreConts
<1>6. Len(conts) + 1 \in DOMAIN conts'
  BY <1>1, <1>3, NewIs
<1>7. Ins.op \in Calls
  BY <1>1 DEF Calls
<1> QED
  BY <1>1, <1>5, <1>6, <1>7, CallKeeps DEF m

LEMMA StepKeeps ==
    ASSUME CompilerIsSound, Soundness, Step
    PROVE  Soundness'
<1>1. status = "run" /\ \/ ErrorOf = NoError /\ Instruction
                        \/ \E e : Fail(e)
  BY DEF Step
<1>2. CASE \E e : Fail(e)
  BY <1>1, <1>2, FailKeeps
<1>3. CASE ErrorOf = NoError /\ Instruction
  <2>1. c # 0
    BY <1>3 DEF ErrorOf, NoError
  <2>2. PICK y : Runs(y)
    BY <1>1, <2>1, Begins
  <2> QED
    BY <1>3, <2>2, LoadValueKeeps, LoadScratchKeeps, ApplyKeeps, PackArgsKeeps, ReturnKeeps, StopKeeps,
       SelectKeeps, JoinKeeps, DefineKeeps, AssignKeeps, CallCCKeeps DEF Instruction
<1> QED
  BY <1>1, <1>2, <1>3

LEMMA NextKeeps ==
    ASSUME CompilerIsSound, Soundness, TypeOK, [Next]_vars
    PROVE  Soundness'
<1>1. Step \/ StartForm \/ NextInput \/ EndOfSession \/ UNCHANGED vars
  BY DEF Next, Over
<1> QED
  BY <1>1, StepKeeps, SessionKeeps

\* The startup library and the compiler keep the discipline, so the machine
\* does.
LEMMA AlwaysSound ==
    ASSUME CompilerIsSound, StartupIsSound
    PROVE  Spec => []Soundness
<1>1. Init => Soundness
  BY InitSound
<1>2. TypeOK /\ Soundness /\ [Next]_vars => Soundness'
  BY NextKeeps
<1>3. Spec => []TypeOK
  BY TypeCorrect
<1> QED
  BY <1>1, <1>2, <1>3, PTL DEF Spec

-----------------------------------------------------------------------------
(* Floors. What is above them follows from the levels; that they rise from *)
(* one dump entry to the next has to be carried along, because nothing is  *)
(* known of a dump below a level that goes back nowhere.                   *)

Ordered(d, b) ==
    \A i \in 1..Len(d) : d[i].base \in Nat /\ d[i].base <= (IF i < Len(d) THEN d[i + 1].base ELSE b)

Abandoned == \E n \in DOMAIN code : IsAbandonCode(code[n])

FloorsOK ==
    ~Abandoned =>
        /\ status = "run" => Ordered(dump, base)
        /\ \A k \in DOMAIN conts : Ordered(conts[k].dump, conts[k].base) /\ conts[k].base <= Len(conts[k].stack)
        /\ \A i \in 1..Len(outer) : Ordered(outer[i].dump, outer[i].base)

LEMMA OrderedPush ==
    ASSUME NEW d, IsSequence(d), NEW r, r.base \in Nat, Ordered(d, r.base), NEW b \in Nat, r.base <= b
    PROVE  Ordered(Append(d, r), b)
<1> DEFINE e == Append(d, r)
<1>1. /\ Len(e) = Len(d) + 1 /\ Len(d) \in Nat /\ e[Len(d) + 1] = r
      /\ \A i \in 1..Len(d) : e[i] = d[i]
  BY SequenceAppend, SequenceIs
<1> HIDE DEF e
<1>2. ASSUME NEW i \in 1..Len(e)
      PROVE  e[i].base \in Nat /\ e[i].base <= (IF i < Len(e) THEN e[i + 1].base ELSE b)
  <2>1. CASE i = Len(d) + 1
    BY <1>1, <2>1
  <2>2. CASE i = Len(d)
    <3>1. i \in 1..Len(d) /\ ~(i < Len(d)) /\ i < Len(e) /\ i + 1 = Len(d) + 1
      BY <1>1, <2>2
    <3>2. d[i].base \in Nat /\ d[i].base <= r.base
      BY <3>1 DEF Ordered
    <3> QED
      BY <1>1, <3>1, <3>2
  <2>3. CASE i < Len(d)
    <3>1. i \in 1..Len(d) /\ i + 1 \in 1..Len(d) /\ i < Len(e)
      BY <1>1, <2>3
    <3>2. d[i].base \in Nat /\ d[i].base <= d[i + 1].base
      BY <2>3, <3>1 DEF Ordered
    <3> QED
      BY <1>1, <3>1, <3>2
  <2> QED
    BY <1>1, <2>1, <2>2, <2>3
<1>3. Ordered(e, b)
  BY <1>2 DEF Ordered
<1> QED
  BY <1>3 DEF e

LEMMA OrderedPop ==
    ASSUME NEW d, IsSequence(d), d # <<>>, NEW b, Ordered(d, b)
    PROVE  Top(d).base \in Nat /\ Top(d).base <= b /\ Ordered(Pop(d), Top(d).base)
<1> DEFINE e == Pop(d)
<1>1. /\ Len(d) \in Nat /\ Len(d) > 0 /\ Len(e) = Len(d) - 1
      /\ \A i \in 1..Len(e) : e[i] = d[i]
  BY SequencePop, SequenceIs, SequenceNonEmpty
<1>2. Len(d) \in 1..Len(d) /\ ~(Len(d) < Len(d))
  BY <1>1
<1>3. Top(d) = d[Len(d)] /\ d[Len(d)].base \in Nat /\ d[Len(d)].base <= b
  BY <1>2 DEF Top, Ordered
<1> HIDE DEF e
<1>4. ASSUME NEW i \in 1..Len(e)
      PROVE  e[i].base \in Nat /\ e[i].base <= (IF i < Len(e) THEN e[i + 1].base ELSE Top(d).base)
  <2>1. i \in 1..Len(d) /\ i < Len(d)
    BY <1>1
  <2>2. d[i].base \in Nat /\ d[i].base <= d[i + 1].base
    BY <2>1 DEF Ordered
  <2>3. CASE i < Len(e)
    <3>1. i + 1 \in 1..Len(e)
      BY <1>1, <2>3
    <3> QED
      BY <1>1, <2>2, <2>3, <3>1
  <2>4. CASE ~(i < Len(e))
    <3>1. i + 1 = Len(d)
      BY <1>1, <2>4
    <3> QED
      BY <1>1, <1>3, <2>2, <2>4, <3>1
  <2> QED
    BY <2>3, <2>4
<1>5. Ordered(e, Top(d).base)
  BY <1>4 DEF Ordered
<1> QED
  BY <1>3, <1>5 DEF e

LEMMA OrderedAbove ==
    ASSUME NEW d, NEW b \in Nat, NEW k \in Nat, b <= k, Ordered(d, b)
    PROVE  Ordered(d, k)
BY DEF Ordered

\* How a step from a running machine changes what is ordered.
DumpMoves ==
    \/ UNCHANGED <<dump, base>>
    \/ dump' = <<>>
    \/ dump # <<>> /\ dump' = Pop(dump) /\ base' \in {base, Top(dump).base}
    \/ \E r : r.base = base /\ dump' = Append(dump, r) /\ base' \in Nat /\ base <= base'
    \/ \E k \in DOMAIN conts : dump' = conts[k].dump /\ base' = conts[k].base
    \/ outer # <<>> /\ dump' = Top(outer).dump /\ base' = Top(outer).base
    \/ status' # "run"

OuterMoves ==
    \/ outer' = outer
    \/ outer' = <<>>
    \/ \E o : o.dump = dump /\ o.base = base /\ outer' = Append(outer, o)
    \/ outer # <<>> /\ outer' = Pop(outer)
    \/ outer # <<>> /\ outer' = [outer EXCEPT ![Len(outer)].next = @ + 1]

ContMoves ==
    \/ conts' = conts
    \/ \E k : conts' = Append(conts, k) /\ k.dump = dump /\ k.base = base /\ base <= Len(k.stack)

Moves == DumpMoves /\ OuterMoves /\ Extends(code', code)

\* What the error leaves: nothing is said of floors from then on.
LEMMA AbandonedThen ==
    ASSUME IsSequence(code), NEW msg, Abandon(msg)
    PROVE  Abandoned'
<1> DEFINE b == <<LDC(ErrorObject(msg)), LDC(cells["raise"]), APP(1), [op |-> "STOP"]>>
<1>1. code' = Append(code, b)
  BY DEF Abandon
<1>2. IsAbandonCode(b)
  BY Four DEF IsAbandonCode, LDC, ErrorObject
<1> HIDE DEF b
<1>3. Len(code) + 1 \in DOMAIN code' /\ code'[Len(code) + 1] = b
  BY <1>1, NewIs
<1> QED
  BY <1>2, <1>3 DEF Abandoned

LEMMA StillAbandoned ==
    ASSUME IsSequence(code), Extends(code', code), Abandoned
    PROVE  Abandoned'
BY ExtendsDomain DEF Abandoned

\* The floor of a running machine is below its operands.
LEMMA FloorBelow ==
    Soundness /\ status = "run" => base \in Nat /\ base <= Len(stack) /\ IsSequence(dump)
<1> SUFFICES ASSUME Soundness, status = "run" PROVE base \in Nat /\ base <= Len(stack) /\ IsSequence(dump)
  OBVIOUS
<1>1. CASE c = 0
  <2>1. stack = <<>> /\ base = 0 /\ dump = <<>>
    BY <1>1 DEF Soundness, MachineOK
  <2> QED
    BY <2>1, EmptyOK
<1>2. CASE c # 0
  <2>1. PICK y : Runs(y)
    BY <1>2, Begins
  <2>2. /\ base \in Nat /\ y \in Nat /\ base <= y /\ Len(stack) \in Nat
        /\ DepthAt(Now, Here) \in Nat /\ Len(stack) >= y + DepthAt(Now, Here) /\ IsSequence(dump)
    BY <2>1, Facts
  <2> QED
    BY <2>2
<1> QED
  BY <1>1, <1>2

LEMMA FloorsKept ==
    ASSUME Soundness, FloorsOK, status = "run", Moves, ContMoves,
           status' = "run" => base' \in Nat
    PROVE  FloorsOK'
<1> SUFFICES ASSUME ~Abandoned'
             PROVE  /\ status' = "run" => Ordered(dump', base')
                    /\ \A k \in DOMAIN conts' : Ordered(conts'[k].dump, conts'[k].base) /\ conts'[k].base <= Len(conts'[k].stack)
                    /\ \A i \in 1..Len(outer') : Ordered(outer'[i].dump, outer'[i].base)
  BY DEF FloorsOK
<1>1. IsSequence(code) /\ IsSequence(conts) /\ IsSequence(outer)
  BY NowIs DEF Soundness, HeapOK, CodeOK, OuterOK
<1>2. ~Abandoned
  BY <1>1, StillAbandoned DEF Moves
<1>3. /\ Ordered(dump, base)
      /\ \A k \in DOMAIN conts : Ordered(conts[k].dump, conts[k].base) /\ conts[k].base <= Len(conts[k].stack)
      /\ \A i \in 1..Len(outer) : Ordered(outer[i].dump, outer[i].base)
  BY <1>2 DEF FloorsOK
<1>4. base \in Nat /\ IsSequence(dump)
  BY FloorBelow
<1>5. ASSUME status' = "run" PROVE Ordered(dump', base')
  <2>1. CASE UNCHANGED <<dump, base>>
    BY <1>3, <2>1
  <2>2. CASE dump' = <<>>
    BY <2>2 DEF Ordered
  <2>3. CASE dump # <<>> /\ dump' = Pop(dump) /\ base' \in {base, Top(dump).base}
    <3>1. Top(dump).base \in Nat /\ Top(dump).base <= base /\ Ordered(Pop(dump), Top(dump).base)
      BY <1>3, <1>4, <2>3, OrderedPop
    <3> DEFINE d == Pop(dump)
               t == Top(dump).base
    <3>2. t \in Nat /\ t <= base /\ Ordered(d, t)
      BY <3>1
    <3> HIDE DEF d, t
    <3>3. Ordered(d, base)
      BY <1>4, <3>2, OrderedAbove
    <3> QED
      BY <2>3, <3>2, <3>3 DEF d, t
  <2>4. CASE \E r : r.base = base /\ dump' = Append(dump, r) /\ base' \in Nat /\ base <= base'
    <3>1. PICK r : r.base = base /\ dump' = Append(dump, r) /\ base' \in Nat /\ base <= base'
      BY <2>4
    <3> DEFINE b == base'
    <3>2. b \in Nat /\ r.base <= b /\ Ordered(dump, r.base) /\ r.base \in Nat
      BY <1>3, <1>4, <3>1
    <3> HIDE DEF b
    <3>3. Ordered(Append(dump, r), b)
      BY <1>4, <3>2, OrderedPush
    <3> QED
      BY <3>1, <3>3 DEF b
  <2>5. CASE \E k \in DOMAIN conts : dump' = conts[k].dump /\ base' = conts[k].base
    BY <1>3, <2>5
  <2>6. CASE outer # <<>> /\ dump' = Top(outer).dump /\ base' = Top(outer).base
    <3>1. Len(outer) \in 1..Len(outer)
      BY <1>1, <2>6, SequenceIs, SequenceNonEmpty
    <3> QED
      BY <1>3, <2>6, <3>1 DEF Top
  <2> QED
    BY <1>5, <2>1, <2>2, <2>3, <2>4, <2>5, <2>6 DEF Moves, DumpMoves
<1>6. ASSUME NEW k \in DOMAIN conts'
      PROVE  Ordered(conts'[k].dump, conts'[k].base) /\ conts'[k].base <= Len(conts'[k].stack)
  <2>1. CASE conts' = conts
    BY <1>3, <2>1
  <2>2. CASE \E h : conts' = Append(conts, h) /\ h.dump = dump /\ h.base = base /\ base <= Len(h.stack)
    <3>1. PICK h : conts' = Append(conts, h) /\ h.dump = dump /\ h.base = base /\ base <= Len(h.stack)
      BY <2>2
    <3>2. CASE k \in DOMAIN conts
      BY <1>1, <1>3, <3>1, <3>2, NewIs
    <3>3. CASE k = Len(conts) + 1
      <4>1. conts'[k] = h
        BY <1>1, <3>1, <3>3, NewIs
      <4> QED
        BY <1>3, <3>1, <4>1
    <3> QED
      BY <1>1, <3>1, <3>2, <3>3, NewIs
  <2> QED
    BY <2>1, <2>2 DEF ContMoves
<1>7. ASSUME NEW i \in 1..Len(outer')
      PROVE  Ordered(outer'[i].dump, outer'[i].base)
  <2>1. CASE outer' = outer
    BY <1>3, <2>1
  <2>2. CASE outer' = <<>>
    BY <2>2
  <2>3. CASE \E o : o.dump = dump /\ o.base = base /\ outer' = Append(outer, o)
    <3>1. PICK o : o.dump = dump /\ o.base = base /\ outer' = Append(outer, o)
      BY <2>3
    <3>2. /\ Len(outer') = Len(outer) + 1 /\ Len(outer) \in Nat
          /\ outer'[Len(outer) + 1] = o
          /\ \A j \in 1..Len(outer) : outer'[j] = outer[j]
      BY <1>1, <3>1, SequenceAppend, SequenceIs
    <3>3. i \in 1..Len(outer) \/ i = Len(outer) + 1
      BY <3>2
    <3> QED
      BY <1>3, <3>1, <3>2, <3>3
  <2>4. CASE outer # <<>> /\ outer' = Pop(outer)
    <3>1. /\ Len(outer') = Len(outer) - 1 /\ Len(outer) \in Nat
          /\ \A j \in 1..Len(outer') : outer'[j] = outer[j]
      BY <1>1, <2>4, SequencePop, SequenceIs
    <3>2. i \in 1..Len(outer)
      BY <3>1
    <3> QED
      BY <1>3, <3>1, <3>2
  <2>5. CASE outer # <<>> /\ outer' = [outer EXCEPT ![Len(outer)].next = @ + 1]
    <3> DEFINE m == Len(outer)
               p == [outer[m] EXCEPT !.next = @ + 1]
    <3>1. outer' = Updated(outer, m, p)
      BY <2>5 DEF Updated
    <3>2. m \in 1..Len(outer)
      BY <1>1, <2>5, SequenceIs, SequenceNonEmpty
    <3>3. {"dump", "base", "next"} \subseteq DOMAIN outer[m]
      BY <3>2 DEF Soundness, OuterOK, SuspendedOK
    <3>4. p.dump = outer[m].dump /\ p.base = outer[m].base
      BY <3>3
    <3> HIDE DEF p, m
    <3>5. Len(outer') = Len(outer) /\ \A j \in 1..Len(outer) : outer'[j] = IF j = m THEN p ELSE outer[j]
      BY <1>1, <3>1, <3>2, SequenceUpdated
    <3> QED
      BY <1>3, <3>2, <3>4, <3>5
  <2> QED
    BY <2>1, <2>2, <2>3, <2>4, <2>5 DEF Moves, OuterMoves
<1> QED
  BY <1>5, <1>6, <1>7

\* The compiler adds code.
LEMMA FormExtends ==
    ASSUME CompilerIsSound, Soundness, NEW e \in FormsRead, EvalTop(e)
    PROVE  Extends(code', code)
<1>1. IsSequence(code) /\ IsSequence(templates)
  BY NowIs DEF Soundness, HeapOK, CodeOK
<1>2. Adds(CompileTop(e, code, templates), code, templates, "STOP", {}) /\ code' = CompileTop(e, code, templates).code
  BY <1>1 DEF CompilerIsSound, EvalTop, Compiled
<1> QED
  BY <1>1, <1>2, ExtendsItself DEF Adds

LEMMA EvalExtends ==
    ASSUME CompilerIsSound, NEW y, NEW f, NEW s, NEW argp, Called(y, f, s, argp),
           NEW v, ValueOK(Mid, v), Compiled(CompileEval(Datum(v), code, templates))
    PROVE  Extends(code', code)
<1> DEFINE xs == Elems(v)
<1>1. HeapOK(Mid)
  BY Finds
<1>2. AllOK(Mid, xs) /\ (IsPair(v) => xs # <<>>)
  BY <1>1, MidIs, ElemsOK
<1>3. IsSequence(xs) /\ (v.tag = "pair" => xs # <<>>)
  BY <1>2 DEF AllOK, IsPair
<1>4. IsSequence(code) /\ IsSequence(templates)
  BY <1>1, MidIs DEF HeapOK, CodeOK
<1>5. code' = CompileEval(DatumOf(v, xs), code, templates).code
  BY DEF Compiled, Datum
<1> HIDE DEF xs
<1>6. Adds(CompileEval(DatumOf(v, xs), code, templates), code, templates, "RTN", {v} \cup {xs[i] : i \in 1..Len(xs)})
  BY <1>3, <1>4 DEF CompilerIsSound
<1> QED
  BY <1>4, <1>5, <1>6, ExtendsItself DEF Adds

LEMMA FinishMoves ==
    ASSUME CompilerIsSound, Soundness, NEW v, Finish(v)
    PROVE  Moves
<1>1. IsSequence(code) /\ IsSequence(outer)
  BY NowIs DEF Soundness, HeapOK, CodeOK, OuterOK
<1>2. CASE outer = <<>>
  <2>1. outer' = outer /\ code' = code /\ status' = "idle"
    BY <1>2 DEF Finish, machine, image
  <2> QED
    BY <1>1, <2>1, ExtendsItself DEF Moves, DumpMoves, OuterMoves
<1>3. CASE outer # <<>>
  <2> DEFINE o == Top(outer)
             forms == Files[o.file].forms
  <2>1. CASE o.next <= Len(forms)
    <3>1. EvalTop(forms[o.next]) /\ outer' = [outer EXCEPT ![Len(outer)].next = @ + 1]
      BY <1>3, <2>1 DEF Finish
    <3>2. o.file \in DOMAIN Files /\ o.next \in Nat \ {0}
      <4>1. Len(outer) \in 1..Len(outer)
        BY <1>1, <1>3, SequenceIs, SequenceNonEmpty
      <4> QED
        BY <4>1 DEF Soundness, OuterOK, SuspendedOK, Top
    <3>3. forms[o.next] \in FormsRead
      BY <2>1, <3>2, FileForm
    <3>4. dump' = <<>>
      BY <3>1 DEF EvalTop, EmptyMachine
    <3>5. Extends(code', code)
      BY <3>1, <3>3, FormExtends
    <3> QED
      BY <1>3, <3>1, <3>4, <3>5 DEF Moves, DumpMoves, OuterMoves
  <2>2. CASE ~(o.next <= Len(forms))
    <3>1. outer' = Pop(outer) /\ base' = o.base /\ dump' = o.dump /\ code' = code
      BY <1>3, <2>2 DEF Finish, image
    <3> QED
      BY <1>1, <1>3, <3>1, ExtendsItself DEF Moves, DumpMoves, OuterMoves
  <2> QED
    BY <2>1, <2>2
<1> QED
  BY <1>2, <1>3

LEMMA PrimitiveMoves ==
    ASSUME CompilerIsSound, NEW y, NEW f, NEW s, NEW argp, Called(y, f, s, argp),
           CallPrimitive(f, s, argp, Ins.op \in TailCalls)
    PROVE  Moves \/ \E e : Fail(e)
<1> DEFINE a == Above(s, argp)
           p == f.prim
<1>1. /\ IsSequence(code) /\ base \in Nat /\ argp \in Nat /\ base <= argp
      /\ Len(a) \in Nat /\ (\A i \in 1..Len(a) : ValueOK(Mid, a[i])) /\ Len(a) >= Arity(p)[1] /\ Len(a) <= Arity(p)[2]
      /\ PrimError(p, a) = NoError
  <2>1. CallOK(f, s, argp) /\ Runs(y)
    BY DEF Called
  <2>2. base \in Nat /\ argp \in Nat /\ base <= argp
    BY <2>1, BelowArguments
  <2> QED
    BY <2>2, Finds, NowIs DEF WorldOK, CodeOK
<1>2. CASE \E v : Answer(s, argp, v)
  <2>1. UNCHANGED <<dump, base, outer, code>>
    BY <1>2 DEF Answer, image
  <2> QED
    BY <1>1, <2>1, ExtendsItself DEF Moves, DumpMoves, OuterMoves
<1>3. CASE Exit(p, a) \/ (Display(p, s, argp, a) /\ ~\E v : Answer(s, argp, v))
  <2>1. UNCHANGED <<dump, base, outer, code>>
    BY <1>3 DEF Exit, Display, machine, regs, image
  <2> QED
    BY <1>1, <2>1, ExtendsItself DEF Moves, DumpMoves, OuterMoves
<1>4. CASE Eval(p, s, argp, Ins.op \in TailCalls, a)
  <2> DEFINE r == CompileEval(Datum(a[1]), code, templates)
  <2>1. CASE r.id = 0
    BY <1>4, <2>1 DEF Eval
  <2>2. CASE r.id # 0
    <3>1. Compiled(r) /\ Enter(s, argp, Ins.op \in TailCalls)
      BY <1>4, <2>2 DEF Eval
    <3>2. ValueOK(Mid, a[1])
      <4>1. Arity(p)[1] = 2
        BY <1>4, ArityIs DEF Eval
      <4>2. 1 \in 1..Len(a)
        BY <1>1, <4>1
      <4> QED
        BY <1>1, <4>2
    <3> DEFINE v == a[1]
    <3>3. ValueOK(Mid, v) /\ Compiled(CompileEval(Datum(v), code, templates))
      BY <3>1, <3>2
    <3> HIDE DEF v
    <3>4. Extends(code', code)
      BY <3>3, EvalExtends
    <3>5. DumpMoves /\ outer' = outer
      <4>1. \/ UNCHANGED <<dump, base>>
            \/ base' = argp /\ dump' = Append(dump, [c |-> c, pc |-> pc + 1, env |-> env, base |-> base])
        BY <3>1 DEF Enter
      <4> QED
        BY <1>1, <3>1, <4>1 DEF DumpMoves, Enter
    <3> QED
      BY <3>4, <3>5 DEF Moves, OuterMoves
  <2> QED
    BY <2>1, <2>2
<1>5. CASE Load(p, s, argp, a) /\ ~\E v : Answer(s, argp, v)
  <2> DEFINE file  == a[1].name
             forms == Files[file].forms
             o == [stack |-> s, base |-> base, env |-> env, c |-> c, pc |-> pc + 1,
                   dump |-> dump, scratch |-> scratch, argp |-> argp,
                   file |-> file, next |-> 2]
  <2>1. p = "load" /\ forms # <<>> /\ outer' = Append(outer, o) /\ EvalTop(forms[1])
    BY <1>5 DEF Load
  <2>2. Len(a) = 1
    <3>1. Arity(p)[1] = 1 /\ Arity(p)[2] = 1
      BY <2>1, ArityIs
    <3>2. Len(a) \in Nat /\ Len(a) >= Arity(p)[1] /\ Len(a) <= Arity(p)[2]
      BY <1>1
    <3> HIDE DEF a, p, file, forms, o
    <3> DEFINE n == Len(a)
    <3>3. n \in Nat /\ n >= 1 /\ n <= 1
      BY <3>1, <3>2
    <3> HIDE DEF n
    <3>4. n = 1
      BY <3>3
    <3> QED
      BY <3>4 DEF n
  <2>3. file \in DOMAIN Files
    <3> HIDE DEF a
    <3> QED
      BY <1>1, <2>1, <2>2, LoadFinds
  <2>4. forms[1] \in FormsRead
    <3>1. IsSequence(forms)
      BY <2>3, ProgramAssumption
    <3>2. 1 <= Len(forms)
      BY <2>1, <3>1, SequenceIs, SequenceNonEmpty
    <3> QED
      BY <2>3, <3>2, FileForm
  <2>5. Extends(code', code)
    BY <2>1, <2>4, FormExtends DEF Called
  <2>6. dump' = <<>>
    BY <2>1 DEF EvalTop, EmptyMachine
  <2>7. o.dump = dump /\ o.base = base
    OBVIOUS
  <2> QED
    BY <2>1, <2>5, <2>6, <2>7 DEF Moves, DumpMoves, OuterMoves
<1>6. \/ \E v : Answer(s, argp, v)
      \/ Exit(p, a) \/ Display(p, s, argp, a) \/ Eval(p, s, argp, Ins.op \in TailCalls, a) \/ Load(p, s, argp, a)
  BY DEF CallPrimitive, Look, Allocate, WindPush, WindPop, SetHandler, OpenPort, ClosePort, SetStdout, Random
<1> QED
  BY <1>2, <1>3, <1>4, <1>5, <1>6

LEMMA CallMoves ==
    ASSUME CompilerIsSound, Soundness, NEW y, Runs(y), Ins.op \in Calls, ErrorOf = NoError, DoCall,
           HeapOK(Mid), Grows(Now, Mid), Ins.op \in {"CALLCC", "TCALLCC"} => Len(conts) + 1 \in DOMAIN conts'
    PROVE  Moves \/ \E e : Fail(e)
<1> DEFINE f    == Calling.f
           s    == Calling.s
           argp == Calling.argp
           tail == Ins.op \in TailCalls
<1>1. CallOK(f, s, argp) /\ CallError(f, Above(s, argp)) = NoError
  BY CallIsOK, CallChecked
<1>2. \/ CallPrimitive(f, s, argp, tail) \/ CallClosure(f, s, argp, tail) \/ CallContinuation(f, s, argp)
  BY DEF DoCall
<1> HIDE DEF f, s, argp
<1>3. IsSequence(code) /\ base \in Nat /\ argp \in Nat /\ base <= argp
  BY <1>1, NowIs, BelowArguments, Facts DEF WorldOK, CodeOK
<1>4. CASE CallPrimitive(f, s, argp, tail)
  <2>1. Called(y, f, s, argp)
    BY <1>1, <1>4 DEF Called, CallPrimitive
  <2> QED
    BY <1>4, <2>1, PrimitiveMoves
<1>5. CASE CallClosure(f, s, argp, tail)
  <2>1. Enter(s, argp, tail) /\ code' = code
    BY <1>5 DEF CallClosure, image
  <2>2. \/ UNCHANGED <<dump, base>>
        \/ base' = argp /\ dump' = Append(dump, [c |-> c, pc |-> pc + 1, env |-> env, base |-> base])
    BY <2>1 DEF Enter
  <2>3. DumpMoves
    BY <1>3, <2>2 DEF DumpMoves
  <2> QED
    BY <1>3, <2>1, <2>3, ExtendsItself DEF Moves, OuterMoves, Enter
<1>6. CASE CallContinuation(f, s, argp)
  <2>1. /\ f.cont \in DOMAIN conts /\ outer' = outer
        /\ \/ dump' = conts[f.cont].dump /\ base' = conts[f.cont].base /\ code' = code
           \/ UNCHANGED <<dump, base>> /\ \E b : code' = Append(code, b)
    BY <1>6 DEF CallContinuation
  <2>2. Extends(code', code)
    BY <1>3, <2>1, ExtendsItself, ExtendsAppend
  <2> QED
    BY <2>1, <2>2 DEF Moves, DumpMoves, OuterMoves
<1> QED
  BY <1>2, <1>4, <1>5, <1>6

LEMMA FailFloors ==
    ASSUME Soundness, FloorsOK, status = "run", NEW e, Fail(e), status' = "run" => base' \in Nat
    PROVE  FloorsOK'
<1>1. IsSequence(code) /\ conts' = conts
  BY NowIs DEF Soundness, HeapOK, CodeOK, Fail
<1>2. CASE \E msg : Abandon(msg)
  <2>1. Abandoned'
    BY <1>1, <1>2, AbandonedThen
  <2> QED
    BY <2>1 DEF FloorsOK
<1>3. CASE \E msg : Die(msg)
  <2>1. code' = code /\ outer' = <<>> /\ status' # "run"
    BY <1>3 DEF Die
  <2>2. Moves /\ ContMoves
    BY <1>1, <2>1, ExtendsItself DEF Moves, DumpMoves, OuterMoves, ContMoves
  <2> QED
    BY <2>2, FloorsKept
<1> QED
  BY <1>2, <1>3 DEF Fail

\* The floor of a machine that runs is a number.
FloorIsNat == status = "run" => base \in Nat

LEMMA StepFloors ==
    ASSUME CompilerIsSound, Soundness, FloorIsNat', FloorsOK, Step
    PROVE  FloorsOK'
<1>1. status = "run" /\ \/ ErrorOf = NoError /\ Instruction
                        \/ \E e : Fail(e)
  BY DEF Step
<1>2. status' = "run" => base' \in Nat
  BY DEF FloorIsNat
<1>3. CASE \E e : Fail(e)
  BY <1>1, <1>2, <1>3, FailFloors
<1>4. CASE ErrorOf = NoError /\ Instruction
  <2>1. c # 0
    BY <1>4 DEF ErrorOf, NoError
  <2>2. PICK y : Runs(y)
    BY <1>1, <2>1, Begins
  <2>3. /\ IsSequence(code) /\ IsSequence(dump) /\ base \in Nat /\ HeapOK(Now) /\ WorldOK(Now) /\ IsSequence(conts)
    BY <2>2, Facts, NowIs DEF Soundness, HeapOK, CodeOK
  <2>4. CASE LoadValue \/ LoadScratch \/ PackArgs \/ Define \/ Assign
    <3>1. UNCHANGED <<dump, base, outer, code, conts>>
      BY <2>4 DEF LoadValue, LoadScratch, PackArgs, Define, Assign, Continue, Outside, heap, image
    <3> QED
      BY <1>1, <1>2, <2>3, <3>1, ExtendsItself, FloorsKept DEF Moves, DumpMoves, OuterMoves, ContMoves
  <2>5. CASE Select \/ Join
    <3>1. UNCHANGED <<base, outer, code, conts>>
      BY <2>5 DEF Select, Join, Outside, heap, image
    <3>2. DumpMoves
      <4>1. CASE Select
        <5>1. dump' = dump \/ \E r : r.base = base /\ dump' = Append(dump, r)
          BY <4>1 DEF Select
        <5> QED
          BY <2>3, <3>1, <5>1 DEF DumpMoves
      <4>2. CASE Join
        <5>1. dump # <<>>
          BY <1>4, <2>1, <4>2 DEF ErrorOf, Broken, Stops, NoError, Join
        <5> QED
          BY <3>1, <4>2, <5>1 DEF DumpMoves, Join
      <4> QED
        BY <2>5, <4>1, <4>2
    <3> QED
      BY <1>1, <1>2, <2>3, <3>1, <3>2, ExtendsItself, FloorsKept DEF Moves, OuterMoves, ContMoves
  <2>6. CASE Return \/ Stop
    <3>1. conts' = conts
      BY <2>6 DEF Return, Stop
    <3>2. CASE \E v : Finish(v)
      BY <1>1, <1>2, <3>1, <3>2, FinishMoves, FloorsKept DEF ContMoves
    <3>3. CASE dump # <<>> /\ dump' = Pop(dump) /\ base' = Top(dump).base /\ outer' = outer /\ code' = code
      BY <1>1, <1>2, <2>3, <3>1, <3>3, ExtendsItself, FloorsKept DEF Moves, DumpMoves, OuterMoves, ContMoves
    <3>4. \/ \E v : Finish(v)
          \/ dump # <<>> /\ dump' = Pop(dump) /\ base' = Top(dump).base /\ outer' = outer /\ code' = code
      BY <2>6 DEF Return, Stop, image
    <3> QED
      BY <3>2, <3>3, <3>4
  <2>7. CASE Apply
    <3>1. Ins.op \in Calls /\ Ins.op \notin {"CALLCC", "TCALLCC"} /\ DoCall /\ conts' = conts
      BY <2>7 DEF Apply
    <3>2. HeapOK(Mid) /\ Grows(Now, Mid)
      BY <2>3, <3>1, MidIs, GrowsItself
    <3>3. Moves \/ \E e : Fail(e)
      BY <1>4, <2>2, <3>1, <3>2, CallMoves
    <3> QED
      BY <1>1, <1>2, <3>1, <3>3, FailFloors, FloorsKept DEF ContMoves
  <2>8. CASE CallCC
    <3> DEFINE k == Copied
               m == Mid
    <3>1. Ins.op \in {"CALLCC", "TCALLCC"} /\ conts' = Append(conts, k) /\ DoCall
      BY <2>8 DEF CallCC, Op, Copied
    <3>2. ContOK(Now, k)
      BY <2>2, <3>1, CopyGoesOn
    <3>3. k.dump = dump /\ k.base = base /\ k.stack = Pop(stack)
      BY DEF Copied
    <3> HIDE DEF k
    <3>4. /\ m.code = Now.code /\ m.templates = Now.templates /\ m.frames = Now.frames /\ m.lists = Now.lists
          /\ m.conts = Append(Now.conts, k)
      BY <3>1, MidIs, NowIs
    <3> HIDE DEF m
    <3>5. Grows(Now, m) /\ HeapOK(m)
      BY <2>3, <3>2, <3>4, MoreConts
    <3>6. Len(conts) + 1 \in DOMAIN conts' /\ Ins.op \in Calls
      BY <2>3, <3>1, NewIs DEF Calls
    <3>7. Moves \/ \E e : Fail(e)
      BY <1>4, <2>2, <3>1, <3>5, <3>6, CallMoves DEF m
    <3>8. base <= Len(k.stack)
      <4>1. /\ Takes(Ins) = 1 /\ base \in Nat /\ y \in Nat /\ base <= y
            /\ DepthAt(Now, Here) \in Nat /\ DepthAt(Now, Here) >= Takes(Ins)
            /\ Len(stack) \in Nat /\ Len(stack) >= y + DepthAt(Now, Here) /\ IsSequence(stack)
        <5>1. Takes(Ins) = 1
          BY <3>1 DEF Takes, Needs
        <5> QED
          BY <2>2, <5>1, Facts
      <4>2. stack # <<>>
        BY <4>1, SequenceNonEmpty
      <4>3. Len(Pop(stack)) = Len(stack) - 1
        BY <4>1, <4>2, SequencePop
      <4> QED
        BY <3>3, <4>1, <4>3
    <3> QED
      BY <1>1, <1>2, <3>1, <3>3, <3>7, <3>8, FailFloors, FloorsKept DEF ContMoves
  <2> QED
    BY <1>4, <2>4, <2>5, <2>6, <2>7, <2>8 DEF Instruction
<1> QED
  BY <1>1, <1>3, <1>4

LEMMA SessionFloors ==
    ASSUME CompilerIsSound, Soundness, TypeOK, FloorsOK, StartForm \/ NextInput \/ EndOfSession \/ UNCHANGED vars
    PROVE  FloorsOK'
<1>0. IsSequence(code)
  BY NowIs DEF Soundness, HeapOK, CodeOK
<1>1. CASE StartForm
  <2>1. Program[input][form] \in FormsRead
    BY <1>1, InputForm DEF StartForm, TypeOK
  <2>2. EvalTop(Program[input][form]) /\ UNCHANGED <<outer, conts>>
    BY <1>1 DEF StartForm
  <2>3. Extends(code', code)
    BY <2>1, <2>2, FormExtends
  <2>4. Abandoned => Abandoned'
    BY <1>0, <2>3, StillAbandoned
  <2>5. Ordered(dump', base')
    BY <2>2 DEF EvalTop, EmptyMachine, Ordered
  <2> QED
    BY <2>2, <2>4, <2>5 DEF FloorsOK
<1>2. CASE NextInput \/ EndOfSession \/ UNCHANGED vars
  <2>1. UNCHANGED <<code, conts, outer, dump, base>> /\ (status' = "run" => status = "run")
    BY <1>2 DEF NextInput, EndOfSession, vars, machine, regs, heap, image, session
  <2> QED
    BY <2>1 DEF FloorsOK, Abandoned
<1> QED
  BY <1>1, <1>2

LEMMA AlwaysOrdered ==
    ASSUME CompilerIsSound, StartupIsSound
    PROVE  Spec => []FloorsOK
<1>1. Init => FloorsOK
  BY DEF Init, FloorsOK
<1>2. Soundness => FloorIsNat
  BY FloorBelow DEF FloorIsNat
<1>3. TypeOK /\ Soundness /\ FloorIsNat' /\ FloorsOK /\ [Next]_vars => FloorsOK'
  <2> SUFFICES ASSUME TypeOK, Soundness, FloorIsNat', FloorsOK, [Next]_vars PROVE FloorsOK'
    OBVIOUS
  <2>1. Step \/ StartForm \/ NextInput \/ EndOfSession \/ UNCHANGED vars
    BY DEF Next, Over
  <2> QED
    BY <2>1, StepFloors, SessionFloors
<1> QED
  BY <1>1, <1>2, <1>3, TypeCorrect, AlwaysSound, PTL DEF Spec

-----------------------------------------------------------------------------
(* What follows.                                                           *)

\* Compiled code never runs into what run marks "internal error", whatever
\* the program and its values: no instruction finds an operand, frame, slot
\* or dump entry missing, and no block runs out (run and do_call in
\* scheme14.cpp, 2682-2948).
THEOREM NeverBroken ==
    ASSUME CompilerIsSound, StartupIsSound
    PROVE  Spec => []NoInternalError
<1>1. Soundness => NoInternalError
  <2> SUFFICES ASSUME Soundness, status = "run", c # 0 PROVE ~Broken
    BY DEF NoInternalError
  <2>1. PICK y : Runs(y)
    BY Begins
  <2> QED
    BY <2>1, NotBroken DEF Runs
<1> QED
  BY <1>1, AlwaysSound, PTL

\* The closure that LDF makes in the VM's own scratch slot, to be called by
\* the next instruction and forgotten, never gets anywhere else: not into a
\* frame, a list, a continuation's copy of the stack or a global cell.
THEOREM ScratchIsNotKept ==
    ASSUME CompilerIsSound, StartupIsSound
    PROVE  Spec => []ScratchIsTransient
<1>1. Soundness => ScratchIsTransient
  <2> SUFFICES ASSUME Soundness PROVE ScratchIsTransient
    OBVIOUS
  <2>0. \A w, v : ValueOK(w, v) => v # Scratch
    BY DEF ValueOK, Scratch
  <2>1. \A w, s : AllOK(w, s) => \A i \in DOMAIN s : s[i] # Scratch
    BY <2>0, SequenceIs DEF AllOK
  <2>2. \A a \in DOMAIN frames : AllOK(Now, frames[a])
    BY NowIs DEF Soundness, HeapOK
  <2>3. \A a \in DOMAIN lists : AllOK(Now, lists[a].elems)
    BY NowIs DEF Soundness, HeapOK, ListOK
  <2>4. \A k \in DOMAIN conts : AllOK(Now, conts[k].stack)
    BY NowIs DEF Soundness, HeapOK, ContOK
  <2>5. \A x \in Cells : cells[x] # Scratch
    BY <2>0 DEF Soundness, GlobalsOK
  <2>6. ASSUME status = "run", NEW i \in 1..Len(stack), stack[i] = Scratch
        PROVE  i = Len(stack) /\ Fetched /\ Ins.op \in {"APP", "TAPP"}
    <3>1. c # 0
      BY <2>6, EmptyOK DEF Soundness, MachineOK
    <3>2. PICK y : Runs(y)
      BY <2>6, <3>1, Begins
    <3>3. /\ Ins = code[c][pc + 1] /\ pc \in Nat /\ pc < Len(code[c]) /\ Shaped(code[c]) /\ Len(code[c]) \in Nat
          /\ IsSequence(stack) /\ Len(stack) \in Nat /\ DOMAIN stack = 1..Len(stack)
      BY <3>2, Facts, SequenceIs
    <3>4. Marked
      BY <2>1, <2>6, <3>2, <3>3 DEF Runs, OperandsOK
    <3>5. Ins.op \in {"APP", "TAPP"}
      <4>1. pc \in 1..Len(code[c])
        BY <3>3, <3>4 DEF Marked
      <4> QED
        BY <3>3, <3>4, <4>1 DEF Marked, Shaped
    <3>6. stack # <<>> /\ AllOK(Now, Pop(stack))
      BY <3>2, <3>4 DEF Runs, OperandsOK
    <3>7. /\ Len(Pop(stack)) = Len(stack) - 1 /\ DOMAIN Pop(stack) = 1..Len(Pop(stack)) 
          /\ \A j \in 1..Len(Pop(stack)) : Pop(stack)[j] = stack[j]
      BY <3>3, <3>6, SequencePop, SequenceIs DEF AllOK
    <3>8. i = Len(stack)
      <4>1. SUFFICES ASSUME i # Len(stack) PROVE FALSE
        OBVIOUS
      <4>2. i \in 1..Len(Pop(stack))
        BY <3>3, <3>7, <4>1
      <4> QED
        BY <2>1, <2>6, <3>6, <3>7, <4>2
    <3> QED
      BY <3>1, <3>3, <3>5, <3>8 DEF Fetched
  <2> QED
    BY <2>1, <2>2, <2>3, <2>4, <2>5, <2>6 DEF ScratchIsTransient
<1> QED
  BY <1>1, AlwaysSound, PTL

\* The floors of the suspended procedures lie in order under the operands,
\* in the machine and in every continuation, until an error is delivered to
\* a handler: RTN never cuts off more than its own procedure's operands.
THEOREM FloorsRise ==
    ASSUME CompilerIsSound, StartupIsSound
    PROVE  Spec => []FloorsInOrder
<1>1. Soundness /\ FloorsOK => FloorsInOrder
  <2> SUFFICES ASSUME Soundness, FloorsOK, ~Abandoned
               PROVE  /\ status = "run" => Floors(stack, dump, base)
                      /\ \A k \in DOMAIN conts : Floors(conts[k].stack, conts[k].dump, conts[k].base)
    BY DEF FloorsInOrder, Abandoned
  <2>1. /\ status = "run" => Ordered(dump, base)
        /\ \A k \in DOMAIN conts : Ordered(conts[k].dump, conts[k].base) /\ conts[k].base <= Len(conts[k].stack)
    BY DEF FloorsOK
  <2>2. status = "run" => base <= Len(stack)
    BY FloorBelow
  <2> QED
    BY <2>1, <2>2 DEF Ordered, Floors
<1> QED
  BY <1>1, AlwaysSound, AlwaysOrdered, PTL
=============================================================================
