----------------------- MODULE MacroExpansionProofs -----------------------
(***************************************************************************)
(* Why the depth limit of macro expansion is a limit on names, for every   *)
(* table of macros, text and limit: nothing is painted twice.              *)
(*                                                                         *)
(* Of the tokens nothing needs to be known, not even that they are tokens. *)
(***************************************************************************)
EXTENDS MacroExpansion, FiniteSetTheorems, SequenceTheorems, TLAPS

IsSequence(s) == s \in Seq({s[i] : i \in DOMAIN s})

IsCall(call) ==
  /\ DOMAIN call = {"tokens", "at", "result", "purpose", "invocation"}
  /\ call.invocation # None =>
       DOMAIN call.invocation = {"name", "args", "expanded", "next"}

\* The stack is one of calls, each of which but the last is expanding something
\* and has made the next.
StackInv ==
  /\ IsSequence(stack)
  /\ \A i \in 1..Len(stack) :
       /\ IsCall(stack[i])
       /\ stack[i].purpose \in IF i = 1 THEN {"text"} ELSE {"argument", "replacement"}
       /\ i < Len(stack) => stack[i].invocation # None

\* d[i] names were painted when the i-th call was made; what it is expanding is a
\* macro, and none of those.
Paints(d) ==
  /\ d \in [1..Len(stack) -> 0..Len(paint)]
  /\ stack # <<>> => d[Len(stack)] = Len(paint)
  /\ \A i, j \in 1..Len(stack) : i <= j => d[i] <= d[j]
  /\ \A i \in 2..Len(stack) :
       d[i] = IF stack[i].purpose = "replacement" THEN d[i - 1] + 1 ELSE d[i - 1]
  /\ \A i \in 1..Len(stack) : stack[i].invocation # None =>
       /\ stack[i].invocation.name \in DOMAIN macros
       /\ \A k \in 1..d[i] : paint[k] # stack[i].invocation.name

\* Nothing is painted twice.
PaintInv ==
  /\ paint \in Seq(DOMAIN macros)
  /\ \A k, l \in 1..Len(paint) : paint[k] = paint[l] => k = l
  /\ \E d : Paints(d)

Codes == {"E2110", "E2112", "E2206", "E2209"}

LimitInv ==
  /\ IsFiniteSet(DOMAIN macros) /\ MaxDepth \in Nat
  /\ issues \in Seq(Codes)
  /\ DepthIsOfNames

DepthInv == StackInv /\ PaintInv /\ LimitInv

-----------------------------------------------------------------------------
(* Sequences of anything *)

\* A sequence stays one when an element is appended or replaced, or when it is cut.
LEMMA Appended ==
  ASSUME NEW s, IsSequence(s), NEW e
  PROVE  /\ IsSequence(Append(s, e))
         /\ Len(s) \in Nat /\ DOMAIN s = 1..Len(s)
         /\ Len(Append(s, e)) = Len(s) + 1
         /\ \A i \in 1..Len(s) : Append(s, e)[i] = s[i]
         /\ Append(s, e)[Len(s) + 1] = e
<1> DEFINE S == {s[i] : i \in DOMAIN s} \cup {e}
<1>1. s \in Seq(S) BY DEF IsSequence
<1>2. /\ Append(s, e) \in Seq(S)
      /\ Len(s) \in Nat /\ DOMAIN s = 1..Len(s)
      /\ Len(Append(s, e)) = Len(s) + 1
      /\ \A i \in 1..Len(s) : Append(s, e)[i] = s[i]
      /\ Append(s, e)[Len(s) + 1] = e
  <2> HIDE DEF S
  <2>1. e \in S BY DEF S
  <2> QED BY <1>1, <2>1, AppendProperties, LenProperties
<1>3. IsSequence(Append(s, e))
  <2> DEFINE t == Append(s, e)
  <2>1. DOMAIN t = 1..Len(t) /\ t \in [1..Len(t) -> S]
    <3> HIDE DEF S
    <3> QED BY <1>2, LenProperties
  <2>2. t \in Seq({t[i] : i \in DOMAIN t})
    <3> HIDE DEF t, S
    <3>1. Len(t) \in Nat BY <1>2 DEF t
    <3>2. t \in [1..Len(t) -> {t[i] : i \in DOMAIN t}] BY <2>1
    <3> QED BY <3>1, <3>2
  <2> QED BY <2>2 DEF IsSequence
<1> QED BY <1>2, <1>3

\* Any function on an initial segment is a sequence.
LEMMA Listed ==
  ASSUME NEW n \in Nat, NEW t, t = [i \in 1..n |-> t[i]]
  PROVE  IsSequence(t) /\ Len(t) = n /\ DOMAIN t = 1..n
<1>1. t \in [1..n -> {t[i] : i \in DOMAIN t}] OBVIOUS
<1>2. t \in Seq({t[i] : i \in DOMAIN t}) BY <1>1
<1> QED BY <1>1, <1>2, LenProperties DEF IsSequence

-----------------------------------------------------------------------------
(* The stack *)

\* A call as it is made is one.
LEMMA Called ==
  ASSUME NEW tokens, NEW purpose
  PROVE  /\ IsCall(Call(tokens, purpose))
         /\ Call(tokens, purpose).purpose = purpose
         /\ Call(tokens, purpose).invocation = None
BY DEF Call, IsCall

\* The calls are numbered from 1.
LEMMA Counted ==
  ASSUME StackInv, stack # <<>>
  PROVE  Len(stack) \in Nat \ {0} /\ DOMAIN stack = 1..Len(stack)
<1>1. stack \in Seq({stack[i] : i \in DOMAIN stack}) BY DEF StackInv, IsSequence
<1> QED BY <1>1, LenProperties, EmptySeq

\* The innermost call goes on: it expands nothing, or a name that is not painted.
LEMMA Continued ==
  ASSUME StackInv, PaintInv, stack # <<>>, UNCHANGED <<config, paint>>,
         NEW call, With(call), IsCall(call), call.purpose = Top.purpose,
         call.invocation # None =>
           /\ call.invocation.name \in DOMAIN macros
           /\ \A k \in 1..Len(paint) : paint[k] # call.invocation.name
  PROVE  StackInv' /\ PaintInv'
<1> DEFINE n == Len(stack)
<1>1. n \in Nat \ {0} /\ DOMAIN stack = 1..n BY Counted
<1>2. stack' = [i \in 1..n |-> IF i = n THEN call ELSE stack[i]]
  BY <1>1 DEF With
<1>3. IsSequence(stack') /\ Len(stack') = n
  <2>1. stack' = [i \in 1..n |-> stack'[i]] BY <1>2
  <2> QED BY <1>1, <2>1, Listed
<1>4. \A i \in 1..n : stack'[i] = IF i = n THEN call ELSE stack[i]
  BY <1>2
<1>5. StackInv'
  <2> SUFFICES ASSUME NEW i \in 1..n
               PROVE  /\ IsCall(stack'[i])
                      /\ stack'[i].purpose \in
                           IF i = 1 THEN {"text"} ELSE {"argument", "replacement"}
                      /\ i < n => stack'[i].invocation # None
    BY <1>3 DEF StackInv
  <2>1. CASE i = n BY <1>4, <2>1 DEF StackInv, Top
  <2>2. CASE i # n BY <1>4, <2>2 DEF StackInv
  <2> QED BY <2>1, <2>2
<1>6. macros' = macros BY DEF macros
<1>7. PICK d : Paints(d) BY DEF PaintInv
<1>8. Paints(d)'
  <2>1. stack' # <<>> => d[n] = Len(paint) BY <1>7 DEF Paints
  <2>2. ASSUME NEW i \in 2..n PROVE stack'[i].purpose = stack[i].purpose
    <3>0. i \in 1..n BY <1>1
    <3>1. CASE i = n BY <1>4, <3>0, <3>1 DEF Top
    <3>2. CASE i # n BY <1>4, <3>0, <3>2
    <3> QED BY <3>1, <3>2
  <2>3. ASSUME NEW i \in 1..n, stack'[i].invocation # None
        PROVE  /\ stack'[i].invocation.name \in DOMAIN macros
               /\ \A k \in 1..d[i] : paint[k] # stack'[i].invocation.name
    <3>1. CASE i = n BY <1>1, <1>4, <1>7, <2>3, <3>1 DEF Paints
    <3>2. CASE i # n BY <1>4, <1>7, <2>3, <3>2 DEF Paints
    <3> QED BY <3>1, <3>2
  <2> QED BY <1>3, <1>6, <1>7, <2>1, <2>2, <2>3 DEF Paints
<1>9. PaintInv' BY <1>6, <1>8 DEF PaintInv
<1> QED BY <1>5, <1>9

\* A call is made: for an argument, or for a replacement with its name painted.
LEMMA Entered ==
  ASSUME StackInv, PaintInv, stack # <<>>, UNCHANGED config, Top.invocation # None,
         NEW tokens, NEW purpose \in {"argument", "replacement"},
         stack' = Append(stack, Call(tokens, purpose)),
         paint' = IF purpose = "replacement" THEN Append(paint, Top.invocation.name) ELSE paint
  PROVE  StackInv' /\ PaintInv'
<1> DEFINE n == Len(stack)
           name == Top.invocation.name
           call == Call(tokens, purpose)
<1>1. n \in Nat \ {0} /\ DOMAIN stack = 1..n BY Counted
<1>2. /\ IsSequence(stack') /\ Len(stack') = n + 1
      /\ \A i \in 1..n : stack'[i] = stack[i]
      /\ stack'[n + 1] = call
  BY Appended DEF StackInv
<1>3. IsCall(call) /\ call.purpose = purpose /\ call.invocation = None
  BY Called
<1>4. StackInv'
  <2> SUFFICES ASSUME NEW i \in 1..(n + 1)
               PROVE  /\ IsCall(stack'[i])
                      /\ stack'[i].purpose \in
                           IF i = 1 THEN {"text"} ELSE {"argument", "replacement"}
                      /\ i < n + 1 => stack'[i].invocation # None
    BY <1>2 DEF StackInv
  <2>1. CASE i = n + 1
    <3>1. stack'[i] = call BY <1>2, <2>1
    <3>2. i # 1 /\ ~(i < n + 1)
      <4>1. n \in Nat \ {0} BY <1>1
      <4> HIDE DEF n
      <4> QED BY <2>1, <4>1
    <3> QED BY <1>3, <3>1, <3>2
  <2>2. CASE i = n
    <3>1. i \in 1..n /\ stack'[i] = stack[i] /\ stack[i] = Top BY <1>1, <1>2, <2>2 DEF Top
    <3> QED BY <3>1 DEF StackInv
  <2>3. CASE i < n
    <3>1. i \in 1..n /\ stack'[i] = stack[i] BY <1>1, <1>2, <2>3
    <3> QED BY <2>3, <3>1 DEF StackInv
  <2>4. i = n + 1 \/ i = n \/ i < n
    <3>1. n \in Nat \ {0} /\ i \in 1..(n + 1) BY <1>1
    <3> HIDE DEF n
    <3> QED BY <3>1
  <2> QED BY <2>1, <2>2, <2>3, <2>4
<1>5. macros' = macros BY DEF macros
<1>6. PICK d : Paints(d) BY DEF PaintInv
<1>7. name \in DOMAIN macros /\ \A k \in 1..Len(paint) : paint[k] # name
  BY <1>1, <1>6 DEF Paints, Top
<1>8. /\ paint \in Seq(DOMAIN macros) /\ Len(paint) \in Nat
      /\ paint' \in Seq(DOMAIN macros)
      /\ Len(paint') = IF purpose = "replacement" THEN Len(paint) + 1 ELSE Len(paint)
      /\ \A k \in 1..Len(paint) : paint'[k] = paint[k]
      /\ purpose = "replacement" => paint'[Len(paint) + 1] = name
  <2>1. paint \in Seq(DOMAIN macros) BY DEF PaintInv
  <2>2. name \in DOMAIN macros BY <1>7
  <2> HIDE DEF name
  <2>3. CASE purpose = "replacement"
    <3>1. paint' = Append(paint, name) BY <2>3 DEF name
    <3> QED BY <2>1, <2>2, <2>3, <3>1, AppendProperties, LenProperties
  <2>4. CASE purpose = "argument" BY <2>1, <2>4, LenProperties
  <2> QED BY <2>3, <2>4
<1>9. \A k, l \in 1..Len(paint') : paint'[k] = paint'[l] => k = l
  <2>1. \A k, l \in 1..Len(paint) : paint[k] = paint[l] => k = l BY DEF PaintInv
  <2> HIDE DEF name
  <2>2. CASE purpose = "replacement" BY <1>7, <1>8, <2>1, <2>2
  <2>3. CASE purpose = "argument" BY <1>8, <2>1, <2>3
  <2> QED BY <2>2, <2>3
<1>10. \E e : Paints(e)'
  <2>0. PICK e : e = [i \in 1..(n + 1) |-> IF i = n + 1 THEN Len(paint') ELSE d[i]]
    OBVIOUS
  <2>1. /\ d \in [1..n -> 0..Len(paint)] /\ d[n] = Len(paint)
        /\ \A i, j \in 1..n : i <= j => d[i] <= d[j]
        /\ \A i \in 2..n :
             d[i] = IF stack[i].purpose = "replacement" THEN d[i - 1] + 1 ELSE d[i - 1]
        /\ \A i \in 1..n : stack[i].invocation # None =>
             /\ stack[i].invocation.name \in DOMAIN macros
             /\ \A k \in 1..d[i] : paint[k] # stack[i].invocation.name
    BY <1>6 DEF Paints
  <2>2. e \in [1..Len(stack') -> 0..Len(paint')]
    BY <1>1, <1>2, <1>8, <2>0, <2>1
  <2>3. stack' # <<>> => e[Len(stack')] = Len(paint')
    BY <1>1, <1>2, <2>0
  <2>4. \A i, j \in 1..Len(stack') : i <= j => e[i] <= e[j]
    <3> TAKE i, j \in 1..Len(stack')
    <3>1. CASE j = n + 1 BY <1>1, <1>2, <1>8, <2>0, <2>1, <3>1
    <3>2. CASE j # n + 1 BY <1>1, <1>2, <2>0, <2>1, <3>2
    <3> QED BY <3>1, <3>2
  <2>5. \A i \in 2..Len(stack') :
          e[i] = IF stack'[i].purpose = "replacement" THEN e[i - 1] + 1 ELSE e[i - 1]
    <3> TAKE i \in 2..Len(stack')
    <3>1. CASE i = n + 1
      <4>1. stack'[i].purpose = purpose BY <1>2, <1>3, <3>1
      <4>2. i \in 1..(n + 1) /\ i - 1 = n /\ n \in 1..(n + 1) /\ n # n + 1
        <5>1. n \in Nat \ {0} BY <1>1
        <5> HIDE DEF n
        <5> QED BY <3>1, <5>1
      <4>3. e[i] = Len(paint') /\ e[i - 1] = Len(paint) BY <2>0, <2>1, <3>1, <4>2
      <4> QED BY <1>8, <4>1, <4>3
    <3>2. CASE i # n + 1 BY <1>1, <1>2, <2>0, <2>1, <3>2
    <3> QED BY <3>1, <3>2
  <2>6. ASSUME NEW i \in 1..Len(stack'), stack'[i].invocation # None
        PROVE  /\ stack'[i].invocation.name \in DOMAIN macros
               /\ \A k \in 1..e[i] : paint'[k] # stack'[i].invocation.name
    <3>1. i # n + 1 BY <1>2, <1>3, <2>6
    <3>2. i \in 1..n /\ stack'[i] = stack[i] /\ e[i] = d[i] BY <1>1, <1>2, <2>0, <3>1
    <3>3. d[i] \in 0..Len(paint) BY <2>1, <3>2
    <3>4. \A k \in 1..d[i] : k \in 1..Len(paint) BY <1>8, <3>3
    <3> QED BY <1>8, <2>1, <2>6, <3>2, <3>4
  <2> HIDE DEF n
  <2>7. Paints(e)' BY <1>5, <2>2, <2>3, <2>4, <2>5, <2>6 DEF Paints
  <2> QED BY <2>7
<1>11. PaintInv' BY <1>5, <1>8, <1>9, <1>10 DEF PaintInv
<1> QED BY <1>4, <1>11

\* A call returns to its caller; a replacement takes the paint of its name along.
LEMMA Left ==
  ASSUME StackInv, PaintInv, stack # <<>>, UNCHANGED config,
         Top.purpose \in {"argument", "replacement"},
         NEW call, Leaving(call), IsCall(call), call.purpose = Caller.purpose,
         call.invocation # None => call.invocation.name = Caller.invocation.name,
         paint' = IF Top.purpose = "replacement" THEN Front(paint) ELSE paint
  PROVE  StackInv' /\ PaintInv'
<1> DEFINE n == Len(stack)
           m == Len(paint')
<1>1. n \in Nat \ {0, 1} /\ DOMAIN stack = 1..n
  <2>1. n \in Nat \ {0} /\ DOMAIN stack = 1..n BY Counted
  <2>2. n # 1 BY <2>1 DEF StackInv, Top
  <2> QED BY <2>1, <2>2
<1>2. stack' = [i \in 1..(n - 1) |-> IF i = n - 1 THEN call ELSE stack[i]]
  BY DEF Leaving
<1>3. IsSequence(stack') /\ Len(stack') = n - 1
  <2>1. stack' = [i \in 1..(n - 1) |-> stack'[i]] BY <1>2
  <2>2. n - 1 \in Nat BY <1>1
  <2> HIDE DEF n
  <2> QED BY <2>1, <2>2, Listed
<1>4. ASSUME NEW i \in 1..(n - 1)
      PROVE  /\ i \in 1..n
             /\ stack'[i] = IF i = n - 1 THEN call ELSE stack[i]
             /\ stack'[i].purpose = stack[i].purpose
  <2>1. i \in 1..n BY <1>1
  <2>2. stack'[i] = IF i = n - 1 THEN call ELSE stack[i] BY <1>2
  <2>3. i = n - 1 => stack[i] = Caller BY DEF Caller
  <2> QED BY <2>1, <2>2, <2>3
<1>5. StackInv'
  <2> SUFFICES ASSUME NEW i \in 1..(n - 1)
               PROVE  /\ IsCall(stack'[i])
                      /\ stack'[i].purpose \in
                           IF i = 1 THEN {"text"} ELSE {"argument", "replacement"}
                      /\ i < n - 1 => stack'[i].invocation # None
    BY <1>3 DEF StackInv
  <2>1. i < n /\ (i < n - 1 => i # n - 1)
    <3>1. n \in Nat \ {0, 1} /\ i \in 1..(n - 1) BY <1>1
    <3> HIDE DEF n
    <3> QED BY <3>1
  <2>2. stack'[i].purpose = stack[i].purpose /\ i \in 1..n BY <1>4
  <2>3. CASE i = n - 1 BY <1>4, <2>1, <2>2, <2>3 DEF StackInv
  <2>4. CASE i # n - 1 BY <1>4, <2>1, <2>2, <2>4 DEF StackInv
  <2> HIDE DEF n
  <2> QED BY <2>3, <2>4
<1>6. macros' = macros BY DEF macros
<1>7. PICK d : Paints(d) BY DEF PaintInv
<1>8. /\ d \in [1..n -> 0..Len(paint)] /\ d[n] = Len(paint)
      /\ \A i, j \in 1..n : i <= j => d[i] <= d[j]
      /\ \A i \in 2..n :
           d[i] = IF stack[i].purpose = "replacement" THEN d[i - 1] + 1 ELSE d[i - 1]
      /\ \A i \in 1..n : stack[i].invocation # None =>
           /\ stack[i].invocation.name \in DOMAIN macros
           /\ \A k \in 1..d[i] : paint[k] # stack[i].invocation.name
  BY <1>7 DEF Paints
<1>9. /\ paint \in Seq(DOMAIN macros) /\ Len(paint) \in Nat
      /\ \A k, l \in 1..Len(paint) : paint[k] = paint[l] => k = l
  BY LenProperties DEF PaintInv
<1>10. /\ paint' \in Seq(DOMAIN macros) /\ m \in 0..Len(paint)
       /\ m = d[n - 1]
       /\ \A k \in 1..m : paint'[k] = paint[k]
  <2>1. n - 1 \in 1..n /\ n \in 2..n /\ d[n - 1] \in 0..Len(paint) BY <1>1, <1>8
  <2>2. CASE Top.purpose = "replacement"
    <3>1. Len(paint) = d[n - 1] + 1 BY <1>8, <2>1, <2>2 DEF Top
    <3>2. paint' = SubSeq(paint, 1, Len(paint) - 1) BY <2>2 DEF Front
    <3>3. \A k \in 1..(Len(paint) - 1) : paint[k] \in DOMAIN macros
      BY <1>9, LenProperties
    <3>4. /\ paint' \in Seq(DOMAIN macros) /\ m = Len(paint) - 1
          /\ \A k \in 1..(Len(paint) - 1) : paint'[k] = paint[k]
      <4>1. Len(paint) \in Nat /\ Len(paint) - 1 \in 0..Len(paint)
            /\ Len(paint) - 1 = Len(paint) - 1 - 1 + 1
        BY <1>9, <2>1, <3>1
      <4>2. \A k \in 1..(Len(paint) - 1) : k \in 1..Len(paint) /\ 1 + k - 1 = k
        BY <4>1
      <4> HIDE DEF n
      <4>3. Len(paint) - 1 \in Int /\ 1 \in Int BY <4>1
      <4>4. DEFINE last == Len(paint) - 1
      <4>5. /\ SubSeq(paint, 1, last) \in Seq(DOMAIN macros)
            /\ Len(SubSeq(paint, 1, last)) = IF 1 <= last THEN last - 1 + 1 ELSE 0
            /\ \A k \in 1..(last - 1 + 1) : SubSeq(paint, 1, last)[k] = paint[1 + k - 1]
        <5>1. last \in Int /\ \A k \in 1..last : paint[k] \in DOMAIN macros BY <3>3, <4>3
        <5> HIDE DEF last
        <5> QED BY <4>3, <5>1, SubSeqProperties
      <4>6. paint' \in Seq(DOMAIN macros) BY <3>2, <4>5
      <4>7. m = last
        <5>1. last \in Nat BY <4>1
        <5>2. m = Len(SubSeq(paint, 1, last)) BY <3>2
        <5> HIDE DEF last, m
        <5> QED BY <4>5, <5>1, <5>2
      <4>8. \A k \in 1..last : paint'[k] = paint[k] BY <3>2, <4>1, <4>2, <4>5
      <4> QED BY <4>6, <4>7, <4>8
    <3>5. d[n - 1] \in 0..Len(paint) /\ m = d[n - 1] BY <1>9, <2>1, <3>1, <3>4
    <3> QED BY <3>1, <3>4, <3>5
  <2>3. CASE Top.purpose = "argument"
    <3>1. Len(paint) = d[n - 1] /\ paint' = paint BY <1>8, <2>1, <2>3 DEF Top
    <3> QED BY <1>9, <3>1
  <2> QED BY <2>2, <2>3
<1>11. \A k, l \in 1..m : paint'[k] = paint'[l] => k = l
  BY <1>9, <1>10
<1>12. \E e : Paints(e)'
  <2>0. PICK e : e = [i \in 1..(n - 1) |-> d[i]] OBVIOUS
  <2>1. \A i \in 1..(n - 1) : i \in 1..n /\ n - 1 \in 1..n /\ e[i] = d[i] /\ d[i] \in 0..m
    BY <1>1, <1>8, <1>10, <2>0
  <2>2. e \in [1..Len(stack') -> 0..m] BY <1>3, <2>0, <2>1
  <2>3. e[Len(stack')] = m BY <1>1, <1>3, <1>10, <2>1
  <2>4. \A i, j \in 1..Len(stack') : i <= j => e[i] <= e[j] BY <1>3, <1>8, <2>1
  <2>5. ASSUME NEW i \in 2..Len(stack')
        PROVE  e[i] = IF stack'[i].purpose = "replacement" THEN e[i - 1] + 1 ELSE e[i - 1]
    <3>1. i \in 1..(n - 1) /\ i - 1 \in 1..(n - 1) /\ i \in 2..n BY <1>1, <1>3
    <3> QED BY <1>4, <1>8, <2>1, <3>1
  <2>6. ASSUME NEW i \in 1..Len(stack'), stack'[i].invocation # None
        PROVE  /\ stack'[i].invocation.name \in DOMAIN macros
               /\ \A k \in 1..e[i] : paint'[k] # stack'[i].invocation.name
    <3>1. i \in 1..(n - 1) /\ i \in 1..n /\ i < n BY <1>1, <1>3
    <3>2. stack[i].invocation # None BY <1>1, <3>1 DEF StackInv
    <3>3. stack'[i].invocation.name = stack[i].invocation.name
      <4>1. CASE i = n - 1 BY <1>4, <2>6, <3>1, <4>1 DEF Caller
      <4>2. CASE i # n - 1 BY <1>4, <3>1, <4>2
      <4> QED BY <4>1, <4>2
    <3>4. \A k \in 1..e[i] : k \in 1..m /\ k \in 1..d[i] BY <1>10, <2>1, <3>1
    <3> QED BY <1>8, <1>10, <3>1, <3>2, <3>3, <3>4
  <2> HIDE DEF n
  <2>7. Paints(e)' BY <1>6, <2>2, <2>3, <2>4, <2>5, <2>6 DEF Paints
  <2> QED BY <2>7
<1>13. PaintInv' BY <1>6, <1>10, <1>11, <1>12 DEF PaintInv
<1> QED BY <1>5, <1>13

-----------------------------------------------------------------------------
(* The limit *)

\* There are as many macros as are painted, and another for a name that is not.
LEMMA Distinct ==
  ASSUME PaintInv, IsFiniteSet(DOMAIN macros), NEW name \in DOMAIN macros,
         \A k \in 1..Len(paint) : paint[k] # name
  PROVE  Len(paint) + 1 <= Cardinality(DOMAIN macros)
<1> DEFINE n == Len(paint)
           f == [k \in 1..(n + 1) |-> IF k = n + 1 THEN name ELSE paint[k]]
<1>1. n \in Nat /\ \A k \in 1..n : paint[k] \in DOMAIN macros
  BY LenProperties DEF PaintInv
<1>2. \A k, l \in 1..n : paint[k] = paint[l] => k = l BY DEF PaintInv
<1>3. f \in Injection(1..(n + 1), DOMAIN macros)
  <2> HIDE DEF n
  <2>1. f \in [1..(n + 1) -> DOMAIN macros] BY <1>1
  <2>2. ASSUME NEW k \in 1..(n + 1), NEW l \in 1..(n + 1), f[k] = f[l] PROVE k = l
    <3>1. \A i \in 1..(n + 1) : i # n + 1 => i \in 1..n /\ f[i] = paint[i] BY <1>1
    <3>2. f[n + 1] = name BY <1>1
    <3>3. \A i \in 1..n : paint[i] # name BY DEF n
    <3> QED BY <1>2, <2>2, <3>1, <3>2, <3>3
  <2> QED BY <2>1, <2>2 DEF Injection, IsInjective
<1>4. IsFiniteSet(1..(n + 1)) /\ Cardinality(1..(n + 1)) = n + 1
  BY <1>1, FS_Interval
<1> QED BY <1>3, <1>4, FS_Injection

\* No complaint but that of the depth limit matters.
LEMMA Limited ==
  ASSUME LimitInv, UNCHANGED config, NEW code \in Codes, issues' = Append(issues, code),
         code = "E2209" => Cardinality(DOMAIN macros) > MaxDepth
  PROVE  LimitInv'
<1>1. macros' = macros /\ MaxDepth' = MaxDepth BY DEF macros, MaxDepth
<1>2. /\ issues' \in Seq(Codes)
      /\ \A i \in DOMAIN issues' : (i \in DOMAIN issues /\ issues'[i] = issues[i]) \/ issues'[i] = code
  BY AppendProperties, LenProperties DEF LimitInv
<1>3. DepthIsOfNames' BY <1>1, <1>2 DEF DepthIsOfNames, LimitInv
<1> QED BY <1>1, <1>2, <1>3 DEF LimitInv

LEMMA NoComplaint == ASSUME LimitInv, UNCHANGED <<config, issues>> PROVE LimitInv'
<1>1. macros' = macros /\ MaxDepth' = MaxDepth BY DEF macros, MaxDepth
<1> QED BY <1>1 DEF LimitInv, DepthIsOfNames

-----------------------------------------------------------------------------
(* The steps *)

\* One call, nothing painted, no complaint.
LEMMA InitialDepth == ASSUME Init PROVE DepthInv
<1>1. PICK k \in DOMAIN Setups :
        \E table \in Setups[k].tables, text \in Setups[k].texts :
          Starts(Setups[k].limits, table, text)
  BY DEF Init
<1>2. PICK table \in Setups[k].tables, text \in Setups[k].texts :
        Starts(Setups[k].limits, table, text)
  BY <1>1
<1>3. /\ macros = table /\ MaxDepth = Setups[k].limits.max_macro_expansion_depth
      /\ stack = <<Call(text, "text")>> /\ paint = <<>> /\ issues = <<>>
  BY <1>2 DEF Starts, macros, MaxDepth
<1>4. IsFiniteSet(DOMAIN table) /\ Setups[k].limits.max_macro_expansion_depth \in Nat
  BY <1>1, <1>2, SetupsAssumption DEF ScanLimits
<1>5. LimitInv BY <1>3, <1>4 DEF LimitInv, DepthIsOfNames
<1>6. Len(stack) = 1 /\ DOMAIN stack = {1} /\ stack[1] = Call(text, "text")
  BY <1>3
<1>7. StackInv
  <2>1. IsSequence(stack)
    <3>1. stack = [i \in 1..1 |-> stack[i]] BY <1>3
    <3> QED BY <3>1, Listed
  <2> QED BY <1>6, <2>1, Called DEF StackInv
<1>8. PaintInv
  <2>1. PICK d : d = [i \in {1} |-> 0] OBVIOUS
  <2>2. stack[1].invocation = None BY <1>6, Called
  <2>3. Paints(d) BY <1>3, <1>6, <2>1, <2>2 DEF Paints
  <2>4. paint \in Seq(DOMAIN macros) /\ Len(paint) = 0 BY <1>3
  <2> QED BY <2>3, <2>4 DEF PaintInv
<1> QED BY <1>5, <1>7, <1>8 DEF DepthInv

\* The innermost call is one, and expands nothing or a name that is not painted.
LEMMA TopIsCall ==
  ASSUME DepthInv, stack # <<>>
  PROVE  /\ IsCall(Top)
         /\ Top.invocation # None =>
              /\ Top.invocation.name \in DOMAIN macros
              /\ \A k \in 1..Len(paint) : paint[k] # Top.invocation.name
<1>1. Len(stack) \in 1..Len(stack) BY Counted DEF DepthInv
<1>2. PICK d : Paints(d) BY DEF DepthInv, PaintInv
<1>3. d[Len(stack)] = Len(paint) BY <1>2 DEF Paints
<1> QED BY <1>1, <1>2, <1>3 DEF DepthInv, StackInv, Paints, Top

\* A call that is not of the text has a caller.
LEMMA CallerIsCall ==
  ASSUME DepthInv, stack # <<>>, Top.purpose # "text"
  PROVE  IsCall(Caller)
<1>1. Len(stack) \in Nat \ {0} BY Counted DEF DepthInv
<1>2. Len(stack) # 1 BY <1>1 DEF DepthInv, StackInv, Top
<1>3. Len(stack) - 1 \in 1..Len(stack) BY <1>1, <1>2
<1> QED BY <1>3 DEF DepthInv, StackInv, Caller

\* A token, or more of them, is passed.
LEMMA KeepKeepsDepth ==
  ASSUME DepthInv, Reading, NEW next, Keep(next), UNCHANGED <<config, paint>>
  PROVE  StackInv' /\ PaintInv'
<1> DEFINE call == [Top EXCEPT !.result = @ \o SubSeq(Top.tokens, Top.at, next - 1), !.at = next]
<1>1. stack # <<>> /\ Top.invocation = None BY DEF Reading
<1>2. IsCall(call) /\ call.purpose = Top.purpose /\ call.invocation = None
  BY <1>1, TopIsCall DEF IsCall
<1>3. With(call) BY DEF Keep
<1> QED BY <1>1, <1>2, <1>3, Continued DEF DepthInv

LEMMA PassTokenKeepsDepth == ASSUME DepthInv, PassToken PROVE DepthInv'
<1>1. StackInv' /\ PaintInv' BY KeepKeepsDepth DEF PassToken
<1>2. LimitInv' BY NoComplaint DEF PassToken, DepthInv
<1> QED BY <1>1, <1>2 DEF DepthInv

LEMMA PassNameKeepsDepth == ASSUME DepthInv, PassName PROVE DepthInv'
<1>1. StackInv' /\ PaintInv' BY KeepKeepsDepth DEF PassName
<1>2. LimitInv' BY Limited, NoComplaint DEF PassName, DepthInv, Codes
<1> QED BY <1>1, <1>2 DEF DepthInv

LEMMA PassInvocationKeepsDepth == ASSUME DepthInv, PassInvocation PROVE DepthInv'
<1>1. StackInv' /\ PaintInv' BY KeepKeepsDepth DEF PassInvocation
<1>2. LimitInv' BY Limited DEF PassInvocation, DepthInv, Codes
<1> QED BY <1>1, <1>2 DEF DepthInv

LEMMA InvokeKeepsDepth == ASSUME DepthInv, Invoke PROVE DepthInv'
<1>1. UNCHANGED <<config, paint>> /\ stack # <<>> BY DEF Invoke, Reading
<1>2. StackInv' /\ PaintInv'
  <2>1. CASE UNCHANGED stack
    <3>1. StackInv' BY <2>1 DEF DepthInv, StackInv
    <3>2. PICK d : Paints(d) BY DEF DepthInv, PaintInv
    <3>3. macros' = macros /\ Paints(d)' BY <1>1, <2>1, <3>2 DEF macros, Paints
    <3>4. PaintInv' BY <1>1, <3>3 DEF DepthInv, PaintInv
    <3> QED BY <3>1, <3>4
  <2>2. CASE ~UNCHANGED stack
    <3>1. PICK call : call = [Top EXCEPT !.invocation =
                                [name |-> This.text, args |-> Args, expanded |-> <<>>,
                                 next |-> PastInvocation]]
      OBVIOUS
    <3>2. With(call) BY <2>2, <3>1 DEF Invoke
    <3>3. IsCall(call) /\ call.purpose = Top.purpose /\ call.invocation.name = This.text
      BY <1>1, <3>1, TopIsCall DEF IsCall
    <3>4. This.text \in DOMAIN macros /\ \A k \in 1..Len(paint) : paint[k] # This.text
      BY LenProperties DEF Invoke, Named, Painted, DepthInv, PaintInv
    <3> QED BY <1>1, <3>2, <3>3, <3>4, Continued DEF DepthInv
  <2> QED BY <2>1, <2>2
<1>3. issues' = issues \/ issues' = Append(issues, "E2206") BY DEF Invoke, LimitHit
<1>4. LimitInv' BY <1>1, <1>3, Limited, NoComplaint DEF DepthInv, Codes
<1> QED BY <1>2, <1>4 DEF DepthInv

LEMMA EnterArgumentKeepsDepth == ASSUME DepthInv, EnterArgument PROVE DepthInv'
<1>1. StackInv' /\ PaintInv'
  BY Entered DEF EnterArgument, Invoking, DepthInv
<1>2. LimitInv' BY NoComplaint DEF EnterArgument, DepthInv
<1> QED BY <1>1, <1>2 DEF DepthInv

LEMMA SkipArgumentKeepsDepth == ASSUME DepthInv, SkipArgument PROVE DepthInv'
<1> DEFINE call == [Top EXCEPT !.invocation.expanded = Append(@, <<>>)]
<1>1. stack # <<>> /\ Top.invocation # None /\ UNCHANGED <<config, paint, issues>>
  BY DEF SkipArgument, Invoking
<1>2. IsCall(Top) BY <1>1, TopIsCall
<1>3. /\ IsCall(call) /\ call.purpose = Top.purpose
      /\ call.invocation.name = Top.invocation.name
  BY <1>1, <1>2 DEF IsCall
<1>4. With(call) BY DEF SkipArgument
<1>5. StackInv' /\ PaintInv'
  <2> HIDE DEF call
  <2> QED BY <1>1, <1>3, <1>4, TopIsCall, Continued DEF DepthInv
<1>6. LimitInv' BY <1>1, NoComplaint DEF DepthInv
<1> QED BY <1>5, <1>6 DEF DepthInv

LEMMA LeaveArgumentKeepsDepth == ASSUME DepthInv, LeaveArgument PROVE DepthInv'
<1> DEFINE call == [Caller EXCEPT !.invocation.expanded = Append(@, Top.result)]
<1>1. /\ stack # <<>> /\ Top.purpose = "argument"
      /\ UNCHANGED <<config, paint, issues>>
  BY DEF LeaveArgument, Ended
<1>2. IsCall(Caller) /\ Caller.invocation # None
  <2>1. Len(stack) \in Nat \ {0} BY <1>1, Counted DEF DepthInv
  <2>2. Len(stack) # 1 BY <1>1, <2>1 DEF DepthInv, StackInv, Top
  <2>3. Len(stack) - 1 \in 1..Len(stack) /\ Len(stack) - 1 < Len(stack) BY <2>1, <2>2
  <2> QED BY <2>3 DEF DepthInv, StackInv, Caller
<1>3. /\ IsCall(call) /\ call.purpose = Caller.purpose
      /\ call.invocation.name = Caller.invocation.name
  BY <1>2 DEF IsCall
<1>4. Leaving(call) BY DEF LeaveArgument
<1>5. StackInv' /\ PaintInv'
  <2> HIDE DEF call
  <2> QED BY <1>1, <1>3, <1>4, Left DEF DepthInv
<1>6. LimitInv' BY <1>1, NoComplaint DEF DepthInv
<1> QED BY <1>5, <1>6 DEF DepthInv

LEMMA ReplaceKeepsDepth == ASSUME DepthInv, Replace PROVE DepthInv'
<1>1. stack # <<>> /\ Top.invocation # None /\ UNCHANGED config
  BY DEF Replace, Invoking
<1>2. IsCall(Top) BY <1>1, TopIsCall
<1>3. CASE Len(paint) >= MaxDepth
  <2>1. PICK call : call = [Top EXCEPT !.invocation = None] OBVIOUS
  <2>2. IsCall(call) /\ call.purpose = Top.purpose /\ call.invocation = None
    BY <1>2, <2>1 DEF IsCall
  <2>3. With(call) /\ UNCHANGED paint BY <1>3, <2>1 DEF Replace
  <2>4. StackInv' /\ PaintInv' BY <1>1, <2>2, <2>3, Continued DEF DepthInv
  <2>5. Cardinality(DOMAIN macros) > MaxDepth
    <3>1. Len(paint) + 1 <= Cardinality(DOMAIN macros)
      BY <1>1, TopIsCall, Distinct DEF DepthInv, LimitInv
    <3>2. Len(paint) \in Nat BY LenProperties DEF DepthInv, PaintInv
    <3>3. Cardinality(DOMAIN macros) \in Nat BY FS_CardinalityType DEF DepthInv, LimitInv
    <3>4. MaxDepth \in Nat BY DEF DepthInv, LimitInv
    <3> QED BY <1>3, <3>1, <3>2, <3>3, <3>4
  <2>6. issues' = issues \/ issues' = Append(issues, "E2209") BY <1>3 DEF Replace, LimitHit
  <2>7. LimitInv' BY <1>1, <2>5, <2>6, Limited, NoComplaint DEF DepthInv, Codes
  <2> QED BY <2>4, <2>7 DEF DepthInv
<1>4. CASE ~(Len(paint) >= MaxDepth)
  <2>1. PICK tokens : stack' = Append(stack, Call(tokens, "replacement"))
    BY <1>4 DEF Replace
  <2>2. paint' = Append(paint, Top.invocation.name) /\ UNCHANGED issues
    BY <1>4 DEF Replace
  <2>3. StackInv' /\ PaintInv' BY <1>1, <2>1, <2>2, Entered DEF DepthInv
  <2>4. LimitInv' BY <1>1, <2>2, NoComplaint DEF DepthInv
  <2> QED BY <2>3, <2>4 DEF DepthInv
<1> QED BY <1>3, <1>4

LEMMA LeaveReplacementKeepsDepth == ASSUME DepthInv, LeaveReplacement PROVE DepthInv'
<1>1. PICK call : call = [Caller EXCEPT !.result = @ \o Top.result, !.invocation = None,
                                        !.at = Caller.invocation.next]
  OBVIOUS
<1>2. /\ stack # <<>> /\ Top.purpose = "replacement"
      /\ paint' = Front(paint) /\ UNCHANGED <<config, issues>>
  BY DEF LeaveReplacement, Ended
<1>3. IsCall(Caller) BY <1>2, CallerIsCall
<1>4. IsCall(call) /\ call.purpose = Caller.purpose /\ call.invocation = None
  BY <1>1, <1>3 DEF IsCall
<1>5. Leaving(call) BY <1>1 DEF LeaveReplacement
<1>6. StackInv' /\ PaintInv' BY <1>2, <1>4, <1>5, Left DEF DepthInv
<1>7. LimitInv' BY <1>2, NoComplaint DEF DepthInv
<1> QED BY <1>6, <1>7 DEF DepthInv

LEMMA ReturnKeepsDepth == ASSUME DepthInv, Return PROVE DepthInv'
<1>1. stack' = <<>> /\ UNCHANGED <<config, paint, issues>> BY DEF Return
<1>2. Len(stack') = 0 /\ DOMAIN stack' = {} BY <1>1
<1>3. StackInv'
  <2>1. stack' = [i \in 1..0 |-> stack'[i]] BY <1>1
  <2>2. IsSequence(stack') BY <2>1, Listed
  <2> QED BY <1>2, <2>2 DEF StackInv
<1>4. macros' = macros BY <1>1 DEF macros
<1>5. PaintInv'
  <2>1. PICK d : d = [i \in 1..0 |-> 0] OBVIOUS
  <2>2. Paints(d)' BY <1>1, <1>2, <2>1 DEF Paints
  <2> QED BY <1>1, <1>4, <2>2 DEF DepthInv, PaintInv
<1>6. LimitInv' BY <1>1, NoComplaint DEF DepthInv
<1> QED BY <1>3, <1>5, <1>6 DEF DepthInv

\* Nothing changes.
LEMMA StutterKeepsDepth == ASSUME DepthInv, UNCHANGED vars PROVE DepthInv'
<1>1. macros' = macros /\ MaxDepth' = MaxDepth BY DEF vars, macros, MaxDepth
<1>2. PICK d : Paints(d) BY DEF DepthInv, PaintInv
<1>3. Paints(d)' BY <1>1, <1>2 DEF vars, Paints
<1>4. PaintInv' BY <1>1, <1>3 DEF vars, DepthInv, PaintInv
<1>5. StackInv' BY DEF vars, DepthInv, StackInv
<1>6. LimitInv' BY <1>1 DEF vars, DepthInv, LimitInv, DepthIsOfNames
<1> QED BY <1>4, <1>5, <1>6 DEF DepthInv

-----------------------------------------------------------------------------

\* Expansion stays in the invariant.
THEOREM ExpansionInvariant == Spec => []DepthInv
<1>1. Init => DepthInv BY InitialDepth
<1>2. DepthInv /\ [Step]_vars => DepthInv'
  BY PassTokenKeepsDepth, PassNameKeepsDepth, PassInvocationKeepsDepth, InvokeKeepsDepth,
     EnterArgumentKeepsDepth, SkipArgumentKeepsDepth, LeaveArgumentKeepsDepth,
     ReplaceKeepsDepth, LeaveReplacementKeepsDepth, ReturnKeepsDepth, StutterKeepsDepth
     DEF Step
<1> QED BY <1>1, <1>2, PTL DEF Spec

\* The depth limit of scan/config.rs is met only where there are more macros than
\* it allows, for every table, text and limit.
THEOREM DepthLimitIsOfNames == Spec => []DepthIsOfNames
<1>1. DepthInv => DepthIsOfNames BY DEF DepthInv, LimitInv
<1> QED BY <1>1, ExpansionInvariant, PTL

=============================================================================
