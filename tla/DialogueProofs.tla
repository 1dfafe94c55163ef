---------------------------- MODULE DialogueProofs -----------------------------
(***************************************************************************)
(* That it makes no difference how a client goes on with a dialogue, that  *)
(* what it was shown is accepted, that no item of a session lacks          *)
(* something, that a fingerprint tells what was said, and that listed      *)
(* models are served: for every set of requests, answers and               *)
(* configurations, and for JSON values of every depth.                     *)
(***************************************************************************)
EXTENDS Dialogue, Integers, SequenceTheorems, WellFoundedInduction, TLAPS

-----------------------------------------------------------------------------
(* Natural numbers: the least one of a set, and induction by it.             *)

LEMMA LeastNatural ==
  ASSUME NEW T, T \subseteq Nat, T # {}
  PROVE  \E x \in T : \A y \in T : x <= y
<1> DEFINE R == OpToRel(<, Nat)
<1>1. \A x, y \in Nat : <<y, x>> \in R <=> y < x
  BY DEF OpToRel
<1>2. IsWellFoundedOn(R, Nat)
  BY NatLessThanWellFounded
<1> HIDE DEF R
<1>3. PICK x \in T : \A y \in T : ~ (<<y, x>> \in R)
  BY <1>2, WFMin
<1>4. x \in Nat /\ \A y \in T : y \in Nat /\ ~ (y < x)
  BY <1>1, <1>3
<1>5. \A y \in T : x <= y
  BY <1>4
<1> QED
  BY <1>5

LEMMA SetInduction ==
  ASSUME NEW T, 0 \in T, \A n \in Nat : n \in T => n + 1 \in T
  PROVE  \A n \in Nat : n \in T
<1> SUFFICES ASSUME Nat \ T # {}
             PROVE  FALSE
  OBVIOUS
<1>1. PICK x \in Nat \ T : \A y \in Nat \ T : x <= y
  BY LeastNatural
<1>2. x - 1 \in Nat
  BY <1>1
<1>3. x - 1 \in T
  BY <1>1, <1>2
<1> QED
  BY <1>1, <1>2, <1>3

-----------------------------------------------------------------------------
(* What sequences are joined to.                                             *)

\* The join of s up to each of its places.
IsJoin(f, s) ==
  f = [i \in 1..Len(s) |-> IF i = 1 THEN s[i] ELSE f[i - 1] \o s[i]]

LEMMA JoinIsUnique ==
  ASSUME NEW S, NEW s \in Seq(S), NEW f, NEW g, IsJoin(f, s), IsJoin(g, s)
  PROVE  \A i \in 1..Len(s) : f[i] = g[i]
<1> DEFINE T == {n \in Nat : n \in 1..Len(s) => f[n] = g[n]}
<1>1. Len(s) \in Nat
  OBVIOUS
<1>2. 0 \in T
  OBVIOUS
<1>3. ASSUME NEW n \in Nat, n \in T
      PROVE  n + 1 \in T
  <2> SUFFICES ASSUME n + 1 \in 1..Len(s)
               PROVE  f[n + 1] = g[n + 1]
    OBVIOUS
  <2>1. /\ f[n + 1] = IF n + 1 = 1 THEN s[n + 1] ELSE f[(n + 1) - 1] \o s[n + 1]
        /\ g[n + 1] = IF n + 1 = 1 THEN s[n + 1] ELSE g[(n + 1) - 1] \o s[n + 1]
    BY DEF IsJoin
  <2>2. n + 1 # 1 => n \in 1..Len(s) /\ (n + 1) - 1 = n
    BY <1>1
  <2>3. n + 1 # 1 => f[n] = g[n]
    BY <1>3, <2>2
  <2> QED
    BY <2>1, <2>2, <2>3
<1> HIDE DEF T
<1>4. \A n \in Nat : n \in T
  BY <1>2, <1>3, SetInduction
<1> QED
  BY <1>1, <1>4 DEF T

LEMMA JoinExists ==
  ASSUME NEW L, NEW s \in Seq(Seq(L))
  PROVE  \E f \in [1..Len(s) -> Seq(L)] : IsJoin(f, s)
<1> DEFINE Q == Seq(L)
           Joins(n) == \A r \in [1..n -> Q] : \E f \in [1..n -> Q] :
                         \A i \in 1..n : f[i] = IF i = 1 THEN r[i] ELSE f[i - 1] \o r[i]
           T == {n \in Nat : Joins(n)}
<1>1. \A x, y \in Q : x \o y \in Q
  OBVIOUS
<1> HIDE DEF Q
<1>2. 0 \in T
  <2>1. \A r \in [1..0 -> Q] : r \in [1..0 -> Q] /\ 1..0 = {}
    OBVIOUS
  <2> QED
    BY <2>1
<1>3. ASSUME NEW n \in Nat, n \in T
      PROVE  n + 1 \in T
  <2> SUFFICES ASSUME NEW r \in [1..(n + 1) -> Q]
               PROVE  \E g \in [1..(n + 1) -> Q] :
                        \A i \in 1..(n + 1) : g[i] = IF i = 1 THEN r[i] ELSE g[i - 1] \o r[i]
    <3>1. Joins(n + 1) => n + 1 \in T
      <4> HIDE DEF Joins
      <4> QED
        OBVIOUS
    <3> QED
      BY <3>1
  <2>1. [i \in 1..n |-> r[i]] \in [1..n -> Q]
    OBVIOUS
  <2>2. PICK f \in [1..n -> Q] :
          \A i \in 1..n : f[i] = IF i = 1 THEN r[i] ELSE f[i - 1] \o r[i]
    <3> DEFINE q == [j \in 1..n |-> r[j]]
    <3>1. PICK f \in [1..n -> Q] : \A i \in 1..n : f[i] = IF i = 1 THEN q[i] ELSE f[i - 1] \o q[i]
      BY <1>3, <2>1
    <3>2. \A i \in 1..n : q[i] = r[i]
      OBVIOUS
    <3> HIDE DEF q
    <3> QED
      BY <3>1, <3>2
  <2> DEFINE g == [i \in 1..(n + 1) |-> IF i <= n THEN f[i]
                                        ELSE IF i = 1 THEN r[i] ELSE f[i - 1] \o r[i]]
  <2>3. \A i \in 1..(n + 1) : g[i] \in Q
    <3> SUFFICES ASSUME NEW i \in 1..(n + 1)
                 PROVE  g[i] \in Q
      OBVIOUS
    <3>1. CASE i <= n
      BY <3>1
    <3>2. CASE ~ (i <= n) /\ i = 1
      BY <3>2
    <3>3. CASE ~ (i <= n) /\ i # 1
      <4>1. i - 1 \in 1..n
        BY <3>3
      <4>2. f[i - 1] \in Q /\ r[i] \in Q
        BY <4>1
      <4> QED
        BY <1>1, <3>3, <4>2
    <3> QED
      BY <3>1, <3>2, <3>3
  <2>4. \A i \in 1..(n + 1) : g[i] = IF i = 1 THEN r[i] ELSE g[i - 1] \o r[i]
    <3> SUFFICES ASSUME NEW i \in 1..(n + 1)
                 PROVE  g[i] = IF i = 1 THEN r[i] ELSE g[i - 1] \o r[i]
      OBVIOUS
    <3>1. i # 1 => i - 1 \in 1..(n + 1) /\ i - 1 <= n
      OBVIOUS
    <3>2. i # 1 => g[i - 1] = f[i - 1]
      BY <3>1
    <3>3. ASSUME i <= n
          PROVE  f[i] = IF i = 1 THEN r[i] ELSE f[i - 1] \o r[i]
      <4>1. i \in 1..n
        BY <3>3
      <4> QED
        BY <2>2, <4>1
    <3> QED
      BY <3>2, <3>3
  <2>5. g = [i \in 1..(n + 1) |-> g[i]]
    OBVIOUS
  <2> HIDE DEF g
  <2>6. g \in [1..(n + 1) -> Q]
    BY <2>3, <2>5
  <2> QED
    BY <2>4, <2>6
<1> HIDE DEF T
<1>4. Len(s) \in Nat /\ s \in [1..Len(s) -> Q]
  BY LenProperties DEF Q
<1>5. Len(s) \in T
  BY <1>2, <1>3, <1>4, SetInduction
<1>6. PICK f \in [1..Len(s) -> Q] :
        \A i \in 1..Len(s) : f[i] = IF i = 1 THEN s[i] ELSE f[i - 1] \o s[i]
  BY <1>4, <1>5 DEF T
<1>7. f = [i \in 1..Len(s) |-> IF i = 1 THEN s[i] ELSE f[i - 1] \o s[i]]
  BY <1>6
<1> QED
  BY <1>6, <1>7 DEF Q, IsJoin

LEMMA FlattenIsJoin ==
  ASSUME NEW L, NEW s \in Seq(Seq(L)), Len(s) # 0, NEW f, IsJoin(f, s)
  PROVE  FlattenSeq(s) = f[Len(s)]
<1> DEFINE g == CHOOSE h : h = [i \in 1..Len(s) |-> IF i = 1 THEN s[i] ELSE h[i - 1] \o s[i]]
<1>1. IsJoin(g, s)
  BY DEF IsJoin
<1>2. FlattenSeq(s) = g[Len(s)]
  BY DEF FlattenSeq
<1> HIDE DEF g
<1>3. Len(s) \in 1..Len(s)
  OBVIOUS
<1> QED
  BY <1>1, <1>2, <1>3, JoinIsUnique

LEMMA FlattenType ==
  ASSUME NEW L, NEW s \in Seq(Seq(L))
  PROVE  FlattenSeq(s) \in Seq(L)
<1>1. CASE Len(s) = 0
  <2>1. FlattenSeq(s) = s /\ s = <<>>
    BY <1>1, EmptySeq DEF FlattenSeq
  <2> QED
    BY <2>1
<1>2. CASE Len(s) # 0
  <2>1. PICK f \in [1..Len(s) -> Seq(L)] : IsJoin(f, s)
    BY JoinExists
  <2>2. FlattenSeq(s) = f[Len(s)]
    BY <1>2, <2>1, FlattenIsJoin
  <2>3. Len(s) \in 1..Len(s)
    BY <1>2
  <2> QED
    BY <2>2, <2>3
<1> QED
  BY <1>1, <1>2

\* The join of s up to each of its places, with none before the first.
IsJoined(f, s, L) ==
  /\ Len(s) \in Nat /\ f[0] = <<>>
  /\ \A i \in 0..Len(s) : f[i] \in Seq(L)
  /\ \A i \in 1..Len(s) : s[i] \in Seq(L) /\ f[i] = f[i - 1] \o s[i]

LEMMA FlattenSteps ==
  ASSUME NEW L, NEW s \in Seq(Seq(L))
  PROVE  \E f : IsJoined(f, s, L) /\ FlattenSeq(s) = f[Len(s)]
<1>1. Len(s) \in Nat /\ <<>> \in Seq(L) /\ \A i \in 1..Len(s) : s[i] \in Seq(L)
  OBVIOUS
<1>2. PICK g \in [1..Len(s) -> Seq(L)] : IsJoin(g, s)
  BY JoinExists
<1> DEFINE f == [i \in 0..Len(s) |-> IF i = 0 THEN <<>> ELSE g[i]]
<1>3. f \in [0..Len(s) -> Seq(L)] /\ f[0] = <<>> /\ \A i \in 1..Len(s) : f[i] = g[i]
  BY <1>1, <1>2
<1> HIDE DEF f
<1>4. ASSUME NEW i \in 1..Len(s)
      PROVE  f[i] = f[i - 1] \o s[i]
  <2>1. g[i] = IF i = 1 THEN s[i] ELSE g[i - 1] \o s[i]
    BY <1>2 DEF IsJoin
  <2>2. i = 1 => f[i - 1] = <<>>
    BY <1>3
  <2>3. i # 1 => i - 1 \in 1..Len(s)
    BY <1>1
  <2> QED
    BY <1>1, <1>3, <2>1, <2>2, <2>3, ConcatEmptySeq
<1>5. CASE Len(s) = 0
  <2>1. FlattenSeq(s) = <<>>
    BY <1>5, EmptySeq DEF FlattenSeq
  <2> QED
    BY <1>3, <1>4, <1>5, <2>1 DEF IsJoined
<1>6. CASE Len(s) # 0
  <2>1. FlattenSeq(s) = g[Len(s)] /\ Len(s) \in 1..Len(s)
    BY <1>1, <1>2, <1>6, FlattenIsJoin
  <2>2. FlattenSeq(s) = f[Len(s)]
    BY <1>3, <2>1
  <2>3. IsJoined(f, s, L)
    BY <1>1, <1>3, <1>4 DEF IsJoined
  <2> QED
    BY <2>2, <2>3
<1> QED
  BY <1>5, <1>6

-----------------------------------------------------------------------------
(* Sequences of whatever items.                                              *)

IsSeq(s) == s \in Seq(ToSet(s))

LEMMA SeqIsSeq ==
  ASSUME NEW S, NEW s \in Seq(S)
  PROVE  IsSeq(s)
<1>1. Len(s) \in Nat /\ s \in [1..Len(s) -> S] /\ DOMAIN s = 1..Len(s)
  BY LenProperties
<1>2. s \in [1..Len(s) -> ToSet(s)]
  BY <1>1 DEF ToSet
<1> QED
  BY <1>1, <1>2 DEF IsSeq

LEMMA IsSeqIsFunction ==
  ASSUME NEW s, IsSeq(s)
  PROVE  Len(s) \in Nat /\ DOMAIN s = 1..Len(s) /\ s = [i \in 1..Len(s) |-> s[i]]
BY LenProperties DEF IsSeq

LEMMA FunctionIsSeq ==
  ASSUME NEW n \in Nat, NEW s, s = [i \in 1..n |-> s[i]]
  PROVE  IsSeq(s) /\ Len(s) = n
<1>1. s \in [1..n -> {s[i] : i \in 1..n}]
  OBVIOUS
<1>2. s \in Seq({s[i] : i \in 1..n}) /\ Len(s) = n
  BY <1>1
<1> QED
  BY <1>2, SeqIsSeq

LEMMA ConcatIsSeq ==
  ASSUME NEW s, NEW t, IsSeq(s), IsSeq(t)
  PROVE  /\ IsSeq(s \o t)
         /\ Len(s \o t) = Len(s) + Len(t)
         /\ \A i \in 1..(Len(s) + Len(t)) :
              (s \o t)[i] = IF i <= Len(s) THEN s[i] ELSE t[i - Len(s)]
<1> DEFINE S == ToSet(s) \cup ToSet(t)
<1>1. s \in Seq(S) /\ t \in Seq(S)
  BY SeqMonotonic DEF IsSeq
<1> HIDE DEF S
<1>2. s \o t \in Seq(S)
  BY <1>1, ConcatProperties
<1> QED
  BY <1>1, <1>2, ConcatProperties, SeqIsSeq

LEMMA EmptyIsSeq == IsSeq(<<>>) /\ Len(<<>>) = 0
<1>1. <<>> \in Seq({}) /\ Len(<<>>) = 0
  BY EmptySeq
<1>2. \A s \in Seq({}) : IsSeq(s)
  BY SeqIsSeq
<1> QED
  BY <1>1, <1>2

LEMMA OneIsSeq ==
  ASSUME NEW x
  PROVE  IsSeq(<<x>>) /\ Len(<<x>>) = 1 /\ <<x>>[1] = x /\ DOMAIN <<x>> = {1}
<1>1. <<x>> \in Seq({x}) /\ Len(<<x>>) = 1 /\ <<x>>[1] = x /\ DOMAIN <<x>> = {1}
  <2>1. 1..1 = {1}
    OBVIOUS
  <2> QED
    BY <2>1
<1>2. \A s \in Seq({x}) : IsSeq(s)
  BY SeqIsSeq
<1> QED
  BY <1>1, <1>2

\* One part is joined to its text.
LEMMA FlattenOne ==
  ASSUME NEW x
  PROVE  FlattenSeq(<<x>>) = x
<1> DEFINE Step(f) == [i \in 1..Len(<<x>>) |-> IF i = 1 THEN <<x>>[i] ELSE f[i - 1] \o <<x>>[i]]
           f0 == [i \in {1} |-> x]
<1>1. Len(<<x>>) = 1 /\ 1..1 = {1} /\ <<x>>[1] = x
  OBVIOUS
<1>2. f0 = Step(f0)
  <2>1. Step(f0) = [i \in {1} |-> IF i = 1 THEN <<x>>[i] ELSE f0[i - 1] \o <<x>>[i]]
    BY <1>1
  <2> QED
    BY <1>1, <2>1
<1> DEFINE g == CHOOSE f : f = Step(f)
<1>3. g = Step(g)
  <2> HIDE DEF Step, f0
  <2> QED
    BY <1>2
<1>4. FlattenSeq(<<x>>) = g[1]
  BY <1>1 DEF FlattenSeq
<1>5. g[1] = x
  <2> HIDE DEF g
  <2> QED
    BY <1>1, <1>3
<1> QED
  BY <1>4, <1>5

-----------------------------------------------------------------------------
(* JSON values of every depth.                                               *)

\* The recursive functions are what their definitions say of the level below.
LEMMA JsonUnfolds ==
  \A n \in Nat : JsonTo[n] = IF n = 0 THEN Scalars ELSE Scalars \cup MadeOf(JsonTo[n - 1])
<1> DEFINE E(x, n) == IF n = 0 THEN Scalars ELSE Scalars \cup MadeOf(x)
           Step(f) == [n \in Nat |-> E(f[n - 1], n)]
           Run(f, n) == \A m \in 0..n : f[m] = E(f[m - 1], m)
           T == {n \in Nat : \E f : Run(f, n)}
           h == [n \in Nat |-> (CHOOSE f : Run(f, n))[n]]
<1>1. \A x, y : E(x, 0) = E(y, 0)
  OBVIOUS
<1>2. JsonTo = CHOOSE f : f = Step(f)
  BY DEF JsonTo
<1> HIDE DEF E
<1>3. 0 \in T
  <2> DEFINE f == [m \in {0} |-> E(0, 0)]
  <2>1. f[0] = E(f[0 - 1], 0)
    BY <1>1
  <2>2. 0..0 = {0}
    OBVIOUS
  <2> HIDE DEF f
  <2>3. Run(f, 0)
    BY <2>1, <2>2
  <2> QED
    BY <2>3
<1>4. ASSUME NEW n \in Nat, n \in T
      PROVE  n + 1 \in T
  <2>1. PICK f : Run(f, n)
    BY <1>4
  <2> DEFINE g == [m \in 0..(n + 1) |-> IF m <= n THEN f[m] ELSE E(f[n], m)]
  <2>2. /\ \A m \in 0..n : g[m] = f[m]
        /\ g[n + 1] = E(f[n], n + 1)
    OBVIOUS
  <2> HIDE DEF g
  <2>3. ASSUME NEW m \in 0..(n + 1)
        PROVE  g[m] = E(g[m - 1], m)
    <3>1. CASE m = 0
      <4>1. 0 \in 0..n
        OBVIOUS
      <4>2. f[0] = E(f[0 - 1], 0) /\ g[0] = f[0]
        BY <2>1, <2>2, <4>1
      <4> QED
        BY <1>1, <3>1, <4>2
    <3>2. CASE m = n + 1
      <4>1. m - 1 = n /\ n \in 0..n
        BY <3>2
      <4> QED
        BY <2>2, <3>2, <4>1
    <3>3. CASE m # 0 /\ m # n + 1
      <4>1. m \in 0..n /\ m - 1 \in 0..n
        BY <3>3
      <4>2. f[m] = E(f[m - 1], m)
        BY <2>1, <4>1
      <4> QED
        BY <2>2, <4>1, <4>2
    <3> QED
      BY <3>1, <3>2, <3>3
  <2>4. Run(g, n + 1)
    BY <2>3
  <2> HIDE DEF Run
  <2> QED
    BY <2>4
<1>5. \A n \in Nat : n \in T
  <2> HIDE DEF T
  <2> QED
    BY <1>3, <1>4, SetInduction
<1>6. ASSUME NEW n \in Nat
      PROVE  Run(CHOOSE f : Run(f, n), n)
  <2>1. \E f : Run(f, n)
    BY <1>5
  <2> HIDE DEF Run
  <2> QED
    BY <2>1
<1>7. ASSUME NEW n \in Nat, NEW f, NEW g, Run(f, n), Run(g, n + 1)
      PROVE  f[n] = g[n]
  <2> DEFINE S == {m \in Nat : m <= n => f[m] = g[m]}
  <2>1. 0 \in S
    <3>1. 0 \in 0..n /\ 0 \in 0..(n + 1)
      OBVIOUS
    <3>2. f[0] = E(f[0 - 1], 0) /\ g[0] = E(g[0 - 1], 0)
      BY <1>7, <3>1
    <3> QED
      BY <1>1, <3>2
  <2>2. ASSUME NEW m \in Nat, m \in S
        PROVE  m + 1 \in S
    <3> SUFFICES ASSUME m + 1 <= n
                 PROVE  f[m + 1] = g[m + 1]
      OBVIOUS
    <3>1. m + 1 \in 0..n /\ m + 1 \in 0..(n + 1) /\ (m + 1) - 1 = m /\ m <= n
      OBVIOUS
    <3>2. f[m + 1] = E(f[m], m + 1) /\ g[m + 1] = E(g[m], m + 1)
      BY <1>7, <3>1
    <3> QED
      BY <2>2, <3>1, <3>2
  <2>3. n \in S
    <3> HIDE DEF S
    <3> QED
      BY <2>1, <2>2, SetInduction
  <2> QED
    BY <2>3
<1>8. ASSUME NEW n \in Nat
      PROVE  h[n] = E(h[n - 1], n)
  <2> DEFINE f == CHOOSE f : Run(f, n)
             g == CHOOSE g : Run(g, n - 1)
  <2>1. h[n] = f[n] /\ Run(f, n)
    BY <1>6
  <2> HIDE DEF f
  <2>2. f[n] = E(f[n - 1], n)
    BY <2>1
  <2>3. CASE n = 0
    BY <1>1, <2>1, <2>2, <2>3
  <2>4. CASE n # 0
    <3>1. n - 1 \in Nat /\ (n - 1) + 1 = n
      BY <2>4
    <3>2. h[n - 1] = g[n - 1] /\ Run(g, n - 1)
      BY <1>6, <3>1
    <3> HIDE DEF g, h, Run
    <3>3. g[n - 1] = f[n - 1]
      BY <1>7, <2>1, <3>1, <3>2
    <3> QED
      BY <2>1, <2>2, <3>2, <3>3
  <2> QED
    BY <2>3, <2>4
<1>9. h = Step(h)
  <2>1. h = [n \in Nat |-> h[n]]
    OBVIOUS
  <2> HIDE DEF h
  <2> QED
    BY <1>8, <2>1
<1>10. JsonTo = Step(JsonTo)
  <2> HIDE DEF Step, h
  <2> QED
    BY <1>2, <1>9
<1> QED
  BY <1>10 DEF E

LEMMA WrittenUnfolds ==
  \A n \in Nat : WrittenTo[n] =
    [value \in JsonTo[n] |->
      IF n = 0 THEN ScalarBytes(value) ELSE WrittenOf(value, WrittenTo[n - 1])]
<1> DEFINE E(x, n) == [value \in JsonTo[n] |->
                           IF n = 0 THEN ScalarBytes(value) ELSE WrittenOf(value, x)]
           Step(f) == [n \in Nat |-> E(f[n - 1], n)]
           Run(f, n) == \A m \in 0..n : f[m] = E(f[m - 1], m)
           T == {n \in Nat : \E f : Run(f, n)}
           h == [n \in Nat |-> (CHOOSE f : Run(f, n))[n]]
<1>1. \A x, y : E(x, 0) = E(y, 0)
  OBVIOUS
<1>2. WrittenTo = CHOOSE f : f = Step(f)
  BY DEF WrittenTo
<1> HIDE DEF E
<1>3. 0 \in T
  <2> DEFINE f == [m \in {0} |-> E(0, 0)]
  <2>1. f[0] = E(f[0 - 1], 0)
    BY <1>1
  <2>2. 0..0 = {0}
    OBVIOUS
  <2> HIDE DEF f
  <2>3. Run(f, 0)
    BY <2>1, <2>2
  <2> QED
    BY <2>3
<1>4. ASSUME NEW n \in Nat, n \in T
      PROVE  n + 1 \in T
  <2>1. PICK f : Run(f, n)
    BY <1>4
  <2> DEFINE g == [m \in 0..(n + 1) |-> IF m <= n THEN f[m] ELSE E(f[n], m)]
  <2>2. /\ \A m \in 0..n : g[m] = f[m]
        /\ g[n + 1] = E(f[n], n + 1)
    OBVIOUS
  <2> HIDE DEF g
  <2>3. ASSUME NEW m \in 0..(n + 1)
        PROVE  g[m] = E(g[m - 1], m)
    <3>1. CASE m = 0
      <4>1. 0 \in 0..n
        OBVIOUS
      <4>2. f[0] = E(f[0 - 1], 0) /\ g[0] = f[0]
        BY <2>1, <2>2, <4>1
      <4> QED
        BY <1>1, <3>1, <4>2
    <3>2. CASE m = n + 1
      <4>1. m - 1 = n /\ n \in 0..n
        BY <3>2
      <4> QED
        BY <2>2, <3>2, <4>1
    <3>3. CASE m # 0 /\ m # n + 1
      <4>1. m \in 0..n /\ m - 1 \in 0..n
        BY <3>3
      <4>2. f[m] = E(f[m - 1], m)
        BY <2>1, <4>1
      <4> QED
        BY <2>2, <4>1, <4>2
    <3> QED
      BY <3>1, <3>2, <3>3
  <2>4. Run(g, n + 1)
    BY <2>3
  <2> HIDE DEF Run
  <2> QED
    BY <2>4
<1>5. \A n \in Nat : n \in T
  <2> HIDE DEF T
  <2> QED
    BY <1>3, <1>4, SetInduction
<1>6. ASSUME NEW n \in Nat
      PROVE  Run(CHOOSE f : Run(f, n), n)
  <2>1. \E f : Run(f, n)
    BY <1>5
  <2> HIDE DEF Run
  <2> QED
    BY <2>1
<1>7. ASSUME NEW n \in Nat, NEW f, NEW g, Run(f, n), Run(g, n + 1)
      PROVE  f[n] = g[n]
  <2> DEFINE S == {m \in Nat : m <= n => f[m] = g[m]}
  <2>1. 0 \in S
    <3>1. 0 \in 0..n /\ 0 \in 0..(n + 1)
      OBVIOUS
    <3>2. f[0] = E(f[0 - 1], 0) /\ g[0] = E(g[0 - 1], 0)
      BY <1>7, <3>1
    <3> QED
      BY <1>1, <3>2
  <2>2. ASSUME NEW m \in Nat, m \in S
        PROVE  m + 1 \in S
    <3> SUFFICES ASSUME m + 1 <= n
                 PROVE  f[m + 1] = g[m + 1]
      OBVIOUS
    <3>1. m + 1 \in 0..n /\ m + 1 \in 0..(n + 1) /\ (m + 1) - 1 = m /\ m <= n
      OBVIOUS
    <3>2. f[m + 1] = E(f[m], m + 1) /\ g[m + 1] = E(g[m], m + 1)
      BY <1>7, <3>1
    <3> QED
      BY <2>2, <3>1, <3>2
  <2>3. n \in S
    <3> HIDE DEF S
    <3> QED
      BY <2>1, <2>2, SetInduction
  <2> QED
    BY <2>3
<1>8. ASSUME NEW n \in Nat
      PROVE  h[n] = E(h[n - 1], n)
  <2> DEFINE f == CHOOSE f : Run(f, n)
             g == CHOOSE g : Run(g, n - 1)
  <2>1. h[n] = f[n] /\ Run(f, n)
    BY <1>6
  <2> HIDE DEF f
  <2>2. f[n] = E(f[n - 1], n)
    BY <2>1
  <2>3. CASE n = 0
    BY <1>1, <2>1, <2>2, <2>3
  <2>4. CASE n # 0
    <3>1. n - 1 \in Nat /\ (n - 1) + 1 = n
      BY <2>4
    <3>2. h[n - 1] = g[n - 1] /\ Run(g, n - 1)
      BY <1>6, <3>1
    <3> HIDE DEF g, h, Run
    <3>3. g[n - 1] = f[n - 1]
      BY <1>7, <2>1, <3>1, <3>2
    <3> QED
      BY <2>1, <2>2, <3>2, <3>3
  <2> QED
    BY <2>3, <2>4
<1>9. h = Step(h)
  <2>1. h = [n \in Nat |-> h[n]]
    OBVIOUS
  <2> HIDE DEF h
  <2> QED
    BY <1>8, <2>1
<1>10. WrittenTo = Step(WrittenTo)
  <2> HIDE DEF Step, h
  <2> QED
    BY <1>2, <1>9
<1> QED
  BY <1>10 DEF E

LEMMA MeaningUnfolds ==
  \A n \in Nat : MeaningTo[n] =
    [value \in JsonTo[n] |-> IF n = 0 THEN value ELSE MeaningOf(value, MeaningTo[n - 1])]
<1> DEFINE E(x, n) == [value \in JsonTo[n] |->
                           IF n = 0 THEN value ELSE MeaningOf(value, x)]
           Step(f) == [n \in Nat |-> E(f[n - 1], n)]
           Run(f, n) == \A m \in 0..n : f[m] = E(f[m - 1], m)
           T == {n \in Nat : \E f : Run(f, n)}
           h == [n \in Nat |-> (CHOOSE f : Run(f, n))[n]]
<1>1. \A x, y : E(x, 0) = E(y, 0)
  OBVIOUS
<1>2. MeaningTo = CHOOSE f : f = Step(f)
  BY DEF MeaningTo
<1> HIDE DEF E
<1>3. 0 \in T
  <2> DEFINE f == [m \in {0} |-> E(0, 0)]
  <2>1. f[0] = E(f[0 - 1], 0)
    BY <1>1
  <2>2. 0..0 = {0}
    OBVIOUS
  <2> HIDE DEF f
  <2>3. Run(f, 0)
    BY <2>1, <2>2
  <2> QED
    BY <2>3
<1>4. ASSUME NEW n \in Nat, n \in T
      PROVE  n + 1 \in T
  <2>1. PICK f : Run(f, n)
    BY <1>4
  <2> DEFINE g == [m \in 0..(n + 1) |-> IF m <= n THEN f[m] ELSE E(f[n], m)]
  <2>2. /\ \A m \in 0..n : g[m] = f[m]
        /\ g[n + 1] = E(f[n], n + 1)
    OBVIOUS
  <2> HIDE DEF g
  <2>3. ASSUME NEW m \in 0..(n + 1)
        PROVE  g[m] = E(g[m - 1], m)
    <3>1. CASE m = 0
      <4>1. 0 \in 0..n
        OBVIOUS
      <4>2. f[0] = E(f[0 - 1], 0) /\ g[0] = f[0]
        BY <2>1, <2>2, <4>1
      <4> QED
        BY <1>1, <3>1, <4>2
    <3>2. CASE m = n + 1
      <4>1. m - 1 = n /\ n \in 0..n
        BY <3>2
      <4> QED
        BY <2>2, <3>2, <4>1
    <3>3. CASE m # 0 /\ m # n + 1
      <4>1. m \in 0..n /\ m - 1 \in 0..n
        BY <3>3
      <4>2. f[m] = E(f[m - 1], m)
        BY <2>1, <4>1
      <4> QED
        BY <2>2, <4>1, <4>2
    <3> QED
      BY <3>1, <3>2, <3>3
  <2>4. Run(g, n + 1)
    BY <2>3
  <2> HIDE DEF Run
  <2> QED
    BY <2>4
<1>5. \A n \in Nat : n \in T
  <2> HIDE DEF T
  <2> QED
    BY <1>3, <1>4, SetInduction
<1>6. ASSUME NEW n \in Nat
      PROVE  Run(CHOOSE f : Run(f, n), n)
  <2>1. \E f : Run(f, n)
    BY <1>5
  <2> HIDE DEF Run
  <2> QED
    BY <2>1
<1>7. ASSUME NEW n \in Nat, NEW f, NEW g, Run(f, n), Run(g, n + 1)
      PROVE  f[n] = g[n]
  <2> DEFINE S == {m \in Nat : m <= n => f[m] = g[m]}
  <2>1. 0 \in S
    <3>1. 0 \in 0..n /\ 0 \in 0..(n + 1)
      OBVIOUS
    <3>2. f[0] = E(f[0 - 1], 0) /\ g[0] = E(g[0 - 1], 0)
      BY <1>7, <3>1
    <3> QED
      BY <1>1, <3>2
  <2>2. ASSUME NEW m \in Nat, m \in S
        PROVE  m + 1 \in S
    <3> SUFFICES ASSUME m + 1 <= n
                 PROVE  f[m + 1] = g[m + 1]
      OBVIOUS
    <3>1. m + 1 \in 0..n /\ m + 1 \in 0..(n + 1) /\ (m + 1) - 1 = m /\ m <= n
      OBVIOUS
    <3>2. f[m + 1] = E(f[m], m + 1) /\ g[m + 1] = E(g[m], m + 1)
      BY <1>7, <3>1
    <3> QED
      BY <2>2, <3>1, <3>2
  <2>3. n \in S
    <3> HIDE DEF S
    <3> QED
      BY <2>1, <2>2, SetInduction
  <2> QED
    BY <2>3
<1>8. ASSUME NEW n \in Nat
      PROVE  h[n] = E(h[n - 1], n)
  <2> DEFINE f == CHOOSE f : Run(f, n)
             g == CHOOSE g : Run(g, n - 1)
  <2>1. h[n] = f[n] /\ Run(f, n)
    BY <1>6
  <2> HIDE DEF f
  <2>2. f[n] = E(f[n - 1], n)
    BY <2>1
  <2>3. CASE n = 0
    BY <1>1, <2>1, <2>2, <2>3
  <2>4. CASE n # 0
    <3>1. n - 1 \in Nat /\ (n - 1) + 1 = n
      BY <2>4
    <3>2. h[n - 1] = g[n - 1] /\ Run(g, n - 1)
      BY <1>6, <3>1
    <3> HIDE DEF g, h, Run
    <3>3. g[n - 1] = f[n - 1]
      BY <1>7, <2>1, <3>1, <3>2
    <3> QED
      BY <2>1, <2>2, <3>2, <3>3
  <2> QED
    BY <2>3, <2>4
<1>9. h = Step(h)
  <2>1. h = [n \in Nat |-> h[n]]
    OBVIOUS
  <2> HIDE DEF h
  <2> QED
    BY <1>8, <2>1
<1>10. MeaningTo = Step(MeaningTo)
  <2> HIDE DEF Step, h
  <2> QED
    BY <1>2, <1>9
<1> QED
  BY <1>10 DEF E

-----------------------------------------------------------------------------
(* Where the parts of a list or an object are in its bytes.                  *)

\* What is joined stays where it is.
Follows(z, x, y) ==
  /\ Len(x) \in Nat /\ Len(y) \in Nat /\ Len(z) \in Nat /\ Len(z) = Len(x) + Len(y)
  /\ \A j \in 1..Len(x) : z[j] = x[j]
  /\ \A j \in 1..Len(y) : z[Len(x) + j] = y[j]

LEMMA JoinedPlace ==
  ASSUME NEW L, NEW s, NEW f, IsJoined(f, s, L), NEW i \in 1..Len(s)
  PROVE  Follows(f[i], f[i - 1], s[i])
<1>1. Len(s) \in Nat /\ i - 1 \in 0..Len(s) /\ i \in 0..Len(s)
  BY DEF IsJoined
<1>2. f[i - 1] \in Seq(L) /\ f[i] \in Seq(L) /\ s[i] \in Seq(L) /\ f[i] = f[i - 1] \o s[i]
  BY <1>1 DEF IsJoined
<1> DEFINE x == f[i - 1]
           y == s[i]
           z == f[i]
           n == Len(x)
           m == Len(y)
<1>3. x \in Seq(L) /\ y \in Seq(L) /\ z \in Seq(L) /\ z = x \o y
  BY <1>2
<1> HIDE DEF x, y, z
<1>4. n \in Nat /\ m \in Nat /\ Len(z) \in Nat /\ Len(z) = n + m
  BY <1>3, ConcatProperties
<1>5. \A j \in 1..(n + m) : z[j] = IF j <= n THEN x[j] ELSE y[j - n]
  BY <1>3, ConcatProperties
<1> HIDE DEF n, m
<1>6. \A j \in 1..n : z[j] = x[j]
  BY <1>4, <1>5
<1>7. ASSUME NEW j \in 1..m
      PROVE  z[n + j] = y[j]
  <2>1. n + j \in 1..(n + m) /\ ~ (n + j <= n) /\ (n + j) - n = j
    BY <1>4
  <2> QED
    BY <1>5, <2>1
<1>8. /\ n \in Nat /\ m \in Nat /\ Len(z) \in Nat /\ Len(z) = n + m
      /\ \A j \in 1..n : z[j] = x[j]
      /\ \A j \in 1..m : z[n + j] = y[j]
  BY <1>4, <1>6, <1>7
<1> QED
  BY <1>8 DEF n, m, x, y, z, Follows

LEMMA JoinedExtends ==
  ASSUME NEW L, NEW s, NEW f, IsJoined(f, s, L), NEW i \in 0..Len(s)
  PROVE  /\ Len(f[i]) <= Len(f[Len(s)])
         /\ \A j \in 1..Len(f[i]) : f[Len(s)][j] = f[i][j]
<1> DEFINE Stays(n) == Len(f[i]) <= Len(f[n]) /\ \A j \in 1..Len(f[i]) : f[n][j] = f[i][j]
           T == {n \in Nat : i + n <= Len(s) => Stays(i + n)}
<1>1. Len(s) \in Nat /\ i \in Nat /\ \A n \in 0..Len(s) : Len(f[n]) \in Nat
  BY LenProperties DEF IsJoined
<1>2. 0 \in T
  <2>1. i + 0 = i /\ Len(f[i]) <= Len(f[i])
    BY <1>1
  <2> QED
    BY <2>1
<1>3. ASSUME NEW n \in Nat, n \in T
      PROVE  n + 1 \in T
  <2> SUFFICES ASSUME i + (n + 1) <= Len(s)
               PROVE  Stays(i + (n + 1))
    OBVIOUS
  <2> DEFINE k == i + (n + 1)
  <2>1. k \in 1..Len(s) /\ k - 1 = i + n /\ i + n <= Len(s)
    BY <1>1
  <2>2. Stays(k - 1)
    BY <1>3, <2>1
  <2> HIDE DEF k, T
  <2>3. /\ Len(f[k - 1]) \in Nat /\ Len(s[k]) \in Nat /\ Len(f[k]) \in Nat
        /\ Len(f[k]) = Len(f[k - 1]) + Len(s[k])
        /\ \A j \in 1..Len(f[k - 1]) : f[k][j] = f[k - 1][j]
    <3>1. Follows(f[k], f[k - 1], s[k])
      BY <2>1, JoinedPlace
    <3> QED
      BY <3>1 DEF Follows
  <2> DEFINE x == Len(f[k - 1])
             y == Len(s[k])
             z == Len(f[k])
             w == Len(f[i])
  <2>4. x \in Nat /\ y \in Nat /\ z = x + y /\ w \in Nat /\ w <= x
    BY <1>1, <2>2, <2>3
  <2>5. \A j \in 1..w : f[k][j] = f[i][j]
    <3>1. \A j \in 1..x : f[k][j] = f[k - 1][j]
      BY <2>3
    <3>2. \A j \in 1..w : f[k - 1][j] = f[i][j]
      BY <2>2
    <3> HIDE DEF x, y, z, w
    <3> QED
      BY <2>4, <3>1, <3>2
  <2>6. w <= z
    <3> HIDE DEF x, y, z, w
    <3> QED
      BY <2>4
  <2> QED
    BY <2>5, <2>6 DEF k
<1> HIDE DEF T
<1>4. Len(s) - i \in Nat /\ i + (Len(s) - i) = Len(s)
  BY <1>1
<1>5. Len(s) - i \in T
  BY <1>2, <1>3, <1>4, SetInduction
<1> HIDE DEF Stays
<1>6. Stays(Len(s))
  BY <1>4, <1>5 DEF T
<1> QED
  BY <1>6 DEF Stays

Before(i) == IF i = 1 THEN 0 ELSE 1

\* The parts are at these places, one after another, each but the first after
\* a comma.
IsLaid(whole, open, parts, close, at) ==
  /\ IsSeq(whole) /\ Len(whole) \in Nat
  /\ Len(parts) \in Nat /\ at[0] = 1 /\ whole[1] = [token |-> open]
  /\ \A i \in 0..Len(parts) : at[i] \in Nat /\ at[i] < Len(whole)
  /\ \A i \in 1..Len(parts) :
       /\ IsSeq(parts[i]) /\ Len(parts[i]) \in Nat
       /\ at[i] = at[i - 1] + Before(i) + Len(parts[i])
       /\ i # 1 => whole[at[i - 1] + 1] = [token |-> ","]
       /\ \A j \in 1..Len(parts[i]) : whole[at[i - 1] + Before(i) + j] = parts[i][j]
  /\ whole[at[Len(parts)] + 1] = [token |-> close]
  /\ Len(whole) = at[Len(parts)] + 1

LEMMA ConcatFollows ==
  ASSUME NEW x, NEW y, IsSeq(x), IsSeq(y)
  PROVE  IsSeq(x \o y) /\ Follows(x \o y, x, y)
<1> DEFINE z == x \o y
           n == Len(x)
           m == Len(y)
<1>1. /\ IsSeq(z) /\ Len(z) = n + m /\ n \in Nat /\ m \in Nat
      /\ \A i \in 1..(n + m) : z[i] = IF i <= n THEN x[i] ELSE y[i - n]
  BY ConcatIsSeq, IsSeqIsFunction
<1> HIDE DEF z, n, m
<1>2. \A j \in 1..n : z[j] = x[j]
  BY <1>1
<1>3. ASSUME NEW j \in 1..m
      PROVE  z[n + j] = y[j]
  <2>1. n + j \in 1..(n + m) /\ ~ (n + j <= n) /\ (n + j) - n = j
    BY <1>1
  <2> QED
    BY <1>1, <2>1
<1>4. n + m \in Nat
  BY <1>1
<1> QED
  BY <1>1, <1>2, <1>3, <1>4 DEF Follows, z, n, m

LEMMA MarkIs ==
  ASSUME NEW mark
  PROVE  IsSeq(Mark(mark)) /\ Len(Mark(mark)) = 1 /\ Mark(mark)[1] = [token |-> mark]
BY OneIsSeq DEF Mark

LEMMA BracketedIsLaid ==
  ASSUME NEW open, NEW parts, NEW close, IsSeq(parts), \A i \in 1..Len(parts) : IsSeq(parts[i])
  PROVE  \E at : IsLaid(Bracketed(open, parts, close), open, parts, close, at)
<1> DEFINE n == Len(parts)
           chunks == [i \in DOMAIN parts |-> IF i = 1 THEN parts[i] ELSE Mark(",") \o parts[i]]
           L == UNION {ToSet(chunks[i]) : i \in 1..n}
           inner == FlattenSeq(chunks)
           begun == Mark(open) \o inner
           whole == begun \o Mark(close)
<1>1. n \in Nat /\ DOMAIN parts = 1..n
  BY IsSeqIsFunction
<1>2. /\ chunks = [i \in 1..n |-> chunks[i]]
      /\ \A i \in 1..n : chunks[i] = IF i = 1 THEN parts[i] ELSE Mark(",") \o parts[i]
  BY <1>1
<1>3. Bracketed(open, parts, close) = whole
  BY DEF Bracketed
<1> HIDE DEF chunks
<1>4. ASSUME NEW i \in 1..n
      PROVE  /\ IsSeq(chunks[i]) /\ Len(parts[i]) \in Nat
             /\ Len(chunks[i]) = Before(i) + Len(parts[i])
             /\ i # 1 => chunks[i][1] = [token |-> ","]
             /\ \A j \in 1..Len(parts[i]) : chunks[i][Before(i) + j] = parts[i][j]
  <2>1. IsSeq(parts[i]) /\ Len(parts[i]) \in Nat
    BY IsSeqIsFunction
  <2>2. CASE i = 1
    <3>1. chunks[i] = parts[i] /\ Before(i) = 0
      BY <1>2, <2>2 DEF Before
    <3>2. \A j \in 1..Len(parts[i]) : 0 + j = j
      OBVIOUS
    <3> QED
      BY <2>1, <2>2, <3>1, <3>2
  <2>3. CASE i # 1
    <3> DEFINE x == Mark(",")
               y == parts[i]
    <3>1. chunks[i] = x \o y /\ Before(i) = 1
      BY <1>2, <2>3 DEF Before
    <3>2. IsSeq(x \o y) /\ Follows(x \o y, x, y) /\ Len(x) = 1 /\ x[1] = [token |-> ","]
      BY <2>1, ConcatFollows, MarkIs
    <3> DEFINE z == x \o y
               c == Len(x)
               m == Len(y)
    <3>3. /\ chunks[i] = z /\ Follows(z, x, y) /\ c = 1 /\ x[1] = [token |-> ","] /\ IsSeq(z)
          /\ m \in Nat
      BY <2>1, <3>1, <3>2
    <3> HIDE DEF x, y, z
    <3>4. Len(z) = c + m /\ (\A j \in 1..c : z[j] = x[j]) /\ \A j \in 1..m : z[c + j] = y[j]
      BY <3>3 DEF Follows
    <3> HIDE DEF c, m
    <3>5. Len(z) = 1 + m /\ z[1] = [token |-> ","] /\ \A j \in 1..m : z[1 + j] = y[j]
      <4>1. c = 1
        BY <3>3
      <4>2. 1 \in 1..c
        BY <4>1
      <4> QED
        BY <3>3, <3>4, <4>1, <4>2
    <3>6. Before(i) = 1 /\ chunks[i] = z
      BY <3>1, <3>3
    <3> QED
      BY <2>1, <2>3, <3>3, <3>5, <3>6 DEF y, m
  <2> QED
    BY <2>2, <2>3
<1>5. IsSeq(chunks) /\ Len(chunks) = n
  BY <1>1, <1>2, FunctionIsSeq
<1>6. chunks \in Seq(Seq(L))
  <2>1. ASSUME NEW i \in 1..n
        PROVE  chunks[i] \in Seq(L)
    <3>1. chunks[i] \in Seq(ToSet(chunks[i])) /\ ToSet(chunks[i]) \subseteq L
      BY <1>4 DEF IsSeq
    <3> HIDE DEF L
    <3> QED
      BY <3>1, SeqMonotonic
  <2> HIDE DEF L
  <2>2. chunks \in [1..n -> Seq(L)]
    BY <1>2, <2>1
  <2> QED
    BY <1>1, <2>2
<1> HIDE DEF L
<1>7. PICK f : IsJoined(f, chunks, L) /\ inner = f[n]
  BY <1>5, <1>6, FlattenSteps
<1> HIDE DEF inner
<1>8. \A i \in 0..n : IsSeq(f[i]) /\ Len(f[i]) \in Nat
  <2>1. \A i \in 0..n : f[i] \in Seq(L)
    BY <1>5, <1>7 DEF IsJoined
  <2> QED
    BY <2>1, SeqIsSeq, IsSeqIsFunction
<1>9. IsSeq(inner) /\ Len(inner) \in Nat
  BY <1>1, <1>7, <1>8
<1>10. IsSeq(begun) /\ Follows(begun, Mark(open), inner)
  BY <1>9, ConcatFollows, MarkIs
<1> HIDE DEF begun
<1>11. IsSeq(whole) /\ Follows(whole, begun, Mark(close))
  BY <1>10, ConcatFollows, MarkIs
<1> HIDE DEF whole
<1>12. /\ Len(whole) = Len(inner) + 2
       /\ whole[1] = [token |-> open]
       /\ \A j \in 1..Len(inner) : whole[1 + j] = inner[j]
       /\ whole[Len(inner) + 2] = [token |-> close]
  <2> DEFINE m == Len(inner)
             k == Len(begun)
  <2>1. m \in Nat /\ k = 1 + m
    BY <1>9, <1>10, MarkIs DEF Follows
  <2>2. begun[1] = [token |-> open] /\ \A j \in 1..m : begun[1 + j] = inner[j]
    <3> DEFINE x == Mark(open)
               c == Len(x)
    <3>1. Follows(begun, x, inner) /\ c = 1 /\ x[1] = [token |-> open]
      BY <1>10, MarkIs
    <3> HIDE DEF x
    <3>2. /\ \A j \in 1..c : begun[j] = x[j]
          /\ \A j \in 1..Len(inner) : begun[c + j] = inner[j]
      BY <3>1 DEF Follows
    <3> HIDE DEF c
    <3> QED
      BY <3>1, <3>2
  <2>3. /\ Len(whole) = k + 1 /\ \A j \in 1..k : whole[j] = begun[j]
        /\ whole[k + 1] = [token |-> close]
    BY <1>11, MarkIs DEF Follows
  <2> HIDE DEF m, k
  <2>4. 1 \in 1..k /\ k + 1 = m + 2 /\ \A j \in 1..m : 1 + j \in 1..k
    BY <2>1
  <2> QED
    BY <2>2, <2>3, <2>4 DEF m
<1> DEFINE at == [i \in 0..n |-> 1 + Len(f[i])]
<1>13. \A i \in 0..n : at[i] = 1 + Len(f[i])
  OBVIOUS
<1>14. at[0] = 1
  <2>1. 0 \in 0..n /\ f[0] = <<>> /\ Len(<<>>) = 0
    BY <1>1, <1>7 DEF IsJoined
  <2> QED
    BY <1>13, <2>1
<1> HIDE DEF at
<1>15. ASSUME NEW i \in 0..n
       PROVE  /\ at[i] \in Nat /\ at[i] < Len(whole)
              /\ \A j \in 1..Len(f[i]) : whole[1 + j] = f[i][j]
  <2>1. /\ Len(f[i]) <= Len(inner)
        /\ \A j \in 1..Len(f[i]) : inner[j] = f[i][j]
    BY <1>5, <1>7, JoinedExtends
  <2> DEFINE a == Len(f[i])
             b == Len(inner)
             c == Len(whole)
  <2>2. a \in Nat /\ b \in Nat /\ a <= b /\ c = b + 2 /\ at[i] = 1 + a
    BY <1>8, <1>9, <1>12, <1>13, <2>1
  <2>3. /\ \A j \in 1..b : whole[1 + j] = inner[j]
        /\ \A j \in 1..a : inner[j] = f[i][j]
    BY <1>12, <2>1
  <2> HIDE DEF a, b, c
  <2>4. at[i] \in Nat /\ at[i] < c /\ \A j \in 1..a : j \in 1..b
    BY <2>2
  <2> QED
    BY <2>3, <2>4 DEF a, c
<1>16. ASSUME NEW i \in 1..n
       PROVE  /\ at[i] = at[i - 1] + Before(i) + Len(parts[i])
              /\ i # 1 => whole[at[i - 1] + 1] = [token |-> ","]
              /\ \A j \in 1..Len(parts[i]) : whole[at[i - 1] + Before(i) + j] = parts[i][j]
  <2> DEFINE a == Len(f[i - 1])
             b == Before(i)
             c == Len(parts[i])
             d == Len(f[i])
             chunk == chunks[i]
             there == f[i]
  <2>1. i \in 0..n /\ i - 1 \in 0..n
    BY <1>1
  <2>2. Follows(f[i], f[i - 1], chunks[i])
    BY <1>5, <1>7, JoinedPlace
  <2>3. b \in {0, 1} /\ (i # 1 => b = 1)
    BY DEF Before
  <2>4. /\ a \in Nat /\ c \in Nat /\ d = a + (b + c) /\ at[i - 1] = 1 + a /\ at[i] = 1 + d
    BY <1>4, <1>8, <1>13, <2>1, <2>2 DEF Follows
  <2>5. \A j \in 1..(b + c) : there[a + j] = chunk[j]
    BY <1>4, <2>2 DEF Follows
  <2>6. /\ i # 1 => chunk[1] = [token |-> ","]
        /\ \A j \in 1..c : chunk[b + j] = parts[i][j]
    BY <1>4
  <2>7. \A j \in 1..d : whole[1 + j] = there[j]
    BY <1>15, <2>1
  <2> HIDE DEF a, b, c, d, chunk, there
  <2>8. at[i] = at[i - 1] + b + c
    BY <2>3, <2>4
  <2>9. ASSUME i # 1
        PROVE  whole[at[i - 1] + 1] = [token |-> ","]
    <3>1. 1 \in 1..(b + c) /\ a + 1 \in 1..d /\ at[i - 1] + 1 = 1 + (a + 1)
      BY <2>3, <2>4, <2>9
    <3> QED
      BY <2>5, <2>6, <2>7, <2>9, <3>1
  <2>10. ASSUME NEW j \in 1..c
         PROVE  whole[at[i - 1] + b + j] = parts[i][j]
    <3>1. b + j \in 1..(b + c) /\ a + (b + j) \in 1..d /\ at[i - 1] + b + j = 1 + (a + (b + j))
      BY <2>3, <2>4
    <3> QED
      BY <2>5, <2>6, <2>7, <3>1
  <2> QED
    BY <2>8, <2>9, <2>10 DEF b, c
<1>17. whole[at[n] + 1] = [token |-> close] /\ Len(whole) = at[n] + 1 /\ Len(whole) \in Nat
  <2> DEFINE b == Len(inner)
  <2>1. b \in Nat /\ Len(whole) = b + 2 /\ at[n] = 1 + b /\ whole[b + 2] = [token |-> close]
    BY <1>1, <1>7, <1>9, <1>12, <1>13
  <2> HIDE DEF b
  <2>2. at[n] + 1 = b + 2 /\ b + 2 \in Nat
    BY <2>1
  <2> QED
    BY <2>1, <2>2
<1>18. IsLaid(whole, open, parts, close, at)
  BY <1>1, <1>4, <1>11, <1>12, <1>14, <1>15, <1>16, <1>17 DEF IsLaid
<1> QED
  BY <1>3, <1>18 DEF whole

\* Neither of two sequences goes on where the other differs or ends.
Agree(x, y) == \A j \in 1..Len(x) : j \in 1..Len(y) => x[j] = y[j]

\* What is written of something: it begins with no mark that comes after parts.
Closes(close) == close \in {"]", "}"}

IsBytes(x) ==
  /\ IsSeq(x) /\ Len(x) \in Nat /\ Len(x) >= 1
  /\ \A mark \in {",", "]", "}"} : x[1] # [token |-> mark]

SameUpTo(X, Y, a, b, n) == a[n] = b[n] /\ \A i \in 1..n : X[i] = Y[i]

SameTogether(X, Y, a, b) ==
  \A n \in Nat : n <= Len(X) /\ n <= Len(Y) => SameUpTo(X, Y, a, b, n)

\* Bytes between the same marks that agree have the same parts, if parts that
\* agree are the same.
LEMMA LaidAlike ==
  ASSUME NEW x, NEW y, NEW open, NEW close, NEW X, NEW Y, NEW a, NEW b,
         IsLaid(x, open, X, close, a), IsLaid(y, open, Y, close, b), Agree(x, y),
         \A i \in 1..Len(X) : i \in 1..Len(Y) => (Agree(X[i], Y[i]) => X[i] = Y[i])
  PROVE  SameTogether(X, Y, a, b)
<1> DEFINE Alike(n) == SameUpTo(X, Y, a, b, n)
           T == {n \in Nat : n <= Len(X) /\ n <= Len(Y) => Alike(n)}
<1>1. Len(X) \in Nat /\ Len(Y) \in Nat /\ Len(x) \in Nat /\ Len(y) \in Nat
  BY DEF IsLaid
<1>2. 0 \in T
  <2>1. a[0] = b[0]
    BY DEF IsLaid
  <2>2. 1..0 = {}
    OBVIOUS
  <2>3. Alike(0)
    BY <2>1, <2>2 DEF SameUpTo
  <2> QED
    BY <2>3
<1>3. ASSUME NEW n \in Nat, n \in T
      PROVE  n + 1 \in T
  <2> SUFFICES ASSUME n + 1 <= Len(X), n + 1 <= Len(Y)
               PROVE  Alike(n + 1)
    OBVIOUS
  <2> DEFINE k == n + 1
             p == a[n] + Before(k)
             u == Len(X[k])
             v == Len(Y[k])
             xs == X[k]
             ys == Y[k]
             lx == Len(x)
             ly == Len(y)
  <2>1. k \in 1..Len(X) /\ k \in 1..Len(Y) /\ k - 1 = n /\ k \in Nat /\ n \in 0..Len(X)
    BY <1>1
  <2>2. Alike(n) /\ a[n] = b[n] /\ \A i \in 1..n : X[i] = Y[i]
    BY <1>1, <1>3 DEF SameUpTo
  <2> HIDE DEF T
  <2>3. /\ u \in Nat /\ a[k] = a[k - 1] + Before(k) + u
        /\ \A j \in 1..u : x[a[k - 1] + Before(k) + j] = xs[j]
    BY <2>1 DEF IsLaid
  <2>4. /\ v \in Nat /\ b[k] = b[k - 1] + Before(k) + v
        /\ \A j \in 1..v : y[b[k - 1] + Before(k) + j] = ys[j]
    BY <2>1 DEF IsLaid
  <2>5. /\ a[k] \in Nat /\ a[k] < lx /\ b[k] \in Nat /\ b[k] < ly /\ a[n] \in Nat
    <3>1. k \in 0..Len(X) /\ k \in 0..Len(Y)
      BY <2>1
    <3> QED
      BY <2>1, <3>1 DEF IsLaid
  <2>6. Before(k) \in {0, 1}
    BY DEF Before
  <2> HIDE DEF k, xs, ys
  <2>7. /\ p \in Nat /\ a[k] = p + u /\ b[k] = p + v
        /\ \A j \in 1..u : x[p + j] = xs[j]
        /\ \A j \in 1..v : y[p + j] = ys[j]
    <3>1. a[k - 1] = a[n] /\ b[k - 1] = a[n]
      BY <2>1, <2>2
    <3>2. /\ a[k] = p + u /\ \A j \in 1..u : x[p + j] = xs[j]
          /\ b[k] = p + v /\ \A j \in 1..v : y[p + j] = ys[j]
      BY <2>3, <2>4, <3>1
    <3>3. p \in Nat
      BY <2>5, <2>6
    <3> QED
      BY <3>2, <3>3
  <2> HIDE DEF p
  <2>8. Agree(xs, ys)
    <3> SUFFICES ASSUME NEW j \in 1..u, j \in 1..v
                 PROVE  xs[j] = ys[j]
      BY DEF Agree, u, v, xs, ys
    <3>1. p + j \in 1..lx /\ p + j \in 1..ly
      <4>1. /\ lx \in Nat /\ ly \in Nat /\ p \in Nat /\ u \in Nat /\ v \in Nat
            /\ p + u < lx /\ p + v < ly
        BY <1>1, <2>3, <2>4, <2>5, <2>7
      <4> HIDE DEF u, v, lx, ly
      <4>2. p + j \in 1..lx
        BY <4>1
      <4>3. p + j \in 1..ly
        BY <4>1
      <4> QED
        BY <4>2, <4>3 DEF lx, ly
    <3>2. x[p + j] = y[p + j]
      BY <3>1 DEF Agree
    <3> QED
      BY <2>7, <3>2
  <2>9. xs = ys
    BY <2>1, <2>8 DEF xs, ys
  <2>10. u = v
    BY <2>9 DEF u, v, xs, ys
  <2>11. \A i \in 1..k : i = k \/ i \in 1..n
    BY DEF k
  <2>12. \A i \in 1..k : X[i] = Y[i]
    BY <2>2, <2>9, <2>11 DEF xs, ys
  <2>13. a[k] = b[k]
    BY <2>7, <2>10
  <2> QED
    BY <2>12, <2>13 DEF k, SameUpTo
<1> HIDE DEF T
<1>4. \A n \in Nat : n \in T
  BY <1>2, <1>3, SetInduction
<1> QED
  BY <1>4 DEF T, SameTogether

LEMMA LaidNoShorter ==
  ASSUME NEW x, NEW y, NEW open, NEW close, Closes(close), NEW X, NEW Y, NEW a, NEW b,
         IsLaid(x, open, X, close, a), IsLaid(y, open, Y, close, b), Agree(x, y),
         a[Len(X)] = b[Len(X)], \A i \in 1..Len(Y) : IsBytes(Y[i])
  PROVE  ~ (Len(X) < Len(Y))
<1> SUFFICES ASSUME Len(X) < Len(Y)
             PROVE  FALSE
  OBVIOUS
<1> DEFINE n == Len(X)
           m == Len(Y)
           k == n + 1
           p == b[n]
           lx == Len(x)
           ly == Len(y)
           first == Y[k]
<1>1. n \in Nat /\ m \in Nat /\ n < m /\ lx \in Nat /\ ly \in Nat
  BY DEF IsLaid
<1>2. x[a[n] + 1] = [token |-> close] /\ lx = a[n] + 1
  BY DEF IsLaid
<1>3. n \in 0..m /\ k \in 1..m /\ k - 1 = n
  <2> HIDE DEF n, m
  <2> QED
    BY <1>1
<1>4. p \in Nat /\ p < ly
  <2> HIDE DEF n
  <2> QED
    BY <1>3 DEF IsLaid
<1>5. /\ k # 1 => y[b[k - 1] + 1] = [token |-> ","]
      /\ \A j \in 1..Len(first) : y[b[k - 1] + Before(k) + j] = first[j]
  BY <1>3 DEF IsLaid
<1>6. IsBytes(first)
  BY <1>3
<1> HIDE DEF n, m, lx, ly, k
<1>7. p + 1 \in 1..lx /\ p + 1 \in 1..ly
  <2>1. a[n] = p
    BY DEF n
  <2>2. lx = p + 1
    BY <1>2, <2>1
  <2> HIDE DEF p
  <2> QED
    BY <1>1, <1>4, <2>2
<1>8. x[p + 1] = y[p + 1]
  BY <1>7 DEF Agree, lx, ly
<1>9. x[p + 1] = [token |-> close]
  BY <1>2 DEF n
<1>10. CASE k # 1
  <2>1. y[p + 1] = [token |-> ","]
    BY <1>3, <1>5, <1>10
  <2>2. [token |-> close].token = close /\ [token |-> ","].token = ","
    OBVIOUS
  <2>3. [token |-> close] = [token |-> ","]
    BY <1>8, <1>9, <2>1
  <2>4. close = ","
    BY <2>2, <2>3
  <2> QED
    BY <2>4 DEF Closes
<1>11. CASE k = 1
  <2>1. Before(k) = 0
    BY <1>11 DEF Before
  <2>2. 1 \in 1..Len(first) /\ first[1] # [token |-> close]
    <3> DEFINE l == Len(first)
    <3>1. l \in Nat /\ l >= 1 /\ first[1] # [token |-> close]
      BY <1>6 DEF IsBytes, Closes
    <3> HIDE DEF l
    <3>2. 1 \in 1..l
      BY <3>1
    <3> QED
      BY <3>1, <3>2 DEF l
  <2>3. y[p + 0 + 1] = first[1]
    BY <1>3, <1>5, <2>1, <2>2
  <2>4. p + 0 + 1 = p + 1
    BY <1>4
  <2> QED
    BY <1>8, <1>9, <2>2, <2>3, <2>4
<1> QED
  BY <1>10, <1>11

LEMMA BracketedOnce ==
  ASSUME NEW open, NEW close, Closes(close), NEW X, NEW Y, IsSeq(X), IsSeq(Y),
         \A i \in 1..Len(X) : IsBytes(X[i]), \A i \in 1..Len(Y) : IsBytes(Y[i]),
         \A i \in 1..Len(X) : i \in 1..Len(Y) => (Agree(X[i], Y[i]) => X[i] = Y[i]),
         Agree(Bracketed(open, X, close), Bracketed(open, Y, close))
  PROVE  X = Y
<1> DEFINE x == Bracketed(open, X, close)
           y == Bracketed(open, Y, close)
           n == Len(X)
           m == Len(Y)
<1>1. PICK a : IsLaid(x, open, X, close, a)
  BY BracketedIsLaid DEF IsBytes
<1>2. PICK b : IsLaid(y, open, Y, close, b)
  BY BracketedIsLaid DEF IsBytes
<1> HIDE DEF x, y
<1>3. Agree(x, y) /\ Agree(y, x)
  BY DEF x, y, Agree
<1>4. n \in Nat /\ m \in Nat /\ X = [i \in 1..n |-> X[i]] /\ Y = [i \in 1..m |-> Y[i]]
  BY IsSeqIsFunction
<1>5. \A k \in Nat : k <= n /\ k <= m => a[k] = b[k] /\ \A i \in 1..k : X[i] = Y[i]
  <2>1. SameTogether(X, Y, a, b)
    BY <1>1, <1>2, <1>3, LaidAlike
  <2> QED
    BY <2>1 DEF SameTogether, SameUpTo
<1>6. ~ (n < m)
  <2> SUFFICES ASSUME n < m
               PROVE  FALSE
    OBVIOUS
  <2>1. a[n] = b[n]
    <3> HIDE DEF n, m
    <3> QED
      BY <1>4, <1>5
  <2> QED
    BY <1>1, <1>2, <1>3, <2>1, LaidNoShorter
<1>7. ~ (m < n)
  <2> SUFFICES ASSUME m < n
               PROVE  FALSE
    OBVIOUS
  <2>1. b[m] = a[m]
    <3> HIDE DEF n, m
    <3> QED
      BY <1>4, <1>5
  <2> QED
    BY <1>1, <1>2, <1>3, <2>1, LaidNoShorter
<1> HIDE DEF n, m
<1>8. n = m /\ \A i \in 1..n : X[i] = Y[i]
  <2>1. n = m
    BY <1>4, <1>6, <1>7
  <2>2. n <= n /\ n <= m
    BY <1>4, <2>1
  <2> QED
    BY <1>4, <1>5, <2>1, <2>2
<1> QED
  BY <1>4, <1>8

-----------------------------------------------------------------------------
(* Lists and objects can be read back.                                       *)

IsParts(parts) == IsSeq(parts) /\ \A i \in 1..Len(parts) : IsBytes(parts[i])

IsFields(fields) ==
  /\ fields = [key \in DOMAIN fields |-> fields[key]]
  /\ DOMAIN fields \subseteq ToSet(Keys)
  /\ \A key \in DOMAIN fields : IsBytes(fields[key])

\* Bytes that agree are the same.
Told(x, y) == Agree(x, y) => x = y

LEMMA SortedAre ==
  ASSUME NEW keys, keys \subseteq ToSet(Keys)
  PROVE  IsSeq(Sorted(keys)) /\ ToSet(Sorted(keys)) = keys
<1> DEFINE chunks == [i \in DOMAIN Keys |-> IF Keys[i] \in keys THEN <<Keys[i]>> ELSE <<>>]
           n == Len(Keys)
           all == Sorted(keys)
<1>1. n \in Nat /\ DOMAIN Keys = 1..n /\ ToSet(Keys) = {Keys[i] : i \in 1..n}
  <2>1. Keys \in Seq(ToSet(Keys))
    BY JsonAssumption
  <2>2. n \in Nat /\ DOMAIN Keys = 1..n
    BY <2>1, LenProperties
  <2> QED
    BY <2>2 DEF ToSet
<1>2. /\ chunks = [i \in 1..n |-> chunks[i]]
      /\ \A i \in 1..n : chunks[i] = IF Keys[i] \in keys THEN <<Keys[i]>> ELSE <<>>
  BY <1>1
<1>3. all = FlattenSeq(chunks)
  BY DEF Sorted
<1> HIDE DEF chunks, all
<1>4. chunks \in Seq(Seq(keys)) /\ Len(chunks) = n
  <2>1. ASSUME NEW i \in 1..n
        PROVE  chunks[i] \in Seq(keys)
    <3>1. CASE Keys[i] \in keys
      <4>1. <<Keys[i]>> \in Seq(keys)
        BY <3>1
      <4> QED
        BY <1>2, <3>1, <4>1
    <3>2. CASE Keys[i] \notin keys
      <4>1. <<>> \in Seq(keys)
        OBVIOUS
      <4> QED
        BY <1>2, <3>2, <4>1
    <3> QED
      BY <3>1, <3>2
  <2>2. chunks \in [1..n -> Seq(keys)]
    BY <1>2, <2>1
  <2> HIDE DEF n
  <2> QED
    BY <1>1, <2>2
<1>5. PICK f : IsJoined(f, chunks, keys) /\ FlattenSeq(chunks) = f[Len(chunks)]
  BY <1>4, FlattenSteps
<1>6. all = f[n] /\ all \in Seq(keys)
  BY <1>1, <1>3, <1>4, <1>5 DEF IsJoined
<1>7. IsSeq(all) /\ Len(all) \in Nat /\ DOMAIN all = 1..Len(all)
  BY <1>6, SeqIsSeq, IsSeqIsFunction
<1>8. ToSet(all) \subseteq keys
  BY <1>6, <1>7 DEF ToSet
<1>9. ASSUME NEW key \in keys
      PROVE  key \in ToSet(all)
  <2>1. PICK i \in 1..n : Keys[i] = key
    BY <1>1
  <2>2. chunks[i] = <<key>>
    BY <1>2, <2>1
  <2> DEFINE one == chunks[i]
  <2>3. Len(one) = 1 /\ one[1] = key
    BY <2>2, OneIsSeq
  <2> DEFINE before == f[i - 1]
             here == f[i]
             u == Len(before)
             v == Len(here)
  <2>4. Follows(here, before, one)
    BY <1>4, <1>5, <2>1, JoinedPlace
  <2>5. /\ v <= Len(f[Len(chunks)])
        /\ \A j \in 1..v : f[Len(chunks)][j] = here[j]
    <3>1. i \in 0..Len(chunks)
      BY <1>1, <1>4, <2>1
    <3> QED
      BY <1>5, <3>1, JoinedExtends
  <2> HIDE DEF one, before, here
  <2>6. u \in Nat /\ v = u + 1 /\ here[u + 1] = key
    <3> DEFINE c == Len(one)
    <3>1. u \in Nat /\ v = u + c /\ \A j \in 1..c : here[u + j] = one[j]
      BY <2>4 DEF Follows
    <3>2. c = 1 /\ one[1] = key
      BY <2>3
    <3> HIDE DEF c, u, v
    <3>3. 1 \in 1..c
      BY <3>2
    <3> QED
      BY <3>1, <3>2, <3>3
  <2> DEFINE w == Len(all)
  <2>7. v <= w /\ \A j \in 1..v : all[j] = here[j]
    BY <1>4, <1>6, <2>5
  <2> HIDE DEF u, v, w
  <2>8. u + 1 \in 1..v /\ u + 1 \in 1..w
    BY <1>7, <2>6, <2>7 DEF w
  <2>9. all[u + 1] = key /\ u + 1 \in DOMAIN all
    BY <1>7, <2>6, <2>7, <2>8 DEF w
  <2> QED
    BY <2>9 DEF ToSet
<1> QED
  BY <1>7, <1>8, <1>9 DEF all

Opens(open) == open \in {"[", "{"}

LEMMA BracketedIsBytes ==
  ASSUME NEW open, NEW close, NEW parts, Opens(open), IsParts(parts)
  PROVE  LET x == Bracketed(open, parts, close) IN IsBytes(x) /\ x[1] = [token |-> open]
<1> DEFINE x == Bracketed(open, parts, close)
           n == Len(x)
<1>1. PICK at : IsLaid(x, open, parts, close, at)
  BY BracketedIsLaid DEF IsParts, IsBytes
<1> HIDE DEF x
<1>2. IsSeq(x) /\ n \in Nat /\ x[1] = [token |-> open]
  BY <1>1 DEF IsLaid
<1>3. n >= 1
  <2>1. 0 \in 0..Len(parts) /\ at[0] = 1
    <3>1. Len(parts) \in Nat /\ at[0] = 1
      BY <1>1 DEF IsLaid
    <3> QED
      BY <3>1
  <2>2. at[0] < n
    BY <1>1, <2>1 DEF IsLaid
  <2> HIDE DEF n
  <2> QED
    BY <1>2, <2>1, <2>2
<1>4. \A mark \in {",", "]", "}"} : [token |-> open] # [token |-> mark]
  <2> SUFFICES ASSUME NEW mark \in {",", "]", "}"}
               PROVE  [token |-> open] # [token |-> mark]
    OBVIOUS
  <2>1. [token |-> open].token = open /\ [token |-> mark].token = mark /\ open # mark
    BY DEF Opens
  <2> QED
    BY <2>1
<1>5. IsBytes(x)
  BY <1>2, <1>3, <1>4 DEF IsBytes
<1> QED
  BY <1>2, <1>5 DEF x

LEMMA ScalarIsBytes ==
  ASSUME NEW value
  PROVE  LET x == ScalarBytes(value) IN
         IsBytes(x) /\ Len(x) = 1 /\ x[1] = [token |-> "scalar", value |-> value]
<1> DEFINE token == [token |-> "scalar", value |-> value]
<1>1. IsSeq(<<token>>) /\ Len(<<token>>) = 1 /\ <<token>>[1] = token
  BY OneIsSeq
<1>2. \A mark \in {",", "]", "}"} : token # [token |-> mark]
  <2> SUFFICES ASSUME NEW mark \in {",", "]", "}"}
               PROVE  token # [token |-> mark]
    OBVIOUS
  <2>1. token.token = "scalar" /\ [token |-> mark].token = mark
    OBVIOUS
  <2> QED
    BY <2>1
<1> HIDE DEF token
<1> DEFINE x == <<token>>
           n == Len(x)
<1>3. n \in Nat /\ n >= 1
  BY <1>1
<1> QED
  BY <1>1, <1>2, <1>3 DEF ScalarBytes, IsBytes, token

\* Scalars that agree are the same.
LEMMA ScalarIsTold ==
  ASSUME NEW value, NEW y
  PROVE  Told(ScalarBytes(value), ScalarBytes(y))
<1> DEFINE u == ScalarBytes(value)
           v == ScalarBytes(y)
<1>1. /\ Len(u) = 1 /\ u[1] = [token |-> "scalar", value |-> value]
      /\ Len(v) = 1 /\ v[1] = [token |-> "scalar", value |-> y]
  BY ScalarIsBytes
<1>2. ASSUME Agree(u, v)
      PROVE  value = y
  <2>1. 1 \in 1..1
    OBVIOUS
  <2>2. u[1] = v[1]
    <3> HIDE DEF u, v
    <3> QED
      BY <1>1, <1>2, <2>1 DEF Agree
  <2>3. [token |-> "scalar", value |-> value].value = [token |-> "scalar", value |-> y].value
    BY <1>1, <2>2
  <2> QED
    BY <2>3
<1> QED
  BY <1>2 DEF Told

LEMMA ListIsTold ==
  ASSUME NEW X, NEW Y, IsParts(X), IsParts(Y),
         \A i \in 1..Len(X) : i \in 1..Len(Y) => Told(X[i], Y[i]),
         Agree(ListBytes(X), ListBytes(Y))
  PROVE  X = Y
<1>1. Closes("]")
  BY DEF Closes
<1> QED
  BY <1>1, BracketedOnce DEF ListBytes, Told, IsParts

\* A key and what its value is written as.
Member(key, value) == KeyBytes(key) \o Mark(":") \o value

IsMember(x, key, value) ==
  /\ IsBytes(x) /\ Len(value) \in Nat /\ Len(x) = 2 + Len(value)
  /\ x[1] = [token |-> "key", key |-> key]
  /\ \A j \in 1..Len(value) : x[2 + j] = value[j]

LEMMA MemberIs ==
  ASSUME NEW key, NEW value, IsBytes(value)
  PROVE  IsMember(Member(key, value), key, value)
<1> DEFINE token == [token |-> "key", key |-> key]
           a == KeyBytes(key)
           b == Mark(":")
           c == a \o b
           x == c \o value
           n == Len(value)
<1>1. IsSeq(a) /\ Len(a) = 1 /\ a[1] = token
  BY OneIsSeq DEF KeyBytes
<1>2. IsSeq(b) /\ Len(b) = 1
  BY MarkIs
<1> HIDE DEF a, b, token
<1>3. IsSeq(c) /\ Follows(c, a, b)
  BY <1>1, <1>2, ConcatFollows
<1> HIDE DEF c
<1>4. IsSeq(value) /\ n \in Nat /\ n >= 1
  BY DEF IsBytes
<1>5. IsSeq(x) /\ Follows(x, c, value)
  BY <1>3, <1>4, ConcatFollows
<1>6. Len(c) = 2 /\ c[1] = token
  <2> DEFINE k == Len(a)
             l == Len(b)
  <2>1. k = 1 /\ l = 1 /\ Len(c) = k + l /\ \A j \in 1..k : c[j] = a[j]
    BY <1>1, <1>2, <1>3 DEF Follows
  <2> HIDE DEF k, l
  <2>2. 1 \in 1..k /\ k + l = 2
    BY <2>1
  <2> QED
    BY <1>1, <2>1, <2>2
<1> HIDE DEF x
<1>7. /\ Len(x) = 2 + n /\ x[1] = token
      /\ \A j \in 1..n : x[2 + j] = value[j]
  <2> DEFINE k == Len(c)
  <2>1. /\ k = 2 /\ Len(x) = k + n
        /\ \A j \in 1..k : x[j] = c[j]
        /\ \A j \in 1..n : x[k + j] = value[j]
    BY <1>5, <1>6 DEF Follows
  <2> HIDE DEF k, n
  <2>2. 1 \in 1..k
    BY <2>1
  <2> QED
    BY <1>6, <2>1, <2>2
<1>8. \A mark \in {",", "]", "}"} : token # [token |-> mark]
  <2> SUFFICES ASSUME NEW mark \in {",", "]", "}"}
               PROVE  token # [token |-> mark]
    OBVIOUS
  <2>1. token.token = "key" /\ [token |-> mark].token = mark
    BY DEF token
  <2> QED
    BY <2>1
<1>9. IsBytes(x)
  <2> DEFINE k == Len(x)
  <2>1. k = 2 + n
    BY <1>7
  <2> HIDE DEF k, n
  <2>2. k \in Nat /\ k >= 1
    BY <1>4, <2>1
  <2> QED
    BY <1>5, <1>7, <1>8, <2>2 DEF IsBytes, k
<1>10. IsMember(x, key, value)
  BY <1>4, <1>7, <1>9 DEF IsMember, token
<1> QED
  BY <1>10 DEF Member, x, c, a, b

\* Members that agree have the same key, and values that agree.
LEMMA MemberIsTold ==
  ASSUME NEW k, NEW l, NEW u, NEW v, IsBytes(u), IsBytes(v), Agree(Member(k, u), Member(l, v))
  PROVE  k = l /\ Agree(u, v)
<1> DEFINE x == Member(k, u)
           y == Member(l, v)
           n == Len(u)
           m == Len(v)
           p == Len(x)
           q == Len(y)
<1>1. /\ p = 2 + n /\ q = 2 + m /\ n \in Nat /\ m \in Nat
      /\ x[1] = [token |-> "key", key |-> k] /\ y[1] = [token |-> "key", key |-> l]
      /\ \A j \in 1..n : x[2 + j] = u[j]
      /\ \A j \in 1..m : y[2 + j] = v[j]
  <2>1. IsMember(x, k, u) /\ IsMember(y, l, v)
    BY MemberIs
  <2> QED
    BY <2>1 DEF IsMember
<1>2. \A j \in 1..p : j \in 1..q => x[j] = y[j]
  BY DEF Agree
<1> HIDE DEF x, y, n, m, p, q
<1>3. k = l
  <2>1. 1 \in 1..p /\ 1 \in 1..q
    BY <1>1
  <2>2. [token |-> "key", key |-> k] = [token |-> "key", key |-> l]
    BY <1>1, <1>2, <2>1
  <2>3. [token |-> "key", key |-> k].key = [token |-> "key", key |-> l].key
    BY <2>2
  <2> QED
    BY <2>3
<1>4. ASSUME NEW j \in 1..n, j \in 1..m
      PROVE  u[j] = v[j]
  <2>1. 2 + j \in 1..p /\ 2 + j \in 1..q
    BY <1>1, <1>4
  <2> QED
    BY <1>1, <1>2, <1>4, <2>1
<1> QED
  BY <1>3, <1>4 DEF Agree, n, m

Members(fields) ==
  LET keys == Sorted(DOMAIN fields)
  IN  [i \in DOMAIN keys |-> KeyBytes(keys[i]) \o Mark(":") \o fields[keys[i]]]

LEMMA MembersAre ==
  ASSUME NEW fields, IsFields(fields)
  PROVE  LET keys == Sorted(DOMAIN fields) IN
         /\ IsParts(Members(fields)) /\ Len(Members(fields)) = Len(keys)
         /\ Len(keys) \in Nat /\ DOMAIN fields = {keys[i] : i \in 1..Len(keys)}
         /\ \A i \in 1..Len(keys) : Members(fields)[i] = Member(keys[i], fields[keys[i]])
<1> DEFINE keys == Sorted(DOMAIN fields)
           n == Len(keys)
           parts == Members(fields)
<1>1. IsSeq(keys) /\ ToSet(keys) = DOMAIN fields
  BY SortedAre DEF IsFields
<1> HIDE DEF keys
<1>2. n \in Nat /\ DOMAIN keys = 1..n
  BY <1>1, IsSeqIsFunction
<1>3. DOMAIN fields = {keys[i] : i \in 1..n}
  BY <1>1, <1>2 DEF ToSet
<1>4. parts = [i \in 1..n |-> Member(keys[i], fields[keys[i]])]
  BY <1>2 DEF Members, Member, keys
<1> HIDE DEF n, parts
<1>5. parts = [i \in 1..n |-> parts[i]] /\ \A i \in 1..n : parts[i] = Member(keys[i], fields[keys[i]])
  BY <1>4
<1>6. IsSeq(parts) /\ Len(parts) = n
  BY <1>2, <1>5, FunctionIsSeq
<1>7. ASSUME NEW i \in 1..n
      PROVE  IsBytes(parts[i])
  <2>1. keys[i] \in DOMAIN fields
    BY <1>3
  <2>2. IsBytes(fields[keys[i]])
    BY <2>1 DEF IsFields
  <2>3. IsMember(Member(keys[i], fields[keys[i]]), keys[i], fields[keys[i]])
    BY <2>2, MemberIs
  <2> QED
    BY <1>5, <2>3 DEF IsMember
<1>8. IsParts(parts)
  BY <1>6, <1>7 DEF IsParts
<1> QED
  BY <1>2, <1>3, <1>5, <1>6, <1>8 DEF keys, n, parts

LEMMA ObjectIsTold ==
  ASSUME NEW F, NEW G, IsFields(F), IsFields(G),
         \A key \in DOMAIN F : key \in DOMAIN G => Told(F[key], G[key]),
         Agree(ObjectBytes(F), ObjectBytes(G))
  PROVE  F = G
<1> DEFINE X == Members(F)
           Y == Members(G)
           k == Sorted(DOMAIN F)
           l == Sorted(DOMAIN G)
           n == Len(k)
           m == Len(l)
<1>1. /\ IsParts(X) /\ Len(X) = n /\ n \in Nat /\ DOMAIN F = {k[i] : i \in 1..n}
      /\ \A i \in 1..n : X[i] = Member(k[i], F[k[i]])
  BY MembersAre
<1>2. /\ IsParts(Y) /\ Len(Y) = m /\ m \in Nat /\ DOMAIN G = {l[i] : i \in 1..m}
      /\ \A i \in 1..m : Y[i] = Member(l[i], G[l[i]])
  BY MembersAre
<1>3. Agree(Bracketed("{", X, "}"), Bracketed("{", Y, "}"))
  BY DEF ObjectBytes, Members
<1> HIDE DEF X, Y, k, l, n, m
<1>4. ASSUME NEW i \in 1..n, i \in 1..m, Agree(X[i], Y[i])
      PROVE  k[i] = l[i] /\ F[k[i]] = G[l[i]]
  <2>1. k[i] \in DOMAIN F /\ l[i] \in DOMAIN G
    BY <1>1, <1>2, <1>4
  <2>2. IsBytes(F[k[i]]) /\ IsBytes(G[l[i]])
    BY <2>1 DEF IsFields
  <2>3. Agree(Member(k[i], F[k[i]]), Member(l[i], G[l[i]]))
    BY <1>1, <1>2, <1>4
  <2>4. k[i] = l[i] /\ Agree(F[k[i]], G[l[i]])
    BY <2>2, <2>3, MemberIsTold
  <2> QED
    BY <2>1, <2>4 DEF Told
<1>5. X = Y
  <2>1. Closes("}")
    BY DEF Closes
  <2>2. \A i \in 1..Len(X) : i \in 1..Len(Y) => (Agree(X[i], Y[i]) => X[i] = Y[i])
    BY <1>1, <1>2, <1>4
  <2> QED
    BY <1>1, <1>2, <1>3, <2>1, <2>2, BracketedOnce DEF IsParts
<1>6. n = m
  BY <1>1, <1>2, <1>5
<1>7. \A i \in 1..n : k[i] = l[i] /\ F[k[i]] = G[l[i]]
  BY <1>4, <1>5, <1>6 DEF Agree
<1>8. DOMAIN F = DOMAIN G
  BY <1>1, <1>2, <1>6, <1>7
<1>9. ASSUME NEW key \in DOMAIN F
      PROVE  F[key] = G[key]
  <2>1. PICK i \in 1..n : key = k[i]
    BY <1>1
  <2> QED
    BY <1>7, <2>1
<1> QED
  BY <1>8, <1>9 DEF IsFields

\* A list and an object are written as bytes, each with a token of its own.
LEMMA ListIsBytes ==
  ASSUME NEW parts, IsParts(parts)
  PROVE  LET x == ListBytes(parts) IN IsBytes(x) /\ x[1] = [token |-> "["]
<1>1. Opens("[")
  BY DEF Opens
<1> QED
  BY <1>1, BracketedIsBytes DEF ListBytes

LEMMA ObjectIsBytes ==
  ASSUME NEW fields, IsFields(fields)
  PROVE  LET x == ObjectBytes(fields) IN IsBytes(x) /\ x[1] = [token |-> "{"]
<1>1. Opens("{")
  BY DEF Opens
<1>2. ObjectBytes(fields) = Bracketed("{", Members(fields), "}")
  BY DEF ObjectBytes, Members
<1>3. IsParts(Members(fields))
  BY MembersAre
<1>4. /\ IsBytes(Bracketed("{", Members(fields), "}"))
      /\ Bracketed("{", Members(fields), "}")[1] = [token |-> "{"]
  BY <1>1, <1>3, BracketedIsBytes
<1> QED
  BY <1>2, <1>4

-----------------------------------------------------------------------------
(* What is written of a value tells what the value says.                     *)

LEMMA MarkTells ==
  ASSUME NEW mark
  PROVE  [token |-> mark].token = mark
OBVIOUS

LEMMA ScalarTellsItself ==
  ASSUME NEW v, NEW w, Agree(ScalarBytes(v), ScalarBytes(w))
  PROVE  v = w
<1>1. ScalarBytes(v) = ScalarBytes(w)
  BY ScalarIsTold DEF Told
<1>2. /\ ScalarBytes(v)[1] = [token |-> "scalar", value |-> v]
      /\ ScalarBytes(w)[1] = [token |-> "scalar", value |-> w]
  BY ScalarIsBytes
<1>3. [token |-> "scalar", value |-> v].value = [token |-> "scalar", value |-> w].value
  BY <1>1, <1>2
<1> QED
  BY <1>3

\* Of these values W tells what M makes of them: what is written of one goes
\* on as long as what is written of another only if they say the same, and
\* those that say the same are written alike.
IsCode(J, W, M) ==
  /\ \A v \in J : IsBytes(W[v])
  /\ \A v, w \in J : Agree(W[v], W[w]) => M[v] = M[w]
  /\ \A v, w \in J : M[v] = M[w] => W[v] = W[w]

Each(items, f) == [i \in DOMAIN items |-> f[items[i]]]
EachField(value, f) == [key \in KeysOf(value) |-> f[Get(value, key)]]

LEMMA EachIs ==
  ASSUME NEW J, NEW f, NEW items \in Seq(J)
  PROVE  /\ Len(items) \in Nat /\ IsSeq(Each(items, f)) /\ Len(Each(items, f)) = Len(items)
         /\ DOMAIN Each(items, f) = 1..Len(items)
         /\ \A i \in 1..Len(items) : items[i] \in J /\ Each(items, f)[i] = f[items[i]]
<1>1. Len(items) \in Nat /\ DOMAIN items = 1..Len(items) /\ \A i \in 1..Len(items) : items[i] \in J
  BY LenProperties
<1> DEFINE n == Len(items)
           x == Each(items, f)
<1>2. x = [i \in 1..n |-> f[items[i]]]
  BY <1>1 DEF Each
<1> HIDE DEF n, x
<1>3. x = [i \in 1..n |-> x[i]] /\ DOMAIN x = 1..n /\ \A i \in 1..n : x[i] = f[items[i]]
  BY <1>2
<1>4. IsSeq(x) /\ Len(x) = n
  BY <1>1, <1>3, FunctionIsSeq DEF n
<1> QED
  BY <1>1, <1>3, <1>4 DEF n, x

ObjectsOf(J) == [json : {"object"}, entries : Seq([key : ToSet(Keys), value : J])]

\* The values that an object has are among the parts that it is made of.
LEMMA FieldIs ==
  ASSUME NEW J, NEW value \in ObjectsOf(J)
  PROVE  /\ KeysOf(value) \subseteq ToSet(Keys)
         /\ \A key \in KeysOf(value) : Get(value, key) \in J
<1> DEFINE E == [key : ToSet(Keys), value : J]
           entries == ToSet(value.entries)
<1>1. value.json = "object" /\ value.entries \in Seq(E)
  BY DEF ObjectsOf
<1>2. \A entry \in entries : entry.key \in ToSet(Keys) /\ entry.value \in J
  <2>1. \A entry \in entries : entry \in E
    <3> DEFINE l == value.entries
               n == Len(l)
    <3>1. DOMAIN l = 1..n /\ \A i \in 1..n : l[i] \in E
      BY <1>1, LenProperties
    <3> QED
      BY <3>1 DEF ToSet
  <2> QED
    BY <2>1
<1> HIDE DEF entries
<1>3. ASSUME NEW key \in KeysOf(value)
      PROVE  key \in ToSet(Keys) /\ Get(value, key) \in J
  <2>1. \E entry \in entries : entry.key = key
    BY DEF KeysOf, entries
  <2> DEFINE entry == CHOOSE e \in entries : e.key = key
  <2>2. entry \in entries /\ entry.key = key
    BY <2>1
  <2>3. Get(value, key) = entry.value
    BY <1>1 DEF Get, entries
  <2> HIDE DEF entry
  <2> QED
    BY <1>2, <2>2, <2>3
<1> QED
  BY <1>3

LEMMA EachFieldIs ==
  ASSUME NEW J, NEW W, NEW value \in ObjectsOf(J),
         \A v \in J : IsBytes(W[v])
  PROVE  IsFields(EachField(value, W))
<1> DEFINE F == EachField(value, W)
           K == KeysOf(value)
<1>1. K \subseteq ToSet(Keys) /\ \A key \in K : Get(value, key) \in J
  BY FieldIs
<1>2. F = [key \in K |-> F[key]] /\ DOMAIN F = K /\ \A key \in K : F[key] = W[Get(value, key)]
  BY DEF EachField
<1> HIDE DEF F, K
<1>3. \A key \in K : IsBytes(F[key])
  BY <1>1, <1>2
<1> QED
  BY <1>1, <1>2, <1>3 DEF IsFields, F

\* How a value is written, and what it says, by its kind.
OfKind(value, W, M, x, m) ==
  CASE value.json = "array" ->
         /\ x = ListBytes(Each(value.items, W))
         /\ m = [json |-> "array", items |-> Each(value.items, M)]
    [] value.json = "object" ->
         /\ x = ObjectBytes(EachField(value, W))
         /\ m = [json |-> "object", fields |-> EachField(value, M)]
    [] OTHER -> x = ScalarBytes(value) /\ m = value

\* The mark that a kind of values begins with.
MarkOf(value) ==
  CASE value.json = "array" -> "[" [] value.json = "object" -> "{" [] OTHER -> "scalar"

LEMMA ValueIsOfKind ==
  ASSUME NEW J, NEW W, NEW M, IsCode(J, W, M), NEW value \in Scalars \cup MadeOf(J)
  PROVE  LET x == WrittenOf(value, W)
             m == MeaningOf(value, M)
         IN  /\ OfKind(value, W, M, x, m)
             /\ IsBytes(x) /\ x[1].token = MarkOf(value)
             /\ m.json = value.json
<1> DEFINE x == WrittenOf(value, W)
           m == MeaningOf(value, M)
<1>1. CASE value.json = "array"
  <2>1. value.items \in Seq(J)
    BY <1>1, JsonAssumption DEF MadeOf
  <2> DEFINE X == Each(value.items, W)
  <2>2. IsParts(X)
    <3>1. /\ IsSeq(X) /\ Len(X) = Len(value.items)
          /\ \A i \in 1..Len(value.items) : value.items[i] \in J /\ X[i] = W[value.items[i]]
      BY <2>1, EachIs
    <3> HIDE DEF X
    <3> QED
      BY <3>1 DEF IsParts, IsCode
  <2>3. x = ListBytes(X) /\ m = [json |-> "array", items |-> Each(value.items, M)]
    BY <1>1 DEF WrittenOf, MeaningOf, Each
  <2> HIDE DEF X, x, m
  <2>4. IsBytes(x) /\ x[1] = [token |-> "["]
    BY <2>2, <2>3, ListIsBytes
  <2>5. x[1].token = "[" /\ MarkOf(value) = "["
    BY <1>1, <2>4 DEF MarkOf
  <2>6. OfKind(value, W, M, x, m)
    BY <1>1, <2>3 DEF OfKind, X
  <2>7. m.json = value.json
    BY <1>1, <2>3
  <2> QED
    BY <2>4, <2>5, <2>6, <2>7 DEF x, m
<1>2. CASE value.json = "object"
  <2>1. value \in ObjectsOf(J)
    BY <1>2, JsonAssumption DEF MadeOf, ObjectsOf
  <2> DEFINE F == EachField(value, W)
  <2>2. IsFields(F)
    BY <2>1, EachFieldIs DEF IsCode
  <2>3. x = ObjectBytes(F) /\ m = [json |-> "object", fields |-> EachField(value, M)]
    BY <1>2 DEF WrittenOf, MeaningOf, EachField
  <2> HIDE DEF F, x, m
  <2>4. IsBytes(x) /\ x[1] = [token |-> "{"]
    BY <2>2, <2>3, ObjectIsBytes
  <2>5. x[1].token = "{" /\ MarkOf(value) = "{"
    <3>1. MarkOf(value) = "{"
      BY <1>2 DEF MarkOf
    <3>2. x[1].token = "{"
      BY <2>4, MarkTells
    <3> QED
      BY <3>1, <3>2
  <2>6. OfKind(value, W, M, x, m)
    BY <1>2, <2>3 DEF OfKind, F
  <2>7. m.json = value.json
    BY <1>2, <2>3
  <2> QED
    BY <2>4, <2>5, <2>6, <2>7 DEF x, m
<1>3. CASE value.json \notin {"array", "object"}
  <2>1. x = ScalarBytes(value) /\ m = value
    BY <1>3 DEF WrittenOf, MeaningOf
  <2> HIDE DEF x, m
  <2>2. IsBytes(x) /\ x[1] = [token |-> "scalar", value |-> value]
    BY <2>1, ScalarIsBytes
  <2>3. x[1].token = "scalar" /\ MarkOf(value) = "scalar"
    BY <1>3, <2>2 DEF MarkOf
  <2>4. OfKind(value, W, M, x, m)
    BY <1>3, <2>1 DEF OfKind
  <2> QED
    BY <2>1, <2>2, <2>3, <2>4 DEF x, m
<1> QED
  BY <1>1, <1>2, <1>3

LEMMA ArraysAreCode ==
  ASSUME NEW J, NEW W, NEW M, IsCode(J, W, M), NEW s \in Seq(J), NEW t \in Seq(J)
  PROVE  /\ Agree(ListBytes(Each(s, W)), ListBytes(Each(t, W))) => Each(s, M) = Each(t, M)
         /\ Each(s, M) = Each(t, M) => Each(s, W) = Each(t, W)
<1> DEFINE n == Len(s)
           k == Len(t)
           X == Each(s, W)
           Y == Each(t, W)
           A == Each(s, M)
           B == Each(t, M)
<1>1. /\ n \in Nat /\ IsSeq(X) /\ Len(X) = n /\ IsSeq(A) /\ Len(A) = n
      /\ DOMAIN X = 1..n /\ DOMAIN A = 1..n
      /\ \A i \in 1..n : s[i] \in J /\ X[i] = W[s[i]] /\ A[i] = M[s[i]]
  BY EachIs
<1>2. /\ k \in Nat /\ IsSeq(Y) /\ Len(Y) = k /\ IsSeq(B) /\ Len(B) = k
      /\ DOMAIN Y = 1..k /\ DOMAIN B = 1..k
      /\ \A i \in 1..k : t[i] \in J /\ Y[i] = W[t[i]] /\ B[i] = M[t[i]]
  BY EachIs
<1>3. /\ X = [i \in 1..n |-> X[i]] /\ A = [i \in 1..n |-> A[i]]
      /\ Y = [i \in 1..k |-> Y[i]] /\ B = [i \in 1..k |-> B[i]]
  BY <1>1, <1>2, IsSeqIsFunction
<1> HIDE DEF n, k, X, Y, A, B
<1>4. ASSUME Agree(ListBytes(X), ListBytes(Y))
      PROVE  A = B
  <2>1. IsParts(X) /\ IsParts(Y)
    BY <1>1, <1>2 DEF IsParts, IsCode
  <2>2. \A i \in 1..Len(X) : i \in 1..Len(Y) => Told(X[i], Y[i])
    BY <1>1, <1>2 DEF Told, IsCode
  <2>3. X = Y
    BY <1>4, <2>1, <2>2, ListIsTold
  <2>4. n = k
    BY <1>1, <1>2, <2>3
  <2>5. ASSUME NEW i \in 1..n
        PROVE  A[i] = B[i]
    <3>1. W[s[i]] = W[t[i]] /\ s[i] \in J /\ t[i] \in J
      BY <1>1, <1>2, <2>3, <2>4
    <3>2. Agree(W[s[i]], W[t[i]])
      BY <3>1 DEF Agree
    <3>3. M[s[i]] = M[t[i]]
      BY <3>1, <3>2 DEF IsCode
    <3> QED
      BY <1>1, <1>2, <2>4, <3>3
  <2> QED
    BY <1>3, <2>4, <2>5
<1>5. ASSUME A = B
      PROVE  X = Y
  <2>1. n = k
    BY <1>1, <1>2, <1>5
  <2>2. ASSUME NEW i \in 1..n
        PROVE  X[i] = Y[i]
    <3>1. M[s[i]] = M[t[i]] /\ s[i] \in J /\ t[i] \in J
      BY <1>1, <1>2, <1>5, <2>1
    <3>2. W[s[i]] = W[t[i]]
      BY <3>1 DEF IsCode
    <3> QED
      BY <1>1, <1>2, <2>1, <3>2
  <2> QED
    BY <1>3, <2>1, <2>2
<1> QED
  BY <1>4, <1>5 DEF X, Y, A, B

LEMMA ObjectsAreCode ==
  ASSUME NEW J, NEW W, NEW M, IsCode(J, W, M),
         NEW s \in ObjectsOf(J),
         NEW t \in ObjectsOf(J)
  PROVE  /\ Agree(ObjectBytes(EachField(s, W)), ObjectBytes(EachField(t, W)))
              => EachField(s, M) = EachField(t, M)
         /\ EachField(s, M) = EachField(t, M) => EachField(s, W) = EachField(t, W)
<1> DEFINE K == KeysOf(s)
           L == KeysOf(t)
           X == EachField(s, W)
           Y == EachField(t, W)
           A == EachField(s, M)
           B == EachField(t, M)
<1>1. \A key \in K : Get(s, key) \in J
  BY FieldIs
<1>2. \A key \in L : Get(t, key) \in J
  BY FieldIs
<1>3. IsFields(X) /\ IsFields(Y)
  BY EachFieldIs DEF IsCode
<1>4. /\ X = [key \in K |-> X[key]] /\ \A key \in K : X[key] = W[Get(s, key)]
      /\ A = [key \in K |-> A[key]] /\ \A key \in K : A[key] = M[Get(s, key)]
      /\ DOMAIN X = K /\ DOMAIN A = K
  BY DEF EachField
<1>5. /\ Y = [key \in L |-> Y[key]] /\ \A key \in L : Y[key] = W[Get(t, key)]
      /\ B = [key \in L |-> B[key]] /\ \A key \in L : B[key] = M[Get(t, key)]
      /\ DOMAIN Y = L /\ DOMAIN B = L
  BY DEF EachField
<1> HIDE DEF K, L, X, Y, A, B
<1>6. ASSUME Agree(ObjectBytes(X), ObjectBytes(Y))
      PROVE  A = B
  <2>1. \A key \in DOMAIN X : key \in DOMAIN Y => Told(X[key], Y[key])
    BY <1>1, <1>2, <1>4, <1>5 DEF Told, IsCode
  <2>2. X = Y
    BY <1>3, <1>6, <2>1, ObjectIsTold
  <2>3. K = L
    BY <1>4, <1>5, <2>2
  <2>4. ASSUME NEW key \in K
        PROVE  A[key] = B[key]
    <3>1. W[Get(s, key)] = W[Get(t, key)] /\ Get(s, key) \in J /\ Get(t, key) \in J
      BY <1>1, <1>2, <1>4, <1>5, <2>2, <2>3
    <3>2. Agree(W[Get(s, key)], W[Get(t, key)])
      BY <3>1 DEF Agree
    <3>3. M[Get(s, key)] = M[Get(t, key)]
      BY <3>1, <3>2 DEF IsCode
    <3> QED
      BY <1>4, <1>5, <2>3, <3>3
  <2> QED
    BY <1>4, <1>5, <2>3, <2>4
<1>7. ASSUME A = B
      PROVE  X = Y
  <2>1. K = L
    BY <1>4, <1>5, <1>7
  <2>2. ASSUME NEW key \in K
        PROVE  X[key] = Y[key]
    <3>1. M[Get(s, key)] = M[Get(t, key)] /\ Get(s, key) \in J /\ Get(t, key) \in J
      BY <1>1, <1>2, <1>4, <1>5, <1>7, <2>1
    <3>2. W[Get(s, key)] = W[Get(t, key)]
      BY <3>1 DEF IsCode
    <3> QED
      BY <1>4, <1>5, <2>1, <3>2
  <2> QED
    BY <1>4, <1>5, <2>1, <2>2
<1> QED
  BY <1>6, <1>7 DEF X, Y, A, B

LEMMA ValuesAreCode ==
  ASSUME NEW J, NEW W, NEW M, IsCode(J, W, M),
         NEW v \in Scalars \cup MadeOf(J), NEW w \in Scalars \cup MadeOf(J)
  PROVE  /\ Agree(WrittenOf(v, W), WrittenOf(w, W)) => MeaningOf(v, M) = MeaningOf(w, M)
         /\ MeaningOf(v, M) = MeaningOf(w, M) => WrittenOf(v, W) = WrittenOf(w, W)
<1> DEFINE x == WrittenOf(v, W)
           y == WrittenOf(w, W)
           m == MeaningOf(v, M)
           k == MeaningOf(w, M)
<1>1. OfKind(v, W, M, x, m) /\ IsBytes(x) /\ x[1].token = MarkOf(v) /\ m.json = v.json
  BY ValueIsOfKind
<1>2. OfKind(w, W, M, y, k) /\ IsBytes(y) /\ y[1].token = MarkOf(w) /\ k.json = w.json
  BY ValueIsOfKind
<1> HIDE DEF x, y, m, k
<1>3. ASSUME Agree(x, y)
      PROVE  MarkOf(v) = MarkOf(w)
  <2> DEFINE p == Len(x)
             q == Len(y)
  <2>1. p \in Nat /\ p >= 1 /\ q \in Nat /\ q >= 1
    BY <1>1, <1>2 DEF IsBytes
  <2>2. \A j \in 1..p : j \in 1..q => x[j] = y[j]
    BY <1>3 DEF Agree
  <2> HIDE DEF p, q
  <2>3. 1 \in 1..p /\ 1 \in 1..q
    BY <2>1
  <2>4. x[1] = y[1]
    BY <2>2, <2>3
  <2> QED
    BY <1>1, <1>2, <2>4
<1>4. m = k => MarkOf(v) = MarkOf(w)
  BY <1>1, <1>2 DEF MarkOf
<1>5. SUFFICES ASSUME MarkOf(v) = MarkOf(w)
               PROVE  (Agree(x, y) => m = k) /\ (m = k => x = y)
  BY <1>3, <1>4 DEF x, y, m, k
<1>6. CASE v.json = "array"
  <2>1. w.json = "array"
    BY <1>5, <1>6 DEF MarkOf
  <2>2. v.items \in Seq(J) /\ w.items \in Seq(J)
    BY <1>6, <2>1, JsonAssumption DEF MadeOf
  <2>3. /\ x = ListBytes(Each(v.items, W)) /\ y = ListBytes(Each(w.items, W))
        /\ m = [json |-> "array", items |-> Each(v.items, M)]
        /\ k = [json |-> "array", items |-> Each(w.items, M)]
    BY <1>1, <1>2, <1>6, <2>1 DEF OfKind
  <2>4. /\ Agree(x, y) => Each(v.items, M) = Each(w.items, M)
        /\ Each(v.items, M) = Each(w.items, M) => Each(v.items, W) = Each(w.items, W)
    BY <2>2, <2>3, ArraysAreCode
  <2>5. m = k => m.items = k.items
    OBVIOUS
  <2> QED
    BY <2>3, <2>4, <2>5
<1>7. CASE v.json = "object"
  <2>1. w.json = "object"
    BY <1>5, <1>7 DEF MarkOf
  <2>2. /\ v \in ObjectsOf(J)
        /\ w \in ObjectsOf(J)
    BY <1>7, <2>1, JsonAssumption DEF MadeOf, ObjectsOf
  <2>3. /\ x = ObjectBytes(EachField(v, W)) /\ y = ObjectBytes(EachField(w, W))
        /\ m = [json |-> "object", fields |-> EachField(v, M)]
        /\ k = [json |-> "object", fields |-> EachField(w, M)]
    BY <1>1, <1>2, <1>7, <2>1 DEF OfKind
  <2>4. /\ Agree(x, y) => EachField(v, M) = EachField(w, M)
        /\ EachField(v, M) = EachField(w, M) => EachField(v, W) = EachField(w, W)
    <3>1. /\ Agree(ObjectBytes(EachField(v, W)), ObjectBytes(EachField(w, W)))
               => EachField(v, M) = EachField(w, M)
          /\ EachField(v, M) = EachField(w, M) => EachField(v, W) = EachField(w, W)
      BY <2>2, ObjectsAreCode
    <3> QED
      BY <2>3, <3>1
  <2>5. m = k => m.fields = k.fields
    OBVIOUS
  <2> QED
    BY <2>3, <2>4, <2>5
<1>8. CASE v.json \notin {"array", "object"}
  <2>1. w.json \notin {"array", "object"}
    BY <1>5, <1>8 DEF MarkOf
  <2>2. x = ScalarBytes(v) /\ m = v /\ y = ScalarBytes(w) /\ k = w
    BY <1>1, <1>2, <1>8, <2>1 DEF OfKind
  <2>3. Agree(x, y) => v = w
    BY <2>2, ScalarTellsItself
  <2> QED
    BY <2>2, <2>3
<1> QED
  BY <1>6, <1>7, <1>8

\* What is written of a value tells what it says, at every depth.
LEMMA WrittenIsCode ==
  \A n \in Nat : IsCode(JsonTo[n], WrittenTo[n], MeaningTo[n])
<1> DEFINE T == {n \in Nat : IsCode(JsonTo[n], WrittenTo[n], MeaningTo[n])}
<1>1. 0 \in T
  <2>1. /\ JsonTo[0] = Scalars
        /\ WrittenTo[0] = [value \in JsonTo[0] |-> ScalarBytes(value)]
        /\ MeaningTo[0] = [value \in JsonTo[0] |-> value]
    <3>1. JsonTo[0] = Scalars
      BY JsonUnfolds
    <3>2. WrittenTo[0] = [value \in JsonTo[0] |-> ScalarBytes(value)]
      BY WrittenUnfolds
    <3>3. MeaningTo[0] = [value \in JsonTo[0] |-> value]
      BY MeaningUnfolds
    <3> QED
      BY <3>1, <3>2, <3>3
  <2>2. \A v \in Scalars : IsBytes(ScalarBytes(v))
    BY ScalarIsBytes
  <2>3. ASSUME NEW v \in Scalars, NEW w \in Scalars, Agree(ScalarBytes(v), ScalarBytes(w))
        PROVE  v = w
    BY <2>3, ScalarTellsItself
  <2>4. IsCode(JsonTo[0], WrittenTo[0], MeaningTo[0])
    BY <2>1, <2>2, <2>3 DEF IsCode
  <2> QED
    BY <2>4
<1>2. ASSUME NEW n \in Nat, n \in T
      PROVE  n + 1 \in T
  <2> DEFINE J == JsonTo[n]
             W == WrittenTo[n]
             M == MeaningTo[n]
             I == JsonTo[n + 1]
             V == WrittenTo[n + 1]
             N == MeaningTo[n + 1]
  <2>1. n + 1 \in Nat /\ n + 1 # 0 /\ (n + 1) - 1 = n
    OBVIOUS
  <2>2. I = Scalars \cup MadeOf(J)
    BY <2>1, JsonUnfolds
  <2>3. V = [value \in I |-> WrittenOf(value, W)]
    BY <2>1, WrittenUnfolds
  <2>4. N = [value \in I |-> MeaningOf(value, M)]
    BY <2>1, MeaningUnfolds
  <2>5. IsCode(J, W, M)
    BY <1>2
  <2> HIDE DEF J, W, M, I, V, N
  <2>6. \A v \in I : V[v] = WrittenOf(v, W) /\ N[v] = MeaningOf(v, M)
    BY <2>3, <2>4
  <2>7. ASSUME NEW v \in I
        PROVE  IsBytes(V[v])
    <3>1. IsBytes(WrittenOf(v, W))
      BY <2>2, <2>5, ValueIsOfKind
    <3> QED
      BY <2>6, <3>1
  <2>8. ASSUME NEW v \in I, NEW w \in I
        PROVE  (Agree(V[v], V[w]) => N[v] = N[w]) /\ (N[v] = N[w] => V[v] = V[w])
    <3>1. /\ Agree(WrittenOf(v, W), WrittenOf(w, W)) => MeaningOf(v, M) = MeaningOf(w, M)
          /\ MeaningOf(v, M) = MeaningOf(w, M) => WrittenOf(v, W) = WrittenOf(w, W)
      BY <2>2, <2>5, ValuesAreCode
    <3> QED
      BY <2>6, <3>1
  <2>9. IsCode(I, V, N)
    BY <2>7, <2>8 DEF IsCode
  <2> QED
    BY <2>1, <2>9 DEF I, V, N
<1> HIDE DEF T
<1>3. \A n \in Nat : n \in T
  BY <1>1, <1>2, SetInduction
<1> QED
  BY <1>3 DEF T

\* The bytes of two values are the same if and only if the values say the same,
\* whichever way their keys are ordered; and of two others neither goes on
\* where the other ends (write_canonical_value, hash.rs:25-67).
THEOREM WrittenTellsTheMeaning ==
  \A v, w \in Json :
    /\ Written(v) = Written(w) <=> Meaning(v) = Meaning(w)
    /\ IsBytes(Written(v)) /\ Told(Written(v), Written(w))
<1>1. Depth \in Nat
  BY JsonAssumption
<1>2. IsCode(Json, WrittenTo[Depth], MeaningTo[Depth])
  BY <1>1, WrittenIsCode DEF Json
<1> SUFFICES ASSUME NEW v \in Json, NEW w \in Json
             PROVE  /\ Written(v) = Written(w) <=> Meaning(v) = Meaning(w)
                    /\ IsBytes(Written(v)) /\ Told(Written(v), Written(w))
  OBVIOUS
<1>3. /\ IsBytes(Written(v))
      /\ Agree(Written(v), Written(w)) => Meaning(v) = Meaning(w)
      /\ Meaning(v) = Meaning(w) => Written(v) = Written(w)
  BY <1>2 DEF IsCode, Written, Meaning
<1>4. Written(v) = Written(w) => Agree(Written(v), Written(w))
  BY DEF Agree
<1> QED
  BY <1>3, <1>4 DEF Told

-----------------------------------------------------------------------------
(* A fingerprint tells what it is taken of.                                  *)

LEMMA ListsAreTold ==
  ASSUME NEW X, NEW Y, IsParts(X), IsParts(Y),
         \A i \in 1..Len(X), j \in 1..Len(Y) : Told(X[i], Y[j])
  PROVE  Told(ListBytes(X), ListBytes(Y))
<1>1. \A i \in 1..Len(X) : i \in 1..Len(Y) => Told(X[i], Y[i])
  OBVIOUS
<1>2. Agree(ListBytes(X), ListBytes(Y)) => X = Y
  BY <1>1, ListIsTold
<1> QED
  BY <1>2 DEF Told

\* A struct whose fields are texts.
LEMMA FieldsAreBytes ==
  ASSUME NEW fields, DOMAIN fields \subseteq ToSet(Keys)
  PROVE  IsBytes(FieldsBytes(fields))
<1> DEFINE F == [field \in DOMAIN fields |-> ScalarBytes(Text(fields[field]))]
<1>1. IsFields(F)
  <2>1. F = [key \in DOMAIN F |-> F[key]] /\ DOMAIN F = DOMAIN fields
    OBVIOUS
  <2>2. \A key \in DOMAIN fields : IsBytes(F[key])
    BY ScalarIsBytes
  <2> HIDE DEF F
  <2> QED
    BY <2>1, <2>2 DEF IsFields
<1> HIDE DEF F
<1>2. IsBytes(ObjectBytes(F))
  BY <1>1, ObjectIsBytes
<1> QED
  BY <1>2 DEF FieldsBytes, F

LEMMA FieldsAreTold ==
  ASSUME NEW fields, NEW others, DOMAIN fields \subseteq ToSet(Keys), DOMAIN others \subseteq ToSet(Keys)
  PROVE  Told(FieldsBytes(fields), FieldsBytes(others))
<1> DEFINE F == [field \in DOMAIN fields |-> ScalarBytes(Text(fields[field]))]
           G == [field \in DOMAIN others |-> ScalarBytes(Text(others[field]))]
<1>1. /\ F = [key \in DOMAIN F |-> F[key]] /\ DOMAIN F = DOMAIN fields
      /\ \A key \in DOMAIN fields : F[key] = ScalarBytes(Text(fields[key]))
  OBVIOUS
<1>2. /\ G = [key \in DOMAIN G |-> G[key]] /\ DOMAIN G = DOMAIN others
      /\ \A key \in DOMAIN others : G[key] = ScalarBytes(Text(others[key]))
  OBVIOUS
<1>3. FieldsBytes(fields) = ObjectBytes(F) /\ FieldsBytes(others) = ObjectBytes(G)
  BY DEF FieldsBytes
<1> HIDE DEF F, G
<1>4. IsFields(F)
  <2>1. \A key \in DOMAIN F : IsBytes(F[key])
    <3>1. \A key \in DOMAIN F : IsBytes(ScalarBytes(Text(fields[key])))
      BY ScalarIsBytes
    <3> QED
      BY <1>1, <3>1
  <2> QED
    BY <1>1, <2>1 DEF IsFields
<1>5. IsFields(G)
  <2>1. \A key \in DOMAIN G : IsBytes(G[key])
    <3>1. \A key \in DOMAIN G : IsBytes(ScalarBytes(Text(others[key])))
      BY ScalarIsBytes
    <3> QED
      BY <1>2, <3>1
  <2> QED
    BY <1>2, <2>1 DEF IsFields
<1>6. ASSUME NEW key \in DOMAIN F, key \in DOMAIN G
      PROVE  Told(F[key], G[key])
  BY <1>1, <1>2, <1>6, ScalarIsTold
<1>7. Agree(ObjectBytes(F), ObjectBytes(G)) => F = G
  BY <1>4, <1>5, <1>6, ObjectIsTold
<1> QED
  BY <1>3, <1>7 DEF Told

\* What tools returned: either a text or parts.
IsOutputField(key, x) ==
  IF key = "items"
    THEN \E items \in Seq(OutputParts) : x = ListBytes(Each(items, [part \in OutputParts |-> FieldsBytes(part)]))
    ELSE \E value : x = ScalarBytes(value)

LEMMA OutputPartsAre ==
  ASSUME NEW items \in Seq(OutputParts)
  PROVE  LET X == Each(items, [part \in OutputParts |-> FieldsBytes(part)]) IN
         /\ IsParts(X) /\ X = [i \in DOMAIN items |-> FieldsBytes(items[i])]
         /\ \A i \in 1..Len(X) : \E part \in OutputParts : X[i] = FieldsBytes(part)
<1> DEFINE f == [part \in OutputParts |-> FieldsBytes(part)]
           X == Each(items, f)
           n == Len(items)
<1>1. /\ n \in Nat /\ IsSeq(X) /\ Len(X) = n
      /\ \A i \in 1..n : items[i] \in OutputParts /\ X[i] = f[items[i]]
  BY EachIs
<1>2. \A part \in OutputParts : f[part] = FieldsBytes(part)
  OBVIOUS
<1>3. DOMAIN items = 1..n
  BY LenProperties
<1>4. X = [i \in DOMAIN items |-> FieldsBytes(items[i])]
  <2>1. X = [i \in DOMAIN items |-> f[items[i]]]
    BY DEF Each
  <2> HIDE DEF X, f, n
  <2> QED
    BY <1>1, <1>2, <1>3, <2>1
<1> HIDE DEF X, f, n
<1>5. \A part \in OutputParts : DOMAIN part \subseteq ToSet(Keys)
  <2>1. \A part \in OutputParts :
          DOMAIN part = {"type", "text"} \/ DOMAIN part = {"type", "image_url"}
    BY DEF OutputParts
  <2> QED
    BY <2>1, KeysAssumption
<1>6. \A i \in 1..n : IsBytes(X[i]) /\ \E part \in OutputParts : X[i] = FieldsBytes(part)
  BY <1>1, <1>2, <1>5, FieldsAreBytes
<1> QED
  BY <1>1, <1>4, <1>6 DEF IsParts, X, f

LEMMA OutputFieldIsBytes ==
  ASSUME NEW key, NEW x, IsOutputField(key, x)
  PROVE  IsBytes(x)
<1>1. CASE key = "items"
  BY <1>1, OutputPartsAre, ListIsBytes DEF IsOutputField
<1>2. CASE key # "items"
  BY <1>2, ScalarIsBytes DEF IsOutputField
<1> QED
  BY <1>1, <1>2

LEMMA OutputFieldIsTold ==
  ASSUME NEW key, NEW x, NEW y, IsOutputField(key, x), IsOutputField(key, y)
  PROVE  Told(x, y)
<1>1. CASE key = "items"
  <2> DEFINE f == [part \in OutputParts |-> FieldsBytes(part)]
  <2>1. PICK s \in Seq(OutputParts) : x = ListBytes(Each(s, f))
    BY <1>1 DEF IsOutputField
  <2>2. PICK t \in Seq(OutputParts) : y = ListBytes(Each(t, f))
    BY <1>1 DEF IsOutputField
  <2> DEFINE X == Each(s, f)
             Y == Each(t, f)
  <2>3. IsParts(X) /\ \A i \in 1..Len(X) : \E part \in OutputParts : X[i] = FieldsBytes(part)
    BY OutputPartsAre
  <2>4. IsParts(Y) /\ \A i \in 1..Len(Y) : \E part \in OutputParts : Y[i] = FieldsBytes(part)
    BY OutputPartsAre
  <2> HIDE DEF X, Y, f
  <2>5. ASSUME NEW i \in 1..Len(X), NEW j \in 1..Len(Y)
        PROVE  Told(X[i], Y[j])
    <3>1. PICK a \in OutputParts : X[i] = FieldsBytes(a)
      BY <2>3
    <3>2. PICK b \in OutputParts : Y[j] = FieldsBytes(b)
      BY <2>4
    <3>3. DOMAIN a \subseteq ToSet(Keys) /\ DOMAIN b \subseteq ToSet(Keys)
      <4>1. \A part \in OutputParts :
              DOMAIN part = {"type", "text"} \/ DOMAIN part = {"type", "image_url"}
        BY DEF OutputParts
      <4> QED
        BY <4>1, KeysAssumption
    <3> QED
      BY <3>1, <3>2, <3>3, FieldsAreTold
  <2>6. Told(ListBytes(X), ListBytes(Y))
    BY <2>3, <2>4, <2>5, ListsAreTold
  <2> QED
    BY <2>1, <2>2, <2>6 DEF X, Y
<1>2. CASE key # "items"
  BY <1>2, ScalarIsTold DEF IsOutputField
<1> QED
  BY <1>1, <1>2

OutputFields(output) ==
  IF output.encoding = "text" THEN [field \in DOMAIN output |-> ScalarBytes(Text(output[field]))]
  ELSE [encoding |-> ScalarBytes(Text(output.encoding)),
        items |-> ListBytes([i \in DOMAIN output.items |-> FieldsBytes(output.items[i])])]

LEMMA OutputFieldsAre ==
  ASSUME NEW output \in Outputs
  PROVE  LET F == OutputFields(output) IN
         /\ OutputBytes(output) = ObjectBytes(F) /\ IsFields(F)
         /\ \A key \in DOMAIN F : IsOutputField(key, F[key])
<1> DEFINE F == OutputFields(output)
<1>1. OutputBytes(output) = ObjectBytes(F)
  BY DEF OutputBytes, OutputFields, FieldsBytes
<1>2. /\ F = [key \in DOMAIN F |-> F[key]] /\ DOMAIN F \subseteq ToSet(Keys)
      /\ \A key \in DOMAIN F : IsOutputField(key, F[key])
  <2>1. CASE output.encoding = "text"
    <3>1. DOMAIN output = {"encoding", "text"}
      BY <2>1 DEF Outputs
    <3>2. F = [field \in DOMAIN output |-> ScalarBytes(Text(output[field]))]
      BY <2>1 DEF OutputFields
    <3> HIDE DEF F
    <3>3. /\ F = [key \in DOMAIN F |-> F[key]] /\ DOMAIN F = {"encoding", "text"}
          /\ \A key \in DOMAIN F : F[key] = ScalarBytes(Text(output[key]))
      BY <3>1, <3>2
    <3>4. \A key \in DOMAIN F : key # "items"
      BY <3>3
    <3> QED
      BY <3>3, <3>4, KeysAssumption DEF IsOutputField
  <2>2. CASE output.encoding # "text"
    <3>1. output.items \in Seq(OutputParts)
      BY <2>2 DEF Outputs
    <3> DEFINE x == ListBytes([i \in DOMAIN output.items |-> FieldsBytes(output.items[i])])
               y == ScalarBytes(Text(output.encoding))
    <3>2. F = [encoding |-> y, items |-> x]
      BY <2>2 DEF OutputFields
    <3>3. IsOutputField("items", x)
      BY <3>1, OutputPartsAre DEF IsOutputField
    <3>4. IsOutputField("encoding", y)
      BY DEF IsOutputField
    <3> HIDE DEF F, x, y
    <3>5. /\ F = [key \in DOMAIN F |-> F[key]] /\ DOMAIN F = {"encoding", "items"}
          /\ F["encoding"] = y /\ F["items"] = x
      BY <3>2
    <3> QED
      BY <3>3, <3>4, <3>5, KeysAssumption
  <2> QED
    BY <2>1, <2>2
<1> HIDE DEF F
<1>3. IsFields(F)
  BY <1>2, OutputFieldIsBytes DEF IsFields
<1> QED
  BY <1>1, <1>2, <1>3 DEF F

LEMMA OutputIsBytes ==
  ASSUME NEW output \in Outputs
  PROVE  IsBytes(OutputBytes(output))
BY OutputFieldsAre, ObjectIsBytes

LEMMA OutputIsTold ==
  ASSUME NEW output \in Outputs, NEW other \in Outputs
  PROVE  Told(OutputBytes(output), OutputBytes(other))
<1> DEFINE F == OutputFields(output)
           G == OutputFields(other)
<1>1. /\ OutputBytes(output) = ObjectBytes(F) /\ IsFields(F)
      /\ \A key \in DOMAIN F : IsOutputField(key, F[key])
  BY OutputFieldsAre
<1>2. /\ OutputBytes(other) = ObjectBytes(G) /\ IsFields(G)
      /\ \A key \in DOMAIN G : IsOutputField(key, G[key])
  BY OutputFieldsAre
<1> HIDE DEF F, G
<1>3. \A key \in DOMAIN F : key \in DOMAIN G => Told(F[key], G[key])
  BY <1>1, <1>2, OutputFieldIsTold
<1>4. Agree(ObjectBytes(F), ObjectBytes(G)) => F = G
  BY <1>1, <1>2, <1>3, ObjectIsTold
<1> QED
  BY <1>1, <1>2, <1>4 DEF Told

LEMMA ScalarTold ==
  \A v, w : IsBytes(ScalarBytes(v)) /\ Told(ScalarBytes(v), ScalarBytes(w))
<1> SUFFICES ASSUME NEW v, NEW w
             PROVE  IsBytes(ScalarBytes(v)) /\ Told(ScalarBytes(v), ScalarBytes(w))
  OBVIOUS
<1>1. IsBytes(ScalarBytes(v))
  BY ScalarIsBytes
<1>2. Told(ScalarBytes(v), ScalarBytes(w))
  BY ScalarIsTold
<1> QED
  BY <1>1, <1>2

\* What the items of a session are.
IsStored(item) ==
  \/ \E role \in Roles, text \in Strings : item = Message(role, text)
  \/ \E call_id, name, arguments :
       None \notin {call_id, name, arguments} /\ item = FunctionCall(call_id, name, arguments)
  \/ \E call_id : \E output \in Outputs : call_id # None /\ item = FunctionCallOutput(call_id, output)
  \/ \E raw \in Json : item = Reasoning(raw)

\* What is written under a key of an item is always of one sort.
IsItemField(key, x) ==
  CASE key = "raw"    -> \E raw \in Json : x = Written(raw)
    [] key = "output" -> \E output \in Outputs : x = OutputBytes(output)
    [] OTHER          -> \E value : x = ScalarBytes(value)

LEMMA ItemFieldIsTold ==
  ASSUME NEW key, NEW x, NEW y, IsItemField(key, x), IsItemField(key, y)
  PROVE  IsBytes(x) /\ Told(x, y)
<1>1. CASE key = "raw"
  BY <1>1, WrittenTellsTheMeaning DEF IsItemField
<1>2. CASE key = "output"
  BY <1>2, OutputIsBytes, OutputIsTold DEF IsItemField
<1>3. CASE key \notin {"raw", "output"}
  BY <1>3, ScalarTold DEF IsItemField
<1> QED
  BY <1>1, <1>2, <1>3

ItemFields(item) ==
  CASE item.kind = "reasoning" -> [kind |-> ScalarBytes(Text(item.kind)), raw |-> Written(item.raw)]
    [] item.kind = "function_call_output" ->
         [kind |-> ScalarBytes(Text(item.kind)), call_id |-> ScalarBytes(Text(item.call_id)),
          output |-> OutputBytes(item.output)]
    [] item.kind \in {"message", "function_call"} ->
         [field \in DOMAIN item |-> ScalarBytes(Text(item[field]))]

IsFunction(F) == F = [key \in DOMAIN F |-> F[key]]

LEMMA ItemFieldsAre ==
  ASSUME NEW item, IsStored(item)
  PROVE  LET F == ItemFields(item) IN
         /\ ItemBytes(item) = ObjectBytes(F) /\ IsFields(F)
         /\ \A key \in DOMAIN F : IsItemField(key, F[key])
<1> DEFINE F == ItemFields(item)
           Good == /\ ItemBytes(item) = ObjectBytes(F) /\ IsFunction(F)
                   /\ DOMAIN F \subseteq ToSet(Keys)
                   /\ \A key \in DOMAIN F : IsItemField(key, F[key])
<1>1. ASSUME item.kind \in {"message", "function_call"}, DOMAIN item \subseteq ToSet(Keys),
             "raw" \notin DOMAIN item, "output" \notin DOMAIN item
      PROVE  Good
  <2>1. F = [field \in DOMAIN item |-> ScalarBytes(Text(item[field]))]
    BY <1>1 DEF ItemFields
  <2>2. ItemBytes(item) = ObjectBytes([field \in DOMAIN item |-> ScalarBytes(Text(item[field]))])
    BY <1>1 DEF ItemBytes, FieldsBytes
  <2>3. ItemBytes(item) = ObjectBytes(F)
    BY <2>1, <2>2
  <2> HIDE DEF F
  <2>4. /\ IsFunction(F) /\ DOMAIN F = DOMAIN item
        /\ \A key \in DOMAIN item : F[key] = ScalarBytes(Text(item[key]))
    BY <2>1 DEF IsFunction
  <2>5. \A key \in DOMAIN F : IsItemField(key, F[key])
    BY <1>1, <2>4 DEF IsItemField
  <2> QED
    BY <1>1, <2>3, <2>4, <2>5
<1>2. ASSUME \E role \in Roles, text \in Strings : item = Message(role, text)
      PROVE  Good
  <2>1. item.kind = "message" /\ DOMAIN item = {"kind", "role", "text"}
    BY <1>2 DEF Message
  <2> QED
    BY <1>1, <2>1, KeysAssumption
<1>3. ASSUME \E call_id, name, arguments :
               None \notin {call_id, name, arguments} /\ item = FunctionCall(call_id, name, arguments)
      PROVE  Good
  <2>1. item.kind = "function_call" /\ DOMAIN item = {"kind", "call_id", "name", "arguments"}
    BY <1>3 DEF FunctionCall
  <2> QED
    BY <1>1, <2>1, KeysAssumption
<1>4. ASSUME \E call_id : \E output \in Outputs :
               call_id # None /\ item = FunctionCallOutput(call_id, output)
      PROVE  Good
  <2>1. item.kind = "function_call_output" /\ item.output \in Outputs
    BY <1>4 DEF FunctionCallOutput
  <2> DEFINE x == ScalarBytes(Text(item.kind))
             y == ScalarBytes(Text(item.call_id))
             z == OutputBytes(item.output)
  <2>2. F = [kind |-> x, call_id |-> y, output |-> z] /\ ItemBytes(item) = ObjectBytes(F)
    BY <2>1 DEF ItemFields, ItemBytes
  <2>3. IsItemField("kind", x) /\ IsItemField("call_id", y) /\ IsItemField("output", z)
    BY <2>1 DEF IsItemField
  <2> HIDE DEF F, x, y, z
  <2>4. /\ IsFunction(F) /\ DOMAIN F = {"kind", "call_id", "output"}
        /\ F["kind"] = x /\ F["call_id"] = y /\ F["output"] = z
    BY <2>2 DEF IsFunction
  <2>5. \A key \in DOMAIN F : IsItemField(key, F[key])
    BY <2>3, <2>4
  <2> QED
    BY <2>2, <2>4, <2>5, KeysAssumption
<1>5. ASSUME \E raw \in Json : item = Reasoning(raw)
      PROVE  Good
  <2>1. item.kind = "reasoning" /\ item.raw \in Json
    BY <1>5 DEF Reasoning
  <2> DEFINE x == ScalarBytes(Text(item.kind))
             y == Written(item.raw)
  <2>2. F = [kind |-> x, raw |-> y] /\ ItemBytes(item) = ObjectBytes(F)
    BY <2>1 DEF ItemFields, ItemBytes
  <2>3. IsItemField("kind", x) /\ IsItemField("raw", y)
    BY <2>1 DEF IsItemField
  <2> HIDE DEF F, x, y
  <2>4. IsFunction(F) /\ DOMAIN F = {"kind", "raw"} /\ F["kind"] = x /\ F["raw"] = y
    BY <2>2 DEF IsFunction
  <2>5. \A key \in DOMAIN F : IsItemField(key, F[key])
    BY <2>3, <2>4
  <2> QED
    BY <2>2, <2>4, <2>5, KeysAssumption
<1>6. Good
  <2> HIDE DEF Good
  <2> QED
    BY <1>2, <1>3, <1>4, <1>5 DEF IsStored
<1> HIDE DEF F
<1>7. IsFields(F)
  <2>1. \A key \in DOMAIN F : IsBytes(F[key])
    BY <1>6, ItemFieldIsTold
  <2> QED
    BY <1>6, <2>1 DEF IsFields, IsFunction
<1> QED
  BY <1>6, <1>7 DEF F

LEMMA ItemIsTold ==
  ASSUME NEW item, NEW other, IsStored(item), IsStored(other)
  PROVE  IsBytes(ItemBytes(item)) /\ Told(ItemBytes(item), ItemBytes(other))
<1> DEFINE F == ItemFields(item)
           G == ItemFields(other)
<1>1. /\ ItemBytes(item) = ObjectBytes(F) /\ IsFields(F)
      /\ \A key \in DOMAIN F : IsItemField(key, F[key])
  BY ItemFieldsAre
<1>2. /\ ItemBytes(other) = ObjectBytes(G) /\ IsFields(G)
      /\ \A key \in DOMAIN G : IsItemField(key, G[key])
  BY ItemFieldsAre
<1> HIDE DEF F, G
<1>3. \A key \in DOMAIN F : key \in DOMAIN G => Told(F[key], G[key])
  BY <1>1, <1>2, ItemFieldIsTold
<1>4. Agree(ObjectBytes(F), ObjectBytes(G)) => F = G
  BY <1>1, <1>2, <1>3, ObjectIsTold
<1>5. IsBytes(ObjectBytes(F))
  BY <1>1, ObjectIsBytes
<1> QED
  BY <1>1, <1>2, <1>4, <1>5 DEF Told

\* An item of a session, with where it comes from.
IsKept(tagged) == IsStored(tagged.item) /\ DOMAIN tagged.provenance \subseteq ToSet(Keys)

LEMMA KeptIsTold ==
  ASSUME NEW tagged, NEW other, IsKept(tagged), IsKept(other)
  PROVE  IsBytes(FingerprintedItem(tagged)) /\ Told(FingerprintedItem(tagged), FingerprintedItem(other))
<1> DEFINE x == ItemBytes(tagged.item)
           y == FieldsBytes(tagged.provenance)
           v == ItemBytes(other.item)
           w == FieldsBytes(other.provenance)
           F == [item |-> x, provenance |-> y]
           G == [item |-> v, provenance |-> w]
<1>1. FingerprintedItem(tagged) = ObjectBytes(F) /\ FingerprintedItem(other) = ObjectBytes(G)
  BY DEF FingerprintedItem
<1>2. IsBytes(x) /\ IsBytes(v) /\ Told(x, v)
  BY ItemIsTold DEF IsKept
<1>3. IsBytes(y) /\ IsBytes(w) /\ Told(y, w)
  BY FieldsAreBytes, FieldsAreTold DEF IsKept
<1> HIDE DEF x, y, v, w
<1>4. /\ F = [key \in DOMAIN F |-> F[key]] /\ DOMAIN F = {"item", "provenance"}
      /\ F["item"] = x /\ F["provenance"] = y
      /\ G = [key \in DOMAIN G |-> G[key]] /\ DOMAIN G = {"item", "provenance"}
      /\ G["item"] = v /\ G["provenance"] = w
  OBVIOUS
<1> HIDE DEF F, G
<1>5. IsFields(F) /\ IsFields(G)
  BY <1>2, <1>3, <1>4, KeysAssumption DEF IsFields
<1>6. \A key \in DOMAIN F : key \in DOMAIN G => Told(F[key], G[key])
  BY <1>2, <1>3, <1>4
<1>7. Agree(ObjectBytes(F), ObjectBytes(G)) => F = G
  BY <1>5, <1>6, ObjectIsTold
<1>8. IsBytes(ObjectBytes(F))
  BY <1>5, ObjectIsBytes
<1> QED
  BY <1>1, <1>7, <1>8 DEF Told

ToolBytes(tools) == [i \in DOMAIN tools |-> Written(tools[i])]
KeptBytes(items) == [i \in DOMAIN items |-> FingerprintedItem(items[i])]

LEMMA ToolBytesAre ==
  ASSUME NEW tools \in Seq(Json)
  PROVE  /\ IsParts(ToolBytes(tools))
         /\ \A i \in 1..Len(ToolBytes(tools)) : \E tool \in Json : ToolBytes(tools)[i] = Written(tool)
<1> DEFINE X == ToolBytes(tools)
           n == Len(tools)
<1>1. n \in Nat /\ DOMAIN tools = 1..n /\ \A i \in 1..n : tools[i] \in Json
  BY LenProperties
<1>2. X = [i \in 1..n |-> X[i]] /\ \A i \in 1..n : X[i] = Written(tools[i])
  BY <1>1 DEF ToolBytes
<1> HIDE DEF X, n
<1>3. IsSeq(X) /\ Len(X) = n
  BY <1>1, <1>2, FunctionIsSeq
<1>4. \A tool \in Json : IsBytes(Written(tool))
  BY WrittenTellsTheMeaning
<1> QED
  BY <1>1, <1>2, <1>3, <1>4 DEF IsParts, X

\* Tools are written alike if and only if they say the same.
LEMMA ToolsAreTold ==
  ASSUME NEW tools \in Seq(Json), NEW others \in Seq(Json)
  PROVE  ToolBytes(tools) = ToolBytes(others) <=> Meanings(tools) = Meanings(others)
<1> DEFINE X == ToolBytes(tools)
           Y == ToolBytes(others)
           A == Meanings(tools)
           B == Meanings(others)
           n == Len(tools)
           m == Len(others)
<1>1. /\ n \in Nat /\ DOMAIN tools = 1..n /\ \A i \in 1..n : tools[i] \in Json
      /\ m \in Nat /\ DOMAIN others = 1..m /\ \A i \in 1..m : others[i] \in Json
  BY LenProperties
<1>2. /\ X = [i \in 1..n |-> X[i]] /\ DOMAIN X = 1..n /\ \A i \in 1..n : X[i] = Written(tools[i])
      /\ A = [i \in 1..n |-> A[i]] /\ DOMAIN A = 1..n /\ \A i \in 1..n : A[i] = Meaning(tools[i])
  BY <1>1 DEF ToolBytes, Meanings
<1>3. /\ Y = [i \in 1..m |-> Y[i]] /\ DOMAIN Y = 1..m /\ \A i \in 1..m : Y[i] = Written(others[i])
      /\ B = [i \in 1..m |-> B[i]] /\ DOMAIN B = 1..m /\ \A i \in 1..m : B[i] = Meaning(others[i])
  BY <1>1 DEF ToolBytes, Meanings
<1> HIDE DEF X, Y, A, B, n, m
<1>4. 1..n = 1..m => n = m
  BY <1>1
<1>5. ASSUME NEW i \in 1..n, i \in 1..m
      PROVE  X[i] = Y[i] <=> A[i] = B[i]
  <2>1. Written(tools[i]) = Written(others[i]) <=> Meaning(tools[i]) = Meaning(others[i])
    BY <1>1, <1>5, WrittenTellsTheMeaning
  <2> QED
    BY <1>2, <1>3, <1>5, <2>1
<1>6. ASSUME X = Y
      PROVE  A = B
  <2>1. 1..n = 1..m
    BY <1>2, <1>3, <1>6
  <2>2. \A i \in 1..n : A[i] = B[i]
    BY <1>5, <1>6, <2>1
  <2> QED
    BY <1>2, <1>3, <2>1, <2>2
<1>7. ASSUME A = B
      PROVE  X = Y
  <2>1. 1..n = 1..m
    BY <1>2, <1>3, <1>7
  <2>2. \A i \in 1..n : X[i] = Y[i]
    BY <1>5, <1>7, <2>1
  <2> QED
    BY <1>2, <1>3, <2>1, <2>2
<1> QED
  BY <1>6, <1>7 DEF X, Y, A, B

LEMMA KeptBytesAre ==
  ASSUME NEW items, IsSeq(items), \A i \in 1..Len(items) : IsKept(items[i])
  PROVE  /\ IsParts(KeptBytes(items)) /\ Len(KeptBytes(items)) = Len(items)
         /\ \A i \in 1..Len(items) : KeptBytes(items)[i] = FingerprintedItem(items[i])
<1> DEFINE X == KeptBytes(items)
           n == Len(items)
<1>1. n \in Nat /\ DOMAIN items = 1..n
  BY IsSeqIsFunction
<1>2. X = [i \in 1..n |-> X[i]] /\ \A i \in 1..n : X[i] = FingerprintedItem(items[i])
  BY <1>1 DEF KeptBytes
<1>3. \A i \in 1..n : IsBytes(FingerprintedItem(items[i]))
  BY KeptIsTold
<1> HIDE DEF X, n
<1>4. IsSeq(X) /\ Len(X) = n
  BY <1>1, <1>2, FunctionIsSeq
<1> QED
  BY <1>2, <1>3, <1>4 DEF IsParts, X, n

\* Fingerprints are the same if and only if the instructions are, the tools say
\* the same and the items are written alike.
LEMMA FingerprintTells ==
  ASSUME NEW r, NEW q, r.tools \in Seq(Json), q.tools \in Seq(Json),
         NEW s, NEW t, IsSeq(s), IsSeq(t),
         \A i \in 1..Len(s) : IsKept(s[i]), \A i \in 1..Len(t) : IsKept(t[i])
  PROVE  Fingerprint(r, s) = Fingerprint(q, t) <=>
           /\ r.instructions = q.instructions
           /\ Meanings(r.tools) = Meanings(q.tools)
           /\ KeptBytes(s) = KeptBytes(t)
<1> DEFINE a == ScalarBytes(Text(r.instructions))
           b == ScalarBytes(Text(q.instructions))
           X == ToolBytes(r.tools)
           Y == ToolBytes(q.tools)
           U == KeptBytes(s)
           V == KeptBytes(t)
           F == [instructions |-> a, tools |-> ListBytes(X), items |-> ListBytes(U)]
           G == [instructions |-> b, tools |-> ListBytes(Y), items |-> ListBytes(V)]
<1>1. Fingerprint(r, s) = ObjectBytes(F) /\ Fingerprint(q, t) = ObjectBytes(G)
  BY DEF Fingerprint, ToolBytes, KeptBytes
<1>2. IsBytes(a) /\ IsBytes(b) /\ Told(a, b)
  BY ScalarTold
<1>3. a = b => r.instructions = q.instructions
  <2>1. a = b => Agree(a, b)
    BY DEF Agree
  <2>2. Agree(a, b) => Text(r.instructions) = Text(q.instructions)
    BY ScalarTellsItself
  <2>3. \A v, w : Text(v) = Text(w) => v = w
    <3>1. \A v : Text(v).value = v
      BY DEF Text
    <3> QED
      BY <3>1
  <2> QED
    BY <2>1, <2>2, <2>3
<1>4. r.instructions = q.instructions => a = b
  OBVIOUS
<1>5. X = Y <=> Meanings(r.tools) = Meanings(q.tools)
  BY ToolsAreTold
<1>6. /\ IsParts(X) /\ \A i \in 1..Len(X) : \E tool \in Json : X[i] = Written(tool)
      /\ IsParts(Y) /\ \A i \in 1..Len(Y) : \E tool \in Json : Y[i] = Written(tool)
  BY ToolBytesAre
<1>7. IsParts(U) /\ Len(U) = Len(s) /\ \A i \in 1..Len(s) : U[i] = FingerprintedItem(s[i])
  BY KeptBytesAre
<1>8. IsParts(V) /\ Len(V) = Len(t) /\ \A i \in 1..Len(t) : V[i] = FingerprintedItem(t[i])
  BY KeptBytesAre
<1> HIDE DEF a, b, X, Y, U, V
<1>9. \A i \in 1..Len(X), j \in 1..Len(Y) : Told(X[i], Y[j])
  BY <1>6, WrittenTellsTheMeaning
<1>10. \A i \in 1..Len(U), j \in 1..Len(V) : Told(U[i], V[j])
  BY <1>7, <1>8, KeptIsTold
<1>11. /\ IsBytes(ListBytes(X)) /\ IsBytes(ListBytes(Y)) /\ Told(ListBytes(X), ListBytes(Y))
       /\ IsBytes(ListBytes(U)) /\ IsBytes(ListBytes(V)) /\ Told(ListBytes(U), ListBytes(V))
  <2>1. Told(ListBytes(X), ListBytes(Y))
    BY <1>6, <1>9, ListsAreTold
  <2>2. Told(ListBytes(U), ListBytes(V))
    BY <1>7, <1>8, <1>10, ListsAreTold
  <2> QED
    BY <1>6, <1>7, <1>8, <2>1, <2>2, ListIsBytes
<1>12. /\ ListBytes(X) = ListBytes(Y) => X = Y
       /\ ListBytes(U) = ListBytes(V) => U = V
  <2>1. /\ ListBytes(X) = ListBytes(Y) => Agree(ListBytes(X), ListBytes(Y))
        /\ ListBytes(U) = ListBytes(V) => Agree(ListBytes(U), ListBytes(V))
    BY DEF Agree
  <2>2. Agree(ListBytes(X), ListBytes(Y)) => X = Y
    BY <1>6, <1>9, ListIsTold
  <2>3. Agree(ListBytes(U), ListBytes(V)) => U = V
    BY <1>7, <1>8, <1>10, ListIsTold
  <2> QED
    BY <2>1, <2>2, <2>3
<1> DEFINE x == ListBytes(X)
           y == ListBytes(Y)
           u == ListBytes(U)
           v == ListBytes(V)
<1>13. /\ IsFunction(F) /\ DOMAIN F = {"instructions", "tools", "items"}
       /\ F["instructions"] = a /\ F["tools"] = x /\ F["items"] = u
       /\ IsFunction(G) /\ DOMAIN G = {"instructions", "tools", "items"}
       /\ G["instructions"] = b /\ G["tools"] = y /\ G["items"] = v
  <2> HIDE DEF x, y, u, v
  <2>1. F = [instructions |-> a, tools |-> x, items |-> u]
    BY DEF x, u
  <2>2. G = [instructions |-> b, tools |-> y, items |-> v]
    BY DEF y, v
  <2> HIDE DEF F, G
  <2> QED
    BY <2>1, <2>2 DEF IsFunction
<1>14. a = b /\ X = Y /\ U = V => F = G
  OBVIOUS
<1> HIDE DEF F, G
<1>15. IsFields(F) /\ IsFields(G)
  <2>1. {"instructions", "tools", "items"} \subseteq ToSet(Keys)
    BY KeysAssumption
  <2> HIDE DEF x, y, u, v
  <2>2. IsBytes(a) /\ IsBytes(x) /\ IsBytes(u) /\ IsBytes(b) /\ IsBytes(y) /\ IsBytes(v)
    BY <1>2, <1>11 DEF x, y, u, v
  <2> QED
    BY <1>13, <2>1, <2>2 DEF IsFields, IsFunction
<1>16. \A key \in DOMAIN F : key \in DOMAIN G => Told(F[key], G[key])
  <2> HIDE DEF x, y, u, v
  <2>1. Told(a, b) /\ Told(x, y) /\ Told(u, v)
    BY <1>2, <1>11 DEF x, y, u, v
  <2> QED
    BY <1>13, <2>1
<1>17. ObjectBytes(F) = ObjectBytes(G) => F = G
  <2>1. Agree(ObjectBytes(F), ObjectBytes(G)) => F = G
    BY <1>15, <1>16, ObjectIsTold
  <2>2. ObjectBytes(F) = ObjectBytes(G) => Agree(ObjectBytes(F), ObjectBytes(G))
    BY DEF Agree
  <2> QED
    BY <2>1, <2>2
<1>18. F = G => a = b /\ x = y /\ u = v
  BY <1>13
<1>19. ObjectBytes(F) = ObjectBytes(G) <=> a = b /\ X = Y /\ U = V
  BY <1>12, <1>14, <1>17, <1>18
<1>20. Fingerprint(r, s) = Fingerprint(q, t) <=> ObjectBytes(F) = ObjectBytes(G)
  BY <1>1
<1>21. KeptBytes(s) = KeptBytes(t) <=> U = V
  BY DEF U, V
<1> QED
  BY <1>3, <1>4, <1>5, <1>19, <1>20, <1>21

-----------------------------------------------------------------------------
(* Items and what the normaliser makes of what is said.                      *)

\* Items that say what was said, whichever conversion made them; the hash of
\* an item is not a part of that.
SameItem(tagged, said) ==
  tagged.item = Canonical(said) /\ tagged.provenance = ProvenanceOf(Canonical(said))

SameItems(items, said) ==
  /\ IsSeq(items) /\ IsSeq(said) /\ Len(items) = Len(said)
  /\ \A i \in 1..Len(said) : SameItem(items[i], said[i])

LEMMA SameItemsConcat ==
  ASSUME NEW items, NEW said, NEW more, NEW words, SameItems(items, said), SameItems(more, words)
  PROVE  SameItems(items \o more, said \o words)
<1> DEFINE all == items \o more
           spoken == said \o words
<1>1. /\ IsSeq(items) /\ IsSeq(said) /\ Len(items) = Len(said)
      /\ IsSeq(more) /\ IsSeq(words) /\ Len(more) = Len(words)
      /\ Len(said) \in Nat /\ Len(words) \in Nat
  BY IsSeqIsFunction DEF SameItems
<1>2. /\ IsSeq(all) /\ IsSeq(spoken) /\ Len(all) = Len(spoken) /\ Len(spoken) = Len(said) + Len(words)
      /\ \A i \in 1..(Len(said) + Len(words)) :
           /\ all[i] = IF i <= Len(said) THEN items[i] ELSE more[i - Len(said)]
           /\ spoken[i] = IF i <= Len(said) THEN said[i] ELSE words[i - Len(said)]
  BY <1>1, ConcatIsSeq
<1> HIDE DEF all, spoken
<1>3. ASSUME NEW i \in 1..Len(spoken)
      PROVE  SameItem(all[i], spoken[i])
  <2>1. CASE i <= Len(said)
    <3>1. i \in 1..Len(said) /\ all[i] = items[i] /\ spoken[i] = said[i]
      BY <1>1, <1>2, <2>1
    <3> QED
      BY <3>1 DEF SameItems
  <2>2. CASE ~ (i <= Len(said))
    <3>1. i - Len(said) \in 1..Len(words) /\ all[i] = more[i - Len(said)] /\ spoken[i] = words[i - Len(said)]
      BY <1>1, <1>2, <2>2
    <3> QED
      BY <3>1 DEF SameItems
  <2> QED
    BY <2>1, <2>2
<1> QED
  BY <1>2, <1>3 DEF SameItems, all, spoken

LEMMA SupportedConcat ==
  ASSUME NEW said, NEW words, IsSeq(said), IsSeq(words)
  PROVE  AreSupported(said \o words) <=> AreSupported(said) /\ AreSupported(words)
<1> DEFINE spoken == said \o words
           n == Len(said)
           m == Len(words)
<1>1. n \in Nat /\ m \in Nat /\ DOMAIN said = 1..n /\ DOMAIN words = 1..m
  BY IsSeqIsFunction
<1>2. /\ IsSeq(spoken) /\ Len(spoken) = n + m
      /\ \A i \in 1..(n + m) : spoken[i] = IF i <= n THEN said[i] ELSE words[i - n]
  BY ConcatIsSeq
<1>3. DOMAIN spoken = 1..(n + m)
  BY <1>2, IsSeqIsFunction
<1> HIDE DEF spoken, n, m
<1>4. ASSUME AreSupported(spoken)
      PROVE  AreSupported(said) /\ AreSupported(words)
  <2>1. ASSUME NEW i \in 1..n
        PROVE  IsSupported(said[i])
    <3>1. i \in 1..(n + m) /\ spoken[i] = said[i]
      BY <1>1, <1>2
    <3> QED
      BY <1>3, <1>4, <3>1 DEF AreSupported
  <2>2. ASSUME NEW i \in 1..m
        PROVE  IsSupported(words[i])
    <3>1. n + i \in 1..(n + m) /\ ~ (n + i <= n) /\ (n + i) - n = i
      BY <1>1
    <3>2. spoken[n + i] = words[i]
      BY <1>2, <3>1
    <3> QED
      BY <1>3, <1>4, <3>1, <3>2 DEF AreSupported
  <2> QED
    BY <1>1, <2>1, <2>2 DEF AreSupported
<1>5. ASSUME AreSupported(said), AreSupported(words)
      PROVE  AreSupported(spoken)
  <2> SUFFICES ASSUME NEW i \in 1..(n + m)
               PROVE  IsSupported(spoken[i])
    BY <1>3 DEF AreSupported
  <2>1. CASE i <= n
    BY <1>1, <1>2, <1>5, <2>1 DEF AreSupported
  <2>2. CASE ~ (i <= n)
    <3>1. i - n \in 1..m
      BY <1>1, <2>2
    <3> QED
      BY <1>1, <1>2, <1>5, <2>2, <3>1 DEF AreSupported
  <2> QED
    BY <2>1, <2>2
<1> QED
  BY <1>4, <1>5 DEF spoken

LEMMA NormalizedAre ==
  ASSUME NEW said, IsSeq(said)
  PROVE  SameItems(Normalized(said), said)
<1> DEFINE items == Normalized(said)
<1>1. Len(said) \in Nat /\ DOMAIN said = 1..Len(said)
  BY IsSeqIsFunction
<1>2. items = [i \in 1..Len(said) |-> Tagged(Canonical(said[i]), ProvenanceOf(Canonical(said[i])))]
  BY <1>1 DEF Normalized
<1>3. /\ items = [i \in 1..Len(said) |-> items[i]]
      /\ \A i \in 1..Len(said) : items[i] = Tagged(Canonical(said[i]), ProvenanceOf(Canonical(said[i])))
  BY <1>2
<1> HIDE DEF items
<1>4. IsSeq(items) /\ Len(items) = Len(said)
  BY <1>1, <1>3, FunctionIsSeq
<1>5. \A i \in 1..Len(said) : SameItem(items[i], said[i])
  BY <1>3 DEF SameItem, Tagged
<1> QED
  BY <1>4, <1>5 DEF SameItems, items

\* A message of one part is that part's text.
LEMMA OnePart ==
  ASSUME NEW role \in {"user", "assistant"}, NEW text
  PROVE  LET said == [type |-> "message", role |-> role,
                      content |-> <<[type |-> TextType(role), text |-> text]>>]
         IN  Canonical(said) = Message(role, text)
<1> DEFINE part == [type |-> TextType(role), text |-> text]
           content == <<part>>
           said == [type |-> "message", role |-> role, content |-> content]
           those == {i \in Texts(content, TextType(role)) : content[i].text # <<>>}
<1>1. None # "assistant" /\ None # "user" /\ None # "message"
  BY NoneAssumption DEF Roles
<1>2. TypeOf(said) = "message" /\ RoleOf(said) = role
  BY <1>1 DEF TypeOf, RoleOf
<1>3. DOMAIN content = {1} /\ content[1] = part /\ part.type = TextType(role) /\ part.text = text
  BY OneIsSeq
<1>4. Canonical(said) = Message(role, Joined(content, those))
  BY <1>2 DEF Canonical
<1> HIDE DEF content, part
<1>5. those = IF text # <<>> THEN {1} ELSE {}
  BY <1>3 DEF Texts
<1> HIDE DEF those
<1>6. Joined(content, those) = FlattenSeq([i \in {1} |-> text])
  <2> DEFINE texts == [i \in {1} |->
        CASE i \notin those                             -> <<>>
          [] i \in those /\ (\A j \in those : i <= j)   -> content[i].text
          [] i \in those /\ ~ (\A j \in those : i <= j) -> <<NewLine>> \o content[i].text]
  <2>1. Joined(content, those) = FlattenSeq(texts)
    BY <1>3 DEF Joined
  <2>2. texts = [i \in {1} |-> text]
    <3>1. CASE text = <<>>
      <4>1. those = {}
        BY <1>5, <3>1
      <4> QED
        BY <3>1, <4>1
    <3>2. CASE text # <<>>
      <4>1. those = {1} /\ \A j \in those : 1 <= j
        BY <1>5, <3>2
      <4> QED
        BY <1>3, <4>1
    <3> QED
      BY <3>1, <3>2
  <2> QED
    BY <2>1, <2>2
<1>7. [i \in {1} |-> text] = <<text>>
  <2>1. \A s : IsSeq(s) /\ Len(s) = 1 /\ s[1] = text => s = [i \in {1} |-> text]
    <3> TAKE s
    <3>1. 1..1 = {1}
      OBVIOUS
    <3> QED
      BY <3>1, IsSeqIsFunction
  <2> QED
    BY <2>1, OneIsSeq
<1>8. FlattenSeq(<<text>>) = text
  BY FlattenOne
<1> QED
  BY <1>4, <1>6, <1>7, <1>8 DEF content, part

\* The items of a request are what the normaliser makes of its input, a string
\* or not.
LEMMA RequestItemsAre ==
  ASSUME NEW input, input.kind # "string" => IsSeq(input.items)
  PROVE  SameItems(RequestItems(input), InputItems(input))
<1>1. CASE input.kind # "string"
  BY <1>1, NormalizedAre DEF RequestItems, InputItems
<1>2. CASE input.kind = "string"
  <2> DEFINE word == [type |-> "message", role |-> "user",
                      content |-> <<[type |-> "input_text", text |-> input.text]>>]
             tagged == Tagged(Message("user", input.text), UserTrusted)
  <2>1. RequestItems(input) = <<tagged>> /\ InputItems(input) = <<word>>
    BY <1>2 DEF RequestItems, InputItems
  <2>2. TextType("user") = "input_text"
    BY DEF TextType
  <2>3. Canonical(word) = Message("user", input.text)
    BY <2>2, OnePart
  <2>4. ProvenanceOf(Message("user", input.text)) = UserTrusted
    BY DEF ProvenanceOf, Message
  <2>5. SameItem(tagged, word)
    <3> HIDE DEF word
    <3> QED
      BY <2>3, <2>4 DEF SameItem, Tagged
  <2> HIDE DEF word, tagged
  <2>6. SameItems(<<tagged>>, <<word>>)
    <3>1. 1..1 = {1}
      OBVIOUS
    <3> QED
      BY <2>5, <3>1, OneIsSeq DEF SameItems
  <2> QED
    BY <2>1, <2>6
<1> QED
  BY <1>1, <1>2

\* What a client is shown of an answer says what the session keeps of it, and
\* is accepted when it comes back.
LEMMA ShownItem ==
  ASSUME NEW output \in Answers, NEW i \in DOMAIN output
  PROVE  LET item == output[i].item IN
         /\ SameItem(output[i], ResponseItem(item))
         /\ IsSupported(ResponseItem(item))
<1> DEFINE item == output[i].item
<1>1. /\ output[i] = Tagged(item, ModelSemi)
      /\ \/ item.kind = "message" /\ item = Message("assistant", item.text)
         \/ /\ item.kind = "function_call"
            /\ item = FunctionCall(item.call_id, item.name, item.arguments)
      /\ \A field \in DOMAIN item : item[field] # None
      /\ \A field \in DOMAIN ResponseItem(item) : ResponseItem(item)[field] # None
  BY AnswersAssumption
<1>2. output[i].provenance = ModelSemi
  BY <1>1 DEF Tagged
<1> HIDE DEF item
<1>3. CASE item.kind = "message" /\ item = Message("assistant", item.text)
  <2> DEFINE text == item.text
             part == [type |-> "output_text", text |-> text]
             content == <<part>>
             said == [type |-> "message", role |-> "assistant", content |-> content]
  <2>1. item.role = "assistant"
    BY <1>3 DEF Message
  <2>2. ResponseItem(item) = said
    BY <1>3, <2>1 DEF ResponseItem
  <2>3. TextType("assistant") = "output_text"
    BY DEF TextType
  <2>4. Canonical(said) = item
    BY <1>3, <2>3, OnePart
  <2>5. ProvenanceOf(item) = ModelSemi
    BY <1>3, <2>1 DEF ProvenanceOf
  <2>6. text # None
    <3>1. "text" \in DOMAIN item
      BY <1>3 DEF Message
    <3> QED
      BY <1>1, <3>1
  <2>7. DOMAIN content = {1} /\ content[1] = part
    BY OneIsSeq
  <2>8. content # None
    <3> HIDE DEF content
    <3>1. "content" \in DOMAIN said /\ said["content"] = content
      OBVIOUS
    <3> HIDE DEF said
    <3> QED
      BY <1>1, <2>2, <3>1
  <2> HIDE DEF content
  <2>9. TypeOf(said) = "message" /\ RoleOf(said) = "assistant" /\ said.content = content
    BY NoneAssumption DEF TypeOf, RoleOf, Roles
  <2>10. \A j \in DOMAIN content : PartIsSupported(content[j], TextType("assistant"))
    BY <2>3, <2>6, <2>7 DEF PartIsSupported
  <2> HIDE DEF said
  <2>11. IsSupported(said)
    BY <2>8, <2>9, <2>10 DEF IsSupported, Roles
  <2> QED
    BY <1>2, <2>2, <2>4, <2>5, <2>11 DEF SameItem, item
<1>4. CASE item.kind = "function_call" /\ item = FunctionCall(item.call_id, item.name, item.arguments)
  <2> DEFINE said == [type |-> "function_call", name |-> item.name, arguments |-> item.arguments,
                      call_id |-> item.call_id]
  <2>1. ResponseItem(item) = said
    BY <1>4 DEF ResponseItem
  <2>2. TypeOf(said) = "function_call"
    BY NoneAssumption DEF TypeOf
  <2>3. Canonical(said) = item
    BY <1>4, <2>2 DEF Canonical
  <2>4. ProvenanceOf(item) = ModelSemi
    BY <1>4 DEF ProvenanceOf
  <2>5. item.name # None /\ item.call_id # None /\ item.arguments # None
    <3>1. {"name", "call_id", "arguments"} \subseteq DOMAIN item
      BY <1>4 DEF FunctionCall
    <3> QED
      BY <1>1, <3>1
  <2>6. IsSupported(said)
    BY <2>2, <2>5 DEF IsSupported
  <2> QED
    BY <1>2, <2>1, <2>3, <2>4, <2>6 DEF SameItem, item
<1> QED
  BY <1>1, <1>3, <1>4

\* The hash of an item makes no difference to what it says.
Hashed(output) ==
  [i \in DOMAIN output |-> [output[i] EXCEPT !.artifact_hash = ArtifactHash(output[i].item)]]

LEMMA ShownAre ==
  ASSUME NEW output \in Answers
  PROVE  SameItems(Hashed(output), Shown(output)) /\ AreSupported(Shown(output))
<1> DEFINE items == Hashed(output)
           said == Shown(output)
           n == Len(output)
<1>1. n \in Nat /\ DOMAIN output = 1..n
  BY AnswersAssumption, IsSeqIsFunction DEF IsSeq
<1>2. \A i \in 1..n : SameItem(output[i], ResponseItem(output[i].item))
                      /\ IsSupported(ResponseItem(output[i].item))
  BY <1>1, ShownItem
<1>3. \A i \in 1..n : output[i] = Tagged(output[i].item, ModelSemi)
  BY <1>1, AnswersAssumption
<1>4. /\ items = [i \in 1..n |-> items[i]] /\ said = [i \in 1..n |-> said[i]]
      /\ \A i \in 1..n : /\ items[i] = [output[i] EXCEPT !.artifact_hash = ArtifactHash(output[i].item)]
                         /\ said[i] = ResponseItem(output[i].item)
  BY <1>1 DEF Hashed, Shown
<1>5. \A i \in 1..n : items[i].item = output[i].item /\ items[i].provenance = output[i].provenance
  BY <1>3, <1>4 DEF Tagged
<1> HIDE DEF items, said, n
<1>6. IsSeq(items) /\ Len(items) = n /\ IsSeq(said) /\ Len(said) = n /\ DOMAIN said = 1..n
  BY <1>1, <1>4, FunctionIsSeq
<1>7. \A i \in 1..n : SameItem(items[i], said[i]) /\ IsSupported(said[i])
  BY <1>2, <1>4, <1>5 DEF SameItem
<1> QED
  BY <1>6, <1>7 DEF SameItems, AreSupported, items, said

\* The chat request and the fingerprint are of what items say, and of no hash.
LEMMA CompiledIsOfWhatIsSaid ==
  ASSUME NEW model, NEW request, NEW items, NEW others, NEW said,
         SameItems(items, said), SameItems(others, said)
  PROVE  Compiled(model, request, items) = Compiled(model, request, others)
<1>1. /\ Len(said) \in Nat /\ DOMAIN items = 1..Len(said) /\ DOMAIN others = 1..Len(said)
      /\ \A i \in 1..Len(said) : items[i].item = others[i].item
  BY IsSeqIsFunction DEF SameItems, SameItem
<1>2. [i \in DOMAIN items |-> ChatMessages(items[i].item)]
        = [i \in DOMAIN others |-> ChatMessages(others[i].item)]
  BY <1>1
<1>3. ChatMessagesOf(model, request.instructions, items)
        = ChatMessagesOf(model, request.instructions, others)
  BY <1>2 DEF ChatMessagesOf
<1> QED
  BY <1>3 DEF Compiled

LEMMA FingerprintIsOfWhatIsSaid ==
  ASSUME NEW request, NEW items, NEW others, NEW said,
         SameItems(items, said), SameItems(others, said)
  PROVE  Fingerprint(request, items) = Fingerprint(request, others)
<1>1. /\ Len(said) \in Nat /\ DOMAIN items = 1..Len(said) /\ DOMAIN others = 1..Len(said)
      /\ \A i \in 1..Len(said) :
           items[i].item = others[i].item /\ items[i].provenance = others[i].provenance
  BY IsSeqIsFunction DEF SameItems, SameItem
<1>2. \A i \in 1..Len(said) : FingerprintedItem(items[i]) = FingerprintedItem(others[i])
  BY <1>1 DEF FingerprintedItem
<1>3. [i \in DOMAIN items |-> FingerprintedItem(items[i])]
        = [i \in DOMAIN others |-> FingerprintedItem(others[i])]
  BY <1>1, <1>2
<1> QED
  BY <1>3 DEF Fingerprint

-----------------------------------------------------------------------------
(* What is kept of what is said lacks nothing.                               *)

LEMMA JoinedIsText ==
  ASSUME NEW parts, IsSeq(parts), NEW those, \A i \in those : parts[i].text \in Strings
  PROVE  Joined(parts, those) \in Strings
<1> DEFINE n == Len(parts)
           texts == [i \in DOMAIN parts |->
             CASE i \notin those                             -> <<>>
               [] i \in those /\ (\A j \in those : i <= j)   -> parts[i].text
               [] i \in those /\ ~ (\A j \in those : i <= j) -> <<NewLine>> \o parts[i].text]
<1>1. n \in Nat /\ DOMAIN parts = 1..n
  BY IsSeqIsFunction
<1>2. Joined(parts, those) = FlattenSeq(texts)
  BY DEF Joined
<1>3. texts = [i \in 1..n |-> texts[i]]
  BY <1>1
<1>4. ASSUME NEW i \in 1..n
      PROVE  texts[i] \in Seq(Letters)
  <2>1. CASE i \notin those
    BY <1>1, <2>1
  <2>2. CASE i \in those /\ \A j \in those : i <= j
    BY <1>1, <2>2 DEF Strings
  <2>3. CASE i \in those /\ ~ (\A j \in those : i <= j)
    <3>1. parts[i].text \in Seq(Letters) /\ <<NewLine>> \in Seq(Letters)
      BY <2>3, NoneAssumption DEF Strings
    <3>2. texts[i] = <<NewLine>> \o parts[i].text
      BY <1>1, <2>3
    <3> QED
      BY <3>1, <3>2, ConcatProperties
  <2> QED
    BY <2>1, <2>2, <2>3
<1> HIDE DEF texts, n
<1>5. texts \in [1..n -> Seq(Letters)]
  BY <1>3, <1>4
<1>6. texts \in Seq(Seq(Letters))
  BY <1>1, <1>5
<1> QED
  BY <1>2, <1>6, FlattenType DEF Strings

LEMMA OutputIsStored ==
  ASSUME NEW output, OutputIsSupported(output), OutputIsRead(output)
  PROVE  CanonicalOutput(output) \in Outputs
<1>1. CASE output.encoding = "text"
  <2>1. CanonicalOutput(output) = [encoding |-> "text", text |-> output.text]
    BY <1>1 DEF CanonicalOutput
  <2>2. output.text \in Strings
    BY <1>1 DEF OutputIsRead
  <2> QED
    BY <2>1, <2>2 DEF Outputs
<1>2. CASE output.encoding = "content_items"
  <2> DEFINE items == output.items
             n == Len(items)
             kept == [i \in DOMAIN items |->
                       LET part == items[i] IN
                       IF part.type = "input_text" THEN [type |-> part.type, text |-> part.text]
                       ELSE [type |-> part.type, image_url |-> part.image_url]]
  <2>1. CanonicalOutput(output) = [encoding |-> "content_items", items |-> kept]
    BY <1>2 DEF CanonicalOutput
  <2>2. /\ IsSeq(items)
        /\ \A part \in ToSet(items) :
             /\ part.type = "input_text" => part.text \in {None} \cup Strings
             /\ part.type = "input_image" => part.image_url \in {None} \cup Urls
    BY <1>2 DEF OutputIsRead, IsSeq
  <2>3. \A i \in DOMAIN items :
          \/ items[i].type = "input_text" /\ items[i].text # None
          \/ items[i].type = "input_image" /\ items[i].image_url # None
    BY <1>2 DEF OutputIsSupported
  <2>4. n \in Nat /\ DOMAIN items = 1..n
    BY <2>2, IsSeqIsFunction
  <2> HIDE DEF items, n
  <2>5. ASSUME NEW i \in 1..n
        PROVE  kept[i] \in OutputParts
    <3> DEFINE part == items[i]
    <3>1. part \in ToSet(items)
      BY <2>4 DEF ToSet
    <3>2. kept[i] = IF part.type = "input_text" THEN [type |-> part.type, text |-> part.text]
                    ELSE [type |-> part.type, image_url |-> part.image_url]
      BY <2>4
    <3> HIDE DEF kept, part
    <3>3. CASE part.type = "input_text"
      <4>1. part.text \in Strings
        BY <2>2, <2>3, <2>4, <3>1, <3>3 DEF part
      <4> QED
        BY <3>2, <3>3, <4>1 DEF OutputParts
    <3>4. CASE part.type = "input_image"
      <4>1. part.image_url \in Urls
        BY <2>2, <2>3, <2>4, <3>1, <3>4 DEF part
      <4> QED
        BY <3>2, <3>4, <4>1 DEF OutputParts
    <3> QED
      BY <2>3, <2>4, <3>3, <3>4 DEF part
  <2>6. kept = [i \in 1..n |-> kept[i]]
    BY <2>4
  <2> HIDE DEF kept
  <2>7. kept \in [1..n -> OutputParts]
    BY <2>5, <2>6
  <2>8. kept \in Seq(OutputParts)
    BY <2>4, <2>7
  <2> QED
    BY <2>1, <2>8 DEF Outputs
<1> QED
  BY <1>1, <1>2 DEF OutputIsSupported

LEMMA CanonicalIsStored ==
  ASSUME NEW said, IsSupported(said), ItemIsRead(said)
  PROVE  IsStored(Canonical(said))
<1>1. CASE TypeOf(said) = "message"
  <2> DEFINE role == RoleOf(said)
             content == said.content
             those == {i \in Texts(content, TextType(role)) : content[i].text # <<>>}
  <2>1. /\ role \in Roles /\ content # None
        /\ \A i \in DOMAIN content : PartIsSupported(content[i], TextType(role))
    BY <1>1 DEF IsSupported
  <2>2. ContentIsRead(content)
    BY <1>1, <2>1 DEF ItemIsRead
  <2>3. Canonical(said) = Message(role, Joined(content, those))
    BY <1>1 DEF Canonical
  <2> HIDE DEF role, content
  <2>4. TextType(role) \in {"input_text", "output_text"}
    BY DEF TextType
  <2>5. ASSUME NEW i \in those
        PROVE  content[i].text \in Strings
    <3>1. i \in DOMAIN content /\ content[i].type = TextType(role)
      BY <2>5 DEF Texts
    <3>2. content[i].text # None
      BY <2>1, <2>4, <3>1 DEF PartIsSupported
    <3>3. content[i] \in ToSet(content)
      BY <3>1 DEF ToSet
    <3> QED
      BY <2>2, <2>4, <3>1, <3>2, <3>3 DEF ContentIsRead
  <2> HIDE DEF those
  <2>6. Joined(content, those) \in Strings
    BY <2>2, <2>5, JoinedIsText DEF ContentIsRead, IsSeq
  <2> QED
    BY <2>1, <2>3, <2>6 DEF IsStored
<1>2. CASE TypeOf(said) = "function_call"
  <2>1. said.name # None /\ said.call_id # None /\ said.arguments # None
    BY <1>2 DEF IsSupported
  <2>2. Canonical(said) = FunctionCall(said.call_id, said.name, said.arguments)
    BY <1>2 DEF Canonical
  <2> QED
    BY <2>1, <2>2 DEF IsStored
<1>3. CASE TypeOf(said) = "function_call_output"
  <2>1. said.call_id # None /\ said.output # None /\ OutputIsSupported(said.output)
    BY <1>3 DEF IsSupported
  <2>2. OutputIsRead(said.output)
    BY <1>3, <2>1 DEF ItemIsRead
  <2>3. CanonicalOutput(said.output) \in Outputs
    BY <2>1, <2>2, OutputIsStored
  <2>4. Canonical(said) = FunctionCallOutput(said.call_id, CanonicalOutput(said.output))
    BY <1>3 DEF Canonical
  <2> QED
    BY <2>1, <2>3, <2>4 DEF IsStored
<1>4. CASE TypeOf(said) = "reasoning"
  <2>1. said.raw \in Json /\ Canonical(said) = Reasoning(said.raw)
    BY <1>4 DEF ItemIsRead, Canonical
  <2> QED
    BY <2>1 DEF IsStored
<1> QED
  BY <1>1, <1>2, <1>3, <1>4 DEF IsSupported

LEMMA StoredIsThere ==
  ASSUME NEW item, IsStored(item)
  PROVE  /\ item.kind \in {"message", "function_call", "function_call_output", "reasoning"}
         /\ \A field \in DOMAIN item : item[field] # None
<1> DEFINE Good == /\ item.kind \in {"message", "function_call", "function_call_output", "reasoning"}
                   /\ \A field \in DOMAIN item : item[field] # None
<1>1. /\ None \notin {"message", "function_call", "function_call_output", "reasoning"}
      /\ None \notin Roles /\ None \notin Strings /\ None \notin Outputs /\ None \notin Json
  BY NoneAssumption, JsonAssumption
<1>2. ASSUME NEW role \in Roles, NEW text \in Strings, item = Message(role, text)
      PROVE  Good
  <2>1. /\ DOMAIN item = {"kind", "role", "text"} /\ item.kind = "message"
        /\ item["kind"] = "message" /\ item["role"] = role /\ item["text"] = text
    BY <1>2 DEF Message
  <2> QED
    BY <1>1, <2>1
<1>3. ASSUME NEW call_id, NEW name, NEW arguments, None \notin {call_id, name, arguments},
             item = FunctionCall(call_id, name, arguments)
      PROVE  Good
  <2>1. /\ DOMAIN item = {"kind", "call_id", "name", "arguments"} /\ item.kind = "function_call"
        /\ item["kind"] = "function_call" /\ item["call_id"] = call_id /\ item["name"] = name
        /\ item["arguments"] = arguments
    BY <1>3 DEF FunctionCall
  <2> QED
    BY <1>1, <1>3, <2>1
<1>4. ASSUME NEW call_id, NEW output \in Outputs, call_id # None,
             item = FunctionCallOutput(call_id, output)
      PROVE  Good
  <2>1. /\ DOMAIN item = {"kind", "call_id", "output"} /\ item.kind = "function_call_output"
        /\ item["kind"] = "function_call_output" /\ item["call_id"] = call_id
        /\ item["output"] = output
    BY <1>4 DEF FunctionCallOutput
  <2> QED
    BY <1>1, <1>4, <2>1
<1>5. ASSUME NEW raw \in Json, item = Reasoning(raw)
      PROVE  Good
  <2>1. /\ DOMAIN item = {"kind", "raw"} /\ item.kind = "reasoning"
        /\ item["kind"] = "reasoning" /\ item["raw"] = raw
    BY <1>5 DEF Reasoning
  <2> QED
    BY <1>1, <2>1
<1> HIDE DEF Good
<1>6. Good
  BY <1>2, <1>3, <1>4, <1>5 DEF IsStored
<1> QED
  BY <1>6 DEF Good

\* What is said, as it is read.
AreRead(said) == \A i \in DOMAIN said : ItemIsRead(said[i])

LEMMA ReadConcat ==
  ASSUME NEW said, NEW words, IsSeq(said), IsSeq(words), AreRead(said), AreRead(words)
  PROVE  AreRead(said \o words)
<1> DEFINE spoken == said \o words
           n == Len(said)
           m == Len(words)
<1>1. n \in Nat /\ m \in Nat /\ DOMAIN said = 1..n /\ DOMAIN words = 1..m
  BY IsSeqIsFunction
<1>2. /\ IsSeq(spoken) /\ Len(spoken) = n + m
      /\ \A i \in 1..(n + m) : spoken[i] = IF i <= n THEN said[i] ELSE words[i - n]
  BY ConcatIsSeq
<1>3. DOMAIN spoken = 1..(n + m)
  BY <1>2, IsSeqIsFunction
<1> HIDE DEF spoken, n, m
<1> SUFFICES ASSUME NEW i \in 1..(n + m)
             PROVE  ItemIsRead(spoken[i])
  BY <1>3 DEF AreRead, spoken
<1>4. CASE i <= n
  <2>1. i \in DOMAIN said /\ spoken[i] = said[i]
    BY <1>1, <1>2, <1>4
  <2> QED
    BY <2>1 DEF AreRead
<1>5. CASE ~ (i <= n)
  <2>1. i - n \in DOMAIN words /\ spoken[i] = words[i - n]
    BY <1>1, <1>2, <1>5
  <2> QED
    BY <2>1 DEF AreRead
<1> QED
  BY <1>4, <1>5

\* A message of one part that is a text is read as one.
LEMMA OnePartIsRead ==
  ASSUME NEW role \in {"user", "assistant"}, NEW text \in Strings
  PROVE  ItemIsRead([type |-> "message", role |-> role,
                     content |-> <<[type |-> TextType(role), text |-> text]>>])
<1> DEFINE part == [type |-> TextType(role), text |-> text]
           content == <<part>>
           said == [type |-> "message", role |-> role, content |-> content]
<1>1. IsSeq(content) /\ DOMAIN content = {1} /\ content[1] = part /\ part.text = text
  BY OneIsSeq
<1>2. TypeOf(said) = "message" /\ said.content = content
  BY NoneAssumption DEF TypeOf
<1> HIDE DEF part, content, said
<1>3. ToSet(content) = {part}
  BY <1>1 DEF ToSet
<1>4. ContentIsRead(content)
  BY <1>1, <1>3 DEF ContentIsRead, IsSeq
<1>5. ItemIsRead(said)
  BY <1>2, <1>4 DEF ItemIsRead
<1> QED
  BY <1>5 DEF part, content, said

LEMMA InputIsRead ==
  ASSUME NEW request \in Requests
  PROVE  AreRead(InputItems(request.input))
<1> DEFINE input == request.input
<1>1. CASE input.kind = "string"
  <2> DEFINE word == [type |-> "message", role |-> "user",
                      content |-> <<[type |-> "input_text", text |-> input.text]>>]
  <2>1. InputItems(input) = <<word>> /\ input.text \in Strings
    BY <1>1, RequestsAssumption DEF InputItems
  <2>2. TextType("user") = "input_text"
    BY DEF TextType
  <2>3. ItemIsRead(word)
    BY <2>1, <2>2, OnePartIsRead
  <2> HIDE DEF word
  <2>4. DOMAIN <<word>> = {1} /\ <<word>>[1] = word
    BY OneIsSeq
  <2> QED
    BY <2>1, <2>3, <2>4 DEF AreRead
<1>2. CASE input.kind # "string"
  <2>1. InputItems(input) = input.items /\ \A item \in ToSet(input.items) : ItemIsRead(item)
    BY <1>2, RequestsAssumption DEF InputItems
  <2> QED
    BY <2>1 DEF AreRead, ToSet
<1> QED
  BY <1>1, <1>2

LEMMA ShownAreRead ==
  ASSUME NEW output \in Answers
  PROVE  AreRead(Shown(output))
<1> SUFFICES ASSUME NEW i \in DOMAIN output
             PROVE  ItemIsRead(ResponseItem(output[i].item))
  BY DEF AreRead, Shown
<1> DEFINE item == output[i].item
<1>1. \/ /\ item.kind = "message" /\ item.text \in Strings
         /\ item = Message("assistant", item.text)
      \/ item.kind = "function_call"
  BY AnswersAssumption
<1> HIDE DEF item
<1>2. CASE item.kind = "message" /\ item.text \in Strings /\ item = Message("assistant", item.text)
  <2>1. item.role = "assistant"
    BY <1>2 DEF Message
  <2>2. ResponseItem(item) = [type |-> "message", role |-> "assistant",
                              content |-> <<[type |-> "output_text", text |-> item.text]>>]
    BY <1>2, <2>1 DEF ResponseItem
  <2>3. TextType("assistant") = "output_text"
    BY DEF TextType
  <2>4. ItemIsRead([type |-> "message", role |-> "assistant",
                    content |-> <<[type |-> TextType("assistant"), text |-> item.text]>>])
    BY <1>2, OnePartIsRead
  <2> QED
    BY <2>2, <2>3, <2>4 DEF item
<1>3. CASE item.kind = "function_call"
  <2>1. ResponseItem(item) = [type |-> "function_call", name |-> item.name,
                              arguments |-> item.arguments, call_id |-> item.call_id]
    BY <1>3 DEF ResponseItem
  <2>2. TypeOf(ResponseItem(item)) = "function_call"
    BY <2>1, NoneAssumption DEF TypeOf
  <2> QED
    BY <2>2 DEF ItemIsRead, item
<1> QED
  BY <1>1, <1>2, <1>3

LEMMA SameItemsAreKept ==
  ASSUME NEW items, NEW said, SameItems(items, said), AreSupported(said), AreRead(said)
  PROVE  \A i \in 1..Len(items) : IsKept(items[i])
<1> SUFFICES ASSUME NEW i \in 1..Len(items)
             PROVE  IsKept(items[i])
  OBVIOUS
<1>1. i \in DOMAIN said /\ SameItem(items[i], said[i])
  BY IsSeqIsFunction DEF SameItems
<1> DEFINE item == Canonical(said[i])
<1>2. items[i].item = item /\ items[i].provenance = ProvenanceOf(item)
  BY <1>1 DEF SameItem
<1>3. IsStored(item)
  BY <1>1, CanonicalIsStored DEF AreSupported, AreRead
<1>4. item.kind \in {"message", "function_call", "function_call_output", "reasoning"}
  BY <1>3, StoredIsThere
<1> HIDE DEF item
<1>5. ProvenanceOf(item) \in {ModelSemi, UserTrusted, ToolOutputSemi}
  BY <1>4 DEF ProvenanceOf
<1>6. DOMAIN ProvenanceOf(item) = {"source", "trust"}
  BY <1>5 DEF ModelSemi, UserTrusted, ToolOutputSemi, Provenance
<1> QED
  BY <1>2, <1>3, <1>6, KeysAssumption DEF IsKept

-----------------------------------------------------------------------------
(* What the backend is told.                                                 *)

\* A session says what was said in its dialogue, all of which is accepted, and
\* its fingerprint is that of the dialogue sent once more.
SessionSaysTheDialogue ==
  /\ SameItems(session.items, dialogue.said)
  /\ AreSupported(dialogue.said) /\ AreRead(dialogue.said)
  /\ session # NoSession =>
       /\ session.fingerprint = Fingerprint(dialogue.request, Normalized(dialogue.said))
       /\ dialogue.request.tools \in Seq(Json)

\* So does the transcript of a turn, and the chat request is compiled of it.
TranscriptSaysTheTurn ==
  status = "asked" =>
    /\ SameItems(transcript, turn.said)
    /\ AreSupported(turn.said) /\ AreRead(turn.said)
    /\ turn.request.tools \in Seq(Json)
    /\ chat = Compiled(ModelOf(models, turn.request.model), turn.request, transcript)

DInv == SessionSaysTheDialogue /\ TranscriptSaysTheTurn

LEMMA DInvInit == Init => DInv
<1> SUFFICES ASSUME Init
             PROVE  DInv
  OBVIOUS
<1>1. session = NoSession /\ dialogue.said = <<>> /\ session.items = <<>> /\ status = "idle"
  BY DEF Init, NoSession, NoTurn
<1>2. IsSeq(<<>>) /\ Len(<<>>) = 0 /\ 1..0 = {} /\ DOMAIN <<>> = 1..0
  <2>1. IsSeq(<<>>) /\ Len(<<>>) = 0
    BY EmptyIsSeq
  <2> QED
    BY <2>1, IsSeqIsFunction
<1>3. SameItems(<<>>, <<>>) /\ AreSupported(<<>>) /\ AreRead(<<>>)
  BY <1>2 DEF SameItems, AreSupported, AreRead
<1> QED
  BY <1>1, <1>3 DEF DInv, SessionSaysTheDialogue, TranscriptSaysTheTurn

\* A request on top of items that say what was said before it.
LEMMA DInvAsk ==
  ASSUME DInv, NEW items, NEW before, NEW request, NEW said,
         SameItems(items, before), AreSupported(before), AreRead(before),
         IsSeq(InputItems(request.input)), AreRead(InputItems(request.input)),
         request.tools \in Seq(Json),
         SameItems(RequestItems(request.input), InputItems(request.input)),
         said = before \o InputItems(request.input),
         Ask(items, request, said)
  PROVE  DInv'
<1> DEFINE more == RequestItems(request.input)
           words == InputItems(request.input)
           all == items \o more
           model == ModelOf(models, request.model)
<1>1. UNCHANGED <<models, session, dialogue>> /\ status # "asked"
  BY DEF Ask
<1>2. SessionSaysTheDialogue'
  BY <1>1 DEF DInv, SessionSaysTheDialogue
<1>3. SameItems(all, said)
  BY SameItemsConcat
<1>4. CASE /\ AreSupported(words) /\ status' = "asked"
           /\ turn' = [said |-> said, request |-> request]
           /\ transcript' = all
           /\ chat' = Compiled(model, request, all)
  <2>1. AreSupported(said) /\ AreRead(said)
    <3>1. IsSeq(before) /\ IsSeq(words)
      BY DEF SameItems
    <3> QED
      BY <1>4, <3>1, SupportedConcat, ReadConcat
  <2>2. turn'.said = said /\ turn'.request = request
    BY <1>4
  <2>3. TranscriptSaysTheTurn'
    BY <1>1, <1>3, <1>4, <2>1, <2>2 DEF TranscriptSaysTheTurn
  <2> QED
    BY <1>2, <2>3 DEF DInv
<1>5. CASE status' # "asked"
  BY <1>2, <1>5 DEF DInv, TranscriptSaysTheTurn
<1>6. \/ /\ AreSupported(words) /\ status' = "asked"
         /\ turn' = [said |-> said, request |-> request]
         /\ transcript' = all
         /\ chat' = Compiled(model, request, all)
      \/ status' # "asked"
  BY DEF Ask
<1> QED
  BY <1>4, <1>5, <1>6

LEMMA DInvNext == DInv /\ [Next]_vars => DInv'
<1> SUFFICES ASSUME DInv, [Next]_vars
             PROVE  DInv'
  OBVIOUS
<1>1. /\ SameItems(session.items, dialogue.said) /\ AreSupported(dialogue.said)
      /\ AreRead(dialogue.said) /\ IsSeq(dialogue.said)
  BY DEF DInv, SessionSaysTheDialogue, SameItems
<1>2. ASSUME NEW request \in Requests
      PROVE  /\ SameItems(RequestItems(request.input), InputItems(request.input))
             /\ IsSeq(InputItems(request.input)) /\ AreRead(InputItems(request.input))
             /\ request.tools \in Seq(Json)
  <2>1. request.input.kind # "string" => IsSeq(request.input.items)
    BY RequestsAssumption DEF IsSeq
  <2> QED
    BY <2>1, RequestItemsAre, InputIsRead, RequestsAssumption DEF SameItems
<1>3. ASSUME NEW request \in Requests, Continue(request)
      PROVE  DInv'
  BY <1>1, <1>2, <1>3, DInvAsk DEF Continue
<1>4. ASSUME NEW request \in Requests, Replay(request)
      PROVE  DInv'
  <2> DEFINE said == dialogue.said \o InputItems(request.input)
             again == [request EXCEPT !.input = [kind |-> "items", items |-> said]]
  <2>1. again.input = [kind |-> "items", items |-> said] /\ again.tools = request.tools
    BY RequestsAssumption
  <2>2. IsSeq(said) /\ AreRead(said)
    BY <1>1, <1>2, ConcatIsSeq, ReadConcat
  <2> HIDE DEF said, again
  <2>3. again.input.kind # "string" /\ again.input.items = said
    BY <2>1
  <2>4. InputItems(again.input) = said
    BY <2>3 DEF InputItems
  <2>5. SameItems(RequestItems(again.input), InputItems(again.input))
    BY <2>2, <2>3, RequestItemsAre
  <2>6. Ask(<<>>, again, said)
    BY <1>4 DEF Replay, said, again
  <2>7. SameItems(<<>>, <<>>) /\ AreSupported(<<>>) /\ AreRead(<<>>) /\ <<>> \o said = said
    <3>1. IsSeq(<<>>) /\ Len(<<>>) = 0 /\ DOMAIN <<>> = 1..0 /\ 1..0 = {}
      BY EmptyIsSeq, IsSeqIsFunction
    <3>2. <<>> \o said = said
      BY <2>2, ConcatEmptySeq DEF IsSeq
    <3> QED
      BY <3>1, <3>2 DEF SameItems, AreSupported, AreRead
  <2> QED
    BY <1>2, <2>1, <2>2, <2>4, <2>5, <2>6, <2>7, DInvAsk
<1>5. ASSUME NEW output \in Answers, Complete(output)
      PROVE  DInv'
  <2> DEFINE items == Committed(output)
             said == turn.said \o Shown(output)
  <2>1. /\ status = "asked" /\ status' = "idle"
        /\ session' = [items |-> items, fingerprint |-> Fingerprint(turn.request, items)]
        /\ dialogue' = [said |-> said, request |-> turn.request]
    BY <1>5 DEF Complete, EndTurn
  <2>2. /\ SameItems(transcript, turn.said) /\ AreSupported(turn.said) /\ AreRead(turn.said)
        /\ turn.request.tools \in Seq(Json)
    BY <2>1 DEF DInv, TranscriptSaysTheTurn
  <2>3. /\ SameItems(Hashed(output), Shown(output)) /\ AreSupported(Shown(output))
        /\ AreRead(Shown(output))
    BY ShownAre, ShownAreRead
  <2>4. items = transcript \o Hashed(output)
    BY DEF Committed, Hashed
  <2> HIDE DEF items
  <2>5. SameItems(items, said)
    BY <2>2, <2>3, <2>4, SameItemsConcat
  <2>6. AreSupported(said) /\ AreRead(said)
    BY <2>2, <2>3, SupportedConcat, ReadConcat DEF SameItems
  <2> HIDE DEF said
  <2>7. SameItems(Normalized(said), said)
    BY <2>5, NormalizedAre DEF SameItems
  <2>8. Fingerprint(turn.request, items) = Fingerprint(turn.request, Normalized(said))
    BY <2>5, <2>7, FingerprintIsOfWhatIsSaid
  <2>9. /\ session'.items = items /\ session'.fingerprint = Fingerprint(turn.request, items)
        /\ dialogue'.said = said /\ dialogue'.request = turn.request
    BY <2>1
  <2>10. SessionSaysTheDialogue'
    BY <2>2, <2>5, <2>6, <2>8, <2>9 DEF SessionSaysTheDialogue
  <2> QED
    BY <2>1, <2>10 DEF DInv, TranscriptSaysTheTurn
<1>6. CASE NotComplete
  BY <1>6 DEF NotComplete, EndTurn, DInv, SessionSaysTheDialogue, TranscriptSaysTheTurn
<1>7. CASE UNCHANGED vars
  BY <1>7 DEF vars, DInv, SessionSaysTheDialogue, TranscriptSaysTheTurn
<1> QED
  BY <1>3, <1>4, <1>5, <1>6, <1>7 DEF Next

LEMMA DInvHolds == Spec => []DInv
  BY DInvInit, DInvNext, PTL DEF Spec

\* Whether a client continues by id or sends everything once more, in any order
\* of the two, the chat request is that of the whole dialogue as the client
\* knows it (drive and commit_completed, tagged_item_to_response_json,
\* normalize_items and compile_chat_request).
THEOREM ContinuingIsReplayingHolds == Spec => []ContinuingIsReplaying
<1>1. DInv => ContinuingIsReplaying
  <2> SUFFICES ASSUME DInv, status = "asked"
               PROVE  chat = Compiled(ModelOf(models, turn.request.model), turn.request,
                                      Normalized(turn.said))
    BY DEF ContinuingIsReplaying
  <2>1. SameItems(transcript, turn.said)
    BY DEF DInv, TranscriptSaysTheTurn
  <2>2. SameItems(Normalized(turn.said), turn.said)
    BY <2>1, NormalizedAre DEF SameItems
  <2> QED
    BY <2>1, <2>2, CompiledIsOfWhatIsSaid DEF DInv, TranscriptSaysTheTurn
<1> QED
  BY <1>1, DInvHolds, PTL

\* What the service has shown to a client it accepts from it again
\* (tagged_item_to_response_json and normalize_items agree).
THEOREM WhatWasSaidIsAcceptedHolds == Spec => []WhatWasSaidIsAccepted
<1>1. DInv => WhatWasSaidIsAccepted
  BY DEF DInv, SessionSaysTheDialogue, WhatWasSaidIsAccepted
<1> QED
  BY <1>1, DInvHolds, PTL

\* The fingerprint that a session was given is, whatever turns made it, the one
\* of its dialogue sent once more in a single request (commit_completed and
\* deterministic_fingerprint).
FingerprintIsThatOfAReplay ==
  session # NoSession =>
    session.fingerprint = Fingerprint(dialogue.request, Normalized(dialogue.said))

THEOREM FingerprintIsThatOfAReplayHolds == Spec => []FingerprintIsThatOfAReplay
<1>1. DInv => FingerprintIsThatOfAReplay
  BY DEF DInv, SessionSaysTheDialogue, FingerprintIsThatOfAReplay
<1> QED
  BY <1>1, DInvHolds, PTL

\* No session holds an item that lacks something: what was absent was refused
\* with the request, and what is kept of the rest is there (normalize_items).
THEOREM DialogueTypesHold == Spec => []TypeOK
<1> DEFINE TurnOK == /\ status \in {"idle", "asked", "refused", "failed"}
                     /\ status # "asked" => turn = NoTurn
<1>1. Init => TurnOK
  BY DEF Init
<1>2. ASSUME TurnOK, NEW items, NEW request, NEW said, Ask(items, request, said)
      PROVE  TurnOK'
  BY <1>2 DEF Ask
<1>3. TurnOK /\ [Next]_vars => TurnOK'
  BY <1>2 DEF Next, Continue, Replay, Complete, NotComplete, EndTurn, vars
<1>4. DInv /\ TurnOK => TypeOK
  <2> SUFFICES ASSUME DInv, NEW i \in DOMAIN session.items
               PROVE  LET item == session.items[i].item IN
                      /\ item.kind \in {"message", "function_call", "function_call_output", "reasoning"}
                      /\ \A field \in DOMAIN item : item[field] # None
    BY DEF TypeOK
  <2>1. /\ SameItems(session.items, dialogue.said) /\ AreSupported(dialogue.said)
        /\ AreRead(dialogue.said)
    BY DEF DInv, SessionSaysTheDialogue
  <2>2. i \in 1..Len(session.items)
    BY <2>1, IsSeqIsFunction DEF SameItems
  <2>3. IsStored(session.items[i].item)
    BY <2>1, <2>2, SameItemsAreKept DEF IsKept
  <2> QED
    BY <2>3, StoredIsThere
<1> QED
  BY <1>1, <1>3, <1>4, DInvHolds, PTL DEF Spec

LEMMA RemoveAtIs ==
  ASSUME NEW s, IsSeq(s), NEW i \in 1..Len(s)
  PROVE  /\ IsSeq(RemoveAt(s, i)) /\ Len(RemoveAt(s, i)) = Len(s) - 1
         /\ \A j \in 1..Len(RemoveAt(s, i)) : \E k \in 1..Len(s) : RemoveAt(s, i)[j] = s[k]
<1> DEFINE n == Len(s)
           S == {s[k] : k \in 1..n}
           x == SubSeq(s, 1, i - 1)
           y == SubSeq(s, i + 1, n)
           z == x \o y
<1>1. n \in Nat /\ i \in 1..n
  BY IsSeqIsFunction
<1>2. \A k \in 1..n : s[k] \in S
  OBVIOUS
<1> HIDE DEF S, n
<1>3. x \in Seq(S) /\ Len(x) = IF 1 <= i - 1 THEN (i - 1) - 1 + 1 ELSE 0
  <2>1. \A k \in 1..(i - 1) : s[k] \in S
    BY <1>1, <1>2
  <2>2. 1 \in Int /\ i - 1 \in Int
    BY <1>1
  <2> QED
    BY <2>1, <2>2, SubSeqProperties
<1>4. y \in Seq(S) /\ Len(y) = IF i + 1 <= n THEN n - (i + 1) + 1 ELSE 0
  <2>1. \A k \in (i + 1)..n : s[k] \in S
    BY <1>1, <1>2
  <2>2. i + 1 \in Int /\ n \in Int
    BY <1>1
  <2> QED
    BY <2>1, <2>2, SubSeqProperties
<1> HIDE DEF x, y
<1> DEFINE a == Len(x)
           b == Len(y)
<1>5. z \in Seq(S) /\ Len(z) = a + b
  BY <1>3, <1>4, ConcatProperties
<1>6. a = i - 1 /\ b = n - i
  BY <1>1, <1>3, <1>4
<1> HIDE DEF z, a, b
<1>7. Len(z) = n - 1
  BY <1>1, <1>5, <1>6
<1>8. ASSUME NEW j \in 1..Len(z)
      PROVE  \E k \in 1..n : z[j] = s[k]
  <2>1. z[j] \in S
    BY <1>5, <1>8
  <2> QED
    BY <2>1 DEF S
<1>9. IsSeq(z)
  BY <1>5, SeqIsSeq
<1>10. RemoveAt(s, i) = z
  BY DEF RemoveAt, z, x, y, n
<1> QED
  BY <1>7, <1>8, <1>9, <1>10 DEF n

\* The fingerprint of a session is that of its dialogue and of the instructions
\* and the tools of its last turn, whichever way their keys are ordered, and of
\* nothing else: others, or a dialogue that lacks an item, have another one
\* (commit_completed, deterministic_fingerprint and write_canonical_value).
THEOREM FingerprintIsOfTheDialogueHolds == Spec => []FingerprintIsOfTheDialogue
<1>1. DInv => FingerprintIsOfTheDialogue
  <2> DEFINE items == Normalized(dialogue.said)
             asked == dialogue.request
             requests == {[instructions |-> r.instructions, tools |-> r.tools] : r \in Requests}
  <2> SUFFICES ASSUME DInv, session # NoSession
               PROVE  /\ \A request \in requests :
                           (Fingerprint(request, items) = session.fingerprint) <=>
                             /\ request.instructions = asked.instructions
                             /\ Meanings(request.tools) = Meanings(asked.tools)
                      /\ \A i \in DOMAIN items :
                           Fingerprint(asked, RemoveAt(items, i)) # session.fingerprint
    BY DEF FingerprintIsOfTheDialogue
  <2>1. /\ session.fingerprint = Fingerprint(asked, items) /\ asked.tools \in Seq(Json)
        /\ AreSupported(dialogue.said) /\ AreRead(dialogue.said) /\ IsSeq(dialogue.said)
    BY DEF DInv, SessionSaysTheDialogue, SameItems
  <2>2. SameItems(items, dialogue.said)
    BY <2>1, NormalizedAre
  <2> HIDE DEF items, asked
  <2>3. IsSeq(items) /\ \A i \in 1..Len(items) : IsKept(items[i])
    BY <2>1, <2>2, SameItemsAreKept DEF SameItems
  <2>4. ASSUME NEW request \in requests
        PROVE  (Fingerprint(request, items) = session.fingerprint) <=>
                 /\ request.instructions = asked.instructions
                 /\ Meanings(request.tools) = Meanings(asked.tools)
    <3>1. request.tools \in Seq(Json)
      BY RequestsAssumption
    <3> HIDE DEF requests
    <3> QED
      BY <2>1, <2>3, <3>1, FingerprintTells
  <2>5. ASSUME NEW i \in DOMAIN items, Fingerprint(asked, RemoveAt(items, i)) = session.fingerprint
        PROVE  FALSE
    <3> DEFINE fewer == RemoveAt(items, i)
    <3>1. Len(items) \in Nat /\ i \in 1..Len(items)
      BY <2>3, IsSeqIsFunction
    <3>2. /\ IsSeq(fewer) /\ Len(fewer) = Len(items) - 1
          /\ \A j \in 1..Len(fewer) : \E k \in 1..Len(items) : fewer[j] = items[k]
      <4>1. IsSeq(items)
        BY <2>3
      <4> QED
        BY <3>1, <4>1, RemoveAtIs
    <3>3. Fingerprint(asked, fewer) = Fingerprint(asked, items)
      BY <2>1, <2>5
    <3> HIDE DEF fewer
    <3>4. \A j \in 1..Len(fewer) : IsKept(fewer[j])
      BY <2>3, <3>2
    <3>5. KeptBytes(fewer) = KeptBytes(items)
      BY <2>1, <2>3, <3>2, <3>3, <3>4, FingerprintTells
    <3>6. Len(KeptBytes(fewer)) = Len(fewer) /\ Len(KeptBytes(items)) = Len(items)
      BY <2>3, <3>2, <3>4, KeptBytesAre
    <3> QED
      BY <3>1, <3>2, <3>5, <3>6
  <2> QED
    BY <2>4, <2>5
<1> QED
  BY <1>1, DInvHolds, PTL

\* Tools that the handler has let through do not fail the turn (validate_tools
\* is not weaker than compile_tools).
THEOREM AcceptedToolsCompileHolds == Spec => []AcceptedToolsCompile
<1>1. \A tools : ToolsAreValid(tools) => ToolsCompile(tools)
  BY DEF ToolsAreValid, ToolsCompile
<1>2. Init => AcceptedToolsCompile
  BY DEF Init, AcceptedToolsCompile
<1>3. ASSUME AcceptedToolsCompile, NEW items, NEW request, NEW said, Ask(items, request, said)
      PROVE  AcceptedToolsCompile'
  <2>1. ToolsAreValid(request.tools) => ToolsCompile(request.tools)
    BY <1>1
  <2> QED
    BY <1>3, <2>1 DEF Ask, AcceptedToolsCompile
<1>4. AcceptedToolsCompile /\ [Next]_vars => AcceptedToolsCompile'
  BY <1>3 DEF Next, Continue, Replay, Complete, NotComplete, EndTurn, AcceptedToolsCompile, vars
<1> QED
  BY <1>2, <1>4, PTL DEF Spec

-----------------------------------------------------------------------------
(* The models that are listed.                                               *)

Configured(some) == IsSeq(some) /\ None \notin ToSet(some)

\* The first model of that key, and of that name.
LEMMA ServedModel ==
  ASSUME NEW some, IsSeq(some), NEW i \in 1..Len(some)
  PROVE  LET slug == some[i].public_model
             served == ModelOf(some, slug)
         IN  \E j \in 1..Len(some) :
               /\ served = some[j]
               /\ \/ served.key = slug
                  \/ j <= i /\ served.public_model = slug
<1> DEFINE slug == some[i].public_model
           keyed == {j \in DOMAIN some : some[j].key = slug}
           named == {j \in DOMAIN some : some[j].public_model = slug}
<1>1. Len(some) \in Nat /\ DOMAIN some = 1..Len(some) /\ i \in named
  BY IsSeqIsFunction
<1>2. ASSUME NEW T, T \subseteq 1..Len(some), T # {}
      PROVE  First(T) \in T /\ \A y \in T : First(T) <= y
  <2>1. T \subseteq Nat
    BY <1>1, <1>2
  <2>2. \E x \in T : \A y \in T : x <= y
    BY <1>2, <2>1, LeastNatural
  <2> QED
    BY <2>2 DEF First
<1>3. CASE keyed # {}
  <2>1. First(keyed) \in keyed /\ ModelOf(some, slug) = some[First(keyed)]
    BY <1>1, <1>2, <1>3 DEF ModelOf
  <2> QED
    BY <1>1, <2>1
<1>4. CASE keyed = {}
  <2>1. First(named) \in named /\ First(named) <= i /\ ModelOf(some, slug) = some[First(named)]
    BY <1>1, <1>2, <1>4 DEF ModelOf
  <2> QED
    BY <1>1, <2>1
<1> QED
  BY <1>3, <1>4

\* Every model that is listed can be asked, and it is that one or, as the order
\* of keys and names has it, another (models and AppConfig::model).
THEOREM ListedModelsAreServedHolds == Spec => []ListedModelsAreServed
<1>1. Init => Configured(models)
  <2> SUFFICES ASSUME NEW boot \in Boots,
                      models = Load(ConfigPath(boot.ktxd_config, boot.files), boot.files),
                      models # None
               PROVE  Configured(models)
    BY DEF Init
  <2> DEFINE path == ConfigPath(boot.ktxd_config, boot.files)
  <2> HIDE DEF path
  <2>1. \/ models = DefaultModels
        \/ path \in DOMAIN boot.files /\ models = boot.files[path]
    BY DEF Load, path
  <2>2. CASE models = DefaultModels
    <3>1. IsSeq(DefaultModels)
      BY OneIsSeq DEF DefaultModels
    <3> QED
      BY <2>2, <3>1, NoneAssumption DEF Configured
  <2>3. CASE path \in DOMAIN boot.files /\ models = boot.files[path]
    BY <2>3, BootsAssumption DEF Configured, IsSeq
  <2> QED
    BY <2>1, <2>2, <2>3
<1>2. Configured(models) /\ [Next]_vars => Configured(models)'
  BY DEF Next, Continue, Replay, Ask, Complete, NotComplete, EndTurn, vars
<1>3. Configured(models) => ListedModelsAreServed
  <2> SUFFICES ASSUME Configured(models), NEW i \in DOMAIN models
               PROVE  LET slug == Listed(models)[i]
                          served == ModelOf(models, slug)
                      IN /\ served # None
                         /\ \/ served = models[i]
                            \/ served.key = slug
                            \/ \E j \in 1..(i - 1) :
                                 models[j].public_model = slug /\ served = models[j]
    BY DEF ListedModelsAreServed
  <2> DEFINE slug == Listed(models)[i]
             served == ModelOf(models, slug)
  <2>1. Len(models) \in Nat /\ DOMAIN models = 1..Len(models) /\ i \in 1..Len(models)
    BY IsSeqIsFunction DEF Configured
  <2>2. slug = models[i].public_model
    BY DEF Listed
  <2> HIDE DEF slug
  <2>3. PICK j \in 1..Len(models) : /\ served = models[j]
                                    /\ \/ served.key = slug
                                       \/ j <= i /\ served.public_model = slug
    BY <2>1, <2>2, ServedModel DEF Configured
  <2> HIDE DEF served
  <2>4. served # None
    BY <2>1, <2>3 DEF Configured, ToSet
  <2>5. j = i \/ j \in 1..(i - 1) \/ ~ (j <= i)
    BY <2>1
  <2> QED
    BY <2>3, <2>4, <2>5 DEF slug, served
<1> QED
  BY <1>1, <1>2, <1>3, PTL DEF Spec
=============================================================================
