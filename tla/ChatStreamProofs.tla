--------------------------- MODULE ChatStreamProofs ----------------------------
(***************************************************************************)
(* What the translation of an answer makes of its pieces: for any texts,   *)
(* calls, finish reasons and counts, and streams of any length.            *)
(***************************************************************************)
EXTENDS ChatStream, Integers, SequenceTheorems, FiniteSetTheorems, WellFoundedInduction, TLAPS

-----------------------------------------------------------------------------
(* Natural numbers: the least one of a set, and induction by it.             *)

LEMMA LeastNatural ==
  ASSUME NEW T, T \subseteq Nat, T # {}
  PROVE  \E x \in T : \A y \in T : x <= y
<1> DEFINE R == OpToRel(<, Nat)
<1>1. \A x, y \in Nat : <<y, x>> \in R <=> y < x
  BY DEF OpToRel
<1>2. IsWellFoundedOn(R, Nat)
  BY NatLessThanWellFounded
<1> HIDE DEF R
<1>3. PICK x \in T : \A y \in T : ~ (<<y, x>> \in R)
  BY <1>2, WFMin
<1>4. x \in Nat /\ \A y \in T : y \in Nat /\ ~ (y < x)
  BY <1>1, <1>3
<1>5. \A y \in T : x <= y
  BY <1>4
<1> QED
  BY <1>5

LEMMA SetInduction ==
  ASSUME NEW T, 0 \in T, \A n \in Nat : n \in T => n + 1 \in T
  PROVE  \A n \in Nat : n \in T
<1> SUFFICES ASSUME Nat \ T # {}
             PROVE  FALSE
  OBVIOUS
<1>1. PICK x \in Nat \ T : \A y \in Nat \ T : x <= y
  BY LeastNatural
<1>2. x - 1 \in Nat
  BY <1>1
<1>3. x - 1 \in T
  BY <1>1, <1>2
<1> QED
  BY <1>1, <1>2, <1>3

-----------------------------------------------------------------------------
(* What sequences are joined to.                                             *)

\* The join of s up to each of its places.
IsJoin(f, s) ==
  f = [i \in 1..Len(s) |-> IF i = 1 THEN s[i] ELSE f[i - 1] \o s[i]]

LEMMA JoinIsUnique ==
  ASSUME NEW S, NEW s \in Seq(S), NEW f, NEW g, IsJoin(f, s), IsJoin(g, s)
  PROVE  \A i \in 1..Len(s) : f[i] = g[i]
<1> DEFINE T == {n \in Nat : n \in 1..Len(s) => f[n] = g[n]}
<1>1. Len(s) \in Nat
  OBVIOUS
<1>2. 0 \in T
  OBVIOUS
<1>3. ASSUME NEW n \in Nat, n \in T
      PROVE  n + 1 \in T
  <2> SUFFICES ASSUME n + 1 \in 1..Len(s)
               PROVE  f[n + 1] = g[n + 1]
    OBVIOUS
  <2>1. /\ f[n + 1] = IF n + 1 = 1 THEN s[n + 1] ELSE f[(n + 1) - 1] \o s[n + 1]
        /\ g[n + 1] = IF n + 1 = 1 THEN s[n + 1] ELSE g[(n + 1) - 1] \o s[n + 1]
    BY DEF IsJoin
  <2>2. n + 1 # 1 => n \in 1..Len(s) /\ (n + 1) - 1 = n
    BY <1>1
  <2>3. n + 1 # 1 => f[n] = g[n]
    BY <1>3, <2>2
  <2> QED
    BY <2>1, <2>2, <2>3
<1> HIDE DEF T
<1>4. \A n \in Nat : n \in T
  BY <1>2, <1>3, SetInduction
<1> QED
  BY <1>1, <1>4 DEF T

LEMMA JoinExists ==
  ASSUME NEW L, NEW s \in Seq(Seq(L))
  PROVE  \E f \in [1..Len(s) -> Seq(L)] : IsJoin(f, s)
<1> DEFINE Q == Seq(L)
           Joins(n) == \A r \in [1..n -> Q] : \E f \in [1..n -> Q] :
                         \A i \in 1..n : f[i] = IF i = 1 THEN r[i] ELSE f[i - 1] \o r[i]
           T == {n \in Nat : Joins(n)}
<1>1. \A x, y \in Q : x \o y \in Q
  OBVIOUS
<1> HIDE DEF Q
<1>2. 0 \in T
  <2>1. \A r \in [1..0 -> Q] : r \in [1..0 -> Q] /\ 1..0 = {}
    OBVIOUS
  <2> QED
    BY <2>1
<1>3. ASSUME NEW n \in Nat, n \in T
      PROVE  n + 1 \in T
  <2> SUFFICES ASSUME NEW r \in [1..(n + 1) -> Q]
               PROVE  \E g \in [1..(n + 1) -> Q] :
                        \A i \in 1..(n + 1) : g[i] = IF i = 1 THEN r[i] ELSE g[i - 1] \o r[i]
    <3>1. Joins(n + 1) => n + 1 \in T
      <4> HIDE DEF Joins
      <4> QED
        OBVIOUS
    <3> QED
      BY <3>1
  <2>1. [i \in 1..n |-> r[i]] \in [1..n -> Q]
    OBVIOUS
  <2>2. PICK f \in [1..n -> Q] :
          \A i \in 1..n : f[i] = IF i = 1 THEN r[i] ELSE f[i - 1] \o r[i]
    <3> DEFINE q == [j \in 1..n |-> r[j]]
    <3>1. PICK f \in [1..n -> Q] : \A i \in 1..n : f[i] = IF i = 1 THEN q[i] ELSE f[i - 1] \o q[i]
      BY <1>3, <2>1
    <3>2. \A i \in 1..n : q[i] = r[i]
      OBVIOUS
    <3> HIDE DEF q
    <3> QED
      BY <3>1, <3>2
  <2> DEFINE g == [i \in 1..(n + 1) |-> IF i <= n THEN f[i]
                                        ELSE IF i = 1 THEN r[i] ELSE f[i - 1] \o r[i]]
  <2>3. \A i \in 1..(n + 1) : g[i] \in Q
    <3> SUFFICES ASSUME NEW i \in 1..(n + 1)
                 PROVE  g[i] \in Q
      OBVIOUS
    <3>1. CASE i <= n
      BY <3>1
    <3>2. CASE ~ (i <= n) /\ i = 1
      BY <3>2
    <3>3. CASE ~ (i <= n) /\ i # 1
      <4>1. i - 1 \in 1..n
        BY <3>3
      <4>2. f[i - 1] \in Q /\ r[i] \in Q
        BY <4>1
      <4> QED
        BY <1>1, <3>3, <4>2
    <3> QED
      BY <3>1, <3>2, <3>3
  <2>4. \A i \in 1..(n + 1) : g[i] = IF i = 1 THEN r[i] ELSE g[i - 1] \o r[i]
    <3> SUFFICES ASSUME NEW i \in 1..(n + 1)
                 PROVE  g[i] = IF i = 1 THEN r[i] ELSE g[i - 1] \o r[i]
      OBVIOUS
    <3>1. i # 1 => i - 1 \in 1..(n + 1) /\ i - 1 <= n
      OBVIOUS
    <3>2. i # 1 => g[i - 1] = f[i - 1]
      BY <3>1
    <3>3. ASSUME i <= n
          PROVE  f[i] = IF i = 1 THEN r[i] ELSE f[i - 1] \o r[i]
      <4>1. i \in 1..n
        BY <3>3
      <4> QED
        BY <2>2, <4>1
    <3> QED
      BY <3>2, <3>3
  <2>5. g = [i \in 1..(n + 1) |-> g[i]]
    OBVIOUS
  <2> HIDE DEF g
  <2>6. g \in [1..(n + 1) -> Q]
    BY <2>3, <2>5
  <2> QED
    BY <2>4, <2>6
<1> HIDE DEF T
<1>4. Len(s) \in Nat /\ s \in [1..Len(s) -> Q]
  BY LenProperties DEF Q
<1>5. Len(s) \in T
  BY <1>2, <1>3, <1>4, SetInduction
<1>6. PICK f \in [1..Len(s) -> Q] :
        \A i \in 1..Len(s) : f[i] = IF i = 1 THEN s[i] ELSE f[i - 1] \o s[i]
  BY <1>4, <1>5 DEF T
<1>7. f = [i \in 1..Len(s) |-> IF i = 1 THEN s[i] ELSE f[i - 1] \o s[i]]
  BY <1>6
<1> QED
  BY <1>6, <1>7 DEF Q, IsJoin

LEMMA FlattenIsJoin ==
  ASSUME NEW L, NEW s \in Seq(Seq(L)), Len(s) # 0, NEW f, IsJoin(f, s)
  PROVE  FlattenSeq(s) = f[Len(s)]
<1> DEFINE g == CHOOSE h : h = [i \in 1..Len(s) |-> IF i = 1 THEN s[i] ELSE h[i - 1] \o s[i]]
<1>1. IsJoin(g, s)
  BY DEF IsJoin
<1>2. FlattenSeq(s) = g[Len(s)]
  BY DEF FlattenSeq
<1> HIDE DEF g
<1>3. Len(s) \in 1..Len(s)
  OBVIOUS
<1> QED
  BY <1>1, <1>2, <1>3, JoinIsUnique

LEMMA FlattenType ==
  ASSUME NEW L, NEW s \in Seq(Seq(L))
  PROVE  FlattenSeq(s) \in Seq(L)
<1>1. CASE Len(s) = 0
  <2>1. FlattenSeq(s) = s /\ s = <<>>
    BY <1>1, EmptySeq DEF FlattenSeq
  <2> QED
    BY <2>1
<1>2. CASE Len(s) # 0
  <2>1. PICK f \in [1..Len(s) -> Seq(L)] : IsJoin(f, s)
    BY JoinExists
  <2>2. FlattenSeq(s) = f[Len(s)]
    BY <1>2, <2>1, FlattenIsJoin
  <2>3. Len(s) \in 1..Len(s)
    BY <1>2
  <2> QED
    BY <2>2, <2>3
<1> QED
  BY <1>1, <1>2

\* What comes last is joined last.
LEMMA FlattenAppend ==
  ASSUME NEW L, NEW s \in Seq(Seq(L)), NEW x \in Seq(L)
  PROVE  FlattenSeq(Append(s, x)) = FlattenSeq(s) \o x
<1> DEFINE n == Len(s)
           r == Append(s, x)
<1>1. /\ n \in Nat /\ r \in Seq(Seq(L)) /\ Len(r) = n + 1 /\ r[n + 1] = x
      /\ \A i \in 1..n : r[i] = s[i]
  OBVIOUS
<1> HIDE DEF r
<1>2. PICK f \in [1..(n + 1) -> Seq(L)] : IsJoin(f, r)
  BY <1>1, JoinExists
<1>3. FlattenSeq(r) = f[n + 1]
  BY <1>1, <1>2, FlattenIsJoin
<1>4. f = [i \in 1..(n + 1) |-> IF i = 1 THEN r[i] ELSE f[i - 1] \o r[i]]
  BY <1>1, <1>2 DEF IsJoin
<1>5. CASE n = 0
  <2>1. s = <<>> /\ FlattenSeq(s) = <<>>
    BY <1>5, EmptySeq DEF FlattenSeq
  <2>2. f[n + 1] = x
    BY <1>1, <1>4, <1>5
  <2> QED
    BY <1>3, <2>1, <2>2, ConcatEmptySeq DEF r
<1>6. CASE n # 0
  <2> DEFINE g == [i \in 1..n |-> f[i]]
  <2>1. \A i \in 1..n : g[i] = IF i = 1 THEN s[i] ELSE g[i - 1] \o s[i]
    <3> SUFFICES ASSUME NEW i \in 1..n
                 PROVE  g[i] = IF i = 1 THEN s[i] ELSE g[i - 1] \o s[i]
      OBVIOUS
    <3>1. i \in 1..(n + 1) /\ (i # 1 => i - 1 \in 1..n)
      BY <1>1
    <3>2. g[i] = f[i] /\ (i # 1 => g[i - 1] = f[i - 1])
      BY <3>1
    <3>3. f[i] = IF i = 1 THEN r[i] ELSE f[i - 1] \o r[i]
      BY <1>4, <3>1
    <3> QED
      BY <1>1, <3>2, <3>3
  <2>2. g = [i \in 1..n |-> g[i]]
    OBVIOUS
  <2>3. g[n] = f[n]
    BY <1>1, <1>6
  <2> HIDE DEF g
  <2>4. IsJoin(g, s)
    BY <2>1, <2>2 DEF IsJoin
  <2>5. FlattenSeq(s) = g[n]
    BY <1>6, <2>4, FlattenIsJoin
  <2>6. n + 1 \in 1..(n + 1) /\ n + 1 # 1 /\ (n + 1) - 1 = n
    BY <1>1, <1>6
  <2>7. f[n + 1] = f[n] \o x
    BY <1>1, <1>4, <2>6
  <2> QED
    BY <1>3, <2>3, <2>5, <2>7 DEF r
<1> QED
  BY <1>5, <1>6

-----------------------------------------------------------------------------
(* The order of numbers: how many of a set are smaller.                      *)

Below(T, i) == {j \in T : j < i}

LEMMA BelowIsFinite ==
  ASSUME NEW T, IsFiniteSet(T), NEW i
  PROVE  IsFiniteSet(Below(T, i)) /\ Cardinality(Below(T, i)) \in Nat
<1>1. Below(T, i) \in SUBSET T
  BY DEF Below
<1> QED
  BY <1>1, FS_Subset, FS_CardinalityType

LEMMA RankExists ==
  ASSUME NEW T \in SUBSET Nat, IsFiniteSet(T), NEW n \in 1..Cardinality(T)
  PROVE  \E i \in T : Cardinality(Below(T, i)) = n - 1
<1> DEFINE Ranked(m) == \A U \in SUBSET Nat : IsFiniteSet(U) /\ Cardinality(U) = m =>
                          \A k \in 1..m : \E i \in U : Cardinality(Below(U, i)) = k - 1
           M == {m \in Nat : Ranked(m)}
<1>1. 0 \in M
  OBVIOUS
<1>2. ASSUME NEW m \in Nat, m \in M
      PROVE  m + 1 \in M
  <2> SUFFICES ASSUME NEW U \in SUBSET Nat, IsFiniteSet(U), Cardinality(U) = m + 1,
                      NEW k \in 1..(m + 1)
               PROVE  \E i \in U : Cardinality(Below(U, i)) = k - 1
    <3>1. Ranked(m + 1) => m + 1 \in M
      <4> HIDE DEF Ranked
      <4> QED
        OBVIOUS
    <3> QED
      BY <3>1
  <2>1. U # {}
    BY FS_EmptySet
  <2>2. PICK x \in U : \A y \in U : x <= y
    BY <2>1, LeastNatural
  <2> DEFINE V == U \ {x}
  <2>3. V \in SUBSET Nat /\ IsFiniteSet(V) /\ Cardinality(V) = m
    <3>1. IsFiniteSet(V) /\ Cardinality(V) = Cardinality(U) - 1
      BY <2>2, FS_RemoveElement
    <3> QED
      BY <3>1
  <2>4. CASE k = 1
    <3>1. \A j \in U : ~ (j < x)
      BY <2>2
    <3>2. Below(U, x) = {}
      BY <3>1 DEF Below
    <3>3. k - 1 = 0 /\ Cardinality({}) = 0
      BY <2>4, FS_EmptySet
    <3> QED
      BY <3>2, <3>3
  <2>5. CASE k # 1
    <3>1. k - 1 \in 1..m
      BY <2>5
    <3>2. PICK i \in V : Cardinality(Below(V, i)) = (k - 1) - 1
      BY <1>2, <2>3, <3>1
    <3>3. i \in U /\ x # i /\ x < i
      BY <2>2, <3>2
    <3>4. Below(U, i) = Below(V, i) \cup {x} /\ x \notin Below(V, i)
      BY <3>3 DEF Below
    <3>5. IsFiniteSet(Below(V, i))
      BY <2>3, BelowIsFinite
    <3>6. Cardinality(Below(U, i)) = Cardinality(Below(V, i)) + 1
      BY <3>4, <3>5, FS_AddElement
    <3>7. Cardinality(Below(U, i)) = k - 1
      BY <3>2, <3>6
    <3> QED
      BY <3>3, <3>7
  <2> QED
    BY <2>4, <2>5
<1> HIDE DEF M
<1>3. Cardinality(T) \in M
  BY <1>1, <1>2, FS_CardinalityType, SetInduction
<1> QED
  BY <1>3 DEF M

LEMMA RankIsUnique ==
  ASSUME NEW T \in SUBSET Nat, IsFiniteSet(T), NEW i \in T, NEW k \in T,
         Cardinality(Below(T, i)) = Cardinality(Below(T, k))
  PROVE  i = k
<1>1. ASSUME NEW a \in T, NEW b \in T, a < b
      PROVE  Cardinality(Below(T, a)) < Cardinality(Below(T, b))
  <2>1. /\ IsFiniteSet(Below(T, a)) /\ Cardinality(Below(T, a)) \in Nat
        /\ IsFiniteSet(Below(T, b)) /\ Cardinality(Below(T, b)) \in Nat
    BY BelowIsFinite
  <2>2. Below(T, a) \cup {a} \in SUBSET Below(T, b) /\ a \notin Below(T, a)
    <3>1. a \in Nat /\ b \in Nat /\ ~ (a < a)
      OBVIOUS
    <3>2. \A j \in T : j \in Nat /\ (j < a => j < b)
      BY <1>1, <3>1
    <3> QED
      BY <1>1, <3>1, <3>2 DEF Below
  <2>3. Cardinality(Below(T, a) \cup {a}) = Cardinality(Below(T, a)) + 1
    BY <2>1, <2>2, FS_AddElement
  <2>4. Cardinality(Below(T, a) \cup {a}) <= Cardinality(Below(T, b))
    BY <2>1, <2>2, FS_Subset
  <2> QED
    BY <2>1, <2>3, <2>4
<1>2. Cardinality(Below(T, i)) \in Nat
  BY BelowIsFinite
<1>3. ~ (i < k) /\ ~ (k < i)
  BY <1>1, <1>2
<1> QED
  BY <1>3

-----------------------------------------------------------------------------
(* What a piece adds.                                                        *)

Pieces ==
  [kind : {"content"}, value : Contents] \cup [kind : {"tool_call"}, value : ToolCalls]
    \cup [kind : {"finish_reason"}, value : Reasons] \cup [kind : {"usage"}, value : Usages]

LEMMA PieceAdded ==
  ASSUME pieces \in Seq(Pieces), NEW kind, NEW value, [kind |-> kind, value |-> value] \in Pieces,
         Piece(kind, value)
  PROVE  LET n == Len(pieces) IN
         /\ n \in Nat /\ DOMAIN pieces = 1..n /\ DOMAIN pieces' = 1..(n + 1)
         /\ pieces' \in Seq(Pieces)
         /\ \A i \in 1..n : pieces'[i] = pieces[i]
         /\ pieces'[n + 1].kind = kind /\ pieces'[n + 1].value = value
         /\ \A k : PiecesOf(k)' = IF k = kind THEN PiecesOf(k) \cup {n + 1} ELSE PiecesOf(k)
         /\ \A k : PiecesOf(k) \subseteq 1..n
<1> DEFINE n == Len(pieces)
           piece == [kind |-> kind, value |-> value]
<1>1. pieces' = Append(pieces, piece)
  BY DEF Piece
<1>2. piece.kind = kind /\ piece.value = value
  OBVIOUS
<1> HIDE DEF piece
<1>3. /\ n \in Nat /\ DOMAIN pieces = 1..n /\ DOMAIN pieces' = 1..(n + 1)
      /\ pieces' \in Seq(Pieces)
      /\ \A i \in 1..n : pieces'[i] = pieces[i]
      /\ pieces'[n + 1] = piece
  BY <1>1 DEF piece
<1> HIDE DEF n
<1>4. ASSUME NEW k
      PROVE  /\ PiecesOf(k)' = IF k = kind THEN PiecesOf(k) \cup {n + 1} ELSE PiecesOf(k)
             /\ PiecesOf(k) \subseteq 1..n
  <2>1. PiecesOf(k)' = {i \in 1..(n + 1) : pieces'[i].kind = k}
    BY <1>3 DEF PiecesOf
  <2>2. PiecesOf(k) = {i \in 1..n : pieces[i].kind = k}
    BY <1>3 DEF PiecesOf
  <2>3. 1..(n + 1) = 1..n \cup {n + 1}
    BY <1>3
  <2> QED
    BY <1>2, <1>3, <2>1, <2>2, <2>3
<1> QED
  BY <1>2, <1>3, <1>4 DEF n

LEMMA GreatestNatural ==
  ASSUME NEW n \in Nat, NEW T \in SUBSET (1..n), T # {}
  PROVE  Max(T) \in T /\ \A y \in T : Max(T) >= y
<1>1. PICK z \in {n - x : x \in T} : \A y \in {n - x : x \in T} : z <= y
  <2>1. \A x \in T : n - x \in Nat
    OBVIOUS
  <2>2. {n - x : x \in T} \subseteq Nat /\ {n - x : x \in T} # {}
    BY <2>1
  <2> QED
    BY <2>2, LeastNatural
<1>2. PICK x \in T : z = n - x
  OBVIOUS
<1>3. \A y \in T : x >= y
  <2> SUFFICES ASSUME NEW y \in T
               PROVE  x >= y
    OBVIOUS
  <2>1. n - x <= n - y
    BY <1>1, <1>2
  <2> QED
    BY <2>1
<1> QED
  BY <1>3 DEF Max

LEMMA LastAdded ==
  ASSUME pieces \in Seq(Pieces), NEW kind, NEW value, [kind |-> kind, value |-> value] \in Pieces,
         Piece(kind, value)
  PROVE  \A k : LastOf(k)' = IF k = kind THEN value ELSE LastOf(k)
<1> DEFINE n == Len(pieces)
<1>1. /\ n \in Nat
      /\ \A i \in 1..n : pieces'[i] = pieces[i]
      /\ pieces'[n + 1].value = value
      /\ \A k : PiecesOf(k)' = IF k = kind THEN PiecesOf(k) \cup {n + 1} ELSE PiecesOf(k)
      /\ \A k : PiecesOf(k) \subseteq 1..n
  BY PieceAdded
<1> HIDE DEF n
<1> SUFFICES ASSUME NEW k
             PROVE  LastOf(k)' = IF k = kind THEN value ELSE LastOf(k)
  OBVIOUS
<1> DEFINE those == PiecesOf(k)
<1>2. LastOf(k) = IF those = {} THEN None ELSE pieces[Max(those)].value
  BY DEF LastOf
<1>3. LastOf(k)' = IF those' = {} THEN None ELSE pieces'[Max(those')].value
  BY DEF LastOf
<1>4. those \subseteq 1..n /\ those' = IF k = kind THEN those \cup {n + 1} ELSE those
  BY <1>1
<1> HIDE DEF those
<1>5. CASE k = kind
  <2> DEFINE now == those'
  <2>1. now \in SUBSET (1..(n + 1)) /\ n + 1 \in now
    <3>1. now = those \cup {n + 1}
      BY <1>4, <1>5
    <3>2. 1..n \subseteq 1..(n + 1) /\ n + 1 \in 1..(n + 1)
      BY <1>1
    <3> QED
      BY <1>4, <3>1, <3>2
  <2> HIDE DEF now
  <2>2. n + 1 \in Nat /\ now # {}
    BY <1>1, <2>1
  <2>3. Max(now) \in now /\ Max(now) >= n + 1
    BY <2>1, <2>2, GreatestNatural
  <2>4. Max(now) \in 1..(n + 1)
    BY <2>1, <2>3
  <2>5. Max(those') = n + 1 /\ those' # {}
    BY <1>1, <2>2, <2>3, <2>4 DEF now
  <2> QED
    BY <1>1, <1>3, <1>5, <2>5
<1>6. CASE k # kind
  <2>1. those # {} => Max(those) \in 1..n
    BY <1>1, <1>4, GreatestNatural
  <2> QED
    BY <1>1, <1>2, <1>3, <1>4, <1>6, <2>1
<1> QED
  BY <1>5, <1>6

LEMMA FunctionIsSeq ==
  ASSUME NEW S, NEW n \in Nat, NEW f \in [1..n -> S]
  PROVE  f \in Seq(S) /\ Len(f) = n /\ DOMAIN f = 1..n
OBVIOUS

LEMMA FlattenLonger ==
  ASSUME NEW L, NEW n \in Nat, NEW f \in [1..n -> Seq(L)], NEW g \in [1..(n + 1) -> Seq(L)],
         \A i \in 1..n : g[i] = f[i]
  PROVE  FlattenSeq(g) = FlattenSeq(f) \o g[n + 1]
<1> DEFINE Q == Seq(L)
           x == g[n + 1]
<1>1. f \in [1..n -> Q] /\ g \in [1..(n + 1) -> Q]
  OBVIOUS
<1> HIDE DEF Q
<1>2. f \in Seq(Q) /\ Len(f) = n
  BY <1>1, FunctionIsSeq
<1>3. g \in Seq(Q) /\ Len(g) = n + 1 /\ n + 1 \in Nat
  BY <1>1, FunctionIsSeq
<1>4. x \in Q
  BY <1>1
<1>5. /\ Append(f, x) \in Seq(Q) /\ Len(Append(f, x)) = n + 1
      /\ \A i \in 1..(n + 1) : Append(f, x)[i] = IF i <= n THEN f[i] ELSE x
  <2> HIDE DEF x
  <2> QED
    BY <1>2, <1>4
<1>6. \A i \in 1..(n + 1) : g[i] = IF i <= n THEN f[i] ELSE x
  <2>1. \A i \in 1..(n + 1) : (i <= n => i \in 1..n) /\ (~ (i <= n) => i = n + 1)
    OBVIOUS
  <2> QED
    BY <2>1
<1>7. g = Append(f, x)
  BY <1>3, <1>5, <1>6, SeqEqual
<1> HIDE DEF x
<1>8. FlattenSeq(Append(f, x)) = FlattenSeq(f) \o x
  BY <1>2, <1>4, FlattenAppend DEF Q
<1> QED
  BY <1>7, <1>8 DEF x

LEMMA PieceValues ==
  ASSUME pieces \in Seq(Pieces), NEW i \in DOMAIN pieces
  PROVE  /\ pieces[i].kind = "content" => pieces[i].value \in Contents
         /\ pieces[i].kind = "tool_call" => pieces[i].value \in ToolCalls
         /\ pieces[i].kind = "finish_reason" => pieces[i].value \in Reasons
         /\ pieces[i].kind = "usage" => pieces[i].value \in Usages
<1>1. pieces[i] \in Pieces
  BY ElementOfSeq, LenProperties
<1> QED
  BY <1>1 DEF Pieces

LEMMA TextAdded ==
  ASSUME pieces \in Seq(Pieces), NEW kind, NEW value, [kind |-> kind, value |-> value] \in Pieces,
         Piece(kind, value)
  PROVE  /\ TextOfPieces \in Seq(Letters)
         /\ kind = "content" => TextOfPieces' = TextOfPieces \o value
         /\ kind # "content" => TextOfPieces' = TextOfPieces
<1> DEFINE n == Len(pieces)
           f == [i \in DOMAIN pieces |->
                   IF i \in PiecesOf("content") THEN pieces[i].value ELSE <<>>]
           x == IF kind = "content" THEN value ELSE <<>>
<1>1. /\ n \in Nat /\ DOMAIN pieces = 1..n /\ DOMAIN pieces' = 1..(n + 1)
      /\ \A i \in 1..n : pieces'[i] = pieces[i]
      /\ pieces'[n + 1].value = value
      /\ PiecesOf("content")' = IF "content" = kind THEN PiecesOf("content") \cup {n + 1}
                                ELSE PiecesOf("content")
      /\ PiecesOf("content") \subseteq 1..n
  BY PieceAdded
<1>2. x \in Seq(Letters)
  <2>1. kind = "content" => value \in Contents
    BY DEF Pieces
  <2>2. <<>> \in Seq(Letters)
    BY EmptySeq
  <2> QED
    BY <2>1, <2>2, FragmentsAssumption
<1>3. \A i \in 1..n : i \in PiecesOf("content") => pieces[i].value \in Seq(Letters)
  BY <1>1, PieceValues, FragmentsAssumption DEF PiecesOf
<1> HIDE DEF n
<1>4. \A i \in 1..n : f[i] \in Seq(Letters)
  BY <1>1, <1>3, EmptySeq
<1>5. f = [i \in 1..n |-> f[i]] /\ f \in [1..n -> Seq(Letters)]
  BY <1>1, <1>4
<1> DEFINE g == f'
<1>6. /\ g = [i \in 1..(n + 1) |-> g[i]]
      /\ \A i \in 1..(n + 1) :
           g[i] = IF i \in PiecesOf("content")' THEN pieces'[i].value ELSE <<>>
  BY <1>1
<1>7. \A i \in 1..n : g[i] = f[i]
  <2>1. \A i \in 1..n : i \in 1..(n + 1) /\ i # n + 1
    BY <1>1
  <2> QED
    BY <1>1, <1>6, <2>1
<1>8. g[n + 1] = x
  <2>1. n + 1 \in 1..(n + 1) /\ n + 1 \notin 1..n
    BY <1>1
  <2> QED
    BY <1>1, <1>6, <2>1
<1>9. TextOfPieces = FlattenSeq(f) /\ TextOfPieces' = FlattenSeq(g)
  BY DEF TextOfPieces
<1>10. kind # "content" => x = <<>>
  OBVIOUS
<1>11. kind = "content" => x = value
  OBVIOUS
<1> HIDE DEF f, g, x
<1>12. f \in Seq(Seq(Letters))
  BY <1>1, <1>5, FunctionIsSeq
<1>13. FlattenSeq(f) \in Seq(Letters)
  BY <1>12, FlattenType
<1>14. FlattenSeq(g) = FlattenSeq(f) \o x
  <2>1. \A i \in 1..(n + 1) : g[i] \in Seq(Letters)
    <3>1. \A i \in 1..(n + 1) : i \in 1..n \/ i = n + 1
      BY <1>1
    <3> QED
      BY <1>2, <1>4, <1>7, <1>8, <3>1
  <2>2. g \in [1..(n + 1) -> Seq(Letters)]
    BY <1>6, <2>1
  <2>3. FlattenSeq(g) = FlattenSeq(f) \o g[n + 1]
    BY <1>1, <1>5, <1>7, <2>2, FlattenLonger
  <2> QED
    BY <1>8, <2>3
<1> QED
  BY <1>9, <1>10, <1>11, <1>13, <1>14, ConcatEmptySeq

LEMMA CallAdded ==
  ASSUME pieces \in Seq(Pieces), NEW kind, NEW value, [kind |-> kind, value |-> value] \in Pieces,
         Piece(kind, value), NEW index
  PROVE  LET fits == kind = "tool_call" /\ IndexOf(value) = index IN
         /\ Indexes' = IF kind = "tool_call" THEN Indexes \cup {IndexOf(value)} ELSE Indexes
         /\ Ids(index)' = IF fits THEN Ids(index) \cup ({value.id} \ {None}) ELSE Ids(index)
         /\ Names(index)' = IF fits THEN Names(index) \cup ({value.name} \ {None}) ELSE Names(index)
         /\ Arguments(index) \in Seq(Letters)
         /\ Arguments(index)' = IF fits THEN Arguments(index) \o value.arguments
                                ELSE Arguments(index)
<1> DEFINE n == Len(pieces)
           fits == kind = "tool_call" /\ IndexOf(value) = index
           those == PiecesOf("tool_call")
           mine == FragmentsOf(index)
           f == [i \in DOMAIN pieces |->
                   IF i \in FragmentsOf(index) THEN pieces[i].value.arguments ELSE <<>>]
           x == IF fits THEN value.arguments ELSE <<>>
<1>1. /\ n \in Nat /\ DOMAIN pieces = 1..n /\ DOMAIN pieces' = 1..(n + 1)
      /\ \A i \in 1..n : pieces'[i] = pieces[i]
      /\ pieces'[n + 1].value = value
      /\ those' = IF "tool_call" = kind THEN those \cup {n + 1} ELSE those
      /\ those \subseteq 1..n
  BY PieceAdded
<1> HIDE DEF n
<1>2. n + 1 \notin those /\ n + 1 \in 1..(n + 1) /\ \A i \in 1..n : i \in 1..(n + 1) /\ i # n + 1
  BY <1>1
<1>3. /\ mine = {i \in those : IndexOf(pieces[i].value) = index}
      /\ mine' = {i \in those' : IndexOf(pieces'[i].value) = index}
  BY DEF FragmentsOf
<1>4. \A i \in those : pieces'[i] = pieces[i]
  BY <1>1
<1> HIDE DEF those
<1>5. mine' = IF fits THEN mine \cup {n + 1} ELSE mine
  BY <1>1, <1>2, <1>3, <1>4
<1>6. mine \subseteq those /\ mine \subseteq 1..n
  BY <1>1, <1>3
<1>7. \A i \in mine : pieces'[i] = pieces[i]
  BY <1>4, <1>6
<1>8. Indexes' = IF kind = "tool_call" THEN Indexes \cup {IndexOf(value)} ELSE Indexes
  <2>1. Indexes = {IndexOf(pieces[i].value) : i \in those}
    BY DEF Indexes, those
  <2>2. Indexes' = {IndexOf(pieces'[i].value) : i \in those'}
    BY DEF Indexes, those
  <2> QED
    BY <1>1, <1>4, <2>1, <2>2
<1> HIDE DEF mine
<1>9. Ids(index)' = IF fits THEN Ids(index) \cup ({value.id} \ {None}) ELSE Ids(index)
  <2>1. /\ Ids(index) = {pieces[i].value.id : i \in mine} \ {None}
        /\ Ids(index)' = {pieces'[i].value.id : i \in mine'} \ {None}
    BY DEF Ids, mine
  <2> QED
    BY <1>1, <1>5, <1>7, <2>1
<1>10. Names(index)' = IF fits THEN Names(index) \cup ({value.name} \ {None}) ELSE Names(index)
  <2>1. /\ Names(index) = {pieces[i].value.name : i \in mine} \ {None}
        /\ Names(index)' = {pieces'[i].value.name : i \in mine'} \ {None}
    BY DEF Names, mine
  <2> QED
    BY <1>1, <1>5, <1>7, <2>1
<1>11. x \in Seq(Letters)
  <2>1. kind = "tool_call" => value \in ToolCalls
    BY DEF Pieces
  <2>2. <<>> \in Seq(Letters)
    BY EmptySeq
  <2> QED
    BY <2>1, <2>2, FragmentsAssumption
<1>12. \A i \in 1..n : i \in mine => pieces[i].value.arguments \in Seq(Letters)
  <2>1. \A i \in mine : pieces[i].kind = "tool_call"
    BY <1>6 DEF those, PiecesOf
  <2> QED
    BY <1>1, <2>1, PieceValues, FragmentsAssumption
<1>13. /\ f = [i \in 1..n |-> f[i]]
       /\ \A i \in 1..n : f[i] = IF i \in mine THEN pieces[i].value.arguments ELSE <<>>
  BY <1>1 DEF mine
<1> DEFINE g == f'
<1>14. /\ g = [i \in 1..(n + 1) |-> g[i]]
       /\ \A i \in 1..(n + 1) :
            g[i] = IF i \in mine' THEN pieces'[i].value.arguments ELSE <<>>
  BY <1>1 DEF mine
<1>15. Arguments(index) = FlattenSeq(f) /\ Arguments(index)' = FlattenSeq(g)
  BY DEF Arguments
<1> HIDE DEF f, g
<1>16. \A i \in 1..n : f[i] \in Seq(Letters)
  BY <1>12, <1>13, EmptySeq
<1>17. \A i \in 1..n : g[i] = f[i]
  BY <1>1, <1>2, <1>5, <1>13, <1>14
<1>18. g[n + 1] = x
  <2>1. n + 1 \notin mine
    BY <1>2, <1>6
  <2> QED
    BY <1>1, <1>2, <1>5, <1>14, <2>1
<1>19. ~ fits => x = <<>>
  OBVIOUS
<1>20. fits => x = value.arguments
  OBVIOUS
<1> HIDE DEF x
<1>21. f \in [1..n -> Seq(Letters)]
  BY <1>13, <1>16
<1>22. f \in Seq(Seq(Letters))
  BY <1>1, <1>21, FunctionIsSeq
<1>23. FlattenSeq(f) \in Seq(Letters)
  BY <1>22, FlattenType
<1>24. FlattenSeq(g) = FlattenSeq(f) \o x
  <2>1. \A i \in 1..(n + 1) : g[i] \in Seq(Letters)
    <3>1. \A i \in 1..(n + 1) : i \in 1..n \/ i = n + 1
      BY <1>1
    <3> QED
      BY <1>11, <1>16, <1>17, <1>18, <3>1
  <2>2. g \in [1..(n + 1) -> Seq(Letters)]
    BY <1>14, <2>1
  <2>3. FlattenSeq(g) = FlattenSeq(f) \o g[n + 1]
    BY <1>1, <1>17, <1>21, <2>2, FlattenLonger
  <2> QED
    BY <1>18, <2>3
<1>25. Arguments(index)' = IF fits THEN Arguments(index) \o value.arguments ELSE Arguments(index)
  BY <1>15, <1>19, <1>20, <1>23, <1>24, ConcatEmptySeq
<1> QED
  BY <1>8, <1>9, <1>10, <1>15, <1>23, <1>25

-----------------------------------------------------------------------------
(* What is known of a stream while it is read.                               *)

TextIsRead == text = TextOfPieces /\ text_added = (text # <<>>)

\* A builder has what the fragments of its call give; where there are none
\* yet, it is a new one.
BuilderIsRead(index) ==
  /\ Ids(index) = {Builder(index).id} \ {None}
  /\ Names(index) = {Builder(index).name} \ {None}
  /\ Builder(index).arguments = Arguments(index)

CallsAreRead == DOMAIN tool_calls = Indexes /\ \A index : BuilderIsRead(index)

UsageIsRead ==
  usage = IF LastOf("usage") = None THEN NoUsage ELSE UsageFromChat(LastOf("usage"))

ReadInv ==
  /\ pieces \in Seq(Pieces)
  /\ TextIsRead
  /\ CallsAreRead
  /\ finish_reason = LastReason
  /\ UsageIsRead

RInv == result = Reading => ReadInv

LEMMA StatusesDiffer == Reading # Malformed /\ Reading.status = "reading" /\ Malformed.status = "malformed"
BY DEF Reading, Malformed

LEMMA ReadInit == Init => RInv
<1> SUFFICES ASSUME Init
             PROVE  ReadInv
  BY DEF RInv
<1>1. /\ pieces = <<>> /\ text = <<>> /\ text_added = FALSE /\ tool_calls = <<>>
      /\ finish_reason = None /\ usage = NoUsage
  BY DEF Init
<1>2. DOMAIN pieces = {} /\ DOMAIN tool_calls = {}
  BY <1>1
<1>3. \A kind : PiecesOf(kind) = {}
  BY <1>2 DEF PiecesOf
<1>4. \A kind : LastOf(kind) = None
  BY <1>3 DEF LastOf
<1>5. \A f : f = [n \in {} |-> f[n]] => Len(f) = 0 /\ FlattenSeq(f) = <<>>
  <2> SUFFICES ASSUME NEW f, f = [n \in {} |-> f[n]]
               PROVE  Len(f) = 0 /\ FlattenSeq(f) = <<>>
    OBVIOUS
  <2>1. f \in [1..0 -> {}] /\ 0 \in Nat /\ 1..0 = {}
    OBVIOUS
  <2>2. Len(f) = 0 /\ f \in Seq({})
    BY <2>1, FunctionIsSeq
  <2>3. f = <<>>
    BY <2>2, EmptySeq
  <2> QED
    BY <2>2, <2>3 DEF FlattenSeq
<1>6. TextOfPieces = <<>>
  <2> DEFINE f == [n \in DOMAIN pieces |->
                     IF n \in PiecesOf("content") THEN pieces[n].value ELSE <<>>]
  <2>1. f = [n \in {} |-> f[n]]
    BY <1>2
  <2>2. TextOfPieces = FlattenSeq(f)
    BY DEF TextOfPieces
  <2> HIDE DEF f
  <2> QED
    BY <1>5, <2>1, <2>2
<1>7. ASSUME NEW index
      PROVE  BuilderIsRead(index)
  <2> DEFINE f == [n \in DOMAIN pieces |->
                     IF n \in FragmentsOf(index) THEN pieces[n].value.arguments ELSE <<>>]
  <2>1. f = [n \in {} |-> f[n]]
    BY <1>2
  <2>2. Arguments(index) = FlattenSeq(f)
    BY DEF Arguments
  <2> HIDE DEF f
  <2>3. Arguments(index) = <<>>
    BY <1>5, <2>1, <2>2
  <2>4. Ids(index) = {} /\ Names(index) = {}
    BY <1>3 DEF Ids, Names, FragmentsOf
  <2>5. Builder(index) = NewBuilder
    BY <1>2 DEF Builder
  <2>6. NewBuilder.id = None /\ NewBuilder.name = None /\ NewBuilder.arguments = <<>>
    BY DEF NewBuilder
  <2> QED
    BY <2>3, <2>4, <2>5, <2>6 DEF BuilderIsRead
<1>8. Indexes = {}
  BY <1>3 DEF Indexes
<1>9. pieces \in Seq(Pieces)
  BY <1>1, EmptySeq
<1> QED
  BY <1>1, <1>2, <1>4, <1>6, <1>7, <1>8, <1>9
     DEF ReadInv, TextIsRead, CallsAreRead, LastReason, UsageIsRead

\* What is read of a stream stays the same when a piece of another kind comes.
LEMMA TextStays ==
  ASSUME ReadInv, NEW kind, NEW value, [kind |-> kind, value |-> value] \in Pieces,
         Piece(kind, value), kind # "content", UNCHANGED <<text, text_added>>
  PROVE  TextIsRead'
BY TextAdded DEF ReadInv, TextIsRead

LEMMA CallsStay ==
  ASSUME ReadInv, NEW kind, NEW value, [kind |-> kind, value |-> value] \in Pieces,
         Piece(kind, value), kind # "tool_call", UNCHANGED tool_calls
  PROVE  CallsAreRead'
<1>1. Indexes' = Indexes /\ DOMAIN tool_calls' = Indexes'
  BY CallAdded DEF ReadInv, CallsAreRead
<1>2. ASSUME NEW index
      PROVE  BuilderIsRead(index)'
  <2>1. BuilderIsRead(index)
    BY DEF ReadInv, CallsAreRead
  <2>2. /\ Ids(index)' = Ids(index) /\ Names(index)' = Names(index)
        /\ Arguments(index)' = Arguments(index)
    BY CallAdded DEF ReadInv
  <2>3. Builder(index)' = Builder(index)
    BY DEF Builder
  <2> QED
    BY <2>1, <2>2, <2>3 DEF BuilderIsRead
<1> QED
  BY <1>1, <1>2 DEF CallsAreRead

LEMMA ReasonStays ==
  ASSUME ReadInv, NEW kind, NEW value, [kind |-> kind, value |-> value] \in Pieces,
         Piece(kind, value), kind # "finish_reason", UNCHANGED finish_reason
  PROVE  (finish_reason = LastReason)'
<1>1. LastOf("finish_reason")' = LastOf("finish_reason")
  BY LastAdded DEF ReadInv
<1> QED
  BY <1>1 DEF ReadInv, LastReason

LEMMA UsageStays ==
  ASSUME ReadInv, NEW kind, NEW value, [kind |-> kind, value |-> value] \in Pieces,
         Piece(kind, value), kind # "usage", UNCHANGED usage
  PROVE  UsageIsRead'
<1>1. LastOf("usage")' = LastOf("usage")
  BY LastAdded DEF ReadInv
<1> QED
  BY <1>1 DEF ReadInv, UsageIsRead

LEMMA ReadContent ==
  ASSUME ReadInv, NEW content \in Contents, Content(content)
  PROVE  ReadInv'
<1>1. Piece("content", content) /\ [kind |-> "content", value |-> content] \in Pieces
  BY DEF Content, Pieces
<1>2. pieces \in Seq(Pieces) /\ text = TextOfPieces /\ text_added = (text # <<>>)
  BY DEF ReadInv, TextIsRead
<1>3. pieces' \in Seq(Pieces)
  BY <1>1, <1>2, PieceAdded
<1>4. TextOfPieces \in Seq(Letters) /\ TextOfPieces' = TextOfPieces \o content
  BY <1>1, <1>2, TextAdded
<1>5. content \in Seq(Letters)
  BY FragmentsAssumption
<1>6. TextIsRead'
  <2>1. CASE content = <<>>
    <3>1. TextOfPieces' = TextOfPieces
      BY <1>4, <2>1, ConcatEmptySeq
    <3>2. UNCHANGED <<text, text_added>>
      BY <2>1 DEF Content
    <3> QED
      BY <1>2, <3>1, <3>2 DEF TextIsRead
  <2>2. CASE content # <<>>
    <3>1. text' = text \o content /\ text_added' = TRUE
      BY <2>2 DEF Content
    <3>2. text \o content # <<>>
      BY <1>2, <1>4, <1>5, <2>2, ConcatEqualIffEmpty
    <3> QED
      BY <1>2, <1>4, <3>1, <3>2 DEF TextIsRead
  <2> QED
    BY <2>1, <2>2
<1>7. CallsAreRead' /\ (finish_reason = LastReason)' /\ UsageIsRead'
  BY <1>1, CallsStay, ReasonStays, UsageStays DEF Content
<1> QED
  BY <1>3, <1>6, <1>7 DEF ReadInv

LEMMA ReadFinishReason ==
  ASSUME ReadInv, NEW reason \in Reasons, FinishReason(reason)
  PROVE  ReadInv'
<1>1. Piece("finish_reason", reason) /\ [kind |-> "finish_reason", value |-> reason] \in Pieces
  BY DEF FinishReason, Pieces
<1>2. pieces' \in Seq(Pieces)
  BY <1>1, PieceAdded DEF ReadInv
<1>3. (finish_reason = LastReason)'
  <2>1. LastOf("finish_reason")' = reason
    BY <1>1, LastAdded DEF ReadInv
  <2> QED
    BY <2>1 DEF FinishReason, LastReason
<1>4. TextIsRead' /\ CallsAreRead' /\ UsageIsRead'
  BY <1>1, TextStays, CallsStay, UsageStays DEF FinishReason
<1> QED
  BY <1>2, <1>3, <1>4 DEF ReadInv

LEMMA ReadUsage ==
  ASSUME ReadInv, NEW count \in Usages, Usage(count)
  PROVE  ReadInv'
<1>1. Piece("usage", count) /\ [kind |-> "usage", value |-> count] \in Pieces
  BY DEF Usage, Pieces
<1>2. pieces' \in Seq(Pieces)
  BY <1>1, PieceAdded DEF ReadInv
<1>3. UsageIsRead'
  <2>1. LastOf("usage")' = count /\ count # None
    BY <1>1, LastAdded, NoneAssumption DEF ReadInv
  <2> QED
    BY <2>1 DEF Usage, TokensUsed, UsageIsRead
<1>4. TextIsRead' /\ CallsAreRead' /\ (finish_reason = LastReason)'
  BY <1>1, TextStays, CallsStay, ReasonStays DEF Usage
<1> QED
  BY <1>2, <1>3, <1>4 DEF ReadInv

LEMMA ReadToolCall ==
  ASSUME ReadInv, NEW call \in ToolCalls, ToolCall(call), result' # Malformed
  PROVE  ReadInv'
<1> DEFINE index == IndexOf(call)
           builder == Builder(index)
<1>1. Piece("tool_call", call) /\ [kind |-> "tool_call", value |-> call] \in Pieces
  BY DEF ToolCall, Pieces
<1>2. pieces' \in Seq(Pieces)
  BY <1>1, PieceAdded DEF ReadInv
<1>3. /\ ~ Conflict(builder.id, call.id) /\ ~ Conflict(builder.name, call.name)
      /\ tool_calls' = [i \in DOMAIN tool_calls \cup {index} |->
                          IF i = index THEN Extended(builder, call) ELSE tool_calls[i]]
  BY DEF ToolCall
<1>4. Indexes' = Indexes \cup {index}
  BY <1>1, CallAdded DEF ReadInv
<1>5. Builder(index)' = Extended(builder, call)
  BY <1>3 DEF Builder
<1>6. \A i : i # index => Builder(i)' = Builder(i)
  BY <1>3 DEF Builder
<1> HIDE DEF index, builder
<1>7. DOMAIN tool_calls' = Indexes'
  BY <1>3, <1>4 DEF ReadInv, CallsAreRead
<1>8. BuilderIsRead(index)'
  <2>1. BuilderIsRead(index)
    BY DEF ReadInv, CallsAreRead
  <2>2. /\ Ids(index)' = Ids(index) \cup ({call.id} \ {None})
        /\ Names(index)' = Names(index) \cup ({call.name} \ {None})
        /\ Arguments(index)' = Arguments(index) \o call.arguments
    BY <1>1, CallAdded DEF ReadInv, index
  <2>3. /\ Extended(builder, call).id = Latch(builder.id, call.id)
        /\ Extended(builder, call).name = Latch(builder.name, call.name)
        /\ Extended(builder, call).arguments = builder.arguments \o call.arguments
    BY DEF Extended
  <2>4. \A target, candidate : ~ Conflict(target, candidate) =>
          {Latch(target, candidate)} \ {None} = ({target} \ {None}) \cup ({candidate} \ {None})
    BY DEF Conflict, Latch
  <2>5. /\ {Extended(builder, call).id} \ {None} = Ids(index)'
        /\ {Extended(builder, call).name} \ {None} = Names(index)'
    <3>1. /\ {Latch(builder.id, call.id)} \ {None} = ({builder.id} \ {None}) \cup ({call.id} \ {None})
          /\ {Latch(builder.name, call.name)} \ {None}
               = ({builder.name} \ {None}) \cup ({call.name} \ {None})
      BY <1>3, <2>4
    <3>2. Ids(index) = {builder.id} \ {None} /\ Names(index) = {builder.name} \ {None}
      BY <2>1 DEF BuilderIsRead, builder
    <3> QED
      BY <2>2, <2>3, <3>1, <3>2
  <2>6. Extended(builder, call).arguments = Arguments(index)'
    BY <2>1, <2>2, <2>3 DEF BuilderIsRead, builder
  <2> QED
    BY <1>5, <2>5, <2>6 DEF BuilderIsRead
<1>9. ASSUME NEW i, i # index
      PROVE  BuilderIsRead(i)'
  <2>1. BuilderIsRead(i)
    BY DEF ReadInv, CallsAreRead
  <2>2. Ids(i)' = Ids(i) /\ Names(i)' = Names(i) /\ Arguments(i)' = Arguments(i)
    BY <1>1, <1>9, CallAdded DEF ReadInv, index
  <2> QED
    BY <1>6, <1>9, <2>1, <2>2 DEF BuilderIsRead
<1>10. TextIsRead' /\ (finish_reason = LastReason)' /\ UsageIsRead'
  BY <1>1, TextStays, ReasonStays, UsageStays DEF ToolCall
<1>11. CallsAreRead'
  <2>1. \A i : BuilderIsRead(i)'
    <3> TAKE i
    <3> QED
      BY <1>8, <1>9
  <2> QED
    BY <1>7, <2>1 DEF CallsAreRead
<1> QED
  BY <1>2, <1>10, <1>11 DEF ReadInv

LEMMA ReadNext == RInv /\ [Next]_vars => RInv'
<1> SUFFICES ASSUME RInv, [Next]_vars, result' = Reading
             PROVE  ReadInv'
  BY DEF RInv
<1>1. ASSUME NEW content \in Contents, Content(content)
      PROVE  ReadInv'
  BY <1>1, ReadContent DEF RInv, Content, Piece
<1>2. ASSUME NEW call \in ToolCalls, ToolCall(call)
      PROVE  ReadInv'
  BY <1>2, ReadToolCall, StatusesDiffer DEF RInv, ToolCall, Piece
<1>3. ASSUME NEW reason \in Reasons, FinishReason(reason)
      PROVE  ReadInv'
  BY <1>3, ReadFinishReason DEF RInv, FinishReason, Piece
<1>4. ASSUME NEW count \in Usages, Usage(count)
      PROVE  ReadInv'
  BY <1>4, ReadUsage DEF RInv, Usage, Piece
<1>5. ASSUME End
      PROVE  FALSE
  BY <1>5, StatusesDiffer DEF End, Reading, Malformed
<1>6. ASSUME UNCHANGED vars
      PROVE  ReadInv'
  <2>1. UNCHANGED <<pieces, text, text_added, tool_calls, finish_reason, usage, result>>
    BY <1>6 DEF vars, readVars
  <2>2. ReadInv
    BY <2>1 DEF RInv
  <2>3. PiecesOf("content")' = PiecesOf("content") /\ TextIsRead'
    BY <2>1, <2>2 DEF ReadInv, TextIsRead, TextOfPieces, PiecesOf
  <2>4. CallsAreRead'
    <3>1. PiecesOf("tool_call")' = PiecesOf("tool_call")
      BY <2>1 DEF PiecesOf
    <3>2. \A i : FragmentsOf(i)' = FragmentsOf(i)
      BY <2>1, <3>1 DEF FragmentsOf
    <3>3. Indexes' = Indexes /\ \A i : Builder(i)' = Builder(i)
      BY <2>1, <3>1 DEF Indexes, Builder
    <3>4. \A i : BuilderIsRead(i)'
      <4> TAKE i
      <4>1. Ids(i)' = Ids(i) /\ Names(i)' = Names(i)
        BY <2>1, <3>2 DEF Ids, Names
      <4>2. Arguments(i)' = Arguments(i)
        BY <2>1, <3>2 DEF Arguments
      <4>3. BuilderIsRead(i)
        BY <2>2 DEF ReadInv, CallsAreRead
      <4> QED
        BY <3>3, <4>1, <4>2, <4>3 DEF BuilderIsRead
    <3> QED
      BY <2>1, <2>2, <3>3, <3>4 DEF ReadInv, CallsAreRead
  <2>5. (finish_reason = LastReason)' /\ UsageIsRead'
    BY <2>1, <2>2 DEF ReadInv, UsageIsRead, LastReason, LastOf, PiecesOf
  <2> QED
    BY <2>1, <2>2, <2>3, <2>4, <2>5 DEF ReadInv
<1> QED
  BY <1>1, <1>2, <1>3, <1>4, <1>5, <1>6 DEF Next

LEMMA ReadHolds == Spec => []RInv
  BY ReadInit, ReadNext, PTL DEF Spec

-----------------------------------------------------------------------------
(* A stream is malformed exactly if its fragments disagree.                  *)

\* What is read of a stream stays the same when nothing is read.
LEMMA PiecesStay ==
  ASSUME UNCHANGED pieces
  PROVE  /\ Indexes' = Indexes /\ LastReason' = LastReason
         /\ \A i : Ids(i)' = Ids(i) /\ Names(i)' = Names(i)
<1>1. \A kind : PiecesOf(kind)' = PiecesOf(kind)
  BY DEF PiecesOf
<1>2. \A i : FragmentsOf(i)' = FragmentsOf(i)
  BY <1>1 DEF FragmentsOf
<1>3. Indexes' = Indexes
  BY <1>1 DEF Indexes
<1>4. LastReason' = LastReason
  BY <1>1 DEF LastReason, LastOf
<1> QED
  BY <1>2, <1>3, <1>4 DEF Ids, Names

Disagree(index) ==
  \/ \E a, b \in Ids(index) : a # b
  \/ \E a, b \in Names(index) : a # b

\* Fragments disagree if a further one conflicts with what is latched.
LEMMA ConflictIsDisagreement ==
  ASSUME ReadInv, NEW call \in ToolCalls, ToolCall(call), result' = Malformed, result = Reading
  PROVE  \E i \in Indexes' : Disagree(i)'
<1> DEFINE index == IndexOf(call)
           builder == Builder(index)
<1>1. Piece("tool_call", call) /\ [kind |-> "tool_call", value |-> call] \in Pieces
  BY DEF ToolCall, Pieces
<1>2. Conflict(builder.id, call.id) \/ Conflict(builder.name, call.name)
  BY StatusesDiffer DEF ToolCall
<1>3. /\ Indexes' = Indexes \cup {index}
      /\ Ids(index)' = Ids(index) \cup ({call.id} \ {None})
      /\ Names(index)' = Names(index) \cup ({call.name} \ {None})
  BY <1>1, CallAdded DEF ReadInv
<1>4. Ids(index) = {builder.id} \ {None} /\ Names(index) = {builder.name} \ {None}
  BY DEF ReadInv, CallsAreRead, BuilderIsRead
<1> HIDE DEF index, builder
<1>5. Conflict(builder.id, call.id) =>
        builder.id \in Ids(index)' /\ call.id \in Ids(index)' /\ builder.id # call.id
  BY <1>3, <1>4 DEF Conflict
<1>6. Conflict(builder.name, call.name) =>
        builder.name \in Names(index)' /\ call.name \in Names(index)' /\ builder.name # call.name
  BY <1>3, <1>4 DEF Conflict
<1>7. Disagree(index)'
  BY <1>2, <1>5, <1>6 DEF Disagree
<1> QED
  BY <1>3, <1>7

\* While a stream is read its fragments agree, and a call is whole if they
\* give it an id and a name.
LEMMA ReadersAgree ==
  ASSUME ReadInv, NEW i \in Indexes
  PROVE  /\ ~ Disagree(i)
         /\ (Ids(i) = {}) = (tool_calls[i].id = None)
         /\ (Names(i) = {}) = (tool_calls[i].name = None)
         /\ tool_calls[i].id # None => Ids(i) = {tool_calls[i].id}
         /\ tool_calls[i].name # None => Names(i) = {tool_calls[i].name}
<1>1. i \in DOMAIN tool_calls /\ BuilderIsRead(i)
  BY DEF ReadInv, CallsAreRead
<1>2. /\ Ids(i) = {tool_calls[i].id} \ {None}
      /\ Names(i) = {tool_calls[i].name} \ {None}
  BY <1>1 DEF BuilderIsRead, Builder
<1>3. ~ Disagree(i)
  BY <1>2 DEF Disagree
<1> QED
  BY <1>2, <1>3

\* What a stream that ends well gives.
Calls == IF finish_reason = "tool_calls" THEN GeneratedCalls ELSE <<>>
Output == TextItems \o Calls
Finished(output) ==
  [status |-> "ok", terminal |-> Terminal(finish_reason), output |-> output, usage |-> usage]

LEMMA FinishedIs ==
  \A output :
    /\ Finished(output).status = "ok" /\ Finished(output).output = output
    /\ Finished(output).terminal = Terminal(finish_reason) /\ Finished(output).usage = usage
BY DEF Finished

LEMMA EndEither ==
  ASSUME End
  PROVE  /\ result = Reading /\ UNCHANGED <<pieces, readVars>>
         /\ \/ /\ finish_reason = "tool_calls" /\ ~ CallsAreWhole
               /\ result' = Malformed /\ UNCHANGED events
            \/ /\ finish_reason = "tool_calls" => CallsAreWhole
               /\ result' = Finished(Output)
               /\ events' = events
                    \o (IF text_added THEN <<Done(0, Message(text))>> ELSE <<>>)
                    \o ToldFrom(Len(TextItems), Calls)
                    \o (IF IsIncomplete(Terminal(finish_reason))
                          THEN <<Incomplete(Output, usage)>> ELSE <<>>)
BY DEF End, Finished, Output, Calls

LEMMA MalformedNext ==
  ASSUME RInv, MalformedIsDisagreement, [Next]_vars
  PROVE  MalformedIsDisagreement'
<1>1. SUFFICES ASSUME result' # Reading
               PROVE  (result' = Malformed)
                        <=> \E i \in Indexes' :
                              \/ Disagree(i)'
                              \/ LastReason' = "tool_calls" /\ (Ids(i)' = {} \/ Names(i)' = {})
  BY DEF MalformedIsDisagreement, Disagree
<1>2. ASSUME NEW content \in Contents, Content(content)
      PROVE  FALSE
  BY <1>1, <1>2 DEF Content, Piece
<1>3. ASSUME NEW call \in ToolCalls, ToolCall(call)
      PROVE  result' = Malformed /\ \E i \in Indexes' : Disagree(i)'
  <2>1. result = Reading /\ ReadInv
    BY <1>3 DEF RInv, ToolCall, Piece
  <2>2. result' = Malformed
    BY <1>1, <1>3, <2>1 DEF ToolCall
  <2> QED
    BY <1>3, <2>1, <2>2, ConflictIsDisagreement
<1>4. ASSUME NEW reason \in Reasons, FinishReason(reason)
      PROVE  FALSE
  BY <1>1, <1>4 DEF FinishReason, Piece
<1>5. ASSUME NEW count \in Usages, Usage(count)
      PROVE  FALSE
  BY <1>1, <1>5 DEF Usage, Piece
<1>6. ASSUME End
      PROVE  (result' = Malformed)
               <=> \E i \in Indexes' :
                     \/ Disagree(i)'
                     \/ LastReason' = "tool_calls" /\ (Ids(i)' = {} \/ Names(i)' = {})
  <2>1. ReadInv /\ UNCHANGED pieces
    BY <1>6 DEF RInv, End
  <2>2. (result' = Malformed) <=> finish_reason = "tool_calls" /\ ~ CallsAreWhole
    <3>1. \/ finish_reason = "tool_calls" /\ ~ CallsAreWhole /\ result' = Malformed
          \/ (finish_reason = "tool_calls" => CallsAreWhole) /\ result'.status = "ok"
      BY <1>6, EndEither, FinishedIs
    <3> QED
      BY <3>1, StatusesDiffer
  <2>3. DOMAIN tool_calls = Indexes /\ finish_reason = LastReason
    BY <2>1 DEF ReadInv, CallsAreRead
  <2>4. CallsAreWhole <=> \A i \in Indexes : Ids(i) # {} /\ Names(i) # {}
    BY <2>1, <2>3, ReadersAgree DEF CallsAreWhole
  <2>5. /\ Indexes' = Indexes /\ LastReason' = LastReason
        /\ \A i : Ids(i)' = Ids(i) /\ Names(i)' = Names(i)
    BY <2>1, PiecesStay
  <2>6. \A i \in Indexes : ~ Disagree(i)
    BY <2>1, ReadersAgree
  <2>7. \A i : Disagree(i)' = Disagree(i)
    BY <2>5 DEF Disagree
  <2> QED
    BY <2>2, <2>3, <2>4, <2>5, <2>6, <2>7
<1>7. ASSUME UNCHANGED vars
      PROVE  (result' = Malformed)
               <=> \E i \in Indexes' :
                     \/ Disagree(i)'
                     \/ LastReason' = "tool_calls" /\ (Ids(i)' = {} \/ Names(i)' = {})
  <2>1. UNCHANGED <<pieces, result>>
    BY <1>7 DEF vars
  <2>2. /\ Indexes' = Indexes /\ LastReason' = LastReason
        /\ \A i : Ids(i)' = Ids(i) /\ Names(i)' = Names(i)
    BY <2>1, PiecesStay
  <2>3. \A i : Disagree(i)' = Disagree(i)
    BY <2>2 DEF Disagree
  <2>4. (result = Malformed)
          <=> \E i \in Indexes :
                \/ Disagree(i)
                \/ LastReason = "tool_calls" /\ (Ids(i) = {} \/ Names(i) = {})
    BY <1>1, <2>1 DEF MalformedIsDisagreement, Disagree
  <2> QED
    BY <2>1, <2>2, <2>3, <2>4
<1> QED
  BY <1>2, <1>3, <1>4, <1>5, <1>6, <1>7 DEF Next

\* MalformedIsDisagreement holds for all fragments and streams of any length:
\* what latch_field refuses, one fragment at a time, are exactly the streams
\* whose fragments disagree.
THEOREM MalformedIsDisagreementHolds == Spec => []MalformedIsDisagreement
<1>1. Init => MalformedIsDisagreement
  BY DEF Init, MalformedIsDisagreement
<1> QED
  BY <1>1, ReadHolds, MalformedNext, PTL DEF Spec

-----------------------------------------------------------------------------
(* The types, and that the output has whole items only.                      *)

GivenIds == {c.id : c \in ToolCalls} \ {None}
GivenNames == {c.name : c \in ToolCalls} \ {None}
Totals == [{"input_tokens", "output_tokens", "total_tokens"} -> Nat]

BuildersOK ==
  /\ DOMAIN tool_calls \in SUBSET Nat /\ IsFiniteSet(DOMAIN tool_calls)
  /\ \A i \in DOMAIN tool_calls :
       /\ tool_calls[i].id \in GivenIds \cup {None}
       /\ tool_calls[i].name \in GivenNames \cup {None}
       /\ tool_calls[i].arguments \in Seq(Letters)

ReadOK ==
  /\ text_added \in BOOLEAN /\ text \in Seq(Letters)
  /\ finish_reason \in Reasons \cup {None}
  /\ BuildersOK
  /\ usage \in Totals

ResultOK ==
  /\ result.status \in {"reading", "malformed", "ok"}
  /\ result.status = "ok" => result.output \in Seq(OutputItems)

LEMMA UsageType == \A count \in Usages : UsageFromChat(count) \in Totals
<1> SUFFICES ASSUME NEW count \in Usages
             PROVE  UsageFromChat(count) \in Totals
  OBVIOUS
<1>1. /\ count.prompt_tokens \in Nat \cup {None} /\ count.completion_tokens \in Nat \cup {None}
      /\ count.total_tokens \in Nat \cup {None}
  BY FragmentsAssumption
<1> QED
  BY <1>1 DEF UsageFromChat, UsageTotals, Totals

\* finish_tool_calls has each of the calls, by its rank.
LEMMA CallsByRank ==
  ASSUME BuildersOK
  PROVE  /\ Cardinality(DOMAIN tool_calls) \in Nat
         /\ \A n \in 1..Cardinality(DOMAIN tool_calls) :
              /\ CallAt(n) \in DOMAIN tool_calls
              /\ \A k \in DOMAIN tool_calls :
                   Cardinality(Below(DOMAIN tool_calls, k)) = n - 1 => k = CallAt(n)
              /\ GeneratedCalls[n] = FunctionCall(tool_calls[CallAt(n)])
         /\ DOMAIN GeneratedCalls = 1..Cardinality(DOMAIN tool_calls)
<1> DEFINE T == DOMAIN tool_calls
<1>1. T \in SUBSET Nat /\ IsFiniteSet(T)
  BY DEF BuildersOK
<1>2. Cardinality(T) \in Nat
  BY <1>1, FS_CardinalityType
<1>3. ASSUME NEW n \in 1..Cardinality(T)
      PROVE  /\ CallAt(n) \in T
             /\ \A k \in T : Cardinality(Below(T, k)) = n - 1 => k = CallAt(n)
  <2>1. \E i \in T : Cardinality(Below(T, i)) = n - 1
    BY <1>1, RankExists
  <2>2. CallAt(n) \in T /\ Cardinality(Below(T, CallAt(n))) = n - 1
    <3>1. \E i \in T : Cardinality({j \in T : j < i}) = n - 1
      BY <2>1 DEF Below
    <3> QED
      BY <3>1 DEF CallAt, Below
  <2> HIDE DEF T
  <2> QED
    BY <1>1, <2>2, RankIsUnique
<1>4. /\ DOMAIN GeneratedCalls = 1..Cardinality(T)
      /\ \A n \in 1..Cardinality(T) : GeneratedCalls[n] = FunctionCall(tool_calls[CallAt(n)])
  BY DEF GeneratedCalls
<1> QED
  BY <1>2, <1>3, <1>4

LEMMA BuildersNext ==
  ASSUME BuildersOK, NEW call \in ToolCalls, ToolCall(call)
  PROVE  BuildersOK'
<1> DEFINE index == IndexOf(call)
           builder == Builder(index)
<1>1. index \in Nat /\ call.arguments \in Seq(Letters)
  BY FragmentsAssumption DEF IndexOf
<1>2. /\ builder.id \in GivenIds \cup {None} /\ builder.name \in GivenNames \cup {None}
      /\ builder.arguments \in Seq(Letters)
  BY EmptySeq DEF Builder, NewBuilder, BuildersOK
<1>3. call.id \in GivenIds \cup {None} /\ call.name \in GivenNames \cup {None}
  BY DEF GivenIds, GivenNames
<1>4. CASE UNCHANGED tool_calls
  BY <1>4 DEF BuildersOK
<1>5. CASE tool_calls' = [i \in DOMAIN tool_calls \cup {index} |->
                            IF i = index THEN Extended(builder, call) ELSE tool_calls[i]]
  <2> HIDE DEF index, builder
  <2>1. DOMAIN tool_calls' = DOMAIN tool_calls \cup {index}
    BY <1>5
  <2>2. DOMAIN tool_calls' \in SUBSET Nat /\ IsFiniteSet(DOMAIN tool_calls')
    BY <1>1, <2>1, FS_AddElement DEF BuildersOK
  <2>3. /\ tool_calls'[index] = Extended(builder, call)
        /\ \A i \in DOMAIN tool_calls : i # index => tool_calls'[i] = tool_calls[i]
    BY <1>5
  <2>4. /\ Extended(builder, call).id \in GivenIds \cup {None}
        /\ Extended(builder, call).name \in GivenNames \cup {None}
        /\ Extended(builder, call).arguments \in Seq(Letters)
    BY <1>1, <1>2, <1>3, ConcatProperties DEF Extended, Latch
  <2> QED
    BY <2>1, <2>2, <2>3, <2>4 DEF BuildersOK
<1> QED
  BY <1>4, <1>5 DEF ToolCall

\* Items are whole when they are told.
LEMMA OutputType ==
  ASSUME ReadOK, finish_reason = "tool_calls" => CallsAreWhole
  PROVE  /\ TextItems \in Seq(OutputItems) /\ Calls \in Seq(OutputItems)
         /\ Output \in Seq(OutputItems)
<1>1. TextItems \in Seq(OutputItems)
  <2>1. Message(text) \in OutputItems
    BY DEF ReadOK, Message, OutputItems
  <2> QED
    BY <2>1, EmptySeq DEF TextItems
<1>2. Calls \in Seq(OutputItems)
  <2>1. CASE finish_reason = "tool_calls"
    <3> DEFINE n == Cardinality(DOMAIN tool_calls)
    <3>1. /\ n \in Nat /\ DOMAIN GeneratedCalls = 1..n
          /\ \A i \in 1..n : /\ CallAt(i) \in DOMAIN tool_calls
                             /\ GeneratedCalls[i] = FunctionCall(tool_calls[CallAt(i)])
      BY CallsByRank DEF ReadOK
    <3>2. \A k \in DOMAIN tool_calls :
            /\ tool_calls[k].id \in GivenIds /\ tool_calls[k].name \in GivenNames
            /\ tool_calls[k].arguments \in Seq(Letters)
      BY <2>1 DEF ReadOK, BuildersOK, CallsAreWhole
    <3>3. \A k \in DOMAIN tool_calls : FunctionCall(tool_calls[k]) \in OutputItems
      BY <3>2 DEF FunctionCall, OutputItems, GivenIds, GivenNames
    <3>4. GeneratedCalls = [i \in 1..n |-> GeneratedCalls[i]]
      BY <3>1 DEF GeneratedCalls
    <3>5. \A i \in 1..n : GeneratedCalls[i] \in OutputItems
      BY <3>1, <3>3
    <3> HIDE DEF n
    <3>6. GeneratedCalls \in [1..n -> OutputItems]
      BY <3>4, <3>5
    <3> QED
      BY <2>1, <3>1, <3>6, FunctionIsSeq DEF Calls
  <2>2. CASE finish_reason # "tool_calls"
    BY <2>2, EmptySeq DEF Calls
  <2> QED
    BY <2>1, <2>2
<1> QED
  BY <1>1, <1>2, ConcatProperties DEF Output

LEMMA TypesInit == Init => ReadOK /\ ResultOK
<1> SUFFICES ASSUME Init
             PROVE  ReadOK /\ ResultOK
  OBVIOUS
<1>1. DOMAIN tool_calls = {}
  BY DEF Init
<1>2. BuildersOK
  BY <1>1, FS_EmptySet DEF BuildersOK
<1>3. usage \in Totals
  BY DEF Init, NoUsage, UsageTotals, Totals
<1>4. text \in Seq(Letters)
  BY EmptySeq DEF Init
<1> QED
  BY <1>2, <1>3, <1>4, StatusesDiffer DEF Init, ReadOK, ResultOK

LEMMA TypesNext == ReadOK /\ ResultOK /\ [Next]_vars => ReadOK' /\ ResultOK'
<1> SUFFICES ASSUME ReadOK, ResultOK, [Next]_vars
             PROVE  ReadOK' /\ ResultOK'
  OBVIOUS
<1>1. ASSUME NEW content \in Contents, Content(content)
      PROVE  ReadOK' /\ ResultOK'
  <2>1. text' \in Seq(Letters) /\ text_added' \in BOOLEAN
    BY <1>1, FragmentsAssumption, ConcatProperties DEF ReadOK, Content
  <2>2. UNCHANGED <<tool_calls, finish_reason, usage, result>>
    BY <1>1 DEF Content
  <2> QED
    BY <2>1, <2>2 DEF ReadOK, ResultOK, BuildersOK
<1>2. ASSUME NEW call \in ToolCalls, ToolCall(call)
      PROVE  ReadOK' /\ ResultOK'
  <2>1. BuildersOK'
    BY <1>2, BuildersNext DEF ReadOK
  <2>2. UNCHANGED <<text, text_added, finish_reason, usage>>
    BY <1>2 DEF ToolCall
  <2>3. result' = Malformed \/ result' = result
    BY <1>2 DEF ToolCall
  <2>4. ResultOK'
    BY <2>3, StatusesDiffer DEF ResultOK
  <2> QED
    BY <2>1, <2>2, <2>4 DEF ReadOK
<1>3. ASSUME NEW reason \in Reasons, FinishReason(reason)
      PROVE  ReadOK' /\ ResultOK'
  BY <1>3 DEF FinishReason, ReadOK, ResultOK, BuildersOK
<1>4. ASSUME NEW count \in Usages, Usage(count)
      PROVE  ReadOK' /\ ResultOK'
  <2>1. usage' \in Totals
    BY <1>4, UsageType DEF Usage, TokensUsed
  <2> QED
    BY <1>4, <2>1 DEF Usage, ReadOK, ResultOK, BuildersOK
<1>5. ASSUME End
      PROVE  ReadOK' /\ ResultOK'
  <2>1. UNCHANGED readVars
    BY <1>5, EndEither
  <2>2. ReadOK'
    BY <2>1 DEF ReadOK, BuildersOK, readVars
  <2>3. CASE result' = Malformed
    BY <2>2, <2>3, StatusesDiffer DEF ResultOK
  <2>4. CASE (finish_reason = "tool_calls" => CallsAreWhole) /\ result' = Finished(Output)
    <3>1. result'.output = Output /\ result'.status = "ok"
      BY <2>4, FinishedIs
    <3>2. Output \in Seq(OutputItems)
      BY <2>4, OutputType
    <3> QED
      BY <2>2, <3>1, <3>2 DEF ResultOK
  <2> QED
    BY <1>5, <2>3, <2>4, EndEither
<1>6. ASSUME UNCHANGED vars
      PROVE  ReadOK' /\ ResultOK'
  BY <1>6 DEF vars, readVars, ReadOK, ResultOK, BuildersOK
<1> QED
  BY <1>1, <1>2, <1>3, <1>4, <1>5, <1>6 DEF Next

\* Types, and that the output of a stream has whole items only: a call has an
\* id and a name that fragments gave.
THEOREM ChatTypesHold == Spec => []TypeOK
<1>1. ReadOK /\ ResultOK => TypeOK
  BY DEF ReadOK, ResultOK, BuildersOK, TypeOK, Totals
<1> QED
  BY <1>1, TypesInit, TypesNext, PTL DEF Spec

-----------------------------------------------------------------------------
(* The events carry the output.                                              *)

Events ==
  {Added(i, item) : i \in Nat, item \in OutputItems}
    \cup {Delta(0, content) : content \in Seq(Letters)}
    \cup {Done(i, item) : i \in Nat, item \in OutputItems}
    \cup {Incomplete(output, used) : output \in Seq(OutputItems), used \in Totals}

\* What is told of a text: that there is one, and each of its fragments.
TextIsTold(deltas) ==
  /\ deltas \in Seq(Seq(Letters))
  /\ Len(events) = Len(deltas) + 1
  /\ events[1] = Added(0, Message(<<>>))
  /\ \A n \in 1..Len(deltas) : events[n + 1] = Delta(0, deltas[n])
  /\ text = FlattenSeq(deltas)

EventsRead ==
  /\ events \in Seq(Events)
  /\ IF text_added THEN \E deltas : TextIsTold(deltas) ELSE events = <<>>

EInv == result = Reading => EventsRead

LEMMA EventTypes ==
  /\ Added(0, Message(<<>>)) \in Events
  /\ \A content \in Seq(Letters) : Delta(0, content) \in Events
  /\ \A i \in Nat, item \in OutputItems : Added(i, item) \in Events /\ Done(i, item) \in Events
  /\ \A output \in Seq(OutputItems), used \in Totals : Incomplete(output, used) \in Events
<1>1. Message(<<>>) \in OutputItems
  BY EmptySeq DEF Message, OutputItems
<1> QED
  BY <1>1 DEF Events

LEMMA EventsNext ==
  ASSUME RInv, EInv, [Next]_vars
  PROVE  EInv'
<1> SUFFICES ASSUME result' = Reading
             PROVE  EventsRead'
  BY DEF EInv
<1>1. ASSUME NEW content \in Contents, Content(content)
      PROVE  EventsRead'
  <2>1. EventsRead /\ ReadInv
    BY <1>1 DEF EInv, RInv, Content, Piece
  <2>2. content \in Seq(Letters)
    BY FragmentsAssumption
  <2>3. CASE content = <<>>
    <3>1. UNCHANGED <<text, text_added, events>>
      BY <1>1, <2>3 DEF Content
    <3> QED
      BY <2>1, <3>1 DEF EventsRead, TextIsTold
  <2>4. CASE content # <<>> /\ text_added
    <3>1. text' = text \o content /\ text_added' = TRUE
      BY <1>1, <2>4 DEF Content
    <3>2. events' = Append(events, Delta(0, content))
      <4>1. events' = events \o <<>> \o <<Delta(0, content)>>
        BY <1>1, <2>4 DEF Content
      <4>2. events \in Seq(Events)
        BY <2>1 DEF EventsRead
      <4> QED
        BY <4>1, <4>2, ConcatEmptySeq, AppendIsConcat
    <3>3. PICK deltas : TextIsTold(deltas)
      BY <2>1, <2>4 DEF EventsRead
    <3> DEFINE more == Append(deltas, content)
               n == Len(deltas)
               delta == Delta(0, content)
    <3>4. /\ deltas \in Seq(Seq(Letters)) /\ Len(events) = n + 1
          /\ events[1] = Added(0, Message(<<>>))
          /\ \A i \in 1..n : events[i + 1] = Delta(0, deltas[i])
          /\ text = FlattenSeq(deltas)
      BY <3>3 DEF TextIsTold
    <3>5. /\ n \in Nat /\ more \in Seq(Seq(Letters)) /\ Len(more) = n + 1 /\ more[n + 1] = content
          /\ \A i \in 1..n : more[i] = deltas[i]
      BY <2>2, <3>4, AppendProperties
    <3>6. FlattenSeq(more) = text'
      BY <2>2, <3>1, <3>4, FlattenAppend
    <3>7. events \in Seq(Events) /\ delta \in Events
      BY <2>1, <2>2, EventTypes DEF EventsRead
    <3> HIDE DEF more, n, delta
    <3>8. /\ events' \in Seq(Events) /\ Len(events') = n + 2 /\ events'[n + 2] = delta
          /\ \A i \in 1..(n + 1) : events'[i] = events[i]
      BY <3>2, <3>4, <3>5, <3>7, AppendProperties DEF delta
    <3>9. \A i \in 1..(n + 1) : events'[i + 1] = Delta(0, more[i])
      <4>1. \A i \in 1..n : i + 1 \in 1..(n + 1)
        BY <3>5
      <4>2. \A i \in 1..n : events'[i + 1] = Delta(0, more[i])
        BY <3>4, <3>5, <3>8, <4>1
      <4>3. events'[n + 2] = Delta(0, more[n + 1])
        BY <3>5, <3>8 DEF delta
      <4>4. \A i \in 1..(n + 1) : i \in 1..n \/ (i = n + 1 /\ i + 1 = n + 2)
        BY <3>5
      <4> QED
        BY <4>2, <4>3, <4>4
    <3>10. TextIsTold(more)'
      <4>1. Len(events') = Len(more) + 1 /\ 1 \in 1..(n + 1)
        BY <3>5, <3>8
      <4>2. events'[1] = Added(0, Message(<<>>))
        BY <3>4, <3>8, <4>1
      <4>3. more' = more
        BY DEF more
      <4> QED
        BY <3>5, <3>6, <3>9, <4>1, <4>2, <4>3 DEF TextIsTold
    <3> QED
      BY <3>1, <3>8, <3>10 DEF EventsRead
  <2>5. CASE content # <<>> /\ ~ text_added
    <3>1. text' = text \o content /\ text_added' = TRUE
      BY <1>1, <2>5 DEF Content
    <3>2. text = <<>> /\ events = <<>>
      BY <2>1, <2>5 DEF EventsRead, ReadInv, TextIsRead
    <3>3. text' = content
      BY <2>2, <3>1, <3>2, ConcatEmptySeq
    <3>4. events' = <<Added(0, Message(<<>>)), Delta(0, content)>>
      BY <1>1, <2>5, <3>2 DEF Content
    <3>5. FlattenSeq(<<content>>) = content
      <4>1. <<>> \in Seq(Seq(Letters)) /\ Append(<<>>, content) = <<content>>
        BY <2>2
      <4>2. FlattenSeq(<<>>) = <<>>
        BY DEF FlattenSeq
      <4>3. FlattenSeq(Append(<<>>, content)) = FlattenSeq(<<>>) \o content
        BY <2>2, <4>1, FlattenAppend
      <4> QED
        BY <2>2, <4>1, <4>2, <4>3, ConcatEmptySeq
    <3>6. TextIsTold(<<content>>)'
      BY <2>2, <3>3, <3>4, <3>5 DEF TextIsTold
    <3>7. events' \in Seq(Events)
      BY <2>2, <3>4, EventTypes
    <3> QED
      BY <3>1, <3>6, <3>7 DEF EventsRead
  <2> QED
    BY <2>3, <2>4, <2>5
<1>2. ASSUME UNCHANGED <<text, text_added, events, result>>
      PROVE  EventsRead'
  BY <1>2 DEF EInv, EventsRead, TextIsTold
<1>3. ASSUME NEW call \in ToolCalls, ToolCall(call)
      PROVE  EventsRead'
  <2>1. UNCHANGED <<text, text_added, events, result>>
    BY <1>3 DEF ToolCall, Piece
  <2> QED
    BY <1>2, <2>1
<1>4. ASSUME NEW reason \in Reasons, FinishReason(reason)
      PROVE  EventsRead'
  BY <1>2, <1>4 DEF FinishReason
<1>5. ASSUME NEW count \in Usages, Usage(count)
      PROVE  EventsRead'
  BY <1>2, <1>5 DEF Usage
<1>6. ASSUME End
      PROVE  FALSE
  BY <1>6, StatusesDiffer, EndEither, FinishedIs
<1>7. ASSUME UNCHANGED vars
      PROVE  EventsRead'
  BY <1>2, <1>7 DEF vars, readVars
<1> QED
  BY <1>1, <1>3, <1>4, <1>5, <1>6, <1>7 DEF Next

ToldIn(told, type) == {n \in DOMAIN told : told[n].type = type}
ToldOfIn(told, type, i) == {n \in ToldIn(told, type) : told[n].output_index = i - 1}

\* What a client has who follows the events told, as EventsCarryTheOutput says.
Carry(told, output, terminal, used) ==
  /\ \A i \in DOMAIN output : \E added, done \in DOMAIN told :
       /\ ToldOfIn(told, "added", i) = {added} /\ ToldOfIn(told, "done", i) = {done} /\ added < done
       /\ \A j \in DOMAIN output : j > i => \A n \in ToldOfIn(told, "added", j) : done < n
       /\ told[done].item = output[i]
       /\ output[i].kind = "message" =>
            /\ i = 1 /\ told[added].item = Message(<<>>)
            /\ ToldIn(told, "delta") = (added + 1)..(done - 1)
            /\ output[i].text =
                 FlattenSeq([n \in 1..(done - added - 1) |-> told[added + n].delta])
       /\ output[i].kind = "function_call" => told[added].item = output[i]
  /\ \A n \in ToldIn(told, "added") \cup ToldIn(told, "done") : told[n].output_index + 1 \in DOMAIN output
  /\ ToldIn(told, "delta") # {} => output # <<>> /\ output[1].kind = "message"
  /\ IF IsIncomplete(terminal)
       THEN /\ ToldIn(told, "incomplete") = {Len(told)}
            /\ told[Len(told)] = Incomplete(output, used)
       ELSE ToldIn(told, "incomplete") = {}

\* Where things are told of: a text of d fragments or none (t is 1 or 0),
\* then k calls, then the end of an incomplete answer or nothing (z is 1 or 0).
ToldSo(told, output, used, deltas, t, k, z) ==
  LET a == IF t = 1 THEN Len(deltas) + 1 ELSE 0 IN
  /\ deltas \in Seq(Seq(Letters)) /\ t \in {0, 1} /\ k \in Nat /\ z \in {0, 1}
  /\ DOMAIN output = 1..(t + k)
  /\ Len(told) = a + t + 2 * k + z /\ DOMAIN told = 1..Len(told)
  /\ t = 1 => /\ output[1] = Message(FlattenSeq(deltas))
              /\ told[1] = Added(0, Message(<<>>))
              /\ \A n \in 1..Len(deltas) : told[n + 1] = Delta(0, deltas[n])
              /\ told[a + 1] = Done(0, output[1])
  /\ \A i \in 1..k : /\ output[t + i].kind = "function_call"
                     /\ told[a + t + 2 * i - 1] = Added(t + i - 1, output[t + i])
                     /\ told[a + t + 2 * i] = Done(t + i - 1, output[t + i])
  /\ z = 1 => told[a + t + 2 * k + 1] = Incomplete(output, used)

LEMMA EventFields ==
  /\ \A i, item : /\ Added(i, item).type = "added" /\ Added(i, item).output_index = i
                  /\ Added(i, item).item = item
                  /\ Done(i, item).type = "done" /\ Done(i, item).output_index = i
                  /\ Done(i, item).item = item
                  /\ Delta(i, item).type = "delta" /\ Delta(i, item).delta = item
                  /\ Incomplete(i, item).type = "incomplete"
  /\ \A s : Message(s).kind = "message" /\ Message(s).text = s
BY DEF Added, Done, Delta, Incomplete, Message

LEMMA ToldSoCarries ==
  ASSUME NEW told, NEW output, NEW terminal, NEW used, NEW deltas, NEW t, NEW k, NEW z,
         ToldSo(told, output, used, deltas, t, k, z), z = IF IsIncomplete(terminal) THEN 1 ELSE 0
  PROVE  Carry(told, output, terminal, used)
<1> DEFINE d == Len(deltas)
           a == IF t = 1 THEN d + 1 ELSE 0
           AddedAt(i) == IF t = 1 /\ i = 1 THEN 1 ELSE a + t + 2 * (i - t) - 1
           DoneAt(i) == IF t = 1 /\ i = 1 THEN a + 1 ELSE a + t + 2 * (i - t)
           m == t + k
           last == a + t + 2 * k + z
           Told(type) == ToldIn(told, type)
           ToldOf(type, i) == ToldOfIn(told, type, i)
<1>1. /\ d \in Nat /\ t \in {0, 1} /\ k \in Nat /\ z \in {0, 1}
      /\ DOMAIN output = 1..m /\ DOMAIN told = 1..last /\ Len(told) = last
      /\ deltas \in Seq(Seq(Letters))
  BY LenProperties DEF ToldSo
<1>2. /\ t = 1 => /\ output[1] = Message(FlattenSeq(deltas))
                  /\ told[1] = Added(0, Message(<<>>))
                  /\ \A n \in 1..d : told[n + 1] = Delta(0, deltas[n])
                  /\ told[a + 1] = Done(0, output[1])
      /\ \A i \in 1..k : /\ output[t + i].kind = "function_call"
                         /\ told[a + t + 2 * i - 1] = Added(t + i - 1, output[t + i])
                         /\ told[a + t + 2 * i] = Done(t + i - 1, output[t + i])
      /\ z = 1 => told[last] = Incomplete(output, used)
  BY DEF ToldSo
<1>3. a \in Nat /\ m \in Nat /\ last \in Nat /\ (t = 1 => a = d + 1) /\ (t = 0 => a = 0)
  <2>1. a \in Nat /\ 2 * k \in Nat
    BY <1>1
  <2> HIDE DEF a
  <2>2. m \in Nat
    BY <1>1
  <2>3. last \in Nat
    BY <1>1, <2>1
  <2>4. (t = 1 => a = d + 1) /\ (t = 0 => a = 0)
    BY DEF a
  <2> QED
    BY <2>1, <2>2, <2>3, <2>4
<1> HIDE DEF d
<1>4. \A i \in 1..m : (t = 1 /\ i = 1) \/ (i - t \in 1..k /\ t + (i - t) = i)
  <2>1. CASE t = 0
    BY <1>1, <2>1
  <2>2. CASE t = 1
    BY <1>1, <2>2
  <2> QED
    BY <1>1, <2>1, <2>2
<1>5. \A i \in 1..m : /\ told[AddedAt(i)].type = "added" /\ told[DoneAt(i)].type = "done"
                      /\ told[AddedAt(i)].output_index = i - 1
                      /\ told[DoneAt(i)].output_index = i - 1
                      /\ told[DoneAt(i)].item = output[i]
  <2> SUFFICES ASSUME NEW i \in 1..m
               PROVE  /\ told[AddedAt(i)].type = "added" /\ told[DoneAt(i)].type = "done"
                      /\ told[AddedAt(i)].output_index = i - 1
                      /\ told[DoneAt(i)].output_index = i - 1
                      /\ told[DoneAt(i)].item = output[i]
    OBVIOUS
  <2>1. CASE t = 1 /\ i = 1
    BY <1>2, <2>1, EventFields
  <2>2. CASE ~ (t = 1 /\ i = 1)
    <3> DEFINE j == i - t
    <3>1. j \in 1..k /\ t + j = i
      BY <1>4, <2>2
    <3>2. AddedAt(i) = a + t + 2 * j - 1 /\ DoneAt(i) = a + t + 2 * j
      BY <2>2
    <3>3. t + j - 1 = i - 1
      <4> HIDE DEF j, m
      <4> QED
        BY <1>1, <3>1
    <3> HIDE DEF j, AddedAt, DoneAt, a
    <3>4. /\ told[AddedAt(i)] = Added(i - 1, output[i])
          /\ told[DoneAt(i)] = Done(i - 1, output[i])
      BY <1>2, <3>1, <3>2, <3>3
    <3> QED
      BY <3>4, EventFields
  <2> QED
    BY <2>1, <2>2
<1>6. \A i \in 1..m : ~ (t = 1 /\ i = 1) =>
        output[i].kind = "function_call" /\ told[AddedAt(i)].item = output[i]
  <2> SUFFICES ASSUME NEW i \in 1..m, ~ (t = 1 /\ i = 1)
               PROVE  output[i].kind = "function_call" /\ told[AddedAt(i)].item = output[i]
    OBVIOUS
  <2> DEFINE j == i - t
  <2>1. j \in 1..k /\ t + j = i
    BY <1>4
  <2>2. AddedAt(i) = a + t + 2 * j - 1
    OBVIOUS
  <2> HIDE DEF j, AddedAt, a
  <2> QED
    BY <1>2, <2>1, <2>2, EventFields
<1>7. \A i \in 1..m : AddedAt(i) \in 1..last /\ DoneAt(i) \in 1..last /\ AddedAt(i) < DoneAt(i)
  BY <1>1, <1>3
<1>8. \A i, j \in 1..m : j > i => DoneAt(i) < AddedAt(j)
  BY <1>1, <1>3
\* Every place is one of these.
<1>9. \A n \in 1..last : \/ \E i \in 1..m : n = AddedAt(i) \/ n = DoneAt(i)
                         \/ t = 1 /\ n \in 2..a
                         \/ z = 1 /\ n = last
  <2> SUFFICES ASSUME NEW n \in 1..last, ~ (t = 1 /\ n \in 2..a), ~ (z = 1 /\ n = last)
               PROVE  \E i \in 1..m : n = AddedAt(i) \/ n = DoneAt(i)
    OBVIOUS
  <2>1. CASE t = 1 /\ n <= a + 1
    <3>1. 1 \in 1..m /\ (n = 1 \/ n = a + 1)
      BY <1>1, <1>3, <2>1
    <3> QED
      BY <2>1, <3>1
  <2>2. CASE ~ (t = 1 /\ n <= a + 1)
    <3> DEFINE r == n - a - t
    <3>1. r \in 1..(2 * k)
      BY <1>1, <1>3, <2>2
    <3>2. PICK j \in 1..k : r = 2 * j - 1 \/ r = 2 * j
      <4> DEFINE h == (r + 1) \div 2
      <4>1. h \in 1..k /\ (r = 2 * h - 1 \/ r = 2 * h)
        BY <1>1, <3>1
      <4> QED
        BY <4>1
    <3>3. t + j \in 1..m /\ ~ (t = 1 /\ t + j = 1) /\ (t + j) - t = j
      BY <1>1
    <3>4. AddedAt(t + j) = a + t + 2 * j - 1 /\ DoneAt(t + j) = a + t + 2 * j
      BY <3>3
    <3>5. n = AddedAt(t + j) \/ n = DoneAt(t + j)
      BY <1>1, <1>3, <3>2, <3>4
    <3> QED
      BY <3>3, <3>5
  <2> QED
    BY <2>1, <2>2
<1>10. \A n \in 1..last : (t = 1 /\ n \in 2..a) => told[n].type = "delta"
  <2> SUFFICES ASSUME NEW n \in 1..last, t = 1, n \in 2..a
               PROVE  told[n].type = "delta"
    OBVIOUS
  <2>1. n - 1 \in 1..d /\ (n - 1) + 1 = n
    BY <1>1, <1>3
  <2> QED
    BY <1>2, <2>1, EventFields
<1>11. z = 1 => told[last].type = "incomplete"
  BY <1>2, EventFields
<1> HIDE DEF AddedAt, DoneAt, m, last
<1>12. /\ Told("added") = {AddedAt(i) : i \in 1..m}
       /\ Told("done") = {DoneAt(i) : i \in 1..m}
       /\ Told("delta") = {n \in 1..last : t = 1 /\ n \in 2..a}
       /\ Told("incomplete") = IF z = 1 THEN {last} ELSE {}
  <2>1. z = 1 => last \in 1..last
    BY <1>1, <1>3 DEF last
  <2> HIDE DEF a
  <2>2. \A n \in 1..last : /\ told[n].type = "added" <=> \E i \in 1..m : n = AddedAt(i)
                           /\ told[n].type = "done" <=> \E i \in 1..m : n = DoneAt(i)
                           /\ told[n].type = "delta" <=> t = 1 /\ n \in 2..a
                           /\ told[n].type = "incomplete" <=> z = 1 /\ n = last
    BY <1>5, <1>9, <1>10, <1>11
  <2> QED
    <3>1. \A type : Told(type) = {n \in 1..last : told[n].type = type}
      BY <1>1 DEF ToldIn
    <3> HIDE DEF Told
    <3>2. Told("added") = {AddedAt(i) : i \in 1..m}
      BY <1>7, <2>2, <3>1
    <3>3. Told("done") = {DoneAt(i) : i \in 1..m}
      BY <1>7, <2>2, <3>1
    <3>4. Told("delta") = {n \in 1..last : t = 1 /\ n \in 2..a}
      BY <2>2, <3>1
    <3>5. Told("incomplete") = IF z = 1 THEN {last} ELSE {}
      BY <2>1, <2>2, <3>1
    <3> QED
      BY <3>2, <3>3, <3>4, <3>5
<1>13. \A i \in 1..m : /\ ToldOf("added", i) = {AddedAt(i)}
                       /\ ToldOf("done", i) = {DoneAt(i)}
  <2> SUFFICES ASSUME NEW i \in 1..m
               PROVE  ToldOf("added", i) = {AddedAt(i)} /\ ToldOf("done", i) = {DoneAt(i)}
    OBVIOUS
  <2>1. \A j \in 1..m : j - 1 = i - 1 => j = i
    BY <1>3 DEF m
  <2> HIDE DEF Told
  <2>2. \A type : ToldOf(type, i) = {n \in Told(type) : told[n].output_index = i - 1}
    BY DEF ToldOfIn, Told
  <2> QED
    BY <1>5, <1>12, <2>1, <2>2
<1>14. ASSUME t = 1
       PROVE  /\ 1 \in 1..m /\ AddedAt(1) = 1 /\ DoneAt(1) = a + 1
              /\ told[1].item = Message(<<>>)
              /\ output[1].kind = "message"
              /\ Told("delta") = 2..a
              /\ output[1].text = FlattenSeq([n \in 1..(a + 1 - 1 - 1) |-> told[1 + n].delta])
  <2>1. 1 \in 1..m /\ AddedAt(1) = 1 /\ DoneAt(1) = a + 1
    BY <1>1, <1>14 DEF m, AddedAt, DoneAt
  <2>2. told[1].item = Message(<<>>) /\ output[1].kind = "message"
        /\ output[1].text = FlattenSeq(deltas)
    BY <1>2, <1>14, EventFields
  <2>3. 2..a \subseteq 1..last
    BY <1>1, <1>3 DEF last
  <2>4. a + 1 - 1 - 1 = d
    BY <1>1, <1>3, <1>14
  <2>5. \A n \in 1..d : told[1 + n].delta = deltas[n]
    <3>1. \A n \in 1..d : 1 + n = n + 1
      BY <1>1
    <3> QED
      BY <1>2, <1>14, <3>1, EventFields
  <2>6. deltas = [n \in 1..d |-> deltas[n]]
    BY <1>1 DEF d
  <2>7. [n \in 1..d |-> told[1 + n].delta] = deltas
    BY <2>5, <2>6
  <2> HIDE DEF Told
  <2> QED
    BY <1>12, <1>14, <2>1, <2>2, <2>3, <2>4, <2>7
<1> HIDE DEF a, Told, ToldOf
<1>15. \A i \in 1..m : \E added, done \in 1..last :
         /\ ToldOf("added", i) = {added} /\ ToldOf("done", i) = {done} /\ added < done
         /\ \A j \in 1..m : j > i => \A n \in ToldOf("added", j) : done < n
         /\ told[done].item = output[i]
         /\ output[i].kind = "message" =>
              /\ i = 1 /\ told[added].item = Message(<<>>)
              /\ Told("delta") = (added + 1)..(done - 1)
              /\ output[i].text =
                   FlattenSeq([n \in 1..(done - added - 1) |-> told[added + n].delta])
         /\ output[i].kind = "function_call" => told[added].item = output[i]
  <2> TAKE i \in 1..m
  <2> USE <1>7
  <2> WITNESS AddedAt(i) \in 1..last, DoneAt(i) \in 1..last
  <2>1. \A j \in 1..m : j > i => \A n \in ToldOf("added", j) : DoneAt(i) < n
    BY <1>8, <1>13
  <2>2. CASE t = 1 /\ i = 1
    <3>1. 1 + 1 = 2 /\ (a + 1) - 1 = a
      BY <1>3
    <3> QED
      BY <1>5, <1>7, <1>13, <1>14, <2>1, <2>2, <3>1
  <2>3. CASE ~ (t = 1 /\ i = 1)
    BY <1>5, <1>6, <1>7, <1>13, <2>1, <2>3
  <2> QED
    BY <2>2, <2>3
<1>16. \A n \in Told("added") \cup Told("done") : told[n].output_index + 1 \in 1..m
  <2>1. \A i \in 1..m : (i - 1) + 1 = i
    BY <1>3 DEF m
  <2> QED
    BY <1>5, <1>12, <2>1
<1>17. Told("delta") # {} => output # <<>> /\ output[1].kind = "message"
  <2>1. DOMAIN <<>> = {} /\ (t = 1 => 1 \in DOMAIN output)
    BY <1>1, <1>14
  <2>2. t = 1 => output # <<>>
    BY <2>1
  <2> QED
    BY <1>12, <1>14, <2>2
<1>18. IF IsIncomplete(terminal)
         THEN Told("incomplete") = {Len(told)} /\ told[Len(told)] = Incomplete(output, used)
         ELSE Told("incomplete") = {}
  BY <1>1, <1>2, <1>12
<1>19. DOMAIN output = 1..m /\ DOMAIN told = 1..last
  BY <1>1
<1>20. \A i \in DOMAIN output : \E added, done \in DOMAIN told :
         /\ ToldOf("added", i) = {added} /\ ToldOf("done", i) = {done} /\ added < done
         /\ \A j \in DOMAIN output : j > i => \A n \in ToldOf("added", j) : done < n
         /\ told[done].item = output[i]
         /\ output[i].kind = "message" =>
              /\ i = 1 /\ told[added].item = Message(<<>>)
              /\ Told("delta") = (added + 1)..(done - 1)
              /\ output[i].text =
                   FlattenSeq([n \in 1..(done - added - 1) |-> told[added + n].delta])
         /\ output[i].kind = "function_call" => told[added].item = output[i]
  BY <1>15, <1>19, Zenon
<1>21. \A n \in Told("added") \cup Told("done") : told[n].output_index + 1 \in DOMAIN output
  BY <1>16, <1>19
<1> QED
  BY <1>17, <1>18, <1>20, <1>21, Zenon DEF Carry, Told, ToldOf

LEMMA FourJoined ==
  ASSUME NEW S, NEW e1 \in Seq(S), NEW e2 \in Seq(S), NEW e3 \in Seq(S), NEW e4 \in Seq(S),
         NEW e, e = e1 \o e2 \o e3 \o e4
  PROVE  /\ e \in Seq(S) /\ Len(e) = Len(e1) + Len(e2) + Len(e3) + Len(e4)
         /\ \A i \in 1..Len(e1) : e[i] = e1[i]
         /\ \A i \in 1..Len(e2) : e[Len(e1) + i] = e2[i]
         /\ \A i \in 1..Len(e3) : e[Len(e1) + Len(e2) + i] = e3[i]
         /\ \A i \in 1..Len(e4) : e[Len(e1) + Len(e2) + Len(e3) + i] = e4[i]
<1> DEFINE a == e1 \o e2
           b == a \o e3
           l1 == Len(e1)
           l2 == Len(e2)
           l3 == Len(e3)
           l4 == Len(e4)
<1>1. l1 \in Nat /\ l2 \in Nat /\ l3 \in Nat /\ l4 \in Nat
  BY LenProperties
<1>2. /\ a \in Seq(S) /\ Len(a) = l1 + l2
      /\ \A i \in 1..(l1 + l2) : a[i] = IF i <= l1 THEN e1[i] ELSE e2[i - l1]
  BY ConcatProperties
<1> HIDE DEF a
<1>3. /\ b \in Seq(S) /\ Len(b) = l1 + l2 + l3
      /\ \A i \in 1..(l1 + l2 + l3) :
           b[i] = IF i <= l1 + l2 THEN a[i] ELSE e3[i - (l1 + l2)]
  <2>1. /\ b \in Seq(S) /\ Len(b) = Len(a) + l3
        /\ \A i \in 1..(Len(a) + l3) : b[i] = IF i <= Len(a) THEN a[i] ELSE e3[i - Len(a)]
    <3>1. a \in Seq(S)
      BY <1>2
    <3> QED
      BY <3>1, ConcatProperties
  <2> HIDE DEF b, l1, l2, l3
  <2> QED
    BY <1>2, <2>1
<1> HIDE DEF b
<1>4. /\ e \in Seq(S) /\ Len(e) = l1 + l2 + l3 + l4
      /\ \A i \in 1..(l1 + l2 + l3 + l4) :
           e[i] = IF i <= l1 + l2 + l3 THEN b[i] ELSE e4[i - (l1 + l2 + l3)]
  <2>1. /\ e \in Seq(S) /\ Len(e) = Len(b) + l4
        /\ \A i \in 1..(Len(b) + l4) : e[i] = IF i <= Len(b) THEN b[i] ELSE e4[i - Len(b)]
    <3>1. b \in Seq(S) /\ e = b \o e4
      BY <1>3 DEF a, b
    <3> QED
      BY <3>1, ConcatProperties
  <2> HIDE DEF l1, l2, l3, l4
  <2> QED
    BY <1>3, <2>1
<1> HIDE DEF l1, l2, l3, l4
<1>5. \A i \in 1..l1 : e[i] = e1[i]
  <2> TAKE i \in 1..l1
  <2>1. i \in 1..(l1 + l2) /\ i \in 1..(l1 + l2 + l3) /\ i \in 1..(l1 + l2 + l3 + l4)
    BY <1>1
  <2>2. i <= l1 /\ i <= l1 + l2 /\ i <= l1 + l2 + l3
    BY <1>1
  <2> QED
    BY <1>2, <1>3, <1>4, <2>1, <2>2
<1>6. \A i \in 1..l2 : e[l1 + i] = e2[i]
  <2> TAKE i \in 1..l2
  <2>1. l1 + i \in 1..(l1 + l2) /\ l1 + i \in 1..(l1 + l2 + l3) /\ l1 + i \in 1..(l1 + l2 + l3 + l4)
    BY <1>1
  <2>2. ~ (l1 + i <= l1) /\ l1 + i <= l1 + l2 /\ l1 + i <= l1 + l2 + l3 /\ (l1 + i) - l1 = i
    BY <1>1
  <2> QED
    BY <1>2, <1>3, <1>4, <2>1, <2>2
<1>7. \A i \in 1..l3 : e[l1 + l2 + i] = e3[i]
  <2> TAKE i \in 1..l3
  <2>1. l1 + l2 + i \in 1..(l1 + l2 + l3) /\ l1 + l2 + i \in 1..(l1 + l2 + l3 + l4)
    BY <1>1
  <2>2. /\ ~ (l1 + l2 + i <= l1 + l2) /\ l1 + l2 + i <= l1 + l2 + l3
        /\ (l1 + l2 + i) - (l1 + l2) = i
    BY <1>1
  <2> QED
    BY <1>3, <1>4, <2>1, <2>2
<1>8. \A i \in 1..l4 : e[l1 + l2 + l3 + i] = e4[i]
  <2> TAKE i \in 1..l4
  <2>1. l1 + l2 + l3 + i \in 1..(l1 + l2 + l3 + l4)
    BY <1>1
  <2>2. /\ ~ (l1 + l2 + l3 + i <= l1 + l2 + l3)
        /\ (l1 + l2 + l3 + i) - (l1 + l2 + l3) = i
    BY <1>1
  <2> QED
    BY <1>4, <2>1, <2>2
<1> QED
  BY <1>4, <1>5, <1>6, <1>7, <1>8 DEF l1, l2, l3, l4, b, a

\* Two events tell of each item.
LEMMA ToldFromIs ==
  ASSUME NEW first \in Nat, NEW items \in Seq(OutputItems)
  PROVE  /\ ToldFrom(first, items) \in Seq(Events)
         /\ Len(ToldFrom(first, items)) = 2 * Len(items)
         /\ \A i \in 1..Len(items) :
              /\ ToldFrom(first, items)[2 * i - 1] = Added(first + i - 1, items[i])
              /\ ToldFrom(first, items)[2 * i] = Done(first + i - 1, items[i])
<1> DEFINE k == Len(items)
           f == ToldFrom(first, items)
<1>1. k \in Nat /\ 2 * k \in Nat
  BY LenProperties
<1>2. /\ f = [n \in 1..(2 * k) |-> f[n]]
      /\ \A n \in 1..(2 * k) : LET i == (n + 1) \div 2 IN
           f[n] = IF n % 2 = 1 THEN Added(first + i - 1, items[i])
                  ELSE Done(first + i - 1, items[i])
  BY DEF ToldFrom
<1> HIDE DEF f
<1>3. \A i \in 1..k : items[i] \in OutputItems /\ first + i - 1 \in Nat
  BY <1>1, ElementOfSeq
<1> HIDE DEF k
<1>4. \A n \in 1..(2 * k) : (n + 1) \div 2 \in 1..k
  BY <1>1
<1>5. \A n \in 1..(2 * k) : f[n] \in Events
  <2> TAKE n \in 1..(2 * k)
  <2> DEFINE i == (n + 1) \div 2
  <2>1. i \in 1..k
    BY <1>4
  <2>2. f[n] = Added(first + i - 1, items[i]) \/ f[n] = Done(first + i - 1, items[i])
    BY <1>2
  <2> HIDE DEF i
  <2> QED
    BY <1>3, <2>1, <2>2, EventTypes
<1>6. f \in [1..(2 * k) -> Events]
  BY <1>2, <1>5
<1>7. f \in Seq(Events) /\ Len(f) = 2 * k
  BY <1>1, <1>6, FunctionIsSeq
<1>8. \A i \in 1..k : f[2 * i - 1] = Added(first + i - 1, items[i])
  <2> TAKE i \in 1..k
  <2>1. 2 * i - 1 \in 1..(2 * k) /\ (2 * i - 1) % 2 = 1 /\ ((2 * i - 1) + 1) \div 2 = i
    BY <1>1
  <2> QED
    BY <1>2, <2>1
<1>9. \A i \in 1..k : f[2 * i] = Done(first + i - 1, items[i])
  <2> TAKE i \in 1..k
  <2>1. 2 * i \in 1..(2 * k) /\ ~ ((2 * i) % 2 = 1) /\ (2 * i + 1) \div 2 = i
    BY <1>1
  <2> QED
    BY <1>2, <2>1
<1> QED
  BY <1>7, <1>8, <1>9 DEF f, k

\* A stream that ends well has told its output.
LEMMA EndTells ==
  ASSUME ReadInv, ReadOK, EventsRead, End, result'.status = "ok"
  PROVE  /\ result' = Finished(Output)
         /\ Carry(events', Output, Terminal(finish_reason), usage)
<1> DEFINE e2 == IF text_added THEN <<Done(0, Message(text))>> ELSE <<>>
           e3 == ToldFrom(Len(TextItems), Calls)
           incomplete == IsIncomplete(Terminal(finish_reason))
           e4 == IF incomplete THEN <<Incomplete(Output, usage)>> ELSE <<>>
           t == IF text_added THEN 1 ELSE 0
           k == Len(Calls)
           z == IF incomplete THEN 1 ELSE 0
           told == events \o e2 \o e3 \o e4
<1>1. /\ finish_reason = "tool_calls" => CallsAreWhole
      /\ result' = Finished(Output) /\ events' = told
  BY EndEither, StatusesDiffer
<1>2. /\ TextItems \in Seq(OutputItems) /\ Calls \in Seq(OutputItems)
      /\ Output \in Seq(OutputItems)
  BY <1>1, OutputType
<1>3. /\ Len(TextItems) = t /\ t \in Nat /\ k \in Nat
      /\ t = 1 => text_added /\ TextItems[1] = Message(text)
      /\ t = 0 => ~ text_added
  <2>1. k \in Nat
    BY <1>2, LenProperties
  <2> HIDE DEF k
  <2> QED
    BY <2>1 DEF TextItems
<1>4. DOMAIN Output = 1..(t + k)
  BY <1>2, <1>3, ConcatProperties, LenProperties DEF Output
<1>5. /\ t = 1 => Output[1] = Message(text)
      /\ \A i \in 1..k : Output[t + i] = Calls[i]
  <2> HIDE DEF t, k
  <2>1. t = 1 => 1 \in 1..(t + k)
    BY <1>3
  <2>2. \A i \in 1..k : t + i \in 1..(t + k) /\ ~ (t + i <= t) /\ (t + i) - t = i
    BY <1>3
  <2>3. \A i \in 1..(t + k) : Output[i] = IF i <= t THEN TextItems[i] ELSE Calls[i - t]
    BY <1>2, <1>3, ConcatProperties DEF Output, k
  <2> QED
    BY <1>3, <2>1, <2>2, <2>3
<1>6. \A i \in 1..k : Output[t + i].kind = "function_call"
  <2>1. CASE finish_reason = "tool_calls"
    <3>1. \A i \in 1..k : Calls[i] = FunctionCall(tool_calls[CallAt(i)])
      <4>1. Calls = GeneratedCalls
        BY <2>1 DEF Calls
      <4>2. DOMAIN Calls = 1..k
        BY <1>2, LenProperties
      <4> HIDE DEF k
      <4> QED
        BY <4>1, <4>2, CallsByRank DEF ReadOK
    <3> QED
      <4>1. \A call : FunctionCall(call).kind = "function_call"
        BY DEF FunctionCall
      <4> HIDE DEF t, k
      <4> QED
        BY <1>5, <3>1, <4>1
  <2>2. CASE finish_reason # "tool_calls"
    <3>1. k = 0
      BY <2>2 DEF Calls
    <3> QED
      BY <3>1
  <2> QED
    BY <2>1, <2>2
<1>7. /\ events \in Seq(Events) /\ e2 \in Seq(Events) /\ e3 \in Seq(Events) /\ e4 \in Seq(Events)
      /\ Len(e2) = t /\ Len(e3) = 2 * k /\ Len(e4) = z
      /\ t = 1 => e2[1] = Done(0, Message(text))
      /\ \A i \in 1..k : e3[2 * i - 1] = Added(t + i - 1, Calls[i]) /\ e3[2 * i] = Done(t + i - 1, Calls[i])
      /\ z = 1 => e4[1] = Incomplete(Output, usage)
  <2>1. events \in Seq(Events)
    BY DEF EventsRead
  <2>2. e2 \in Seq(Events) /\ Len(e2) = t /\ (t = 1 => e2[1] = Done(0, Message(text)))
    <3>1. Message(text) \in OutputItems
      BY DEF ReadOK, Message, OutputItems
    <3>2. Done(0, Message(text)) \in Events
      BY <3>1, EventTypes
    <3> QED
      BY <3>2
  <2>3. /\ e3 \in Seq(Events) /\ Len(e3) = 2 * k
        /\ \A i \in 1..k : /\ e3[2 * i - 1] = Added(t + i - 1, Calls[i])
                           /\ e3[2 * i] = Done(t + i - 1, Calls[i])
    <3>1. e3 = ToldFrom(t, Calls) /\ t \in Nat
      BY <1>3
    <3> HIDE DEF e3, t
    <3> QED
      BY <1>2, <3>1, ToldFromIs
  <2>4. e4 \in Seq(Events) /\ Len(e4) = z /\ (z = 1 => e4[1] = Incomplete(Output, usage))
    <3>1. Incomplete(Output, usage) \in Events
      BY <1>2, EventTypes DEF ReadOK
    <3> HIDE DEF incomplete
    <3> QED
      BY <3>1
  <2> HIDE DEF e2, e3, e4, t, k, z
  <2> QED
    BY <2>1, <2>2, <2>3, <2>4
<1>8. PICK deltas : /\ deltas \in Seq(Seq(Letters))
                    /\ Len(events) = IF t = 1 THEN Len(deltas) + 1 ELSE 0
                    /\ t = 1 => TextIsTold(deltas)
  <2>1. CASE text_added
    BY <2>1 DEF EventsRead, TextIsTold
  <2>2. CASE ~ text_added
    <3>1. <<>> \in Seq(Seq(Letters)) /\ Len(events) = 0
      BY <2>2 DEF EventsRead
    <3>2. t # 1
      BY <2>2
    <3> HIDE DEF t
    <3> QED
      BY <3>1, <3>2
  <2> QED
    BY <2>1, <2>2
<1> DEFINE a == Len(events)
<1>9. /\ told \in Seq(Events) /\ Len(told) = a + t + 2 * k + z
      /\ \A i \in 1..a : told[i] = events[i]
      /\ \A i \in 1..t : told[a + i] = e2[i]
      /\ \A i \in 1..(2 * k) : told[a + t + i] = e3[i]
      /\ \A i \in 1..z : told[a + t + 2 * k + i] = e4[i]
  <2> HIDE DEF e2, e3, e4, t, k, z
  <2>1. /\ told \in Seq(Events) /\ Len(told) = Len(events) + Len(e2) + Len(e3) + Len(e4)
        /\ \A i \in 1..Len(events) : told[i] = events[i]
        /\ \A i \in 1..Len(e2) : told[Len(events) + i] = e2[i]
        /\ \A i \in 1..Len(e3) : told[Len(events) + Len(e2) + i] = e3[i]
        /\ \A i \in 1..Len(e4) : told[Len(events) + Len(e2) + Len(e3) + i] = e4[i]
    <3>1. /\ told = events \o e2 \o e3 \o e4
          /\ events \in Seq(Events) /\ e2 \in Seq(Events)
          /\ e3 \in Seq(Events) /\ e4 \in Seq(Events)
      BY <1>7
    <3> HIDE DEF told
    <3> QED
      BY <3>1, FourJoined
  <2> HIDE DEF told
  <2> QED
    BY <1>7, <2>1
<1>10. a \in Nat /\ DOMAIN told = 1..Len(told)
  BY <1>7, <1>9, LenProperties
<1>11. t \in {0, 1} /\ z \in {0, 1} /\ z = IF IsIncomplete(Terminal(finish_reason)) THEN 1 ELSE 0
  OBVIOUS
<1> HIDE DEF told, e2, e3, e4, t, k, z, a, incomplete
<1>12. t = 1 => /\ Output[1] = Message(FlattenSeq(deltas))
                /\ told[1] = Added(0, Message(<<>>))
                /\ \A n \in 1..Len(deltas) : told[n + 1] = Delta(0, deltas[n])
                /\ told[a + 1] = Done(0, Output[1])
  <2> SUFFICES ASSUME t = 1
               PROVE  /\ Output[1] = Message(FlattenSeq(deltas))
                      /\ told[1] = Added(0, Message(<<>>))
                      /\ \A n \in 1..Len(deltas) : told[n + 1] = Delta(0, deltas[n])
                      /\ told[a + 1] = Done(0, Output[1])
    OBVIOUS
  <2>1. TextIsTold(deltas) /\ Len(deltas) \in Nat /\ a = Len(deltas) + 1
    BY <1>8, LenProperties DEF a
  <2>2. 1 \in 1..a /\ 1 \in 1..t /\ \A n \in 1..Len(deltas) : n + 1 \in 1..a
    BY <2>1
  <2> QED
    BY <1>5, <1>7, <1>9, <2>1, <2>2 DEF TextIsTold
<1>13. \A i \in 1..k : /\ told[a + t + 2 * i - 1] = Added(t + i - 1, Output[t + i])
                       /\ told[a + t + 2 * i] = Done(t + i - 1, Output[t + i])
  <2> TAKE i \in 1..k
  <2>1. /\ 2 * i - 1 \in 1..(2 * k) /\ 2 * i \in 1..(2 * k)
        /\ a + t + (2 * i - 1) = a + t + 2 * i - 1
    BY <1>3, <1>10
  <2> QED
    BY <1>5, <1>7, <1>9, <2>1
<1>14. z = 1 => told[a + t + 2 * k + 1] = Incomplete(Output, usage)
  BY <1>7, <1>9
<1>15. ToldSo(told, Output, usage, deltas, t, k, z)
  <2>1. a = IF t = 1 THEN Len(deltas) + 1 ELSE 0
    BY <1>8 DEF a
  <2> QED
    BY <1>3, <1>4, <1>6, <1>8, <1>9, <1>10, <1>11, <1>12, <1>13, <1>14, <2>1 DEF ToldSo
<1>16. Carry(told, Output, Terminal(finish_reason), usage)
  BY <1>11, <1>15, ToldSoCarries
<1> QED
  BY <1>1, <1>16

LEMMA CarryIs ==
  /\ EventsCarryTheOutput <=>
       (result.status = "ok" => Carry(events, result.output, result.terminal, result.usage))
  /\ EventsCarryTheOutput' <=>
       (result'.status = "ok" =>
          Carry(events', result'.output, result'.terminal, result'.usage))
BY Zenon DEF EventsCarryTheOutput, Carry, ToldIn, ToldOfIn

\* Only its end lets a stream be over and well.
LEMMA StepsThatGoOn ==
  ASSUME Next
  PROVE  \/ result' = result /\ result = Reading
         \/ result' = Malformed
         \/ End /\ result'.status = "ok"
<1>1. ASSUME NEW content \in Contents, Content(content)
      PROVE  result' = result /\ result = Reading
  BY <1>1 DEF Content, Piece
<1>2. ASSUME NEW call \in ToolCalls, ToolCall(call)
      PROVE  result' = Malformed \/ (result' = result /\ result = Reading)
  BY <1>2 DEF ToolCall, Piece
<1>3. ASSUME NEW reason \in Reasons, FinishReason(reason)
      PROVE  result' = result /\ result = Reading
  BY <1>3 DEF FinishReason, Piece
<1>4. ASSUME NEW count \in Usages, Usage(count)
      PROVE  result' = result /\ result = Reading
  BY <1>4 DEF Usage, Piece
<1>5. ASSUME End
      PROVE  result' = Malformed \/ (End /\ result'.status = "ok")
  BY <1>5, EndEither, FinishedIs
<1> QED
  BY <1>1, <1>2, <1>3, <1>4, <1>5 DEF Next

LEMMA EventsCarryNext ==
  ASSUME RInv, ReadOK, EInv, EventsCarryTheOutput, [Next]_vars
  PROVE  EventsCarryTheOutput'
<1>1. CASE UNCHANGED <<events, result>>
  BY <1>1, CarryIs
<1>2. CASE result' = result /\ result = Reading
  <2>1. result'.status # "ok"
    BY <1>2, StatusesDiffer
  <2> QED
    BY <2>1 DEF EventsCarryTheOutput
<1>3. CASE result' = Malformed
  <2>1. result'.status # "ok"
    BY <1>3, StatusesDiffer
  <2> QED
    BY <2>1 DEF EventsCarryTheOutput
<1>4. CASE End /\ result'.status = "ok"
  <2>1. ReadInv /\ EventsRead
    BY <1>4, EndEither DEF RInv, EInv
  <2>2. /\ result' = Finished(Output)
        /\ Carry(events', Output, Terminal(finish_reason), usage)
    BY <1>4, <2>1, EndTells
  <2>3. /\ result'.output = Output /\ result'.terminal = Terminal(finish_reason)
        /\ result'.usage = usage
    BY <2>2, FinishedIs
  <2>4. Carry(events', result'.output, result'.terminal, result'.usage)
    BY <2>2, <2>3
  <2> QED
    BY <2>4, CarryIs
<1>5. CASE UNCHANGED vars
  BY <1>1, <1>5 DEF vars
<1> QED
  BY <1>2, <1>3, <1>4, <1>5, StepsThatGoOn

\* A client that follows the events has the output, whatever the text and the
\* calls are and however many: the indexes that the calls are told at follow
\* that of the text, if there is one.
THEOREM EventsCarryTheOutputHolds == Spec => []EventsCarryTheOutput
<1>1. Init => EInv /\ EventsCarryTheOutput
  <2> SUFFICES ASSUME Init
               PROVE  EInv /\ EventsCarryTheOutput
    OBVIOUS
  <2>1. result.status # "ok" /\ events = <<>> /\ ~ text_added
    BY StatusesDiffer DEF Init
  <2>2. events \in Seq(Events)
    BY <2>1, EmptySeq
  <2> QED
    BY <2>1, <2>2 DEF EInv, EventsRead, EventsCarryTheOutput
<1> QED
  BY <1>1, ReadHolds, TypesInit, TypesNext, EventsNext, EventsCarryNext, PTL DEF Spec

-----------------------------------------------------------------------------
(* Fragments make the whole.                                                 *)

\* An order of a set has each member of it at one place.
LEMMA OrdersAre ==
  ASSUME NEW T \in SUBSET Nat, IsFiniteSet(T), NEW order \in SetToSeqs(T)
  PROVE  LET m == Cardinality(T) IN
         /\ m \in Nat /\ order \in [1..m -> T] /\ order \in Seq(T) /\ DOMAIN order = 1..m
         /\ \A i, j \in 1..m : i # j => order[i] # order[j]
         /\ \A x \in T : \E i \in 1..m : order[i] = x
<1> DEFINE m == Cardinality(T)
<1>1. m \in Nat
  BY FS_CardinalityType
<1>2. order \in [1..m -> T] /\ \A i, j \in 1..m : i # j => order[i] # order[j]
  BY DEF SetToSeqs
<1>3. order \in Seq(T) /\ DOMAIN order = 1..m
  <2> HIDE DEF m
  <2> QED
    BY <1>1, <1>2, FunctionIsSeq
<1>4. \A x \in T : \E i \in 1..m : order[i] = x
  <2>1. order \in Injection(1..m, T)
    BY <1>2 DEF Injection, IsInjective
  <2>2. Cardinality(1..m) = m
    BY <1>1, FS_Interval
  <2>3. order \in Surjection(1..m, T)
    BY <2>1, <2>2, FS_Injection
  <2> QED
    BY <2>3 DEF Surjection
<1> QED
  BY <1>1, <1>2, <1>3, <1>4

LEMMA RanksInOrder ==
  ASSUME NEW T \in SUBSET Nat, IsFiniteSet(T), NEW order \in SetToSeqs(T),
         NEW i \in 1..Cardinality(T)
  PROVE  Cardinality({j \in 1..Cardinality(T) \ {i} : order[j] < order[i]})
           = Cardinality(Below(T, order[i]))
<1> DEFINE m == Cardinality(T)
           X == {j \in 1..m \ {i} : order[j] < order[i]}
           Y == Below(T, order[i])
           f == [j \in X |-> order[j]]
<1>1. /\ m \in Nat /\ order \in [1..m -> T]
      /\ \A j, k \in 1..m : j # k => order[j] # order[k]
      /\ \A x \in T : \E j \in 1..m : order[j] = x
  BY OrdersAre
<1>2. IsFiniteSet(X)
  <2>1. IsFiniteSet(1..m) /\ X \in SUBSET (1..m)
    BY <1>1, FS_Interval
  <2> QED
    BY <2>1, FS_Subset
<1>3. order[i] \in Nat /\ ~ (order[i] < order[i])
  <2>1. \A x \in Nat : ~ (x < x)
    OBVIOUS
  <2>2. order[i] \in T
    BY <1>1
  <2> QED
    BY <2>1, <2>2
<1>4. f \in [X -> Y] /\ \A j, k \in X : f[j] = f[k] => j = k
  BY <1>1 DEF Below
<1>5. \A y \in Y : \E j \in X : f[j] = y
  <2> TAKE y \in Y
  <2>1. y \in T /\ y < order[i]
    BY DEF Below
  <2>2. PICK j \in 1..m : order[j] = y
    BY <1>1, <2>1
  <2>3. j \in X
    BY <1>3, <2>1, <2>2
  <2> QED
    BY <2>2, <2>3
<1>6. ExistsBijection(X, Y)
  <2> HIDE DEF X, Y, f
  <2>1. f \in Bijection(X, Y)
    BY <1>4, <1>5 DEF Bijection, Injection, Surjection, IsInjective
  <2> QED
    BY <2>1 DEF ExistsBijection
<1> QED
  BY <1>2, <1>6, FS_Bijection

InOrder(T, order, calls) ==
  /\ T \in SUBSET Nat /\ IsFiniteSet(T) /\ order \in SetToSeqs(T)
  /\ DOMAIN calls = 1..Cardinality(T)
  /\ \A n \in 1..Cardinality(T) : calls[n].index = order[n]

\* Calls that have an index each are sorted by it.
LEMMA SortedByIndex ==
  ASSUME NEW T, NEW order, NEW calls, InOrder(T, order, calls)
  PROVE  \A n \in 1..Cardinality(T) : \E p \in 1..Cardinality(T) :
           /\ Cardinality(Below(T, order[p])) = n - 1
           /\ SortedCalls(calls)[n] = FunctionCall(calls[p])
<1> DEFINE m == Cardinality(T)
           Before(i, j) == \/ Precedes(calls[i], calls[j])
                           \/ i < j /\ ~ Precedes(calls[j], calls[i])
           Sooner(i) == {j \in DOMAIN calls \ {i} : Before(j, i)}
           At(n) == CHOOSE i \in DOMAIN calls : Cardinality(Sooner(i)) = n - 1
<1> USE DEF InOrder
<1>1. /\ m \in Nat /\ order \in [1..m -> T] /\ DOMAIN calls = 1..m
      /\ \A i, j \in 1..m : i # j => order[i] # order[j]
      /\ \A x \in T : \E i \in 1..m : order[i] = x
  BY OrdersAre
<1>2. \A n \in 1..m : SortedCalls(calls)[n] = FunctionCall(calls[At(n)])
  BY <1>1 DEF SortedCalls
<1>3. \A i, j \in 1..m : i # j => (Before(i, j) <=> order[i] < order[j])
  <2> SUFFICES ASSUME NEW i \in 1..m, NEW j \in 1..m, i # j
               PROVE  Before(i, j) <=> order[i] < order[j]
    OBVIOUS
  <2>1. order[i] \in Nat /\ order[j] \in Nat /\ order[i] # order[j]
    BY <1>1
  <2>2. calls[i].index = order[i] /\ calls[j].index = order[j]
    OBVIOUS
  <2>3. Precedes(calls[i], calls[j]) <=> order[i] < order[j]
    BY <2>1, <2>2, NoneAssumption DEF Precedes, Place
  <2>4. Precedes(calls[j], calls[i]) <=> order[j] < order[i]
    BY <2>1, <2>2, NoneAssumption DEF Precedes, Place
  <2> QED
    BY <2>1, <2>3, <2>4
<1>4. ASSUME NEW i \in 1..m
      PROVE  Cardinality(Sooner(i)) = Cardinality(Below(T, order[i]))
  <2>1. Sooner(i) = {j \in 1..m \ {i} : order[j] < order[i]}
    BY <1>1, <1>3
  <2> QED
    BY <2>1, RanksInOrder
<1>5. ASSUME NEW n \in 1..m
      PROVE  At(n) \in 1..m /\ Cardinality(Below(T, order[At(n)])) = n - 1
  <2>1. PICK x \in T : Cardinality(Below(T, x)) = n - 1
    BY RankExists
  <2>2. PICK i \in 1..m : order[i] = x
    BY <1>1
  <2>3. Cardinality(Sooner(i)) = n - 1
    BY <1>4, <2>1, <2>2
  <2> HIDE DEF Sooner
  <2>4. At(n) \in 1..m /\ Cardinality(Sooner(At(n))) = n - 1
    BY <1>1, <2>3
  <2> QED
    BY <1>4, <2>4
<1> QED
  BY <1>2, <1>5

\* What is read stays as it is when nothing is read.
LEMMA WholeStays ==
  ASSUME UNCHANGED pieces
  PROVE  /\ Indexes' = Indexes /\ LastReason' = LastReason /\ NoChoice' = NoChoice
         /\ \A order : WholeResponse(order)' = WholeResponse(order)
<1>1. \A kind : PiecesOf(kind)' = PiecesOf(kind)
  BY DEF PiecesOf
<1>2. \A i : FragmentsOf(i)' = FragmentsOf(i)
  BY <1>1 DEF FragmentsOf
<1>3. /\ Indexes' = Indexes /\ LastReason' = LastReason
      /\ \A i : Ids(i)' = Ids(i) /\ Names(i)' = Names(i)
  BY PiecesStay
<1>4. TextOfPieces' = TextOfPieces
  BY <1>1 DEF TextOfPieces
<1>5. \A i : Arguments(i)' = Arguments(i)
  BY <1>2 DEF Arguments
<1>6. LastOf("usage")' = LastOf("usage") /\ NoChoice' = NoChoice
  BY <1>1 DEF LastOf, NoChoice
<1>7. ASSUME NEW order
      PROVE  WholeResponse(order)' = WholeResponse(order)
  BY <1>3, <1>4, <1>5, <1>6 DEF WholeResponse
<1> QED
  BY <1>3, <1>6, <1>7

\* There is no finish reason where there is no choice.
LEMMA NoChoiceNoReason == NoChoice => LastReason = None
<1> SUFFICES ASSUME NoChoice
             PROVE  LastReason = None
  OBVIOUS
<1>1. PiecesOf("finish_reason") = {}
  BY DEF NoChoice, PiecesOf
<1> QED
  BY <1>1 DEF LastReason, LastOf

\* Where the calls of a stream are whole, the response they are the fragments
\* of has the same.
LEMMA CallsMakeTheWhole ==
  ASSUME ReadInv, ReadOK, CallsAreWhole, NEW order \in SetToSeqs(Indexes)
  PROVE  LET Call(index) == [index |-> index, id |-> CHOOSE id \in Ids(index) : TRUE,
                             name |-> CHOOSE name \in Names(index) : TRUE,
                             arguments |-> Arguments(index)]
             calls == [n \in DOMAIN order |-> Call(order[n])]
         IN  /\ calls \in Seq([index : Nat, id : {c.id : c \in ToolCalls},
                               name : {c.name : c \in ToolCalls}, arguments : Seq(Letters)])
             /\ SortedCalls(calls) = GeneratedCalls
<1> DEFINE Call(index) == [index |-> index, id |-> CHOOSE id \in Ids(index) : TRUE,
                           name |-> CHOOSE name \in Names(index) : TRUE,
                           arguments |-> Arguments(index)]
           calls == [n \in DOMAIN order |-> Call(order[n])]
           WholeCalls == [index : Nat, id : {c.id : c \in ToolCalls},
                          name : {c.name : c \in ToolCalls}, arguments : Seq(Letters)]
           m == Cardinality(Indexes)
<1>1. DOMAIN tool_calls = Indexes /\ Indexes \in SUBSET Nat /\ IsFiniteSet(Indexes)
  BY DEF ReadInv, CallsAreRead, ReadOK, BuildersOK
<1>2. /\ m \in Nat /\ order \in [1..m -> Indexes] /\ DOMAIN order = 1..m
  BY <1>1, OrdersAre
<1>3. ASSUME NEW i \in Indexes
      PROVE  /\ Call(i).index = i /\ Call(i) \in WholeCalls
             /\ FunctionCall(Call(i)) = FunctionCall(tool_calls[i])
  <2>1. tool_calls[i].id # None /\ tool_calls[i].name # None
    BY <1>1 DEF CallsAreWhole
  <2>2. Ids(i) = {tool_calls[i].id} /\ Names(i) = {tool_calls[i].name}
    BY <2>1, ReadersAgree
  <2>3. (CHOOSE id \in Ids(i) : TRUE) = tool_calls[i].id
    BY <2>2
  <2>4. (CHOOSE name \in Names(i) : TRUE) = tool_calls[i].name
    BY <2>2
  <2>5. tool_calls[i].arguments = Arguments(i)
    <3>1. BuilderIsRead(i) /\ Builder(i) = tool_calls[i]
      BY <1>1 DEF ReadInv, CallsAreRead, Builder
    <3> QED
      BY <3>1 DEF BuilderIsRead
  <2>6. /\ tool_calls[i].id \in GivenIds /\ tool_calls[i].name \in GivenNames
        /\ tool_calls[i].arguments \in Seq(Letters)
    BY <1>1, <2>1 DEF ReadOK, BuildersOK
  <2>7. Call(i) = [index |-> i, id |-> tool_calls[i].id, name |-> tool_calls[i].name,
                   arguments |-> tool_calls[i].arguments]
    BY <2>3, <2>4, <2>5
  <2> HIDE DEF Call
  <2>8. i \in Nat
    BY <1>1
  <2>9. Call(i) \in WholeCalls
    BY <2>6, <2>7, <2>8 DEF GivenIds, GivenNames
  <2>10. FunctionCall(Call(i)) = FunctionCall(tool_calls[i])
    BY <2>7 DEF FunctionCall
  <2> QED
    BY <2>7, <2>9, <2>10
<1> HIDE DEF Call, WholeCalls
<1>4. /\ DOMAIN calls = 1..m /\ calls = [n \in 1..m |-> calls[n]]
      /\ \A n \in 1..m : calls[n] = Call(order[n]) /\ order[n] \in Indexes
  BY <1>2
<1> HIDE DEF calls
<1>5. calls \in Seq(WholeCalls)
  <2>1. \A n \in 1..m : calls[n] \in WholeCalls
    BY <1>3, <1>4
  <2> HIDE DEF m
  <2>2. calls \in [1..m -> WholeCalls]
    BY <1>4, <2>1
  <2> QED
    BY <1>2, <2>2, FunctionIsSeq
<1>6. \A n \in 1..m : calls[n].index = order[n]
  BY <1>3, <1>4
<1>7. \A n \in 1..m : \E p \in 1..m :
        /\ Cardinality(Below(Indexes, order[p])) = n - 1
        /\ SortedCalls(calls)[n] = FunctionCall(calls[p])
  <2>1. InOrder(Indexes, order, calls)
    BY <1>1, <1>4, <1>6 DEF InOrder
  <2> QED
    BY <2>1, SortedByIndex
<1>8. /\ \A n \in 1..m : /\ \A k \in Indexes : Cardinality(Below(Indexes, k)) = n - 1 => k = CallAt(n)
                         /\ GeneratedCalls[n] = FunctionCall(tool_calls[CallAt(n)])
  BY <1>1, CallsByRank DEF ReadOK
<1>9. /\ GeneratedCalls = [n \in 1..m |-> GeneratedCalls[n]]
      /\ SortedCalls(calls) = [n \in 1..m |-> SortedCalls(calls)[n]]
  BY <1>1, <1>4 DEF GeneratedCalls, SortedCalls
<1>10. \A n \in 1..m : SortedCalls(calls)[n] = GeneratedCalls[n]
  <2> TAKE n \in 1..m
  <2>1. PICK p \in 1..m : /\ Cardinality(Below(Indexes, order[p])) = n - 1
                          /\ SortedCalls(calls)[n] = FunctionCall(calls[p])
    BY <1>7
  <2>2. order[p] \in Indexes /\ order[p] = CallAt(n)
    BY <1>4, <1>8, <2>1
  <2>3. FunctionCall(calls[p]) = FunctionCall(tool_calls[order[p]])
    BY <1>3, <1>4, <2>2
  <2> QED
    BY <1>8, <2>1, <2>2, <2>3
<1>11. SortedCalls(calls) = GeneratedCalls
  <2> HIDE DEF m
  <2> QED
    BY <1>9, <1>10
<1> QED
  BY <1>5, <1>11 DEF calls, Call, WholeCalls

LEMMA NoneIsNoMessage ==
  \A content \in Seq(Letters),
     calls \in Seq([index : Nat, id : {c.id : c \in ToolCalls},
                    name : {c.name : c \in ToolCalls}, arguments : Seq(Letters)]) :
    [content |-> content, tool_calls |-> calls] # None
<1> DEFINE WholeCalls == [index : Nat, id : {c.id : c \in ToolCalls},
                          name : {c.name : c \in ToolCalls}, arguments : Seq(Letters)]
<1>1. None \notin [content : Seq(Letters), tool_calls : Seq(WholeCalls)]
  BY NoneAssumption
<1> HIDE DEF WholeCalls
<1>2. \A content \in Seq(Letters), calls \in Seq(WholeCalls) :
        [content |-> content, tool_calls |-> calls]
          \in [content : Seq(Letters), tool_calls : Seq(WholeCalls)]
  OBVIOUS
<1> QED
  BY <1>1, <1>2 DEF WholeCalls

\* The translation of a response of one choice with a message and a finish reason.
LEMMA NonStreamingIs ==
  ASSUME NEW content, NEW calls, NEW reason, NEW used,
         [content |-> content, tool_calls |-> calls] # None, reason # None
  PROVE  NonStreaming([usage |-> used,
                       choices |-> <<[message |-> [content |-> content, tool_calls |-> calls],
                                      finish_reason |-> reason]>>])
           = [status |-> "ok",
              output |-> (IF content = <<>> THEN <<>> ELSE <<Message(content)>>)
                           \o SortedCalls(calls),
              usage |-> IF used = None THEN NoUsage ELSE UsageFromChat(used),
              terminal |-> Terminal(reason)]
<1> DEFINE message == [content |-> content, tool_calls |-> calls]
           choice == [message |-> message, finish_reason |-> reason]
           response == [usage |-> used, choices |-> <<choice>>]
<1>1. message.content = content /\ message.tool_calls = calls
  OBVIOUS
<1> HIDE DEF message
<1>2. choice.message = message /\ choice.finish_reason = reason
  OBVIOUS
<1> HIDE DEF choice
<1>3. /\ response.usage = used /\ response.choices = <<choice>>
      /\ <<choice>> # <<>> /\ Head(<<choice>>) = choice
  OBVIOUS
<1>4. message # None
  BY DEF message
<1> HIDE DEF response
<1>5. NonStreaming(response)
        = [status |-> "ok",
           output |-> (IF message.content = <<>> THEN <<>> ELSE <<Message(message.content)>>)
                        \o SortedCalls(message.tool_calls),
           usage |-> IF used = None THEN NoUsage ELSE UsageFromChat(used),
           terminal |-> Terminal(reason)]
  BY <1>2, <1>3, <1>4 DEF NonStreaming
<1> QED
  BY <1>1, <1>5 DEF response, choice, message

LEMMA EndMakesTheWhole ==
  ASSUME ReadInv, ReadOK, End, result'.status = "ok", NEW order \in SetToSeqs(Indexes)
  PROVE  /\ LastReason # None /\ (Indexes = {} \/ LastReason = "tool_calls") =>
              result' = NonStreaming(WholeResponse(order))
         /\ NoChoice =>
              /\ result'.terminal = "done_without_finish_reason"
              /\ NonStreaming(WholeResponse(order)).status # "ok"
<1> DEFINE Call(index) == [index |-> index, id |-> CHOOSE id \in Ids(index) : TRUE,
                           name |-> CHOOSE name \in Names(index) : TRUE,
                           arguments |-> Arguments(index)]
           calls == [n \in DOMAIN order |-> Call(order[n])]
           WholeCalls == [index : Nat, id : {c.id : c \in ToolCalls},
                          name : {c.name : c \in ToolCalls}, arguments : Seq(Letters)]
<1>1. /\ finish_reason = "tool_calls" => CallsAreWhole
      /\ result' = Finished(Output)
  BY EndEither, StatusesDiffer
<1>2. /\ finish_reason = LastReason /\ text = TextOfPieces /\ text_added = (text # <<>>)
      /\ usage = IF LastOf("usage") = None THEN NoUsage ELSE UsageFromChat(LastOf("usage"))
      /\ text \in Seq(Letters) /\ Indexes = DOMAIN tool_calls
  BY DEF ReadInv, TextIsRead, UsageIsRead, CallsAreRead, ReadOK
<1>3. ASSUME LastReason # None, Indexes = {} \/ LastReason = "tool_calls"
      PROVE  result' = NonStreaming(WholeResponse(order))
  <2>1. calls \in Seq(WholeCalls) /\ SortedCalls(calls) = Calls
    <3>1. CASE LastReason = "tool_calls"
      <4>1. Calls = GeneratedCalls /\ CallsAreWhole
        BY <1>1, <1>2, <3>1 DEF Calls
      <4> QED
        BY <4>1, CallsMakeTheWhole
    <3>2. CASE LastReason # "tool_calls"
      <4>1. DOMAIN tool_calls = {}
        BY <1>2, <1>3, <3>2
      <4>2. CallsAreWhole
        BY <4>1 DEF CallsAreWhole
      <4>3. calls \in Seq(WholeCalls) /\ SortedCalls(calls) = GeneratedCalls
        BY <4>2, CallsMakeTheWhole
      <4>4. GeneratedCalls = <<>>
        BY <4>1, FS_EmptySet DEF GeneratedCalls
      <4>5. Calls = <<>>
        BY <1>2, <3>2 DEF Calls
      <4> HIDE DEF calls, WholeCalls
      <4> QED
        BY <4>3, <4>4, <4>5
    <3> QED
      BY <3>1, <3>2
  <2>2. ~ NoChoice
    BY <1>3, NoChoiceNoReason
  <2>3. WholeResponse(order) =
          [usage |-> LastOf("usage"),
           choices |-> <<[message |-> [content |-> text, tool_calls |-> calls],
                          finish_reason |-> LastReason]>>]
    BY <1>2, <2>2 DEF WholeResponse
  <2>4. [content |-> text, tool_calls |-> calls] # None
    BY <1>2, <2>1, NoneIsNoMessage
  <2> HIDE DEF calls
  <2>5. NonStreaming(WholeResponse(order))
          = [status |-> "ok",
             output |-> (IF text = <<>> THEN <<>> ELSE <<Message(text)>>) \o SortedCalls(calls),
             usage |-> IF LastOf("usage") = None THEN NoUsage ELSE UsageFromChat(LastOf("usage")),
             terminal |-> Terminal(LastReason)]
    BY <1>3, <2>3, <2>4, NonStreamingIs
  <2>6. (IF text = <<>> THEN <<>> ELSE <<Message(text)>>) = TextItems
    BY <1>2 DEF TextItems
  <2> QED
    BY <1>1, <1>2, <2>1, <2>5, <2>6 DEF Finished, Output
<1>4. ASSUME NoChoice
      PROVE  /\ result'.terminal = "done_without_finish_reason"
             /\ NonStreaming(WholeResponse(order)).status # "ok"
  <2>1. Terminal(None) = "done_without_finish_reason"
    BY NoneAssumption DEF Terminal
  <2>2. result'.terminal = Terminal(None)
    BY <1>1, <1>2, <1>4, NoChoiceNoReason, FinishedIs
  <2>3. WholeResponse(order).choices = <<>>
    BY <1>4 DEF WholeResponse
  <2>4. NonStreaming(WholeResponse(order)) = [status |-> "upstream_error"]
    BY <2>3 DEF NonStreaming
  <2> QED
    BY <2>1, <2>2, <2>4
<1> QED
  BY <1>3, <1>4

LEMMA FragmentsNext ==
  ASSUME RInv, ReadOK, FragmentsMakeTheWhole, [Next]_vars
  PROVE  FragmentsMakeTheWhole'
<1> SUFFICES ASSUME result'.status = "ok", NEW order \in SetToSeqs(Indexes)'
             PROVE  /\ LastReason' # None /\ (Indexes' = {} \/ LastReason' = "tool_calls") =>
                         result' = NonStreaming(WholeResponse(order)')
                    /\ NoChoice' =>
                         /\ result'.terminal = "done_without_finish_reason"
                         /\ NonStreaming(WholeResponse(order)').status # "ok"
  BY DEF FragmentsMakeTheWhole
<1>1. CASE End
  <2>1. ReadInv /\ UNCHANGED pieces
    BY <1>1, EndEither DEF RInv
  <2>2. /\ Indexes' = Indexes /\ LastReason' = LastReason /\ NoChoice' = NoChoice
        /\ WholeResponse(order)' = WholeResponse(order)
    BY <2>1, WholeStays
  <2>3. order \in SetToSeqs(Indexes)
    BY <2>2
  <2> QED
    BY <1>1, <2>1, <2>2, <2>3, EndMakesTheWhole
<1>2. CASE UNCHANGED vars
  <2>1. UNCHANGED <<pieces, result>>
    BY <1>2 DEF vars
  <2>2. /\ Indexes' = Indexes /\ LastReason' = LastReason /\ NoChoice' = NoChoice
        /\ WholeResponse(order)' = WholeResponse(order)
    BY <2>1, WholeStays
  <2>3. order \in SetToSeqs(Indexes) /\ result.status = "ok"
    BY <2>1, <2>2
  <2>4. /\ LastReason # None /\ (Indexes = {} \/ LastReason = "tool_calls") =>
             result = NonStreaming(WholeResponse(order))
        /\ NoChoice =>
             /\ result.terminal = "done_without_finish_reason"
             /\ NonStreaming(WholeResponse(order)).status # "ok"
    BY <2>3 DEF FragmentsMakeTheWhole
  <2> QED
    BY <2>1, <2>2, <2>4
<1>3. ASSUME Next
      PROVE  End
  BY <1>3, StepsThatGoOn, StatusesDiffer
<1> QED
  BY <1>1, <1>2, <1>3

\* However an answer is cut into fragments, its translation is that of the
\* answer in one piece: for any text and calls, cut in any way, and whichever
\* order the calls come in.
THEOREM FragmentsMakeTheWholeHolds == Spec => []FragmentsMakeTheWhole
<1>1. Init => FragmentsMakeTheWhole
  BY StatusesDiffer DEF Init, FragmentsMakeTheWhole
<1> QED
  BY <1>1, ReadHolds, TypesInit, TypesNext, FragmentsNext, PTL DEF Spec
=============================================================================
