------------------------ MODULE UpstreamClientProofs -------------------------
(***************************************************************************)
(* What a call to the backend may return, and that it does not matter      *)
(* where the network cuts an answer: for every set of symbols, every bound *)
(* and every configuration.                                                *)
(***************************************************************************)
EXTENDS UpstreamClient, Integers, SequenceTheorems, WellFoundedInduction, TLAPS

-----------------------------------------------------------------------------
(* The requests.                                                             *)

\* What is known of the requests and the last response wherever the call is:
\* a second request is made only after the first was refused, and it has no
\* stream_options; nothing has arrived before a response is a success.
Retrying ==
  \/ requests = <<TRUE>>
  \/ requests = <<FALSE>>
  \/ requests = <<TRUE, FALSE>> /\ retry /\ streamed

Waiting ==
  /\ pc \in {"send", "response", "reading", "draining", "done"}
  /\ pc = "send" => status \in {"none", "client_error"}
  /\ pc \in {"send", "response"} => body = <<>> /\ result = "none"
  /\ pc \in {"reading", "draining"} => status = "success" /\ result = "none"
  /\ pc = "draining" => streamed

Decided ==
  /\ body # <<>> \/ result \in {"ok", "malformed_stream"} => status = "success"
  /\ result = "malformed_stream" => streamed
  /\ pc = "done" => (result = "upstream_authentication_failed" <=> status = "auth")

CInv == Retrying /\ Waiting /\ Decided

\* What the second request adds to the first.
LEMMA AppendToOne ==
  ASSUME NEW S, NEW b \in S, NEW c \in S
  PROVE  Append(<<b>>, c) = <<b, c>>
<1> DEFINE one == <<b>>
           two == <<b, c>>
<1>1. one \in Seq(S) /\ Len(one) = 1 /\ one[1] = b
  OBVIOUS
<1>2. two \in Seq(S) /\ Len(two) = 2 /\ two[1] = b /\ two[2] = c
  OBVIOUS
<1>3. /\ Append(one, c) \in Seq(S)
      /\ Len(Append(one, c)) = Len(one) + 1
      /\ Append(one, c)[Len(one) + 1] = c
      /\ \A i \in 1..Len(one) : Append(one, c)[i] = one[i]
  BY <1>1, AppendProperties
<1> HIDE DEF one, two
<1>4. Append(one, c) = two
  BY <1>1, <1>2, <1>3, SMTT(30)
<1> QED
  BY <1>4 DEF one, two

LEMMA RetryingBoundsRequests ==
  ASSUME Retrying
  PROVE  Len(requests) <= 2 /\ (Len(requests) = 2 => requests = <<TRUE, FALSE>> /\ retry /\ streamed)
<1>1. /\ \A b : Len(<<b>>) = 1
      /\ \A b, c : Len(<<b, c>>) = 2
  OBVIOUS
<1>2. CASE requests = <<TRUE>>
  BY <1>1, <1>2
<1>3. CASE requests = <<FALSE>>
  BY <1>1, <1>3
<1>4. CASE requests = <<TRUE, FALSE>> /\ retry /\ streamed
  BY <1>1, <1>4
<1> QED
  BY <1>2, <1>3, <1>4 DEF Retrying

LEMMA CInvIsEnough == CInv => LastResponseDecides
BY RetryingBoundsRequests DEF CInv, Decided, LastResponseDecides

LEMMA CallInit == Init => CInv
<1> SUFFICES ASSUME Init
             PROVE  CInv
  OBVIOUS
<1>1. PICK c \in Configurations : requests = <<c.stream_options>>
  BY DEF Init
<1>2. c.stream_options \in BOOLEAN
  BY ConfigurationsAssumption
<1>3. Retrying
  BY <1>1, <1>2 DEF Retrying
<1>4. Waiting /\ Decided
  BY DEF Init, Waiting, Decided
<1> QED
  BY <1>3, <1>4 DEF CInv

\* The requests change only when one is repeated without stream_options.
LEMMA RetryingStays ==
  ASSUME Retrying, UNCHANGED <<requests, configured>>
  PROVE  Retrying'
BY DEF Retrying, configured

LEMMA SendRequestKeeps ==
  ASSUME CInv, SendRequest
  PROVE  CInv'
<1>1. Retrying'
  BY RetryingStays DEF CInv, SendRequest, Return
<1>2. Waiting' /\ Decided'
  BY DEF CInv, Waiting, Decided, SendRequest, Return, configured, bodyVars
<1> QED
  BY <1>1, <1>2 DEF CInv

LEMMA CheckRetryKeeps ==
  ASSUME CInv, CheckRetry
  PROVE  CInv'
<1>1. /\ pc = "response" /\ Len(requests) = 1 /\ retry /\ Last(requests)
      /\ streamed /\ status = "client_error" /\ UNCHANGED <<body, buffer, chunks>>
  BY DEF CheckRetry, MayRepeat, IsRetryCandidate, bodyVars
<1>2. CASE pc' = "send" /\ requests' = Append(requests, FALSE) /\ UNCHANGED <<configured, status, result>>
  <2>1. requests # <<FALSE>>
    <3> SUFFICES ASSUME requests = <<FALSE>>
                 PROVE  FALSE
      OBVIOUS
    <3>1. Last(requests) = <<FALSE>>[1]
      BY <1>1 DEF Last
    <3> QED
      BY <1>1, <3>1
  <2>2. requests # <<TRUE, FALSE>>
    <3> SUFFICES ASSUME requests = <<TRUE, FALSE>>
                 PROVE  FALSE
      OBVIOUS
    <3>1. Len(<<TRUE, FALSE>>) = 2
      OBVIOUS
    <3>2. Len(requests) = 2 /\ Len(requests) = 1
      BY <1>1, <3>1, ZenonT(30)
    <3> QED
      BY <3>2
  <2>3. requests = <<TRUE>>
    BY <2>1, <2>2 DEF CInv, Retrying
  <2>4. requests' = <<TRUE, FALSE>>
    <3>1. \A b, c \in BOOLEAN : Append(<<b>>, c) = <<b, c>>
      BY AppendToOne
    <3> QED
      BY <1>2, <2>3, <3>1, Zenon
  <2>5. Retrying'
    BY <1>1, <1>2, <2>4 DEF Retrying, configured
  <2>6. Waiting' /\ Decided'
    BY <1>1, <1>2 DEF CInv, Waiting, Decided, configured
  <2> QED
    BY <2>5, <2>6 DEF CInv
<1>3. CASE Return("upstream_error")
  <2>1. Retrying'
    BY <1>3, RetryingStays DEF CInv, Return
  <2>2. Waiting' /\ Decided'
    BY <1>1, <1>3 DEF CInv, Waiting, Decided, Return, configured
  <2> QED
    BY <2>1, <2>2 DEF CInv
<1> QED
  BY <1>2, <1>3 DEF CheckRetry

LEMMA ValidateKeeps ==
  ASSUME CInv, Validate
  PROVE  CInv'
<1>1. Retrying'
  BY RetryingStays DEF CInv, Validate, Return
<1>2. Waiting' /\ Decided'
  BY DEF CInv, Waiting, Decided, Validate, Return, configured, bodyVars
<1> QED
  BY <1>1, <1>2 DEF CInv

\* Once a response is a success, its body may grow and the call may end.
LEMMA ReadingKeeps ==
  ASSUME CInv, pc \in {"reading", "draining"},
         \/ /\ pc' = "reading" \/ (pc' = "draining" /\ streamed)
            /\ UNCHANGED <<requests, configured, status, result>>
         \/ \E value \in {"ok", "upstream_error", "malformed_stream"} :
              Return(value) /\ (value = "malformed_stream" => streamed)
  PROVE  CInv'
<1>1. Retrying'
  BY RetryingStays DEF CInv, Return
<1>2. Waiting' /\ Decided'
  BY DEF CInv, Waiting, Decided, Return, configured
<1> QED
  BY <1>1, <1>2 DEF CInv

LEMMA CallStep == CInv /\ [Next]_vars => CInv'
<1> SUFFICES ASSUME CInv, [Next]_vars
             PROVE  CInv'
  OBVIOUS
<1>1. CASE SendRequest
  BY <1>1, SendRequestKeeps
<1>2. CASE CheckRetry
  BY <1>2, CheckRetryKeeps
<1>3. CASE Validate
  BY <1>3, ValidateKeeps
<1>4. CASE TakeFrame
  BY <1>4, ReadingKeeps DEF TakeFrame, Parse, callVars, CInv, Waiting
<1>5. CASE Drained
  BY <1>5, ReadingKeeps DEF Drained
<1>6. CASE Flush
  BY <1>6, ReadingKeeps DEF Flush, Parse
<1>7. CASE Break
  BY <1>7, ReadingKeeps DEF Break
<1>8. CASE \E piece \in Pieces : Arrive(piece)
  BY <1>8, ReadingKeeps DEF Arrive
<1>9. CASE ReadAnswer
  BY <1>9, ReadingKeeps DEF ReadAnswer
<1>10. CASE UNCHANGED vars
  BY <1>10, RetryingStays DEF CInv, Waiting, Decided, vars, callVars, configured, bodyVars
<1> QED
  BY <1>1, <1>2, <1>3, <1>4, <1>5, <1>6, <1>7, <1>8, <1>9, <1>10 DEF Next, Drain

\* Whatever the backend answers, a call makes two requests at most and its
\* result is that of the last response
\* (send_with_stream_options_retry, mod.rs:81-101).
THEOREM LastResponseDecidesHolds == Spec => []LastResponseDecides
BY CallInit, CallStep, CInvIsEnough, PTL DEF Spec

-----------------------------------------------------------------------------
(* Natural numbers: the least one of a set, and induction by it.             *)

LEMMA LeastNatural ==
  ASSUME NEW T, T \subseteq Nat, T # {}
  PROVE  \E x \in T : \A y \in T : x <= y
<1> DEFINE R == OpToRel(<, Nat)
<1>1. \A x, y \in Nat : <<y, x>> \in R <=> y < x
  BY DEF OpToRel
<1>2. IsWellFoundedOn(R, Nat)
  BY NatLessThanWellFounded
<1> HIDE DEF R
<1>3. PICK x \in T : \A y \in T : ~ (<<y, x>> \in R)
  BY <1>2, WFMin
<1>4. x \in Nat /\ \A y \in T : y \in Nat /\ ~ (y < x)
  BY <1>1, <1>3
<1>5. \A y \in T : x <= y
  BY <1>4
<1> QED
  BY <1>5

LEMMA SetInduction ==
  ASSUME NEW T, 0 \in T, \A n \in Nat : n \in T => n + 1 \in T
  PROVE  \A n \in Nat : n \in T
<1> SUFFICES ASSUME Nat \ T # {}
             PROVE  FALSE
  OBVIOUS
<1>1. PICK x \in Nat \ T : \A y \in Nat \ T : x <= y
  BY LeastNatural
<1>2. x - 1 \in Nat
  BY <1>1
<1>3. x - 1 \in T
  BY <1>1, <1>2
<1> QED
  BY <1>1, <1>2, <1>3

-----------------------------------------------------------------------------
(* What sequences are joined to.                                             *)

\* The join of s up to each of its places.
IsJoin(f, s) ==
  f = [i \in 1..Len(s) |-> IF i = 1 THEN s[i] ELSE f[i - 1] \o s[i]]

LEMMA JoinIsUnique ==
  ASSUME NEW S, NEW s \in Seq(S), NEW f, NEW g, IsJoin(f, s), IsJoin(g, s)
  PROVE  \A i \in 1..Len(s) : f[i] = g[i]
<1> DEFINE T == {n \in Nat : n \in 1..Len(s) => f[n] = g[n]}
<1>1. Len(s) \in Nat
  OBVIOUS
<1>2. 0 \in T
  OBVIOUS
<1>3. ASSUME NEW n \in Nat, n \in T
      PROVE  n + 1 \in T
  <2> SUFFICES ASSUME n + 1 \in 1..Len(s)
               PROVE  f[n + 1] = g[n + 1]
    OBVIOUS
  <2>1. /\ f[n + 1] = IF n + 1 = 1 THEN s[n + 1] ELSE f[(n + 1) - 1] \o s[n + 1]
        /\ g[n + 1] = IF n + 1 = 1 THEN s[n + 1] ELSE g[(n + 1) - 1] \o s[n + 1]
    BY DEF IsJoin
  <2>2. n + 1 # 1 => n \in 1..Len(s) /\ (n + 1) - 1 = n
    BY <1>1
  <2>3. n + 1 # 1 => f[n] = g[n]
    BY <1>3, <2>2
  <2> QED
    BY <2>1, <2>2, <2>3
<1> HIDE DEF T
<1>4. \A n \in Nat : n \in T
  BY <1>2, <1>3, SetInduction
<1> QED
  BY <1>1, <1>4 DEF T

LEMMA JoinExists ==
  ASSUME NEW L, NEW s \in Seq(Seq(L))
  PROVE  \E f \in [1..Len(s) -> Seq(L)] : IsJoin(f, s)
<1> DEFINE Q == Seq(L)
           Joins(n) == \A r \in [1..n -> Q] : \E f \in [1..n -> Q] :
                         \A i \in 1..n : f[i] = IF i = 1 THEN r[i] ELSE f[i - 1] \o r[i]
           T == {n \in Nat : Joins(n)}
<1>1. \A x, y \in Q : x \o y \in Q
  OBVIOUS
<1> HIDE DEF Q
<1>2. 0 \in T
  <2>1. \A r \in [1..0 -> Q] : r \in [1..0 -> Q] /\ 1..0 = {}
    OBVIOUS
  <2> QED
    BY <2>1
<1>3. ASSUME NEW n \in Nat, n \in T
      PROVE  n + 1 \in T
  <2> SUFFICES ASSUME NEW r \in [1..(n + 1) -> Q]
               PROVE  \E g \in [1..(n + 1) -> Q] :
                        \A i \in 1..(n + 1) : g[i] = IF i = 1 THEN r[i] ELSE g[i - 1] \o r[i]
    <3>1. Joins(n + 1) => n + 1 \in T
      <4> HIDE DEF Joins
      <4> QED
        OBVIOUS
    <3> QED
      BY <3>1
  <2>1. [i \in 1..n |-> r[i]] \in [1..n -> Q]
    OBVIOUS
  <2>2. PICK f \in [1..n -> Q] :
          \A i \in 1..n : f[i] = IF i = 1 THEN r[i] ELSE f[i - 1] \o r[i]
    <3> DEFINE q == [j \in 1..n |-> r[j]]
    <3>1. PICK f \in [1..n -> Q] : \A i \in 1..n : f[i] = IF i = 1 THEN q[i] ELSE f[i - 1] \o q[i]
      BY <1>3, <2>1
    <3>2. \A i \in 1..n : q[i] = r[i]
      OBVIOUS
    <3> HIDE DEF q
    <3> QED
      BY <3>1, <3>2
  <2> DEFINE g == [i \in 1..(n + 1) |-> IF i <= n THEN f[i]
                                        ELSE IF i = 1 THEN r[i] ELSE f[i - 1] \o r[i]]
  <2>3. \A i \in 1..(n + 1) : g[i] \in Q
    <3> SUFFICES ASSUME NEW i \in 1..(n + 1)
                 PROVE  g[i] \in Q
      OBVIOUS
    <3>1. CASE i <= n
      BY <3>1
    <3>2. CASE ~ (i <= n) /\ i = 1
      BY <3>2
    <3>3. CASE ~ (i <= n) /\ i # 1
      <4>1. i - 1 \in 1..n
        BY <3>3
      <4>2. f[i - 1] \in Q /\ r[i] \in Q
        BY <4>1
      <4> QED
        BY <1>1, <3>3, <4>2
    <3> QED
      BY <3>1, <3>2, <3>3
  <2>4. \A i \in 1..(n + 1) : g[i] = IF i = 1 THEN r[i] ELSE g[i - 1] \o r[i]
    <3> SUFFICES ASSUME NEW i \in 1..(n + 1)
                 PROVE  g[i] = IF i = 1 THEN r[i] ELSE g[i - 1] \o r[i]
      OBVIOUS
    <3>1. i # 1 => i - 1 \in 1..(n + 1) /\ i - 1 <= n
      OBVIOUS
    <3>2. i # 1 => g[i - 1] = f[i - 1]
      BY <3>1
    <3>3. ASSUME i <= n
          PROVE  f[i] = IF i = 1 THEN r[i] ELSE f[i - 1] \o r[i]
      <4>1. i \in 1..n
        BY <3>3
      <4> QED
        BY <2>2, <4>1
    <3> QED
      BY <3>2, <3>3
  <2>5. g = [i \in 1..(n + 1) |-> g[i]]
    OBVIOUS
  <2> HIDE DEF g
  <2>6. g \in [1..(n + 1) -> Q]
    BY <2>3, <2>5
  <2> QED
    BY <2>4, <2>6
<1> HIDE DEF T
<1>4. Len(s) \in Nat /\ s \in [1..Len(s) -> Q]
  BY LenProperties DEF Q
<1>5. Len(s) \in T
  BY <1>2, <1>3, <1>4, SetInduction
<1>6. PICK f \in [1..Len(s) -> Q] :
        \A i \in 1..Len(s) : f[i] = IF i = 1 THEN s[i] ELSE f[i - 1] \o s[i]
  BY <1>4, <1>5 DEF T
<1>7. f = [i \in 1..Len(s) |-> IF i = 1 THEN s[i] ELSE f[i - 1] \o s[i]]
  BY <1>6
<1> QED
  BY <1>6, <1>7 DEF Q, IsJoin

LEMMA FlattenIsJoin ==
  ASSUME NEW L, NEW s \in Seq(Seq(L)), Len(s) # 0, NEW f, IsJoin(f, s)
  PROVE  FlattenSeq(s) = f[Len(s)]
<1> DEFINE g == CHOOSE h : h = [i \in 1..Len(s) |-> IF i = 1 THEN s[i] ELSE h[i - 1] \o s[i]]
<1>1. IsJoin(g, s)
  BY DEF IsJoin
<1>2. FlattenSeq(s) = g[Len(s)]
  BY DEF FlattenSeq
<1> HIDE DEF g
<1>3. Len(s) \in 1..Len(s)
  OBVIOUS
<1> QED
  BY <1>1, <1>2, <1>3, JoinIsUnique

LEMMA FlattenType ==
  ASSUME NEW L, NEW s \in Seq(Seq(L))
  PROVE  FlattenSeq(s) \in Seq(L)
<1>1. CASE Len(s) = 0
  <2>1. FlattenSeq(s) = s /\ s = <<>>
    BY <1>1, EmptySeq DEF FlattenSeq
  <2> QED
    BY <2>1
<1>2. CASE Len(s) # 0
  <2>1. PICK f \in [1..Len(s) -> Seq(L)] : IsJoin(f, s)
    BY JoinExists
  <2>2. FlattenSeq(s) = f[Len(s)]
    BY <1>2, <2>1, FlattenIsJoin
  <2>3. Len(s) \in 1..Len(s)
    BY <1>2
  <2> QED
    BY <2>2, <2>3
<1> QED
  BY <1>1, <1>2

\* The join of s up to each of its places, with none before the first.
IsJoined(f, s, L) ==
  /\ Len(s) \in Nat /\ f[0] = <<>>
  /\ \A i \in 0..Len(s) : f[i] \in Seq(L)
  /\ \A i \in 1..Len(s) : s[i] \in Seq(L) /\ f[i] = f[i - 1] \o s[i]

LEMMA FlattenSteps ==
  ASSUME NEW L, NEW s \in Seq(Seq(L))
  PROVE  \E f : IsJoined(f, s, L) /\ FlattenSeq(s) = f[Len(s)]
<1>1. Len(s) \in Nat /\ <<>> \in Seq(L) /\ \A i \in 1..Len(s) : s[i] \in Seq(L)
  OBVIOUS
<1>2. PICK g \in [1..Len(s) -> Seq(L)] : IsJoin(g, s)
  BY JoinExists
<1> DEFINE f == [i \in 0..Len(s) |-> IF i = 0 THEN <<>> ELSE g[i]]
<1>3. f \in [0..Len(s) -> Seq(L)] /\ f[0] = <<>> /\ \A i \in 1..Len(s) : f[i] = g[i]
  BY <1>1, <1>2
<1> HIDE DEF f
<1>4. ASSUME NEW i \in 1..Len(s)
      PROVE  f[i] = f[i - 1] \o s[i]
  <2>1. g[i] = IF i = 1 THEN s[i] ELSE g[i - 1] \o s[i]
    BY <1>2 DEF IsJoin
  <2>2. i = 1 => f[i - 1] = <<>>
    BY <1>3
  <2>3. i # 1 => i - 1 \in 1..Len(s)
    BY <1>1
  <2> QED
    BY <1>1, <1>3, <2>1, <2>2, <2>3, ConcatEmptySeq
<1>5. CASE Len(s) = 0
  <2>1. FlattenSeq(s) = <<>>
    BY <1>5, EmptySeq DEF FlattenSeq
  <2> QED
    BY <1>3, <1>4, <1>5, <2>1 DEF IsJoined
<1>6. CASE Len(s) # 0
  <2>1. FlattenSeq(s) = g[Len(s)] /\ Len(s) \in 1..Len(s)
    BY <1>1, <1>2, <1>6, FlattenIsJoin
  <2>2. FlattenSeq(s) = f[Len(s)]
    BY <1>3, <2>1
  <2>3. IsJoined(f, s, L)
    BY <1>1, <1>3, <1>4 DEF IsJoined
  <2> QED
    BY <2>2, <2>3
<1> QED
  BY <1>5, <1>6

\* The join does not change over places where nothing is joined.
LEMMA JoinedStays ==
  ASSUME NEW L, NEW s, NEW f, IsJoined(f, s, L),
         NEW a \in 0..Len(s), NEW b \in a..Len(s), \A i \in (a + 1)..b : s[i] = <<>>
  PROVE  f[b] = f[a]
<1> DEFINE T == {n \in Nat : n <= b - a => f[a + n] = f[a]}
<1>1. a \in Nat /\ b \in Nat /\ Len(s) \in Nat
  BY DEF IsJoined
<1>2. 0 \in T
  BY <1>1
<1>3. ASSUME NEW n \in Nat, n \in T
      PROVE  n + 1 \in T
  <2> SUFFICES ASSUME n + 1 <= b - a
               PROVE  f[a + (n + 1)] = f[a]
    OBVIOUS
  <2>1. a + (n + 1) \in 1..Len(s) /\ a + (n + 1) \in (a + 1)..b /\ (a + (n + 1)) - 1 = a + n
    BY <1>1
  <2>2. f[a + (n + 1)] = f[a + n] \o <<>>
    BY <2>1 DEF IsJoined
  <2>3. f[a + n] = f[a]
    BY <1>1, <1>3
  <2>4. f[a] \in Seq(L)
    BY DEF IsJoined
  <2> QED
    BY <2>2, <2>3, <2>4, ConcatEmptySeq
<1> HIDE DEF T
<1>4. b - a \in T
  <2>1. b - a \in Nat
    BY <1>1
  <2>2. \A n \in Nat : n \in T
    BY <1>2, <1>3, SetInduction
  <2> QED
    BY <2>1, <2>2
<1>5. a + (b - a) = b
  BY <1>1
<1> QED
  BY <1>1, <1>4, <1>5 DEF T

\* One sequence and then another.
Followed(x, y) == x \o y

\* It changes by what is joined at the one place where something is.
LEMMA JoinedOnce ==
  ASSUME NEW L, NEW s, NEW f, IsJoined(f, s, L),
         NEW a \in 0..Len(s), NEW b \in a..Len(s), NEW c \in (a + 1)..b,
         \A i \in (a + 1)..b : i # c => s[i] = <<>>
  PROVE  f[b] = Followed(f[a], s[c])
<1>1. a \in Nat /\ b \in Nat /\ c \in Nat /\ Len(s) \in Nat
  BY DEF IsJoined
<1>2. c - 1 \in a..Len(s) /\ c \in 0..Len(s) /\ b \in c..Len(s) /\ c \in 1..Len(s)
  BY <1>1
<1>3. /\ \A i \in (a + 1)..(c - 1) : i \in (a + 1)..b /\ i # c
      /\ \A i \in (c + 1)..b : i \in (a + 1)..b /\ i # c
  BY <1>1
<1>4. f[c - 1] = f[a]
  <2> DEFINE d == c - 1
  <2>1. d \in a..Len(s) /\ \A i \in (a + 1)..d : s[i] = <<>>
    BY <1>2, <1>3
  <2> HIDE DEF d
  <2>2. f[d] = f[a]
    BY <2>1, JoinedStays
  <2> QED
    BY <2>2 DEF d
<1>5. f[b] = f[c]
  BY <1>2, <1>3, JoinedStays
<1>6. f[c] = Followed(f[c - 1], s[c])
  BY <1>2 DEF IsJoined, Followed
<1> QED
  BY <1>4, <1>5, <1>6

LEMMA JoinedFromOne ==
  ASSUME NEW L, NEW s, NEW f, IsJoined(f, s, L),
         NEW c \in 1..Len(s), \A i \in 1..Len(s) : i # c => s[i] = <<>>
  PROVE  f[Len(s)] = s[c]
<1> DEFINE a == 0
           b == Len(s)
<1>1. Len(s) \in Nat /\ f[0] = <<>> /\ s[c] \in Seq(L)
  BY DEF IsJoined
<1>2. a \in 0..Len(s) /\ b \in a..Len(s) /\ c \in (a + 1)..b /\ \A i \in (a + 1)..b : i # c => s[i] = <<>>
  BY <1>1
<1> HIDE DEF a, b
<1>3. f[b] = Followed(f[a], s[c])
  BY <1>2, JoinedOnce
<1>4. \A x \in Seq(L) : Followed(<<>>, x) = x
  BY ConcatEmptySeq DEF Followed
<1> QED
  BY <1>1, <1>3, <1>4 DEF a, b

\* It grows by the length of what is joined.
LEMMA JoinedLength ==
  ASSUME NEW L, NEW s, NEW f, IsJoined(f, s, L),
         NEW i \in 1..Len(s)
  PROVE  /\ Len(f[i - 1]) \in Nat /\ Len(s[i]) \in Nat /\ Len(f[i]) \in Nat
         /\ Len(f[i]) = Len(f[i - 1]) + Len(s[i])
<1>1. Len(s) \in Nat /\ i - 1 \in 0..Len(s) /\ i \in 0..Len(s)
  BY DEF IsJoined
<1>2. f[i - 1] \in Seq(L) /\ f[i] \in Seq(L) /\ s[i] \in Seq(L)
  BY <1>1 DEF IsJoined
<1>3. f[i] = f[i - 1] \o s[i]
  BY DEF IsJoined
<1>4. \A x, y \in Seq(L) : /\ Len(x) \in Nat /\ Len(y) \in Nat /\ Len(x \o y) \in Nat
                           /\ Len(x \o y) = Len(x) + Len(y)
  BY ConcatProperties
<1> QED
  BY <1>2, <1>3, <1>4, Zenon

LEMMA JoinedGrows ==
  ASSUME NEW L, NEW s, NEW f, IsJoined(f, s, L),
         NEW a \in 0..Len(s), NEW b \in a..Len(s)
  PROVE  Len(f[a]) <= Len(f[b])
<1> DEFINE T == {n \in Nat : n <= b - a => Len(f[a]) <= Len(f[a + n])}
<1>1. a \in Nat /\ b \in Nat /\ Len(s) \in Nat
  BY DEF IsJoined
<1>2. 0 \in T
  <2>1. Len(f[a]) \in Nat /\ a + 0 = a
    BY <1>1
  <2> QED
    BY <2>1
<1>3. ASSUME NEW n \in Nat, n \in T
      PROVE  n + 1 \in T
  <2> SUFFICES ASSUME n + 1 <= b - a
               PROVE  Len(f[a]) <= Len(f[a + (n + 1)])
    OBVIOUS
  <2>1. a + (n + 1) \in 1..Len(s) /\ (a + (n + 1)) - 1 = a + n
    BY <1>1
  <2>2. /\ Len(f[a + (n + 1)]) = Len(f[a + n]) + Len(s[a + (n + 1)])
        /\ Len(f[a + n]) \in Nat /\ Len(s[a + (n + 1)]) \in Nat
    <3> DEFINE j == a + (n + 1)
    <3>1. j \in 1..Len(s) /\ j - 1 = a + n
      BY <2>1
    <3> HIDE DEF j, T
    <3>2. /\ Len(f[j - 1]) \in Nat /\ Len(s[j]) \in Nat
          /\ Len(f[j]) = Len(f[j - 1]) + Len(s[j])
      BY <3>1, JoinedLength, ZenonT(30)
    <3>3. /\ Len(f[a + n]) \in Nat /\ Len(s[j]) \in Nat
          /\ Len(f[j]) = Len(f[a + n]) + Len(s[j])
      BY <3>1, <3>2, Zenon
    <3> QED
      BY <3>3, Zenon DEF j
  <2>3. Len(f[a]) <= Len(f[a + n]) /\ Len(f[a]) \in Nat
    BY <1>1, <1>3
  <2> DEFINE x == Len(f[a])
             y == Len(f[a + n])
             z == Len(s[a + (n + 1)])
  <2>4. x <= y /\ x \in Nat /\ y \in Nat /\ z \in Nat /\ Len(f[a + (n + 1)]) = y + z
    BY <2>2, <2>3
  <2> HIDE DEF x, y, z
  <2>5. x <= y + z
    BY <2>4
  <2> QED
    BY <2>4, <2>5 DEF x
<1> HIDE DEF T
<1>4. b - a \in T
  <2>1. b - a \in Nat
    BY <1>1
  <2>2. \A n \in Nat : n \in T
    BY <1>2, <1>3, SetInduction
  <2> QED
    BY <2>1, <2>2
<1>5. a + (b - a) = b
  BY <1>1
<1> QED
  BY <1>1, <1>4, <1>5 DEF T

\* Two places where something is joined give two symbols at least.
LEMMA JoinedTwice ==
  ASSUME NEW L, NEW s, NEW f, IsJoined(f, s, L),
         NEW i \in 1..Len(s), NEW j \in 1..Len(s), i < j, Len(s[i]) = 1, Len(s[j]) = 1
  PROVE  Len(f[Len(s)]) \in Nat /\ Len(f[Len(s)]) >= 2
<1> DEFINE d == j - 1
           n == Len(s)
<1>1. n \in Nat /\ f[n] \in Seq(L)
  BY DEF IsJoined
<1>2. i \in 0..n /\ d \in i..n /\ j \in 0..n /\ n \in j..n
  BY <1>1
<1>3. /\ Len(f[i]) = Len(f[i - 1]) + 1 /\ Len(f[i - 1]) \in Nat
      /\ Len(f[j]) = Len(f[d]) + 1 /\ Len(f[d]) \in Nat
  <2>1. \A x, y \in Seq(L) : Len(x) \in Nat /\ Len(x \o y) = Len(x) + Len(y)
    BY ConcatProperties
  <2>2. i - 1 \in 0..n /\ d \in 0..n
    BY <1>1
  <2>3. /\ f[i - 1] \in Seq(L) /\ s[i] \in Seq(L) /\ f[i] = f[i - 1] \o s[i]
        /\ f[d] \in Seq(L) /\ s[j] \in Seq(L) /\ f[j] = f[d] \o s[j]
    BY <1>1, <2>2 DEF IsJoined
  <2> QED
    BY <2>1, <2>3, Zenon
<1> HIDE DEF d
<1>4. Len(f[i]) <= Len(f[d]) /\ Len(f[j]) <= Len(f[n])
  BY <1>2, JoinedGrows
<1>5. Len(f[n]) \in Nat
  BY <1>1
<1> DEFINE w == Len(f[i - 1])
           x == Len(f[i])
           y == Len(f[d])
           z == Len(f[j])
           t == Len(f[n])
<1>6. w \in Nat /\ x = w + 1 /\ y \in Nat /\ z = y + 1 /\ x <= y /\ z <= t /\ t \in Nat
  BY <1>3, <1>4, <1>5
<1> HIDE DEF w, x, y, z, t
<1>7. t >= 2
  BY <1>6
<1> QED
  BY <1>5, <1>7 DEF t

-----------------------------------------------------------------------------
(* Where frames end.                                                         *)

\* A word is found symbol by symbol.
LEMMA StartsBySymbols ==
  ASSUME NEW S, NEW bytes \in Seq(S), NEW i \in Nat \ {0}, NEW word \in Seq(S), word # <<>>
  PROVE  StartsWith(bytes, i, word) <=>
           /\ i + Len(word) - 1 <= Len(bytes)
           /\ \A j \in 1..Len(word) : bytes[i + j - 1] = word[j]
<1>1. Len(word) \in Nat \ {0} /\ Len(bytes) \in Nat /\ DOMAIN word = 1..Len(word)
  OBVIOUS
<1> SUFFICES ASSUME i + Len(word) - 1 <= Len(bytes)
             PROVE  SubSeq(bytes, i, i + Len(word) - 1) = word <=>
                      \A j \in 1..Len(word) : bytes[i + j - 1] = word[j]
  BY DEF StartsWith
<1> DEFINE part == SubSeq(bytes, i, i + Len(word) - 1)
<1>2. i \in 1..(Len(bytes) + 1) /\ (i + Len(word) - 1) \in (i - 1)..Len(bytes)
  BY <1>1
<1>3. /\ part \in Seq(S) /\ Len(part) = Len(word)
      /\ \A j \in 1..Len(word) : part[j] = bytes[i + j - 1]
  BY <1>1, <1>2, SubSeqProperties
<1> HIDE DEF part
<1>4. part = word <=> \A j \in 1..Len(word) : part[j] = word[j]
  BY <1>1, <1>3, SeqEqual
<1> QED
  BY <1>3, <1>4 DEF part

LEMMA DelimiterSymbols ==
  ASSUME NEW d \in Delimiters
  PROVE  \/ Len(d) = 4 /\ d[1] = CR /\ d[2] = LF /\ d[3] = CR /\ d[4] = LF
         \/ Len(d) = 2 /\ d[1] = LF /\ d[2] = LF
BY DEF Delimiters

Alphabet == Symbols \cup {CR, LF}

LEMMA DelimiterAt ==
  ASSUME NEW bytes \in Seq(Symbols), NEW i \in Nat \ {0}, NEW d \in Delimiters
  PROVE  StartsWith(bytes, i, d) <=>
           /\ i + Len(d) - 1 <= Len(bytes)
           /\ \A j \in 1..Len(d) : bytes[i + j - 1] = d[j]
<1>1. bytes \in Seq(Alphabet)
  BY DEF Alphabet
<1>2. d \in Seq(Alphabet)
  <2>1. CR \in Alphabet /\ LF \in Alphabet
    BY DEF Alphabet
  <2>2. <<CR, LF, CR, LF>> \in Seq(Alphabet) /\ <<LF, LF>> \in Seq(Alphabet)
    BY <2>1
  <2> QED
    BY <2>2 DEF Delimiters
<1>3. d # <<>>
  <2>1. Len(d) # 0
    BY DelimiterSymbols
  <2>2. Len(<<>>) = 0
    OBVIOUS
  <2> QED
    BY <2>1, <2>2
<1> QED
  BY <1>1, <1>2, <1>3, StartsBySymbols

LEMMA EndsAre ==
  ASSUME NEW bytes \in Seq(Symbols), NEW from \in Nat \ {0}, NEW e
  PROVE  e \in FrameEnds(bytes, from) <=>
           \E p \in from..Len(bytes), d \in Delimiters :
             StartsWith(bytes, p, d) /\ e = [at |-> p, length |-> Len(d)]
<1> DEFINE Pairs == {x \in (from..Len(bytes)) \X Delimiters : StartsWith(bytes, x[1], x[2])}
<1>1. ASSUME NEW p \in from..Len(bytes), NEW d \in Delimiters, StartsWith(bytes, p, d)
      PROVE  /\ <<p, d>> \in Pairs
             /\ [at |-> <<p, d>>[1], length |-> Len(<<p, d>>[2])] = [at |-> p, length |-> Len(d)]
  BY <1>1
<1>2. ASSUME NEW x \in Pairs
      PROVE  x[1] \in from..Len(bytes) /\ x[2] \in Delimiters /\ StartsWith(bytes, x[1], x[2])
  BY <1>2
<1>3. FrameEnds(bytes, from) = {[at |-> x[1], length |-> Len(x[2])] : x \in Pairs}
  BY DEF FrameEnds
<1> HIDE DEF Pairs
<1>4. ASSUME e \in FrameEnds(bytes, from)
      PROVE  \E p \in from..Len(bytes), d \in Delimiters :
               StartsWith(bytes, p, d) /\ e = [at |-> p, length |-> Len(d)]
  BY <1>2, <1>3, <1>4
<1>5. ASSUME NEW p \in from..Len(bytes), NEW d \in Delimiters, StartsWith(bytes, p, d),
             e = [at |-> p, length |-> Len(d)]
      PROVE  e \in FrameEnds(bytes, from)
  <2>1. PICK x \in Pairs : [at |-> x[1], length |-> Len(x[2])] = e
    BY <1>1, <1>5
  <2> QED
    BY <1>3, <2>1
<1> QED
  BY <1>4, <1>5

\* A delimiter that begins earlier ends no later, and at one place there is
\* one at most: a CR is no LF.
LEMMA DelimitersInOrder ==
  ASSUME NEW bytes \in Seq(Symbols), NEW p \in Nat \ {0}, NEW q \in Nat \ {0},
         NEW d \in Delimiters, NEW e \in Delimiters,
         StartsWith(bytes, p, d), StartsWith(bytes, q, e), p <= q
  PROVE  /\ p + Len(d) <= q + Len(e)
         /\ p = q => Len(d) = Len(e)
<1>1. /\ \A j \in 1..Len(d) : bytes[p + j - 1] = d[j]
      /\ \A j \in 1..Len(e) : bytes[q + j - 1] = e[j]
  BY DelimiterAt
<1>2. CASE Len(d) = Len(e)
  BY <1>2, DelimiterSymbols
<1>3. CASE Len(d) = 2 /\ Len(e) = 4
  <2>1. bytes[p + 1 - 1] = d[1] /\ bytes[q + 1 - 1] = e[1]
    BY <1>1, <1>3
  <2>2. bytes[p] = LF /\ bytes[q] = CR
    BY <1>3, <2>1, DelimiterSymbols
  <2>3. p # q
    BY <2>2, SymbolsAssumption
  <2> QED
    BY <1>3, <2>3
<1>4. CASE Len(d) = 4 /\ Len(e) = 2
  <2>1. /\ bytes[p] = CR /\ bytes[p + 2] = CR
        /\ bytes[q] = LF /\ bytes[q + 1] = LF
    BY <1>1, <1>4, DelimiterSymbols
  <2>2. p # q /\ p + 1 # q
    BY <2>1, SymbolsAssumption
  <2> QED
    BY <1>4, <2>2
<1> QED
  BY <1>2, <1>3, <1>4, DelimiterSymbols

LEMMA FirstEndExists ==
  ASSUME NEW bytes \in Seq(Symbols), NEW from \in Nat \ {0}, FrameEnds(bytes, from) # {}
  PROVE  /\ FirstFrameEnd(bytes, from) \in FrameEnds(bytes, from)
         /\ \A f \in FrameEnds(bytes, from) : FirstFrameEnd(bytes, from).at <= f.at
<1> DEFINE Places == {f.at : f \in FrameEnds(bytes, from)}
<1>1. Places \subseteq Nat
  BY EndsAre
<1>2. PICK at \in Places : \A p \in Places : at <= p
  <2>1. Places # {}
    OBVIOUS
  <2> HIDE DEF Places
  <2> QED
    BY <1>1, <2>1, LeastNatural
<1>3. \E e \in FrameEnds(bytes, from) : \A f \in FrameEnds(bytes, from) : e.at <= f.at
  BY <1>2
<1> QED
  BY <1>3 DEF FirstFrameEnd

\* The shape of the first end.
LEMMA FirstEndTypes ==
  ASSUME NEW bytes \in Seq(Symbols), NEW from \in Nat \ {0}, FrameEnds(bytes, from) # {}
  PROVE  LET end == FirstFrameEnd(bytes, from) IN
         /\ end.at \in from..Len(bytes) /\ end.length \in {2, 4}
         /\ end.at + end.length <= Len(bytes) + 1
<1>1. PICK p \in from..Len(bytes), d \in Delimiters :
        StartsWith(bytes, p, d) /\ FirstFrameEnd(bytes, from) = [at |-> p, length |-> Len(d)]
  BY FirstEndExists, EndsAre
<1>2. p \in Nat \ {0} /\ Len(bytes) \in Nat
  OBVIOUS
<1>3. p + Len(d) - 1 <= Len(bytes) /\ Len(d) \in {2, 4}
  BY <1>1, <1>2, DelimiterAt, DelimiterSymbols
<1> QED
  BY <1>1, <1>2, <1>3

LEMMA FirstEndIsUnique ==
  ASSUME NEW bytes \in Seq(Symbols), NEW from \in Nat \ {0},
         NEW e \in FrameEnds(bytes, from),
         \A f \in FrameEnds(bytes, from) : e.at <= f.at
  PROVE  FirstFrameEnd(bytes, from) = e
<1>1. /\ FirstFrameEnd(bytes, from) \in FrameEnds(bytes, from)
      /\ FirstFrameEnd(bytes, from).at <= e.at /\ e.at <= FirstFrameEnd(bytes, from).at
  BY FirstEndExists
<1>2. PICK p \in from..Len(bytes), d \in Delimiters :
        StartsWith(bytes, p, d) /\ FirstFrameEnd(bytes, from) = [at |-> p, length |-> Len(d)]
  BY <1>1, EndsAre
<1>3. PICK q \in from..Len(bytes), c \in Delimiters :
        StartsWith(bytes, q, c) /\ e = [at |-> q, length |-> Len(c)]
  BY EndsAre
<1>4. p = q /\ p \in Nat \ {0}
  BY <1>1, <1>2, <1>3
<1>5. Len(d) = Len(c)
  BY <1>2, <1>3, <1>4, DelimitersInOrder
<1> QED
  BY <1>2, <1>3, <1>4, <1>5

-----------------------------------------------------------------------------
(* A buffer that is a part of a body.                                        *)

PartAt(part, bytes, k) ==
  /\ k + Len(part) <= Len(bytes)
  /\ \A i \in 1..Len(part) : bytes[k + i] = part[i]

LEMMA SameDelimiters ==
  ASSUME NEW part \in Seq(Symbols), NEW bytes \in Seq(Symbols), NEW k \in Nat,
         PartAt(part, bytes, k), NEW i \in Nat \ {0}, NEW d \in Delimiters,
         i + Len(d) - 1 <= Len(part)
  PROVE  StartsWith(bytes, k + i, d) <=> StartsWith(part, i, d)
<1>1. Len(d) \in Nat /\ Len(part) \in Nat /\ Len(bytes) \in Nat /\ k + i \in Nat \ {0}
  BY DelimiterSymbols
<1>2. (k + i) + Len(d) - 1 <= Len(bytes)
  BY <1>1 DEF PartAt
<1>3. ASSUME NEW j \in 1..Len(d)
      PROVE  bytes[(k + i) + j - 1] = part[i + j - 1]
  <2>1. i + j - 1 \in 1..Len(part) /\ (k + i) + j - 1 = k + (i + j - 1)
    BY <1>1
  <2> QED
    BY <2>1 DEF PartAt
<1> QED
  BY <1>1, <1>2, <1>3, DelimiterAt

\* The first frame of a part stays the first, whatever follows.
LEMMA FirstEndStays ==
  ASSUME NEW part \in Seq(Symbols), NEW bytes \in Seq(Symbols), NEW k \in Nat,
         PartAt(part, bytes, k), FrameEnds(part, 1) # {}
  PROVE  LET end == FirstFrameEnd(part, 1) IN
         /\ FrameEnds(bytes, k + 1) # {}
         /\ FirstFrameEnd(bytes, k + 1) = [at |-> k + end.at, length |-> end.length]
<1>1. PICK p \in 1..Len(part), d \in Delimiters :
        StartsWith(part, p, d) /\ FirstFrameEnd(part, 1) = [at |-> p, length |-> Len(d)]
  BY FirstEndExists, EndsAre, SMTT(30)
<1>2. \A f \in FrameEnds(part, 1) : p <= f.at
  BY <1>1, FirstEndExists
<1>3. /\ Len(part) \in Nat /\ Len(bytes) \in Nat /\ p \in Nat \ {0} /\ Len(d) \in Nat
      /\ p + Len(d) - 1 <= Len(part) /\ k + Len(part) <= Len(bytes)
      /\ k + p \in Nat \ {0} /\ k + 1 \in Nat \ {0}
  <2>1. /\ Len(part) \in Nat /\ Len(bytes) \in Nat /\ p \in Nat \ {0}
        /\ k + Len(part) <= Len(bytes)
    BY DEF PartAt
  <2>2. p + Len(d) - 1 <= Len(part)
    BY <1>1, <2>1, DelimiterAt
  <2>3. Len(d) \in Nat
    BY DelimiterSymbols
  <2> QED
    BY <2>1, <2>2, <2>3
<1>4. StartsWith(bytes, k + p, d) /\ k + p \in (k + 1)..Len(bytes)
  BY <1>1, <1>3, SameDelimiters
<1> DEFINE e == [at |-> k + p, length |-> Len(d)]
<1>5. e \in FrameEnds(bytes, k + 1)
  BY <1>3, <1>4, EndsAre
<1>6. ASSUME NEW f \in FrameEnds(bytes, k + 1)
      PROVE  e.at <= f.at
  <2>1. PICK q \in (k + 1)..Len(bytes), c \in Delimiters :
          StartsWith(bytes, q, c) /\ f = [at |-> q, length |-> Len(c)]
    BY <1>3, EndsAre
  <2> SUFFICES ASSUME q < k + p
               PROVE  FALSE
    BY <1>3, <2>1
  <2>2. q \in Nat \ {0} /\ q - k \in Nat \ {0} /\ Len(c) \in Nat
    BY <1>3, DelimiterSymbols
  <2>3. q + Len(c) <= (k + p) + Len(d)
    BY <1>3, <1>4, <2>1, <2>2, DelimitersInOrder
  <2>4. (q - k) + Len(c) - 1 <= Len(part) /\ k + (q - k) = q
    BY <1>3, <2>2, <2>3
  <2>5. StartsWith(part, q - k, c)
    BY <2>1, <2>2, <2>4, SameDelimiters
  <2>6. q - k \in 1..Len(part)
    BY <1>3, <2>2
  <2>7. [at |-> q - k, length |-> Len(c)] \in FrameEnds(part, 1)
    BY <2>5, <2>6, EndsAre
  <2>8. p <= q - k
    BY <1>2, <2>7
  <2> QED
    BY <1>3, <2>2, <2>8
<1>7. FirstFrameEnd(bytes, k + 1) = e
  BY <1>3, <1>5, <1>6, FirstEndIsUnique
<1> QED
  BY <1>1, <1>5, <1>7

\* What is left at the end has no frame if the buffer has none.
LEMMA NoEndStays ==
  ASSUME NEW part \in Seq(Symbols), NEW bytes \in Seq(Symbols), NEW k \in Nat,
         PartAt(part, bytes, k), k + Len(part) = Len(bytes), FrameEnds(part, 1) = {}
  PROVE  FrameEnds(bytes, k + 1) = {}
<1> SUFFICES ASSUME NEW f \in FrameEnds(bytes, k + 1)
             PROVE  FALSE
  OBVIOUS
<1>1. /\ Len(part) \in Nat /\ Len(bytes) \in Nat /\ k + 1 \in Nat \ {0}
  OBVIOUS
<1>2. PICK q \in (k + 1)..Len(bytes), c \in Delimiters : StartsWith(bytes, q, c)
  BY <1>1, EndsAre
<1>3. q \in Nat \ {0} /\ q - k \in Nat \ {0} /\ Len(c) \in Nat
  BY <1>1, DelimiterSymbols
<1>4. q + Len(c) - 1 <= Len(bytes)
  BY <1>2, <1>3, DelimiterAt
<1>5. (q - k) + Len(c) - 1 <= Len(part) /\ k + (q - k) = q /\ q - k \in 1..Len(part)
  BY <1>1, <1>3, <1>4
<1>6. StartsWith(part, q - k, c)
  BY <1>2, <1>3, <1>5, SameDelimiters
<1>7. [at |-> q - k, length |-> Len(c)] \in FrameEnds(part, 1)
  BY <1>5, <1>6, EndsAre
<1> QED
  BY <1>7

LEMMA SameFrame ==
  ASSUME NEW part \in Seq(Symbols), NEW bytes \in Seq(Symbols), NEW k \in Nat,
         PartAt(part, bytes, k), NEW n \in 0..Len(part)
  PROVE  SubSeq(bytes, k + 1, k + n) = SubSeq(part, 1, n)
<1>1. /\ Len(part) \in Nat /\ Len(bytes) \in Nat /\ n \in Nat
      /\ k + Len(part) <= Len(bytes)
      /\ \A i \in 1..Len(part) : bytes[k + i] = part[i]
      /\ \A i \in 1..Len(part) : part[i] \in Symbols
      /\ \A i \in 1..Len(bytes) : bytes[i] \in Symbols
  BY DEF PartAt
<1>2. \A i \in (k + 1)..(k + n) : bytes[i] \in Symbols
  BY <1>1
<1>3. \A i \in 1..n : part[i] \in Symbols
  BY <1>1
<1>4. /\ SubSeq(bytes, k + 1, k + n) \in Seq(Symbols)
      /\ Len(SubSeq(bytes, k + 1, k + n)) = n
      /\ \A i \in 1..n : SubSeq(bytes, k + 1, k + n)[i] = bytes[k + i]
  <2>1. /\ SubSeq(bytes, k + 1, k + n) \in Seq(Symbols)
        /\ Len(SubSeq(bytes, k + 1, k + n)) =
             IF k + 1 <= k + n THEN (k + n) - (k + 1) + 1 ELSE 0
        /\ \A i \in 1..((k + n) - (k + 1) + 1) :
             SubSeq(bytes, k + 1, k + n)[i] = bytes[(k + 1) + i - 1]
    BY <1>1, <1>2, SubSeqProperties
  <2> QED
    BY <1>1, <2>1, SMTT(30)
<1>5. /\ SubSeq(part, 1, n) \in Seq(Symbols)
      /\ Len(SubSeq(part, 1, n)) = n
      /\ \A i \in 1..n : SubSeq(part, 1, n)[i] = part[i]
  BY <1>1, <1>3, SubSeqProperties
<1>6. \A i \in 1..n : SubSeq(bytes, k + 1, k + n)[i] = SubSeq(part, 1, n)[i]
  BY <1>1, <1>4, <1>5
<1> HIDE DEF PartAt
<1> QED
  BY <1>4, <1>5, <1>6, SeqEqual

-----------------------------------------------------------------------------
(* The parse of a whole body is defined, by induction from its end.          *)

Parses == [chunks : Seq(Chunks), result : {"ok", "malformed_stream"}]

\* The parse from i on, if the parses from later places are f.
ParseAt(bytes, i, f) ==
  IF FrameEnds(bytes, i) = {}
    THEN Taken(SubSeq(bytes, i, Len(bytes)), [chunks |-> <<>>, result |-> "ok"])
    ELSE LET end == FirstFrameEnd(bytes, i)
         IN  Taken(SubSeq(bytes, i, end.at - 1), f[end.at + end.length])

LEMMA ChunksOfTypes ==
  ASSUME NEW frame, WellFormed(frame)
  PROVE  ChunksOf(frame) \in Seq(Chunks)
<1>1. <<>> \in Seq(Chunks)
  OBVIOUS
<1>2. \/ Data(frame) = <<>>
      \/ Data(frame) = <<DoneMark>>
      \/ \E c \in Chunks : Data(frame) = <<c>>
  BY DEF WellFormed
<1>3. \A c \in Chunks : <<c>> \in Seq(Chunks)
  OBVIOUS
<1> QED
  BY <1>1, <1>2, <1>3 DEF ChunksOf

LEMMA TakenTypes ==
  ASSUME NEW frame, NEW others \in Parses
  PROVE  Taken(frame, others) \in Parses
<1>1. <<>> \in Seq(Chunks) /\ others.chunks \in Seq(Chunks)
  BY DEF Parses
<1>2. WellFormed(frame) => ChunksOf(frame) \o others.chunks \in Seq(Chunks)
  BY <1>1, ChunksOfTypes, ConcatProperties
<1> QED
  BY <1>1, <1>2 DEF Taken, Parses

LEMMA ParseAtTypes ==
  ASSUME NEW bytes \in Seq(Symbols), NEW i \in 1..(Len(bytes) + 1), NEW f,
         \A j \in (i + 1)..(Len(bytes) + 1) : f[j] \in Parses
  PROVE  ParseAt(bytes, i, f) \in Parses
<1>1. [chunks |-> <<>>, result |-> "ok"] \in Parses
  BY DEF Parses
<1>2. CASE FrameEnds(bytes, i) = {}
  BY <1>1, <1>2, TakenTypes DEF ParseAt
<1>3. CASE FrameEnds(bytes, i) # {}
  <2> DEFINE end == FirstFrameEnd(bytes, i)
  <2>1. i \in Nat \ {0} /\ Len(bytes) \in Nat
    OBVIOUS
  <2>2. end.at \in i..Len(bytes) /\ end.length \in {2, 4} /\ end.at + end.length <= Len(bytes) + 1
    BY <1>3, <2>1, FirstEndTypes
  <2> HIDE DEF end
  <2>3. end.at + end.length \in (i + 1)..(Len(bytes) + 1)
    BY <2>1, <2>2
  <2>4. Taken(SubSeq(bytes, i, end.at - 1), f[end.at + end.length]) \in Parses
    BY <2>3, TakenTypes
  <2> QED
    BY <1>3, <2>4 DEF ParseAt, end
<1> QED
  BY <1>2, <1>3

LEMMA ParseAtDepends ==
  ASSUME NEW bytes \in Seq(Symbols), NEW i \in 1..(Len(bytes) + 1), NEW f, NEW g,
         \A j \in (i + 1)..(Len(bytes) + 1) : f[j] = g[j]
  PROVE  ParseAt(bytes, i, f) = ParseAt(bytes, i, g)
<1>1. CASE FrameEnds(bytes, i) = {}
  BY <1>1 DEF ParseAt
<1>2. CASE FrameEnds(bytes, i) # {}
  <2> DEFINE end == FirstFrameEnd(bytes, i)
  <2>1. i \in Nat \ {0} /\ Len(bytes) \in Nat
    OBVIOUS
  <2>2. end.at \in i..Len(bytes) /\ end.length \in {2, 4} /\ end.at + end.length <= Len(bytes) + 1
    BY <1>2, <2>1, FirstEndTypes
  <2> HIDE DEF end
  <2>3. end.at + end.length \in (i + 1)..(Len(bytes) + 1)
    BY <2>1, <2>2
  <2>4. f[end.at + end.length] = g[end.at + end.length]
    BY <2>3
  <2> QED
    BY <1>2, <2>4 DEF ParseAt, end
<1> QED
  BY <1>1, <1>2

LEMMA ParsesExist ==
  ASSUME NEW bytes \in Seq(Symbols)
  PROVE  \E f : f = [i \in 1..(Len(bytes) + 1) |-> ParseAt(bytes, i, f)]
<1> DEFINE N == Len(bytes) + 1
           Parsed(n, f) == f = [i \in (N - n + 1)..N |-> ParseAt(bytes, i, f)]
           T == {n \in Nat : n <= N => \E f : Parsed(n, f)}
<1>1. N \in Nat /\ N = Len(bytes) + 1
  OBVIOUS
<1>2. 0 \in T
  <2>1. (N - 0 + 1)..N = {}
    BY <1>1
  <2>2. Parsed(0, [i \in {} |-> 0])
    BY <2>1
  <2> QED
    BY <2>2
<1>3. ASSUME NEW n \in Nat, n \in T
      PROVE  n + 1 \in T
  <2> SUFFICES ASSUME n + 1 <= N
               PROVE  \E g : Parsed(n + 1, g)
    OBVIOUS
  <2>1. PICK f : Parsed(n, f)
    BY <1>1, <1>3
  <2> DEFINE k == N - n
             g == [i \in k..N |-> IF i = k THEN ParseAt(bytes, k, f) ELSE f[i]]
  <2>2. k \in 1..N /\ N - (n + 1) + 1 = k /\ k \in Nat /\ N - n + 1 = k + 1
    BY <1>1
  <2>3. \A i \in (k + 1)..N : f[i] = ParseAt(bytes, i, f)
    BY <2>1, <2>2
  <2>4. \A i \in (k + 1)..N : g[i] = f[i]
    BY <1>1, <2>2
  <2>5. g[k] = ParseAt(bytes, k, f) /\ g = [i \in k..N |-> g[i]]
    BY <1>1, <2>2
  <2> HIDE DEF g, k
  <2>6. ASSUME NEW i \in k..N
        PROVE  g[i] = ParseAt(bytes, i, g)
    <3>1. i \in 1..N /\ \A j \in (i + 1)..N : j \in (k + 1)..N
      BY <1>1, <2>2
    <3>2. ParseAt(bytes, i, g) = ParseAt(bytes, i, f)
      BY <1>1, <2>4, <3>1, ParseAtDepends
    <3>3. i = k \/ i \in (k + 1)..N
      BY <1>1, <2>2
    <3> QED
      BY <2>3, <2>4, <2>5, <3>2, <3>3
  <2>7. g = [i \in k..N |-> ParseAt(bytes, i, g)]
    BY <2>5, <2>6
  <2> QED
    BY <2>2, <2>7
<1> HIDE DEF T
<1>4. N \in T
  BY <1>1, <1>2, <1>3, SetInduction
<1>5. PICK f : Parsed(N, f)
  BY <1>1, <1>4 DEF T
<1>6. N - N + 1 = 1
  BY <1>1
<1> QED
  BY <1>5, <1>6

LEMMA ParsesUnfold ==
  ASSUME NEW bytes \in Seq(Symbols)
  PROVE  \A i \in 1..(Len(bytes) + 1) :
           ParsesOf(bytes)[i] = ParseAt(bytes, i, ParsesOf(bytes))
<1> DEFINE N == Len(bytes) + 1
<1>1. PICK f : f = [i \in 1..N |-> ParseAt(bytes, i, f)]
  BY ParsesExist
<1>2. ParsesOf(bytes) = [i \in 1..N |-> ParseAt(bytes, i, ParsesOf(bytes))]
  BY <1>1 DEF ParsesOf, ParseAt
<1> QED
  BY <1>2

LEMMA ParsesTypes ==
  ASSUME NEW bytes \in Seq(Symbols)
  PROVE  \A i \in 1..(Len(bytes) + 1) : ParsesOf(bytes)[i] \in Parses
<1> DEFINE N == Len(bytes) + 1
           T == {n \in Nat : \A i \in 1..N : i >= N - n => ParsesOf(bytes)[i] \in Parses}
<1>1. N \in Nat /\ N = Len(bytes) + 1
  OBVIOUS
<1>2. ASSUME NEW i \in 1..N, \A j \in (i + 1)..N : ParsesOf(bytes)[j] \in Parses
      PROVE  ParsesOf(bytes)[i] \in Parses
  BY <1>2, ParsesUnfold, ParseAtTypes
<1>3. 0 \in T
  <2> SUFFICES ASSUME NEW i \in 1..N, i >= N - 0
               PROVE  ParsesOf(bytes)[i] \in Parses
    OBVIOUS
  <2>1. (i + 1)..N = {}
    BY <1>1
  <2> QED
    BY <1>2, <2>1
<1>4. ASSUME NEW n \in Nat, n \in T
      PROVE  n + 1 \in T
  <2> SUFFICES ASSUME NEW i \in 1..N, i >= N - (n + 1)
               PROVE  ParsesOf(bytes)[i] \in Parses
    OBVIOUS
  <2>1. \A j \in (i + 1)..N : j \in 1..N /\ j >= N - n
    BY <1>1
  <2> QED
    BY <1>2, <1>4, <2>1
<1> HIDE DEF T
<1>5. N \in T
  BY <1>1, <1>3, <1>4, SetInduction
<1>6. \A i \in 1..N : i >= N - N
  BY <1>1
<1> QED
  BY <1>5, <1>6 DEF T

-----------------------------------------------------------------------------
(* Parts of a growing body.                                                  *)

LEMMA PartStays ==
  ASSUME NEW part \in Seq(Symbols), NEW bytes \in Seq(Symbols), NEW k \in Nat,
         PartAt(part, bytes, k), NEW rest \in Seq(Symbols)
  PROVE  PartAt(part, bytes \o rest, k)
<1>1. Len(part) \in Nat /\ Len(bytes) \in Nat /\ Len(rest) \in Nat
  OBVIOUS
<1>2. Len(bytes \o rest) = Len(bytes) + Len(rest)
  BY ConcatProperties
<1>3. k + Len(part) <= Len(bytes) /\ \A i \in 1..Len(part) : bytes[k + i] = part[i]
  BY DEF PartAt
<1>4. \A i \in 1..Len(part) : (bytes \o rest)[k + i] = bytes[k + i]
  <2> TAKE i \in 1..Len(part)
  <2>1. k + i \in 1..(Len(bytes) + Len(rest)) /\ k + i <= Len(bytes)
    BY <1>1, <1>3
  <2> QED
    BY <2>1, ConcatProperties
<1> QED
  BY <1>1, <1>2, <1>3, <1>4 DEF PartAt

LEMMA PartGrows ==
  ASSUME NEW part \in Seq(Symbols), NEW bytes \in Seq(Symbols), NEW k \in Nat,
         PartAt(part, bytes, k), k + Len(part) = Len(bytes), NEW piece \in Seq(Symbols)
  PROVE  PartAt(part \o piece, bytes \o piece, k)
<1>1. Len(part) \in Nat /\ Len(bytes) \in Nat /\ Len(piece) \in Nat
  OBVIOUS
<1>2. Len(bytes \o piece) = Len(bytes) + Len(piece) /\ Len(part \o piece) = Len(part) + Len(piece)
  BY ConcatProperties
<1>3. \A i \in 1..Len(part) : bytes[k + i] = part[i]
  BY DEF PartAt
<1>4. ASSUME NEW i \in 1..(Len(part) + Len(piece))
      PROVE  (bytes \o piece)[k + i] = (part \o piece)[i]
  <2>1. k + i \in 1..(Len(bytes) + Len(piece)) /\ (k + i <= Len(bytes) <=> i <= Len(part))
    BY <1>1
  <2>2. (k + i) - Len(bytes) = i - Len(part)
    BY <1>1, SMTT(30)
  <2>3. (bytes \o piece)[k + i] = IF k + i <= Len(bytes) THEN bytes[k + i] ELSE piece[(k + i) - Len(bytes)]
    BY <2>1, ConcatProperties
  <2>4. (part \o piece)[i] = IF i <= Len(part) THEN part[i] ELSE piece[i - Len(part)]
    BY ConcatProperties
  <2>5. CASE i <= Len(part)
    BY <1>3, <2>1, <2>3, <2>4, <2>5
  <2>6. CASE ~ (i <= Len(part))
    BY <2>1, <2>2, <2>3, <2>4, <2>6
  <2> QED
    BY <2>5, <2>6
<1> QED
  BY <1>1, <1>2, <1>4 DEF PartAt

LEMMA PartShrinks ==
  ASSUME NEW part \in Seq(Symbols), NEW bytes \in Seq(Symbols), NEW k \in Nat,
         PartAt(part, bytes, k), NEW n \in 1..(Len(part) + 1)
  PROVE  LET tail == SubSeq(part, n, Len(part)) IN
         /\ tail \in Seq(Symbols)
         /\ Len(tail) = Len(part) - n + 1
         /\ PartAt(tail, bytes, k + n - 1)
<1> DEFINE N == Len(part)
           tail == SubSeq(part, n, N)
<1>1. N \in Nat /\ Len(bytes) \in Nat
  OBVIOUS
<1>2. \A i \in n..N : part[i] \in Symbols
  BY ElementOfSeq
<1>3. k + N <= Len(bytes) /\ \A i \in 1..N : bytes[k + i] = part[i]
  BY DEF PartAt
<1>4. /\ tail \in Seq(Symbols)
      /\ Len(tail) = IF n <= N THEN N - n + 1 ELSE 0
      /\ \A i \in 1..(N - n + 1) : tail[i] = part[n + i - 1]
  BY <1>1, <1>2, SubSeqProperties
<1> HIDE DEF tail, N
<1>5. Len(tail) = N - n + 1
  BY <1>1, <1>4 DEF N
<1>6. ASSUME NEW i \in 1..Len(tail)
      PROVE  bytes[(k + n - 1) + i] = tail[i]
  <2>1. n + i - 1 \in 1..N /\ (k + n - 1) + i = k + (n + i - 1)
    BY <1>1, <1>5
  <2> QED
    BY <1>3, <1>4, <1>5, <2>1
<1>7. (k + n - 1) + Len(tail) <= Len(bytes)
  BY <1>1, <1>3, <1>5
<1>8. PartAt(tail, bytes, k + n - 1)
  BY <1>6, <1>7 DEF PartAt
<1> QED
  BY <1>4, <1>5, <1>8 DEF tail, N

-----------------------------------------------------------------------------
(* A round of drain_sse_buffer, and the end of the body, do with the buffer  *)
(* what the parse does at that place of the whole body.                      *)

LEMMA RoundIsParse ==
  ASSUME NEW part \in Seq(Symbols), NEW bytes \in Seq(Symbols), NEW k \in Nat,
         PartAt(part, bytes, k), FrameEnds(part, 1) # {}
  PROVE  LET end == FirstFrameEnd(part, 1) IN
         ParsesOf(bytes)[k + 1] = Taken(SubSeq(part, 1, end.at - 1),
                                        ParsesOf(bytes)[k + end.at + end.length])
<1> DEFINE end == FirstFrameEnd(part, 1)
           there == FirstFrameEnd(bytes, k + 1)
<1>1. end.at \in 1..Len(part) /\ end.length \in {2, 4} /\ Len(part) \in Nat /\ Len(bytes) \in Nat
  BY FirstEndTypes
<1>2. FrameEnds(bytes, k + 1) # {} /\ there = [at |-> k + end.at, length |-> end.length]
  BY FirstEndStays
<1>3. there.at = k + end.at /\ there.length = end.length
  BY <1>2
<1> HIDE DEF end, there
<1>4. k + Len(part) <= Len(bytes)
  BY DEF PartAt
<1>5. /\ k + 1 \in 1..(Len(bytes) + 1) /\ end.at - 1 \in 0..Len(part)
      /\ there.at - 1 = k + (end.at - 1)
      /\ there.at + there.length = k + end.at + end.length
  BY <1>1, <1>3, <1>4
<1>6. SubSeq(bytes, k + 1, there.at - 1) = SubSeq(part, 1, end.at - 1)
  BY <1>5, SameFrame, SMTT(30)
<1>7. ParsesOf(bytes)[k + 1] = ParseAt(bytes, k + 1, ParsesOf(bytes))
  BY <1>5, ParsesUnfold
<1> QED
  BY <1>2, <1>5, <1>6, <1>7 DEF ParseAt, end, there

LEMMA EndIsParse ==
  ASSUME NEW part \in Seq(Symbols), NEW bytes \in Seq(Symbols), NEW k \in Nat,
         PartAt(part, bytes, k), k + Len(part) = Len(bytes), FrameEnds(part, 1) = {}
  PROVE  ParsesOf(bytes)[k + 1] = Taken(part, [chunks |-> <<>>, result |-> "ok"])
<1>1. Len(part) \in Nat /\ Len(bytes) \in Nat /\ k + 1 \in 1..(Len(bytes) + 1)
  OBVIOUS
<1>2. FrameEnds(bytes, k + 1) = {}
  BY NoEndStays
<1>3. SubSeq(bytes, k + 1, Len(bytes)) = part
  <2>1. SubSeq(bytes, k + 1, k + Len(part)) = SubSeq(part, 1, Len(part))
    BY <1>1, SameFrame
  <2> QED
    BY <2>1, SubSeqFull
<1>4. ParsesOf(bytes)[k + 1] = ParseAt(bytes, k + 1, ParsesOf(bytes))
  BY <1>1, ParsesUnfold
<1> QED
  BY <1>2, <1>3, <1>4 DEF ParseAt

-----------------------------------------------------------------------------
(* The types.                                                                *)

LEMMA PieceTypes == \A piece \in Pieces : piece \in Seq(Symbols)
BY BoundsAssumption DEF Pieces

LEMMA TypesInit == Init => TypeOK
<1> SUFFICES ASSUME Init
             PROVE  TypeOK
  OBVIOUS
<1>1. PICK c \in [streamed : BOOLEAN, retry : BOOLEAN, stream_options : BOOLEAN] :
        streamed = c.streamed /\ retry = c.retry /\ requests = <<c.stream_options>>
  BY ConfigurationsAssumption DEF Init
<1>2. c.streamed \in BOOLEAN /\ c.retry \in BOOLEAN /\ c.stream_options \in BOOLEAN
  OBVIOUS
<1>3. requests \in Seq(BOOLEAN)
  BY <1>1, <1>2
<1>4. <<>> \in Seq(Symbols) /\ <<>> \in Seq(Chunks)
  OBVIOUS
<1> QED
  BY <1>1, <1>2, <1>3, <1>4 DEF Init, TypeOK

\* The part of a step that is about the body keeps its types.
BodyTypes == body \in Seq(Symbols) /\ buffer \in Seq(Symbols) /\ chunks \in Seq(Chunks)

LEMMA ParseTypes ==
  ASSUME chunks \in Seq(Chunks), NEW frame, NEW next, Parse(frame, next)
  PROVE  chunks' \in Seq(Chunks)
<1>1. CASE WellFormed(frame) /\ chunks' = chunks \o ChunksOf(frame)
  BY <1>1, ChunksOfTypes, ConcatProperties
<1> QED
  BY <1>1 DEF Parse

LEMMA BodyTypesStep ==
  ASSUME TypeOK, [Next]_vars
  PROVE  BodyTypes'
<1> USE DEF BodyTypes
<1>0. BodyTypes
  BY DEF TypeOK
<1>1. CASE UNCHANGED bodyVars
  BY <1>0, <1>1 DEF bodyVars
<1>2. CASE TakeFrame
  <2> DEFINE end == FirstFrameEnd(buffer, 1)
             n == end.at + end.length
  <2>1. FrameEnds(buffer, 1) # {} /\ buffer' = SubSeq(buffer, n, Len(buffer)) /\ UNCHANGED body
    BY <1>2 DEF TakeFrame
  <2>2. end.at \in 1..Len(buffer) /\ end.length \in {2, 4}
    BY <1>0, <2>1, FirstEndTypes
  <2>3. n \in Int /\ Len(buffer) \in Int /\ n >= 1
    BY <1>0, <2>2
  <2>4. \A i \in n..Len(buffer) : buffer[i] \in Symbols
    BY <1>0, <2>3, ElementOfSeq
  <2> HIDE DEF n
  <2>5. buffer' \in Seq(Symbols)
    BY <2>1, <2>3, <2>4, SubSeqProperties
  <2>6. chunks' \in Seq(Chunks)
    BY <1>0, <1>2, ParseTypes DEF TakeFrame
  <2> QED
    BY <1>0, <2>1, <2>5, <2>6
<1>3. CASE Flush
  <2>1. chunks' \in Seq(Chunks)
    BY <1>0, <1>3, ParseTypes DEF Flush
  <2>2. <<>> \in Seq(Symbols)
    OBVIOUS
  <2> QED
    BY <1>0, <1>3, <2>1, <2>2 DEF Flush
<1>4. ASSUME NEW piece \in Pieces, Arrive(piece)
      PROVE  BodyTypes'
  BY <1>0, <1>4, PieceTypes, ConcatProperties DEF Arrive
<1>5. \/ UNCHANGED bodyVars \/ TakeFrame \/ Flush \/ \E piece \in Pieces : Arrive(piece)
  BY DEF Next, Drain, CheckRetry, Validate, Drained, SendRequest, ReadAnswer, Break, vars,
         bodyVars
<1> QED
  BY <1>1, <1>2, <1>3, <1>4, <1>5

CallTypes ==
  /\ pc \in {"send", "response", "reading", "draining", "done"}
  /\ requests \in Seq(BOOLEAN)
  /\ streamed \in BOOLEAN /\ retry \in BOOLEAN
  /\ status \in {"none", "success", "client_error", "auth", "other"}
  /\ result \in {"none", "ok", "config_error", "upstream_error",
                 "upstream_authentication_failed", "malformed_stream"}

LEMMA CallTypesStep ==
  ASSUME CallTypes, [Next]_vars
  PROVE  CallTypes'
<1> USE DEF CallTypes
<1>1. CASE SendRequest
  BY <1>1 DEF SendRequest, Return, configured
<1>2. CASE CheckRetry
  <2>1. Append(requests, FALSE) \in Seq(BOOLEAN)
    OBVIOUS
  <2> QED
    BY <1>2, <2>1 DEF CheckRetry, Return, configured
<1>3. CASE Validate
  BY <1>3 DEF Validate, Return, configured
<1>4. CASE TakeFrame
  BY <1>4 DEF TakeFrame, Parse, Return, callVars, configured
<1>5. CASE Drained \/ Break \/ ReadAnswer
  BY <1>5 DEF Drained, Break, ReadAnswer, Return, configured
<1>6. CASE Flush
  BY <1>6 DEF Flush, Parse, Return, configured
<1>7. CASE \E piece \in Pieces : Arrive(piece)
  BY <1>7 DEF Arrive, configured
<1>8. CASE UNCHANGED vars
  BY <1>8 DEF vars, callVars, configured
<1> QED
  BY <1>1, <1>2, <1>3, <1>4, <1>5, <1>6, <1>7, <1>8 DEF Next, Drain

LEMMA TypesStep == TypeOK /\ [Next]_vars => TypeOK'
<1> SUFFICES ASSUME TypeOK, [Next]_vars
             PROVE  TypeOK'
  OBVIOUS
<1>1. CallTypes
  BY DEF CallTypes, TypeOK
<1>2. CallTypes'
  BY <1>1, CallTypesStep
<1>3. BodyTypes'
  BY BodyTypesStep
<1> QED
  BY <1>2, <1>3 DEF CallTypes, BodyTypes, TypeOK

\* Whatever bytes a body is made of and however it is cut, every variable of
\* a call holds values of its kind: what is parsed of any frame are chunks.
THEOREM CallTypesHold == Spec => []TypeOK
BY TypesInit, TypesStep, PTL DEF Spec

-----------------------------------------------------------------------------
(* The cuts.                                                                 *)

\* What is parsed of the beginning of a body and what the parse of all of it
\* finds from a place on, put together.
Together(parsed, bytes, k) ==
  [chunks |-> parsed \o ParsesOf(bytes)[k + 1].chunks, result |-> ParsesOf(bytes)[k + 1].result]

Unread == Len(body) - Len(buffer)

\* The buffer is the end of what has arrived, and before it
\* nothing is left to read.
Buffered ==
  /\ Len(buffer) <= Len(body)
  /\ PartAt(buffer, body, Unread)
  /\ pc \in {"send", "response"} => body = <<>> /\ buffer = <<>> /\ chunks = <<>>
  /\ pc = "reading" => FrameEnds(buffer, 1) = {}
  /\ pc # "done" => result = "none"

\* However the body goes on, the chunks are those of the whole body up to
\* where the buffer begins.
ParsedSoFar ==
  pc # "done" => \A rest \in Seq(Symbols) : ParseOf(body \o rest) = Together(chunks, body \o rest, Unread)

Answered ==
  streamed /\ result \in {"ok", "malformed_stream"} =>
    ParseOf(body) = [chunks |-> chunks, result |-> result]

BInv == TypeOK /\ Buffered /\ ParsedSoFar /\ Answered

LEMMA ParseOfTypes ==
  ASSUME NEW bytes \in Seq(Symbols), NEW k \in 0..Len(bytes)
  PROVE  /\ ParsesOf(bytes)[k + 1] \in Parses
         /\ ParsesOf(bytes)[k + 1].chunks \in Seq(Chunks)
         /\ ParsesOf(bytes)[k + 1] = [chunks |-> ParsesOf(bytes)[k + 1].chunks,
                                      result |-> ParsesOf(bytes)[k + 1].result]
<1>1. k + 1 \in 1..(Len(bytes) + 1)
  OBVIOUS
<1>2. ParsesOf(bytes)[k + 1] \in Parses
  BY <1>1, ParsesTypes
<1> QED
  BY <1>2 DEF Parses

LEMMA Regrouped ==
  \A s, t, v \in Seq(Chunks) : (s \o t) \o v = s \o (t \o v)
BY ConcatAssociative

\* A well-formed frame moves its chunks from what is to be parsed to what is.
LEMMA TogetherMoves ==
  ASSUME NEW bytes \in Seq(Symbols), NEW k \in 0..Len(bytes), NEW n \in 0..Len(bytes), NEW frame,
         NEW parsed \in Seq(Chunks), WellFormed(frame),
         ParsesOf(bytes)[k + 1] = Taken(frame, ParsesOf(bytes)[n + 1])
  PROVE  Together(parsed, bytes, k) = Together(parsed \o ChunksOf(frame), bytes, n)
<1> DEFINE others == ParsesOf(bytes)[n + 1]
<1>1. others.chunks \in Seq(Chunks)
  BY ParseOfTypes
<1>2. ParsesOf(bytes)[k + 1] = [chunks |-> ChunksOf(frame) \o others.chunks, result |-> others.result]
  BY DEF Taken
<1> HIDE DEF others
<1>3. (parsed \o ChunksOf(frame)) \o others.chunks = parsed \o (ChunksOf(frame) \o others.chunks)
  <2>1. ChunksOf(frame) \in Seq(Chunks)
    BY ChunksOfTypes
  <2> QED
    BY <1>1, <2>1, Regrouped
<1> QED
  BY <1>2, <1>3 DEF Together, others

\* One that is not ends the parse there.
LEMMA TogetherEnds ==
  ASSUME NEW bytes, NEW k, NEW frame, NEW others, NEW parsed \in Seq(Chunks), ~ WellFormed(frame),
         ParsesOf(bytes)[k + 1] = Taken(frame, others)
  PROVE  Together(parsed, bytes, k) = [chunks |-> parsed, result |-> "malformed_stream"]
<1>1. ParsesOf(bytes)[k + 1] = [chunks |-> <<>>, result |-> "malformed_stream"]
  BY DEF Taken
<1>2. parsed \o <<>> = parsed
  BY ConcatEmptySeq
<1> QED
  BY <1>1, <1>2 DEF Together

LEMMA CutsInit == Init => BInv
<1> SUFFICES ASSUME Init
             PROVE  BInv
  OBVIOUS
<1>1. TypeOK
  BY TypesInit
<1>2. body = <<>> /\ buffer = <<>> /\ chunks = <<>> /\ pc = "send" /\ result = "none"
  BY DEF Init
<1>3. Len(body) = 0 /\ Len(buffer) = 0 /\ Unread = 0
  BY <1>2 DEF Unread
<1>4. Buffered
  BY <1>2, <1>3 DEF Buffered, PartAt
<1>5. ASSUME NEW rest \in Seq(Symbols)
      PROVE  ParseOf(body \o rest) = Together(chunks, body \o rest, Unread)
  <2>1. body \o rest = rest
    BY <1>2, ConcatEmptySeq
  <2>2. Unread \in 0..Len(rest) /\ Unread + 1 = 1
    BY <1>3
  <2>3. /\ ParsesOf(rest)[1].chunks \in Seq(Chunks)
        /\ ParsesOf(rest)[1] = [chunks |-> ParsesOf(rest)[1].chunks, result |-> ParsesOf(rest)[1].result]
    BY <2>2, ParseOfTypes
  <2>4. chunks \o ParsesOf(rest)[1].chunks = ParsesOf(rest)[1].chunks
    BY <1>2, <2>3, ConcatEmptySeq
  <2> QED
    BY <2>1, <2>2, <2>3, <2>4 DEF Together, ParseOf
<1> QED
  BY <1>1, <1>2, <1>4, <1>5 DEF BInv, ParsedSoFar, Answered

\* Steps that leave the body alone.
LEMMA OtherStepsKeepCuts ==
  ASSUME BInv, UNCHANGED <<bodyVars, streamed>>,
         pc # "done" \/ result' = result,
         pc = "done" => pc' = "done",
         pc' = "reading" => FrameEnds(buffer, 1) = {},
         pc' \in {"send", "response"} => body = <<>> /\ buffer = <<>> /\ chunks = <<>>,
         pc' # "done" => result' = "none",
         result' \in {"ok", "malformed_stream"} => result' = result \/ ~ streamed
  PROVE  Buffered' /\ ParsedSoFar' /\ Answered'
<1>1. body' = body /\ buffer' = buffer /\ chunks' = chunks /\ streamed' = streamed /\ Unread' = Unread
  BY DEF bodyVars, Unread
<1>2. Buffered'
  BY <1>1 DEF BInv, Buffered
<1>3. ParsedSoFar'
  BY <1>1 DEF BInv, ParsedSoFar
<1>4. Answered'
  BY <1>1 DEF BInv, Answered
<1> QED
  BY <1>2, <1>3, <1>4

\* Where the buffer is in the body.
LEMMA UnreadTypes ==
  ASSUME BInv
  PROVE  /\ body \in Seq(Symbols) /\ buffer \in Seq(Symbols) /\ chunks \in Seq(Chunks)
         /\ Len(body) \in Nat /\ Len(buffer) \in Nat
         /\ Unread \in Nat /\ Unread + Len(buffer) = Len(body)
         /\ PartAt(buffer, body, Unread)
<1>1. body \in Seq(Symbols) /\ buffer \in Seq(Symbols) /\ chunks \in Seq(Chunks)
  BY DEF BInv, TypeOK
<1>2. Len(body) \in Nat /\ Len(buffer) \in Nat
  BY <1>1
<1> QED
  BY <1>1, <1>2 DEF BInv, Buffered, Unread

LEMMA ArriveKeepsCuts ==
  ASSUME BInv, NEW piece \in Pieces, Arrive(piece)
  PROVE  Buffered' /\ ParsedSoFar' /\ Answered'
<1>1. /\ pc = "reading" /\ pc' = "draining" /\ result = "none" /\ result' = "none"
      /\ body' = body \o piece /\ buffer' = buffer \o piece /\ chunks' = chunks
  BY DEF Arrive, BInv, Buffered
<1>2. piece \in Seq(Symbols)
  BY PieceTypes
<1>3. Len(body') = Len(body) + Len(piece) /\ Len(buffer') = Len(buffer) + Len(piece)
  BY <1>1, <1>2, UnreadTypes, ConcatProperties
<1>4. Unread' = Unread
  BY <1>2, <1>3, UnreadTypes DEF Unread
<1>5. PartAt(buffer', body', Unread')
  <2> DEFINE u == Unread
  <2>1. u \in Nat /\ u + Len(buffer) = Len(body) /\ PartAt(buffer, body, u)
    BY UnreadTypes
  <2> HIDE DEF u
  <2>2. PartAt(buffer \o piece, body \o piece, u)
    BY <1>2, <2>1, UnreadTypes, PartGrows
  <2> QED
    BY <1>1, <1>4, <2>2 DEF u
<1>6. Buffered'
  BY <1>1, <1>2, <1>3, <1>5, UnreadTypes DEF Buffered, BInv
<1>7. ASSUME NEW rest \in Seq(Symbols)
      PROVE  ParseOf(body' \o rest) = Together(chunks', body' \o rest, Unread')
  <2>1. body \in Seq(Symbols) /\ piece \in Seq(Symbols) /\ piece \o rest \in Seq(Symbols)
    BY <1>2, UnreadTypes, ConcatProperties
  <2>2. (body \o piece) \o rest = body \o (piece \o rest)
    BY <2>1, ConcatAssociative, SMTT(30)
  <2> QED
    BY <1>1, <1>4, <2>1, <2>2 DEF BInv, ParsedSoFar
<1> QED
  BY <1>1, <1>6, <1>7 DEF ParsedSoFar, Answered

LEMMA TakeFrameKeepsCuts ==
  ASSUME BInv, TakeFrame
  PROVE  Buffered' /\ ParsedSoFar' /\ Answered'
<1> DEFINE end == FirstFrameEnd(buffer, 1)
           n == end.at + end.length
           frame == SubSeq(buffer, 1, end.at - 1)
           u == Unread
<1>1. /\ pc = "draining" /\ FrameEnds(buffer, 1) # {} /\ body' = body
      /\ buffer' = SubSeq(buffer, n, Len(buffer)) /\ Parse(frame, UNCHANGED callVars)
  BY DEF TakeFrame
<1>2. end.at \in 1..Len(buffer) /\ end.length \in {2, 4} /\ n <= Len(buffer) + 1
  BY <1>1, UnreadTypes, FirstEndTypes
<1>3. /\ u \in Nat /\ u + Len(buffer) = Len(body) /\ PartAt(buffer, body, u)
      /\ Len(buffer) \in Nat /\ Len(body) \in Nat /\ chunks \in Seq(Chunks)
      /\ body \in Seq(Symbols) /\ buffer \in Seq(Symbols)
  BY UnreadTypes
<1>4. \A rest \in Seq(Symbols) :
        ParsesOf(body \o rest)[u + 1] = Taken(frame, ParsesOf(body \o rest)[u + end.at + end.length])
  <2> TAKE rest \in Seq(Symbols)
  <2> HIDE DEF u
  <2>1. PartAt(buffer, body \o rest, u) /\ body \o rest \in Seq(Symbols)
    BY <1>3, PartStays, ConcatProperties
  <2> QED
    BY <1>1, <1>3, <2>1, RoundIsParse
<1>5. \A rest \in Seq(Symbols) : ParseOf(body \o rest) = Together(chunks, body \o rest, u)
  BY <1>1 DEF BInv, ParsedSoFar
<1> HIDE DEF u, frame
<1>6. u + end.at + end.length = (u + n - 1) + 1 /\ n \in 1..(Len(buffer) + 1) /\ n - 1 \in Nat
  <2> DEFINE at == end.at
             length == end.length
  <2>1. at \in 1..Len(buffer) /\ length \in {2, 4} /\ at + length <= Len(buffer) + 1
    BY <1>2
  <2> HIDE DEF at, length
  <2>2. u + at + length = (u + (at + length) - 1) + 1 /\ at + length >= 1 /\ at + length \in Nat
    BY <1>3, <2>1
  <2> QED
    BY <1>3, <2>1, <2>2 DEF at, length
<1> HIDE DEF n
<1>7. Len(buffer') = Len(buffer) - n + 1 /\ PartAt(buffer', body, u + n - 1)
  BY <1>1, <1>3, <1>6, PartShrinks
<1>8. Unread' = u + n - 1
  <2>1. Unread' = Len(body) - Len(buffer')
    BY <1>1 DEF Unread
  <2> QED
    BY <1>3, <1>6, <1>7, <2>1
<1>9. CASE WellFormed(frame)
  <2>1. chunks' = chunks \o ChunksOf(frame) /\ pc' = pc /\ result' = result
    BY <1>1, <1>9 DEF Parse, callVars
  <2>2. Buffered'
    BY <1>1, <1>3, <1>6, <1>7, <1>8, <2>1 DEF Buffered, BInv
  <2>3. ASSUME NEW rest \in Seq(Symbols)
        PROVE  ParseOf(body' \o rest) = Together(chunks', body' \o rest, Unread')
    <3> DEFINE whole == body \o rest
               k == u + n - 1
    <3>1. whole \in Seq(Symbols) /\ Len(whole) = Len(body) + Len(rest) /\ Len(rest) \in Nat
      BY <1>3, ConcatProperties
    <3>2. k \in 0..Len(whole) /\ u \in 0..Len(whole)
      BY <1>3, <1>6, <3>1
    <3>3. ParsesOf(whole)[u + 1] = Taken(frame, ParsesOf(whole)[k + 1])
      BY <1>4, <1>6
    <3>4. ParseOf(whole) = Together(chunks, whole, u)
      BY <1>5
    <3> HIDE DEF whole, k
    <3>5. Together(chunks, whole, u) = Together(chunks \o ChunksOf(frame), whole, k)
      <4> DEFINE c == chunks
      <4>1. c \in Seq(Chunks)
        BY <1>3
      <4> HIDE DEF c
      <4>2. Together(c, whole, u) = Together(c \o ChunksOf(frame), whole, k)
        BY <1>9, <3>1, <3>2, <3>3, <4>1, TogetherMoves
      <4> QED
        BY <4>2 DEF c
    <3> QED
      BY <1>1, <1>8, <2>1, <3>4, <3>5 DEF whole, k
  <2>4. result' = "none"
    BY <1>1, <2>1 DEF BInv, Buffered
  <2> QED
    BY <2>2, <2>3, <2>4 DEF ParsedSoFar, Answered
<1>10. CASE ~ WellFormed(frame)
  <2>1. chunks' = chunks /\ pc' = "done" /\ result' = "malformed_stream"
    BY <1>1, <1>10 DEF Parse, Return
  <2>2. Buffered'
    BY <1>1, <1>3, <1>6, <1>7, <1>8, <2>1 DEF Buffered, BInv
  <2>3. <<>> \in Seq(Symbols) /\ body \o <<>> = body
    BY <1>3, ConcatEmptySeq
  <2>4. ParsesOf(body)[u + 1] = Taken(frame, ParsesOf(body)[u + end.at + end.length])
    BY <1>4, <2>3
  <2>5. Together(chunks, body, u) = [chunks |-> chunks, result |-> "malformed_stream"]
    BY <1>3, <1>10, <2>4, TogetherEnds
  <2>6. ParseOf(body) = [chunks |-> chunks, result |-> "malformed_stream"]
    BY <1>5, <2>3, <2>5
  <2> QED
    BY <1>1, <2>1, <2>2, <2>6 DEF ParsedSoFar, Answered
<1> QED
  BY <1>9, <1>10

LEMMA FlushKeepsCuts ==
  ASSUME BInv, Flush
  PROVE  Buffered' /\ ParsedSoFar' /\ Answered'
<1> DEFINE u == Unread
<1>1. /\ pc = "reading" /\ FrameEnds(buffer, 1) = {} /\ body' = body /\ buffer' = <<>>
      /\ Parse(buffer, Return("ok"))
  BY DEF Flush, BInv, Buffered
<1>2. /\ u \in Nat /\ u + Len(buffer) = Len(body) /\ PartAt(buffer, body, u)
      /\ Len(body) \in Nat /\ chunks \in Seq(Chunks)
      /\ body \in Seq(Symbols) /\ buffer \in Seq(Symbols)
  BY UnreadTypes
<1>3. <<>> \in Seq(Symbols) /\ body \o <<>> = body
  BY <1>2, ConcatEmptySeq
<1>4. ParseOf(body) = Together(chunks, body, u)
  BY <1>1, <1>3 DEF BInv, ParsedSoFar
<1> HIDE DEF u
<1>5. ParsesOf(body)[u + 1] = Taken(buffer, [chunks |-> <<>>, result |-> "ok"])
  BY <1>1, <1>2, EndIsParse
<1>6. Buffered' /\ ParsedSoFar'
  <2>1. pc' = "done"
    BY <1>1 DEF Parse, Return
  <2>2. Len(buffer') = 0 /\ Len(body') \in Nat
    BY <1>1, <1>2
  <2> QED
    BY <1>1, <2>1, <2>2 DEF Buffered, ParsedSoFar, PartAt, Unread
<1>7. CASE WellFormed(buffer)
  <2>1. chunks' = chunks \o ChunksOf(buffer) /\ result' = "ok"
    BY <1>1, <1>7 DEF Parse, Return
  <2>2. ChunksOf(buffer) \o <<>> = ChunksOf(buffer)
    BY <1>7, ChunksOfTypes, ConcatEmptySeq
  <2>3. ParsesOf(body)[u + 1] = [chunks |-> ChunksOf(buffer), result |-> "ok"]
    BY <1>5, <1>7, <2>2 DEF Taken
  <2> QED
    BY <1>1, <1>4, <1>6, <2>1, <2>3 DEF Together, Answered
<1>8. CASE ~ WellFormed(buffer)
  <2>1. chunks' = chunks /\ result' = "malformed_stream"
    BY <1>1, <1>8 DEF Parse, Return
  <2>2. Together(chunks, body, u) = [chunks |-> chunks, result |-> "malformed_stream"]
    BY <1>2, <1>5, <1>8, TogetherEnds
  <2> QED
    BY <1>1, <1>4, <1>6, <2>1, <2>2 DEF Answered
<1> QED
  BY <1>7, <1>8

LEMMA CutsStep == BInv /\ [Next]_vars => BInv'
<1> SUFFICES ASSUME BInv, [Next]_vars
             PROVE  BInv'
  OBVIOUS
<1>1. TypeOK'
  BY TypesStep DEF BInv
<1>2. TypeOK /\ Buffered
  BY DEF BInv
<1> SUFFICES Buffered' /\ ParsedSoFar' /\ Answered'
  BY <1>1 DEF BInv
<1>3. CASE TakeFrame
  BY <1>3, TakeFrameKeepsCuts
<1>4. CASE Flush
  BY <1>4, FlushKeepsCuts
<1>5. CASE \E piece \in Pieces : Arrive(piece)
  BY <1>5, ArriveKeepsCuts
<1>6. CASE SendRequest
  BY <1>2, <1>6, OtherStepsKeepCuts DEF SendRequest, Return, configured, Buffered
<1>7. CASE CheckRetry
  BY <1>2, <1>7, OtherStepsKeepCuts DEF CheckRetry, Return, configured, Buffered
<1>8. CASE Validate
  <2>1. body = <<>> /\ buffer = <<>> /\ chunks = <<>> /\ result = "none" /\ UNCHANGED <<bodyVars, streamed>>
    BY <1>2, <1>8 DEF Validate, Return, configured, Buffered
  <2>2. FrameEnds(buffer, 1) = {}
    <3>1. FrameEnds(<<>>, 1) = {}
      <4> SUFFICES ASSUME NEW e, e \in FrameEnds(<<>>, 1)
                   PROVE  FALSE
        OBVIOUS
      <4>1. <<>> \in Seq(Symbols) /\ Len(<<>>) = 0 /\ 1 \in Nat \ {0}
        OBVIOUS
      <4>2. \E p \in 1..Len(<<>>) : TRUE
        BY <4>1, EndsAre
      <4> QED
        BY <4>1, <4>2
    <3> QED
      BY <2>1, <3>1
  <2> QED
    BY <1>2, <1>8, <2>1, <2>2, OtherStepsKeepCuts DEF Validate, Return
<1>9. CASE Drained
  BY <1>2, <1>9, OtherStepsKeepCuts DEF Drained, configured, Buffered
<1>10. CASE ReadAnswer
  BY <1>2, <1>10, OtherStepsKeepCuts DEF ReadAnswer, Return, configured, Buffered
<1>11. CASE Break
  BY <1>2, <1>11, OtherStepsKeepCuts DEF Break, Return, configured, Buffered
<1>12. CASE UNCHANGED vars
  BY <1>2, <1>12, OtherStepsKeepCuts DEF vars, callVars, configured, Buffered
<1> QED
  BY <1>3, <1>4, <1>5, <1>6, <1>7, <1>8, <1>9, <1>10, <1>11, <1>12 DEF Next, Drain

LEMMA CutsAreEnough == BInv => CutsDoNotMatter
<1> SUFFICES ASSUME BInv
             PROVE  CutsDoNotMatter
  OBVIOUS
<1>1. streamed /\ result \in {"ok", "malformed_stream"} =>
        ParseOf(body) = [chunks |-> chunks, result |-> result]
  BY DEF BInv, Answered
<1>2. ASSUME pc = "reading", NEW symbol \in Symbols
      PROVE  IsPrefix(chunks, ParseOf(Append(body, symbol)).chunks)
  <2> DEFINE rest == <<symbol>>
             whole == body \o rest
             u == Unread
  <2>1. /\ u \in Nat /\ u + Len(buffer) = Len(body) /\ Len(buffer) \in Nat
        /\ chunks \in Seq(Chunks) /\ body \in Seq(Symbols)
    BY UnreadTypes
  <2>2. rest \in Seq(Symbols) /\ Append(body, symbol) = whole
    BY <2>1
  <2>3. whole \in Seq(Symbols) /\ Len(whole) = Len(body) + Len(rest) /\ Len(rest) \in Nat
    BY <2>1, <2>2, ConcatProperties
  <2>4. u \in 0..Len(whole)
    BY <2>1, <2>3
  <2>5. ParseOf(whole) = Together(chunks, whole, u)
    BY <1>2, <2>2 DEF BInv, ParsedSoFar
  <2> HIDE DEF rest, whole, u
  <2> DEFINE more == ParsesOf(whole)[u + 1].chunks
  <2>6. more \in Seq(Chunks)
    BY <2>3, <2>4, ParseOfTypes
  <2>7. ParseOf(whole).chunks = chunks \o more
    BY <2>5 DEF Together
  <2> HIDE DEF more
  <2>8. IsPrefix(chunks, chunks \o more)
    <3>1. /\ chunks \o more \in Seq(Chunks) /\ Len(chunks \o more) = Len(chunks) + Len(more)
          /\ Len(chunks) \in Nat /\ Len(more) \in Nat
      BY <2>1, <2>6, ConcatProperties
    <3>2. \A i \in 1..Len(chunks) : (chunks \o more)[i] = chunks[i] /\ chunks[i] \in Chunks
      BY <2>1, <2>6, <3>1, ConcatProperties, ElementOfSeq
    <3>3. SubSeq(chunks, 1, Len(chunks)) = chunks
      BY <2>1, SubSeqFull
    <3>4. /\ SubSeq(chunks \o more, 1, Len(chunks)) \in Seq(Chunks)
          /\ Len(SubSeq(chunks \o more, 1, Len(chunks))) = Len(chunks)
          /\ \A i \in 1..Len(chunks) : SubSeq(chunks \o more, 1, Len(chunks))[i] = chunks[i]
      <4> DEFINE all == chunks \o more
                 N == Len(chunks)
      <4>1. N \in Nat /\ \A i \in 1..N : all[i] = chunks[i] /\ all[i] \in Chunks
        BY <3>1, <3>2
      <4> HIDE DEF all, N
      <4>2. /\ SubSeq(all, 1, N) \in Seq(Chunks)
            /\ Len(SubSeq(all, 1, N)) = IF 1 <= N THEN N - 1 + 1 ELSE 0
            /\ \A i \in 1..(N - 1 + 1) : SubSeq(all, 1, N)[i] = all[1 + i - 1]
        BY <4>1, SubSeqProperties
      <4>3. Len(SubSeq(all, 1, N)) = N /\ \A i \in 1..N : SubSeq(all, 1, N)[i] = all[i]
        BY <4>1, <4>2
      <4> QED
        BY <4>1, <4>2, <4>3 DEF all, N
    <3>5. SubSeq(chunks \o more, 1, Len(chunks)) = chunks
      BY <2>1, <3>1, <3>4, SeqEqual
    <3> QED
      BY <3>1, <3>3, <3>5 DEF IsPrefix
  <2> QED
    BY <2>2, <2>7, <2>8
<1> QED
  BY <1>1, <1>2 DEF CutsDoNotMatter

\* Wherever the network cuts the body of an answer, and whatever bytes it is
\* made of, the chunks and the result are those of the parse of the body as a
\* whole, and what is parsed early is a beginning of what any further byte
\* gives (parse_sse_response and drain_sse_buffer, mod.rs:194-227).
THEOREM CutsDoNotMatterHolds == Spec => []CutsDoNotMatter
BY CutsInit, CutsStep, CutsAreEnough, PTL DEF Spec

-----------------------------------------------------------------------------
(* Streams of events.                                                        *)

LEMMA DataLineSymbols ==
  ASSUME NEW bytes \in Seq(Symbols), NEW i \in DataLines(bytes)
  PROVE  /\ i \in 1..Len(bytes) /\ i \in Nat /\ Len(bytes) \in Nat
         /\ BeginsLine(bytes, i) /\ IsData(bytes[i])
         /\ bytes[i] # CR /\ bytes[i] # LF
         /\ bytes[i] \in Chunks \/ bytes[i] = DoneMark
BY SymbolsAssumption DEF DataLines, IsData

\* Where a CR is followed by LF, the line ends with the latter.
LEMMA CRBeforeLF ==
  ASSUME NEW bytes \in Seq(Symbols), OneLineEnd(bytes), NEW k \in 1..Len(bytes)
  PROVE  /\ bytes[k] = CR => k < Len(bytes) /\ bytes[k + 1] = LF
         /\ bytes[k] = LF /\ (\E m \in 1..Len(bytes) : bytes[m] = CR) => k > 1 /\ bytes[k - 1] = CR
<1>1. CR \in ToSet(bytes) <=> \E m \in 1..Len(bytes) : bytes[m] = CR
  BY DEF ToSet
<1>2. DOMAIN bytes = 1..Len(bytes)
  OBVIOUS
<1> QED
  BY <1>1, <1>2 DEF OneLineEnd

\* A blank line between two lines with data ends a frame before the second.
LEMMA BlankLineEnds ==
  ASSUME NEW bytes \in Seq(Symbols), OneLineEnd(bytes), NEW p \in Nat \ {0},
         NEW i \in DataLines(bytes), NEW j \in DataLines(bytes), p <= i,
         BlankLineBetween(bytes, i, j)
  PROVE  \E e \in FrameEnds(bytes, p) : e.at < j
<1>1. /\ Len(bytes) \in Nat /\ i \in Nat /\ j \in Nat /\ i >= 1 /\ j <= Len(bytes)
      /\ bytes[i] # LF /\ bytes[i] # CR
  BY DataLineSymbols
<1>2. PICK k \in i..(j - 1) : bytes[k] = LF /\ bytes[k + 1] \in {CR, LF}
  BY DEF BlankLineBetween
<1>3. k \in Nat /\ k > i /\ k < j /\ k \in 1..Len(bytes) /\ k + 1 \in 1..Len(bytes)
  BY <1>1, <1>2
<1>4. CASE bytes[k + 1] = LF
  <2> DEFINE d == <<LF, LF>>
  <2>1. d \in Delimiters /\ Len(d) = 2 /\ d[1] = LF /\ d[2] = LF
    BY DEF Delimiters
  <2> HIDE DEF d
  <2>2. \A n \in 1..2 : n = 1 \/ n = 2
    OBVIOUS
  <2>3. \A n \in 1..Len(d) : bytes[k + n - 1] = d[n]
    BY <1>2, <1>3, <1>4, <2>1, <2>2
  <2>4. StartsWith(bytes, k, d) /\ k \in p..Len(bytes)
    <3>1. k \in Nat \ {0} /\ k + Len(d) - 1 <= Len(bytes) /\ k \in p..Len(bytes)
      BY <1>1, <1>3, <2>1
    <3> QED
      BY <2>1, <2>3, <3>1, DelimiterAt
  <2>5. [at |-> k, length |-> Len(d)] \in FrameEnds(bytes, p)
    BY <2>1, <2>4, EndsAre
  <2> QED
    BY <1>3, <2>5
<1>5. CASE bytes[k + 1] = CR
  <2>1. /\ k + 1 < Len(bytes) /\ bytes[(k + 1) + 1] = LF
        /\ k > 1 /\ bytes[k - 1] = CR
    BY <1>2, <1>3, <1>5, CRBeforeLF
  <2>2. k - 1 \in Nat \ {0} /\ k - 1 >= i
    BY <1>1, <1>3, <2>1
  <2> DEFINE d == <<CR, LF, CR, LF>>
             m == k - 1
  <2>3. d \in Delimiters /\ Len(d) = 4 /\ d[1] = CR /\ d[2] = LF /\ d[3] = CR /\ d[4] = LF
    BY DEF Delimiters
  <2> HIDE DEF d
  <2>4. \A n \in 1..4 : n = 1 \/ n = 2 \/ n = 3 \/ n = 4
    OBVIOUS
  <2>5. /\ m + 1 - 1 = k - 1 /\ m + 2 - 1 = k /\ m + 3 - 1 = k + 1 /\ m + 4 - 1 = (k + 1) + 1
        /\ m \in Nat \ {0} /\ m + 4 - 1 <= Len(bytes) /\ m \in p..Len(bytes) /\ m < j
    BY <1>1, <1>3, <2>1, <2>2
  <2> HIDE DEF m
  <2>6. \A n \in 1..Len(d) : bytes[m + n - 1] = d[n]
    BY <1>2, <1>5, <2>1, <2>3, <2>4, <2>5
  <2>7. StartsWith(bytes, m, d)
    BY <2>3, <2>5, <2>6, DelimiterAt
  <2>8. [at |-> m, length |-> Len(d)] \in FrameEnds(bytes, p)
    BY <2>3, <2>5, <2>7, EndsAre
  <2> QED
    BY <2>5, <2>8
<1> QED
  BY <1>2, <1>4, <1>5

\* What stands between two frames: line ends, and a blank line.
LEMMA EndSymbols ==
  ASSUME NEW bytes \in Seq(Symbols), NEW p \in Nat \ {0}, FrameEnds(bytes, p) # {}
  PROVE  LET end == FirstFrameEnd(bytes, p) IN
         /\ \A k \in end.at..(end.at + end.length - 1) : bytes[k] \in {CR, LF}
         /\ bytes[end.at + end.length - 1] = LF
         /\ \E k \in end.at..(end.at + end.length - 2) : bytes[k] = LF /\ bytes[k + 1] \in {CR, LF}
<1>1. PICK at \in p..Len(bytes), d \in Delimiters :
        StartsWith(bytes, at, d) /\ FirstFrameEnd(bytes, p) = [at |-> at, length |-> Len(d)]
  BY FirstEndExists, EndsAre
<1>2. at \in Nat \ {0} /\ \A n \in 1..Len(d) : bytes[at + n - 1] = d[n]
  BY <1>1, DelimiterAt
<1>3. CASE Len(d) = 4 /\ d[1] = CR /\ d[2] = LF /\ d[3] = CR /\ d[4] = LF
  <2>1. bytes[at] = CR /\ bytes[at + 1] = LF /\ bytes[at + 2] = CR /\ bytes[at + 3] = LF
    BY <1>2, <1>3
  <2>2. \A k \in at..(at + 4 - 1) : k = at \/ k = at + 1 \/ k = at + 2 \/ k = at + 3
    BY <1>2
  <2>3. at + 4 - 1 = at + 3 /\ at + 1 \in at..(at + 4 - 2) /\ (at + 1) + 1 = at + 2
    BY <1>2
  <2> QED
    BY <1>1, <1>3, <2>1, <2>2, <2>3
<1>4. CASE Len(d) = 2 /\ d[1] = LF /\ d[2] = LF
  <2>1. bytes[at] = LF /\ bytes[at + 1] = LF
    BY <1>2, <1>4
  <2>2. \A k \in at..(at + 2 - 1) : k = at \/ k = at + 1
    BY <1>2
  <2>3. at + 2 - 1 = at + 1 /\ at \in at..(at + 2 - 2)
    BY <1>2
  <2> QED
    BY <1>1, <1>4, <2>1, <2>2, <2>3
<1> QED
  BY <1>3, <1>4, DelimiterSymbols

\* A frame of a body, symbol by symbol.
LEMMA FrameSymbols ==
  ASSUME NEW bytes \in Seq(Symbols), NEW p \in 1..(Len(bytes) + 1), NEW e \in (p - 1)..Len(bytes)
  PROVE  LET frame == SubSeq(bytes, p, e) IN
         /\ frame \in Seq(Symbols) /\ Len(frame) = e - p + 1 /\ DOMAIN frame = 1..(e - p + 1)
         /\ \A n \in 1..(e - p + 1) : frame[n] = bytes[p + n - 1]
<1> DEFINE frame == SubSeq(bytes, p, e)
<1>1. Len(bytes) \in Nat /\ p \in Nat /\ e \in Int /\ p >= 1 /\ e <= Len(bytes) /\ p - 1 <= e
  OBVIOUS
<1>2. \A i \in p..e : bytes[i] \in Symbols
  BY <1>1, ElementOfSeq
<1>3. /\ frame \in Seq(Symbols)
      /\ Len(frame) = IF p <= e THEN e - p + 1 ELSE 0
      /\ \A n \in 1..(e - p + 1) : frame[n] = bytes[p + n - 1]
  BY <1>1, <1>2, SubSeqProperties
<1> HIDE DEF frame
<1>4. Len(frame) = e - p + 1
  BY <1>1, <1>3
<1>5. DOMAIN frame = 1..Len(frame)
  BY <1>3
<1> QED
  BY <1>3, <1>4, <1>5 DEF frame

\* Which symbols of a frame are data, seen from the body.
LEMMA DataOfFrame ==
  ASSUME NEW bytes \in Seq(Symbols), NEW p \in 1..(Len(bytes) + 1), NEW e \in (p - 1)..Len(bytes),
         BeginsLine(bytes, p), NEW n \in 1..(e - p + 1)
  PROVE  InDataLine(SubSeq(bytes, p, e), n) <=>
           /\ bytes[p + n - 1] # CR
           /\ \E i \in DataLines(bytes) : /\ i \in p..(p + n - 1)
                                          /\ \A k \in i..(p + n - 1) : bytes[k] # LF
<1> DEFINE frame == SubSeq(bytes, p, e)
           m == p + n - 1
<1>1. /\ Len(bytes) \in Nat /\ p \in Nat /\ p >= 1 /\ n \in Nat /\ n >= 1 /\ m \in p..e
      /\ e \in Int /\ e <= Len(bytes) /\ DOMAIN bytes = 1..Len(bytes)
  OBVIOUS
<1>2. \A k \in 1..(e - p + 1) : frame[k] = bytes[p + k - 1]
  BY FrameSymbols
<1> HIDE DEF frame
<1>3. ASSUME NEW s \in 1..n
      PROVE  /\ frame[s] = bytes[p + s - 1]
             /\ BeginsLine(frame, s) <=> BeginsLine(bytes, p + s - 1)
  <2>1. s \in 1..(e - p + 1)
    BY <1>1
  <2>2. CASE s = 1
    <3>1. p + s - 1 = p
      BY <1>1, <2>2
    <3> QED
      BY <1>2, <2>1, <2>2, <3>1 DEF BeginsLine
  <2>3. CASE s # 1
    <3>1. s - 1 \in 1..(e - p + 1) /\ p + (s - 1) - 1 = (p + s - 1) - 1 /\ p + s - 1 # 1
      BY <1>1, <2>3
    <3>2. frame[s - 1] = bytes[(p + s - 1) - 1]
      BY <1>2, <3>1
    <3> QED
      BY <1>2, <2>1, <2>3, <3>1, <3>2 DEF BeginsLine
  <2> QED
    BY <2>2, <2>3
<1>4. frame[n] = bytes[m]
  BY <1>1, <1>3
<1> HIDE DEF m
<1>5. ASSUME NEW s \in 1..n, BeginsLine(frame, s), IsData(frame[s]), \A k \in s..n : frame[k] # LF
      PROVE  \E i \in DataLines(bytes) : i \in p..m /\ \A k \in i..m : bytes[k] # LF
  <2> DEFINE i == p + s - 1
  <2>1. i \in p..m /\ i \in 1..Len(bytes) /\ i \in DOMAIN bytes
    BY <1>1 DEF m
  <2>2. BeginsLine(bytes, i) /\ IsData(bytes[i])
    BY <1>3, <1>5
  <2>3. i \in DataLines(bytes)
    BY <2>1, <2>2 DEF DataLines
  <2>4. ASSUME NEW k \in i..m
        PROVE  bytes[k] # LF
    <3>1. (k - p + 1) \in s..n /\ (k - p + 1) \in 1..n /\ p + (k - p + 1) - 1 = k
      BY <1>1 DEF m
    <3>2. frame[k - p + 1] = bytes[k] /\ frame[k - p + 1] # LF
      BY <1>3, <1>5, <3>1
    <3> QED
      BY <3>2
  <2> HIDE DEF i
  <2> QED
    BY <2>1, <2>3, <2>4
<1>6. ASSUME NEW i \in DataLines(bytes), i \in p..m, \A k \in i..m : bytes[k] # LF
      PROVE  \E s \in 1..n : /\ BeginsLine(frame, s) /\ IsData(frame[s])
                             /\ \A k \in s..n : frame[k] # LF
  <2> DEFINE s == i - p + 1
  <2>1. s \in 1..n /\ p + s - 1 = i
    BY <1>1, <1>6 DEF m
  <2>2. BeginsLine(bytes, i) /\ IsData(bytes[i])
    BY DEF DataLines
  <2>3. BeginsLine(frame, s) /\ IsData(frame[s])
    BY <1>3, <2>1, <2>2
  <2>4. ASSUME NEW k \in s..n
        PROVE  frame[k] # LF
    <3>1. k \in 1..n /\ p + k - 1 \in i..m
      BY <1>1, <1>6, <2>1 DEF m
    <3> QED
      BY <1>3, <1>6, <3>1
  <2> HIDE DEF s
  <2> QED
    BY <2>1, <2>3, <2>4
<1>7. InDataLine(frame, n) <=>
        /\ bytes[m] # CR
        /\ \E i \in DataLines(bytes) : i \in p..m /\ \A k \in i..m : bytes[k] # LF
  BY <1>4, <1>5, <1>6 DEF InDataLine
<1> QED
  BY <1>7 DEF frame, m

\* A frame with one chunk or [DONE] at most.
OneEvent(bytes, p, e) ==
  /\ \A k \in p..e : bytes[k] # Garbage
  /\ \A i \in DataLines(bytes) : i \in p..e => Alone(bytes, i)
  /\ \A i, j \in DataLines(bytes) : i \in p..e /\ j \in p..e => i = j

\* What a place of a body adds to the chunks.
Marks(bytes) ==
  [i \in DOMAIN bytes |-> IF i \in DataLines(bytes) /\ bytes[i] \in Chunks THEN <<bytes[i]>> ELSE <<>>]

Parts(frame) == [n \in DOMAIN frame |-> IF InDataLine(frame, n) THEN <<frame[n]>> ELSE <<>>]

LEMMA PartsTypes ==
  ASSUME NEW frame \in Seq(Symbols)
  PROVE  /\ Parts(frame) \in Seq(Seq(Symbols)) /\ Len(Parts(frame)) = Len(frame)
         /\ \A n \in 1..Len(frame) :
              Parts(frame)[n] = IF InDataLine(frame, n) THEN <<frame[n]>> ELSE <<>>
<1> DEFINE N == Len(frame)
<1>1. N \in Nat /\ DOMAIN frame = 1..N /\ \A n \in 1..N : frame[n] \in Symbols
  OBVIOUS
<1>2. \A n \in 1..N : /\ Parts(frame)[n] = IF InDataLine(frame, n) THEN <<frame[n]>> ELSE <<>>
                      /\ Parts(frame)[n] \in Seq(Symbols)
  BY <1>1 DEF Parts
<1>3. Parts(frame) = [n \in 1..N |-> Parts(frame)[n]]
  BY <1>1 DEF Parts
<1> QED
  BY <1>1, <1>2, <1>3, IsASeq

\* The only data of a well-formed frame stands alone on its line.
LEMMA OnlyData ==
  ASSUME NEW bytes \in Seq(Symbols), OneLineEnd(bytes), NEW p \in 1..(Len(bytes) + 1),
         NEW e \in (p - 1)..Len(bytes), BeginsLine(bytes, p), OneEvent(bytes, p, e),
         NEW n \in 1..(e - p + 1)
  PROVE  InDataLine(SubSeq(bytes, p, e), n) <=> p + n - 1 \in DataLines(bytes)
<1> DEFINE m == p + n - 1
<1>1. /\ Len(bytes) \in Nat /\ p \in Nat /\ p >= 1 /\ m \in p..e /\ m \in Nat
      /\ e \in Int /\ e <= Len(bytes) /\ m \in 1..Len(bytes)
  OBVIOUS
<1> HIDE DEF m
<1>2. ASSUME m \in DataLines(bytes)
      PROVE  InDataLine(SubSeq(bytes, p, e), n)
  <2>1. bytes[m] # CR /\ m \in p..m /\ \A k \in m..m : bytes[k] # LF
    BY <1>1, <1>2, DataLineSymbols
  <2> QED
    BY <1>2, <2>1, DataOfFrame DEF m
<1>3. ASSUME InDataLine(SubSeq(bytes, p, e), n)
      PROVE  m \in DataLines(bytes)
  <2>1. bytes[m] # CR
    BY <1>3, DataOfFrame DEF m
  <2>2. PICK i \in DataLines(bytes) : i \in p..m /\ \A k \in i..m : bytes[k] # LF
    BY <1>3, DataOfFrame DEF m
  <2> SUFFICES ASSUME i # m
               PROVE  FALSE
    BY <2>2
  <2>3. i \in Nat /\ i < m /\ i + 1 \in i..m /\ i \in p..e /\ i # Len(bytes) /\ i + 1 \in 1..Len(bytes)
    BY <1>1, <2>2
  <2>4. bytes[i + 1] \in {CR, LF}
    BY <2>3 DEF OneEvent, Alone
  <2>5. bytes[i + 1] = CR
    BY <2>2, <2>3, <2>4
  <2>6. bytes[(i + 1) + 1] = LF
    BY <2>3, <2>5, CRBeforeLF
  <2>7. i + 1 # m
    BY <2>1, <2>5
  <2>8. (i + 1) + 1 \in i..m
    BY <1>1, <2>3, <2>7
  <2> QED
    BY <2>2, <2>6, <2>8
<1> QED
  BY <1>2, <1>3 DEF m

LEMMA MarksTypes ==
  ASSUME NEW bytes \in Seq(Symbols)
  PROVE  /\ Marks(bytes) \in Seq(Seq(Chunks)) /\ Len(Marks(bytes)) = Len(bytes)
         /\ \A i \in 1..Len(bytes) :
              Marks(bytes)[i] =
                IF i \in DataLines(bytes) /\ bytes[i] \in Chunks THEN <<bytes[i]>> ELSE <<>>
<1> DEFINE N == Len(bytes)
<1>1. N \in Nat /\ DOMAIN bytes = 1..N
  OBVIOUS
<1>2. \A i \in 1..N :
        /\ Marks(bytes)[i] = IF i \in DataLines(bytes) /\ bytes[i] \in Chunks THEN <<bytes[i]>> ELSE <<>>
        /\ Marks(bytes)[i] \in Seq(Chunks)
  BY <1>1 DEF Marks
<1>3. Marks(bytes) = [i \in 1..N |-> Marks(bytes)[i]]
  BY <1>1 DEF Marks
<1> QED
  BY <1>1, <1>2, <1>3, IsASeq

LEMMA DataIsJoined ==
  ASSUME NEW frame \in Seq(Symbols)
  PROVE  \E f : IsJoined(f, Parts(frame), Symbols) /\ Data(frame) = f[Len(frame)]
<1>1. Data(frame) = FlattenSeq(Parts(frame))
  BY DEF Data, Parts
<1>2. PICK f : IsJoined(f, Parts(frame), Symbols) /\ FlattenSeq(Parts(frame)) = f[Len(Parts(frame))]
  BY PartsTypes, FlattenSteps
<1> QED
  BY <1>1, <1>2, PartsTypes

\* A frame with one event is well-formed, and its chunk is what its line adds.
LEMMA OneEventIsWellFormed ==
  ASSUME NEW bytes \in Seq(Symbols), OneLineEnd(bytes), NEW p \in 1..(Len(bytes) + 1),
         NEW e \in (p - 1)..Len(bytes), BeginsLine(bytes, p), OneEvent(bytes, p, e)
  PROVE  LET frame == SubSeq(bytes, p, e) IN
         /\ WellFormed(frame)
         /\ \A i \in DataLines(bytes) : i \in p..e => ChunksOf(frame) = Marks(bytes)[i]
         /\ DataLines(bytes) \cap (p..e) = {} => ChunksOf(frame) = <<>>
<1> DEFINE frame == SubSeq(bytes, p, e)
           N == e - p + 1
<1>1. /\ frame \in Seq(Symbols) /\ Len(frame) = N /\ DOMAIN frame = 1..N
      /\ \A n \in 1..N : frame[n] = bytes[p + n - 1]
  BY FrameSymbols
<1>2. \A n \in 1..N : InDataLine(frame, n) <=> p + n - 1 \in DataLines(bytes)
  BY OnlyData
<1> HIDE DEF frame
<1>3. N \in Nat /\ p \in Nat /\ e \in Int /\ \A n \in 1..N : p + n - 1 \in p..e
  OBVIOUS
<1>4. PICK f : IsJoined(f, Parts(frame), Symbols) /\ Data(frame) = f[N]
  BY <1>1, DataIsJoined
<1>5. /\ Len(Parts(frame)) = N
      /\ \A n \in 1..N : Parts(frame)[n] = IF InDataLine(frame, n) THEN <<frame[n]>> ELSE <<>>
  BY <1>1, PartsTypes
<1>6. f[0] = <<>> /\ 0 \in 0..N /\ N \in 0..N
  BY <1>3, <1>4 DEF IsJoined
<1> HIDE DEF N
<1>7. Garbage \notin ToSet(frame)
  <2> SUFFICES ASSUME NEW n \in 1..N
               PROVE  frame[n] # Garbage
    BY <1>1 DEF ToSet
  <2> QED
    BY <1>1, <1>3 DEF OneEvent
<1>8. ASSUME NEW i \in DataLines(bytes), i \in p..e
      PROVE  Data(frame) = <<bytes[i]>>
  <2> DEFINE c == i - p + 1
  <2>1. c \in 1..N /\ p + c - 1 = i /\ c \in (0 + 1)..N
    BY <1>3, <1>8 DEF N
  <2>2. Parts(frame)[c] = <<bytes[i]>>
    BY <1>1, <1>2, <1>5, <2>1
  <2>3. \A n \in (0 + 1)..N : n # c => Parts(frame)[n] = <<>>
    <3> SUFFICES ASSUME NEW n \in 1..N, p + n - 1 \in DataLines(bytes)
                 PROVE  n = c
      BY <1>2, <1>5
    <3>1. p + n - 1 = i
      BY <1>3, <1>8 DEF OneEvent
    <3> QED
      BY <1>3, <2>1, <3>1
  <2> HIDE DEF c
  <2>4. f[N] = Parts(frame)[c]
    <3> DEFINE s == Parts(frame)
    <3>1. IsJoined(f, s, Symbols) /\ Len(s) = N
      BY <1>4, <1>5
    <3>2. c \in 1..N /\ \A n \in 1..N : n # c => s[n] = <<>>
      BY <2>1, <2>3
    <3> HIDE DEF s
    <3>3. f[Len(s)] = s[c]
      BY <3>1, <3>2, JoinedFromOne
    <3> QED
      BY <3>1, <3>3 DEF s
  <2> QED
    BY <1>4, <2>2, <2>4
<1>9. ASSUME DataLines(bytes) \cap (p..e) = {}
      PROVE  Data(frame) = <<>>
  <2>1. \A n \in (0 + 1)..N : Parts(frame)[n] = <<>>
    <3>1. ASSUME NEW n \in 1..N
          PROVE  Parts(frame)[n] = <<>>
      <4>1. p + n - 1 \notin DataLines(bytes)
        BY <1>3, <1>9
      <4> QED
        BY <1>2, <1>5, <4>1
    <3>2. (0 + 1)..N = 1..N
      OBVIOUS
    <3> QED
      BY <3>1, <3>2
  <2>2. f[N] = f[0]
    BY <1>4, <1>5, <1>6, <2>1, JoinedStays
  <2> QED
    BY <1>4, <1>6, <2>2
<1>10. ASSUME NEW i \in DataLines(bytes), i \in p..e
       PROVE  WellFormed(frame) /\ ChunksOf(frame) = Marks(bytes)[i]
  <2>1. /\ i \in 1..Len(bytes) /\ (bytes[i] \in Chunks \/ bytes[i] = DoneMark)
        /\ DoneMark \notin Chunks
    BY DataLineSymbols, SymbolsAssumption
  <2>2. Data(frame) = <<bytes[i]>>
    BY <1>8, <1>10
  <2>3. WellFormed(frame)
    BY <1>7, <2>1, <2>2 DEF WellFormed
  <2>4. bytes[i] \in Chunks => <<bytes[i]>> # <<DoneMark>>
    <3>1. <<bytes[i]>>[1] = bytes[i] /\ <<DoneMark>>[1] = DoneMark
      OBVIOUS
    <3> QED
      BY <2>1, <3>1
  <2>5. ChunksOf(frame) = IF bytes[i] \in Chunks THEN <<bytes[i]>> ELSE <<>>
    BY <2>1, <2>2, <2>4 DEF ChunksOf
  <2> QED
    BY <2>1, <2>3, <2>5, MarksTypes
<1>11. ASSUME DataLines(bytes) \cap (p..e) = {}
       PROVE  WellFormed(frame) /\ ChunksOf(frame) = <<>>
  BY <1>7, <1>9, <1>11 DEF WellFormed, ChunksOf
<1> QED
  BY <1>10, <1>11 DEF frame

\* Two symbols of data make a frame malformed.
LEMMA TwoDataAreMalformed ==
  ASSUME NEW frame \in Seq(Symbols), NEW m \in 1..Len(frame), NEW n \in 1..Len(frame), m < n,
         InDataLine(frame, m), InDataLine(frame, n)
  PROVE  ~ WellFormed(frame)
<1>1. PICK f : IsJoined(f, Parts(frame), Symbols) /\ Data(frame) = f[Len(frame)]
  BY DataIsJoined
<1>2. Len(Parts(frame)) = Len(frame) /\ Parts(frame)[m] = <<frame[m]>> /\ Parts(frame)[n] = <<frame[n]>>
  BY PartsTypes
<1>3. Len(Parts(frame)[m]) = 1 /\ Len(Parts(frame)[n]) = 1
  BY <1>2
<1>4. Len(Data(frame)) \in Nat /\ Len(Data(frame)) >= 2
  BY <1>1, <1>2, <1>3, JoinedTwice
<1>5. Len(<<>>) = 0 /\ \A x : Len(<<x>>) = 1
  OBVIOUS
<1>6. Data(frame) # <<>> /\ \A x : Data(frame) # <<x>>
  <2> DEFINE d == Data(frame)
  <2>1. Len(d) \in Nat /\ Len(d) >= 2
    BY <1>4
  <2> HIDE DEF d
  <2>2. Len(d) # 0 /\ Len(d) # 1
    <3> DEFINE length == Len(d)
    <3>1. length \in Nat /\ length >= 2
      BY <2>1
    <3> HIDE DEF length
    <3>2. length # 0 /\ length # 1
      BY <3>1
    <3> QED
      BY <3>2 DEF length
  <2>3. d # <<>> /\ \A x : d # <<x>>
    BY <1>5, <2>2, Zenon
  <2> QED
    BY <2>3 DEF d
<1> QED
  BY <1>6 DEF WellFormed

LEMMA WellFormedIsOneEvent ==
  ASSUME NEW bytes \in Seq(Symbols), NEW p \in 1..(Len(bytes) + 1),
         NEW e \in (p - 1)..Len(bytes), BeginsLine(bytes, p),
         e < Len(bytes) => bytes[e + 1] \in {CR, LF},
         WellFormed(SubSeq(bytes, p, e))
  PROVE  OneEvent(bytes, p, e)
<1> DEFINE frame == SubSeq(bytes, p, e)
           N == e - p + 1
<1>1. /\ frame \in Seq(Symbols) /\ Len(frame) = N /\ DOMAIN frame = 1..N
      /\ \A n \in 1..N : frame[n] = bytes[p + n - 1]
  BY FrameSymbols
<1>2. \A n \in 1..N : InDataLine(frame, n) <=>
                        /\ bytes[p + n - 1] # CR
                        /\ \E i \in DataLines(bytes) : /\ i \in p..(p + n - 1)
                                                       /\ \A k \in i..(p + n - 1) : bytes[k] # LF
  BY DataOfFrame
<1> HIDE DEF frame
<1>3. /\ N \in Nat /\ p \in Nat /\ e \in Int /\ Len(bytes) \in Nat /\ e <= Len(bytes)
      /\ \A k \in p..e : k - p + 1 \in 1..N /\ p + (k - p + 1) - 1 = k
  OBVIOUS
<1> HIDE DEF N
<1>4. ASSUME NEW k \in p..e
      PROVE  bytes[k] # Garbage
  <2>1. bytes[k] \in ToSet(frame)
    BY <1>1, <1>3 DEF ToSet
  <2> QED
    BY <2>1 DEF WellFormed, frame
<1>5. \A m, n \in 1..N : m < n => ~ (InDataLine(frame, m) /\ InDataLine(frame, n))
  <2> SUFFICES ASSUME NEW m \in 1..N, NEW n \in 1..N, m < n, InDataLine(frame, m), InDataLine(frame, n)
               PROVE  FALSE
    OBVIOUS
  <2>1. ~ WellFormed(frame)
    BY <1>1, TwoDataAreMalformed
  <2> QED
    BY <2>1 DEF frame
<1>6. ASSUME NEW i \in DataLines(bytes), i \in p..e
      PROVE  InDataLine(frame, i - p + 1)
  <2>1. bytes[i] # CR /\ bytes[i] # LF /\ i \in p..i /\ \A k \in i..i : k = i
    BY <1>3, <1>6, DataLineSymbols
  <2> QED
    BY <1>2, <1>3, <1>6, <2>1
<1>7. ASSUME NEW i \in DataLines(bytes), NEW j \in DataLines(bytes), i \in p..e, j \in p..e, i < j
      PROVE  FALSE
  <2>1. InDataLine(frame, i - p + 1) /\ InDataLine(frame, j - p + 1)
    BY <1>6, <1>7
  <2>2. i - p + 1 < j - p + 1 /\ i - p + 1 \in 1..N /\ j - p + 1 \in 1..N
    BY <1>3, <1>7
  <2> QED
    BY <1>5, <2>1, <2>2
<1>8. ASSUME NEW i \in DataLines(bytes), i \in p..e, ~ Alone(bytes, i)
      PROVE  FALSE
  <2>1. i # Len(bytes) /\ bytes[i + 1] \notin {CR, LF} /\ bytes[i] # LF
    BY <1>8, DataLineSymbols DEF Alone
  <2>2. i # e /\ i + 1 \in p..e
    BY <1>3, <1>8, <2>1
  <2>3. \A k \in i..(i + 1) : bytes[k] # LF
    <3>1. \A k \in i..(i + 1) : k = i \/ k = i + 1
      BY <1>3, <1>8
    <3> QED
      BY <2>1, <3>1
  <2>4. InDataLine(frame, (i + 1) - p + 1)
    <3>1. i \in p..(i + 1) /\ bytes[i + 1] # CR
      BY <1>3, <1>8, <2>1
    <3> QED
      BY <1>2, <1>3, <2>2, <2>3, <3>1
  <2>5. InDataLine(frame, i - p + 1)
    BY <1>6, <1>8
  <2>6. i - p + 1 < (i + 1) - p + 1 /\ i - p + 1 \in 1..N /\ (i + 1) - p + 1 \in 1..N
    <3>1. i \in Int
      BY <1>3, <1>8
    <3>2. i - p + 1 < (i + 1) - p + 1
      BY <1>3, <3>1
    <3> QED
      BY <1>3, <1>8, <2>2, <3>2
  <2> QED
    BY <1>5, <2>4, <2>5, <2>6
<1>9. \A i, j \in DataLines(bytes) : i \in p..e /\ j \in p..e => i = j
  <2>1. \A i, j \in DataLines(bytes) : i \in p..e /\ j \in p..e => ~ (i < j) /\ ~ (j < i)
    BY <1>7
  <2> QED
    BY <1>3, <2>1
<1> QED
  BY <1>4, <1>8, <1>9 DEF OneEvent

\* A body is a stream of events from a place on.
EventsFrom(bytes, p) ==
  /\ \A k \in p..Len(bytes) : bytes[k] # Garbage
  /\ \A i \in DataLines(bytes) : i >= p => Alone(bytes, i)
  /\ \A i, j \in DataLines(bytes) : p <= i /\ i < j => BlankLineBetween(bytes, i, j)

\* Before the first end of a frame there is one event at most, if there is one
\* at most between two blank lines.
LEMMA OneEventBefore ==
  ASSUME NEW bytes \in Seq(Symbols), OneLineEnd(bytes), NEW p \in 1..(Len(bytes) + 1),
         EventsFrom(bytes, p), NEW e \in (p - 1)..Len(bytes),
         \A end \in FrameEnds(bytes, p) : e < end.at
  PROVE  OneEvent(bytes, p, e)
<1>1. Len(bytes) \in Nat /\ p \in Nat \ {0} /\ e \in Int /\ e <= Len(bytes)
  OBVIOUS
<1>2. ASSUME NEW i \in DataLines(bytes), NEW j \in DataLines(bytes), i \in p..e, j \in p..e, i < j
      PROVE  FALSE
  <2>1. p <= i /\ BlankLineBetween(bytes, i, j)
    BY <1>2 DEF EventsFrom
  <2>2. PICK end \in FrameEnds(bytes, p) : end.at < j
    BY <1>1, <2>1, BlankLineEnds
  <2>3. end.at \in Nat
    <3>1. PICK at \in p..Len(bytes), d \in Delimiters : end = [at |-> at, length |-> Len(d)]
      BY <1>1, EndsAre
    <3> QED
      BY <1>1, <3>1
  <2> QED
    BY <1>1, <1>2, <2>2, <2>3
<1>3. \A i, j \in DataLines(bytes) : i \in p..e /\ j \in p..e => i = j
  <2>1. \A i, j \in DataLines(bytes) : i \in p..e /\ j \in p..e => ~ (i < j) /\ ~ (j < i)
    BY <1>2
  <2> QED
    BY <1>1, <2>1
<1>4. \A k \in p..e : k \in p..Len(bytes) /\ k >= p
  BY <1>1
<1> QED
  BY <1>3, <1>4 DEF OneEvent, EventsFrom

\* A body is a stream of events if its first frame has one at most and the
\* rest is one.
LEMMA EventsSplit ==
  ASSUME NEW bytes \in Seq(Symbols), OneLineEnd(bytes), NEW p \in 1..(Len(bytes) + 1),
         FrameEnds(bytes, p) # {}
  PROVE  LET end == FirstFrameEnd(bytes, p) IN
         EventsFrom(bytes, p) <=>
           OneEvent(bytes, p, end.at - 1) /\ EventsFrom(bytes, end.at + end.length)
<1> DEFINE end == FirstFrameEnd(bytes, p)
           at == end.at
           q == end.at + end.length
<1>1. /\ p \in Nat \ {0} /\ Len(bytes) \in Nat /\ at \in p..Len(bytes) /\ end.length \in {2, 4}
      /\ q <= Len(bytes) + 1
  BY FirstEndTypes
<1>2. \A f \in FrameEnds(bytes, p) : at <= f.at
  BY FirstEndExists
<1>3. /\ \A k \in at..(q - 1) : bytes[k] \in {CR, LF}
      /\ \E k \in at..(q - 2) : bytes[k] = LF /\ bytes[k + 1] \in {CR, LF}
  <2> DEFINE last == end.at + end.length - 1
             before == end.at + end.length - 2
  <2>1. /\ \A k \in end.at..last : bytes[k] \in {CR, LF}
        /\ \E k \in end.at..before : bytes[k] = LF /\ bytes[k + 1] \in {CR, LF}
    BY <1>1, EndSymbols
  <2>2. last = q - 1 /\ before = q - 2
    BY <1>1
  <2> HIDE DEF last, before, q
  <2> QED
    BY <2>1, <2>2
<1>4. at \in Nat /\ q \in Nat /\ p <= at /\ at < q /\ at \in p..Len(bytes) /\ q <= Len(bytes) + 1
  BY <1>1
<1> HIDE DEF end, at, q
<1>5. ASSUME EventsFrom(bytes, p)
      PROVE  OneEvent(bytes, p, at - 1) /\ EventsFrom(bytes, q)
  <2> DEFINE e == at - 1
  <2>1. e \in (p - 1)..Len(bytes)
    BY <1>1, <1>4
  <2>2. \A f \in FrameEnds(bytes, p) : e < f.at
    <3> SUFFICES ASSUME NEW f \in FrameEnds(bytes, p)
                 PROVE  e < f.at
      OBVIOUS
    <3>1. at <= f.at
      BY <1>2
    <3>2. f.at \in Nat
      <4>1. PICK x \in p..Len(bytes), d \in Delimiters : f = [at |-> x, length |-> Len(d)]
        BY <1>1, EndsAre
      <4> QED
        BY <1>1, <4>1
    <3> QED
      BY <1>4, <3>1, <3>2
  <2> HIDE DEF e
  <2>3. OneEvent(bytes, p, e)
    BY <1>5, <2>1, <2>2, OneEventBefore
  <2>4. \A k \in q..Len(bytes) : k \in p..Len(bytes)
    BY <1>4
  <2>5. \A i \in DataLines(bytes) : i >= q => i >= p
    BY <1>1, <1>4, DataLineSymbols
  <2>6. \A i \in DataLines(bytes) : q <= i => p <= i
    BY <1>1, <1>4, DataLineSymbols
  <2>7. EventsFrom(bytes, q)
    BY <1>5, <2>4, <2>5, <2>6 DEF EventsFrom
  <2> QED
    BY <2>3, <2>7 DEF e
<1>6. ASSUME OneEvent(bytes, p, at - 1), EventsFrom(bytes, q)
      PROVE  EventsFrom(bytes, p)
  <2>1. \A k \in p..Len(bytes) : k \in p..(at - 1) \/ k \in at..(q - 1) \/ k \in q..Len(bytes)
    BY <1>1, <1>4
  <2>2. \A k \in p..Len(bytes) : bytes[k] # Garbage
    BY <1>3, <1>6, <2>1, SymbolsAssumption DEF OneEvent, EventsFrom
  <2>3. \A i \in DataLines(bytes) : i >= p => i \in p..(at - 1) \/ i >= q
    <3> SUFFICES ASSUME NEW i \in DataLines(bytes), i >= p
                 PROVE  i \in p..(at - 1) \/ i >= q
      OBVIOUS
    <3>1. i \in 1..Len(bytes) /\ bytes[i] \notin {CR, LF}
      BY DataLineSymbols
    <3>2. i \notin at..(q - 1)
      BY <1>3, <3>1
    <3> QED
      BY <1>1, <1>4, <3>1, <3>2
  <2>4. \A i \in DataLines(bytes) : i >= p => Alone(bytes, i)
    BY <1>6, <2>3 DEF OneEvent, EventsFrom
  <2>5. ASSUME NEW i \in DataLines(bytes), NEW j \in DataLines(bytes), p <= i, i < j
        PROVE  BlankLineBetween(bytes, i, j)
    <3>1. i \in Nat /\ j \in Nat /\ i >= p /\ j >= p
      BY <1>1, <2>5, DataLineSymbols
    <3>2. CASE i >= q
      <4>1. q <= i
        BY <1>4, <3>1, <3>2
      <4> QED
        BY <1>6, <2>5, <4>1 DEF EventsFrom
    <3>3. CASE i \in p..(at - 1) /\ j >= q
      <4>1. PICK k \in at..(q - 2) : bytes[k] = LF /\ bytes[k + 1] \in {CR, LF}
        BY <1>3
      <4>2. k \in i..(j - 1)
        BY <1>4, <3>1, <3>3
      <4> QED
        BY <4>1, <4>2 DEF BlankLineBetween
    <3>4. CASE i \in p..(at - 1) /\ j \in p..(at - 1)
      <4>1. i = j
        BY <1>6, <3>4 DEF OneEvent
      <4> QED
        BY <2>5, <3>1, <4>1
    <3> QED
      BY <2>3, <3>1, <3>2, <3>3, <3>4
  <2> QED
    BY <2>2, <2>4, <2>5 DEF EventsFrom
<1>7. EventsFrom(bytes, p) <=> OneEvent(bytes, p, at - 1) /\ EventsFrom(bytes, q)
  BY <1>5, <1>6
<1> QED
  BY <1>7 DEF at, q, end

\* The last frame is all that is left.
LEMMA EventsLast ==
  ASSUME NEW bytes \in Seq(Symbols), OneLineEnd(bytes), NEW p \in 1..(Len(bytes) + 1),
         FrameEnds(bytes, p) = {}
  PROVE  EventsFrom(bytes, p) <=> OneEvent(bytes, p, Len(bytes))
<1>1. Len(bytes) \in Nat /\ p \in Nat \ {0} /\ Len(bytes) \in (p - 1)..Len(bytes)
  OBVIOUS
<1>2. EventsFrom(bytes, p) => OneEvent(bytes, p, Len(bytes))
  BY <1>1, OneEventBefore
<1>3. ASSUME OneEvent(bytes, p, Len(bytes))
      PROVE  EventsFrom(bytes, p)
  <2>1. \A i \in DataLines(bytes) : i >= p => i \in p..Len(bytes)
    BY <1>1, DataLineSymbols
  <2>2. \A i, j \in DataLines(bytes) : p <= i /\ i < j => i \in p..Len(bytes) /\ j \in p..Len(bytes) /\ i # j
    BY <1>1, DataLineSymbols
  <2> QED
    BY <1>3, <2>1, <2>2 DEF EventsFrom, OneEvent
<1> QED
  BY <1>2, <1>3

\* A frame with one event at most adds its chunks to those before it.
LEMMA ReadOn ==
  ASSUME NEW bytes \in Seq(Symbols), OneLineEnd(bytes), NEW p \in 1..(Len(bytes) + 1),
         NEW e \in (p - 1)..Len(bytes), BeginsLine(bytes, p), OneEvent(bytes, p, e),
         NEW last \in e..Len(bytes), \A k \in (e + 1)..last : bytes[k] \in {CR, LF},
         NEW f, IsJoined(f, Marks(bytes), Chunks)
  PROVE  f[last] = Followed(f[p - 1], ChunksOf(SubSeq(bytes, p, e)))
<1> DEFINE a == p - 1
           s == Marks(bytes)
<1>1. /\ Len(bytes) \in Nat /\ p \in Nat \ {0} /\ e \in Int /\ last \in Int /\ e <= last
      /\ last <= Len(bytes) /\ a <= e
  OBVIOUS
<1>2. /\ Len(s) = Len(bytes)
      /\ \A i \in 1..Len(bytes) : i \notin DataLines(bytes) => s[i] = <<>>
  BY MarksTypes
<1>3. a \in 0..Len(s) /\ last \in a..Len(s) /\ a + 1 = p
  BY <1>1, <1>2
<1>4. \A i \in (a + 1)..last : i \in DataLines(bytes) => i \in p..e
  <2> SUFFICES ASSUME NEW i \in (a + 1)..last, i \in DataLines(bytes)
               PROVE  i \in p..e
    OBVIOUS
  <2>1. bytes[i] \notin {CR, LF}
    BY DataLineSymbols
  <2>2. i \notin (e + 1)..last
    BY <2>1
  <2> QED
    BY <1>1, <2>2
<1>5. f[a] \in Seq(Chunks)
  BY <1>3 DEF IsJoined
<1>6. \A i \in (a + 1)..last : i \in 1..Len(bytes)
  BY <1>1
<1>7. CASE DataLines(bytes) \cap (p..e) = {}
  <2>1. \A i \in (a + 1)..last : s[i] = <<>>
    BY <1>2, <1>4, <1>6, <1>7
  <2>2. ChunksOf(SubSeq(bytes, p, e)) = <<>>
    BY <1>7, OneEventIsWellFormed
  <2> HIDE DEF a, s
  <2>3. f[last] = f[a]
    <3>1. IsJoined(f, s, Chunks)
      BY DEF s
    <3> QED
      BY <1>3, <2>1, <3>1, JoinedStays
  <2>4. Followed(f[a], <<>>) = f[a]
    BY <1>5, ConcatEmptySeq DEF Followed
  <2> QED
    BY <2>2, <2>3, <2>4 DEF a
<1>8. ASSUME NEW c \in DataLines(bytes), c \in p..e
      PROVE  f[last] = Followed(f[a], ChunksOf(SubSeq(bytes, p, e)))
  <2>1. \A i \in (a + 1)..last : i # c => s[i] = <<>>
    <3> SUFFICES ASSUME NEW i \in (a + 1)..last, i \in DataLines(bytes)
                 PROVE  i = c
      BY <1>2, <1>6
    <3> QED
      BY <1>4, <1>8 DEF OneEvent
  <2>2. ChunksOf(SubSeq(bytes, p, e)) = s[c]
    BY <1>8, OneEventIsWellFormed
  <2>3. c \in (a + 1)..last
    BY <1>1, <1>8
  <2> HIDE DEF a, s
  <2>4. f[last] = Followed(f[a], s[c])
    <3>1. IsJoined(f, s, Chunks)
      BY DEF s
    <3> QED
      BY <1>3, <2>1, <2>3, <3>1, JoinedOnce
  <2> QED
    BY <2>2, <2>4
<1> QED
  BY <1>7, <1>8

-----------------------------------------------------------------------------
(* The parse of a body is that of a stream of events.                        *)

\* What the parse from a place on gives, when f are the chunks up to there.
ReadsFrom(bytes, f, p) ==
  IF EventsFrom(bytes, p)
    THEN /\ ParsesOf(bytes)[p].result = "ok"
         /\ Followed(f[p - 1], ParsesOf(bytes)[p].chunks) = f[Len(bytes)]
    ELSE ParsesOf(bytes)[p].result = "malformed_stream"

LEMMA FollowedAssociative ==
  ASSUME NEW L, NEW x \in Seq(L), NEW y \in Seq(L), NEW z \in Seq(L)
  PROVE  Followed(x, y \o z) = Followed(Followed(x, y), z)
BY ConcatAssociative DEF Followed

\* The last frame of a body.
LEMMA ReadsLast ==
  ASSUME NEW bytes \in Seq(Symbols), OneLineEnd(bytes), NEW f, IsJoined(f, Marks(bytes), Chunks),
         NEW p \in 1..(Len(bytes) + 1), BeginsLine(bytes, p), FrameEnds(bytes, p) = {}
  PROVE  ReadsFrom(bytes, f, p)
<1> DEFINE N == Len(bytes)
           frame == SubSeq(bytes, p, N)
<1>1. /\ N \in Nat /\ p \in Nat \ {0} /\ N \in (p - 1)..Len(bytes) /\ N \in N..Len(bytes)
      /\ \A k \in (N + 1)..N : bytes[k] \in {CR, LF}
  OBVIOUS
<1>2. ParsesOf(bytes)[p] = Taken(frame, [chunks |-> <<>>, result |-> "ok"])
  BY ParsesUnfold DEF ParseAt
<1>3. EventsFrom(bytes, p) <=> OneEvent(bytes, p, N)
  BY EventsLast
<1>4. CASE OneEvent(bytes, p, N)
  <2>1. WellFormed(frame)
    BY <1>1, <1>4, OneEventIsWellFormed
  <2>2. ChunksOf(frame) \in Seq(Chunks)
    BY <2>1, ChunksOfTypes
  <2>3. ParsesOf(bytes)[p] = [chunks |-> ChunksOf(frame), result |-> "ok"]
    BY <1>2, <2>1, <2>2, ConcatEmptySeq DEF Taken
  <2>4. f[N] = Followed(f[p - 1], ChunksOf(frame))
    BY <1>1, <1>4, ReadOn
  <2> QED
    BY <1>3, <1>4, <2>3, <2>4 DEF ReadsFrom
<1>5. CASE ~ OneEvent(bytes, p, N)
  <2>1. ~ WellFormed(frame)
    BY <1>1, <1>5, WellFormedIsOneEvent
  <2>2. ParsesOf(bytes)[p] = [chunks |-> <<>>, result |-> "malformed_stream"]
    BY <1>2, <2>1 DEF Taken
  <2> QED
    BY <1>3, <1>5, <2>2 DEF ReadsFrom
<1> QED
  BY <1>4, <1>5

\* A frame before the rest of a body.
LEMMA ReadsNext ==
  ASSUME NEW bytes \in Seq(Symbols), OneLineEnd(bytes), NEW f, IsJoined(f, Marks(bytes), Chunks),
         NEW p \in 1..(Len(bytes) + 1), BeginsLine(bytes, p), FrameEnds(bytes, p) # {},
         \A q \in (p + 1)..(Len(bytes) + 1) : BeginsLine(bytes, q) => ReadsFrom(bytes, f, q)
  PROVE  ReadsFrom(bytes, f, p)
<1> DEFINE N == Len(bytes)
           end == FirstFrameEnd(bytes, p)
           e == end.at - 1
           q == end.at + end.length
           frame == SubSeq(bytes, p, e)
           others == ParsesOf(bytes)[q]
<1>1. /\ N \in Nat /\ p \in Nat \ {0} /\ end.at \in p..N /\ end.length \in {2, 4} /\ q <= N + 1
  BY FirstEndTypes
<1>2. ParsesOf(bytes)[p] = Taken(frame, others)
  BY ParsesUnfold DEF ParseAt
<1>3. EventsFrom(bytes, p) <=> OneEvent(bytes, p, e) /\ EventsFrom(bytes, q)
  BY EventsSplit
<1>4. /\ \A k \in end.at..(q - 1) : bytes[k] \in {CR, LF}
      /\ bytes[q - 1] = LF
  <2> DEFINE last == end.at + end.length - 1
  <2>1. (\A k \in end.at..last : bytes[k] \in {CR, LF}) /\ bytes[last] = LF
    BY <1>1, EndSymbols
  <2>2. last = q - 1
    BY <1>1
  <2> HIDE DEF last, q
  <2> QED
    BY <2>1, <2>2
<1>5. /\ e \in (p - 1)..N /\ q \in (p + 1)..(N + 1) /\ q - 1 \in e..N /\ e < N /\ e + 1 = end.at
      /\ q \in 1..(N + 1) /\ end.at \in end.at..(q - 1)
  BY <1>1
<1>6. BeginsLine(bytes, q)
  BY <1>4 DEF BeginsLine
<1>7. ReadsFrom(bytes, f, q)
  BY <1>5, <1>6
<1>8. others.chunks \in Seq(Chunks)
  BY <1>5, ParsesTypes DEF Parses
<1> HIDE DEF end, e, q, others
<1>9. CASE OneEvent(bytes, p, e)
  <2>1. WellFormed(frame)
    BY <1>5, <1>9, OneEventIsWellFormed
  <2>2. ChunksOf(frame) \in Seq(Chunks)
    BY <2>1, ChunksOfTypes
  <2>3. ParsesOf(bytes)[p] = [chunks |-> ChunksOf(frame) \o others.chunks, result |-> others.result]
    BY <1>2, <2>1 DEF Taken
  <2> DEFINE last == q - 1
  <2>4. last \in e..Len(bytes) /\ \A k \in (e + 1)..last : bytes[k] \in {CR, LF}
    BY <1>4, <1>5
  <2> HIDE DEF last
  <2>5. f[last] = Followed(f[p - 1], ChunksOf(frame))
    BY <1>5, <1>9, <2>4, ReadOn
  <2>6. f[p - 1] \in Seq(Chunks)
    <3>1. p - 1 \in 0..Len(Marks(bytes))
      BY <1>1, MarksTypes
    <3> QED
      BY <3>1 DEF IsJoined
  <2>7. Followed(f[p - 1], ChunksOf(frame) \o others.chunks) = Followed(f[last], others.chunks)
    BY <1>8, <2>2, <2>5, <2>6, FollowedAssociative
  <2> QED
    BY <1>3, <1>7, <1>9, <2>3, <2>7 DEF ReadsFrom, others, last
<1>10. CASE ~ OneEvent(bytes, p, e)
  <2>1. ~ WellFormed(frame)
    BY <1>4, <1>5, <1>10, WellFormedIsOneEvent
  <2>2. ParsesOf(bytes)[p] = [chunks |-> <<>>, result |-> "malformed_stream"]
    BY <1>2, <2>1 DEF Taken
  <2> QED
    BY <1>3, <1>10, <2>2 DEF ReadsFrom
<1> QED
  BY <1>9, <1>10

LEMMA ReadsAll ==
  ASSUME NEW bytes \in Seq(Symbols), OneLineEnd(bytes), NEW f, IsJoined(f, Marks(bytes), Chunks)
  PROVE  ReadsFrom(bytes, f, 1)
<1> DEFINE N == Len(bytes) + 1
           T == {n \in Nat : \A p \in 1..N : p >= N - n /\ BeginsLine(bytes, p) => ReadsFrom(bytes, f, p)}
<1>1. N \in Nat /\ N = Len(bytes) + 1 /\ N >= 1
  OBVIOUS
<1>2. ASSUME NEW p \in 1..N, BeginsLine(bytes, p),
             \A q \in (p + 1)..N : BeginsLine(bytes, q) => ReadsFrom(bytes, f, q)
      PROVE  ReadsFrom(bytes, f, p)
  <2>1. CASE FrameEnds(bytes, p) = {}
    BY <1>2, <2>1, ReadsLast
  <2>2. CASE FrameEnds(bytes, p) # {}
    BY <1>2, <2>2, ReadsNext
  <2> QED
    BY <2>1, <2>2
<1> HIDE DEF N
<1>3. 0 \in T
  <2> SUFFICES ASSUME NEW p \in 1..N, p >= N - 0, BeginsLine(bytes, p)
               PROVE  ReadsFrom(bytes, f, p)
    OBVIOUS
  <2>1. (p + 1)..N = {}
    BY <1>1
  <2> QED
    BY <1>2, <2>1
<1>4. ASSUME NEW n \in Nat, n \in T
      PROVE  n + 1 \in T
  <2> SUFFICES ASSUME NEW p \in 1..N, p >= N - (n + 1), BeginsLine(bytes, p)
               PROVE  ReadsFrom(bytes, f, p)
    OBVIOUS
  <2>1. \A q \in (p + 1)..N : q \in 1..N /\ q >= N - n
    BY <1>1
  <2> QED
    BY <1>2, <1>4, <2>1
<1> HIDE DEF T
<1>5. N \in T
  <2>1. \A n \in Nat : n \in T
    BY <1>3, <1>4, SetInduction
  <2> QED
    BY <1>1, <2>1
<1>6. 1 \in 1..N /\ 1 >= N - N /\ BeginsLine(bytes, 1)
  BY <1>1 DEF BeginsLine
<1> QED
  BY <1>5, <1>6 DEF T

LEMMA ParseReadsEvents ==
  ASSUME NEW bytes \in Seq(Symbols), OneLineEnd(bytes)
  PROVE  IF IsEventStream(bytes)
           THEN ParseOf(bytes) = [chunks |-> EventsOf(bytes), result |-> "ok"]
           ELSE ParseOf(bytes).result = "malformed_stream"
<1>1. Len(bytes) \in Nat /\ DOMAIN bytes = 1..Len(bytes)
  OBVIOUS
<1>2. PICK f : IsJoined(f, Marks(bytes), Chunks) /\ EventsOf(bytes) = f[Len(bytes)]
  <2>1. EventsOf(bytes) = FlattenSeq(Marks(bytes))
    BY DEF EventsOf, Marks
  <2> QED
    BY <2>1, MarksTypes, FlattenSteps
<1>3. ReadsFrom(bytes, f, 1)
  BY <1>2, ReadsAll
<1>4. f[1 - 1] = <<>>
  BY <1>2 DEF IsJoined
<1>5. IsEventStream(bytes) <=> EventsFrom(bytes, 1)
  <2>1. Garbage \notin ToSet(bytes) <=> \A k \in 1..Len(bytes) : bytes[k] # Garbage
    BY <1>1 DEF ToSet
  <2>2. \A i \in DataLines(bytes) : i >= 1 /\ 1 <= i
    BY <1>1, DataLineSymbols
  <2> QED
    BY <2>1, <2>2 DEF IsEventStream, EventsFrom
<1>6. /\ ParsesOf(bytes)[1].chunks \in Seq(Chunks)
      /\ ParsesOf(bytes)[1] = [chunks |-> ParsesOf(bytes)[1].chunks, result |-> ParsesOf(bytes)[1].result]
  BY <1>1, ParsesTypes DEF Parses
<1>7. Followed(<<>>, ParsesOf(bytes)[1].chunks) = ParsesOf(bytes)[1].chunks
  BY <1>6, ConcatEmptySeq DEF Followed
<1> QED
  BY <1>2, <1>3, <1>4, <1>5, <1>6, <1>7 DEF ReadsFrom, ParseOf

\* An answer of complete leaves the body alone.
WholeAnswer == ~ streamed => body = <<>> /\ chunks = <<>> /\ pc # "draining"

LEMMA WholeAnswerInit == Init => WholeAnswer
BY DEF Init, WholeAnswer

LEMMA WholeAnswerStep == WholeAnswer /\ [Next]_vars => WholeAnswer'
<1> SUFFICES ASSUME WholeAnswer, [Next]_vars
             PROVE  WholeAnswer'
  OBVIOUS
<1>1. CASE streamed
  <2>1. streamed' = streamed
    BY DEF Next, Drain, CheckRetry, Validate, TakeFrame, Drained, SendRequest, Flush,
           ReadAnswer, Break, Arrive, Parse, Return, configured, callVars, vars
  <2> QED
    BY <1>1, <2>1 DEF WholeAnswer
<1>2. CASE ~ streamed
  <2>1. ~ TakeFrame /\ ~ Flush /\ ~ Drained /\ ~ \E piece \in Pieces : Arrive(piece)
    BY <1>2 DEF WholeAnswer, TakeFrame, Flush, Drained, Arrive
  <2>2. UNCHANGED <<body, chunks>>
    BY <2>1 DEF Next, Drain, CheckRetry, Validate, SendRequest, ReadAnswer, Break, vars, bodyVars
  <2>3. pc' # "draining"
    BY <1>2, <2>1 DEF WholeAnswer, Next, Drain, CheckRetry, Validate, SendRequest, ReadAnswer,
                      Break, Return, callVars, vars
  <2> QED
    BY <1>2, <2>2, <2>3 DEF WholeAnswer
<1> QED
  BY <1>1, <1>2

LEMMA EventsAreEnough == BInv /\ CInv /\ WholeAnswer => EventsAreRead
<1> SUFFICES ASSUME BInv, CInv, WholeAnswer, result \in {"ok", "malformed_stream"}, OneLineEnd(body)
             PROVE  IF IsEventStream(body)
                      THEN result = "ok" /\ chunks = EventsOf(body)
                      ELSE result = "malformed_stream"
  BY DEF EventsAreRead
<1>1. body \in Seq(Symbols)
  BY UnreadTypes
<1>2. CASE streamed
  <2>1. ParseOf(body) = [chunks |-> chunks, result |-> result]
    BY <1>2 DEF BInv, Answered
  <2> QED
    BY <1>1, <2>1, ParseReadsEvents
<1>3. CASE ~ streamed
  <2>1. body = <<>> /\ chunks = <<>>
    BY <1>3 DEF WholeAnswer
  <2>2. result = "ok"
    BY <1>3 DEF CInv, Decided
  <2>3. IsEventStream(<<>>)
    BY DEF IsEventStream, DataLines, ToSet
  <2>4. EventsOf(<<>>) = <<>>
    <3>1. <<>> \in Seq(Symbols) /\ Len(<<>>) = 0
      OBVIOUS
    <3>2. Marks(<<>>) \in Seq(Seq(Chunks)) /\ Len(Marks(<<>>)) = 0
      BY <3>1, MarksTypes
    <3>3. Marks(<<>>) = <<>>
      BY <3>2, EmptySeq
    <3> QED
      BY <3>2, <3>3 DEF EventsOf, Marks, FlattenSeq
  <2> QED
    BY <2>1, <2>2, <2>3, <2>4
<1> QED
  BY <1>2, <1>3

\* Whether the lines of an answer end in LF or in CR LF, and however many
\* events it has: the frames that are found are the events between its blank
\* lines, so that the chunks are those of the events, in their order, and a
\* body with anything else on a line or in an event is refused
\* (find_sse_frame_end and parse_sse_frame, mod.rs:229-263).
THEOREM EventsAreReadHolds == Spec => []EventsAreRead
BY CallInit, CallStep, CutsInit, CutsStep, WholeAnswerInit, WholeAnswerStep, EventsAreEnough,
   PTL DEF Spec
=============================================================================
