---------------------------- MODULE SequenceFacts ----------------------------
(***************************************************************************)
(* Facts about numbers and sequences that the library states with an       *)
(* operator as a parameter, or not at all: induction as a fact about sets, *)
(* the existence of a function defined by recursion, and FlattenSeq piece  *)
(* by piece. The step of a recursion is a function here, so that every     *)
(* fact can be cited for any set.                                          *)
(***************************************************************************)
EXTENDS Integers, Sequences, SequencesExt, WellFoundedInduction, SequenceTheorems, TLAPS

(***************************************************************************)
(* The order of the natural numbers, as a relation.                        *)
(***************************************************************************)
Less == {ss \in Nat \X Nat : ss[1] < ss[2]}

(***************************************************************************)
(* Every set of numbers has a least element under the order.               *)
(***************************************************************************)
LEMMA LessIsWellFounded == IsWellFoundedOn(Less, Nat)
<1>1. OpToRel(<, Nat) = Less
  BY Zenon DEF OpToRel, Less
<1> QED BY <1>1, NatLessThanWellFounded, Zenon

(***************************************************************************)
(* The least element of a set of numbers.                                  *)
(***************************************************************************)
LEMMA MinimumExists ==
  ASSUME NEW S \in SUBSET Nat, S # {}
  PROVE  \E n \in S : \A m \in S : n <= m
<1>1. PICK n \in S : \A m \in S : ~(<<m, n>> \in Less)
  BY LessIsWellFounded, WFMin, Zenon
<1>2. \A m \in S : ~(m < n)
  BY <1>1 DEF Less
<1> QED BY <1>2

(***************************************************************************)
(* A set of numbers with 0 and every successor holds all of them.          *)
(***************************************************************************)
LEMMA Induction ==
  ASSUME NEW S \in SUBSET Nat, 0 \in S, \A n \in S : n + 1 \in S
  PROVE  S = Nat
<1>1. ASSUME Nat \ S # {} PROVE FALSE
  <2>1. PICK n \in Nat \ S : \A m \in Nat \ S : n <= m
    <3> DEFINE R == Nat \ S
    <3>1. R \in SUBSET Nat /\ R # {}
      BY <1>1
    <3> QED BY <3>1, MinimumExists, Zenon
  <2>2. n # 0 /\ n - 1 \in Nat /\ n - 1 < n
    OBVIOUS
  <2> QED BY <2>1, <2>2
<1> QED BY <1>1

(***************************************************************************)
(* The greatest element of a set of numbers up to a bound.                 *)
(***************************************************************************)
LEMMA MaximumExists ==
  ASSUME NEW N \in Nat, NEW S \in SUBSET (1..N), S # {}
  PROVE  \E n \in S : \A m \in S : m <= n
<1> DEFINE R == {N - m : m \in S}
<1>1. R \in SUBSET Nat /\ R # {}
  <2>1. \A m \in S : m \in Nat /\ m <= N /\ N - m \in Nat
    OBVIOUS
  <2> QED BY <2>1, Zenon
<1>2. PICK r \in R : \A q \in R : r <= q
  <2> HIDE DEF R
  <2> QED BY <1>1, MinimumExists, Zenon
<1>3. PICK n \in S : r = N - n
  BY <1>2
<1>4. \A m \in S : N - n <= N - m
  BY <1>2, <1>3
<1>5. \A m \in S : m \in Nat
  OBVIOUS
<1> QED BY <1>4, <1>5

(***************************************************************************)
(* A function on 0..N that starts with a and takes the given steps.        *)
(***************************************************************************)
IsRecursion(f, N, V, a, step) ==
  f \in [0..N -> V] /\ f[0] = a /\ \A i \in 1..N : f[i] = step[i][f[i - 1]]

(***************************************************************************)
(* Such a function exists, whatever the steps are: by induction on how far *)
(* it is defined.                                                          *)
(***************************************************************************)
LEMMA Recursion ==
  ASSUME NEW N \in Nat, NEW V, NEW a \in V, NEW step \in [1..N -> [V -> V]]
  PROVE  \E f : IsRecursion(f, N, V, a, step)
<1> DEFINE Upto(n) == \E f \in [0..n -> V] :
                        f[0] = a /\ \A i \in 1..n : f[i] = step[i][f[i - 1]]
           S == {n \in Nat : n <= N => Upto(n)}
<1>1. Upto(0)
  <2> DEFINE f == [i \in 0..0 |-> a]
  <2>1. f \in [0..0 -> V] /\ f[0] = a
    OBVIOUS
  <2>2. 1..0 = {}
    OBVIOUS
  <2> QED BY <2>1, <2>2
<1>2. ASSUME NEW n \in Nat, n + 1 <= N, Upto(n) PROVE Upto(n + 1)
  <2>1. PICK f \in [0..n -> V] : f[0] = a /\ \A i \in 1..n : f[i] = step[i][f[i - 1]]
    BY <1>2
  <2> DEFINE g == [i \in 0..n + 1 |-> IF i = n + 1 THEN step[n + 1][f[n]] ELSE f[i]]
  <2>2. g \in [0..n + 1 -> V]
    <3>1. step[n + 1][f[n]] \in V
      BY <1>2
    <3>2. \A i \in 0..n + 1 : i = n + 1 \/ i \in 0..n
      OBVIOUS
    <3> QED BY <3>1, <3>2
  <2>3. g[0] = a
    BY <2>1
  <2>4. ASSUME NEW i \in 1..n + 1 PROVE g[i] = step[i][g[i - 1]]
    <3>1. i - 1 \in 0..n + 1 /\ i - 1 # n + 1 /\ i \in 0..n + 1
      OBVIOUS
    <3>2. g[i - 1] = f[i - 1]
      BY <3>1
    <3>3. CASE i = n + 1
      <4>1. g[i] = step[n + 1][f[n]]
        BY <3>1, <3>3
      <4>2. i - 1 = n
        BY <3>3
      <4> QED BY <4>1, <4>2, <3>2, <3>3
    <3>4. CASE i # n + 1
      <4>1. i \in 1..n
        BY <3>4
      <4>2. g[i] = f[i]
        BY <3>1, <3>4
      <4> QED BY <4>1, <4>2, <2>1, <3>2
    <3> QED BY <3>3, <3>4
  <2> HIDE DEF g
  <2> QED BY <2>2, <2>3, <2>4
<1> HIDE DEF Upto
<1>3. S = Nat
  <2>1. S \in SUBSET Nat /\ 0 \in S
    BY <1>1
  <2>2. \A n \in S : n + 1 \in S
    BY <1>2
  <2> HIDE DEF S
  <2> QED BY <2>1, <2>2, Induction
<1>4. Upto(N)
  BY <1>3
<1> QED BY <1>4 DEF Upto, IsRecursion

-----------------------------------------------------------------------------

(* s flattened, step by step *)
LEMMA FlattenSteps ==
  ASSUME NEW T, NEW s \in Seq(Seq(T)), NEW g \in [0..Len(s) -> Seq(T)],
         g[0] = <<>>, \A i \in 1..Len(s) : g[i] = g[i - 1] \o s[i]
  PROVE  FlattenSeq(s) = g[Len(s)]
<1> DEFINE N == Len(s)
           h == [i \in 1..N |-> g[i]]
           IsFlatten(f) == f = [i \in 1..N |-> IF i = 1 THEN s[i] ELSE f[i - 1] \o s[i]]
           flatten == CHOOSE f : IsFlatten(f)
<1>0. N \in Nat /\ \A i \in 1..N : s[i] \in Seq(T)
  BY ElementOfSeq
<1>1. CASE N = 0
  <2>1. s = <<>>
    BY <1>1, EmptySeq
  <2> QED BY <1>1, <2>1 DEF FlattenSeq
<1>2. CASE N # 0
  <2>1. IsFlatten(h)
    <3>1. \A i \in 1..N : h[i] = IF i = 1 THEN s[i] ELSE h[i - 1] \o s[i]
      <4> TAKE i \in 1..N
      <4>1. CASE i = 1
        <5>1. g[1] = <<>> \o s[1]
          <6>1. 1 \in 1..N /\ 1 - 1 = 0
            BY <4>1
          <6> QED BY <6>1
        <5> QED BY <5>1, <4>1, <1>0, ConcatEmptySeq
      <4>2. CASE i # 1
        <5>1. i - 1 \in 1..N
          BY <4>2
        <5> QED BY <5>1, <4>2
      <4> QED BY <4>1, <4>2
    <3> DEFINE k == [i \in 1..N |-> IF i = 1 THEN s[i] ELSE h[i - 1] \o s[i]]
    <3>2. h = k
      <4>1. \A i \in 1..N : h[i] = k[i]
        BY <3>1
      <4> HIDE DEF N
      <4> QED BY <4>1
    <3> QED BY <3>2
  <2>2. IsFlatten(flatten)
    <3> HIDE DEF IsFlatten, h
    <3> QED BY <2>1
  <2> HIDE DEF flatten
  <2>3. \A i \in 1..N : flatten[i] = IF i = 1 THEN s[i] ELSE flatten[i - 1] \o s[i]
    <3> DEFINE k == [i \in 1..N |-> IF i = 1 THEN s[i] ELSE flatten[i - 1] \o s[i]]
    <3>1. flatten = k
      BY <2>2
    <3>2. \A i \in 1..N : k[i] = IF i = 1 THEN s[i] ELSE flatten[i - 1] \o s[i]
      OBVIOUS
    <3> QED BY <3>1, <3>2, Zenon
  <2> DEFINE S == {n \in Nat : n \in 1..N => flatten[n] = g[n]}
  <2>4. S = Nat
    <3>1. 0 \in S
      OBVIOUS
    <3>2. ASSUME NEW n \in S PROVE n + 1 \in S
      <4>1. CASE n + 1 \notin 1..N
        BY <4>1
      <4>2. CASE n + 1 = 1 /\ n + 1 \in 1..N
        <5>1. 1 \in 1..N /\ 1 - 1 = 0
          BY <4>2
        <5>2. g[1] = <<>> \o s[1]
          BY <5>1
        <5>3. flatten[1] = g[1]
          BY <5>1, <5>2, <2>3, <1>0, ConcatEmptySeq
        <5> QED BY <5>3, <4>2
      <4>3. CASE n + 1 # 1 /\ n + 1 \in 1..N
        <5>1. n \in 1..N /\ (n + 1) - 1 = n
          BY <4>3
        <5>2. flatten[n] = g[n]
          BY <5>1
        <5>3. flatten[n + 1] = flatten[n] \o s[n + 1]
          BY <2>3, <4>3, <5>1
        <5>4. g[n + 1] = g[n] \o s[n + 1]
          BY <4>3, <5>1
        <5>5. flatten[n + 1] = g[n + 1] /\ n + 1 \in Nat
          BY <5>2, <5>3, <5>4
        <5> HIDE DEF flatten
        <5> QED BY <5>5
      <4> QED BY <4>1, <4>2, <4>3
    <3>3. S \in SUBSET Nat
      OBVIOUS
    <3> HIDE DEF S
    <3> QED BY <3>1, <3>2, <3>3, Induction
  <2>5. flatten[N] = g[N]
    <3>1. N \in S /\ N \in 1..N
      BY <2>4, <1>0, <1>2
    <3> QED BY <3>1
  <2>6. FlattenSeq(s) = flatten[N]
    BY <1>2 DEF FlattenSeq, flatten, IsFlatten
  <2> QED BY <2>5, <2>6
<1> QED BY <1>1, <1>2

(***************************************************************************)
(* The concatenations of the first sequences of s, one after the other.    *)
(***************************************************************************)
LEMMA FlattenStepsExist ==
  ASSUME NEW T, NEW s \in Seq(Seq(T))
  PROVE  \E g \in [0..Len(s) -> Seq(T)] :
           g[0] = <<>> /\ \A i \in 1..Len(s) : g[i] = g[i - 1] \o s[i]
<1> DEFINE N == Len(s)
           V == Seq(T)
           e == <<>>
           step == [i \in 1..N |-> [v \in V |-> v \o s[i]]]
<1>0. N \in Nat /\ e \in V
  OBVIOUS
<1>1. step \in [1..N -> [V -> V]]
  <2>1. \A i \in 1..N, v \in V : v \o s[i] \in V
    BY ElementOfSeq, ConcatProperties
  <2> HIDE DEF N, V
  <2> QED BY <2>1
<1>2. PICK g \in [0..N -> V] : g[0] = e /\ \A i \in 1..N : g[i] = step[i][g[i - 1]]
  <2> HIDE DEF step, N, V, e
  <2>1. \E g : IsRecursion(g, N, V, e, step)
    BY <1>0, <1>1, Recursion, Zenon
  <2> QED BY <2>1 DEF IsRecursion
<1>3. \A i \in 1..N : g[i] = g[i - 1] \o s[i]
  <2> TAKE i \in 1..N
  <2>1. i - 1 \in 0..N
    BY <1>0
  <2>2. g[i - 1] \in V
    BY <2>1
  <2> HIDE DEF N, V
  <2> QED BY <1>2, <2>2
<1> QED BY <1>2, <1>3

(***************************************************************************)
(* Flattening sequence by sequence.                                        *)
(***************************************************************************)
LEMMA FlattenAppend ==
  ASSUME NEW T, NEW s \in Seq(Seq(T)), NEW x \in Seq(T)
  PROVE  /\ FlattenSeq(s) \in Seq(T)
         /\ FlattenSeq(<<>>) = <<>>
         /\ FlattenSeq(Append(s, x)) = FlattenSeq(s) \o x
<1> DEFINE t == Append(s, x)
           N == Len(s)
<1>1. /\ t \in Seq(Seq(T)) /\ Len(t) = N + 1 /\ t[N + 1] = x /\ N \in Nat
      /\ \A i \in 1..N : t[i] = s[i]
  BY AppendProperties
<1>2. PICK g \in [0..N + 1 -> Seq(T)] :
        g[0] = <<>> /\ \A i \in 1..N + 1 : g[i] = g[i - 1] \o t[i]
  <2> HIDE DEF t
  <2>1. \E g \in [0..Len(t) -> Seq(T)] :
          g[0] = <<>> /\ \A i \in 1..Len(t) : g[i] = g[i - 1] \o t[i]
    BY <1>1, FlattenStepsExist
  <2> QED BY <2>1, <1>1
<1> DEFINE h == [i \in 0..N |-> g[i]]
<1> HIDE DEF t
<1>3. FlattenSeq(t) = g[N + 1]
  BY <1>1, <1>2, FlattenSteps
<1>4. /\ h \in [0..N -> Seq(T)] /\ h[0] = <<>> /\ h[N] = g[N]
      /\ \A i \in 1..N : h[i] = h[i - 1] \o s[i]
  <2> HIDE DEF N
  <2>1. \A i \in 0..N : i \in 0..N + 1 /\ h[i] = g[i]
    BY <1>1
  <2>2. 0 \in 0..N /\ N \in 0..N
    BY <1>1
  <2>3. ASSUME NEW i \in 1..N PROVE h[i] = h[i - 1] \o s[i]
    <3>1. i \in 1..N + 1 /\ i \in 0..N /\ i - 1 \in 0..N
      BY <1>1
    <3>2. g[i] = g[i - 1] \o t[i] /\ t[i] = s[i]
      BY <1>1, <1>2, <3>1
    <3> QED BY <2>1, <3>1, <3>2
  <2> QED BY <1>2, <2>1, <2>2, <2>3
<1>5. FlattenSeq(s) = g[N]
  <2> HIDE DEF h
  <2> QED BY <1>4, FlattenSteps
<1>6. g[N + 1] = g[N] \o x /\ g[N] \in Seq(T)
  <2>0. N \in Nat
    OBVIOUS
  <2> HIDE DEF N
  <2>1. N + 1 \in 1..N + 1 /\ (N + 1) - 1 = N /\ N \in 0..N + 1
    BY <2>0
  <2> QED BY <1>1, <1>2, <2>1
<1>7. FlattenSeq(<<>>) = <<>>
  BY DEF FlattenSeq
<1> QED BY <1>3, <1>5, <1>6, <1>7 DEF t

(***************************************************************************)
(* Flattening sequences over T gives a sequence over T.                    *)
(***************************************************************************)
LEMMA FlattenType ==
  ASSUME NEW T, NEW s \in Seq(Seq(T))
  PROVE  FlattenSeq(s) \in Seq(T)
<1>1. PICK g \in [0..Len(s) -> Seq(T)] :
        g[0] = <<>> /\ \A i \in 1..Len(s) : g[i] = g[i - 1] \o s[i]
  BY FlattenStepsExist
<1>2. FlattenSeq(s) = g[Len(s)]
  BY <1>1, FlattenSteps
<1>3. Len(s) \in 0..Len(s)
  OBVIOUS
<1> QED BY <1>2, <1>3

(***************************************************************************)
(* The domain of a sequence and the type of its elements.                  *)
(***************************************************************************)
LEMMA SeqAt ==
  ASSUME NEW T, NEW s \in Seq(T)
  PROVE  DOMAIN s = 1..Len(s) /\ Len(s) \in Nat /\ \A i \in DOMAIN s : s[i] \in T
BY ElementOfSeq

(***************************************************************************)
(* A function on the domain of a sequence is a sequence as long.           *)
(***************************************************************************)
LEMMA SameLength ==
  ASSUME NEW T, NEW U, NEW s \in Seq(T), NEW b \in [DOMAIN s -> U]
  PROVE  b \in Seq(U) /\ Len(b) = Len(s) /\ DOMAIN b = DOMAIN s
<1>1. DOMAIN s = 1..Len(s) /\ Len(s) \in Nat
  OBVIOUS
<1> QED BY <1>1

(***************************************************************************)
(* The elements of a sequence with one more.                               *)
(***************************************************************************)
LEMMA SetOfAppend ==
  ASSUME NEW T, NEW s \in Seq(T), NEW x \in T
  PROVE  ToSet(Append(s, x)) = ToSet(s) \cup {x} /\ ToSet(s) \subseteq T
<1> DEFINE t == Append(s, x)
           N == Len(s)
<1>1. /\ Len(t) = N + 1 /\ t[N + 1] = x /\ \A i \in 1..N : t[i] = s[i]
      /\ t \in Seq(T)
  BY AppendProperties
<1>2. DOMAIN s = 1..N /\ N \in Nat /\ DOMAIN t = 1..N + 1 /\ \A i \in 1..N : s[i] \in T
  BY <1>1, ElementOfSeq
<1> HIDE DEF t, N
<1>3. 1..N + 1 = (1..N) \cup {N + 1}
  BY <1>2
<1> QED BY <1>1, <1>2, <1>3 DEF ToSet, t

(***************************************************************************)
(* A function applied to every element of a sequence with one more.        *)
(***************************************************************************)
LEMMA MapAppend ==
  ASSUME NEW T, NEW U, NEW s \in Seq(T), NEW x \in T, NEW g \in [T -> U]
  PROVE  /\ [i \in DOMAIN s |-> g[s[i]]] \in Seq(U)
         /\ [i \in DOMAIN Append(s, x) |-> g[Append(s, x)[i]]]
            = Append([i \in DOMAIN s |-> g[s[i]]], g[x])
<1> DEFINE t == Append(s, x)
           a == [i \in DOMAIN s |-> g[s[i]]]
           b == [i \in DOMAIN t |-> g[t[i]]]
           N == Len(s)
<1>1. /\ t \in Seq(T) /\ Len(t) = N + 1 /\ t[N + 1] = x
      /\ \A i \in 1..N : t[i] = s[i]
  BY AppendProperties
<1>2. /\ DOMAIN s = 1..N /\ N \in Nat /\ DOMAIN t = 1..N + 1
      /\ (\A i \in 1..N : s[i] \in T) /\ \A i \in 1..N + 1 : t[i] \in T
  BY <1>1, ElementOfSeq
<1>3. g[x] \in U /\ N + 1 \in 1..N + 1 /\ \A i \in 1..N : i \in 1..N + 1
  BY <1>2
<1> HIDE DEF t, N
<1>4. a \in Seq(U) /\ Len(a) = N
  BY <1>2
<1>5. b \in Seq(U) /\ Len(b) = N + 1
  BY <1>2
<1>6. \A i \in 1..N : b[i] = a[i]
  BY <1>1, <1>2, <1>3
<1>7. b[N + 1] = g[x]
  BY <1>1, <1>2, <1>3
<1> HIDE DEF a, b
<1> DEFINE c == Append(a, g[x])
<1>8. /\ c \in Seq(U) /\ Len(c) = N + 1 /\ c[N + 1] = g[x]
      /\ \A i \in 1..N : c[i] = a[i]
  <2> DEFINE y == g[x]
  <2>1. y \in U
    BY <1>3
  <2> HIDE DEF y
  <2> QED BY <1>4, <2>1, AppendProperties
<1> HIDE DEF c
<1>9. \A i \in 1..N + 1 : b[i] = c[i]
  <2>1. \A i \in 1..N + 1 : i = N + 1 \/ i \in 1..N
    BY <1>2
  <2> QED BY <2>1, <1>6, <1>7, <1>8
<1>10. b = c
  BY <1>5, <1>8, <1>9, SeqEqual
<1> QED BY <1>4, <1>10 DEF a, b, c, t

(***************************************************************************)
(* A set of sequences with the empty one and, for each, those with one     *)
(* element more, holds all sequences.                                      *)
(***************************************************************************)
LEMMA SequenceInduction ==
  ASSUME NEW T, NEW S \in SUBSET Seq(T), <<>> \in S,
         \A s \in S, x \in T : Append(s, x) \in S
  PROVE  S = Seq(T)
<1> DEFINE R == {n \in Nat : \A s \in Seq(T) : Len(s) = n => s \in S}
<1>1. 0 \in R
  BY EmptySeq
<1>2. ASSUME NEW n \in R PROVE n + 1 \in R
  <2> SUFFICES ASSUME NEW s \in Seq(T), Len(s) = n + 1 PROVE s \in S
    OBVIOUS
  <2>1. s # <<>> /\ n \in Nat
    OBVIOUS
  <2>2. PICK front \in Seq(T), last \in T : s = Append(front, last)
    BY <2>1, SequenceEmptyOrAppend
  <2>3. front \in S
    BY <2>1, <2>2, AppendProperties
  <2> HIDE DEF R
  <2> QED BY <2>2, <2>3
<1>3. R = Nat
  <2>1. R \in SUBSET Nat
    OBVIOUS
  <2> HIDE DEF R
  <2> QED BY <1>1, <1>2, <2>1, Induction
<1>4. ASSUME NEW s \in Seq(T) PROVE s \in S
  <2>1. Len(s) \in R
    BY <1>3
  <2> QED BY <2>1
<1> QED BY <1>4

(***************************************************************************)
(* Empty sequences flatten to the empty one.                               *)
(***************************************************************************)
LEMMA FlattenEmpty ==
  ASSUME NEW T, NEW s \in Seq(Seq(T)), \A i \in 1..Len(s) : s[i] = <<>>
  PROVE  FlattenSeq(s) = <<>>
<1> DEFINE N == Len(s)
<1>0. N \in Nat
  OBVIOUS
<1>1. PICK g \in [0..N -> Seq(T)] : g[0] = <<>> /\ \A i \in 1..N : g[i] = g[i - 1] \o s[i]
  BY FlattenStepsExist
<1>2. FlattenSeq(s) = g[N]
  BY <1>1, FlattenSteps
<1>3. \A i \in 1..N : s[i] = <<>>
  OBVIOUS
<1> HIDE DEF N
<1> DEFINE S == {n \in Nat : n <= N => g[n] = <<>>}
<1>4. S \in SUBSET Nat /\ 0 \in S
  BY <1>1
<1>5. ASSUME NEW n \in Nat, n <= N => g[n] = <<>>, n + 1 <= N PROVE g[n + 1] = <<>>
  <2>1. n + 1 \in 1..N /\ (n + 1) - 1 = n /\ n <= N
    BY <1>0, <1>5
  <2>2. g[n + 1] = <<>> \o <<>>
    BY <2>1, <1>1, <1>3, <1>5
  <2> QED BY <2>2
<1>6. \A n \in S : n + 1 \in S
  BY <1>5
<1>7. S = Nat
  <2> HIDE DEF S
  <2> QED BY <1>4, <1>6, Induction
<1> QED BY <1>0, <1>2, <1>7

(***************************************************************************)
(* The sequences from a place on flatten to the end of what all of them    *)
(* flatten to.                                                             *)
(***************************************************************************)
LEMMA FlattenSuffix ==
  ASSUME NEW T, NEW x \in Seq(Seq(T)), NEW y \in Seq(Seq(T)), Len(x) = Len(y), NEW m \in Nat,
         \A i \in 1..Len(x) : y[i] = IF m <= i THEN x[i] ELSE <<>>
  PROVE  \E e \in Seq(T) : FlattenSeq(x) = e \o FlattenSeq(y)
<1> DEFINE N == Len(x)
<1>0. N \in Nat
  OBVIOUS
<1>1. PICK g \in [0..N -> Seq(T)] : g[0] = <<>> /\ \A i \in 1..N : g[i] = g[i - 1] \o x[i]
  BY FlattenStepsExist
<1>2. PICK h \in [0..N -> Seq(T)] : h[0] = <<>> /\ \A i \in 1..N : h[i] = h[i - 1] \o y[i]
  BY FlattenStepsExist
<1>3. FlattenSeq(x) = g[N] /\ FlattenSeq(y) = h[N]
  BY <1>1, <1>2, FlattenSteps
<1>4. \A i \in 1..N : y[i] = (IF m <= i THEN x[i] ELSE <<>>) /\ x[i] \in Seq(T)
  BY ElementOfSeq
<1> HIDE DEF N
<1> DEFINE Good(n) == (n < m => h[n] = <<>>) /\ \E e \in Seq(T) : g[n] = e \o h[n]
<1>5. Good(0)
  <2>1. g[0] = <<>> \o h[0] /\ <<>> \in Seq(T)
    BY <1>1, <1>2
  <2> QED BY <2>1, <1>2
<1>6. ASSUME NEW n \in Nat, n + 1 <= N, Good(n) PROVE Good(n + 1)
  <2>1. n + 1 \in 1..N /\ (n + 1) - 1 = n /\ n \in 0..N /\ n + 1 \in 0..N
    <3> HIDE DEF Good
    <3> QED BY <1>0, <1>6
  <2>2. g[n + 1] = g[n] \o x[n + 1] /\ h[n + 1] = h[n] \o y[n + 1]
    BY <1>1, <1>2, <2>1
  <2>3. g[n] \in Seq(T) /\ h[n] \in Seq(T) /\ g[n + 1] \in Seq(T) /\ x[n + 1] \in Seq(T)
    BY <2>1, <1>4
  <2>4. y[n + 1] = IF m <= n + 1 THEN x[n + 1] ELSE <<>>
    BY <2>1, <1>4
  <2>5. CASE n + 1 < m
    <3>1. h[n] = <<>> /\ y[n + 1] = <<>>
      BY <2>4, <2>5, <1>6
    <3>2. h[n + 1] = <<>>
      BY <3>1, <2>2
    <3>3. g[n + 1] = g[n + 1] \o h[n + 1]
      BY <3>2, <2>3, ConcatEmptySeq
    <3> QED BY <3>2, <3>3, <2>3
  <2>6. CASE ~(n + 1 < m)
    <3>1. PICK e \in Seq(T) : g[n] = e \o h[n]
      BY <1>6
    <3>2. y[n + 1] = x[n + 1]
      BY <2>4, <2>6
    <3>3. (e \o h[n]) \o x[n + 1] = e \o (h[n] \o x[n + 1])
      <4> DEFINE p == h[n]
                 q == x[n + 1]
      <4>1. p \in Seq(T) /\ q \in Seq(T)
        BY <2>3
      <4> HIDE DEF p, q
      <4>2. (e \o p) \o q = e \o (p \o q)
        BY <4>1, ConcatAssociative
      <4> QED BY <4>2 DEF p, q
    <3>4. g[n + 1] = e \o h[n + 1]
      BY <3>1, <3>2, <3>3, <2>2, Zenon
    <3> QED BY <3>4, <2>6
  <2> QED BY <2>5, <2>6
<1> HIDE DEF Good
<1>7. Good(N)
  <2> DEFINE S == {n \in Nat : n <= N => Good(n)}
  <2>1. S \in SUBSET Nat /\ 0 \in S
    BY <1>5
  <2>2. \A n \in S : n + 1 \in S
    BY <1>0, <1>6
  <2>3. S = Nat
    <3> HIDE DEF S
    <3> QED BY <2>1, <2>2, Induction
  <2> QED BY <2>3, <1>0
<1> QED BY <1>3, <1>7 DEF Good

(***************************************************************************)
(* What is concatenated last is a suffix.                                  *)
(***************************************************************************)
LEMMA SuffixOfConcat ==
  ASSUME NEW T, NEW e \in Seq(T), NEW t \in Seq(T)
  PROVE  IsSuffix(t, e \o t)
<1> DEFINE a == Reverse(t)
           b == Reverse(e \o t)
           N == Len(t)
<1>1. /\ e \o t \in Seq(T) /\ Len(e \o t) = Len(e) + N /\ N \in Nat /\ Len(e) \in Nat
      /\ \A i \in 1..Len(e) + N : (e \o t)[i] = IF i <= Len(e) THEN e[i] ELSE t[i - Len(e)]
  BY ConcatProperties
<1>2. /\ a \in Seq(T) /\ Len(a) = N /\ \A i \in 1..N : a[i] = t[N - i + 1]
  <2>1. \A i \in 1..N : (N - i) + 1 \in 1..N
    BY <1>1
  <2> QED BY <1>1, <2>1 DEF Reverse
<1>3. /\ b \in Seq(T) /\ Len(b) = Len(e) + N
      /\ \A i \in 1..Len(e) + N : b[i] = (e \o t)[Len(e) + N - i + 1]
  <2>1. \A i \in 1..Len(e) + N : (Len(e) + N - i) + 1 \in 1..Len(e) + N
    BY <1>1
  <2> HIDE DEF N
  <2> QED BY <1>1, <2>1 DEF Reverse
<1>4. \A i \in 1..N : a[i] = b[i]
  <2> TAKE i \in 1..N
  <2>1. /\ i \in 1..Len(e) + N /\ Len(e) + N - i + 1 \in 1..Len(e) + N
        /\ ~(Len(e) + N - i + 1 <= Len(e)) /\ (Len(e) + N - i + 1) - Len(e) = N - i + 1
    BY <1>1
  <2> HIDE DEF a, b, N
  <2> QED BY <1>1, <1>2, <1>3, <2>1
<1> HIDE DEF a, b, N
<1>5. SubSeq(a, 1, Len(a)) = SubSeq(b, 1, Len(a))
  <2>1. /\ SubSeq(a, 1, N) = [i \in 1..N |-> a[i]]
        /\ SubSeq(b, 1, N) = [i \in 1..N |-> b[i]]
    BY <1>1, <1>2, <1>3
  <2> QED BY <2>1, <1>4, <1>2
<1> QED BY <1>1, <1>2, <1>3, <1>5 DEF IsSuffix, IsPrefix, a, b
==============================================================================
