--------------------------- MODULE DataInduction ---------------------------
(***************************************************************************)
(* Induction over the natural numbers, and definition of functions by      *)
(* primitive recursion, in the form of facts about sets.  The theorems of  *)
(* the library speak of operators; with a set of numbers in the place of   *)
(* the predicate, and a function in the place of the step, what a          *)
(* recursive function of a model computes can be reasoned about.           *)
(***************************************************************************)
EXTENDS Integers, Sequences, SequencesExt, SequenceTheorems,
        WellFoundedInduction, TLAPS

NatLess == OpToRel(<, Nat)

LEMMA LessPairs == \A m, n \in Nat : m < n => <<m, n>> \in NatLess
BY DEF NatLess, OpToRel

(* A set of natural numbers has a least element.                           *)
LEMMA LeastOfSet ==
  ASSUME NEW S \in SUBSET Nat, S # {}
  PROVE  \E n \in S : \A m \in S : n <= m
<1>1. IsWellFoundedOn(NatLess, Nat)
  BY NatLessThanWellFounded DEF NatLess
<1>2. PICK n \in S : \A m \in S : ~ (<<m, n>> \in NatLess)
  <2> HIDE DEF NatLess
  <2> QED
    BY <1>1, WFMin
<1>3. ASSUME NEW m \in S PROVE n <= m
  <2>1. m \in Nat /\ n \in Nat
    OBVIOUS
  <2>2. ~(m < n)
    BY <1>2, <2>1, LessPairs
  <2> QED
    BY <2>1, <2>2
<1> QED
  BY <1>3

LEMMA MinIs ==
  ASSUME NEW S \in SUBSET Nat, S # {}
  PROVE  Min(S) \in S /\ \A m \in S : Min(S) <= m
BY LeastOfSet DEF Min

(* Induction: a set with 0 and the successor of each of its numbers.       *)
LEMMA SetInduction ==
  ASSUME NEW S, 0 \in S, \A n \in Nat : n \in S => n + 1 \in S
  PROVE  Nat \subseteq S
<1> DEFINE T == {n \in Nat : n \notin S}
<1>1. SUFFICES ASSUME T # {} PROVE FALSE
  OBVIOUS
<1>2. PICK n \in T : \A m \in T : n <= m
  BY <1>1, LeastOfSet
<1>3. n \in Nat /\ n # 0
  BY <1>2
<1>4. n - 1 \in Nat /\ n - 1 \notin T
  BY <1>2, <1>3
<1>5. n - 1 \in S
  BY <1>4
<1>6. (n - 1) + 1 \in S
  BY <1>4, <1>5
<1> QED
  BY <1>2, <1>3, <1>6

-----------------------------------------------------------------------------
(* f starts with b and goes on with h, up to k.                            *)
Follows(f, S, b, h, k) ==
  /\ f \in [0 .. k -> S]
  /\ f[0] = b
  /\ \A n \in 0 .. k - 1 : f[n + 1] = h[<<n, f[n]>>]

LEMMA RecursionStep ==
  ASSUME NEW S, NEW b \in S, NEW h \in [Nat \X S -> S], NEW k \in Nat,
         \E f : Follows(f, S, b, h, k)
  PROVE  \E f : Follows(f, S, b, h, k + 1)
<1>1. PICK f : Follows(f, S, b, h, k)
  OBVIOUS
<1> DEFINE g == [n \in 0 .. k + 1 |-> IF n <= k THEN f[n] ELSE h[<<k, f[k]>>]]
<1>2. /\ f \in [0 .. k -> S] /\ f[0] = b
      /\ \A n \in 0 .. k - 1 : f[n + 1] = h[<<n, f[n]>>]
  BY <1>1 DEF Follows
<1>3. h[<<k, f[k]>>] \in S
  BY <1>2
<1>4. g \in [0 .. k + 1 -> S]
  BY <1>2, <1>3
<1>5. g[0] = b
  BY <1>2
<1>6. ASSUME NEW n \in 0 .. k PROVE g[n + 1] = h[<<n, g[n]>>]
  <2>1. CASE n = k
    BY <2>1, SMTT(30)
  <2>2. CASE n < k
    BY <1>2, <2>2
  <2> QED
    BY <2>1, <2>2
<1>7. (k + 1) - 1 = k
  OBVIOUS
<1> HIDE DEF g
<1>8. Follows(g, S, b, h, k + 1)
  BY <1>4, <1>5, <1>6, <1>7 DEF Follows
<1> QED
  BY <1>8

(* There is such a function.                                               *)
LEMMA Recursion ==
  ASSUME NEW S, NEW b \in S, NEW h \in [Nat \X S -> S]
  PROVE  \A k \in Nat : \E f : Follows(f, S, b, h, k)
<1> DEFINE K == {k \in Nat : \E f : Follows(f, S, b, h, k)}
<1>1. 0 \in K
  <2>1. Follows([n \in 0 .. 0 |-> b], S, b, h, 0)
    BY DEF Follows
  <2> QED
    BY <2>1
<1>2. \A n \in Nat : n \in K => n + 1 \in K
  BY RecursionStep
<1> HIDE DEF K
<1>3. Nat \subseteq K
  BY <1>1, <1>2, SetInduction
<1> QED
  BY <1>3 DEF K

(* Two of them agree as far as both go.                                    *)
LEMMA RecursionUnique ==
  ASSUME NEW S, NEW b, NEW h, NEW k \in Nat, NEW m \in Nat,
         NEW f, NEW g, Follows(f, S, b, h, k), Follows(g, S, b, h, m)
  PROVE  \A n \in Nat : n <= k /\ n <= m => f[n] = g[n]
<1> DEFINE N == {n \in Nat : n <= k /\ n <= m => f[n] = g[n]}
<1>1. 0 \in N
  BY DEF Follows
<1>2. ASSUME NEW n \in Nat, n \in N PROVE n + 1 \in N
  <2>1. SUFFICES ASSUME n + 1 <= k, n + 1 <= m PROVE f[n + 1] = g[n + 1]
    OBVIOUS
  <2>2. n \in 0 .. k - 1 /\ n \in 0 .. m - 1 /\ f[n] = g[n]
    BY <1>2, <2>1
  <2> QED
    BY <2>2 DEF Follows
<1> HIDE DEF N
<1>3. Nat \subseteq N
  BY <1>1, <1>2, SetInduction
<1> QED
  BY <1>3 DEF N

-----------------------------------------------------------------------------
(* FlattenSeq: the sequence of the first n parts of s, for each n.         *)
FlatStep(s, T) ==
  [p \in Nat \X Seq(T) |->
    IF p[1] + 1 \in 1 .. Len(s) THEN p[2] \o s[p[1] + 1] ELSE p[2]]

LEMMA FlatStepType ==
  ASSUME NEW T, NEW s \in Seq(Seq(T))
  PROVE  FlatStep(s, T) \in [Nat \X Seq(T) -> Seq(T)]
<1>1. ASSUME NEW p \in Nat \X Seq(T), p[1] + 1 \in 1 .. Len(s)
      PROVE  p[2] \o s[p[1] + 1] \in Seq(T)
  <2>1. s[p[1] + 1] \in Seq(T)
    BY <1>1, ElementOfSeq
  <2>2. p[2] \in Seq(T)
    OBVIOUS
  <2> QED
    BY <2>1, <2>2, ConcatProperties
<1> QED
  BY <1>1 DEF FlatStep

LEMMA FlattenExists ==
  ASSUME NEW T, NEW s \in Seq(Seq(T)), NEW k \in Nat
  PROVE  \E f : Follows(f, Seq(T), <<>>, FlatStep(s, T), k)
<1> DEFINE h == FlatStep(s, T)
<1>1. h \in [Nat \X Seq(T) -> Seq(T)]
  BY FlatStepType
<1>2. <<>> \in Seq(T)
  OBVIOUS
<1> HIDE DEF h
<1>3. \A m \in Nat : \E f : Follows(f, Seq(T), <<>>, h, m)
  BY <1>1, <1>2, Recursion
<1> QED
  BY <1>3 DEF h

LEMMA FlattenIs ==
  ASSUME NEW T, NEW s \in Seq(Seq(T)), NEW f,
         Follows(f, Seq(T), <<>>, FlatStep(s, T), Len(s))
  PROVE  FlattenSeq(s) = f[Len(s)]
<1>0. Len(s) \in Nat /\ DOMAIN s = 1 .. Len(s)
  OBVIOUS
<1>1. /\ f \in [0 .. Len(s) -> Seq(T)] /\ f[0] = <<>>
      /\ \A n \in 0 .. Len(s) - 1 : f[n + 1] = FlatStep(s, T)[<<n, f[n]>>]
  BY DEF Follows
<1>2. ASSUME NEW i \in 1 .. Len(s) PROVE f[i] = f[i - 1] \o s[i]
  <2>1. i - 1 \in 0 .. Len(s) - 1 /\ (i - 1) + 1 = i
    BY <1>0
  <2>2. <<i - 1, f[i - 1]>> \in Nat \X Seq(T)
    BY <1>0, <1>1
  <2>3. f[i] = FlatStep(s, T)[<<i - 1, f[i - 1]>>]
    BY <1>1, <2>1
  <2> QED
    BY <2>1, <2>2, <2>3 DEF FlatStep
<1>3. CASE Len(s) = 0
  BY <1>1, <1>3 DEF FlattenSeq
<1>4. CASE Len(s) # 0
  <2> DEFINE h == [i \in 1 .. Len(s) |-> f[i]]
             g == CHOOSE g : g = [i \in 1 .. Len(s) |->
                                   IF i = 1 THEN s[i] ELSE g[i - 1] \o s[i]]
  <2>1. ASSUME NEW i \in 1 .. Len(s)
        PROVE  h[i] = IF i = 1 THEN s[i] ELSE h[i - 1] \o s[i]
    <3>1. CASE i = 1
      <4>1. s[1] \in Seq(T) /\ 1 - 1 = 0
        BY <3>1
      <4>2. f[1] = <<>> \o s[1]
        BY <1>1, <1>2, <3>1, <4>1
      <4> QED
        BY <3>1, <4>1, <4>2, ConcatEmptySeq
    <3>2. CASE i # 1
      <4>1. i - 1 \in 1 .. Len(s)
        BY <1>0, <3>2
      <4> QED
        BY <1>2, <3>2, <4>1
    <3> QED
      BY <3>1, <3>2
  <2> HIDE DEF h
  <2>2. h = [i \in 1 .. Len(s) |-> IF i = 1 THEN s[i] ELSE h[i - 1] \o s[i]]
    <3>1. h = [i \in 1 .. Len(s) |-> h[i]]
      BY DEF h
    <3> QED
      BY <2>1, <3>1
  <2>3. g = [i \in 1 .. Len(s) |-> IF i = 1 THEN s[i] ELSE g[i - 1] \o s[i]]
    BY <2>2
  <2>4. FlattenSeq(s) = g[Len(s)]
    BY <1>4 DEF FlattenSeq
  <2> HIDE DEF g
  <2> DEFINE N == {n \in Nat : n + 1 \in 1 .. Len(s) => g[n + 1] = h[n + 1]}
  <2>5. 0 \in N
    <3>1. SUFFICES ASSUME 1 \in 1 .. Len(s) PROVE g[1] = h[1]
      OBVIOUS
    <3> QED
      BY <2>1, <2>3, <3>1
  <2>6. ASSUME NEW n \in Nat, n \in N PROVE n + 1 \in N
    <3>1. SUFFICES ASSUME n + 1 + 1 \in 1 .. Len(s)
                   PROVE  g[n + 1 + 1] = h[n + 1 + 1]
      OBVIOUS
    <3>2. n + 1 \in 1 .. Len(s) /\ n + 1 + 1 # 1 /\ (n + 1 + 1) - 1 = n + 1
      BY <1>0, <3>1
    <3>3. g[n + 1] = h[n + 1]
      BY <2>6, <3>2
    <3>4. g[n + 1 + 1] = g[n + 1] \o s[n + 1 + 1]
      BY <2>3, <3>1, <3>2
    <3>5. h[n + 1 + 1] = h[n + 1] \o s[n + 1 + 1]
      BY <2>1, <3>1, <3>2
    <3> QED
      BY <3>3, <3>4, <3>5
  <2> HIDE DEF N
  <2>7. Nat \subseteq N
    BY <2>5, <2>6, SetInduction
  <2>8. Len(s) - 1 \in N /\ (Len(s) - 1) + 1 = Len(s)
    BY <1>0, <1>4, <2>7
  <2>9. g[Len(s)] = h[Len(s)]
    BY <1>0, <1>4, <2>8 DEF N
  <2> QED
    BY <1>0, <1>4, <2>4, <2>9 DEF h
<1> QED
  BY <1>3, <1>4

LEMMA FlattenType ==
  ASSUME NEW T, NEW s \in Seq(Seq(T))
  PROVE  FlattenSeq(s) \in Seq(T)
<1>1. <<>> \in Seq(T) /\ Len(s) \in Nat
  OBVIOUS
<1>2. PICK f : Follows(f, Seq(T), <<>>, FlatStep(s, T), Len(s))
  BY <1>1, FlattenExists
<1>3. f[Len(s)] \in Seq(T)
  BY <1>1, <1>2 DEF Follows
<1>4. FlattenSeq(s) = f[Len(s)]
  BY <1>2, FlattenIs
<1> QED
  BY <1>3, <1>4

(* One more part.                                                          *)
LEMMA FlattenAppend ==
  ASSUME NEW T, NEW s \in Seq(Seq(T)), NEW t \in Seq(T)
  PROVE  FlattenSeq(Append(s, t)) = FlattenSeq(s) \o t
<1> DEFINE u == Append(s, t)
<1>0. PICK n \in Nat : n = Len(s)
  OBVIOUS
<1>1. /\ u \in Seq(Seq(T)) /\ Len(u) = n + 1 /\ n \in Nat /\ u[n + 1] = t
      /\ \A i \in 1 .. n : u[i] = s[i]
  BY <1>0
<1> HIDE DEF u
<1>3. PICK f : Follows(f, Seq(T), <<>>, FlatStep(u, T), n + 1)
  BY <1>1, FlattenExists
<1>4. /\ f \in [0 .. n + 1 -> Seq(T)] /\ f[0] = <<>>
      /\ \A i \in 0 .. n : f[i + 1] = FlatStep(u, T)[<<i, f[i]>>]
  BY <1>1, <1>3 DEF Follows
<1> DEFINE g == [i \in 0 .. n |-> f[i]]
<1>5. Follows(g, Seq(T), <<>>, FlatStep(s, T), n)
  <2>1. g \in [0 .. n -> Seq(T)] /\ g[0] = <<>>
    BY <1>1, <1>4
  <2>2. ASSUME NEW i \in 0 .. n - 1
        PROVE  g[i + 1] = FlatStep(s, T)[<<i, g[i]>>]
    <3>0. i \in Nat /\ i \in 0 .. n /\ i + 1 \in 1 .. n /\ i + 1 \in 1 .. n + 1
      BY <1>0
    <3>1. i \in 0 .. n /\ i + 1 \in 1 .. n /\ i + 1 \in 1 .. n + 1
          /\ <<i, f[i]>> \in Nat \X Seq(T)
      <4>1. f[i] \in Seq(T)
        BY <1>1, <1>4, <3>0
      <4> QED
        BY <3>0, <4>1
    <3>2. f[i + 1] = f[i] \o u[i + 1]
      <4>1. f[i + 1] = FlatStep(u, T)[<<i, f[i]>>]
        BY <1>4, <3>1
      <4> QED
        BY <1>1, <3>1, <4>1 DEF FlatStep
    <3>3. FlatStep(s, T)[<<i, f[i]>>] = f[i] \o s[i + 1]
      BY <1>0, <3>1 DEF FlatStep
    <3>4. u[i + 1] = s[i + 1]
      BY <1>1, <3>1
    <3>5. g[i + 1] = f[i + 1] /\ g[i] = f[i]
      BY <3>1
    <3> QED
      BY <3>2, <3>3, <3>4, <3>5
  <2> QED
    BY <2>1, <2>2 DEF Follows
<1>6. FlattenSeq(s) = f[n]
  <2>1. g[n] = f[n]
    BY <1>1
  <2> HIDE DEF g
  <2> QED
    BY <1>0, <1>5, <2>1, FlattenIs
<1>7. FlattenSeq(u) = f[n + 1]
  BY <1>1, <1>3, FlattenIs
<1>8. f[n + 1] = f[n] \o t
  <2>1. <<n, f[n]>> \in Nat \X Seq(T) /\ n + 1 \in 1 .. n + 1
    BY <1>1, <1>4, SMTT(30)
  <2>2. f[n + 1] = FlatStep(u, T)[<<n, f[n]>>]
    BY <1>1, <1>4
  <2> QED
    BY <1>1, <2>1, <2>2 DEF FlatStep
<1> QED
  BY <1>6, <1>7, <1>8 DEF u

LEMMA FlattenEmpty == FlattenSeq(<<>>) = <<>>
BY DEF FlattenSeq

(* A part in front of the others.                                          *)
LEMMA FlattenCons ==
  ASSUME NEW T, NEW s \in Seq(Seq(T)), NEW t \in Seq(T)
  PROVE  FlattenSeq(<<t>> \o s) = t \o FlattenSeq(s)
<1> DEFINE N == {n \in Nat : \A r \in Seq(Seq(T)) :
                   Len(r) = n => FlattenSeq(<<t>> \o r) = t \o FlattenSeq(r)}
<1>1. 0 \in N
  <2>1. SUFFICES ASSUME NEW r \in Seq(Seq(T)), Len(r) = 0
                 PROVE  FlattenSeq(<<t>> \o r) = t \o FlattenSeq(r)
    OBVIOUS
  <2>2. r = <<>> /\ <<>> \in Seq(Seq(T))
    BY <2>1, EmptySeq
  <2>3. <<t>> \o <<>> = Append(<<>>, t) /\ t \o <<>> = t /\ <<>> \o t = t
    BY ConcatEmptySeq
  <2>4. FlattenSeq(Append(<<>>, t)) = FlattenSeq(<<>>) \o t
    BY <2>2, FlattenAppend
  <2> QED
    BY <2>2, <2>3, <2>4, FlattenEmpty
<1>2. ASSUME NEW n \in Nat, n \in N PROVE n + 1 \in N
  <2>0. \A r \in Seq(Seq(T)) :
          Len(r) = n => FlattenSeq(<<t>> \o r) = t \o FlattenSeq(r)
    BY <1>2
  <2>1. ASSUME NEW r \in Seq(Seq(T)), Len(r) = n + 1
        PROVE  FlattenSeq(<<t>> \o r) = t \o FlattenSeq(r)
    <3> DEFINE q == SubSeq(r, 1, n)
               x == r[n + 1]
    <3>1. /\ q \in Seq(Seq(T)) /\ Len(q) = n /\ x \in Seq(T)
          /\ r = Append(q, x)
      BY <2>1
    <3> HIDE DEF q, x
    <3>2. <<t>> \o r = Append(<<t>> \o q, x) /\ <<t>> \o q \in Seq(Seq(T))
      BY <3>1
    <3>3. FlattenSeq(<<t>> \o r) = FlattenSeq(<<t>> \o q) \o x
      BY <3>1, <3>2, FlattenAppend
    <3>4. FlattenSeq(<<t>> \o q) = t \o FlattenSeq(q)
      BY <2>0, <3>1
    <3>5. FlattenSeq(r) = FlattenSeq(q) \o x /\ FlattenSeq(q) \in Seq(T)
      BY <3>1, FlattenAppend, FlattenType
    <3>6. (t \o FlattenSeq(q)) \o x = t \o (FlattenSeq(q) \o x)
      BY <3>1, <3>5, ConcatAssociative, SMTT(30)
    <3> QED
      BY <3>3, <3>4, <3>5, <3>6
  <2>2. n + 1 \in Nat
    OBVIOUS
  <2> QED
    BY <2>1, <2>2, Zenon
<1> HIDE DEF N
<1>3. Nat \subseteq N
  BY <1>1, <1>2, SetInduction
<1>4. Len(s) \in N
  BY <1>3
<1> QED
  BY <1>4 DEF N

(* Where the parts of s stand in FlattenSeq(s): part k behind place k - 1, *)
(* as far as place k.                                                      *)
PlacesOf(b, s) ==
  /\ b \in [0 .. Len(s) -> Nat]
  /\ b[0] = 0
  /\ b[Len(s)] = Len(FlattenSeq(s))
  /\ \A k \in 1 .. Len(s) :
       /\ b[k] = b[k - 1] + Len(s[k])
       /\ b[k] <= Len(FlattenSeq(s))
       /\ \A i \in 1 .. Len(s[k]) : FlattenSeq(s)[b[k - 1] + i] = s[k][i]

LEMMA FlattenPlaces ==
  ASSUME NEW T, NEW s \in Seq(Seq(T))
  PROVE  \E b : PlacesOf(b, s)
<1>0. PICK n \in Nat : n = Len(s)
  OBVIOUS
<1>1. PICK f : Follows(f, Seq(T), <<>>, FlatStep(s, T), n)
  BY <1>0, FlattenExists
<1>2. FlattenSeq(s) = f[n]
  BY <1>0, <1>1, FlattenIs
<1>3. f \in [0 .. n -> Seq(T)] /\ f[0] = <<>>
  BY <1>1 DEF Follows
<1>4. ASSUME NEW k \in 1 .. n
      PROVE  f[k] = f[k - 1] \o s[k] /\ s[k] \in Seq(T)
  <2>1. k - 1 \in 0 .. n - 1 /\ (k - 1) + 1 = k /\ k \in 1 .. Len(s)
    BY <1>0
  <2>2. <<k - 1, f[k - 1]>> \in Nat \X Seq(T)
    BY <1>3
  <2>3. f[k] = FlatStep(s, T)[<<k - 1, f[k - 1]>>]
    BY <1>1, <2>1 DEF Follows
  <2>4. s[k] \in Seq(T)
    BY <2>1, ElementOfSeq
  <2> QED
    BY <2>1, <2>2, <2>3, <2>4 DEF FlatStep
<1>5. ASSUME NEW k \in 1 .. n
      PROVE  /\ Len(f[k]) = Len(f[k - 1]) + Len(s[k])
             /\ \A i \in 1 .. Len(f[k - 1]) : f[k][i] = f[k - 1][i]
             /\ \A i \in 1 .. Len(s[k]) : f[k][Len(f[k - 1]) + i] = s[k][i]
  <2> DEFINE p == f[k - 1]
             q == s[k]
  <2>1. p \in Seq(T) /\ q \in Seq(T) /\ f[k] = p \o q
    <3>1. k - 1 \in 0 .. n
      BY <1>0
    <3> QED
      BY <1>3, <1>4, <3>1
  <2> HIDE DEF p, q
  <2>2. /\ Len(f[k]) = Len(p) + Len(q)
        /\ \A i \in 1 .. Len(p) : f[k][i] = p[i]
        /\ \A i \in 1 .. Len(q) : f[k][Len(p) + i] = q[i]
    BY <2>1
  <2> QED
    BY <2>2 DEF p, q
<1> DEFINE b == [k \in 0 .. n |-> Len(f[k])]
           c == [k \in 1 .. n |-> Len(s[k])]
<1>6. b \in [0 .. n -> Nat] /\ b[0] = 0 /\ b[n] = Len(f[n])
  BY <1>3
<1>7. c \in [1 .. n -> Nat] /\ \A k \in 1 .. n : c[k] = Len(s[k])
  BY <1>4
<1>8. ASSUME NEW k \in 1 .. n
      PROVE  /\ b[k] = b[k - 1] + c[k]
             /\ \A i \in 1 .. b[k - 1] : f[k][i] = f[k - 1][i]
             /\ \A i \in 1 .. c[k] : f[k][b[k - 1] + i] = s[k][i]
  <2>1. b[k] = Len(f[k]) /\ b[k - 1] = Len(f[k - 1]) /\ c[k] = Len(s[k])
    OBVIOUS
  <2> QED
    BY <1>5, <2>1
<1> HIDE DEF b, c
<1> DEFINE Within(k, m) == /\ b[k] <= b[m]
                           /\ \A i \in 1 .. b[k] : f[m][i] = f[k][i]
           N(k) == {m \in Nat : k <= m /\ m <= n => Within(k, m)}
<1>9. ASSUME NEW k \in 0 .. n PROVE Within(k, n)
  <2>1. 0 \in N(k)
    <3>1. SUFFICES ASSUME k = 0 PROVE Within(0, 0)
      OBVIOUS
    <3> QED
      BY <1>6
  <2>2. ASSUME NEW m \in Nat, m \in N(k) PROVE m + 1 \in N(k)
    <3>1. SUFFICES ASSUME k <= m + 1, m + 1 <= n PROVE Within(k, m + 1)
      OBVIOUS
    <3>2. CASE k = m + 1
      <4>1. b[k] \in Nat
        BY <1>6
      <4> QED
        BY <3>2, <4>1
    <3>3. CASE k <= m
      <4>1. Within(k, m)
        BY <2>2, <3>1, <3>3
      <4>2. m + 1 \in 1 .. n /\ (m + 1) - 1 = m /\ m \in 0 .. n
        BY <3>1
      <4>3. /\ b[m + 1] = b[m] + c[m + 1]
            /\ \A i \in 1 .. b[m] : f[m + 1][i] = f[m][i]
        BY <1>8, <4>2
      <4>4. b[k] \in Nat /\ b[m] \in Nat /\ c[m + 1] \in Nat
        BY <1>6, <1>7, <4>2
      <4>5. b[k] <= b[m + 1]
        BY <4>1, <4>3, <4>4
      <4>6. \A i \in 1 .. b[k] : i \in 1 .. b[m]
        BY <4>1, <4>4
      <4> QED
        BY <4>1, <4>3, <4>5, <4>6
    <3> QED
      BY <3>1, <3>2, <3>3
  <2>3. Nat \subseteq N(k)
    <3> HIDE DEF N
    <3> QED
      BY <2>1, <2>2, SetInduction
  <2> QED
    BY <2>3
<1>10. ASSUME NEW k \in 1 .. n
       PROVE  /\ b[k] = b[k - 1] + Len(s[k])
              /\ b[k] <= Len(f[n])
              /\ \A i \in 1 .. Len(s[k]) : f[n][b[k - 1] + i] = s[k][i]
  <2>1. Within(k, n) /\ c[k] = Len(s[k])
    BY <1>7, <1>9
  <2>2. k - 1 \in 0 .. n /\ k \in 0 .. n
    OBVIOUS
  <2>3. b[k - 1] \in Nat /\ b[k] \in Nat /\ c[k] \in Nat
    BY <1>6, <1>7, <2>2
  <2>4. b[k] = b[k - 1] + c[k]
    BY <1>8
  <2>5. \A i \in 1 .. c[k] : b[k - 1] + i \in 1 .. b[k]
    BY <2>3, <2>4
  <2>6. \A i \in 1 .. c[k] : f[k][b[k - 1] + i] = s[k][i]
    BY <1>8
  <2> QED
    BY <1>6, <2>1, <2>4, <2>5, <2>6
<1>11. PlacesOf(b, s)
  BY <1>0, <1>2, <1>6, <1>10 DEF PlacesOf
<1> QED
  BY <1>11
=============================================================================
