----------------------------- MODULE DataLemmas ------------------------------
(***************************************************************************)
(* Facts about the data that the models of the CPUs, the caches and the    *)
(* predictor share, for their proofs: sequences of blocks laid end to end  *)
(* (SequencesExt's FlattenSeq), the tag store's operators, quotients and   *)
(* remainders, powers of two and the bits of a number.                     *)
(*                                                                         *)
(* The library's induction theorems take the predicate as an operator,     *)
(* which the provers cannot instantiate.  NatSetInduction says the same of *)
(* a set, which they can: it follows from the pigeonhole principle.  That  *)
(* 2^n is a natural number that doubles with n is no built-in fact for     *)
(* them either: it comes from counting subsets (FS_SUBSET).                *)
(***************************************************************************)
EXTENDS TagStore, Integers, FiniteSets, FiniteSetTheorems, SequenceTheorems, TLAPS

-----------------------------------------------------------------------------
(* A set that holds 0 and, with a number, the next one holds every number: *)
(* below one that it leaves out, adding 1 would map the set's members to   *)
(* themselves without 0.                                                   *)
LEMMA NatSetInduction ==
  ASSUME NEW A, 0 \in A, \A n \in Nat : n \in A => n + 1 \in A
  PROVE  Nat \subseteq A
<1> SUFFICES ASSUME NEW m \in Nat, m \notin A
             PROVE  FALSE
    OBVIOUS
<1> DEFINE S == {k \in 0 .. m : k \in A}
           f == [k \in S |-> k + 1]
<1>1. IsFiniteSet(S) /\ 0 \in S
  <2>1. IsFiniteSet(0 .. m)
        BY FS_Interval
  <2>2. S \in SUBSET (0 .. m) /\ 0 \in S
        OBVIOUS
  <2> HIDE DEF S
  <2> QED
      BY <2>1, <2>2, FS_Subset
<1>2. f \in [S -> S \ {0}]
  <2>1. \A k \in S : k + 1 \in S \ {0}
        OBVIOUS
  <2> QED
      BY <2>1
<1>3. /\ IsFiniteSet(S \ {0}) /\ Cardinality(S \ {0}) < Cardinality(S)
  <2>1. IsFiniteSet(S \ {0}) /\ Cardinality(S \ {0}) = Cardinality(S) - 1
        BY <1>1, FS_RemoveElement, Zenon
  <2>2. Cardinality(S) \in Nat
        BY <1>1, FS_CardinalityType, Zenon
  <2> HIDE DEF S
  <2> QED
      BY <2>1, <2>2
<1>4. PICK x \in S, y \in S : x # y /\ f[x] = f[y]
  <2> HIDE DEF f, S
  <2> QED
      BY <1>1, <1>2, <1>3, FS_PigeonHole, Zenon
<1> QED
    BY <1>4

-----------------------------------------------------------------------------
(* Brackets may be moved when sequences are laid end to end.               *)
Associates(x, y, z) == (x \o y) \o z = x \o (y \o z)

LEMMA ConcatAssociates ==
  ASSUME NEW S, NEW x \in Seq(S), NEW y \in Seq(S), NEW z \in Seq(S)
  PROVE  Associates(x, y, z)
BY ConcatAssociative DEF Associates

(* What remains of a sequence when some of its front has been taken.       *)
LEMMA DropFront ==
  ASSUME NEW S, NEW s \in Seq(S), NEW k \in 0 .. Len(s)
  PROVE  /\ SubSeq(s, k + 1, Len(s)) \in Seq(S)
         /\ Len(SubSeq(s, k + 1, Len(s))) = Len(s) - k
         /\ \A j \in 1 .. Len(s) - k : SubSeq(s, k + 1, Len(s))[j] = s[k + j]
<1> DEFINE n == Len(s)
           first == k + 1
           t == SubSeq(s, first, n)
<1>1. n \in Nat /\ k \in 0 .. n /\ first \in Int /\ n \in Int
      OBVIOUS
<1>2. \A j \in first .. n : s[j] \in S
      OBVIOUS
<1>3. /\ t \in Seq(S) /\ Len(t) = IF first <= n THEN n - first + 1 ELSE 0
      /\ \A j \in 1 .. n - first + 1 : t[j] = s[first + j - 1]
  <2> HIDE DEF n, first
  <2> QED
      BY <1>1, <1>2, SubSeqProperties
<1>4. /\ (IF first <= n THEN n - first + 1 ELSE 0) = n - k
      /\ n - first + 1 = n - k
      /\ \A j \in 1 .. n - k : first + j - 1 = k + j
  <2> HIDE DEF n
  <2> QED
      BY <1>1
<1> HIDE DEF t
<1>5. \A j \in 1 .. n - k : t[j] = s[k + j]
      BY <1>3, <1>4, Zenon
<1>6. Len(t) = n - k
      BY <1>3, <1>4, Zenon
<1> QED
    BY <1>3, <1>5, <1>6, Zenon DEF t

(* What remains of a \o b when part of a has been taken.                   *)
LEMMA ConcatDropFront ==
  ASSUME NEW S, NEW a \in Seq(S), NEW b \in Seq(S), NEW k \in 0 .. Len(a)
  PROVE  SubSeq(a \o b, k + 1, Len(a \o b)) = SubSeq(a, k + 1, Len(a)) \o b
<1> DEFINE n == Len(a)
           m == Len(b)
           s == a \o b
           e == Len(s)
           l == SubSeq(s, k + 1, e)
           c == SubSeq(a, k + 1, n)
           r == c \o b
<1>1. /\ n \in Nat /\ m \in Nat /\ s \in Seq(S) /\ e = n + m
      /\ \A j \in 1 .. n + m : s[j] = IF j <= n THEN a[j] ELSE b[j - n]
      BY ConcatProperties
<1>2. /\ c \in Seq(S) /\ Len(c) = n - k
      /\ \A j \in 1 .. n - k : c[j] = a[k + j]
      BY DropFront
<1>3. /\ l \in Seq(S) /\ Len(l) = e - k
      /\ \A j \in 1 .. e - k : l[j] = s[k + j]
  <2>1. k \in 0 .. e
        BY <1>1
  <2> HIDE DEF s
  <2> QED
      BY <1>1, <2>1, DropFront
<1> HIDE DEF c, n, m, s, e, l
<1>4. /\ r \in Seq(S) /\ Len(r) = Len(c) + m
      /\ \A j \in 1 .. Len(c) + m : r[j] = IF j <= Len(c) THEN c[j] ELSE b[j - Len(c)]
      BY <1>2, ConcatProperties DEF m
<1> HIDE DEF r
<1>5. Len(l) = Len(r)
      BY <1>1, <1>2, <1>3, <1>4
<1>6. ASSUME NEW j \in 1 .. Len(l)
      PROVE  l[j] = r[j]
  <2>1. /\ k \in 0 .. n /\ j \in 1 .. e - k /\ j \in 1 .. Len(c) + m
        /\ k + j \in 1 .. n + m
        BY <1>1, <1>2, <1>3 DEF n
  <2>2. l[j] = s[k + j]
        BY <1>3, <2>1, Zenon
  <2>3. CASE j <= n - k
    <3>1. k + j <= n /\ j \in 1 .. n - k /\ j <= Len(c)
          BY <1>1, <1>2, <2>1, <2>3
    <3>2. s[k + j] = a[k + j] /\ r[j] = c[j] /\ c[j] = a[k + j]
          BY <1>1, <1>2, <1>4, <2>1, <3>1, Zenon
    <3> QED
        BY <2>2, <3>2, Zenon
  <2>4. CASE ~ (j <= n - k)
    <3>1. ~ (k + j <= n) /\ k + j - n = j - Len(c) /\ ~ (j <= Len(c))
          BY <1>1, <1>2, <2>1, <2>4
    <3>2. s[k + j] = b[k + j - n]
          BY <1>1, <2>1, <3>1
    <3>3. r[j] = b[j - Len(c)]
          BY <1>4, <2>1, <3>1, Zenon
    <3> QED
        BY <2>2, <3>1, <3>2, <3>3, Zenon
  <2> QED
      BY <2>3, <2>4
<1>7. l = r
      BY <1>3, <1>4, <1>5, <1>6, SeqEqual
<1> QED
    BY <1>7, Zenon DEF l, r, c, s, n, e

LEMMA PrependProperties ==
  ASSUME NEW S, NEW h \in S, NEW t \in Seq(S)
  PROVE  /\ <<h>> \o t \in Seq(S) /\ <<h>> \o t # <<>>
         /\ Head(<<h>> \o t) = h /\ Tail(<<h>> \o t) = t
<1>1. <<h>> \in Seq(S) /\ Len(<<h>>) = 1 /\ <<h>>[1] = h
      OBVIOUS
<1> DEFINE s == <<h>> \o t
<1>2. /\ s \in Seq(S) /\ Len(s) = 1 + Len(t)
      /\ s[1] = h /\ \A k \in 2 .. Len(t) + 1 : s[k] = t[k - 1]
      BY <1>1
<1> HIDE DEF s
<1>3. s # <<>>
      BY <1>2
<1>4. Tail(s) \in Seq(S) /\ Len(Tail(s)) = Len(t) /\ \A k \in 1 .. Len(t) : Tail(s)[k] = t[k]
      BY <1>2, <1>3
<1>5. Tail(s) = t
      BY <1>4, SeqEqual
<1>6. Head(s) = h
      BY <1>2, <1>3
<1> QED
    BY <1>2, <1>3, <1>5, <1>6 DEF s

LEMMA AppendLast ==
  ASSUME NEW S, NEW s \in Seq(S), NEW t \in Seq(S), NEW e \in S
  PROVE  s \o Append(t, e) = Append(s \o t, e)
<1>1. s \o t \in Seq(S) /\ <<e>> \in Seq(S)
      OBVIOUS
<1>2. Append(t, e) = t \o <<e>> /\ Append(s \o t, e) = (s \o t) \o <<e>>
      BY <1>1, AppendIsConcat
<1>3. Associates(s, t, <<e>>)
      BY <1>1, ConcatAssociates
<1> QED
    BY <1>2, <1>3, Zenon DEF Associates

-----------------------------------------------------------------------------
(* The blocks of s laid end to end, up to the k-th.                        *)
PrefixesTo(S, s, k) ==
  {p \in [0 .. k -> Seq(S)] : p[0] = <<>> /\ \A j \in 1 .. k : p[j] = p[j - 1] \o s[j]}

Prefixes(S, s) == PrefixesTo(S, s, Len(s))

(* There is such a function for every s ...                                *)
LEMMA PrefixesExist ==
  ASSUME NEW S, NEW s \in Seq(Seq(S))
  PROVE  Prefixes(S, s) # {}
<1> DEFINE A == {k \in Nat : k <= Len(s) => PrefixesTo(S, s, k) # {}}
<1>1. 0 \in A
  <2>1. [j \in 0 .. 0 |-> <<>>] \in PrefixesTo(S, s, 0)
        BY DEF PrefixesTo
  <2> QED
      BY <2>1
<1>2. ASSUME NEW k \in Nat, k \in A
      PROVE  k + 1 \in A
  <2> SUFFICES ASSUME k + 1 <= Len(s) PROVE PrefixesTo(S, s, k + 1) # {}
      OBVIOUS
  <2>1. PICK p \in PrefixesTo(S, s, k) : TRUE
        BY <1>2
  <2> DEFINE r == [j \in 0 .. k + 1 |-> IF j <= k THEN p[j] ELSE p[k] \o s[k + 1]]
  <2>2. p[k] \in Seq(S) /\ s[k + 1] \in Seq(S)
        BY <2>1 DEF PrefixesTo
  <2>3. p[k] \o s[k + 1] \in Seq(S)
        BY <2>2
  <2>4. r \in [0 .. k + 1 -> Seq(S)] /\ r[0] = <<>>
        BY <2>1, <2>3 DEF PrefixesTo
  <2>5. ASSUME NEW j \in 1 .. k + 1
        PROVE  r[j] = r[j - 1] \o s[j]
    <3>1. CASE j <= k
      <4>1. j \in 1 .. k /\ j - 1 \in 0 .. k
            BY <3>1
      <4>2. p[j] = p[j - 1] \o s[j]
            BY <4>1, <2>1 DEF PrefixesTo
      <4>3. r[j] = p[j] /\ r[j - 1] = p[j - 1]
            BY <4>1
      <4> QED
          BY <4>2, <4>3, Zenon
    <3>2. CASE j = k + 1
      <4>1. /\ j - 1 = k /\ j \in 0 .. k + 1 /\ k \in 0 .. k + 1
            /\ ~ (j <= k) /\ k <= k
            BY <3>2
      <4>2. r[j] = p[k] \o s[k + 1] /\ r[k] = p[k]
            BY <4>1, Zenon
      <4> QED
          BY <3>2, <4>1, <4>2, Zenon
    <3>3. j <= k \/ j = k + 1
          OBVIOUS
    <3> HIDE DEF r
    <3> QED
        BY <3>1, <3>2, <3>3
  <2>6. r \in PrefixesTo(S, s, k + 1)
    <3> HIDE DEF r
    <3> QED
        BY <2>4, <2>5 DEF PrefixesTo
  <2> QED
      BY <2>6, Zenon
<1>3. Nat \subseteq A
  <2> HIDE DEF A
  <2> QED
      BY <1>1, <1>2, NatSetInduction
<1>4. Len(s) \in Nat /\ Len(s) <= Len(s)
      OBVIOUS
<1>5. Len(s) \in A
      BY <1>3, <1>4, Zenon
<1> QED
    BY <1>4, <1>5, Zenon DEF Prefixes

(* ... and FlattenSeq yields its last value.                               *)
LEMMA FlattenIsPrefix ==
  ASSUME NEW S, NEW s \in Seq(Seq(S)), NEW p \in Prefixes(S, s)
  PROVE  SeqExt!FlattenSeq(s) = p[Len(s)] /\ SeqExt!FlattenSeq(s) \in Seq(S)
<1>0. Len(s) \in Nat /\ p[Len(s)] \in Seq(S)
      BY DEF Prefixes, PrefixesTo
<1>1. CASE s = <<>>
  <2>1. Len(s) = 0 /\ p[0] = <<>>
        BY <1>1 DEF Prefixes, PrefixesTo
  <2>2. SeqExt!FlattenSeq(s) = s
        BY <2>1 DEF SeqExt!FlattenSeq
  <2> QED
      BY <1>0, <1>1, <2>1, <2>2, Zenon
<1>2. CASE s # <<>>
  <2> DEFINE Rec(g) == [k \in 1 .. Len(s) |-> IF k = 1 THEN s[k] ELSE g[k - 1] \o s[k]]
             f == CHOOSE g : g = Rec(g)
             h == [k \in 1 .. Len(s) |-> p[k]]
  <2>1. Len(s) \in Nat \ {0}
        BY <1>2
  <2>2. ASSUME NEW k \in 1 .. Len(s)
        PROVE  p[k] = IF k = 1 THEN s[k] ELSE h[k - 1] \o s[k]
    <3> HIDE DEF h
    <3>1. p[k] = p[k - 1] \o s[k] /\ p[0] = <<>>
          BY DEF Prefixes, PrefixesTo
    <3>0. s[k] \in Seq(S)
          OBVIOUS
    <3> USE DEF h
    <3>2. CASE k = 1
      <4>1. <<>> \o s[k] = s[k] /\ k - 1 = 0
            BY <3>0, <3>2
      <4> QED
          BY <3>1, <3>2, <4>1, Zenon
    <3>3. CASE k # 1
      <4>1. h[k - 1] = p[k - 1]
            BY <3>3
      <4> QED
          BY <3>1, <3>3, <4>1, Zenon
    <3> QED
        BY <3>2, <3>3
  <2>3. h = Rec(h)
        BY <2>2, Zenon
  <2>4. f = Rec(f)
    <3> HIDE DEF Rec, h
    <3> QED
        BY <2>3, Zenon
  <2>5. SeqExt!FlattenSeq(s) = f[Len(s)]
        BY <2>1 DEF SeqExt!FlattenSeq
  <2>6. \A k \in 1 .. Len(s) : f[k] = IF k = 1 THEN s[k] ELSE f[k - 1] \o s[k]
    <3> DEFINE R(g, k) == IF k = 1 THEN s[k] ELSE g[k - 1] \o s[k]
    <3> HIDE DEF f
    <3> QED
        BY <2>4, Zenon
  <2> HIDE DEF f
  <2> DEFINE A == {k \in Nat : k < Len(s) => f[k + 1] = p[k + 1]}
  <2>7. 0 \in A
    <3>1. 1 \in 1 .. Len(s) /\ 0 + 1 = 1
          BY <2>1
    <3>2. f[1] = s[1] /\ p[1] = s[1]
          BY <2>2, <2>6, <3>1, Zenon
    <3> QED
        BY <3>1, <3>2
  <2>8. ASSUME NEW k \in Nat, k \in A
        PROVE  k + 1 \in A
    <3> SUFFICES ASSUME k + 1 < Len(s) PROVE f[(k + 1) + 1] = p[(k + 1) + 1]
        OBVIOUS
    <3>1. /\ f[k + 1] = p[k + 1] /\ k + 2 \in 1 .. Len(s) /\ k + 2 # 1
          /\ (k + 2) - 1 = k + 1 /\ (k + 1) + 1 = k + 2
          BY <2>1, <2>8
    <3>2. f[k + 2] = f[k + 1] \o s[k + 2]
          BY <2>6, <3>1
    <3>3. p[k + 2] = p[k + 1] \o s[k + 2]
          BY <3>1 DEF Prefixes, PrefixesTo
    <3> QED
        BY <3>1, <3>2, <3>3, Zenon
  <2>9. Nat \subseteq A
    <3> HIDE DEF A
    <3> QED
        BY <2>7, <2>8, NatSetInduction
  <2>10. f[Len(s)] = p[Len(s)]
    <3>1. Len(s) - 1 \in Nat /\ Len(s) - 1 < Len(s) /\ (Len(s) - 1) + 1 = Len(s)
          BY <2>1
    <3>2. f[(Len(s) - 1) + 1] = p[(Len(s) - 1) + 1]
          BY <2>9, <3>1
    <3> QED
        BY <3>1, <3>2, Zenon
  <2> QED
      BY <1>0, <2>5, <2>10, Zenon
<1> QED
    BY <1>1, <1>2

(* What FlattenSeq does, by way of the operations that the buffers use.    *)
LEMMA FlattenType ==
  ASSUME NEW S, NEW s \in Seq(Seq(S))
  PROVE  SeqExt!FlattenSeq(s) \in Seq(S)
BY PrefixesExist, FlattenIsPrefix

LEMMA FlattenEmpty == SeqExt!FlattenSeq(<<>>) = <<>>
BY DEF SeqExt!FlattenSeq

LEMMA FlattenAppend ==
  ASSUME NEW S, NEW s \in Seq(Seq(S)), NEW b \in Seq(S)
  PROVE  SeqExt!FlattenSeq(Append(s, b)) = SeqExt!FlattenSeq(s) \o b
<1>1. PICK p \in Prefixes(S, s) : TRUE
      BY PrefixesExist
<1> DEFINE n == Len(s)
           t == Append(s, b)
           r == [j \in 0 .. n + 1 |-> IF j <= n THEN p[j] ELSE p[n] \o b]
<1>2. /\ n \in Nat /\ t \in Seq(Seq(S)) /\ Len(t) = n + 1
      /\ t[n + 1] = b /\ \A j \in 1 .. n : t[j] = s[j]
      BY AppendProperties
<1>3. /\ p \in [0 .. n -> Seq(S)] /\ p[0] = <<>> /\ p[n] \in Seq(S)
      /\ \A j \in 1 .. n : p[j] = p[j - 1] \o s[j]
  <2>1. p \in PrefixesTo(S, s, n)
        BY DEF Prefixes
  <2> HIDE DEF n
  <2>2. p \in [0 .. n -> Seq(S)]
        BY <2>1 DEF PrefixesTo
  <2>3. p[0] = <<>> /\ \A j \in 1 .. n : p[j] = p[j - 1] \o s[j]
        BY <2>1 DEF PrefixesTo
  <2>4. n \in 0 .. n
        BY <1>2
  <2>5. p[n] \in Seq(S)
        BY <2>2, <2>4
  <2> QED
      BY <2>2, <2>3, <2>5
<1>4. r \in Prefixes(S, t)
  <2>1. p[n] \o b \in Seq(S)
        BY <1>3
  <2>2. r \in [0 .. n + 1 -> Seq(S)] /\ r[0] = <<>>
        BY <1>2, <1>3, <2>1
  <2>3. ASSUME NEW j \in 1 .. n + 1
        PROVE  r[j] = r[j - 1] \o t[j]
    <3>1. CASE j \in 1 .. n
      <4>1. /\ j \in 0 .. n + 1 /\ j - 1 \in 0 .. n + 1
            /\ j <= n /\ j - 1 <= n
            BY <1>2, <3>1
      <4>2. r[j] = p[j] /\ r[j - 1] = p[j - 1]
            BY <4>1, Zenon
      <4> HIDE DEF r, t
      <4> QED
          BY <4>2, <1>2, <1>3, <3>1
    <3>2. CASE j = n + 1
      <4>1. /\ j - 1 = n /\ j \in 0 .. n + 1 /\ n \in 0 .. n + 1
            /\ ~ (j <= n) /\ n <= n
            BY <1>2, <3>2
      <4>2. r[j] = p[n] \o b /\ r[n] = p[n]
            BY <4>1, Zenon
      <4> QED
          BY <1>2, <3>2, <4>1, <4>2, Zenon
    <3>3. j \in 1 .. n \/ j = n + 1
          BY <1>2
    <3> HIDE DEF r, t
    <3> QED
        BY <3>1, <3>2, <3>3
  <2> HIDE DEF r, t
  <2> QED
      BY <1>2, <2>2, <2>3 DEF Prefixes, PrefixesTo
<1>5. r[n + 1] = p[n] \o b
  <2>1. n + 1 \in 0 .. n + 1 /\ ~ (n + 1 <= n)
        BY <1>2
  <2> QED
      BY <2>1, Zenon
<1>6. SeqExt!FlattenSeq(s) = p[n]
      BY FlattenIsPrefix
<1>7. SeqExt!FlattenSeq(t) = r[n + 1]
  <2> HIDE DEF r, t
  <2> QED
      BY <1>2, <1>4, FlattenIsPrefix
<1> QED
    BY <1>5, <1>6, <1>7, Zenon

LEMMA FlattenHead ==
  ASSUME NEW S, NEW s \in Seq(Seq(S)), s # <<>>
  PROVE  SeqExt!FlattenSeq(s) = Head(s) \o SeqExt!FlattenSeq(Tail(s))
<1> DEFINE n == Len(s)
           t == Tail(s)
           h == Head(s)
<1>1. /\ n \in Nat \ {0} /\ t \in Seq(Seq(S)) /\ Len(t) = n - 1 /\ h \in Seq(S)
      /\ h = s[1] /\ \A j \in 1 .. n - 1 : t[j] = s[j + 1]
      OBVIOUS
<1>2. PICK q \in Prefixes(S, t) : TRUE
      BY <1>1, PrefixesExist
<1> DEFINE r == [j \in 0 .. n |-> IF j = 0 THEN <<>> ELSE h \o q[j - 1]]
<1> HIDE DEF n, t, h
<1>3. /\ q \in [0 .. n - 1 -> Seq(S)] /\ q[0] = <<>>
      /\ \A j \in 1 .. n - 1 : q[j] = q[j - 1] \o t[j]
      BY <1>1, <1>2 DEF Prefixes, PrefixesTo
<1>4. r \in [0 .. n -> Seq(S)] /\ r[0] = <<>>
  <2>1. \A j \in 1 .. n : j - 1 \in 0 .. n - 1
        BY <1>1
  <2>2. \A j \in 1 .. n : h \o q[j - 1] \in Seq(S)
        BY <1>1, <1>3, <2>1
  <2> QED
      BY <1>1, <2>2
<1>5. ASSUME NEW j \in 1 .. n
      PROVE  r[j] = r[j - 1] \o s[j]
  <2>0. j \in 0 .. n /\ j # 0
        BY <1>1
  <2>1. r[j] = h \o q[j - 1]
        BY <2>0, Zenon
  <2>2. CASE j = 1
    <3>1. h \o <<>> = h /\ <<>> \o h = h
          BY <1>1
    <3>2. j - 1 = 0
          BY <2>2
    <3> QED
        BY <1>1, <1>3, <1>4, <2>1, <2>2, <3>1, <3>2, Zenon
  <2>3. CASE j # 1
    <3>1. j - 1 \in 1 .. n - 1 /\ j - 2 \in 0 .. n - 1 /\ (j - 1) - 1 = j - 2 /\ (j - 1) + 1 = j
          BY <1>1, <2>3
    <3>2. q[j - 1] = q[j - 2] \o t[j - 1] /\ t[j - 1] = s[j]
          BY <1>1, <1>3, <3>1
    <3>3. r[j - 1] = h \o q[j - 2]
      <4>1. j - 1 \in 0 .. n /\ j - 1 # 0
            BY <1>1, <2>3
      <4> QED
          BY <3>1, <4>1, Zenon
    <3> HIDE DEF r
    <3>4. q[j - 2] \in Seq(S)
          BY <1>3, <3>1
    <3>5. t[j - 1] \in Seq(S)
          BY <1>1, <3>1
    <3>6. Associates(h, q[j - 2], t[j - 1])
          BY <1>1, <3>4, <3>5, ConcatAssociates
    <3> QED
        BY <2>1, <3>2, <3>3, <3>6, Zenon DEF Associates
  <2> HIDE DEF r
  <2> QED
      BY <2>2, <2>3
<1>6. r \in Prefixes(S, s)
  <2> HIDE DEF r
  <2> QED
      BY <1>4, <1>5 DEF Prefixes, PrefixesTo, n
<1>7. r[n] = h \o q[n - 1]
  <2>1. n \in 0 .. n /\ n # 0
        BY <1>1
  <2> QED
      BY <2>1, Zenon
<1>8. SeqExt!FlattenSeq(s) = r[n]
  <2> HIDE DEF r
  <2> QED
      BY <1>6, FlattenIsPrefix DEF n
<1>9. SeqExt!FlattenSeq(t) = q[n - 1]
      BY <1>1, <1>2, FlattenIsPrefix
<1> HIDE DEF r
<1> QED
    BY <1>7, <1>8, <1>9 DEF h, t

-----------------------------------------------------------------------------
(* The tag store's operators.                                              *)

Elements(s) == {s[n] : n \in DOMAIN s}
Distinct(s) == \A m, n \in DOMAIN s : s[m] = s[n] => m = n

LEMMA WithoutProperties ==
  ASSUME NEW S, NEW s \in Seq(S), NEW e
  PROVE  /\ Without(s, e) \in Seq(S)
         /\ Elements(Without(s, e)) = Elements(s) \ {e}
         /\ (\A m, n \in DOMAIN s : s[m] = s[n] /\ s[m] # e => m = n) => Distinct(Without(s, e))
<1> DEFINE b == [n \in DOMAIN s |-> IF s[n] = e THEN <<>> ELSE <<s[n]>>]
           Once == \A m, n \in DOMAIN s : s[m] = s[n] /\ s[m] # e => m = n
<1>1. b \in Seq(Seq(S)) /\ Len(b) = Len(s) /\ Len(s) \in Nat /\ DOMAIN s = 1 .. Len(s)
  <2>1. \A n \in 1 .. Len(s) : (IF s[n] = e THEN <<>> ELSE <<s[n]>>) \in Seq(S)
        OBVIOUS
  <2>2. DOMAIN s = 1 .. Len(s) /\ Len(s) \in Nat
        OBVIOUS
  <2>3. b = [n \in 1 .. Len(s) |-> IF s[n] = e THEN <<>> ELSE <<s[n]>>]
        BY <2>2
  <2> QED
      BY <2>1, <2>2, <2>3
<1>2. PICK p \in Prefixes(S, b) : TRUE
      BY <1>1, PrefixesExist
<1>3. Without(s, e) = p[Len(s)] /\ Without(s, e) \in Seq(S)
      BY <1>1, FlattenIsPrefix DEF Without
<1>4. /\ \A k \in 0 .. Len(s) : p[k] \in Seq(S)
      /\ p[0] = <<>>
      /\ \A k \in 1 .. Len(s) : p[k] = p[k - 1] \o b[k]
  <2> HIDE DEF b
  <2> QED
      BY <1>1 DEF Prefixes, PrefixesTo
<1> DEFINE Right(k) ==
             /\ \A j \in DOMAIN p[k] : \E n \in 1 .. k : s[n] # e /\ p[k][j] = s[n]
             /\ \A n \in 1 .. k : s[n] # e => \E j \in DOMAIN p[k] : p[k][j] = s[n]
             /\ Once => Distinct(p[k])
           A == {k \in Nat : k <= Len(s) => Right(k)}
<1>5. 0 \in A
      BY <1>4 DEF Distinct
<1>6. ASSUME NEW k \in Nat, k \in A
      PROVE  k + 1 \in A
  <2> SUFFICES ASSUME k + 1 <= Len(s) PROVE Right(k + 1)
      OBVIOUS
  <2>1. /\ k \in 0 .. Len(s) /\ k + 1 \in 1 .. Len(s) /\ (k + 1) - 1 = k
        /\ k + 1 \in DOMAIN s
        BY <1>1
  <2>2. Right(k) /\ p[k] \in Seq(S) /\ p[k + 1] = p[k] \o b[k + 1] /\ s[k + 1] \in S
    <3>1. k <= Len(s)
          BY <1>1
    <3> HIDE DEF Right, b
    <3>2. Right(k)
          BY <1>6, <3>1
    <3>3. p[k + 1] = p[(k + 1) - 1] \o b[k + 1]
          BY <1>4, <2>1
    <3>4. p[k] \in Seq(S)
          BY <1>4, <2>1
    <3> QED
        BY <2>1, <3>2, <3>3, <3>4
  <2>3. CASE s[k + 1] = e
    <3>1. b[k + 1] = <<>>
          BY <2>1, <2>3, Zenon
    <3>2. p[k] \o <<>> = p[k]
          BY <2>2
    <3>3. p[k + 1] = p[k]
          BY <2>2, <3>1, <3>2, Zenon
    <3>4. \A n \in 1 .. k + 1 : n \in 1 .. k \/ n = k + 1
          OBVIOUS
    <3>5. \A n \in 1 .. k : n \in 1 .. k + 1
          OBVIOUS
    <3> QED
        BY <2>2, <2>3, <3>3, <3>4, <3>5
  <2>4. CASE s[k + 1] # e
    <3>1. b[k + 1] = <<s[k + 1]>>
          BY <2>1, <2>4, Zenon
    <3> DEFINE q == p[k]
               x == s[k + 1]
               r == p[k + 1]
    <3>2. r = q \o <<x>> /\ q \in Seq(S) /\ x \in S
          BY <2>2, <3>1, Zenon
    <3> HIDE DEF q, x, r
    <3>3. /\ Len(q) \in Nat /\ DOMAIN q = 1 .. Len(q) /\ DOMAIN r = 1 .. Len(q) + 1
          /\ r[Len(q) + 1] = x
          /\ \A j \in 1 .. Len(q) : r[j] = q[j]
          BY <3>2
    <3>4. \A j \in DOMAIN q : \E n \in 1 .. k : s[n] # e /\ q[j] = s[n]
          BY <2>2 DEF q
    <3>5. \A n \in 1 .. k : s[n] # e => \E j \in DOMAIN q : q[j] = s[n]
          BY <2>2 DEF q
    <3>6. \A n \in 1 .. k : n \in 1 .. k + 1 /\ n # k + 1 /\ n \in DOMAIN s
          BY <1>1, <2>1
    <3>7. \A n \in 1 .. k + 1 : n \in 1 .. k \/ n = k + 1
          OBVIOUS
    <3>8. \A j \in 1 .. Len(q) + 1 : j \in 1 .. Len(q) \/ j = Len(q) + 1
          BY <3>3
    <3>9. \A j \in 1 .. Len(q) : j \in 1 .. Len(q) + 1 /\ j # Len(q) + 1
          BY <3>3
    <3>10. x # e /\ x = s[k + 1] /\ k + 1 \in 1 .. k + 1 /\ Len(q) + 1 \in 1 .. Len(q) + 1
           BY <2>4, <3>3 DEF x
    <3>11. \A j \in DOMAIN r : \E n \in 1 .. k + 1 : s[n] # e /\ r[j] = s[n]
           BY <3>3, <3>4, <3>6, <3>8, <3>10
    <3>12. \A n \in 1 .. k + 1 : s[n] # e => \E j \in DOMAIN r : r[j] = s[n]
           BY <3>3, <3>5, <3>7, <3>9, <3>10
    <3>13. ASSUME Once PROVE Distinct(r)
      <4>1. Distinct(q)
            BY <2>2, <3>13 DEF q
      <4>2. \A j \in DOMAIN q : q[j] # x
            BY <2>1, <3>4, <3>6, <3>10, <3>13
      <4> QED
          BY <3>3, <3>8, <4>1, <4>2 DEF Distinct
    <3> QED
        BY <3>11, <3>12, <3>13, Zenon DEF r
  <2> QED
      BY <2>3, <2>4
<1>7. Nat \subseteq A
  <2> HIDE DEF A
  <2> QED
      BY <1>5, <1>6, NatSetInduction
<1>8. Right(Len(s))
  <2>1. Len(s) \in A /\ Len(s) <= Len(s)
    <3> HIDE DEF A
    <3> QED
        BY <1>1, <1>7
  <2> HIDE DEF Right
  <2> QED
      BY <2>1
<1>9. Elements(Without(s, e)) = Elements(s) \ {e}
  <2> DEFINE w == p[Len(s)]
  <2>1. \A j \in DOMAIN w : \E n \in 1 .. Len(s) : s[n] # e /\ w[j] = s[n]
        BY <1>8
  <2>2. \A n \in 1 .. Len(s) : s[n] # e => \E j \in DOMAIN w : w[j] = s[n]
        BY <1>8
  <2> HIDE DEF w
  <2>3. DOMAIN s = 1 .. Len(s)
        OBVIOUS
  <2>4. ASSUME NEW x \in Elements(w)
        PROVE  x \in Elements(s) \ {e}
        BY <2>1, <2>3, <2>4 DEF Elements
  <2>5. ASSUME NEW x \in Elements(s), x # e
        PROVE  x \in Elements(w)
        BY <2>2, <2>3, <2>5 DEF Elements
  <2>6. Elements(w) = Elements(s) \ {e}
        BY <2>4, <2>5
  <2> QED
      BY <1>3, <2>6, Zenon DEF w
<1> QED
    BY <1>3, <1>8, <1>9

LEMMA DistinctCount ==
  ASSUME NEW S, NEW s \in Seq(S)
  PROVE  /\ IsFiniteSet(Elements(s))
         /\ Distinct(s) => Cardinality(Elements(s)) = Len(s)
<1>1. /\ Len(s) \in Nat /\ DOMAIN s = 1 .. Len(s)
      /\ s \in [1 .. Len(s) -> Elements(s)]
      BY DEF Elements
<1>2. IsFiniteSet(1 .. Len(s)) /\ Cardinality(1 .. Len(s)) = Len(s)
  <2> DEFINE n == Len(s)
  <2>1. 1 \in Int /\ n \in Int /\ n \in Nat
        BY <1>1
  <2> HIDE DEF n
  <2>2. IsFiniteSet(1 .. n) /\ Cardinality(1 .. n) = IF 1 > n THEN 0 ELSE n - 1 + 1
        BY <2>1, FS_Interval
  <2>3. IsFiniteSet(1 .. n) /\ Cardinality(1 .. n) = n
        BY <2>1, <2>2
  <2> QED
      BY <2>3 DEF n
<1>3. s \in Surjection(1 .. Len(s), Elements(s))
      BY <1>1 DEF Surjection, Elements
<1>4. IsFiniteSet(Elements(s))
      BY <1>2, <1>3, FS_Surjection
<1>5. ASSUME Distinct(s)
      PROVE  Cardinality(Elements(s)) = Len(s)
  <2>1. s \in Injection(1 .. Len(s), Elements(s))
        BY <1>1, <1>5 DEF Injection, IsInjective, Distinct
  <2>2. ExistsBijection(1 .. Len(s), Elements(s))
        BY <1>3, <2>1 DEF ExistsBijection, Bijection
  <2> QED
      BY <1>1, <2>2, FS_CountingElements
<1> QED
    BY <1>4, <1>5

LEMMA AppendElements ==
  ASSUME NEW S, NEW s \in Seq(S), NEW e \in S
  PROVE  /\ Elements(Append(s, e)) = Elements(s) \cup {e}
         /\ Distinct(s) /\ e \notin Elements(s) => Distinct(Append(s, e))
<1> DEFINE t == Append(s, e)
<1>1. /\ Len(s) \in Nat /\ DOMAIN s = 1 .. Len(s) /\ DOMAIN t = 1 .. Len(s) + 1
      /\ t[Len(s) + 1] = e /\ \A n \in 1 .. Len(s) : t[n] = s[n]
      BY AppendProperties
<1> HIDE DEF t
<1>2. \A n \in 1 .. Len(s) + 1 : n \in 1 .. Len(s) \/ n = Len(s) + 1
      BY <1>1
<1>3. Len(s) + 1 \in 1 .. Len(s) + 1 /\ \A n \in 1 .. Len(s) : n \in 1 .. Len(s) + 1
      BY <1>1
<1>4. Elements(t) = Elements(s) \cup {e}
  <2>1. ASSUME NEW x \in Elements(t) PROVE x \in Elements(s) \cup {e}
        BY <1>1, <1>2, <2>1 DEF Elements
  <2>2. ASSUME NEW x \in Elements(s) PROVE x \in Elements(t)
        BY <1>1, <1>3, <2>2 DEF Elements
  <2>3. e \in Elements(t)
        BY <1>1, <1>3 DEF Elements
  <2> QED
      BY <2>1, <2>2, <2>3
<1>5. ASSUME Distinct(s), e \notin Elements(s)
      PROVE  Distinct(t)
  <2>1. \A n \in 1 .. Len(s) : s[n] # e
        BY <1>1, <1>5 DEF Elements
  <2> QED
      BY <1>1, <1>2, <1>5, <2>1 DEF Distinct
<1> QED
    BY <1>4, <1>5 DEF t

LEMMA IndexType ==
  ASSUME NEW line \in Nat
  PROVE  get_set_idx(line) \in SetIndices /\ get_tag(line) \in Tags
<1>1. line % ClSize \in 0 .. ClSize - 1
      BY TagStoreAssumption
<1>2. line \div Sets \in Nat
      BY TagStoreAssumption
<1>3. (line \div Sets) % TagSpace \in 0 .. TagSpace - 1
      BY <1>2, TagStoreAssumption
<1> QED
    BY <1>1, <1>3 DEF get_set_idx, get_tag, SetIndices, Tags

Stores == [SetIndices -> CacheIndex]

LEMMA EmptyStoreType == EmptyStore \in Stores
BY DEF EmptyStore, Stores, CacheIndex

(* What fill leaves of a set to make room.                                 *)
Kept(set) ==
  IF Len(set.replacement_order) >= Ways
  THEN [replacement_order |-> Tail(set.replacement_order),
        ways |-> set.ways \ {Head(set.replacement_order)}]
  ELSE set

Filled(set, tag) ==
  [replacement_order |-> Append(Kept(set).replacement_order, tag),
   ways              |-> Kept(set).ways \cup {tag}]

Touched(set, tag) ==
  [replacement_order |-> Append(Without(set.replacement_order, tag), tag),
   ways              |-> set.ways]

LEMMA KeptType ==
  ASSUME NEW set \in CacheIndex
  PROVE  Kept(set) \in CacheIndex
<1>1. set.replacement_order \in Seq(Tags) /\ set.ways \in SUBSET Tags
      BY DEF CacheIndex
<1>2. CASE Len(set.replacement_order) >= Ways
  <2>1. set.replacement_order # <<>>
        BY <1>2, TagStoreAssumption
  <2>2. Tail(set.replacement_order) \in Seq(Tags)
        BY <1>1, <2>1
  <2> QED
      BY <1>1, <1>2, <2>2 DEF Kept, CacheIndex
<1>3. CASE ~ (Len(set.replacement_order) >= Ways)
      BY <1>3 DEF Kept
<1> QED
    BY <1>2, <1>3

LEMMA FilledType ==
  ASSUME NEW set \in CacheIndex, NEW tag \in Tags
  PROVE  Filled(set, tag) \in CacheIndex
<1>1. Kept(set).replacement_order \in Seq(Tags) /\ Kept(set).ways \in SUBSET Tags
      BY KeptType DEF CacheIndex
<1> QED
    BY <1>1 DEF Filled, CacheIndex

LEMMA TouchedType ==
  ASSUME NEW set \in CacheIndex, NEW tag \in Tags
  PROVE  Touched(set, tag) \in CacheIndex
<1>1. set.replacement_order \in Seq(Tags) /\ set.ways \in SUBSET Tags
      BY DEF CacheIndex
<1>2. Without(set.replacement_order, tag) \in Seq(Tags)
      BY <1>1, WithoutProperties
<1> QED
    BY <1>1, <1>2 DEF Touched, CacheIndex

LEMMA FillSets ==
  ASSUME NEW store \in Stores, NEW line \in Nat
  PROVE  /\ fill(store, line) \in Stores
         /\ fill(store, line)
              = [store EXCEPT ![get_set_idx(line)] = Filled(store[get_set_idx(line)], get_tag(line))]
<1>1. get_set_idx(line) \in SetIndices /\ get_tag(line) \in Tags
      BY IndexType
<1>2. fill(store, line)
        = [store EXCEPT ![get_set_idx(line)] = Filled(store[get_set_idx(line)], get_tag(line))]
      BY DEF fill, Filled, Kept
<1>3. Filled(store[get_set_idx(line)], get_tag(line)) \in CacheIndex
      BY <1>1, FilledType DEF Stores
<1> QED
    BY <1>1, <1>2, <1>3 DEF Stores

LEMMA ReadSets ==
  ASSUME NEW store \in Stores, NEW line \in Nat
  PROVE  /\ read(store, line) \in Stores
         /\ can_read(store, line) =>
              read(store, line)
                = [store EXCEPT ![get_set_idx(line)] = Touched(store[get_set_idx(line)], get_tag(line))]
         /\ ~ can_read(store, line) => read(store, line) = store
<1> DEFINE idx == get_set_idx(line)
           tag == get_tag(line)
<1>1. idx \in SetIndices /\ tag \in Tags
      BY IndexType
<1>2. Touched(store[idx], tag) \in CacheIndex /\ store[idx] \in CacheIndex
      BY <1>1, TouchedType DEF Stores
<1>3. CASE can_read(store, line)
  <2>1. read(store, line) = [store EXCEPT ![idx].replacement_order = Append(Without(@, tag), tag)]
        BY <1>3 DEF read
  <2> HIDE DEF idx, tag
  <2>2. [store[idx] EXCEPT !.replacement_order = Append(Without(@, tag), tag)] = Touched(store[idx], tag)
    <3>1. \A set \in CacheIndex : \A order :
            [set EXCEPT !.replacement_order = order] = [replacement_order |-> order, ways |-> set.ways]
          BY DEF CacheIndex
    <3> QED
        BY <1>2, <3>1 DEF Touched
  <2>3. [store EXCEPT ![idx].replacement_order = Append(Without(@, tag), tag)]
          = [store EXCEPT ![idx] = Touched(store[idx], tag)]
        BY <1>1, <1>2, <2>2 DEF Stores
  <2>4. [store EXCEPT ![idx] = Touched(store[idx], tag)] \in Stores
        BY <1>1, <1>2 DEF Stores
  <2> QED
      BY <1>3, <2>1, <2>3, <2>4 DEF idx, tag
<1>4. CASE ~ can_read(store, line)
      BY <1>4 DEF read
<1> QED
    BY <1>3, <1>4

-----------------------------------------------------------------------------
(* A set whose LRU list names each tag it holds once, and no other.        *)
Ordered(set) ==
  /\ Elements(set.replacement_order) = set.ways
  /\ Distinct(set.replacement_order)
  /\ Cardinality(set.ways) <= Ways

LEMMA TailElements ==
  ASSUME NEW S, NEW s \in Seq(S), s # <<>>, Distinct(s)
  PROVE  Elements(Tail(s)) = Elements(s) \ {Head(s)} /\ Distinct(Tail(s))
<1> DEFINE t == Tail(s)
<1>1. /\ Len(s) \in Nat \ {0} /\ DOMAIN s = 1 .. Len(s) /\ DOMAIN t = 1 .. Len(s) - 1
      /\ Head(s) = s[1] /\ \A n \in 1 .. Len(s) - 1 : t[n] = s[n + 1]
      OBVIOUS
<1> HIDE DEF t
<1>2. \A n \in 1 .. Len(s) - 1 : n + 1 \in 1 .. Len(s) /\ n + 1 # 1
      BY <1>1
<1>3. \A n \in 1 .. Len(s) : n = 1 \/ (n - 1 \in 1 .. Len(s) - 1 /\ (n - 1) + 1 = n)
      BY <1>1
<1>4. 1 \in 1 .. Len(s)
      BY <1>1
<1>5. ASSUME NEW x \in Elements(t) PROVE x \in Elements(s) \ {Head(s)}
  <2>1. PICK n \in 1 .. Len(s) - 1 : x = t[n]
        BY <1>1, <1>5 DEF Elements
  <2>2. x = s[n + 1] /\ n + 1 \in 1 .. Len(s) /\ n + 1 # 1
        BY <1>1, <1>2, <2>1
  <2>3. x # s[1]
        BY <1>1, <1>4, <2>2 DEF Distinct
  <2> QED
      BY <1>1, <2>2, <2>3 DEF Elements
<1>6. ASSUME NEW x \in Elements(s), x # Head(s) PROVE x \in Elements(t)
  <2>1. PICK n \in 1 .. Len(s) : x = s[n]
        BY <1>1, <1>6 DEF Elements
  <2>2. n - 1 \in 1 .. Len(s) - 1 /\ (n - 1) + 1 = n
        BY <1>1, <1>3, <1>6, <2>1
  <2>3. t[n - 1] = x
        BY <1>1, <2>1, <2>2
  <2> QED
      BY <1>1, <2>2, <2>3 DEF Elements
<1>7. ASSUME NEW m \in 1 .. Len(s) - 1, NEW n \in 1 .. Len(s) - 1, t[m] = t[n]
      PROVE  m = n
  <2>1. m + 1 = n + 1
        BY <1>1, <1>2, <1>7 DEF Distinct
  <2> QED
      BY <2>1
<1> QED
    BY <1>1, <1>5, <1>6, <1>7 DEF t, Distinct

(* Making room in a full set leaves room for one tag.                      *)
LEMMA KeptOrdered ==
  ASSUME NEW set \in CacheIndex, Ordered(set), NEW tag \in Tags
  PROVE  /\ Ordered(Kept(set)) /\ Kept(set).ways \subseteq set.ways
         /\ Cardinality(Kept(set).ways \cup {tag}) <= Ways
<1> DEFINE order == set.replacement_order
<1>1. /\ order \in Seq(Tags) /\ Len(order) \in Nat /\ Ways \in Nat \ {0}
      /\ Elements(order) = set.ways /\ Distinct(order) /\ Cardinality(set.ways) <= Ways
      BY TagStoreAssumption DEF CacheIndex, Ordered
<1>2. IsFiniteSet(set.ways) /\ Cardinality(set.ways) = Len(order)
      BY <1>1, DistinctCount
<1>3. CASE Len(order) >= Ways
  <2>1. order # <<>>
        BY <1>1, <1>3
  <2>2. /\ Elements(Tail(order)) = set.ways \ {Head(order)} /\ Distinct(Tail(order))
        BY <1>1, <2>1, TailElements
  <2>3. Kept(set) = [replacement_order |-> Tail(order), ways |-> set.ways \ {Head(order)}]
        BY <1>3 DEF Kept
  <2>4. Head(order) \in set.ways
    <3>1. 1 \in DOMAIN order /\ Head(order) = order[1]
          BY <1>1, <2>1
    <3> QED
        BY <1>1, <3>1 DEF Elements
  <2> HIDE DEF order
  <2>5. /\ IsFiniteSet(set.ways \ {Head(order)})
        /\ Cardinality(set.ways \ {Head(order)}) = Cardinality(set.ways) - 1
        BY <1>2, <2>4, FS_RemoveElement
  <2>6. Cardinality((set.ways \ {Head(order)}) \cup {tag}) <= Cardinality(set.ways)
    <3> DEFINE X == set.ways \ {Head(order)}
    <3>1. Cardinality(X) \in Nat /\ Cardinality(set.ways) \in Nat
          BY <1>2, <2>5, FS_CardinalityType, Zenon
    <3>2. Cardinality(X \cup {tag})
            = IF tag \in X THEN Cardinality(X) ELSE Cardinality(X) + 1
          BY <2>5, FS_AddElement, Zenon
    <3> HIDE DEF X
    <3>3. Cardinality(X \cup {tag}) <= Cardinality(X) + 1
          BY <3>1, <3>2
    <3> QED
        BY <2>5, <3>1, <3>3 DEF X
  <2>7. /\ Kept(set).replacement_order = Tail(order)
        /\ Kept(set).ways = set.ways \ {Head(order)}
        BY <2>3
  <2>8. Cardinality(set.ways \ {Head(order)}) <= Ways
    <3>1. Cardinality(set.ways) \in Nat
          BY <1>2, FS_CardinalityType, Zenon
    <3> QED
        BY <1>1, <2>5, <3>1
  <2>9. Ordered(Kept(set))
        BY <2>2, <2>7, <2>8, Zenon DEF Ordered
  <2>10. Cardinality(Kept(set).ways \cup {tag}) <= Ways
    <3>1. Cardinality(set.ways) = Len(order)
          BY <1>2
    <3>2. Cardinality(set.ways) <= Ways /\ Cardinality(set.ways) \in Nat
          BY <1>1, <1>2
    <3> DEFINE c == Cardinality((set.ways \ {Head(order)}) \cup {tag})
    <3>3. c \in Nat
          BY <2>5, FS_AddElement, FS_CardinalityType, Zenon
    <3>4. c = Cardinality(Kept(set).ways \cup {tag})
          BY <2>7, Zenon
    <3>5. c <= Cardinality(set.ways)
          BY <2>6
    <3> HIDE DEF c
    <3>6. c <= Ways
          BY <1>1, <3>2, <3>3, <3>5
    <3> QED
        BY <3>4, <3>6
  <2>11. Kept(set).ways \subseteq set.ways
        BY <2>7
  <2> QED
      BY <2>9, <2>10, <2>11
<1>4. CASE ~ (Len(order) >= Ways)
  <2>1. Kept(set) = set
        BY <1>4 DEF Kept
  <2> HIDE DEF order
  <2>2. Cardinality(set.ways \cup {tag})
          = IF tag \in set.ways THEN Cardinality(set.ways) ELSE Cardinality(set.ways) + 1
        BY <1>2, FS_AddElement, Zenon
  <2> DEFINE c == Cardinality(set.ways \cup {tag})
  <2>3. c = Len(order) \/ c = Len(order) + 1
        BY <1>2, <2>2, Zenon
  <2> HIDE DEF c
  <2>4. c <= Ways
        BY <1>1, <1>4, <2>3
  <2> QED
      BY <1>1, <2>1, <2>4 DEF c, Ordered
<1> QED
    BY <1>3, <1>4

(* To touch a tag is to erase all its duplicates.                          *)
LEMMA TouchedOrdered ==
  ASSUME NEW set \in CacheIndex, NEW tag \in set.ways,
         Elements(set.replacement_order) = set.ways, Cardinality(set.ways) <= Ways,
         \A m, n \in DOMAIN set.replacement_order :
           set.replacement_order[m] = set.replacement_order[n] /\ set.replacement_order[m] # tag
             => m = n
  PROVE  Ordered(Touched(set, tag))
<1> DEFINE order == set.replacement_order
           rest == Without(order, tag)
<1>1. order \in Seq(Tags) /\ tag \in Tags
      BY DEF CacheIndex
<1>2. rest \in Seq(Tags) /\ Elements(rest) = set.ways \ {tag} /\ Distinct(rest)
      BY <1>1, WithoutProperties
<1> HIDE DEF rest
<1>3. /\ Elements(Append(rest, tag)) = Elements(rest) \cup {tag}
      /\ Distinct(rest) /\ tag \notin Elements(rest) => Distinct(Append(rest, tag))
      BY <1>1, <1>2, AppendElements, Zenon
<1>4. tag \notin Elements(rest) /\ Elements(rest) \cup {tag} = set.ways
      BY <1>2
<1>5. /\ Touched(set, tag).replacement_order = Append(rest, tag)
      /\ Touched(set, tag).ways = set.ways
      BY DEF Touched, rest
<1> QED
    BY <1>2, <1>3, <1>4, <1>5, Zenon DEF Ordered

LEMMA FilledElements ==
  ASSUME NEW set \in CacheIndex, NEW tag \in Tags, Ordered(set)
  PROVE  /\ Elements(Filled(set, tag).replacement_order) = Filled(set, tag).ways
         /\ tag \in Filled(set, tag).ways
         /\ Cardinality(Filled(set, tag).ways) <= Ways
         /\ tag \notin set.ways => Ordered(Filled(set, tag))
         /\ Ordered(Touched(Filled(set, tag), tag))
<1> DEFINE kept == Kept(set)
           order == kept.replacement_order
           new == Append(order, tag)
           filled == Filled(set, tag)
<1>1. /\ order \in Seq(Tags) /\ Elements(order) = kept.ways /\ Distinct(order)
      /\ Cardinality(kept.ways \cup {tag}) <= Ways /\ kept.ways \subseteq set.ways
      BY KeptType, KeptOrdered DEF CacheIndex, Ordered
<1>2. filled.replacement_order = new /\ filled.ways = kept.ways \cup {tag} /\ filled \in CacheIndex
      BY FilledType DEF Filled
<1> HIDE DEF kept, filled
<1>3. /\ Elements(new) = kept.ways \cup {tag}
      /\ tag \notin kept.ways => Distinct(new)
      BY <1>1, AppendElements
<1>4. tag \notin set.ways => Ordered(filled)
      BY <1>1, <1>2, <1>3 DEF Ordered
<1>5. \A m, n \in DOMAIN new : new[m] = new[n] /\ new[m] # tag => m = n
  <2>1. /\ Len(order) \in Nat /\ DOMAIN order = 1 .. Len(order) /\ DOMAIN new = 1 .. Len(order) + 1
        /\ new[Len(order) + 1] = tag /\ \A n \in 1 .. Len(order) : new[n] = order[n]
        BY <1>1, AppendProperties
  <2> HIDE DEF order, new
  <2>2. \A n \in 1 .. Len(order) + 1 : n \in 1 .. Len(order) \/ n = Len(order) + 1
        BY <2>1
  <2> QED
      BY <1>1, <2>1, <2>2 DEF Distinct
<1> HIDE DEF new
<1>6. Ordered(Touched(filled, tag))
  <2>1. tag \in filled.ways /\ Elements(filled.replacement_order) = filled.ways
        /\ Cardinality(filled.ways) <= Ways
        BY <1>1, <1>2, <1>3
  <2> QED
      BY <1>2, <1>5, <2>1, TouchedOrdered
<1> QED
    BY <1>1, <1>2, <1>3, <1>4, <1>6 DEF filled

AllOrdered(store) == \A idx \in SetIndices : Ordered(store[idx])

LEMMA EmptyOrdered == AllOrdered(EmptyStore)
<1>1. Elements(<<>>) = {} /\ Distinct(<<>>) /\ Cardinality({}) <= Ways
      BY FS_EmptySet, TagStoreAssumption DEF Elements, Distinct
<1> QED
    BY <1>1 DEF AllOrdered, Ordered, EmptyStore

LEMMA ReadOrdered ==
  ASSUME NEW store \in Stores, AllOrdered(store), NEW line \in Nat
  PROVE  AllOrdered(read(store, line))
<1> DEFINE idx == get_set_idx(line)
           tag == get_tag(line)
<1>1. idx \in SetIndices /\ tag \in Tags /\ store[idx] \in CacheIndex /\ Ordered(store[idx])
      BY IndexType DEF Stores, AllOrdered
<1>2. CASE can_read(store, line)
  <2>1. tag \in store[idx].ways
        BY <1>2 DEF can_read
  <2>2. read(store, line) = [store EXCEPT ![idx] = Touched(store[idx], tag)]
        BY <1>2, ReadSets
  <2> HIDE DEF idx, tag
  <2>3. Ordered(Touched(store[idx], tag))
        BY <1>1, <2>1, TouchedOrdered DEF Ordered, Distinct
  <2> QED
      BY <1>1, <2>2, <2>3 DEF Stores, AllOrdered
<1>3. CASE ~ can_read(store, line)
      BY <1>3, ReadSets
<1> QED
    BY <1>2, <1>3

(* A line that is filled and touched at once, as the L1i does it, may be   *)
(* there already.                                                          *)
LEMMA FillReadOrdered ==
  ASSUME NEW store \in Stores, AllOrdered(store), NEW line \in Nat
  PROVE  AllOrdered(read(fill(store, line), line))
<1> DEFINE idx == get_set_idx(line)
           tag == get_tag(line)
           new == fill(store, line)
<1>1. idx \in SetIndices /\ tag \in Tags /\ store[idx] \in CacheIndex /\ Ordered(store[idx])
      BY IndexType DEF Stores, AllOrdered
<1>2. new \in Stores /\ new = [store EXCEPT ![idx] = Filled(store[idx], tag)]
      BY FillSets
<1> HIDE DEF new
<1>3. can_read(new, line)
  <2> HIDE DEF idx, tag
  <2>1. tag \in new[idx].ways
        BY <1>1, <1>2, FilledElements DEF Stores
  <2> QED
      BY <2>1 DEF can_read, idx, tag
<1>4. read(new, line) = [new EXCEPT ![idx] = Touched(new[idx], tag)]
      BY <1>2, <1>3, ReadSets
<1> HIDE DEF idx, tag
<1>5. Ordered(Touched(Filled(store[idx], tag), tag))
      BY <1>1, FilledElements
<1> QED
    BY <1>1, <1>2, <1>4, <1>5 DEF Stores, AllOrdered, new

(* A line that is not there may be filled without being touched.           *)
LEMMA FillOrdered ==
  ASSUME NEW store \in Stores, AllOrdered(store), NEW line \in Nat, ~ can_read(store, line)
  PROVE  AllOrdered(fill(store, line))
<1> DEFINE idx == get_set_idx(line)
           tag == get_tag(line)
<1>1. idx \in SetIndices /\ tag \in Tags /\ store[idx] \in CacheIndex /\ Ordered(store[idx])
      BY IndexType DEF Stores, AllOrdered
<1>2. fill(store, line) = [store EXCEPT ![idx] = Filled(store[idx], tag)]
      BY FillSets
<1>3. tag \notin store[idx].ways
      BY DEF can_read
<1> HIDE DEF idx, tag
<1>4. Ordered(Filled(store[idx], tag))
      BY <1>1, <1>3, FilledElements
<1> QED
    BY <1>1, <1>2, <1>4 DEF Stores, AllOrdered

-----------------------------------------------------------------------------
(* Division by n, as the shifts and masks of Cache.cpp do it.              *)
LEMMA DivisionParts ==
  ASSUME NEW a \in Nat, NEW n \in Nat \ {0}
  PROVE  /\ a \div n \in Nat /\ a % n \in 0 .. n - 1
         /\ a = n * (a \div n) + (a % n)
OBVIOUS

(* A quotient and a remainder are what they are multiplied back to.        *)
LEMMA QuotientUnique ==
  ASSUME NEW n \in Nat \ {0}, NEW q \in Nat, NEW r \in 0 .. n - 1
  PROVE  (n * q + r) \div n = q /\ (n * q + r) % n = r
OBVIOUS

(* Division is monotone, and one divisor more is one quotient more.        *)
LEMMA QuotientGrows ==
  ASSUME NEW a \in Nat, NEW b \in Nat, NEW n \in Nat \ {0}, NEW k \in {0, 1}, a + k * n <= b
  PROVE  a \div n + k <= b \div n
<1> DEFINE x == a \div n
           y == b \div n
<1>1. x \in Nat /\ a = n * x + (a % n) /\ a % n \in 0 .. n - 1
      BY DivisionParts
<1>2. y \in Nat /\ b = n * y + (b % n) /\ b % n \in 0 .. n - 1
      BY DivisionParts
<1> HIDE DEF x, y
<1>3. SUFFICES ASSUME y + 1 <= x + k PROVE FALSE
      BY <1>1, <1>2 DEF x, y
<1>4. n * (y + 1) <= n * (x + k)
      BY <1>1, <1>2, <1>3
<1>5. n * (y + 1) = n * y + n /\ n * (x + k) = n * x + k * n
      BY <1>1, <1>2
<1> DEFINE p == n * x
           q == n * y
           r == k * n
<1>6. p \in Nat /\ q \in Nat /\ r \in Nat
      BY <1>1, <1>2
<1> HIDE DEF p, q, r
<1> QED
    BY <1>1, <1>2, <1>4, <1>5, <1>6 DEF p, q, r

-----------------------------------------------------------------------------
(* Powers of two, of which the provers know nothing: the library's theorem *)
(* about the number of a set's subsets tells what they are.                *)
LEMMA SubsetsCounted ==
  ASSUME NEW n \in Nat
  PROVE  IsFiniteSet(SUBSET (1 .. n)) /\ Cardinality(SUBSET (1 .. n)) = 2^n
<1>1. 1 \in Int /\ n \in Int
      OBVIOUS
<1>2. IsFiniteSet(1 .. n) /\ Cardinality(1 .. n) = IF 1 > n THEN 0 ELSE n - 1 + 1
      BY <1>1, FS_Interval
<1>3. IsFiniteSet(1 .. n) /\ Cardinality(1 .. n) = n
      BY <1>2
<1> QED
    BY <1>3, FS_SUBSET, Zenon

LEMMA PowerPositive ==
  ASSUME NEW n \in Nat
  PROVE  2^n \in Nat \ {0}
<1>2. IsFiniteSet(SUBSET (1 .. n)) /\ Cardinality(SUBSET (1 .. n)) = 2^n
      BY SubsetsCounted
<1>3. SUBSET (1 .. n) # {}
      OBVIOUS
<1>4. Cardinality(SUBSET (1 .. n)) \in Nat /\ Cardinality(SUBSET (1 .. n)) # 0
      BY <1>2, <1>3, FS_CardinalityType, FS_EmptySet, Zenon
<1> QED
    BY <1>2, <1>4

LEMMA PowerDoubles ==
  ASSUME NEW n \in Nat
  PROVE  2^(n + 1) = 2 * 2^n
<1> DEFINE A == SUBSET (1 .. n)
           B == {a \cup {n + 1} : a \in A}
<1>2. 1 .. n + 1 = (1 .. n) \cup {n + 1} /\ n + 1 \notin 1 .. n /\ n + 1 \in Nat
      OBVIOUS
<1>3. SUBSET (1 .. n + 1) = A \cup B
  <2>1. ASSUME NEW c \in SUBSET (1 .. n + 1) PROVE c \in A \cup B
    <3>1. CASE n + 1 \in c
      <4>1. c \ {n + 1} \in A /\ c = (c \ {n + 1}) \cup {n + 1}
            BY <1>2, <3>1
      <4> QED
          BY <4>1, Zenon
    <3>2. CASE n + 1 \notin c
      <4>1. c \in A
            BY <1>2, <3>2
      <4> QED
          BY <4>1
    <3> QED
        BY <3>1, <3>2
  <2>2. A \subseteq SUBSET (1 .. n + 1)
        BY <1>2
  <2>3. B \subseteq SUBSET (1 .. n + 1)
        BY <1>2
  <2> HIDE DEF A, B
  <2> QED
      BY <2>1, <2>2, <2>3
<1>4. A \cap B = {}
      BY <1>2
<1>5. ExistsBijection(A, B)
  <2> DEFINE f == [a \in A |-> a \cup {n + 1}]
  <2>1. f \in [A -> B]
        BY Zenon
  <2>2. ASSUME NEW a \in A, NEW b \in A, f[a] = f[b] PROVE a = b
    <3>1. a \cup {n + 1} = b \cup {n + 1}
          BY <2>2, Zenon
    <3>2. n + 1 \notin a /\ n + 1 \notin b
          BY <1>2
    <3> QED
        BY <3>1, <3>2
  <2>3. \A b \in B : \E a \in A : f[a] = b
        BY Zenon
  <2> HIDE DEF f, A, B
  <2>4. f \in Bijection(A, B)
        BY <2>1, <2>2, <2>3, Zenon DEF Bijection, Injection, Surjection, IsInjective
  <2> QED
      BY <2>4, Zenon DEF ExistsBijection
<1>6. IsFiniteSet(A) /\ Cardinality(A) = 2^n
      BY SubsetsCounted
<1>7. Cardinality(SUBSET (1 .. n + 1)) = 2^(n + 1)
      BY <1>2, SubsetsCounted
<1> HIDE DEF A, B
<1>8. IsFiniteSet(B) /\ Cardinality(B) = 2^n
      BY <1>5, <1>6, FS_Bijection, Zenon
<1>9. Cardinality(A \cup B) = Cardinality(A) + Cardinality(B) - Cardinality(A \cap B)
      BY <1>6, <1>8, FS_Union, Zenon
<1>10. Cardinality(A \cap B) = 0
      BY <1>4, FS_EmptySet, Zenon
<1>11. 2^(n + 1) = 2^n + 2^n - 0
      BY <1>3, <1>6, <1>7, <1>8, <1>9, <1>10, Zenon
<1>12. 2^n \in Int
      BY PowerPositive
<1> DEFINE x == 2^n
           y == 2^(n + 1)
<1>13. x \in Int /\ y = x + x - 0
      BY <1>11, <1>12
<1> HIDE DEF x, y
<1>14. y = 2 * x
      BY <1>13
<1> QED
    BY <1>14 DEF x, y

-----------------------------------------------------------------------------
(* The bits of a number.                                                   *)

Bit(x, k) == (x \div 2^k) % 2

(* Shifting a bit in at the bottom moves the others up.                    *)
LEMMA BitsOfShift ==
  ASSUME NEW x \in Nat, NEW a \in {0, 1}
  PROVE  /\ Bit(2 * x + a, 0) = a
         /\ \A k \in Nat : Bit(2 * x + a, k + 1) = Bit(x, k)
<1>1. 2^0 = 1
      OBVIOUS
<1>2. (2 * x + a) \div 1 = 2 * x + a /\ (2 * x + a) % 2 = a
      OBVIOUS
<1>3. Bit(2 * x + a, 0) = a
      BY <1>1, <1>2 DEF Bit
<1>4. ASSUME NEW k \in Nat
      PROVE  Bit(2 * x + a, k + 1) = Bit(x, k)
  <2> DEFINE p == 2^k
             q == x \div p
             r == x % p
             b == 2 * r + a
  <2>1. p \in Nat \ {0} /\ 2^(k + 1) = 2 * p
        BY PowerPositive, PowerDoubles
  <2> HIDE DEF p
  <2>2. q \in Nat /\ r \in 0 .. p - 1 /\ x = p * q + r
        BY <2>1, DivisionParts
  <2> HIDE DEF q, r
  <2>3. b \in 0 .. 2 * p - 1 /\ 2 * p \in Nat \ {0}
        BY <2>1, <2>2
  <2>4. 2 * x + a = (2 * p) * q + b
    <3>1. (2 * p) * q = 2 * (p * q) /\ p * q \in Nat
          BY <2>1, <2>2
    <3> QED
        BY <2>1, <2>2, <3>1
  <2> HIDE DEF b
  <2>5. (2 * x + a) \div (2 * p) = q
        BY <2>2, <2>3, <2>4, QuotientUnique
  <2> QED
      BY <2>1, <2>5 DEF Bit, q, p
<1> QED
    BY <1>3, <1>4

(* Exponents add.                                                          *)
LEMMA PowersMultiply ==
  ASSUME NEW m \in Nat, NEW d \in Nat
  PROVE  2^(m + d) = 2^m * 2^d
<1> DEFINE A == {j \in Nat : 2^(m + j) = 2^m * 2^j}
           p == 2^m
<1>1. p \in Nat
      BY PowerPositive
<1>2. 0 \in A
  <2>1. m + 0 = m /\ 2^0 = 1
        OBVIOUS
  <2>2. p = p * 1
        BY <1>1
  <2> HIDE DEF p
  <2> QED
      BY <2>1, <2>2 DEF p
<1>3. ASSUME NEW j \in Nat, j \in A
      PROVE  j + 1 \in A
  <2> DEFINE q == 2^j
             r == 2^(m + j)
  <2>1. r = p * q /\ q \in Nat
        BY <1>3, PowerPositive
  <2>2. m + (j + 1) = (m + j) + 1 /\ m + j \in Nat /\ j + 1 \in Nat
        OBVIOUS
  <2>3. 2^(m + (j + 1)) = 2 * r /\ 2^(j + 1) = 2 * q
        BY <2>2, PowerDoubles
  <2> HIDE DEF p, q, r
  <2>4. 2 * r = p * (2 * q)
        BY <1>1, <2>1
  <2>5. 2^(m + (j + 1)) = p * 2^(j + 1)
        BY <2>3, <2>4, Zenon
  <2> QED
      BY <2>2, <2>5, Zenon DEF p
<1> HIDE DEF A
<1>4. d \in A
      BY <1>2, <1>3, NatSetInduction
<1> QED
    BY <1>4 DEF A

(* Cutting a number to its lowest bits leaves those.                       *)
LEMMA BitsOfRemainder ==
  ASSUME NEW x \in Nat, NEW n \in Nat, NEW m \in 0 .. n - 1
  PROVE  Bit(x % 2^n, m) = Bit(x, m)
<1> DEFINE p == 2^m
           w == 2^n
           q == x \div w
           r == x % w
           u == r \div p
           v == r % p
<1>1. p \in Nat \ {0} /\ w \in Nat \ {0}
      BY PowerPositive
<1>2. PICK t \in Nat : w = (2 * p) * t
  <2> DEFINE k == m + 1
             d == n - k
  <2>1. k \in Nat /\ d \in Nat /\ k + d = n
        OBVIOUS
  <2>2. 2^k = 2 * p
        BY PowerDoubles
  <2> HIDE DEF k, d
  <2>3. 2^(k + d) = 2^k * 2^d /\ 2^d \in Nat
        BY <2>1, PowersMultiply, PowerPositive
  <2> QED
      BY <2>1, <2>2, <2>3
<1> HIDE DEF p, w
<1>3. q \in Nat /\ r \in Nat /\ x = w * q + r
      BY <1>1, DivisionParts
<1> HIDE DEF q, r
<1>4. u \in Nat /\ v \in 0 .. p - 1 /\ r = p * u + v
      BY <1>1, <1>3, DivisionParts
<1> HIDE DEF u, v
<1> DEFINE s == t * q
<1>5. s \in Nat /\ w * q = (2 * p) * s
      BY <1>1, <1>2, <1>3
<1> HIDE DEF s
<1>6. x = p * (2 * s + u) + v
  <2>1. p * (2 * s + u) = (2 * p) * s + p * u
        BY <1>1, <1>4, <1>5
  <2> QED
      BY <1>1, <1>3, <1>4, <1>5, <2>1
<1>7. x \div p = 2 * s + u
  <2>1. 2 * s + u \in Nat
        BY <1>4, <1>5
  <2> QED
      BY <1>1, <1>4, <1>6, <2>1, QuotientUnique
<1>8. (2 * s + u) % 2 = u % 2
      BY <1>4, <1>5
<1> QED
    BY <1>7, <1>8 DEF Bit, u, r, p, w

(* A number of n bits is made of those bits, and any n bits make one.      *)
LEMMA BitsDetermine ==
  ASSUME NEW n \in Nat, NEW e \in 0 .. 2^n - 1, NEW f \in 0 .. 2^n - 1,
         \A m \in 0 .. n - 1 : Bit(e, m) = Bit(f, m)
  PROVE  e = f
<1> DEFINE Same(k, x, y) == \A m \in 0 .. k - 1 : Bit(x, m) = Bit(y, m)
           A == {k \in Nat : \A x, y \in 0 .. 2^k - 1 : Same(k, x, y) => x = y}
<1>1. 0 \in A
  <2>1. 2^0 = 1
        OBVIOUS
  <2> QED
      BY <2>1
<1>2. ASSUME NEW k \in Nat, k \in A
      PROVE  k + 1 \in A
  <2>1. ASSUME NEW x \in 0 .. 2^(k + 1) - 1, NEW y \in 0 .. 2^(k + 1) - 1, Same(k + 1, x, y)
        PROVE  x = y
    <3> DEFINE x0 == x \div 2
               y0 == y \div 2
               a == x % 2
               b == y % 2
               p == 2^k
    <3>0. p \in Nat \ {0} /\ 2^(k + 1) = 2 * p
          BY PowerPositive, PowerDoubles
    <3> HIDE DEF p
    <3>1. /\ x \in Nat /\ x0 \in 0 .. p - 1 /\ a \in {0, 1} /\ x = 2 * x0 + a
          /\ y \in Nat /\ y0 \in 0 .. p - 1 /\ b \in {0, 1} /\ y = 2 * y0 + b
          BY <3>0
    <3> HIDE DEF x0, y0, a, b
    <3>2. x0 \in Nat /\ y0 \in Nat
          BY <3>0, <3>1
    <3>3. a = b
      <4>1. Bit(x, 0) = a /\ Bit(y, 0) = b
            BY <3>1, <3>2, BitsOfShift
      <4> QED
          BY <2>1, <4>1
    <3>4. Same(k, x0, y0)
      <4>1. ASSUME NEW m \in 0 .. k - 1
            PROVE  Bit(x0, m) = Bit(y0, m)
        <5>1. m \in Nat /\ m + 1 \in 0 .. (k + 1) - 1
              OBVIOUS
        <5>2. Bit(x, m + 1) = Bit(x0, m) /\ Bit(y, m + 1) = Bit(y0, m)
              BY <3>1, <3>2, <5>1, BitsOfShift
        <5> QED
            BY <2>1, <5>1, <5>2
      <4> QED
          BY <4>1
    <3>5. x0 = y0
          BY <1>2, <3>1, <3>4 DEF p
    <3> QED
        BY <3>1, <3>3, <3>5
  <2> QED
      BY <2>1
<1> HIDE DEF A
<1>3. n \in A
      BY <1>1, <1>2, NatSetInduction
<1> QED
    BY <1>3 DEF A

LEMMA BitsExist ==
  ASSUME NEW n \in Nat, NEW f \in [0 .. n - 1 -> {0, 1}]
  PROVE  \E e \in 0 .. 2^n - 1 : \A m \in 0 .. n - 1 : Bit(e, m) = f[m]
<1> DEFINE Made(k, g) == \E e \in 0 .. 2^k - 1 : \A m \in 0 .. k - 1 : Bit(e, m) = g[m]
           A == {k \in Nat : \A g \in [0 .. k - 1 -> {0, 1}] : Made(k, g)}
<1>1. 0 \in A
  <2>1. 2^0 = 1 /\ 0 \in 0 .. 1 - 1 /\ 0 .. 0 - 1 = {}
        OBVIOUS
  <2> QED
      BY <2>1
<1>2. ASSUME NEW k \in Nat, k \in A
      PROVE  k + 1 \in A
  <2>1. ASSUME NEW g \in [0 .. (k + 1) - 1 -> {0, 1}]
        PROVE  Made(k + 1, g)
    <3> DEFINE h == [m \in 0 .. k - 1 |-> g[m + 1]]
               p == 2^k
    <3>1. h \in [0 .. k - 1 -> {0, 1}] /\ g[0] \in {0, 1}
          OBVIOUS
    <3>2. Made(k, h)
          BY <1>2, <3>1
    <3>3. PICK e \in 0 .. p - 1 : \A m \in 0 .. k - 1 : Bit(e, m) = h[m]
          BY <3>2
    <3>4. p \in Nat \ {0} /\ 2^(k + 1) = 2 * p
          BY PowerPositive, PowerDoubles
    <3> HIDE DEF p
    <3>5. e \in Nat /\ 2 * e + g[0] \in 0 .. 2 * p - 1
          BY <3>1, <3>4
    <3>6. ASSUME NEW m \in 0 .. (k + 1) - 1
          PROVE  Bit(2 * e + g[0], m) = g[m]
      <4>1. CASE m = 0
            BY <3>1, <3>5, <4>1, BitsOfShift
      <4>2. CASE m # 0
        <5>1. m - 1 \in 0 .. k - 1 /\ m - 1 \in Nat /\ (m - 1) + 1 = m
              BY <4>2
        <5>2. Bit(2 * e + g[0], (m - 1) + 1) = Bit(e, m - 1)
              BY <3>1, <3>5, <5>1, BitsOfShift
        <5>3. Bit(e, m - 1) = h[m - 1] /\ h[m - 1] = g[(m - 1) + 1]
              BY <3>3, <5>1
        <5> QED
            BY <5>1, <5>2, <5>3
      <4> QED
          BY <4>1, <4>2
    <3> QED
        BY <3>4, <3>5, <3>6
  <2> QED
      BY <2>1
<1> HIDE DEF A
<1>3. n \in A
      BY <1>1, <1>2, NatSetInduction
<1> QED
    BY <1>3 DEF A
=============================================================================
