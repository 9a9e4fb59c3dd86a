--------------------------- MODULE JsonValuesProofs ---------------------------
(***************************************************************************)
(* Facts about natural numbers, paths and JSON values, for values of any   *)
(* size.                                                                   *)
(***************************************************************************)
EXTENDS JsonValues, SequenceTheorems, WellFoundedInduction, TLAPS

\* Induction is by least counterexample.
LEMMA LeastNatural ==
  ASSUME NEW S \in SUBSET Nat, S # {}
  PROVE  \E n \in S : \A m \in S : n <= m
<1> DEFINE R == OpToRel(<, Nat)
<1>1. IsWellFoundedOn(R, Nat)
  BY NatLessThanWellFounded
<1>2. \A x, y \in Nat : <<x, y>> \in R <=> x < y
  BY DEF OpToRel
<1> HIDE DEF R
<1>3. PICK n \in S : \A m \in S : ~(<<m, n>> \in R)
  BY <1>1, WFMin
<1>4. ASSUME NEW m \in S PROVE n <= m
  <2>1. m \in Nat /\ n \in Nat
    OBVIOUS
  <2>2. ~(m < n)
    BY <1>2, <1>3, <2>1
  <2> QED BY <2>1, <2>2
<1> QED BY <1>4

\* A function can be defined by what it is at 0 and by how each value follows from
\* the one before.
Unrolls(f, a, step) == f[0] = a /\ \A i \in Nat : f[i + 1] = step[f[i]]

LEMMA Iterates ==
  ASSUME NEW S, NEW a \in S, NEW step \in [S -> S]
  PROVE  \E f \in [Nat -> S] : Unrolls(f, a, step)
<1> DEFINE Upto(n, f) == f[0] = a /\ \A i \in 0 .. n - 1 : f[i + 1] = step[f[i]]
           Defined(n) == \E f \in [Nat -> S] : Upto(n, f)
<1>1. Defined(0)
  <2>1. [i \in Nat |-> a] \in [Nat -> S] /\ Upto(0, [i \in Nat |-> a])
    OBVIOUS
  <2> QED BY <2>1
<1>2. ASSUME NEW n \in Nat, Defined(n) PROVE Defined(n + 1)
  <2>1. PICK f \in [Nat -> S] : Upto(n, f)
    BY <1>2
  <2> DEFINE g == [i \in Nat |-> IF i = n + 1 THEN step[f[n]] ELSE f[i]]
  <2>2. g \in [Nat -> S]
    BY <2>1
  <2>3. /\ g[0] = f[0] /\ \A i \in 0 .. n : g[i] = f[i]
        /\ g[n + 1] = step[f[n]]
    OBVIOUS
  <2> HIDE DEF g
  <2>4. \A i \in 0 .. n : g[i + 1] = step[g[i]]
    <3> SUFFICES ASSUME NEW i \in 0 .. n PROVE g[i + 1] = step[g[i]]
      OBVIOUS
    <3>1. CASE i = n
      BY <2>3, <3>1
    <3>2. CASE i # n
      <4>1. i \in 0 .. n - 1 /\ i + 1 \in 0 .. n
        BY <3>2
      <4> QED BY <2>1, <2>3, <4>1
    <3> QED BY <3>1, <3>2
  <2>5. Upto(n + 1, g)
    BY <2>1, <2>3, <2>4
  <2> QED BY <2>2, <2>5
<1>3. ASSUME NEW n \in Nat PROVE Defined(n)
  <2> DEFINE Bad == {m \in Nat : ~Defined(m)}
  <2> HIDE DEF Defined
  <2>1. CASE Bad # {}
    <3>1. PICK m \in Bad : \A k \in Bad : m <= k
      BY <2>1, LeastNatural
    <3>2. m # 0
      BY <1>1
    <3>3. m - 1 \in Nat /\ m - 1 < m /\ m = (m - 1) + 1
      BY <3>2
    <3>4. Defined(m - 1)
      BY <3>1, <3>3
    <3>5. Defined((m - 1) + 1)
      BY <1>2, <3>3, <3>4
    <3> QED BY <3>1, <3>3, <3>5
  <2> QED BY <2>1
\* Two that go so far agree.
<1>4. ASSUME NEW n \in Nat, NEW f, NEW g, Upto(n, f), Upto(n, g)
      PROVE  \A i \in 0 .. n : f[i] = g[i]
  <2> DEFINE Bad == {i \in Nat : i <= n /\ f[i] # g[i]}
  <2>1. CASE Bad # {}
    <3>1. PICK m \in Bad : \A k \in Bad : m <= k
      <4>1. Bad \in SUBSET Nat
        OBVIOUS
      <4> HIDE DEF Bad
      <4> QED BY <2>1, <4>1, LeastNatural
    <3>2. m # 0
      BY <1>4
    <3>3. m - 1 \in 0 .. n - 1 /\ m - 1 < m /\ m = (m - 1) + 1 /\ m - 1 \notin Bad
      BY <3>1, <3>2
    <3>4. f[m - 1] = g[m - 1]
      BY <3>3
    <3>5. f[(m - 1) + 1] = step[f[m - 1]] /\ g[(m - 1) + 1] = step[g[m - 1]]
      BY <1>4, <3>3
    <3> QED BY <3>1, <3>3, <3>4, <3>5
  <2> QED BY <2>1
<1> DEFINE Chosen(n) == CHOOSE f \in [Nat -> S] : Upto(n, f)
           h == [n \in Nat |-> Chosen(n)[n]]
<1>5. ASSUME NEW n \in Nat PROVE Chosen(n) \in [Nat -> S] /\ Upto(n, Chosen(n))
  BY <1>3
<1> HIDE DEF Chosen
<1>6. h \in [Nat -> S]
  BY <1>5
<1>7. h[0] = a
  BY <1>5
<1>8. ASSUME NEW i \in Nat PROVE h[i + 1] = step[h[i]]
  <2>1. Upto(i, Chosen(i)) /\ Upto(i + 1, Chosen(i + 1))
    BY <1>5
  <2>2. Upto(i, Chosen(i + 1))
    BY <2>1
  <2>3. Chosen(i + 1)[i] = Chosen(i)[i]
    BY <1>4, <2>1, <2>2
  <2>4. Chosen(i + 1)[i + 1] = step[Chosen(i + 1)[i]]
    BY <2>1
  <2> QED BY <2>3, <2>4
<1> HIDE DEF h
<1> QED BY <1>6, <1>7, <1>8 DEF Unrolls

------------------------------------------------------------------------------
(* Paths *)

LEMMA PrefixByIndex ==
  ASSUME NEW p \in Paths, NEW q \in Paths
  PROVE  IsPrefix(p, q) <=> Len(p) <= Len(q) /\ \A i \in 1 .. Len(p) : p[i] = q[i]
<1>0. Len(p) \in Nat /\ Len(q) \in Nat /\ p \in Seq(Keys) /\ q \in Seq(Keys)
  BY DEF Paths
<1>1. SubSeq(p, 1, Len(p)) = p
  BY <1>0, SubSeqFull
<1>2. CASE Len(p) <= Len(q)
  <2>1. /\ SubSeq(q, 1, Len(p)) \in Seq(Keys)
        /\ Len(SubSeq(q, 1, Len(p))) = Len(p)
        /\ \A i \in 1 .. Len(p) : SubSeq(q, 1, Len(p))[i] = q[i]
    BY <1>0, <1>2, SubSeqProperties
  <2> DEFINE f == SubSeq(q, 1, Len(p))
  <2> HIDE DEF f
  <2>2. f \in Seq(Keys) /\ Len(f) = Len(p) /\ \A i \in 1 .. Len(p) : f[i] = q[i]
    BY <2>1 DEF f
  <2>3. p = f <=> \A i \in 1 .. Len(p) : p[i] = f[i]
    BY <1>0, <2>2, SeqEqual
  <2>4. IsPrefix(p, q) <=> p = f
    BY <1>1, <1>2 DEF IsPrefix, f
  <2> QED BY <2>2, <2>3, <2>4, <1>2
<1>3. CASE ~(Len(p) <= Len(q))
  BY <1>3 DEF IsPrefix
<1> QED BY <1>2, <1>3

LEMMA SamePath ==
  ASSUME NEW p \in Paths, NEW q \in Paths, Len(p) = Len(q), \A i \in 1 .. Len(p) : p[i] = q[i]
  PROVE  p = q
BY SeqEqual DEF Paths

LEMMA RootIsFirst ==
  ASSUME NEW p \in Paths, IsPrefix(p, <<>>)
  PROVE  p = <<>>
<1> DEFINE e == <<>>
<1>1. e \in Paths /\ Len(e) = 0 /\ IsPrefix(p, e) /\ Len(p) \in Nat
  BY DEF Paths
<1> HIDE DEF e
<1>2. Len(p) <= Len(e)
  BY <1>1, PrefixByIndex
<1>3. p = e
  BY <1>1, <1>2, SamePath
<1> QED BY <1>3 DEF e

LEMMA PrefixTransitive ==
  ASSUME NEW p \in Paths, NEW q \in Paths, NEW r \in Paths, IsPrefix(p, q), IsPrefix(q, r)
  PROVE  IsPrefix(p, r)
<1> Len(p) \in Nat /\ Len(q) \in Nat /\ Len(r) \in Nat
  BY DEF Paths
<1> QED BY PrefixByIndex

LEMMA StrictPrefix ==
  ASSUME NEW p \in Paths, NEW q \in Paths
  PROVE  /\ IsPrefix(p, p)
         /\ IsStrictPrefix(p, q) <=> IsPrefix(p, q) /\ Len(p) < Len(q)
         /\ IsPrefix(p, q) <=> p = q \/ IsStrictPrefix(p, q)
<1> Len(p) \in Nat /\ Len(q) \in Nat
  BY DEF Paths
<1>1. IsPrefix(p, p)
  BY PrefixByIndex
<1>2. IsPrefix(p, q) /\ Len(p) = Len(q) => p = q
  BY PrefixByIndex, SamePath
<1>3. IsPrefix(p, q) => Len(p) <= Len(q)
  BY PrefixByIndex
<1> QED BY <1>1, <1>2, <1>3 DEF IsStrictPrefix

LEMMA StrictTransitive ==
  ASSUME NEW p \in Paths, NEW q \in Paths, NEW r \in Paths,
         IsStrictPrefix(p, q), IsStrictPrefix(q, r)
  PROVE  IsStrictPrefix(p, r)
<1>1. Len(p) \in Nat /\ Len(q) \in Nat /\ Len(r) \in Nat
  BY DEF Paths
<1>2. IsPrefix(p, q) /\ Len(p) < Len(q) /\ IsPrefix(q, r) /\ Len(q) < Len(r)
  BY StrictPrefix
<1>3. IsPrefix(p, r)
  BY <1>2, PrefixTransitive
<1> QED BY <1>1, <1>2, <1>3, StrictPrefix

\* Of two beginnings of a path one begins the other.
LEMMA PrefixLinear ==
  ASSUME NEW p \in Paths, NEW q \in Paths, NEW r \in Paths,
         IsPrefix(p, r), IsPrefix(q, r), Len(p) <= Len(q)
  PROVE  IsPrefix(p, q)
<1> Len(p) \in Nat /\ Len(q) \in Nat /\ Len(r) \in Nat
  BY DEF Paths
<1> QED BY PrefixByIndex

LEMMA AppendPath ==
  ASSUME NEW p \in Paths, NEW k \in Keys
  PROVE  /\ Append(p, k) \in Paths
         /\ Len(Append(p, k)) = Len(p) + 1
         /\ \A q \in Paths : IsPrefix(Append(p, k), q) <=> IsStrictPrefix(p, q) /\ q[Len(p) + 1] = k
<1>0. Len(p) \in Nat /\ p \in Seq(Keys)
  BY DEF Paths
<1>1. /\ Append(p, k) \in Paths
      /\ Len(Append(p, k)) = Len(p) + 1
      /\ \A i \in 1 .. Len(p) : Append(p, k)[i] = p[i]
      /\ Append(p, k)[Len(p) + 1] = k
  BY <1>0, AppendProperties DEF Paths
<1>2. ASSUME NEW q \in Paths
      PROVE  IsPrefix(Append(p, k), q) <=> IsStrictPrefix(p, q) /\ q[Len(p) + 1] = k
  <2> DEFINE a == Append(p, k)
  <2>1. /\ a \in Paths /\ Len(a) = Len(p) + 1 /\ a[Len(p) + 1] = k
        /\ \A i \in 1 .. Len(p) : a[i] = p[i]
    BY <1>1
  <2> HIDE DEF a
  <2>2. Len(q) \in Nat
    BY DEF Paths
  <2>3. IsPrefix(a, q) <=> Len(p) + 1 <= Len(q) /\ \A i \in 1 .. Len(p) + 1 : a[i] = q[i]
    BY <2>1, PrefixByIndex
  <2>4. IsStrictPrefix(p, q) <=> Len(p) < Len(q) /\ \A i \in 1 .. Len(p) : p[i] = q[i]
    BY PrefixByIndex, StrictPrefix, <1>0, <2>2
  <2>5. (\A i \in 1 .. Len(p) + 1 : a[i] = q[i])
        <=> (\A i \in 1 .. Len(p) : p[i] = q[i]) /\ q[Len(p) + 1] = k
    BY <1>0, <2>1
  <2> QED BY <1>0, <2>2, <2>3, <2>4, <2>5 DEF a
<1> QED BY <1>1, <1>2

\* Paths that end with a key.
LEMMA Appended ==
  ASSUME NEW p \in Paths, NEW k \in Keys
  PROVE  /\ \A q \in Paths : IsStrictPrefix(q, Append(p, k)) <=> IsPrefix(q, p)
         /\ \A q \in Paths : \A l \in Keys : Append(p, k) = Append(q, l) => p = q /\ k = l
         /\ Append(p, k) = p \o <<k>>
<1> DEFINE a == Append(p, k)
<1>1. /\ a \in Paths /\ Len(a) = Len(p) + 1 /\ IsPrefix(a, a)
      /\ \A q \in Paths : IsPrefix(a, q) <=> IsStrictPrefix(p, q) /\ q[Len(p) + 1] = k
  BY AppendPath, StrictPrefix
<1> HIDE DEF a
<1>2. IsStrictPrefix(p, a) /\ a[Len(p) + 1] = k /\ Len(p) \in Nat /\ Len(a) \in Nat
  BY <1>1 DEF Paths
<1>3. ASSUME NEW q \in Paths PROVE IsStrictPrefix(q, a) <=> IsPrefix(q, p)
  <2>0. Len(q) \in Nat
    BY DEF Paths
  <2>1. ASSUME IsStrictPrefix(q, a) PROVE IsPrefix(q, p)
    <3>1. IsPrefix(q, a) /\ Len(q) <= Len(p) /\ IsPrefix(p, a)
      BY <1>1, <1>2, <2>0, <2>1, StrictPrefix
    <3> QED BY <1>1, <3>1, PrefixLinear
  <2>2. ASSUME IsPrefix(q, p) PROVE IsStrictPrefix(q, a)
    BY <1>1, <1>2, <2>2, StrictPrefix, StrictTransitive
  <2> QED BY <2>1, <2>2
<1>4. ASSUME NEW q \in Paths, NEW l \in Keys, a = Append(q, l) PROVE p = q /\ k = l
  <2> DEFINE b == Append(q, l)
  <2>1. b \in Paths /\ Len(b) = Len(q) + 1 /\ IsPrefix(b, b)
        /\ (IsPrefix(b, b) <=> IsStrictPrefix(q, b) /\ b[Len(q) + 1] = l)
    BY AppendPath, StrictPrefix
  <2>2. a = b
    BY <1>4
  <2> HIDE DEF b
  <2>3. Len(q) \in Nat /\ Len(p) = Len(q)
    BY <1>1, <1>2, <2>1, <2>2 DEF Paths
  <2>4. IsPrefix(p, a) /\ IsPrefix(q, a)
    BY <1>1, <1>2, <2>1, <2>2, StrictPrefix
  <2>5. IsPrefix(p, q)
    BY <1>1, <2>3, <2>4, PrefixLinear
  <2>6. p = q
    BY <2>3, <2>5, StrictPrefix
  <2> QED BY <1>2, <2>1, <2>2, <2>6
<1>5. Append(p, k) = p \o <<k>>
  BY AppendIsConcat DEF Paths
<1> QED BY <1>3, <1>4, <1>5 DEF a

LEMMA SameAppended ==
  ASSUME NEW p \in Paths, NEW k \in Keys, NEW q \in Paths, NEW l \in Keys,
         Append(p, k) = Append(q, l)
  PROVE  p = q /\ k = l
<1>1. \A r \in Paths : \A m \in Keys : Append(p, k) = Append(r, m) => p = r /\ k = m
  BY Appended
<1> QED BY <1>1

\* Paths that begin with a key.
LEMMA ConsPath ==
  ASSUME NEW k \in Keys, NEW p \in Paths
  PROVE  /\ <<k>> \o p \in Paths
         /\ Len(<<k>> \o p) = Len(p) + 1
         /\ (<<k>> \o p)[1] = k
         /\ \A i \in 1 .. Len(p) : (<<k>> \o p)[i + 1] = p[i]
         /\ <<k>> \o p # <<>>
<1> p \in Seq(Keys) /\ Len(p) \in Nat /\ <<k>> \in Seq(Keys) /\ Len(<<k>>) = 1
  BY DEF Paths
<1>1. /\ <<k>> \o p \in Seq(Keys) /\ Len(<<k>> \o p) = 1 + Len(p)
      /\ \A i \in 1 .. 1 + Len(p) : (<<k>> \o p)[i] = IF i <= 1 THEN <<k>>[i] ELSE p[i - 1]
  BY ConcatProperties
<1> HIDE DEF Paths
<1> DEFINE c == <<k>> \o p
<1> HIDE DEF c
<1>2. c \in Seq(Keys) /\ Len(c) = 1 + Len(p) /\ c[1] = k
  BY <1>1 DEF c
<1>3. ASSUME NEW i \in 1 .. Len(p) PROVE c[i + 1] = p[i]
  <2>1. i + 1 \in 1 .. 1 + Len(p) /\ ~(i + 1 <= 1) /\ (i + 1) - 1 = i
    OBVIOUS
  <2> QED BY <1>1, <2>1 DEF c
<1>4. c # <<>>
  BY <1>2
<1> QED BY <1>2, <1>3, <1>4 DEF c, Paths

LEMMA ConsFacts ==
  ASSUME NEW k \in Keys, NEW p \in Paths, NEW l \in Keys, NEW q \in Paths
  PROVE  /\ <<k>> \o p = <<l>> \o q <=> k = l /\ p = q
         /\ IsPrefix(<<k>> \o p, <<l>> \o q) <=> k = l /\ IsPrefix(p, q)
         /\ IsStrictPrefix(<<k>> \o p, <<l>> \o q) <=> k = l /\ IsStrictPrefix(p, q)
<1> DEFINE c == <<k>> \o p  d == <<l>> \o q
<1>1. /\ c \in Paths /\ Len(c) = Len(p) + 1 /\ c[1] = k /\ \A i \in 1 .. Len(p) : c[i + 1] = p[i]
      /\ d \in Paths /\ Len(d) = Len(q) + 1 /\ d[1] = l /\ \A i \in 1 .. Len(q) : d[i + 1] = q[i]
      /\ Len(p) \in Nat /\ Len(q) \in Nat
  BY ConsPath DEF Paths
<1> HIDE DEF c, d
<1>2. IsPrefix(c, d) <=> k = l /\ IsPrefix(p, q)
  <2>1. IsPrefix(c, d) <=> Len(p) <= Len(q) /\ \A i \in 1 .. Len(p) + 1 : c[i] = d[i]
    <3>1. IsPrefix(c, d) <=> Len(c) <= Len(d) /\ \A i \in 1 .. Len(c) : c[i] = d[i]
      BY <1>1, PrefixByIndex
    <3>2. Len(c) <= Len(d) <=> Len(p) <= Len(q)
      BY <1>1
    <3>3. 1 .. Len(c) = 1 .. Len(p) + 1
      BY <1>1
    <3> QED BY <3>1, <3>2, <3>3
  <2>2. IsPrefix(p, q) <=> Len(p) <= Len(q) /\ \A i \in 1 .. Len(p) : p[i] = q[i]
    BY PrefixByIndex
  <2>3. ASSUME Len(p) <= Len(q), \A i \in 1 .. Len(p) + 1 : c[i] = d[i]
        PROVE  k = l /\ \A i \in 1 .. Len(p) : p[i] = q[i]
    <3>1. k = l
      BY <1>1, <2>3
    <3>2. ASSUME NEW i \in 1 .. Len(p) PROVE p[i] = q[i]
      <4>1. i + 1 \in 1 .. Len(p) + 1 /\ i \in 1 .. Len(q)
        BY <1>1, <2>3
      <4> QED BY <1>1, <2>3, <4>1
    <3> QED BY <3>1, <3>2
  <2>4. ASSUME Len(p) <= Len(q), k = l, \A i \in 1 .. Len(p) : p[i] = q[i]
        PROVE  \A i \in 1 .. Len(p) + 1 : c[i] = d[i]
    <3> SUFFICES ASSUME NEW i \in 1 .. Len(p) + 1 PROVE c[i] = d[i]
      OBVIOUS
    <3>1. CASE i = 1
      BY <1>1, <2>4, <3>1
    <3>2. CASE i # 1
      <4>1. i - 1 \in 1 .. Len(p) /\ i - 1 \in 1 .. Len(q) /\ (i - 1) + 1 = i
        BY <1>1, <2>4, <3>2
      <4>2. c[(i - 1) + 1] = p[i - 1] /\ d[(i - 1) + 1] = q[i - 1]
        BY <1>1, <4>1
      <4> QED BY <2>4, <4>1, <4>2
    <3> QED BY <3>1, <3>2
  <2> QED BY <2>1, <2>2, <2>3, <2>4
<1>3. c = d <=> k = l /\ p = q
  <2>1. c = d => IsPrefix(c, d) /\ IsPrefix(d, c)
    BY <1>1, StrictPrefix
  <2>2. c = d => k = l /\ Len(p) = Len(q) /\ IsPrefix(p, q)
    BY <1>1, <1>2, <2>1
  <2>3. Len(p) = Len(q) /\ IsPrefix(p, q) => p = q
    BY <1>1, StrictPrefix
  <2> QED BY <2>2, <2>3 DEF c, d
<1>4. IsStrictPrefix(c, d) <=> k = l /\ IsStrictPrefix(p, q)
  BY <1>1, <1>2, StrictPrefix
<1> QED BY <1>2, <1>3, <1>4 DEF c, d

LEMMA PathCases ==
  ASSUME NEW p \in Paths, p # <<>>
  PROVE  /\ p[1] \in Keys /\ Tail(p) \in Paths /\ p = <<p[1]>> \o Tail(p)
<1>1. p \in Seq(Keys) /\ Len(p) \in Nat /\ Len(p) # 0
  BY DEF Paths
<1>2. p[1] \in Keys
  BY <1>1
<1>3. Tail(p) \in Seq(Keys) /\ Len(Tail(p)) = Len(p) - 1 /\ \A i \in 1 .. Len(p) - 1 : Tail(p)[i] = p[i + 1]
  BY <1>1, HeadTailProperties
<1> DEFINE t == Tail(p) 
<1>4. t \in Paths /\ Len(t) = Len(p) - 1 /\ \A i \in 1 .. Len(p) - 1 : t[i] = p[i + 1]
  BY <1>3 DEF Paths
<1> HIDE DEF t
<1> DEFINE c == <<p[1]>> \o t
<1>5. c \in Paths /\ Len(c) = Len(t) + 1 /\ c[1] = p[1] /\ \A i \in 1 .. Len(t) : c[i + 1] = t[i]
  BY <1>2, <1>4, ConsPath
<1> HIDE DEF c
<1>6. ASSUME NEW i \in 1 .. Len(p) PROVE p[i] = c[i]
  <2>1. CASE i = 1
    BY <1>5, <2>1
  <2>2. CASE i # 1
    <3>1. i - 1 \in 1 .. Len(p) - 1 /\ (i - 1) + 1 = i
      BY <1>1, <2>2
    <3>2. c[(i - 1) + 1] = t[i - 1] /\ t[i - 1] = p[(i - 1) + 1]
      BY <1>1, <1>4, <1>5, <3>1
    <3> QED BY <3>1, <3>2
  <2> QED BY <2>1, <2>2
<1>7. p = c
  BY <1>1, <1>4, <1>5, <1>6, SamePath
<1> QED BY <1>2, <1>4, <1>7 DEF t, c

LEMMA AppendConcat ==
  ASSUME NEW p \in Paths, NEW k \in Keys, NEW q \in Paths
  PROVE  p \o (<<k>> \o q) = Append(p, k) \o q
<1>1. p \in Seq(Keys) /\ q \in Seq(Keys) /\ <<k>> \in Seq(Keys) /\ Append(p, k) = p \o <<k>>
  BY AppendIsConcat DEF Paths
<1> QED BY <1>1, ConcatAssociative

------------------------------------------------------------------------------
(* Trees *)

LEMMA TreeFacts ==
  ASSUME NEW t \in Trees, NEW n \in t
  PROVE  /\ n = <<n[1], n[2]>> /\ n[1] \in Paths /\ n[2] \in Leaves \cup {"dict"}
         /\ \A m \in t : m[1] = n[1] => m = n
         /\ \A p \in Paths : IsStrictPrefix(p, n[1]) => <<p, "dict">> \in t
<1>1. n = <<n[1], n[2]>> /\ n[1] \in Paths /\ n[2] \in Leaves \cup {"dict"} /\ IsTree(t)
  BY DEF Trees
<1>2. ASSUME NEW p \in Paths, IsStrictPrefix(p, n[1])
      PROVE  <<p, "dict">> \in t
  <2>1. Len(p) \in 0 .. Len(n[1]) - 1
    BY <1>1, <1>2, StrictPrefix DEF Paths
  <2>2. SubSeq(n[1], 1, Len(p)) = p
    BY <1>2, SubSeqFull DEF IsStrictPrefix, IsPrefix, Paths
  <2> QED BY <1>1, <2>1, <2>2 DEF IsTree
<1> QED BY <1>1, <1>2 DEF IsTree

\* What it takes to be a tree, said with beginnings of paths.
LEMMA IsATree ==
  ASSUME NEW t \in SUBSET (Paths \X (Leaves \cup {"dict"})),
         \E n \in t : n[1] = <<>>,
         \A m, n \in t : m[1] = n[1] => m = n,
         \A n \in t : \A p \in Paths : IsStrictPrefix(p, n[1]) => <<p, "dict">> \in t
  PROVE  t \in Trees
<1>1. ASSUME NEW n \in t, NEW i \in 0 .. Len(n[1]) - 1
      PROVE  <<SubSeq(n[1], 1, i), "dict">> \in t
  <2> DEFINE q == n[1]  p == SubSeq(n[1], 1, i)
  <2>1. q \in Paths /\ Len(q) \in Nat
    BY DEF Paths
  <2>2. p \in Paths /\ Len(p) = i /\ \A j \in 1 .. i : p[j] = q[j]
    BY <2>1, SubSeqProperties DEF Paths
  <2> HIDE DEF p, q
  <2>3. i \in Nat /\ i < Len(q)
    BY <2>1 DEF q
  <2>4. IsStrictPrefix(p, q)
    BY <2>1, <2>2, <2>3, PrefixByIndex, StrictPrefix
  <2> QED BY <2>2, <2>4 DEF p, q
<1> QED BY <1>1 DEF Trees, IsTree

LEMMA KeysFacts ==
  ASSUME NEW t \in Trees, NEW p \in Paths
  PROVE  /\ KeysAt(t, p) \subseteq Keys
         /\ \A k \in Keys : k \in KeysAt(t, p) <=> \E n \in t : IsPrefix(Append(p, k), n[1])
<1>1. ASSUME NEW n \in t, IsStrictPrefix(p, n[1])
      PROVE  n[1][Len(p) + 1] \in Keys /\ IsPrefix(Append(p, n[1][Len(p) + 1]), n[1])
  <2>1. n[1] \in Paths /\ Len(p) < Len(n[1]) /\ Len(p) \in Nat /\ Len(n[1]) \in Nat
    BY <1>1, TreeFacts, StrictPrefix DEF Paths
  <2>2. n[1][Len(p) + 1] \in Keys
    BY <2>1, ElementOfSeq DEF Paths
  <2> QED BY <1>1, <2>1, <2>2, AppendPath
<1>2. ASSUME NEW k \in Keys, NEW n \in t, IsPrefix(Append(p, k), n[1])
      PROVE  IsStrictPrefix(p, n[1]) /\ n[1][Len(p) + 1] = k
  BY <1>2, TreeFacts, AppendPath
<1>3. KeysAt(t, p) \subseteq Keys
  BY <1>1 DEF KeysAt
<1>4. ASSUME NEW k \in Keys
      PROVE  k \in KeysAt(t, p) <=> \E n \in t : IsPrefix(Append(p, k), n[1])
  <2>1. ASSUME k \in KeysAt(t, p) PROVE \E n \in t : IsPrefix(Append(p, k), n[1])
    BY <2>1, <1>1 DEF KeysAt
  <2>2. ASSUME NEW n \in t, IsPrefix(Append(p, k), n[1]) PROVE k \in KeysAt(t, p)
    BY <2>2, <1>2 DEF KeysAt
  <2> QED BY <2>1, <2>2
<1> QED BY <1>3, <1>4

LEMMA DictFacts ==
  ASSUME NEW d \in Dicts
  PROVE  /\ d \in Trees /\ << <<>>, "dict">> \in d
         /\ \A n \in d : n[1] = <<>> => n[2] = "dict"
         /\ \A n \in d : n[1] \in Paths /\ Len(n[1]) \in Nat /\ n = <<n[1], n[2]>>
<1>1. d \in Trees /\ << <<>>, "dict">> \in d
  BY DEF Dicts
<1>2. ASSUME NEW n \in d PROVE n[1] \in Paths /\ Len(n[1]) \in Nat /\ n = <<n[1], n[2]>>
  BY <1>1, TreeFacts DEF Paths
<1>3. ASSUME NEW n \in d, n[1] = <<>> PROVE n[2] = "dict"
  <2>1. << <<>>, "dict">> = n
    BY <1>1, <1>2, <1>3, TreeFacts
  <2> QED BY <2>1
<1> QED BY <1>1, <1>2, <1>3

LEMMA EmptyIsADict == EmptyDict \in Dicts
<1>0. <<>> \in Paths /\ Len(<<>>) = 0
  BY DEF Paths
<1>1. EmptyDict \in SUBSET (Paths \X (Leaves \cup {"dict"})) /\ << <<>>, "dict">> \in EmptyDict
  BY <1>0 DEF EmptyDict
<1>2. ASSUME NEW n \in EmptyDict, NEW p \in Paths PROVE ~IsStrictPrefix(p, n[1])
  <2>1. n[1] = <<>>
    BY DEF EmptyDict
  <2>2. Len(p) \in Nat
    BY DEF Paths
  <2> QED BY <1>0, <2>1, <2>2, StrictPrefix
<1>3. EmptyDict \in Trees
  <2>1. \E n \in EmptyDict : n[1] = <<>>
    BY DEF EmptyDict
  <2>2. \A m, n \in EmptyDict : m[1] = n[1] => m = n
    BY DEF EmptyDict
  <2> QED BY <1>1, <1>2, <2>1, <2>2, IsATree
<1> QED BY <1>1, <1>3 DEF Dicts

LEMMA LeafIsATree ==
  ASSUME NEW v \in Leaves \cup {"dict"}
  PROVE  Leaf(v) \in Trees
<1>0. <<>> \in Paths /\ Len(<<>>) = 0
  BY DEF Paths
<1>1. Leaf(v) \in SUBSET (Paths \X (Leaves \cup {"dict"}))
  BY <1>0 DEF Leaf
<1>2. \A n \in Leaf(v) : n[1] = <<>> /\ n[2] = v
  BY DEF Leaf
<1>3. ASSUME NEW n \in Leaf(v), NEW p \in Paths PROVE ~IsStrictPrefix(p, n[1])
  <2>1. Len(p) \in Nat
    BY DEF Paths
  <2> QED BY <1>0, <1>2, <2>1, StrictPrefix
<1>4. \E n \in Leaf(v) : n[1] = <<>>
  BY DEF Leaf
<1>5. \A m, n \in Leaf(v) : m[1] = n[1] => m = n
  BY DEF Leaf
<1> HIDE DEF Leaf
<1> QED BY <1>1, <1>3, <1>4, <1>5, IsATree
==============================================================================
