---------------------------- MODULE DispatchProofs ----------------------------
(***************************************************************************)
(* What the merge of chunks computes for objects of any shape and any cap, *)
(* that masking commutes with it, and the properties of Dispatch for any   *)
(* number of calls, any modules, any JSON values and any secret fields.    *)
(*                                                                         *)
(* The recursion of _deep_merge is undone by a closed form (Overlaid): the *)
(* merged object is the overlay and what of the base it does not erase.    *)
(* That each level of the recursion agrees with it follows from the levels *)
(* below (MergeStep), so the first level from the cap up that does not     *)
(* agree (LeastNatural) cannot exist.                                      *)
(***************************************************************************)
EXTENDS Dispatch, JsonValuesProofs

------------------------------------------------------------------------------
(* The merge *)

\* What a merge comes to, without recursion.
Overlaid(base, overlay) ==
  overlay \cup {n \in base : /\ \A o \in overlay : o[1] # n[1]
                             /\ ~Erases(overlay, n[1])}

\* A node of the overlay that begins a path both reach as dicts erases nothing.
LEMMA NothingErasedAbove ==
  ASSUME NEW b \in Trees, NEW p \in Paths, <<p, "dict">> \in b, Len(p) <= MaxDepth,
         NEW o \in b, IsPrefix(o[1], p)
  PROVE  o[2] = "dict" /\ Len(o[1]) <= MaxDepth
<1>1. o[1] \in Paths /\ Len(o[1]) \in Nat /\ Len(p) \in Nat /\ o = <<o[1], o[2]>>
  BY TreeFacts DEF Paths
<1>2. CASE o[1] = p
  BY <1>1, <1>2, TreeFacts
<1>3. CASE IsStrictPrefix(o[1], p)
  <2>1. <<o[1], "dict">> \in b
    BY <1>1, <1>3, TreeFacts
  <2>2. Len(o[1]) <= MaxDepth
    BY <1>1, <1>3, StrictPrefix, JsonAssumption, MergeAssumption
  <2> QED BY <1>1, <2>1, <2>2, TreeFacts
<1> QED BY <1>1, <1>2, <1>3, StrictPrefix

\* One key of two dicts: its part of the merge is the base's, the overlay's, or the
\* merge of both.
LEMMA MergeOfKey ==
  ASSUME NEW a \in Dicts, NEW b \in Dicts, NEW p \in Both(a, b), Len(p) <= MaxDepth,
         NEW k \in KeysAt(a, p) \cup KeysAt(b, p)
  PROVE  LET q == Append(p, k) IN
         /\ k \notin KeysAt(b, p) => Part(Overlaid(a, b), q) = Part(a, q)
         /\ k \in KeysAt(b, p) /\ ~(Len(p) < MaxDepth /\ q \in Both(a, b))
            => Part(Overlaid(a, b), q) = Part(b, q)
<1> DEFINE q == Append(p, k)
<1>1. /\ a \in Trees /\ b \in Trees /\ p \in Paths
      /\ <<p, "dict">> \in a /\ <<p, "dict">> \in b
  <2>1. PICK n \in a \cap b : n[2] = "dict" /\ n[1] = p
    BY DEF Both
  <2>2. a \in Trees /\ b \in Trees
    BY DEF Dicts
  <2> QED BY <2>1, <2>2, TreeFacts
<1>2. k \in Keys
  BY <1>1, KeysFacts
<1>3. /\ q \in Paths /\ Len(q) = Len(p) + 1 /\ Len(p) \in Nat /\ MaxDepth \in Nat
      /\ IsStrictPrefix(p, q) /\ IsPrefix(p, q)
  <2>1. q \in Paths /\ Len(q) = Len(p) + 1
    BY <1>1, <1>2, AppendPath
  <2>2. IsPrefix(q, q)
    BY <2>1, StrictPrefix
  <2>3. IsStrictPrefix(p, q)
    BY <1>1, <1>2, <2>1, <2>2, AppendPath
  <2> QED BY <1>1, <2>1, <2>3, JsonAssumption, MergeAssumption DEF Paths, IsStrictPrefix
<1> HIDE DEF q
<1>4. ASSUME k \notin KeysAt(b, p)
      PROVE  Part(Overlaid(a, b), q) = Part(a, q)
  <2>1. \A o \in b : ~IsPrefix(q, o[1])
    BY <1>1, <1>2, <1>4, KeysFacts DEF q
  <2>2. ASSUME NEW n \in a, IsPrefix(q, n[1])
        PROVE  (\A o \in b : o[1] # n[1]) /\ ~Erases(b, n[1])
    <3>1. n[1] \in Paths /\ IsPrefix(p, n[1])
      BY <1>1, <1>3, <2>2, TreeFacts, PrefixTransitive
    <3>2. ASSUME NEW o \in b, IsStrictPrefix(o[1], n[1])
          PROVE  o[2] = "dict" /\ Len(o[1]) <= MaxDepth
      <4>1. o[1] \in Paths /\ IsPrefix(o[1], n[1]) /\ Len(o[1]) \in Nat
        BY <1>1, <3>2, TreeFacts DEF IsStrictPrefix, Paths
      <4>2. ~(Len(q) <= Len(o[1]))
        BY <1>3, <2>1, <2>2, <3>1, <4>1, PrefixLinear
      <4>3. IsPrefix(o[1], p)
        BY <1>1, <1>3, <3>1, <4>1, <4>2, PrefixLinear
      <4> QED BY <1>1, <4>3, NothingErasedAbove
    <3>3. \A o \in b : o[1] # n[1]
      BY <2>1, <2>2
    <3>4. ~Erases(b, n[1])
      <4>1. ASSUME NEW o \in b, IsStrictPrefix(o[1], n[1])
            PROVE  ~(o[2] # "dict" \/ Len(o[1]) > MaxDepth)
        <5>1. Len(o[1]) \in Nat
          BY <1>1, TreeFacts DEF Paths
        <5> QED BY <1>3, <3>2, <4>1, <5>1
      <4> QED BY <4>1 DEF Erases, Nodes
    <3> QED BY <3>3, <3>4
  <2> QED BY <2>1, <2>2 DEF Part, Overlaid
<1>5. ASSUME k \in KeysAt(b, p), ~(Len(p) < MaxDepth /\ q \in Both(a, b))
      PROVE  Part(Overlaid(a, b), q) = Part(b, q)
  <2>1. PICK v : <<q, v>> \in b
    <3>1. PICK m \in b : IsPrefix(q, m[1])
      BY <1>1, <1>2, <1>5, KeysFacts DEF q
    <3>2. m[1] \in Paths /\ m = <<m[1], m[2]>>
      BY <1>1, TreeFacts
    <3>3. CASE m[1] = q
      BY <3>2, <3>3
    <3>4. CASE IsStrictPrefix(q, m[1])
      BY <1>1, <1>3, <3>4, TreeFacts
    <3> QED BY <1>3, <3>1, <3>2, <3>3, <3>4, StrictPrefix
  <2>2. ASSUME NEW n \in a, IsPrefix(q, n[1]), \A o \in b : o[1] # n[1], ~Erases(b, n[1])
        PROVE  FALSE
    <3>1. n[1] \in Paths /\ IsStrictPrefix(q, n[1])
      BY <1>1, <1>3, <2>1, <2>2, TreeFacts, StrictPrefix
    <3>2. <<q, "dict">> \in a
      BY <1>1, <1>3, <3>1, TreeFacts
    <3>3. <<q, v>> \in Nodes(b)
      <4>1. q # <<>>
        BY <1>3
      <4> QED BY <2>1, <4>1 DEF Nodes
    <3>4. v # "dict" \/ Len(q) > MaxDepth
      <4>1. v = "dict" => q \in Both(a, b)
        BY <2>1, <3>2 DEF Both
      <4> QED BY <1>3, <1>5, <4>1
    <3> QED BY <2>2, <3>1, <3>3, <3>4 DEF Erases
  <2> QED BY <2>2 DEF Part, Overlaid
<1> QED BY <1>4, <1>5 DEF q

LEMMA EmptyWrites == Nodes(EmptyDict) = {} /\ LastWrites(<<>>) = {}
<1>1. Nodes(EmptyDict) = {}
  BY DEF Nodes, EmptyDict
<1>2. LastWrites(<<>>) = {}
  BY DEF LastWrites
<1> QED BY <1>1, <1>2

\* What is erased at a path is erased below it.
LEMMA ErasesBelow ==
  ASSUME NEW d \in Dicts, NEW p \in Paths, NEW q \in Paths, IsStrictPrefix(p, q), Erases(d, p)
  PROVE  Erases(d, q)
<1>1. PICK n \in Nodes(d) : IsStrictPrefix(n[1], p) /\ (n[2] # "dict" \/ Len(n[1]) > MaxDepth)
  BY DEF Erases
<1>2. n[1] \in Paths
  BY DictFacts DEF Nodes
<1>3. IsStrictPrefix(n[1], q)
  BY <1>1, <1>2, StrictTransitive
<1> QED BY <1>1, <1>3 DEF Erases

LEMMA OverlaidDict ==
  ASSUME NEW a \in Dicts, NEW b \in Dicts
  PROVE  Overlaid(a, b) \in Dicts
<1> DEFINE t == Overlaid(a, b)
<1>1. t \in SUBSET (Paths \X (Leaves \cup {"dict"})) /\ t \subseteq a \cup b /\ b \subseteq t
  BY DEF Overlaid, Dicts, Trees
<1>2. << <<>>, "dict">> \in t
  BY <1>1, DictFacts
<1>3. ASSUME NEW m \in t, NEW n \in t, m[1] = n[1] PROVE m = n
  <2>1. CASE m \in b /\ n \in b
    BY <1>3, <2>1, TreeFacts, DictFacts
  <2>2. CASE m \in a /\ n \in a
    BY <1>3, <2>2, TreeFacts, DictFacts
  <2>3. CASE m \notin b /\ n \in b
    BY <1>3, <2>3 DEF Overlaid
  <2>4. CASE m \in b /\ n \notin b
    BY <1>3, <2>4 DEF Overlaid
  <2> QED BY <1>1, <2>1, <2>2, <2>3, <2>4
<1>4. ASSUME NEW n \in t, NEW p \in Paths, IsStrictPrefix(p, n[1])
      PROVE  <<p, "dict">> \in t
  <2>1. CASE n \in b
    <3>1. <<p, "dict">> \in b
      BY <1>4, <2>1, TreeFacts, DictFacts
    <3> QED BY <1>1, <3>1
  <2>2. CASE n \notin b
    <3>1. n \in a /\ ~Erases(b, n[1]) /\ n[1] \in Paths
      BY <2>2, DictFacts DEF Overlaid
    <3>2. <<p, "dict">> \in a
      BY <1>4, <3>1, TreeFacts, DictFacts
    <3>3. ~Erases(b, p)
      BY <1>4, <3>1, ErasesBelow
    <3>4. CASE \E o \in b : o[1] = p
      <4>1. PICK o \in b : o[1] = p
        BY <3>4
      <4>2. o[2] = "dict"
        <5>1. CASE p = <<>>
          BY <4>1, <5>1, DictFacts
        <5>2. CASE p # <<>>
          BY <1>4, <3>1, <4>1, <5>2 DEF Erases, Nodes
        <5> QED BY <5>1, <5>2
      <4> QED BY <1>1, <4>1, <4>2, DictFacts
    <3>5. CASE ~\E o \in b : o[1] = p
      BY <3>2, <3>3, <3>5 DEF Overlaid
    <3> QED BY <3>4, <3>5
  <2> QED BY <2>1, <2>2
<1> HIDE DEF t
<1>5. t \in Trees
  <2>1. \E n \in t : n[1] = <<>>
    BY <1>2
  <2> QED BY <1>1, <1>3, <1>4, <2>1, IsATree
<1> QED BY <1>2, <1>5 DEF t, Dicts

LEMMA BothFacts ==
  ASSUME NEW a \in Dicts, NEW b \in Dicts
  PROVE  \A p : p \in Both(a, b)
                <=> p \in Paths /\ <<p, "dict">> \in a /\ <<p, "dict">> \in b
<1>1. ASSUME NEW p \in Both(a, b)
      PROVE  p \in Paths /\ <<p, "dict">> \in a /\ <<p, "dict">> \in b
  <2>1. PICK n \in a \cap b : n[2] = "dict" /\ n[1] = p
    BY DEF Both
  <2> QED BY <2>1, DictFacts
<1>2. ASSUME NEW p \in Paths, <<p, "dict">> \in a, <<p, "dict">> \in b
      PROVE  p \in Both(a, b)
  BY <1>2 DEF Both
<1> QED BY <1>1, <1>2

\* One level of the merge, when the levels below it are as claimed.
LEMMA MergeStep ==
  ASSUME NEW a \in Dicts, NEW b \in Dicts, NEW p \in Both(a, b), Len(p) <= MaxDepth, NEW g,
         \A k \in Keys : Len(p) < MaxDepth /\ Append(p, k) \in Both(a, b)
                         => g[Append(p, k)] = Part(Overlaid(a, b), Append(p, k))
  PROVE  MergeAt(g, a, b, p) = Part(Overlaid(a, b), p)
<1> DEFINE t == Overlaid(a, b)
           keys == KeysAt(a, p) \cup KeysAt(b, p)
           F(k) == LET q == Append(p, k)
                   IN IF k \notin KeysAt(b, p) THEN Part(a, q)
                      ELSE IF Len(p) < MaxDepth /\ q \in Both(a, b) THEN g[q]
                      ELSE Part(b, q)
<1>1. p \in Paths /\ <<p, "dict">> \in a /\ <<p, "dict">> \in b
  BY BothFacts
<1>2. a \in Trees /\ b \in Trees /\ t \in Dicts /\ t \in Trees
  BY DictFacts, OverlaidDict
<1>3. keys \subseteq Keys
  BY <1>1, <1>2, KeysFacts
<1>4. ASSUME NEW k \in keys PROVE F(k) = Part(t, Append(p, k))
  <2>1. LET q == Append(p, k) IN
         /\ k \notin KeysAt(b, p) => Part(t, q) = Part(a, q)
         /\ k \in KeysAt(b, p) /\ ~(Len(p) < MaxDepth /\ q \in Both(a, b))
            => Part(t, q) = Part(b, q)
    BY MergeOfKey
  <2>2. CASE k \notin KeysAt(b, p)
    BY <2>1, <2>2
  <2>3. CASE k \in KeysAt(b, p) /\ ~(Len(p) < MaxDepth /\ Append(p, k) \in Both(a, b))
    BY <2>1, <2>3
  <2>4. CASE k \in KeysAt(b, p) /\ (Len(p) < MaxDepth /\ Append(p, k) \in Both(a, b))
    BY <1>3, <2>4
  <2> QED BY <2>2, <2>3, <2>4
<1>5. MergeAt(g, a, b, p) = {<<p, "dict">>} \cup UNION {F(k) : k \in keys}
  BY DEF MergeAt
<1>6. {F(k) : k \in keys} = {Part(t, Append(p, k)) : k \in keys}
  BY <1>4
<1> HIDE DEF F
<1>7. <<p, "dict">> \in t /\ t \subseteq a \cup b
  BY <1>1 DEF Overlaid
<1> HIDE DEF t
<1>8. ASSUME NEW n \in Part(t, p)
      PROVE  n \in {<<p, "dict">>} \cup UNION {Part(t, Append(p, k)) : k \in keys}
  <2>1. n \in t /\ IsPrefix(p, n[1]) /\ n[1] \in Paths /\ n = <<n[1], n[2]>>
    BY <1>2, DictFacts DEF Part
  <2>2. CASE p = n[1]
    BY <1>2, <1>7, <2>1, <2>2, TreeFacts
  <2>3. CASE IsStrictPrefix(p, n[1])
    <3> DEFINE k == n[1][Len(p) + 1]
    <3>1. k \in keys
      BY <1>7, <2>1, <2>3 DEF KeysAt
    <3>2. IsPrefix(Append(p, k), n[1])
      BY <1>1, <1>3, <2>1, <2>3, <3>1, AppendPath
    <3>3. n \in Part(t, Append(p, k))
      BY <2>1, <3>2 DEF Part
    <3> QED BY <3>1, <3>3
  <2> QED BY <1>1, <2>1, <2>2, <2>3, StrictPrefix
<1>9. <<p, "dict">> \in Part(t, p)
  BY <1>1, <1>7, StrictPrefix DEF Part
<1>10. ASSUME NEW k \in keys, NEW n \in Part(t, Append(p, k)) PROVE n \in Part(t, p)
  <2>1. n \in t /\ IsPrefix(Append(p, k), n[1]) /\ n[1] \in Paths
    BY <1>2, DictFacts DEF Part
  <2>2. IsPrefix(p, n[1])
    BY <1>1, <1>3, <2>1, AppendPath DEF IsStrictPrefix
  <2> QED BY <2>1, <2>2 DEF Part
<1> HIDE DEF keys
<1>11. Part(t, p) = {<<p, "dict">>} \cup UNION {Part(t, Append(p, k)) : k \in keys}
  BY <1>8, <1>9, <1>10
<1> QED BY <1>5, <1>6, <1>11 DEF t

\* At the cap and below it the merge consults no deeper level.
LEMMA MergeAtTheCap ==
  ASSUME NEW a \in Dicts, NEW b \in Dicts, NEW p, ~(Len(p) < MaxDepth), NEW g, NEW h
  PROVE  MergeAt(g, a, b, p) = MergeAt(h, a, b, p)
BY DEF MergeAt

\* For any two objects and any cap: the recursive merge is the overlay and what of the
\* base it leaves (server/router.py:30-44).
THEOREM MergeIs ==
  ASSUME NEW a \in Dicts, NEW b \in Dicts
  PROVE  Merge(a, b) = Overlaid(a, b)
<1> DEFINE t == Overlaid(a, b)
           D == Both(a, b)
           Defines(f) == f = [p \in D |-> MergeAt(f, a, b, p)]
           h == [p \in D |-> IF Len(p) <= MaxDepth THEN Part(t, p) ELSE MergeAt(<<>>, a, b, p)]
           merged == CHOOSE f : Defines(f)
<1>1. ASSUME NEW p \in D PROVE p \in Paths /\ Len(p) \in Nat /\ MaxDepth \in Nat
  <2>1. p \in Paths
    BY BothFacts
  <2> QED BY <2>1, JsonAssumption, MergeAssumption DEF Paths
<1>2. ASSUME NEW p \in D PROVE h[p] = MergeAt(h, a, b, p)
  <2>1. CASE Len(p) <= MaxDepth
    <3>1. ASSUME NEW k \in Keys, Len(p) < MaxDepth, Append(p, k) \in D
          PROVE  h[Append(p, k)] = Part(t, Append(p, k))
      <4>1. Len(Append(p, k)) <= MaxDepth
        BY <1>1, <3>1, AppendPath
      <4> QED BY <3>1, <4>1
    <3>2. h[p] = Part(t, p)
      BY <2>1
    <3> HIDE DEF h
    <3> QED BY <2>1, <3>1, <3>2, MergeStep
  <2>2. CASE ~(Len(p) <= MaxDepth)
    <3>1. h[p] = MergeAt(<<>>, a, b, p)
      BY <2>2
    <3>2. ~(Len(p) < MaxDepth)
      BY <1>1, <2>2
    <3> HIDE DEF h
    <3> QED BY <3>1, <3>2, MergeAtTheCap
  <2> QED BY <2>1, <2>2
<1>3. Defines(h)
  <2> DEFINE e == [p \in D |-> MergeAt(h, a, b, p)]
  <2>1. h = [p \in D |-> h[p]]
    OBVIOUS
  <2> HIDE DEF h
  <2>2. [p \in D |-> h[p]] = e
    BY <1>2
  <2> QED BY <2>1, <2>2
<1> HIDE DEF h
<1>4. Defines(merged)
  BY <1>3
<1>5. Merge(a, b) = merged[<<>>]
  BY DEF Merge
<1> HIDE DEF merged
<1>6. ASSUME NEW p \in D PROVE merged[p] = MergeAt(merged, a, b, p)
  BY <1>4
<1> HIDE DEF Defines
<1>7. ASSUME NEW p \in D, Len(p) <= MaxDepth PROVE merged[p] = Part(t, p)
  <2> DEFINE Bad == {d \in Nat : \E q \in D : /\ Len(q) <= MaxDepth /\ d = MaxDepth - Len(q)
                                              /\ merged[q] # Part(t, q)}
  <2>1. Bad = {}
    <3> SUFFICES ASSUME Bad # {} PROVE FALSE
      OBVIOUS
    <3>1. PICK d \in Bad : \A e \in Bad : d <= e
      <4>1. Bad \in SUBSET Nat
        OBVIOUS
      <4> HIDE DEF Bad
      <4> QED BY <4>1, LeastNatural
    <3>2. PICK q \in D : Len(q) <= MaxDepth /\ d = MaxDepth - Len(q) /\ merged[q] # Part(t, q)
      OBVIOUS
    <3>3. ASSUME NEW k \in Keys, Len(q) < MaxDepth, Append(q, k) \in D
          PROVE  merged[Append(q, k)] = Part(t, Append(q, k))
      <4> DEFINE r == Append(q, k)
      <4>1. Len(r) = Len(q) + 1 /\ r \in D
        BY <1>1, <3>3, AppendPath
      <4> HIDE DEF r
      <4>2. Len(r) <= MaxDepth /\ MaxDepth - Len(r) \in Nat /\ MaxDepth - Len(r) < d
        BY <1>1, <3>2, <3>3, <4>1
      <4>3. MaxDepth - Len(r) \notin Bad
        <5>1. d \in Nat
          BY <3>1
        <5> HIDE DEF Bad
        <5> QED BY <3>1, <4>2, <5>1
      <4>4. merged[r] = Part(t, r)
        BY <4>1, <4>2, <4>3
      <4> QED BY <4>4 DEF r
    <3>4. merged[q] = Part(t, q)
      BY <1>6, <3>2, <3>3, MergeStep
    <3> QED BY <3>2, <3>4
  <2>2. MaxDepth - Len(p) \in Nat
    BY <1>1, <1>7
  <2> QED BY <1>7, <2>1, <2>2
<1>8. <<>> \in D /\ Len(<<>>) <= MaxDepth
  <2>1. << <<>>, "dict">> \in a /\ << <<>>, "dict">> \in b
    BY DictFacts
  <2>2. <<>> \in Paths
    BY DEF Paths
  <2>3. <<>> \in D
    BY <2>1, <2>2, BothFacts
  <2> QED BY <2>3, JsonAssumption, MergeAssumption
<1>9. Part(t, <<>>) = t
  <2>1. ASSUME NEW n \in t PROVE IsPrefix(<<>>, n[1])
    <3>1. n[1] \in Paths /\ Len(n[1]) \in Nat
      BY OverlaidDict, DictFacts
    <3>2. <<>> \in Paths /\ Len(<<>>) = 0
      BY DEF Paths
    <3> HIDE DEF t
    <3>3. IsPrefix(<<>>, n[1]) <=> 0 <= Len(n[1]) /\ \A i \in 1 .. 0 : <<>>[i] = n[1][i]
      BY <3>1, <3>2, PrefixByIndex
    <3> QED BY <3>1, <3>3
  <2> QED BY <2>1 DEF Part
<1> QED BY <1>5, <1>7, <1>8, <1>9

------------------------------------------------------------------------------
(* Masking *)

\* No field above p is secret.
Clear(p, secrets) == \A s \in secrets : ~IsStrictPrefix(s, p)

LEMMA ClearAbove ==
  ASSUME NEW secrets \in SUBSET Paths, NEW p \in Paths, NEW q \in Paths,
         IsStrictPrefix(p, q), Clear(q, secrets)
  PROVE  Clear(p, secrets)
<1>1. ASSUME NEW s \in secrets, IsStrictPrefix(s, p) PROVE IsStrictPrefix(s, q)
  BY <1>1, StrictTransitive
<1> QED BY <1>1 DEF Clear

LEMMA MaskNodes ==
  ASSUME NEW t \in Trees, NEW secrets \in SUBSET (Paths \ {<<>>})
  PROVE  /\ \A n \in t : Clear(n[1], secrets) /\ n[1] \notin secrets => n \in Mask(t, secrets)
         /\ \A n \in t : Clear(n[1], secrets) /\ n[1] \in secrets => <<n[1], Masked>> \in Mask(t, secrets)
         /\ \A v \in Mask(t, secrets) :
              /\ Clear(v[1], secrets)
              /\ v[1] \notin secrets => v \in t
              /\ v[1] \in secrets => v = <<v[1], Masked>> /\ \E n \in t : n[1] = v[1]
<1> DEFINE G(n) == IF n[1] \in secrets THEN <<n[1], Masked>> ELSE n
           kept == {m \in t : Clear(m[1], secrets)}
<1>1. Mask(t, secrets) = {G(n) : n \in kept}
  BY DEF Mask, Clear
<1>2. ASSUME NEW n \in t PROVE G(n)[1] = n[1]
  OBVIOUS
<1>3. ASSUME NEW v \in Mask(t, secrets)
      PROVE  /\ Clear(v[1], secrets)
             /\ v[1] \notin secrets => v \in t
             /\ v[1] \in secrets => v = <<v[1], Masked>> /\ \E n \in t : n[1] = v[1]
  <2>1. PICK n \in kept : v = G(n)
    BY <1>1
  <2>2. v[1] = n[1] /\ n \in t /\ Clear(n[1], secrets)
    BY <1>2, <2>1
  <2> QED BY <2>1, <2>2
<1>4. ASSUME NEW n \in t, Clear(n[1], secrets) PROVE G(n) \in Mask(t, secrets)
  BY <1>1, <1>4
<1> QED BY <1>3, <1>4

\* Masking keeps a tree a tree and an object an object, and masking again adds nothing.
LEMMA Masking ==
  ASSUME NEW t \in Trees, NEW secrets \in SUBSET (Paths \ {<<>>})
  PROVE  /\ Mask(t, secrets) \in Trees
         /\ t \in Dicts => Mask(t, secrets) \in Dicts
         /\ Mask(Mask(t, secrets), secrets) = Mask(t, secrets)
<1> DEFINE u == Mask(t, secrets)
<1>1. /\ \A n \in t : Clear(n[1], secrets) /\ n[1] \notin secrets => n \in u
      /\ \A n \in t : Clear(n[1], secrets) /\ n[1] \in secrets => <<n[1], Masked>> \in u
      /\ \A v \in u : /\ Clear(v[1], secrets)
                      /\ v[1] \notin secrets => v \in t
                      /\ v[1] \in secrets => v = <<v[1], Masked>> /\ \E n \in t : n[1] = v[1]
  BY MaskNodes
<1>2. u \in SUBSET (Paths \X (Leaves \cup {"dict"}))
  <2>1. ASSUME NEW v \in u PROVE v \in Paths \X (Leaves \cup {"dict"})
    <3>1. CASE v[1] \in secrets
      BY <1>1, <3>1, JsonAssumption, MergeAssumption
    <3>2. CASE v[1] \notin secrets
      BY <1>1, <3>2 DEF Trees
    <3> QED BY <3>1, <3>2
  <2> QED BY <2>1
<1> HIDE DEF u
<1>3. \E n \in t : n[1] = <<>>
  BY DEF Trees, IsTree
<1>4. Clear(<<>>, secrets) /\ <<>> \notin secrets
  <2>1. ASSUME NEW s \in secrets PROVE ~IsStrictPrefix(s, <<>>)
    <3>1. <<>> \in Paths /\ Len(<<>>) = 0 /\ s \in Paths /\ Len(s) \in Nat
      BY DEF Paths
    <3> QED BY <3>1, StrictPrefix
  <2> QED BY <2>1 DEF Clear
<1>5. \A n \in t : n[1] = <<>> => n \in u
  BY <1>1, <1>4
<1>6. \A m, n \in u : m[1] = n[1] => m = n
  <2> SUFFICES ASSUME NEW m \in u, NEW n \in u, m[1] = n[1] PROVE m = n
    OBVIOUS
  <2>1. CASE m[1] \in secrets
    BY <1>1, <2>1
  <2>2. CASE m[1] \notin secrets
    BY <1>1, <2>2, TreeFacts
  <2> QED BY <2>1, <2>2
<1>7. ASSUME NEW n \in u, NEW p \in Paths, IsStrictPrefix(p, n[1])
      PROVE  <<p, "dict">> \in u
  <2>1. PICK m \in t : m[1] = n[1]
    BY <1>1
  <2>2. <<p, "dict">> \in t /\ m[1] \in Paths
    BY <1>7, <2>1, TreeFacts
  <2>3. p \notin secrets
    BY <1>1, <1>7 DEF Clear
  <2>4. Clear(p, secrets)
    <3>1. Clear(n[1], secrets) /\ n[1] \in Paths
      BY <1>1, <2>1, <2>2
    <3> QED BY <1>7, <3>1, ClearAbove
  <2>5. <<p, "dict">>[1] = p
    OBVIOUS
  <2> QED BY <1>1, <2>2, <2>3, <2>4, <2>5
<1>8. u \in Trees
  <2>1. \E n \in u : n[1] = <<>>
    BY <1>3, <1>5
  <2> QED BY <1>2, <1>6, <1>7, <2>1, IsATree
<1>9. t \in Dicts => u \in Dicts
  BY <1>5, <1>8 DEF Dicts
<1>10. Mask(u, secrets) = u
  <2> DEFINE w == Mask(u, secrets)
  <2>1. /\ \A n \in u : Clear(n[1], secrets) /\ n[1] \notin secrets => n \in w
        /\ \A n \in u : Clear(n[1], secrets) /\ n[1] \in secrets => <<n[1], Masked>> \in w
        /\ \A v \in w : /\ Clear(v[1], secrets)
                        /\ v[1] \notin secrets => v \in u
                        /\ v[1] \in secrets => v = <<v[1], Masked>> /\ \E n \in u : n[1] = v[1]
    BY <1>8, MaskNodes
  <2> HIDE DEF w
  <2>2. ASSUME NEW n \in u PROVE n \in w
    <3>1. CASE n[1] \in secrets
      BY <1>1, <2>1, <3>1
    <3>2. CASE n[1] \notin secrets
      BY <1>1, <2>1, <3>2
    <3> QED BY <3>1, <3>2
  <2>3. ASSUME NEW v \in w PROVE v \in u
    <3>1. CASE v[1] \in secrets
      BY <1>1, <2>1, <3>1
    <3>2. CASE v[1] \notin secrets
      BY <2>1, <3>2
    <3> QED BY <3>1, <3>2
  <2> QED BY <2>2, <2>3 DEF w
<1> QED BY <1>8, <1>9, <1>10 DEF u

LEMMA MaskEmpty ==
  ASSUME NEW secrets \in SUBSET (Paths \ {<<>>})
  PROVE  Mask(EmptyDict, secrets) = EmptyDict
<1>1. EmptyDict \in Dicts /\ EmptyDict \in Trees /\ Mask(EmptyDict, secrets) \in Dicts
  BY EmptyIsADict, DictFacts, Masking
<1>2. ASSUME NEW v \in Mask(EmptyDict, secrets) PROVE v \in EmptyDict
  <2>1. v[1] \in secrets => \E n \in EmptyDict : n[1] = v[1]
    BY <1>1, MaskNodes
  <2>2. v[1] \notin secrets
    BY <2>1 DEF EmptyDict
  <2> QED BY <1>1, <2>2, MaskNodes
<1>3. << <<>>, "dict">> \in Mask(EmptyDict, secrets)
  BY <1>1, DictFacts
<1> QED BY <1>2, <1>3 DEF EmptyDict

\* Masking the merge of two objects gives the merge of the masked objects, for any
\* secret fields at any depth (server/router.py:787, 804).
THEOREM MaskMerge ==
  ASSUME NEW a \in Dicts, NEW b \in Dicts, NEW secrets \in SUBSET (Paths \ {<<>>})
  PROVE  Mask(Merge(a, b), secrets) = Merge(Mask(a, secrets), Mask(b, secrets))
<1> DEFINE t == Overlaid(a, b)
           c == Mask(a, secrets)
           d == Mask(b, secrets)
           u == Mask(t, secrets)
           w == Overlaid(c, d)
<1>1. a \in Trees /\ b \in Trees /\ t \in Trees /\ c \in Dicts /\ d \in Dicts /\ b \subseteq t
  BY DictFacts, OverlaidDict, Masking DEF Overlaid
<1>2. Merge(a, b) = t /\ Merge(c, d) = w
  BY <1>1, MergeIs
<1>3. \A n \in t : Clear(n[1], secrets) => IF n[1] \in secrets THEN <<n[1], Masked>> \in u ELSE n \in u
  BY <1>1, MaskNodes
<1>4. \A n \in a : Clear(n[1], secrets) => IF n[1] \in secrets THEN <<n[1], Masked>> \in c ELSE n \in c
  BY <1>1, MaskNodes
<1>5. \A n \in b : Clear(n[1], secrets) => IF n[1] \in secrets THEN <<n[1], Masked>> \in d ELSE n \in d
  BY <1>1, MaskNodes
<1>6. \A v \in u : /\ Clear(v[1], secrets)
                   /\ IF v[1] \in secrets THEN v = <<v[1], Masked>> /\ \E n \in t : n[1] = v[1] ELSE v \in t
  BY <1>1, MaskNodes
<1>7. \A v \in c : /\ Clear(v[1], secrets)
                   /\ IF v[1] \in secrets THEN v = <<v[1], Masked>> /\ \E n \in a : n[1] = v[1] ELSE v \in a
  BY <1>1, MaskNodes
<1>8. \A v \in d : /\ Clear(v[1], secrets)
                   /\ IF v[1] \in secrets THEN v = <<v[1], Masked>> /\ \E n \in b : n[1] = v[1] ELSE v \in b
  BY <1>1, MaskNodes
<1> HIDE DEF c, d, u
<1>9. ASSUME NEW p \in Paths, Clear(p, secrets)
      PROVE  /\ Erases(b, p) <=> Erases(d, p)
             /\ (\E o \in b : o[1] = p) <=> (\E o \in d : o[1] = p)
  <2>1. ASSUME NEW o \in b, IsStrictPrefix(o[1], p) PROVE o \in d
    <3>1. o[1] \in Paths /\ o[1] \notin secrets
      BY <1>1, <1>9, <2>1, TreeFacts DEF Clear
    <3>2. Clear(o[1], secrets)
      BY <1>9, <2>1, <3>1, ClearAbove
    <3> QED BY <1>5, <3>1, <3>2
  <2>2. ASSUME NEW o \in d, IsStrictPrefix(o[1], p) PROVE o \in b
    BY <1>8, <1>9, <2>2 DEF Clear
  <2>3. Erases(b, p) <=> Erases(d, p)
    BY <2>1, <2>2 DEF Erases, Nodes
  <2>4. ASSUME NEW o \in b, o[1] = p PROVE \E q \in d : q[1] = p
    <3>1. <<o[1], Masked>>[1] = o[1]
      OBVIOUS
    <3> QED BY <1>5, <1>9, <2>4, <3>1
  <2>5. ASSUME NEW o \in d, o[1] = p PROVE \E q \in b : q[1] = p
    BY <1>8, <2>5
  <2> QED BY <2>3, <2>4, <2>5
<1>10. ASSUME NEW v \in u PROVE v \in w
  <2>1. PICK n \in t : n[1] = v[1] /\ (v[1] \in secrets => v = <<v[1], Masked>>)
                                  /\ (v[1] \notin secrets => v = n)
    BY <1>6
  <2>2. n[1] \in Paths /\ Clear(n[1], secrets)
    BY <1>1, <1>6, <2>1, TreeFacts
  <2>3. CASE n \in b
    <3>1. v \in d
      BY <1>5, <2>1, <2>2, <2>3
    <3> QED BY <3>1 DEF Overlaid
  <2>4. CASE n \notin b
    <3>1. n \in a /\ (\A o \in b : o[1] # n[1]) /\ ~Erases(b, n[1])
      BY <2>4 DEF Overlaid
    <3>2. v \in c
      BY <1>4, <2>1, <2>2, <3>1
    <3>3. (\A o \in d : o[1] # v[1]) /\ ~Erases(d, v[1])
      BY <1>9, <2>1, <2>2, <3>1
    <3> QED BY <3>2, <3>3 DEF Overlaid
  <2> QED BY <2>3, <2>4
<1>11. ASSUME NEW v \in w PROVE v \in u
  <2>1. CASE v \in d
    <3>1. PICK n \in b : n[1] = v[1] /\ (v[1] \in secrets => v = <<v[1], Masked>>)
                                    /\ (v[1] \notin secrets => v = n)
      BY <1>8, <2>1
    <3>2. n \in t /\ Clear(n[1], secrets)
      BY <1>1, <1>8, <2>1, <3>1
    <3> QED BY <1>3, <3>1, <3>2
  <2>2. CASE v \notin d
    <3>1. v \in c /\ (\A o \in d : o[1] # v[1]) /\ ~Erases(d, v[1])
      BY <2>2 DEF Overlaid
    <3>2. PICK n \in a : n[1] = v[1] /\ (v[1] \in secrets => v = <<v[1], Masked>>)
                                    /\ (v[1] \notin secrets => v = n)
      BY <1>7, <3>1
    <3>3. n[1] \in Paths /\ Clear(n[1], secrets)
      BY <1>1, <1>7, <3>1, <3>2, TreeFacts
    <3>4. (\A o \in b : o[1] # n[1]) /\ ~Erases(b, n[1])
      BY <1>9, <3>1, <3>2, <3>3
    <3>5. n \in t
      BY <3>4 DEF Overlaid
    <3> QED BY <1>3, <3>2, <3>3, <3>5
  <2> QED BY <2>1, <2>2
<1>12. u = w
  BY <1>10, <1>11
<1> QED BY <1>2, <1>12 DEF c, d, u

------------------------------------------------------------------------------
(* The last write of each path *)

LEMMA LastWritesAppend ==
  ASSUME NEW chunks \in Seq(Dicts), NEW d \in Dicts
  PROVE  LastWrites(Append(chunks, d)) =
           Nodes(d) \cup {n \in LastWrites(chunks) : /\ \A o \in Nodes(d) : o[1] # n[1]
                                                     /\ ~Erases(d, n[1])}
<1> DEFINE more == Append(chunks, d)
           L == Len(chunks)
           Kept(n, o) == (\A x \in Nodes(o) : x[1] # n[1]) /\ ~Erases(o, n[1])
           W(s, i) == {n \in Nodes(s[i]) : \A j \in i + 1 .. Len(s) : Kept(n, s[j])}
<1>1. /\ L \in Nat /\ Len(more) = L + 1 /\ DOMAIN chunks = 1 .. L /\ DOMAIN more = 1 .. L + 1
      /\ more[L + 1] = d /\ \A i \in 1 .. L : more[i] = chunks[i]
  OBVIOUS
<1>2. \A s : LastWrites(s) = UNION {W(s, i) : i \in DOMAIN s}
  BY DEF LastWrites
<1> HIDE DEF more, L, Kept
<1>3. W(more, L + 1) = Nodes(d)
  <2>1. \A j : j \notin L + 1 + 1 .. L + 1
    BY <1>1
  <2> QED BY <1>1, <2>1
<1>4. ASSUME NEW i \in 1 .. L PROVE W(more, i) = {n \in W(chunks, i) : Kept(n, d)}
  <2>1. \A n : (\A j \in i + 1 .. Len(more) : Kept(n, more[j]))
               <=> (\A j \in i + 1 .. L : Kept(n, chunks[j])) /\ Kept(n, d)
    <3>1. \A j : j \in i + 1 .. L + 1 <=> j \in i + 1 .. L \/ j = L + 1
      BY <1>1
    <3>2. \A j \in i + 1 .. L : more[j] = chunks[j]
      BY <1>1
    <3> QED BY <1>1, <3>1, <3>2
  <2>2. more[i] = chunks[i] /\ Len(chunks) = L
    BY <1>1 DEF L
  <2> QED BY <2>1, <2>2
<1>5. ASSUME NEW n
      PROVE  n \in LastWrites(more) <=> n \in Nodes(d) \/ (n \in LastWrites(chunks) /\ Kept(n, d))
  <2>1. n \in LastWrites(more) <=> \E i \in 1 .. L + 1 : n \in W(more, i)
    BY <1>1, <1>2
  <2>2. n \in LastWrites(chunks) <=> \E i \in 1 .. L : n \in W(chunks, i)
    BY <1>1, <1>2
  <2>3. \A i \in 1 .. L : n \in W(more, i) <=> n \in W(chunks, i) /\ Kept(n, d)
    BY <1>4
  <2>4. n \in W(more, L + 1) <=> n \in Nodes(d)
    BY <1>3
  <2>5. \A i : i \in 1 .. L + 1 <=> i \in 1 .. L \/ i = L + 1
    BY <1>1
  <2> HIDE DEF W
  <2> QED BY <2>1, <2>2, <2>3, <2>4, <2>5
<1> QED BY <1>5 DEF more, Kept

\* Merging one more chunk into the last writes of a sequence of chunks gives the last
\* writes of the longer sequence.
THEOREM MergeWrites ==
  ASSUME NEW t \in Dicts, NEW chunks \in Seq(Dicts), NEW d \in Dicts, Nodes(t) = LastWrites(chunks)
  PROVE  Nodes(Merge(t, d)) = LastWrites(Append(chunks, d))
<1>1. Nodes(Overlaid(t, d)) =
        Nodes(d) \cup {n \in Nodes(t) : (\A o \in Nodes(d) : o[1] # n[1]) /\ ~Erases(d, n[1])}
  BY DEF Overlaid, Nodes
<1> QED BY <1>1, MergeIs, LastWritesAppend

------------------------------------------------------------------------------
(* Dispatch *)

\* What _maybe_redact makes of a tree when it does not fail.
Mine(c, t) == IF Tool(c) \in masked THEN Redact(Tool(c), t) ELSE t

RouteInv(c) ==
  /\ phase[c] \in {"idle", "bridge", "submitting", "calling"} => delivered[c] = <<>>
  /\ At(c, "bridge") => Tool(c) \notin Modules
  /\ At(c, "submitting") => Tool(c) \in hinted \cup replaced
  /\ c \in accepted => At(c, "answered")

StreamInv(c) ==
  c \notin leaked =>
    /\ seen[c] = Mine(c, acc[c])
    /\ At(c, "sending") => message[c] = Mine(c, chunk[c])
    /\ \A i \in DOMAIN delivered[c] : Mine(c, delivered[c][i]) = delivered[c][i]

AnswerInv(c) ==
  /\ Answered(c) =>
       /\ delivered[c] # <<>> /\ c \notin leaked => answer[c].data = seen[c]
       /\ c \notin leaked /\ c \notin accepted => Mine(c, answer[c].data) = answer[c].data
       /\ request[c].modern /\ Tool(c) \in advertised
          => answer[c].structured /\ answer[c].data \in Dicts /\ Valid(Tool(c), answer[c].data)
  /\ c \in accepted /\ Tool(c) \notin replaced => answer[c].data = Envelope

\* A tool listed with a schema that now submits tasks had its module replaced.
ListedInv == advertised \cap hinted \subseteq replaced

CallInv(c) == RouteInv(c) /\ StreamInv(c) /\ AnswerInv(c)
IInv == TypeOK /\ ListedInv /\ \A c \in Calls : CallInv(c)

-----------------------------------------------------------------------------
\* What a module's redaction makes of a value.
LEMMA Redacted ==
  ASSUME NEW m \in Modules
  PROVE  /\ \A t \in Trees : Redact(m, t) \in Trees /\ Redact(m, Redact(m, t)) = Redact(m, t)
         /\ \A t \in Dicts : Redact(m, t) \in Dicts
         /\ EmptyDict \in Dicts /\ Redact(m, EmptyDict) = EmptyDict
<1>1. Secrets[m] \in SUBSET (Paths \ {<<>>})
  BY DispatchAssumption
<1> QED BY <1>1, Masking, MaskEmpty, EmptyIsADict, DictFacts DEF Redact

LEMMA Merged ==
  ASSUME NEW a \in Dicts, NEW b \in Dicts
  PROVE  /\ Merge(a, b) \in Dicts
         /\ \A m \in Modules : Redact(m, Merge(a, b)) = Merge(Redact(m, a), Redact(m, b))
<1>1. Merge(a, b) \in Dicts
  BY MergeIs, OverlaidDict
<1>2. ASSUME NEW m \in Modules
      PROVE  Redact(m, Merge(a, b)) = Merge(Redact(m, a), Redact(m, b))
  <2>1. Secrets[m] \in SUBSET (Paths \ {<<>>})
    BY DispatchAssumption
  <2> QED BY <2>1, MaskMerge DEF Redact
<1> QED BY <1>1, <1>2

\* What _maybe_redact returns is of the kind it was given, and masked for good
\* unless redaction failed on it.
LEMMA Redaction ==
  ASSUME TypeOK, NEW c \in Calls, NEW t \in Trees, NEW u \in MaybeRedact(c, t)
  PROVE  /\ u \in Trees
         /\ t \in Dicts => u \in Dicts
         /\ Mine(c, Mine(c, t)) = Mine(c, t)
         /\ Note(c, t, u) => /\ leaked \subseteq leaked' /\ leaked' \subseteq leaked \cup {c}
                             /\ c \notin leaked' => u = Mine(c, t)
<1>1. Tool(c) \in masked => Tool(c) \in Modules
  BY DispatchAssumption DEF TypeOK
<1> QED BY <1>1, Redacted DEF MaybeRedact, Note, Mine

\* A result that is no error holds the tree it was made of, and meets the schema of a
\* tool listed with one.
LEMMA ResultMeets ==
  ASSUME TypeOK, NEW c \in Calls, NEW t \in Trees, NEW json \in BOOLEAN
  PROVE  LET r == Result(c, t, json) IN
         /\ r \in [error : BOOLEAN, data : Trees \cup {NoTree}, structured : BOOLEAN]
         /\ ~r.error => /\ r.data = t
                        /\ request[c].modern /\ Tool(c) \in advertised
                           => r.structured /\ t \in Dicts /\ Valid(Tool(c), t)
         /\ r.error => ~(request[c].modern => Tool(c) \notin advertised)
<1> DEFINE s == request[c].modern /\ json /\ t \in Dicts
           q == /\ request[c].modern /\ Tool(c) \in advertised
                /\ ~(s /\ Valid(Tool(c), t))
           good == [error |-> FALSE, data |-> t, structured |-> s]
<1>1. Result(c, t, json) = IF q THEN Error ELSE good
  BY DEF Result
<1>2. s \in BOOLEAN
  OBVIOUS
<1> HIDE DEF s
<1>3. Error \in [error : BOOLEAN, data : Trees \cup {NoTree}, structured : BOOLEAN] /\ Error.error
  BY DEF Error
<1>4. good \in [error : BOOLEAN, data : Trees \cup {NoTree}, structured : BOOLEAN]
  BY <1>2
<1>5. ~good.error /\ good.data = t /\ good.structured = s
  OBVIOUS
<1>6. s => t \in Dicts
  BY DEF s
<1> HIDE DEF good
<1>7. CASE q
  BY <1>1, <1>3, <1>7
<1>8. CASE ~q
  BY <1>1, <1>4, <1>5, <1>6, <1>8
<1> QED BY <1>7, <1>8

\* A step that leaves a call alone keeps what is known of it.
LEMMA Frame ==
  ASSUME NEW d \in Calls, CallInv(d), UNCHANGED <<snapshotVars, registryVars, request>>,
         phase'[d] = phase[d], chunk'[d] = chunk[d], message'[d] = message[d],
         acc'[d] = acc[d], delivered'[d] = delivered[d], seen'[d] = seen[d],
         answer'[d] = answer[d], d \in accepted' <=> d \in accepted, d \in leaked' <=> d \in leaked
  PROVE  CallInv(d)'
BY DEF CallInv, RouteInv, StreamInv, AnswerInv, Mine, Tool, At, Answered, snapshotVars, registryVars

LEMMA InitInv == Init => IInv
<1> SUFFICES ASSUME Init PROVE IInv
  OBVIOUS
<1>1. TypeOK
  <2>1. answer \in [Calls -> [error : BOOLEAN, data : Trees \cup {NoTree}, structured : BOOLEAN]]
    BY DEF Init, NoAnswer
  <2>2. hinted \subseteq Modules /\ advertised \subseteq ObjectSchema /\ masked \subseteq WithSchema
    BY DEF Init, Listed
  <2>3. delivered \in [Calls -> Seq(Dicts)]
    BY DEF Init
  <2> QED BY <2>1, <2>2, <2>3, EmptyIsADict DEF Init, TypeOK
<1>2. ListedInv
  BY DEF Init, ListedInv, Listed
<1>3. ASSUME NEW c \in Calls PROVE CallInv(c)
  <2>1. Mine(c, EmptyDict) = EmptyDict
    BY <1>1, Redacted, DispatchAssumption DEF Mine, TypeOK
  <2>2. delivered[c] = <<>> /\ DOMAIN delivered[c] = {}
    BY DEF Init
  <2> QED BY <2>1, <2>2 DEF Init, CallInv, RouteInv, StreamInv, AnswerInv, At, Answered
<1> QED BY <1>1, <1>2, <1>3 DEF IInv

-----------------------------------------------------------------------------
\* Every step of a call keeps the types.
LEMMA TypeStep ==
  ASSUME TypeOK, [Next]_vars
  PROVE  TypeOK'
<1>0. Error \in [error : BOOLEAN, data : Trees \cup {NoTree}, structured : BOOLEAN]
  BY DEF Error
<1>1. ASSUME NEW c \in Calls,
             ToBridge(c) \/ ToTasks(c) \/ ToRouter(c) \/ Refuse(c) \/ Fail(c) \/ Abort(c)
      PROVE  TypeOK'
  <2>1. CASE ToBridge(c) \/ ToTasks(c) \/ ToRouter(c) \/ Abort(c)
    <3>1. /\ \E p \in {"bridge", "submitting", "streaming", "calling", "cancelled"} : Goto(c, p)
          /\ Quiet /\ UNCHANGED <<streamVars, accepted, leaked, answer>>
      BY <2>1 DEF ToBridge, ToTasks, ToRouter, Abort
    <3> QED BY <3>1 DEF TypeOK, Goto, Quiet, snapshotVars, registryVars, streamVars
  <2>2. CASE Refuse(c) \/ Fail(c)
    <3>1. Reply(c, Error) /\ Quiet /\ UNCHANGED <<streamVars, accepted, leaked>>
      BY <2>2 DEF Refuse, Fail
    <3> QED BY <3>1, <1>0 DEF TypeOK, Reply, Goto, Quiet, snapshotVars, registryVars, streamVars
  <2> QED BY <1>1, <2>1, <2>2
<1>2. ASSUME NEW c \in Calls, BridgeAnswers(c) \/ Submitted(c)
      PROVE  TypeOK'
  <2>1. Envelope \in Trees
    BY DispatchAssumption, DictFacts
  <2>2. Result(c, Envelope, TRUE)
          \in [error : BOOLEAN, data : Trees \cup {NoTree}, structured : BOOLEAN]
    BY <2>1, ResultMeets
  <2>3. PICK a \in {Result(c, Envelope, TRUE), Error} :
          Reply(c, a) /\ Quiet /\ UNCHANGED <<streamVars, leaked>>
    BY <1>2 DEF BridgeAnswers, Submitted
  <2>4. accepted' \subseteq Calls
    BY <1>2 DEF TypeOK, BridgeAnswers, Submitted
  <2>5. a \in [error : BOOLEAN, data : Trees \cup {NoTree}, structured : BOOLEAN]
    BY <1>0, <2>2
  <2> QED BY <2>3, <2>4, <2>5 DEF TypeOK, Reply, Goto, Quiet, snapshotVars, registryVars, streamVars
<1>3. ASSUME NEW c \in Calls, Called(c)
      PROVE  TypeOK'
  <2>1. PICK t \in Results : \E u \in MaybeRedact(c, t), json \in IsJson :
          Note(c, t, u) /\ Reply(c, Result(c, u, json))
    BY <1>3 DEF Called
  <2>2. PICK u \in MaybeRedact(c, t), json \in IsJson :
          Note(c, t, u) /\ Reply(c, Result(c, u, json))
    BY <2>1
  <2>a. t \in Trees /\ json \in BOOLEAN
    BY DispatchAssumption DEF IsJson
  <2>3. u \in Trees
    BY <2>a, Redaction
  <2>4. Result(c, u, json) \in [error : BOOLEAN, data : Trees \cup {NoTree}, structured : BOOLEAN]
    BY <2>a, <2>3, ResultMeets
  <2>5. leaked' \subseteq Calls
    BY <2>2 DEF TypeOK, Note
  <2> QED BY <1>3, <2>2, <2>4, <2>5 DEF TypeOK, Called, Reply, Goto, Quiet,
             snapshotVars, registryVars, streamVars
<1>4. ASSUME NEW c \in Calls, Yielded(c)
      PROVE  TypeOK'
  <2>0. PICK t \in Results \cap Dicts : \E u \in MaybeRedact(c, t) :
          /\ chunk' = [chunk EXCEPT ![c] = t] /\ message' = [message EXCEPT ![c] = u]
          /\ Note(c, t, u)
    BY <1>4 DEF Yielded
  <2>1. PICK u \in MaybeRedact(c, t) :
          /\ chunk' = [chunk EXCEPT ![c] = t] /\ message' = [message EXCEPT ![c] = u]
          /\ Note(c, t, u)
    BY <2>0
  <2>a. t \in Trees /\ t \in Dicts
    BY DispatchAssumption
  <2>2. u \in Dicts
    BY <2>a, Redaction
  <2>3. leaked' \subseteq Calls
    BY <2>1 DEF TypeOK, Note
  <2> QED BY <1>4, <2>1, <2>2, <2>3 DEF TypeOK, Yielded, Goto, Quiet, snapshotVars, registryVars
<1>5. ASSUME NEW c \in Calls, Sent(c)
      PROVE  TypeOK'
  <2>1. Merge(seen[c], message[c]) \in Dicts /\ Merge(acc[c], chunk[c]) \in Dicts
    BY Merged DEF TypeOK
  <2>2. Append(delivered[c], message[c]) \in Seq(Dicts)
    BY DEF TypeOK
  <2> QED BY <1>5, <2>1, <2>2 DEF TypeOK, Sent, Goto, Quiet, snapshotVars, registryVars
<1>6. ASSUME NEW c \in Calls, StreamEnds(c)
      PROVE  TypeOK'
  <2>1. PICK u \in MaybeRedact(c, acc[c]), json \in IsJson :
          Note(c, acc[c], u) /\ Reply(c, Result(c, u, json))
    BY <1>6 DEF StreamEnds
  <2>a. acc[c] \in Trees /\ json \in BOOLEAN
    BY DictFacts DEF TypeOK, IsJson
  <2>2. u \in Trees
    BY <2>a, Redaction
  <2>3. Result(c, u, json) \in [error : BOOLEAN, data : Trees \cup {NoTree}, structured : BOOLEAN]
    BY <2>a, <2>2, ResultMeets
  <2>4. leaked' \subseteq Calls
    BY <2>1 DEF TypeOK, Note
  <2> QED BY <1>6, <2>1, <2>3, <2>4 DEF TypeOK, StreamEnds, Reply, Goto, Quiet,
             snapshotVars, registryVars, streamVars
<1>7. ASSUME NEW m \in Modules, Replace(m)
      PROVE  TypeOK'
  BY <1>7 DEF TypeOK, Replace, snapshotVars, streamVars
<1>8. CASE UNCHANGED vars
  BY <1>8 DEF TypeOK, vars, snapshotVars, registryVars, streamVars
<1> QED BY <1>1, <1>2, <1>3, <1>4, <1>5, <1>6, <1>7, <1>8 DEF Next

-----------------------------------------------------------------------------
\* A call keeps what is known of it in each of its own steps.
LEMMA RouteStep ==
  ASSUME TypeOK, ListedInv, NEW c \in Calls, CallInv(c),
         ToBridge(c) \/ ToTasks(c) \/ ToRouter(c) \/ Refuse(c) \/ Fail(c) \/ Abort(c)
  PROVE  CallInv(c)'
<1>1. CASE ToBridge(c) \/ ToTasks(c) \/ ToRouter(c) \/ Abort(c)
  <2>1. /\ phase'[c] \in {"bridge", "submitting", "streaming", "calling", "cancelled"}
        /\ phase'[c] \in {"bridge", "submitting", "calling"} => At(c, "idle")
        /\ phase'[c] = "bridge" => Tool(c) \notin Modules
        /\ phase'[c] = "submitting" => Tool(c) \in hinted
        /\ ~At(c, "answered")
    BY <1>1, DispatchAssumption DEF TypeOK, ToBridge, ToTasks, ToRouter, Abort, Goto, At, IsBridgeTool, IsTask
  <2>2. Quiet /\ UNCHANGED <<streamVars, accepted, leaked, answer>>
    BY <1>1 DEF ToBridge, ToTasks, ToRouter, Abort
  <2> QED BY <2>1, <2>2 DEF CallInv, RouteInv, StreamInv, AnswerInv, Answered, At, Mine, Tool, Quiet,
             snapshotVars, registryVars, streamVars
<1>2. CASE Refuse(c) \/ Fail(c)
  <2>1. /\ Reply(c, Error) /\ Quiet /\ UNCHANGED <<streamVars, accepted, leaked>>
        /\ ~At(c, "answered")
    BY <1>2 DEF Refuse, Fail, At
  <2>2. phase'[c] = "answered" /\ answer'[c].error
    BY <2>1 DEF TypeOK, Reply, Goto, Error
  <2> QED BY <2>1, <2>2 DEF CallInv, RouteInv, StreamInv, AnswerInv, Answered, At, Mine, Tool, Quiet,
             snapshotVars, registryVars, streamVars
<1> QED BY <1>1, <1>2

LEMMA BridgeStep ==
  ASSUME TypeOK, ListedInv, NEW c \in Calls, CallInv(c), BridgeAnswers(c) \/ Submitted(c)
  PROVE  CallInv(c)'
<1>1. Envelope \in Trees
  BY DispatchAssumption, DictFacts
<1> DEFINE r == Result(c, Envelope, TRUE)
<1>2. /\ ~r.error => /\ r.data = Envelope
                     /\ request[c].modern /\ Tool(c) \in advertised
                        => r.structured /\ Envelope \in Dicts /\ Valid(Tool(c), Envelope)
      /\ r.error => ~(request[c].modern => Tool(c) \notin advertised)
  BY <1>1, ResultMeets
<1>3. PICK a \in {r, Error} :
        /\ Reply(c, a) /\ Quiet /\ UNCHANGED <<streamVars, leaked>>
        /\ Submitted(c) => a = r
  BY DEF BridgeAnswers, Submitted
<1>4. phase'[c] = "answered" /\ answer'[c] = a /\ Error.error
  BY <1>3 DEF TypeOK, Reply, Goto, Error
<1>5. delivered[c] = <<>> /\ c \notin accepted
  BY DEF CallInv, RouteInv, BridgeAnswers, Submitted, At
<1>6. Submitted(c) => c \in accepted' /\ (Tool(c) \notin replaced => Tool(c) \notin advertised)
  BY DEF Submitted, CallInv, RouteInv, ListedInv
<1>7. ~Submitted(c) => Tool(c) \notin masked /\ c \notin accepted'
  BY <1>5, DispatchAssumption DEF TypeOK, BridgeAnswers, CallInv, RouteInv
<1> HIDE DEF r
<1>8. RouteInv(c)' /\ StreamInv(c)'
  BY <1>3, <1>4, <1>5 DEF CallInv, RouteInv, StreamInv, At, Mine, Tool, Quiet,
     snapshotVars, registryVars, streamVars
<1>9. AnswerInv(c)'
  <2>1. Answered(c)' => a = r /\ ~r.error
    BY <1>3, <1>4 DEF Answered
  <2>2. (request[c].modern /\ Tool(c) \in advertised)' = (request[c].modern /\ Tool(c) \in advertised)
    BY <1>3 DEF Quiet, snapshotVars, Tool
  <2>3. Tool(c)' = Tool(c) /\ masked' = masked /\ replaced' = replaced /\ delivered' = delivered
    BY <1>3 DEF Quiet, snapshotVars, registryVars, streamVars, Tool
  <2>4. c \in accepted' /\ Tool(c) \notin replaced => answer'[c].data = Envelope
    BY <1>2, <1>3, <1>4, <1>5, <1>6, <1>7
  <2> QED BY <1>2, <1>4, <1>5, <1>6, <1>7, <2>1, <2>2, <2>3, <2>4 DEF AnswerInv, Mine
<1> QED BY <1>8, <1>9 DEF CallInv

LEMMA CalledStep ==
  ASSUME TypeOK, NEW c \in Calls, CallInv(c), Called(c)
  PROVE  CallInv(c)'
<1>1. PICK t \in Results : \E u \in MaybeRedact(c, t), json \in IsJson :
        Note(c, t, u) /\ Reply(c, Result(c, u, json))
  BY DEF Called
<1>2. PICK u \in MaybeRedact(c, t), json \in IsJson :
        Note(c, t, u) /\ Reply(c, Result(c, u, json))
  BY <1>1
<1>3. t \in Trees /\ json \in BOOLEAN
  BY DispatchAssumption DEF IsJson
<1>4. /\ u \in Trees /\ Mine(c, Mine(c, t)) = Mine(c, t)
      /\ leaked \subseteq leaked' /\ (c \notin leaked' => u = Mine(c, t))
  BY <1>2, <1>3, Redaction
<1> DEFINE r == Result(c, u, json)
<1>5. ~r.error => /\ r.data = u
                  /\ request[c].modern /\ Tool(c) \in advertised
                     => r.structured /\ u \in Dicts /\ Valid(Tool(c), u)
  BY <1>3, <1>4, ResultMeets
<1>6. phase'[c] = "answered" /\ answer'[c] = r
  BY <1>2 DEF TypeOK, Reply, Goto
<1>7. Quiet /\ UNCHANGED <<streamVars, accepted>>
  BY DEF Called
<1>8. delivered[c] = <<>> /\ c \notin accepted
  BY DEF CallInv, RouteInv, Called, At
<1> HIDE DEF r
<1>9. RouteInv(c)' /\ StreamInv(c)'
  BY <1>4, <1>6, <1>7, <1>8 DEF CallInv, RouteInv, StreamInv, At, Mine, Tool, Quiet,
     snapshotVars, registryVars, streamVars
<1>10. AnswerInv(c)'
  BY <1>4, <1>5, <1>6, <1>7, <1>8 DEF AnswerInv, Answered, At, Mine, Tool, Quiet,
     snapshotVars, registryVars, streamVars
<1> QED BY <1>9, <1>10 DEF CallInv

LEMMA YieldedStep ==
  ASSUME TypeOK, NEW c \in Calls, CallInv(c), Yielded(c)
  PROVE  CallInv(c)'
<1>1. PICK t \in Results \cap Dicts : \E u \in MaybeRedact(c, t) :
        /\ chunk' = [chunk EXCEPT ![c] = t] /\ message' = [message EXCEPT ![c] = u]
        /\ Note(c, t, u)
  BY DEF Yielded
<1>2. PICK u \in MaybeRedact(c, t) :
        /\ chunk' = [chunk EXCEPT ![c] = t] /\ message' = [message EXCEPT ![c] = u]
        /\ Note(c, t, u)
  BY <1>1
<1>3. t \in Trees
  BY DispatchAssumption
<1>4. leaked \subseteq leaked' /\ (c \notin leaked' => u = Mine(c, t))
  BY <1>2, <1>3, Redaction
<1>5. chunk'[c] = t /\ message'[c] = u /\ phase'[c] = "sending" /\ At(c, "streaming")
  BY <1>2 DEF TypeOK, Yielded, Goto
<1>6. Quiet /\ UNCHANGED <<acc, delivered, seen, accepted, answer>>
  BY DEF Yielded
<1> QED BY <1>4, <1>5, <1>6 DEF CallInv, RouteInv, StreamInv, AnswerInv, Answered, At, Mine, Tool, Quiet,
        snapshotVars, registryVars

LEMMA SentStep ==
  ASSUME TypeOK, NEW c \in Calls, CallInv(c), Sent(c)
  PROVE  CallInv(c)'
<1>1. /\ delivered'[c] = Append(delivered[c], message[c])
      /\ seen'[c] = Merge(seen[c], message[c]) /\ acc'[c] = Merge(acc[c], chunk[c])
      /\ phase'[c] = "streaming" /\ At(c, "sending")
  BY DEF TypeOK, Sent, Goto
<1>2. Quiet /\ UNCHANGED <<chunk, message, accepted, leaked, answer>>
  BY DEF Sent
<1>4. RouteInv(c)' /\ AnswerInv(c)'
  BY <1>1, <1>2 DEF CallInv, RouteInv, AnswerInv, Answered, At, Tool, Quiet, registryVars
<1>5. StreamInv(c)'
  <2> SUFFICES ASSUME c \notin leaked
               PROVE  /\ seen'[c] = Mine(c, acc'[c])
                      /\ \A i \in DOMAIN delivered'[c] : Mine(c, delivered'[c][i]) = delivered'[c][i]
    BY <1>1, <1>2 DEF StreamInv, At, Mine, Tool, Quiet, snapshotVars
  <2>1. /\ seen[c] = Mine(c, acc[c]) /\ message[c] = Mine(c, chunk[c])
        /\ \A i \in DOMAIN delivered[c] : Mine(c, delivered[c][i]) = delivered[c][i]
    BY <1>1 DEF CallInv, StreamInv
  <2>2. acc[c] \in Dicts /\ chunk[c] \in Dicts /\ delivered[c] \in Seq(Dicts) /\ message[c] \in Dicts
    BY DEF TypeOK
  <2>3. Tool(c) \in masked => Tool(c) \in Modules
    BY DispatchAssumption DEF TypeOK
  <2>4. seen'[c] = Mine(c, acc'[c])
    BY <1>1, <2>1, <2>2, <2>3, Merged DEF Mine
  <2>5. Mine(c, message[c]) = message[c]
    BY <2>1, <2>2, <2>3, Redacted, DictFacts DEF Mine
  <2>6. ASSUME NEW i \in DOMAIN delivered'[c] PROVE Mine(c, delivered'[c][i]) = delivered'[c][i]
    <3>1. CASE i \in DOMAIN delivered[c]
      BY <1>1, <2>1, <2>2, <3>1
    <3>2. CASE i \notin DOMAIN delivered[c]
      BY <1>1, <2>2, <2>5, <2>6, <3>2
    <3> QED BY <3>1, <3>2
  <2> QED BY <2>4, <2>6
<1> QED BY <1>4, <1>5 DEF CallInv

LEMMA StreamEndsStep ==
  ASSUME TypeOK, NEW c \in Calls, CallInv(c), StreamEnds(c)
  PROVE  CallInv(c)'
<1>1. PICK u \in MaybeRedact(c, acc[c]), json \in IsJson :
        Note(c, acc[c], u) /\ Reply(c, Result(c, u, json))
  BY DEF StreamEnds
<1>2. acc[c] \in Trees /\ json \in BOOLEAN
  BY DictFacts DEF TypeOK, IsJson
<1>3. /\ u \in Trees /\ Mine(c, Mine(c, acc[c])) = Mine(c, acc[c])
      /\ leaked \subseteq leaked' /\ (c \notin leaked' => u = Mine(c, acc[c]))
  BY <1>1, <1>2, Redaction
<1> DEFINE r == Result(c, u, json)
<1>4. ~r.error => /\ r.data = u
                  /\ request[c].modern /\ Tool(c) \in advertised
                     => r.structured /\ u \in Dicts /\ Valid(Tool(c), u)
  BY <1>2, <1>3, ResultMeets
<1>5. phase'[c] = "answered" /\ answer'[c] = r
  BY <1>1 DEF TypeOK, Reply, Goto
<1>6. Quiet /\ UNCHANGED <<streamVars, accepted>>
  BY DEF StreamEnds
<1>7. c \notin accepted
  BY DEF CallInv, RouteInv, StreamEnds, At
<1>8. c \notin leaked => seen[c] = Mine(c, acc[c])
  BY DEF CallInv, StreamInv
<1> HIDE DEF r
<1>9. RouteInv(c)' /\ StreamInv(c)'
  BY <1>3, <1>5, <1>6, <1>7 DEF CallInv, RouteInv, StreamInv, At, Mine, Tool, Quiet,
     snapshotVars, registryVars, streamVars
<1>10. AnswerInv(c)'
  BY <1>3, <1>4, <1>5, <1>6, <1>7, <1>8 DEF AnswerInv, Answered, At, Mine, Tool, Quiet,
     snapshotVars, registryVars, streamVars
<1> QED BY <1>9, <1>10 DEF CallInv

LEMMA ReplaceStep ==
  ASSUME TypeOK, ListedInv, NEW m \in Modules, Replace(m)
  PROVE  ListedInv' /\ \A c \in Calls : CallInv(c) => CallInv(c)'
<1>1. /\ hinted' \subseteq hinted \cup {m} /\ hinted \subseteq hinted' \cup {m}
      /\ replaced' = replaced \cup {m}
      /\ UNCHANGED <<snapshotVars, phase, request, streamVars, accepted, leaked, answer>>
  BY DEF Replace
<1>2. ListedInv'
  BY <1>1 DEF ListedInv, snapshotVars
<1>3. ASSUME NEW c \in Calls, CallInv(c) PROVE CallInv(c)'
  BY <1>1, <1>3 DEF CallInv, RouteInv, StreamInv, AnswerInv, Answered, At, Mine, Tool,
     snapshotVars, streamVars
<1> QED BY <1>2, <1>3

-----------------------------------------------------------------------------
\* What a call's step changes, it changes for that call only.
Own(c) ==
  \/ ToBridge(c) \/ BridgeAnswers(c) \/ ToTasks(c) \/ Submitted(c)
  \/ ToRouter(c) \/ Refuse(c) \/ Fail(c) \/ Abort(c) \/ Called(c)
  \/ Yielded(c) \/ Sent(c) \/ StreamEnds(c)

LEMMA OthersKeep ==
  ASSUME TypeOK, NEW c \in Calls, Own(c), NEW d \in Calls \ {c}
  PROVE  /\ UNCHANGED <<snapshotVars, registryVars, request>>
         /\ phase'[d] = phase[d] /\ chunk'[d] = chunk[d] /\ message'[d] = message[d]
         /\ acc'[d] = acc[d] /\ delivered'[d] = delivered[d] /\ seen'[d] = seen[d]
         /\ answer'[d] = answer[d]
         /\ (d \in accepted' <=> d \in accepted) /\ (d \in leaked' <=> d \in leaked)
<1>1. UNCHANGED <<snapshotVars, registryVars, request>>
  BY DEF Own, ToBridge, BridgeAnswers, ToTasks, Submitted, ToRouter, Refuse, Fail, Abort, Called,
         Yielded, Sent, StreamEnds, Quiet
<1>2. phase'[d] = phase[d] /\ answer'[d] = answer[d]
  BY DEF TypeOK, Own, ToBridge, BridgeAnswers, ToTasks, Submitted, ToRouter, Refuse, Fail, Abort,
         Called, Yielded, Sent, StreamEnds, Reply, Goto
<1>3. (d \in accepted' <=> d \in accepted) /\ (d \in leaked' <=> d \in leaked)
  BY DEF Own, ToBridge, BridgeAnswers, ToTasks, Submitted, ToRouter, Refuse, Fail, Abort,
         Called, Yielded, Sent, StreamEnds, Note
<1>4. /\ chunk'[d] = chunk[d] /\ message'[d] = message[d]
      /\ acc'[d] = acc[d] /\ delivered'[d] = delivered[d] /\ seen'[d] = seen[d]
  <2>1. CASE Yielded(c)
    BY <2>1 DEF TypeOK, Yielded
  <2>2. CASE Sent(c)
    BY <2>2 DEF TypeOK, Sent
  <2>3. CASE UNCHANGED streamVars
    BY <2>3 DEF streamVars
  <2> QED BY <2>1, <2>2, <2>3 DEF Own, ToBridge, BridgeAnswers, ToTasks, Submitted, ToRouter, Refuse,
             Fail, Abort, Called, StreamEnds
<1> QED BY <1>1, <1>2, <1>3, <1>4

LEMMA InvStep == IInv /\ [Next]_vars => IInv'
<1> SUFFICES ASSUME IInv, [Next]_vars PROVE IInv'
  OBVIOUS
<1>1. TypeOK /\ ListedInv /\ \A c \in Calls : CallInv(c)
  BY DEF IInv
<1>2. TypeOK'
  BY <1>1, TypeStep
<1>3. ASSUME NEW c \in Calls, Own(c) PROVE IInv'
  <2>1. CallInv(c)'
    <3>1. CallInv(c)
      BY <1>1
    <3>2. CASE ToBridge(c) \/ ToTasks(c) \/ ToRouter(c) \/ Refuse(c) \/ Fail(c) \/ Abort(c)
      BY <1>1, <3>1, <3>2, RouteStep
    <3>3. CASE BridgeAnswers(c) \/ Submitted(c)
      BY <1>1, <3>1, <3>3, BridgeStep
    <3> QED BY <1>1, <1>3, <3>1, <3>2, <3>3, CalledStep, YieldedStep, SentStep, StreamEndsStep DEF Own
  <2>2. ASSUME NEW d \in Calls \ {c} PROVE CallInv(d)'
    BY <1>1, <1>3, <2>2, OthersKeep, Frame
  <2>3. ListedInv'
    BY <1>1, <1>3 DEF ListedInv, Own, ToBridge, BridgeAnswers, ToTasks, Submitted, ToRouter, Refuse,
       Fail, Abort, Called, Yielded, Sent, StreamEnds, Quiet, snapshotVars, registryVars
  <2> QED BY <1>2, <2>1, <2>2, <2>3 DEF IInv
<1>4. ASSUME NEW m \in Modules, Replace(m) PROVE IInv'
  BY <1>1, <1>2, <1>4, ReplaceStep DEF IInv
<1>5. CASE UNCHANGED vars
  <2>1. ASSUME NEW d \in Calls PROVE CallInv(d)'
    BY <1>1, <1>5, Frame DEF vars, streamVars
  <2>2. ListedInv'
    BY <1>1, <1>5 DEF ListedInv, vars, snapshotVars, registryVars
  <2> QED BY <1>2, <2>1, <2>2 DEF IInv
<1> QED BY <1>3, <1>4, <1>5 DEF Next, Own

\* Every reachable state satisfies the inductive invariant.
THEOREM Invariance == Spec => []IInv
BY InitInv, InvStep, PTL DEF Spec

\* Every variable keeps its type.
THEOREM TypeCorrect == Spec => []TypeOK
<1>1. IInv => TypeOK
  BY DEF IInv
<1> QED BY <1>1, Invariance, PTL

\* For streams of any length: what the client merges of its notifications is the
\* answer of the call.
THEOREM StreamsAgree == Spec => []StreamedAnswer
<1>1. IInv => StreamedAnswer
  BY DEF IInv, CallInv, AnswerInv, StreamedAnswer
<1> QED BY <1>1, Invariance, PTL

\* A secret field reaches the client neither in a notification nor in an answer,
\* unless redaction itself failed.
THEOREM SecretsStay == Spec => []NothingSecretLeaves
<1>1. IInv => NothingSecretLeaves
  BY DEF IInv, CallInv, StreamInv, AnswerInv, Mine, NothingSecretLeaves
<1> QED BY <1>1, Invariance, PTL

\* What is delivered for a tool listed with an output schema meets that schema.
THEOREM SchemasAreKept == Spec => []AdvertisedIsKept
<1>1. IInv => AdvertisedIsKept
  BY DEF IInv, CallInv, AnswerInv, AdvertisedIsKept
<1> QED BY <1>1, Invariance, PTL

\* A task that was started is answered with its envelope, unless its module was
\* replaced after it had been listed.
THEOREM TasksAreAnswered == Spec => []SubmissionAnswered
<1>1. IInv => SubmissionAnswered
  <2> SUFFICES ASSUME IInv, NEW c \in accepted, Tool(c) \notin replaced
               PROVE  answer[c].data = Envelope
    BY DEF SubmissionAnswered
  <2>1. c \in Calls
    BY DEF IInv, TypeOK
  <2> QED BY <2>1 DEF IInv, CallInv, AnswerInv
<1> QED BY <1>1, Invariance, PTL

\* For any chunks, any cap and any order of steps: what the client has merged of its
\* notifications is the last write of every path.
THEOREM MergesAreLastWrites == Spec => []MergeIsLastWrite
<1>1. Init => MergeIsLastWrite
  BY EmptyWrites DEF Init, MergeIsLastWrite
<1>2. TypeOK /\ MergeIsLastWrite /\ [Next]_vars => MergeIsLastWrite'
  <2> SUFFICES ASSUME TypeOK, MergeIsLastWrite, [Next]_vars, NEW c \in Calls
               PROVE  Nodes(seen'[c]) = LastWrites(delivered'[c])
    BY DEF MergeIsLastWrite
  <2>1. Nodes(seen[c]) = LastWrites(delivered[c])
    BY DEF MergeIsLastWrite
  <2>2. CASE Sent(c)
    <3>1. /\ seen'[c] = Merge(seen[c], message[c])
          /\ delivered'[c] = Append(delivered[c], message[c])
      BY <2>2 DEF TypeOK, Sent
    <3>2. seen[c] \in Dicts /\ message[c] \in Dicts /\ delivered[c] \in Seq(Dicts)
      BY DEF TypeOK
    <3> QED BY <2>1, <3>1, <3>2, MergeWrites
  <2>3. CASE \E d \in Calls \ {c} : Own(d)
    BY <2>1, <2>3, OthersKeep
  <2>4. CASE UNCHANGED <<seen, delivered>>
    BY <2>1, <2>4
  <2> QED BY <2>2, <2>3, <2>4 DEF Next, vars, Own, ToBridge, BridgeAnswers, ToTasks, Submitted,
             ToRouter, Refuse, Fail, Abort, Called, Yielded, StreamEnds, Replace, streamVars
<1> QED BY <1>1, <1>2, TypeCorrect, PTL DEF Spec
==============================================================================
