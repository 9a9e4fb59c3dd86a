------------------------- MODULE CancelTokensProofs --------------------------
(***************************************************************************)
(* Theorems about the cancel-token registry, for any calls, ids and cap.   *)
(* The first lemmas say what the OrderedDict operators do to the insertion *)
(* order; everything after them reasons about sets of ids.                 *)
(***************************************************************************)
EXTENDS CancelTokens, SequenceTheorems, FiniteSetTheorems, TLAPS

\* a was inserted before b
Before(s, a, b) == \E i, j \in DOMAIN s : i < j /\ s[i] = a /\ s[j] = b

------------------------------------------------------------------------------
(* The OrderedDict *)

\* pop(id, None) removes the id, keeps the others and their order.
LEMMA WithoutFacts ==
  ASSUME NEW S, NEW s \in Seq(S), IsInjective(s), NEW x
  PROVE  /\ Without(s, x) \in Seq(S)
         /\ IsInjective(Without(s, x))
         /\ ToSet(Without(s, x)) = ToSet(s) \ {x}
         /\ Len(Without(s, x)) <= Len(s)
         /\ \A a, b : Before(Without(s, x), a, b) => Before(s, a, b)
<1>1. CASE x \notin ToSet(s)
  BY <1>1 DEF Without, ToSet
<1>2. CASE x \in ToSet(s)
  <2> DEFINE k == CHOOSE i \in DOMAIN s : s[i] = x
             w == Without(s, x)
  <2>1. k \in 1..Len(s) /\ s[k] = x
    BY <1>2 DEF ToSet
  <2>2. w = SubSeq(s, 1, k-1) \o SubSeq(s, k+1, Len(s))
    BY <1>2 DEF Without, RemoveAt
  <2> HIDE DEF k
  <2>3. /\ SubSeq(s, 1, k-1) \in Seq(S)
        /\ Len(SubSeq(s, 1, k-1)) = k-1
        /\ \A i \in 1..k-1 : SubSeq(s, 1, k-1)[i] = s[i]
    BY <2>1, SubSeqProperties
  <2>4. /\ SubSeq(s, k+1, Len(s)) \in Seq(S)
        /\ Len(SubSeq(s, k+1, Len(s))) = Len(s) - k
        /\ \A i \in 1..Len(s)-k : SubSeq(s, k+1, Len(s))[i] = s[k+i]
    <3>1. \A i \in k+1..Len(s) : s[i] \in S
      BY <2>1
    <3>2. /\ SubSeq(s, k+1, Len(s)) \in Seq(S)
          /\ Len(SubSeq(s, k+1, Len(s))) = IF k+1 <= Len(s) THEN Len(s)-(k+1)+1 ELSE 0
          /\ \A i \in 1..Len(s)-(k+1)+1 : SubSeq(s, k+1, Len(s))[i] = s[(k+1)+i-1]
      <4>1. k+1 \in Int /\ Len(s) \in Int
        BY <2>1
      <4> QED BY <4>1, <3>1, SubSeqProperties
    <3> QED BY <3>2, <2>1
  <2> HIDE DEF w
  <2>5. /\ w \in Seq(S)
        /\ Len(w) = Len(s) - 1
        /\ \A i \in 1..Len(w) : w[i] = IF i < k THEN s[i] ELSE s[i+1]
    <3> DEFINE u == SubSeq(s, 1, k-1)
               v == SubSeq(s, k+1, Len(s))
    <3>1. /\ w \in Seq(S)
          /\ Len(w) = Len(u) + Len(v)
          /\ \A i \in 1..Len(u)+Len(v) : w[i] = IF i <= Len(u) THEN u[i] ELSE v[i - Len(u)]
      BY <2>2, <2>3, <2>4, ConcatProperties
    <3>2. /\ Len(u) = k-1 /\ \A i \in 1..k-1 : u[i] = s[i]
          /\ Len(v) = Len(s)-k /\ \A i \in 1..Len(s)-k : v[i] = s[k+i]
      BY <2>3, <2>4
    <3> HIDE DEF u, v
    <3>3. ASSUME NEW i \in 1..Len(s)-1
          PROVE  w[i] = IF i < k THEN s[i] ELSE s[i+1]
      <4>1. CASE i < k
        BY <4>1, <3>1, <3>2, <2>1
      <4>2. CASE i >= k
        <5>1. i - (k-1) \in 1..Len(s)-k /\ k + (i - (k-1)) = i+1
          BY <4>2, <2>1
        <5>2. v[i-(k-1)] = s[i+1]
          BY <5>1, <3>2
        <5>3. i \in 1..Len(u)+Len(v) /\ ~(i <= Len(u)) /\ i - Len(u) = i - (k-1)
          BY <4>2, <3>2, <2>1
        <5>4. w[i] = v[i-(k-1)]
          BY <5>3, <3>1
        <5> QED BY <5>2, <5>4, <4>2, <2>1
      <4> QED BY <4>1, <4>2, <2>1
    <3> QED BY <3>1, <3>2, <3>3, <2>1
  <2>6. IsInjective(w)
    <3>0. SUFFICES ASSUME NEW i \in DOMAIN w, NEW j \in DOMAIN w, w[i] = w[j]
                 PROVE  i = j
      BY DEF IsInjective
    <3>1. i \in 1..Len(w) /\ j \in 1..Len(w)
      BY <2>5
    <3>2. w[i] = (IF i < k THEN s[i] ELSE s[i+1]) /\ w[j] = (IF j < k THEN s[j] ELSE s[j+1])
      BY <3>1, <2>5
    <3>3. i \in DOMAIN s /\ i+1 \in DOMAIN s /\ j \in DOMAIN s /\ j+1 \in DOMAIN s
      BY <3>1, <2>5
    <3>4. \A a, b \in DOMAIN s : s[a] = s[b] => a = b
      BY DEF IsInjective
    <3>5. i \in Int /\ j \in Int /\ k \in Int
      BY <3>1, <2>1
    <3>6. CASE i < k /\ j < k
      BY <3>6, <3>0, <3>2, <3>3, <3>4
    <3>7. CASE i >= k /\ j >= k
      <4>1. s[i+1] = s[j+1]
        BY <3>7, <3>2, <3>5, <3>0
      <4>2. i+1 = j+1
        BY <4>1, <3>3, <3>4
      <4> QED BY <4>2, <3>5
    <3>8. CASE i < k /\ j >= k
      <4>1. i = j+1
        BY <3>8, <3>2, <3>3, <3>4, <3>5, <3>0
      <4> QED BY <4>1, <3>8, <3>5
    <3>9. CASE i >= k /\ j < k
      <4>1. i+1 = j
        BY <3>9, <3>2, <3>3, <3>4, <3>5, <3>0
      <4> QED BY <4>1, <3>9, <3>5
    <3> QED BY <3>5, <3>6, <3>7, <3>8, <3>9
  <2>7. ToSet(w) = ToSet(s) \ {x}
    <3>1. ASSUME NEW i \in 1..Len(w) PROVE w[i] \in ToSet(s) \ {x}
      <4>1. w[i] = IF i < k THEN s[i] ELSE s[i+1]
        BY <2>5, <3>1
      <4>2. i \in DOMAIN s /\ i+1 \in DOMAIN s
        BY <2>5, <3>1
      <4> QED BY <4>1, <4>2, <2>1 DEF IsInjective, ToSet
    <3>2. ASSUME NEW j \in 1..Len(s), s[j] # x PROVE s[j] \in ToSet(w)
      <4>1. CASE j < k
        <5>1. j \in 1..Len(w) /\ w[j] = s[j]
          BY <4>1, <2>1, <2>5
        <5> QED BY <5>1, <2>5 DEF ToSet
      <4>2. CASE j > k
        <5>1. j-1 \in 1..Len(w) /\ w[j-1] = s[j]
          BY <4>2, <2>1, <2>5
        <5> QED BY <5>1, <2>5 DEF ToSet
      <4> QED BY <4>1, <4>2, <3>2, <2>1
    <3> QED BY <3>1, <3>2, <2>5 DEF ToSet
  <2>8. ASSUME NEW i \in DOMAIN w, NEW j \in DOMAIN w, i < j
        PROVE  Before(s, w[i], w[j])
    <3> DEFINE p == IF i < k THEN i ELSE i+1
               q == IF j < k THEN j ELSE j+1
    <3>1. /\ p \in DOMAIN s /\ q \in DOMAIN s /\ p < q
          /\ w[i] = s[p] /\ w[j] = s[q]
      BY <2>8, <2>1, <2>5
    <3> QED BY <3>1 DEF Before
  <2> QED BY <2>5, <2>6, <2>7, <2>8 DEF w, Before
<1> QED BY <1>1, <1>2

\* The ids after one registration of id.
Renewed(s, id) == Evict(Append(Without(s, id), id))

\* Registering an id puts it last, keeps the order of the others, respects the
\* cap, and drops an id only when the map is full of ids inserted after it.
LEMMA RenewedFacts ==
  ASSUME NEW S, NEW s \in Seq(S), IsInjective(s), NEW id \in S
  PROVE  LET r == Renewed(s, id) IN
         /\ r \in Seq(S)
         /\ IsInjective(r)
         /\ Len(r) <= MaxTokens
         /\ id \in ToSet(r)
         /\ ToSet(r) \subseteq ToSet(s) \cup {id}
         /\ \A a, b : Before(r, a, b) => a # id /\ (b = id \/ Before(s, a, b))
         /\ \A a \in (ToSet(s) \ {id}) \ ToSet(r) :
              /\ Len(r) = MaxTokens
              /\ \A b \in ToSet(r) : b = id \/ Before(s, a, b)
<1> DEFINE w == Without(s, id)
           m == Append(w, id)
           r == Renewed(s, id)
           d == IF Len(m) > MaxTokens THEN Len(m) - MaxTokens ELSE 0
<1>1. /\ w \in Seq(S) /\ IsInjective(w) /\ ToSet(w) = ToSet(s) \ {id}
      /\ \A a, b : Before(w, a, b) => Before(s, a, b)
  BY WithoutFacts
<1> HIDE DEF w
<1>2. /\ m \in Seq(S) /\ Len(m) = Len(w) + 1 /\ m[Len(m)] = id
      /\ \A i \in 1..Len(w) : m[i] = w[i]
  BY <1>1
<1> HIDE DEF m
<1>3. /\ d \in Nat /\ d < Len(m) /\ Len(m) - d <= MaxTokens
      /\ d > 0 => Len(m) - d = MaxTokens
  BY <1>1, <1>2, CancelAssumption
<1>4. /\ r \in Seq(S) /\ Len(r) = Len(m) - d
      /\ \A i \in 1..Len(r) : r[i] = m[i + d]
  <2>1. CASE Len(m) > MaxTokens
    <3>1. r = SubSeq(m, d + 1, Len(m))
      BY <2>1, <1>2, CancelAssumption DEF Renewed, Evict, w, m
    <3>2. \A i \in d+1..Len(m) : m[i] \in S
      BY <1>2, <1>3
    <3>3. /\ SubSeq(m, d+1, Len(m)) \in Seq(S)
          /\ Len(SubSeq(m, d+1, Len(m))) = IF d+1 <= Len(m) THEN Len(m)-(d+1)+1 ELSE 0
          /\ \A i \in 1..Len(m)-(d+1)+1 : SubSeq(m, d+1, Len(m))[i] = m[(d+1)+i-1]
      <4>1. d+1 \in Int /\ Len(m) \in Int
        BY <1>2, <1>3
      <4> HIDE DEF d
      <4> QED BY <4>1, <3>2, SubSeqProperties
    <3> HIDE DEF d, r
    <3>4. Len(r) = Len(m) - d
      BY <3>1, <3>3, <1>2, <1>3
    <3>5. ASSUME NEW i \in 1..Len(r) PROVE r[i] = m[i+d]
      <4>1. i \in 1..Len(m)-(d+1)+1 /\ (d+1)+i-1 = i+d
        BY <3>4, <1>2, <1>3
      <4> QED BY <4>1, <3>1, <3>3
    <3> QED BY <3>1, <3>3, <3>4, <3>5
  <2>2. CASE ~(Len(m) > MaxTokens)
    <3>1. r = m /\ d = 0
      BY <2>2 DEF Renewed, Evict, w, m
    <3> QED BY <3>1, <1>2
  <2> QED BY <2>1, <2>2
<1> HIDE DEF d, r
<1>5. \A i \in 1..Len(w) : w[i] # id /\ w[i] \in ToSet(s)
  <2> SUFFICES ASSUME NEW i \in 1..Len(w) PROVE w[i] \in ToSet(s) \ {id}
    OBVIOUS
  <2>1. w[i] \in ToSet(w)
    BY <1>1 DEF ToSet
  <2> QED BY <2>1, <1>1
<1>6. \A i, j \in 1..Len(m) : m[i] = m[j] => i = j
  <2> SUFFICES ASSUME NEW i \in 1..Len(m), NEW j \in 1..Len(m), m[i] = m[j]
               PROVE  i = j
    OBVIOUS
  <2>1. \A a, b \in 1..Len(w) : w[a] = w[b] => a = b
    BY <1>1 DEF IsInjective
  <2> QED BY <2>1, <1>1, <1>2, <1>5
<1>7. IsInjective(r)
  <2> SUFFICES ASSUME NEW i \in 1..Len(r), NEW j \in 1..Len(r), r[i] = r[j]
               PROVE  i = j
    BY <1>4 DEF IsInjective
  <2>1. i + d \in 1..Len(m) /\ j + d \in 1..Len(m) /\ m[i+d] = m[j+d]
    BY <1>2, <1>3, <1>4
  <2>2. i + d = j + d
    BY <2>1, <1>6
  <2> QED BY <2>2, <1>3
<1>8. id \in ToSet(r)
  <2>1. Len(r) \in 1..Len(r) /\ Len(r) + d = Len(m)
    BY <1>2, <1>3, <1>4
  <2>2. r[Len(r)] = id
    BY <2>1, <1>2, <1>4
  <2> QED BY <2>1, <2>2, <1>4 DEF ToSet
<1>9. ASSUME NEW i \in 1..Len(r)
      PROVE  IF i = Len(r) THEN r[i] = id
             ELSE i + d \in 1..Len(w) /\ r[i] = w[i+d] /\ r[i] # id
  <2>1. i + d \in 1..Len(m) /\ r[i] = m[i+d]
    BY <1>2, <1>3, <1>4
  <2>2. i = Len(r) <=> i + d = Len(m)
    BY <1>2, <1>3, <1>4
  <2>3. CASE i = Len(r)
    BY <2>1, <2>2, <2>3, <1>2
  <2>4. CASE i # Len(r)
    <3>1. i + d \in 1..Len(w)
      BY <2>1, <2>2, <2>4, <1>1, <1>2
    <3> QED BY <3>1, <2>1, <2>4, <1>2, <1>5
  <2> QED BY <2>3, <2>4
<1>10. ToSet(r) \subseteq ToSet(s) \cup {id}
  BY <1>4, <1>5, <1>9 DEF ToSet
<1>11. ASSUME NEW a, NEW b, Before(r, a, b)
       PROVE  a # id /\ (b = id \/ Before(s, a, b))
  <2>1. PICK i \in 1..Len(r), j \in 1..Len(r) : i < j /\ r[i] = a /\ r[j] = b
    BY <1>11, <1>4 DEF Before
  <2>2. i # Len(r)
    BY <2>1, <1>4
  <2>3. i + d \in 1..Len(w) /\ a = w[i+d] /\ a # id
    BY <2>1, <2>2, <1>9
  <2>4. CASE j = Len(r)
    BY <2>1, <2>3, <2>4, <1>9
  <2>5. CASE j # Len(r)
    <3>1. j + d \in 1..Len(w) /\ b = w[j+d] /\ i + d < j + d
      BY <2>1, <2>5, <1>3, <1>9
    <3>2. Before(w, a, b)
      BY <3>1, <2>3, <1>1 DEF Before
    <3> QED BY <3>2, <2>3, <1>1
  <2> QED BY <2>4, <2>5
<1>12. ASSUME NEW a \in (ToSet(s) \ {id}) \ ToSet(r)
       PROVE  Len(r) = MaxTokens /\ \A b \in ToSet(r) : b = id \/ Before(s, a, b)
  <2>1. PICK k \in 1..Len(w) : w[k] = a
    BY <1>1 DEF ToSet
  <2>2. k <= d
    <3> SUFFICES ASSUME k > d PROVE FALSE
      BY <2>1, <1>3
    <3>1. k - d \in 1..Len(r) /\ (k - d) + d = k
      BY <2>1, <1>1, <1>2, <1>3, <1>4
    <3>2. r[k-d] = a
      BY <3>1, <2>1, <1>2, <1>4
    <3> QED BY <3>1, <3>2, <1>4, <1>12 DEF ToSet
  <2>3. Len(r) = MaxTokens
    BY <2>1, <2>2, <1>3, <1>4
  <2>4. ASSUME NEW b \in ToSet(r), b # id PROVE Before(s, a, b)
    <3>1. PICK j \in 1..Len(r) : r[j] = b
      BY <1>4 DEF ToSet
    <3>2. j + d \in 1..Len(w) /\ b = w[j+d] /\ k < j + d
      BY <3>1, <2>1, <2>2, <2>4, <1>3, <1>9
    <3>3. Before(w, a, b)
      BY <3>2, <2>1, <1>1 DEF Before
    <3> QED BY <3>3, <1>1
  <2> QED BY <2>3, <2>4
<1>13. Len(r) <= MaxTokens
  BY <1>3, <1>4
<1> QED BY <1>4, <1>7, <1>8, <1>10, <1>11, <1>12, <1>13 DEF r

\* The ids of a sequence without repetition are as many as it is long.
LEMMA InjectiveCardinality ==
  ASSUME NEW S, NEW s \in Seq(S), IsInjective(s)
  PROVE  IsFiniteSet(ToSet(s)) /\ Cardinality(ToSet(s)) = Len(s)
<1>1. Len(s) \in Nat /\ DOMAIN s = 1..Len(s)
  OBVIOUS
<1>2. IsFiniteSet(1..Len(s)) /\ Cardinality(1..Len(s)) = Len(s)
  BY <1>1, FS_Interval
<1>3. s \in Bijection(1..Len(s), ToSet(s))
  BY <1>1 DEF Bijection, Injection, Surjection, IsInjective, ToSet
<1> QED BY <1>2, <1>3, FS_Bijection DEF ExistsBijection

------------------------------------------------------------------------------
(* The inductive invariant *)

\* Every other id inserted after a call's own entry is in the call's history.
Witnessed ==
  \A c \in Calls : \A i \in Ids : slot[i] = c =>
    \A j \in Ids : Before(order, i, j) => j \in since[c]

\* Calls that share an id while in flight know it.
SharersKnow ==
  \A c, d \in Calls : \A i \in Ids :
    c # d /\ InFlight(c, i) /\ InFlight(d, i) => i \in since[c]

SinceFinite == \A c \in Calls : IsFiniteSet(since[c])

SubmittedUnderId == \A c \in Calls : pc[c] # "idle" => callId[c] \in Ids

IInv ==
  /\ TypeOK
  /\ RegistryBounded
  /\ SlotsAreInFlight
  /\ NoStaleCancellation
  /\ SubmittedUnderId
  /\ SinceFinite
  /\ SharersKnow
  /\ Witnessed
  /\ InFlightCancellable

\* What a registration does to the map.
LEMMA PutFacts ==
  ASSUME TypeOK, RegistryBounded, NEW id \in Ids, NEW token \in Tokens, Put(id, token)
  PROVE  /\ slot' \in [Ids -> Tokens \cup {Free}]
         /\ order' \in Seq(Ids)
         /\ RegistryBounded'
         /\ slot'[id] = token
         /\ \A i \in Ids \ {id} : slot'[i] \in {slot[i], Free}
         /\ \A a, b : Before(order', a, b) => a # id /\ (b = id \/ Before(order, a, b))
         /\ \A i \in Ids \ {id} : slot[i] # Free /\ slot'[i] = Free =>
              /\ Len(order') = MaxTokens
              /\ \A j \in ToSet(order') : j = id \/ Before(order, i, j)
<1>1. order' = Renewed(order, id)
  BY DEF Put, Renewed
<1>2. order \in Seq(Ids) /\ IsInjective(order) /\ Present = {i \in Ids : slot[i] # Free}
  BY DEF TypeOK, RegistryBounded
<1>3. /\ order' \in Seq(Ids)
      /\ IsInjective(order')
      /\ Len(order') <= MaxTokens
      /\ id \in ToSet(order')
      /\ ToSet(order') \subseteq ToSet(order) \cup {id}
      /\ \A a, b : Before(order', a, b) => a # id /\ (b = id \/ Before(order, a, b))
      /\ \A a \in (ToSet(order) \ {id}) \ ToSet(order') :
           /\ Len(order') = MaxTokens
           /\ \A b \in ToSet(order') : b = id \/ Before(order, a, b)
  BY <1>1, <1>2, RenewedFacts
<1>4. slot' = [i \in Ids |-> IF i \notin ToSet(order') THEN Free
                             ELSE IF i = id THEN token ELSE slot[i]]
  BY DEF Put
<1>5. /\ slot' \in [Ids -> Tokens \cup {Free}]
      /\ slot'[id] = token
      /\ \A i \in Ids \ {id} : slot'[i] \in {slot[i], Free}
  BY <1>3, <1>4 DEF TypeOK
<1>6. Free \notin Tokens
  BY CancelAssumption DEF Tokens
<1>7. ToSet(order') = {i \in Ids : slot'[i] # Free}
  <2>1. ToSet(order') \subseteq Ids
    BY <1>3 DEF ToSet
  <2>2. \A i \in ToSet(order') : i # id => slot[i] # Free
    BY <1>2, <1>3 DEF Present
  <2> QED BY <2>1, <2>2, <1>4, <1>6
<1>8. RegistryBounded'
  BY <1>3, <1>7 DEF RegistryBounded, Present
<1>9. \A i \in Ids \ {id} : slot[i] # Free /\ slot'[i] = Free =>
        i \in (ToSet(order) \ {id}) \ ToSet(order')
  BY <1>2, <1>7 DEF Present
<1> QED BY <1>3, <1>5, <1>8, <1>9

\* What the finally of handle_call does to the map.
LEMMA ReleaseFacts ==
  ASSUME TypeOK, RegistryBounded, NEW id \in Ids, Release(id)
  PROVE  /\ slot' \in [Ids -> Tokens \cup {Free}]
         /\ order' \in Seq(Ids)
         /\ RegistryBounded'
         /\ slot'[id] = Free
         /\ \A i \in Ids \ {id} : slot'[i] = slot[i]
         /\ \A a, b : Before(order', a, b) => Before(order, a, b)
<1>1. order \in Seq(Ids) /\ IsInjective(order) /\ Len(order) <= MaxTokens
      /\ Present = {i \in Ids : slot[i] # Free}
  BY DEF TypeOK, RegistryBounded
<1>2. order' = Without(order, id) /\ slot' = [slot EXCEPT ![id] = Free]
  BY DEF Release
<1>3. /\ order' \in Seq(Ids) /\ IsInjective(order')
      /\ ToSet(order') = ToSet(order) \ {id}
      /\ Len(order') <= Len(order)
      /\ \A a, b : Before(order', a, b) => Before(order, a, b)
  BY <1>1, <1>2, WithoutFacts
<1>4. /\ slot' \in [Ids -> Tokens \cup {Free}]
      /\ slot'[id] = Free
      /\ \A i \in Ids \ {id} : slot'[i] = slot[i]
  BY <1>2 DEF TypeOK
<1>5. ToSet(order') = {i \in Ids : slot'[i] # Free}
  BY <1>1, <1>3, <1>4 DEF Present
<1>6. Len(order') <= MaxTokens
  BY <1>1, <1>3, CancelAssumption
<1> QED BY <1>3, <1>4, <1>5, <1>6 DEF RegistryBounded, Present

\* One more id makes a history no smaller.
LEMMA CrowdFacts ==
  ASSUME TypeOK, SinceFinite, NEW id \in Ids
  PROVE  /\ Crowd(id) \in [Calls -> SUBSET Ids]
         /\ \A c \in Calls : /\ since[c] \subseteq Crowd(id)[c]
                             /\ Crowd(id)[c] \subseteq since[c] \cup {id}
                             /\ pc[c] = "running" => id \in Crowd(id)[c]
                             /\ IsFiniteSet(Crowd(id)[c])
                             /\ Cardinality(since[c]) <= Cardinality(Crowd(id)[c])
                             /\ Cardinality(since[c]) \in Nat
                             /\ Cardinality(Crowd(id)[c]) \in Nat
<1>1. Crowd(id) \in [Calls -> SUBSET Ids]
  BY DEF Crowd, TypeOK
<1>2. ASSUME NEW c \in Calls
      PROVE  /\ since[c] \subseteq Crowd(id)[c]
             /\ Crowd(id)[c] \subseteq since[c] \cup {id}
             /\ pc[c] = "running" => id \in Crowd(id)[c]
  BY DEF Crowd
<1>3. ASSUME NEW c \in Calls
      PROVE  /\ IsFiniteSet(Crowd(id)[c])
             /\ Cardinality(since[c]) <= Cardinality(Crowd(id)[c])
             /\ Cardinality(since[c]) \in Nat
             /\ Cardinality(Crowd(id)[c]) \in Nat
  <2>1. IsFiniteSet(since[c])
    BY DEF SinceFinite
  <2>2. IsFiniteSet(since[c] \cup {id})
    BY <2>1, FS_AddElement
  <2>3. IsFiniteSet(Crowd(id)[c])
    BY <2>2, <1>2, FS_Subset
  <2>4. Cardinality(since[c]) <= Cardinality(Crowd(id)[c])
    BY <2>3, <1>2, FS_Subset
  <2> QED BY <2>1, <2>3, <2>4, FS_CardinalityType
<1> QED BY <1>1, <1>2, <1>3

LEMMA InitEstablishes == Init => IInv
<1> SUFFICES ASSUME Init PROVE IInv
  OBVIOUS
<1>1. TypeOK
  BY DEF Init, TypeOK
<1>2. RegistryBounded
  <2>1. order = <<>> /\ ToSet(order) = {} /\ IsInjective(order) /\ Len(order) = 0
    BY DEF Init, ToSet, IsInjective
  <2> QED BY <2>1, CancelAssumption DEF Init, RegistryBounded, Present
<1>3. SlotsAreInFlight /\ NoStaleCancellation
  BY CancelAssumption DEF Init, SlotsAreInFlight, NoStaleCancellation, Signalled, Tokens
<1>4. SinceFinite
  BY FS_EmptySet DEF Init, SinceFinite
<1>5. SubmittedUnderId /\ SharersKnow /\ Witnessed /\ InFlightCancellable
  BY CancelAssumption DEF Init, SubmittedUnderId, SharersKnow, Witnessed, InFlightCancellable, InFlight
<1> QED BY <1>1, <1>2, <1>3, <1>4, <1>5 DEF IInv

\* A call that stays in flight while another id is registered: its history keeps
\* up with the insertion order, and it can only be evicted when the map is full
\* of ids its history holds.
LEMMA RegistrationKeepsCall ==
  ASSUME IInv, NEW id \in Ids, NEW token \in Tokens, Put(id, token),
         NEW d \in Calls, NEW i \in Ids, InFlight(d, i), since'[d] = Crowd(id)[d]
  PROVE  /\ slot'[i] = d => \A j \in Ids : Before(order', i, j) => j \in since'[d]
         /\ i \notin since'[d] /\ slot'[i] # d => Cardinality(since'[d]) >= MaxTokens
<1>1. TypeOK /\ RegistryBounded /\ SinceFinite /\ Witnessed /\ InFlightCancellable
  BY DEF IInv
<1>2. /\ id \in since'[d]
      /\ since[d] \subseteq since'[d]
      /\ IsFiniteSet(since'[d])
      /\ Cardinality(since[d]) <= Cardinality(since'[d])
      /\ Cardinality(since[d]) \in Nat /\ Cardinality(since'[d]) \in Nat
  BY <1>1, CrowdFacts DEF InFlight
<1>3. d # Free /\ d \in Tokens /\ Free \notin Tokens
  BY CancelAssumption DEF Tokens
<1>4. /\ \A j \in Ids \ {id} : slot'[j] \in {slot[j], Free}
      /\ \A a, b : Before(order', a, b) => a # id /\ (b = id \/ Before(order, a, b))
      /\ \A j \in Ids \ {id} : slot[j] # Free /\ slot'[j] = Free =>
           /\ Len(order') = MaxTokens
           /\ \A k \in ToSet(order') : k = id \/ Before(order, j, k)
      /\ order' \in Seq(Ids) /\ IsInjective(order')
  <2>1. RegistryBounded' => IsInjective(order')
    BY DEF RegistryBounded
  <2> QED BY <1>1, <2>1, PutFacts
<1>5. ASSUME slot'[i] = d, NEW j \in Ids, Before(order', i, j)
      PROVE  j \in since'[d]
  <2>1. i # id /\ (j = id \/ Before(order, i, j))
    BY <1>4, <1>5
  <2>2. slot[i] = d
    BY <2>1, <1>3, <1>4, <1>5
  <2> QED BY <2>1, <2>2, <1>1, <1>2 DEF Witnessed
<1>6. ASSUME i \notin since'[d], slot'[i] # d
      PROVE  Cardinality(since'[d]) >= MaxTokens
  <2>1. i # id /\ i \notin since[d]
    BY <1>2, <1>6
  <2>2. CASE slot[i] # d
    <3>1. Cardinality(since[d]) >= MaxTokens
      BY <2>1, <2>2, <1>1 DEF InFlightCancellable
    <3> QED BY <3>1, <1>2, CancelAssumption
  <2>3. CASE slot[i] = d
    <3>1. slot[i] # Free /\ slot'[i] = Free
      BY <2>1, <2>3, <1>3, <1>4, <1>6
    <3>2. /\ Len(order') = MaxTokens
          /\ \A k \in ToSet(order') : k = id \/ Before(order, i, k)
      BY <3>1, <2>1, <1>4
    <3>3. ToSet(order') \subseteq Ids
      BY <1>4 DEF ToSet
    <3>4. ToSet(order') \subseteq since'[d]
      BY <3>2, <3>3, <2>3, <1>1, <1>2 DEF Witnessed
    <3>5. Cardinality(ToSet(order')) = MaxTokens
      BY <3>2, <1>4, InjectiveCardinality
    <3>6. Cardinality(ToSet(order')) <= Cardinality(since'[d])
      BY <3>4, <1>2, FS_Subset
    <3> QED BY <3>5, <3>6
  <2> QED BY <2>2, <2>3
<1> QED BY <1>5, <1>6

LEMMA BeginPreserves ==
  ASSUME IInv, NEW c \in Calls, NEW id \in Ids, Begin(c, id)
  PROVE  IInv'
<1>1. TypeOK /\ RegistryBounded /\ SlotsAreInFlight /\ NoStaleCancellation
      /\ SubmittedUnderId /\ SinceFinite /\ SharersKnow /\ Witnessed
  BY DEF IInv
<1>2. c \in Tokens /\ Put(id, c)
  BY DEF Begin, Tokens
<1>3. /\ slot' \in [Ids -> Tokens \cup {Free}]
      /\ order' \in Seq(Ids)
      /\ RegistryBounded'
      /\ slot'[id] = c
      /\ \A i \in Ids \ {id} : slot'[i] \in {slot[i], Free}
      /\ \A a, b : Before(order', a, b) => a # id
  BY <1>1, <1>2, PutFacts
<1>4. /\ pc[c] = "idle" /\ pc' = [pc EXCEPT ![c] = "running"]
      /\ callId' = [callId EXCEPT ![c] = id]
      /\ cancelled' = [cancelled EXCEPT ![c] = Signalled(id)]
      /\ owed' = owed
      /\ since' = [Crowd(id) EXCEPT ![c] = IF \E d \in Calls : InFlight(d, id) THEN {id} ELSE {}]
  BY DEF Begin
<1>5. /\ Crowd(id) \in [Calls -> SUBSET Ids]
      /\ \A d \in Calls : IsFiniteSet(Crowd(id)[d]) /\ since[d] \subseteq Crowd(id)[d]
      /\ \A d \in Calls : pc[d] = "running" => id \in Crowd(id)[d]
  BY <1>1, CrowdFacts
<1>6. TypeOK'
  <2>1. Signalled(id) \in BOOLEAN
    BY DEF Signalled
  <2> QED BY <2>1, <1>1, <1>3, <1>4, <1>5 DEF TypeOK
<1>7. \A d \in Calls \ {c} : /\ pc'[d] = pc[d] /\ callId'[d] = callId[d]
                            /\ cancelled'[d] = cancelled[d]
                            /\ since'[d] = Crowd(id)[d]
  BY <1>1, <1>4, <1>5 DEF TypeOK
<1>8. pc'[c] = "running" /\ callId'[c] = id /\ cancelled'[c] = Signalled(id)
      /\ since'[c] = IF \E d \in Calls : InFlight(d, id) THEN {id} ELSE {}
  BY <1>1, <1>4, <1>5 DEF TypeOK
<1>9. \A d \in Calls, i \in Ids :
        InFlight(d, i)' <=> (d = c /\ i = id) \/ (d # c /\ InFlight(d, i))
  BY <1>7, <1>8 DEF InFlight
<1>10. Free \notin Tokens /\ Tombstone \notin Calls
  BY CancelAssumption DEF Tokens
<1>11. SlotsAreInFlight'
  <2> SUFFICES ASSUME NEW i \in Ids, NEW d \in Calls, slot'[i] = d
               PROVE  InFlight(d, i)'
    BY DEF SlotsAreInFlight
  <2>1. CASE i = id
    BY <2>1, <1>3, <1>9
  <2>2. CASE i # id
    <3>1. slot[i] = d
      BY <2>2, <1>3, <1>10 DEF Tokens
    <3>2. InFlight(d, i) /\ d # c
      BY <3>1, <1>1, <1>4 DEF SlotsAreInFlight, InFlight
    <3> QED BY <3>2, <1>9
  <2> QED BY <2>1, <2>2
<1>12. NoStaleCancellation'
  <2> SUFFICES ASSUME NEW i \in Ids, Signalled(i)' PROVE i \in owed
    BY <1>4 DEF NoStaleCancellation
  <2>1. CASE i = id
    <3>1. cancelled'[c]
      BY <2>1, <1>3, <1>10 DEF Signalled
    <3> QED BY <3>1, <2>1, <1>1, <1>8 DEF NoStaleCancellation
  <2>2. CASE i # id
    <3>1. slot'[i] # Free
      BY <1>10 DEF Signalled, Tokens
    <3>2. slot'[i] = slot[i] /\ slot[i] \in Tokens
      BY <3>1, <2>2, <1>1, <1>3 DEF TypeOK
    <3>3. slot[i] # c
      BY <3>2, <1>1, <1>4, <1>10, <1>2 DEF SlotsAreInFlight, InFlight, Tokens
    <3>4. Signalled(i)
      BY <3>2, <3>3, <1>7 DEF Signalled
    <3> QED BY <3>4, <1>1 DEF NoStaleCancellation
  <2> QED BY <2>1, <2>2
<1>13. SubmittedUnderId'
  BY <1>1, <1>7, <1>8 DEF SubmittedUnderId
<1>14. SinceFinite'
  <2>1. IsFiniteSet({id}) /\ IsFiniteSet({})
    BY FS_Singleton, FS_EmptySet
  <2>2. IsFiniteSet(since'[c])
    BY <2>1, <1>8
  <2> QED BY <2>2, <1>5, <1>7 DEF SinceFinite
<1>15. SharersKnow'
  <2> SUFFICES ASSUME NEW d \in Calls, NEW e \in Calls, NEW i \in Ids,
                      d # e, InFlight(d, i)', InFlight(e, i)'
               PROVE  i \in since'[d]
    BY DEF SharersKnow
  <2>1. CASE d = c
    BY <2>1, <1>8, <1>9
  <2>2. CASE e = c
    BY <2>2, <1>5, <1>7, <1>9 DEF InFlight
  <2>3. CASE d # c /\ e # c
    BY <2>3, <1>1, <1>5, <1>7, <1>9 DEF SharersKnow
  <2> QED BY <2>1, <2>2, <2>3
<1>16. \A d \in Calls \ {c} : \A i \in Ids : InFlight(d, i) =>
         /\ slot'[i] = d => \A j \in Ids : Before(order', i, j) => j \in since'[d]
         /\ i \notin since'[d] /\ slot'[i] # d => Cardinality(since'[d]) >= MaxTokens
  BY <1>2, <1>7, RegistrationKeepsCall
<1>17. Witnessed'
  <2> SUFFICES ASSUME NEW d \in Calls, NEW i \in Ids, slot'[i] = d,
                      NEW j \in Ids, Before(order', i, j)
               PROVE  j \in since'[d]
    BY DEF Witnessed, Before
  <2>1. i # id
    BY <1>3
  <2>2. InFlight(d, i)'
    BY <1>10, <1>11 DEF SlotsAreInFlight, Tokens
  <2> QED BY <2>1, <2>2, <1>9, <1>16
<1>18. InFlightCancellable'
  <2> SUFFICES ASSUME NEW d \in Calls, NEW i \in Ids,
                      InFlight(d, i)', i \notin since'[d], slot'[i] # d
               PROVE  Cardinality(since'[d]) >= MaxTokens
    BY DEF InFlightCancellable
  <2>1. d # c
    BY <1>3, <1>9
  <2> QED BY <2>1, <1>9, <1>16
<1> QED BY <1>3, <1>6, <1>11, <1>12, <1>13, <1>14, <1>15, <1>17, <1>18 DEF IInv

LEMMA CancelUnknownPreserves ==
  ASSUME IInv, NEW id \in Ids, CancelUnknown(id)
  PROVE  IInv'
<1>1. TypeOK /\ RegistryBounded /\ SlotsAreInFlight /\ NoStaleCancellation
      /\ SubmittedUnderId /\ SinceFinite /\ SharersKnow
  BY DEF IInv
<1>2. Tombstone \in Tokens /\ Put(id, Tombstone)
  BY DEF CancelUnknown, Tokens
<1>3. /\ slot' \in [Ids -> Tokens \cup {Free}]
      /\ order' \in Seq(Ids)
      /\ RegistryBounded'
      /\ slot'[id] = Tombstone
      /\ \A i \in Ids \ {id} : slot'[i] \in {slot[i], Free}
  BY <1>1, <1>2, PutFacts
<1>4. /\ pc' = pc /\ callId' = callId /\ cancelled' = cancelled
      /\ owed' = owed \cup {id} /\ since' = Crowd(id)
  BY DEF CancelUnknown
<1>5. /\ Crowd(id) \in [Calls -> SUBSET Ids]
      /\ \A d \in Calls : IsFiniteSet(Crowd(id)[d]) /\ since[d] \subseteq Crowd(id)[d]
  BY <1>1, CrowdFacts
<1>6. Free \notin Tokens /\ Tombstone \notin Calls /\ Free # Tombstone
  BY CancelAssumption DEF Tokens
<1>7. TypeOK'
  BY <1>1, <1>3, <1>4, <1>5 DEF TypeOK
<1>8. \A d \in Calls, i \in Ids : InFlight(d, i)' <=> InFlight(d, i)
  BY <1>4 DEF InFlight
<1>9. \A i \in Ids, d \in Calls : slot'[i] = d => slot[i] = d
  BY <1>3, <1>6 DEF Tokens
<1>10. SlotsAreInFlight'
  BY <1>1, <1>8, <1>9 DEF SlotsAreInFlight
<1>11. NoStaleCancellation'
  <2> SUFFICES ASSUME NEW i \in Ids, i # id, Signalled(i)' PROVE i \in owed
    BY <1>4 DEF NoStaleCancellation
  <2>1. slot'[i] = slot[i]
    BY <1>3, <1>6 DEF Signalled, Tokens
  <2> QED BY <2>1, <1>1, <1>4 DEF NoStaleCancellation, Signalled
<1>12. SubmittedUnderId' /\ SinceFinite'
  BY <1>1, <1>4, <1>5 DEF SubmittedUnderId, SinceFinite
<1>13. SharersKnow'
  BY <1>1, <1>4, <1>5, <1>8 DEF SharersKnow
<1>14. \A d \in Calls, i \in Ids : InFlight(d, i) =>
         /\ slot'[i] = d => \A j \in Ids : Before(order', i, j) => j \in since'[d]
         /\ i \notin since'[d] /\ slot'[i] # d => Cardinality(since'[d]) >= MaxTokens
  BY <1>2, <1>4, RegistrationKeepsCall
<1>15. Witnessed'
  <2> SUFFICES ASSUME NEW d \in Calls, NEW i \in Ids, slot'[i] = d,
                      NEW j \in Ids, Before(order', i, j)
               PROVE  j \in since'[d]
    BY DEF Witnessed, Before
  <2> QED BY <1>1, <1>9, <1>14 DEF SlotsAreInFlight
<1>16. InFlightCancellable'
  <2> SUFFICES ASSUME NEW d \in Calls, NEW i \in Ids,
                      InFlight(d, i)', i \notin since'[d], slot'[i] # d
               PROVE  Cardinality(since'[d]) >= MaxTokens
    BY DEF InFlightCancellable
  <2> QED BY <1>8, <1>14
<1> QED BY <1>3, <1>7, <1>10, <1>11, <1>12, <1>13, <1>15, <1>16 DEF IInv

LEMMA CancelFoundPreserves ==
  ASSUME IInv, NEW id \in Ids, CancelFound(id)
  PROVE  IInv'
<1>1. TypeOK /\ RegistryBounded /\ SlotsAreInFlight /\ NoStaleCancellation
      /\ SubmittedUnderId /\ SinceFinite /\ SharersKnow /\ Witnessed /\ InFlightCancellable
  BY DEF IInv
<1>2. /\ pc' = pc /\ callId' = callId /\ slot' = slot /\ order' = order /\ since' = since
      /\ cancelled' = [c \in Calls |-> cancelled[c] \/ slot[id] = c]
      /\ owed' = owed \cup {id}
  BY DEF CancelFound
<1>3. TypeOK'
  <2>1. \A c \in Calls : (cancelled[c] \/ slot[id] = c) \in BOOLEAN
    OBVIOUS
  <2>2. cancelled' \in [Calls -> BOOLEAN]
    BY <2>1, <1>2
  <2> QED BY <2>2, <1>1, <1>2 DEF TypeOK
<1>4. \A d \in Calls, i \in Ids : InFlight(d, i)' <=> InFlight(d, i)
  BY <1>2 DEF InFlight
<1>5. NoStaleCancellation'
  <2> SUFFICES ASSUME NEW i \in Ids, i # id, Signalled(i)' PROVE i \in owed
    BY <1>2 DEF NoStaleCancellation
  <2>1. CASE slot[i] = Tombstone
    BY <2>1, <1>1 DEF NoStaleCancellation, Signalled
  <2>2. CASE slot[i] # Tombstone
    <3>1. PICK d \in Calls : slot[i] = d /\ cancelled'[d]
      BY <2>2, <1>2 DEF Signalled
    <3>2. slot[id] # d
      BY <3>1, <1>1 DEF SlotsAreInFlight, InFlight
    <3>3. cancelled[d]
      BY <3>1, <3>2, <1>2
    <3> QED BY <3>1, <3>3, <1>1 DEF NoStaleCancellation, Signalled
  <2> QED BY <2>1, <2>2
<1>6. RegistryBounded' /\ SlotsAreInFlight' /\ SubmittedUnderId' /\ SinceFinite'
  BY <1>1, <1>2, <1>4 DEF RegistryBounded, Present, SlotsAreInFlight, SubmittedUnderId, SinceFinite
<1>7. SharersKnow' /\ Witnessed' /\ InFlightCancellable'
  BY <1>1, <1>2, <1>4 DEF SharersKnow, Witnessed, Before, InFlightCancellable
<1> QED BY <1>3, <1>5, <1>6, <1>7 DEF IInv

LEMMA FinishPreserves ==
  ASSUME IInv, NEW c \in Calls, Finish(c)
  PROVE  IInv'
<1> DEFINE id == callId[c]
<1>1. TypeOK /\ RegistryBounded /\ SlotsAreInFlight /\ NoStaleCancellation
      /\ SubmittedUnderId /\ SinceFinite /\ SharersKnow /\ Witnessed /\ InFlightCancellable
  BY DEF IInv
<1>2. id \in Ids /\ InFlight(c, id)
  BY <1>1 DEF Finish, SubmittedUnderId, InFlight
<1> HIDE DEF id
<1>3. /\ slot' \in [Ids -> Tokens \cup {Free}]
      /\ order' \in Seq(Ids)
      /\ RegistryBounded'
      /\ slot'[id] = Free
      /\ \A i \in Ids \ {id} : slot'[i] = slot[i]
      /\ \A a, b : Before(order', a, b) => Before(order, a, b)
  <2>1. Release(id)
    BY DEF Finish, id
  <2> QED BY <2>1, <1>1, <1>2, ReleaseFacts
<1>4. /\ pc' = [pc EXCEPT ![c] = "done"]
      /\ callId' = callId /\ cancelled' = cancelled /\ since' = since
      /\ owed' = owed \ {id}
  BY DEF Finish, id
<1>5. TypeOK'
  BY <1>1, <1>3, <1>4 DEF TypeOK
<1>6. \A d \in Calls, i \in Ids : InFlight(d, i)' <=> d # c /\ InFlight(d, i)
  BY <1>1, <1>4 DEF InFlight, TypeOK
<1>7. Free \notin Calls /\ Free # Tombstone
  BY CancelAssumption
<1>8. SlotsAreInFlight'
  <2> SUFFICES ASSUME NEW i \in Ids, NEW d \in Calls, slot'[i] = d
               PROVE  InFlight(d, i)'
    BY DEF SlotsAreInFlight
  <2>1. i # id /\ slot[i] = d
    BY <1>3, <1>7
  <2>2. InFlight(d, i) /\ d # c
    BY <2>1, <1>1, <1>2 DEF SlotsAreInFlight, InFlight
  <2> QED BY <2>2, <1>6
<1>9. NoStaleCancellation'
  <2> SUFFICES ASSUME NEW i \in Ids, Signalled(i)' PROVE i \in owed /\ i # id
    BY <1>4 DEF NoStaleCancellation
  <2>1. i # id
    BY <1>3, <1>7 DEF Signalled
  <2> QED BY <2>1, <1>1, <1>3, <1>4 DEF NoStaleCancellation, Signalled
<1>10. SubmittedUnderId' /\ SinceFinite'
  BY <1>1, <1>2, <1>4 DEF SubmittedUnderId, SinceFinite, TypeOK, id
<1>11. SharersKnow'
  BY <1>1, <1>4, <1>6 DEF SharersKnow
<1>12. Witnessed'
  <2> SUFFICES ASSUME NEW d \in Calls, NEW i \in Ids, slot'[i] = d,
                      NEW j \in Ids, Before(order', i, j)
               PROVE  j \in since[d]
    BY <1>4 DEF Witnessed, Before
  <2>1. slot[i] = d /\ Before(order, i, j)
    BY <1>3, <1>7
  <2> QED BY <2>1, <1>1 DEF Witnessed
<1>13. InFlightCancellable'
  <2> SUFFICES ASSUME NEW d \in Calls, NEW i \in Ids,
                      InFlight(d, i)', i \notin since[d], slot'[i] # d
               PROVE  Cardinality(since[d]) >= MaxTokens
    BY <1>4 DEF InFlightCancellable
  <2>1. d # c /\ InFlight(d, i)
    BY <1>6
  <2>2. i # id
    BY <2>1, <1>1, <1>2 DEF SharersKnow
  <2> QED BY <2>1, <2>2, <1>1, <1>3 DEF InFlightCancellable
<1> QED BY <1>3, <1>5, <1>8, <1>9, <1>10, <1>11, <1>12, <1>13 DEF IInv

LEMMA StepPreserves == IInv /\ [Next]_vars => IInv'
<1> SUFFICES ASSUME IInv, [Next]_vars PROVE IInv'
  OBVIOUS
<1>1. ASSUME NEW c \in Calls, NEW id \in Ids, Begin(c, id) PROVE IInv'
  BY <1>1, BeginPreserves
<1>2. ASSUME NEW id \in Ids, CancelFound(id) PROVE IInv'
  BY <1>2, CancelFoundPreserves
<1>3. ASSUME NEW id \in Ids, CancelUnknown(id) PROVE IInv'
  BY <1>3, CancelUnknownPreserves
<1>4. ASSUME NEW c \in Calls, Finish(c) PROVE IInv'
  BY <1>4, FinishPreserves
<1>5. CASE UNCHANGED vars
  <2>1. TypeOK' /\ RegistryBounded' /\ SlotsAreInFlight' /\ NoStaleCancellation'
    BY <1>5 DEF IInv, TypeOK, RegistryBounded, Present, SlotsAreInFlight,
                NoStaleCancellation, Signalled, InFlight, vars
  <2>2. SubmittedUnderId' /\ SinceFinite' /\ SharersKnow' /\ Witnessed' /\ InFlightCancellable'
    BY <1>5 DEF IInv, SubmittedUnderId, SinceFinite, SharersKnow, Witnessed, Before,
                InFlightCancellable, InFlight, vars
  <2> QED BY <2>1, <2>2 DEF IInv
<1> QED BY <1>1, <1>2, <1>3, <1>4, <1>5 DEF Next

------------------------------------------------------------------------------
(* The theorems *)

\* The inductive invariant holds in every reachable state.
THEOREM Invariance == Spec => []IInv
BY InitEstablishes, StepPreserves, PTL DEF Spec

\* Every variable keeps its type.
THEOREM TypeCorrect == Spec => []TypeOK
<1>1. IInv => TypeOK
  BY DEF IInv
<1> QED BY <1>1, Invariance, PTL

\* _cancel_tokens never outgrows _CANCEL_TOKENS_MAX and lists each id once.
THEOREM Bounded == Spec => []RegistryBounded
<1>1. IInv => RegistryBounded
  BY DEF IInv
<1> QED BY <1>1, Invariance, PTL

\* The registry holds calls in flight and tombstones, nothing else.
THEOREM NothingLeaks == Spec => []SlotsAreInFlight
<1>1. IInv => SlotsAreInFlight
  BY DEF IInv
<1> QED BY <1>1, Invariance, PTL

\* A stored signal was asked for since the last release of its id.
THEOREM NothingStale == Spec => []NoStaleCancellation
<1>1. IInv => NoStaleCancellation
  BY DEF IInv
<1> QED BY <1>1, Invariance, PTL

\* A call that shares its id with no other stays cancellable until the cap is
\* used up by ids registered after it.
THEOREM Cancellable == Spec => []InFlightCancellable
<1>1. IInv => InFlightCancellable
  BY DEF IInv
<1> QED BY <1>1, Invariance, PTL

------------------------------------------------------------------------------
(* The registry implements CancelPromise when no two calls in flight share an id *)
(* and the ids in use fit the map, so that nothing is ever evicted.              *)

Roomy == IsFiniteSet(Ids) /\ Cardinality(Ids) <= MaxTokens

\* With unique ids, no registration of a call's own id happens while it is in
\* flight.
OwnIdAlone ==
  \A c \in Calls, i \in Ids : InFlight(c, i) => i \notin since[c]

\* A full map has no room for an id outside it.
LEMMA NothingEvicted ==
  ASSUME Roomy, IInv, NEW id \in Ids, NEW token \in Tokens, Put(id, token)
  PROVE  \A i \in Ids \ {id} : slot'[i] = slot[i]
<1> SUFFICES ASSUME NEW i \in Ids \ {id}, slot'[i] # slot[i] PROVE FALSE
  OBVIOUS
<1>1. /\ order' \in Seq(Ids) /\ IsInjective(order')
      /\ ToSet(order') = {j \in Ids : slot'[j] # Free}
      /\ slot'[i] \in {slot[i], Free}
      /\ slot[i] # Free /\ slot'[i] = Free => Len(order') = MaxTokens
  <2>1. TypeOK /\ RegistryBounded
    BY DEF IInv
  <2>2. /\ order' \in Seq(Ids) /\ RegistryBounded'
        /\ \A j \in Ids \ {id} : slot'[j] \in {slot[j], Free}
        /\ \A j \in Ids \ {id} : slot[j] # Free /\ slot'[j] = Free => Len(order') = MaxTokens
    BY <2>1, PutFacts
  <2> QED BY <2>2 DEF RegistryBounded, Present
<1>2. slot'[i] = Free /\ Len(order') = MaxTokens
  BY <1>1
<1>3. Cardinality(ToSet(order')) = MaxTokens
  BY <1>1, <1>2, InjectiveCardinality
<1>4. ToSet(order') \subseteq Ids \ {i}
  BY <1>1, <1>2
<1>5. IsFiniteSet(Ids \ {i}) /\ Cardinality(Ids \ {i}) = Cardinality(Ids) - 1
      /\ Cardinality(Ids) \in Nat
  BY FS_RemoveElement, FS_CardinalityType DEF Roomy
<1>6. Cardinality(ToSet(order')) <= Cardinality(Ids) - 1
  BY <1>4, <1>5, FS_Subset
<1> QED BY <1>3, <1>5, <1>6, CancelAssumption DEF Roomy

\* Then a call in flight holds its slot.
LEMMA SlotHeld ==
  ASSUME Roomy, IInv, OwnIdAlone, NEW c \in Calls, NEW i \in Ids, InFlight(c, i)
  PROVE  slot[i] = c
<1> SUFFICES ASSUME slot[i] # c PROVE FALSE
  OBVIOUS
<1>1. i \notin since[c]
  BY DEF OwnIdAlone
<1>2. Cardinality(since[c]) >= MaxTokens
  BY <1>1 DEF IInv, InFlightCancellable
<1>3. since[c] \subseteq Ids \ {i}
  BY <1>1 DEF IInv, TypeOK
<1>4. IsFiniteSet(Ids \ {i}) /\ Cardinality(Ids \ {i}) = Cardinality(Ids) - 1
      /\ Cardinality(Ids) \in Nat
  BY FS_RemoveElement, FS_CardinalityType DEF Roomy
<1>5. Cardinality(since[c]) <= Cardinality(Ids) - 1 /\ Cardinality(since[c]) \in Nat
  BY <1>3, <1>4, FS_Subset, FS_CardinalityType
<1> QED BY <1>2, <1>4, <1>5, CancelAssumption DEF Roomy

LEMMA OwnIdStaysAlone ==
  ASSUME Roomy, UniqueIds, IInv, OwnIdAlone, [Next]_vars
  PROVE  OwnIdAlone'
<1>1. TypeOK /\ SinceFinite
  BY DEF IInv
<1>2. ASSUME NEW c \in Calls, NEW id \in Ids, Begin(c, id) PROVE OwnIdAlone'
  <2>1. /\ pc[c] = "idle" /\ \A d \in Calls : ~InFlight(d, id)
        /\ pc' = [pc EXCEPT ![c] = "running"]
        /\ callId' = [callId EXCEPT ![c] = id]
        /\ since' = [Crowd(id) EXCEPT ![c] = {}]
    BY <1>2 DEF Begin
  <2>2. /\ Crowd(id) \in [Calls -> SUBSET Ids]
        /\ \A d \in Calls : Crowd(id)[d] \subseteq since[d] \cup {id}
    BY <1>1, CrowdFacts
  <2> SUFFICES ASSUME NEW d \in Calls, NEW i \in Ids, InFlight(d, i)'
               PROVE  i \notin since'[d]
    BY DEF OwnIdAlone
  <2>3. CASE d = c
    BY <2>1, <2>2, <2>3
  <2>4. CASE d # c
    <3>1. InFlight(d, i) /\ since'[d] = Crowd(id)[d]
      BY <1>1, <2>1, <2>2, <2>4 DEF InFlight, TypeOK
    <3>2. i # id
      BY <3>1, <2>1
    <3> QED BY <3>1, <3>2, <2>2 DEF OwnIdAlone
  <2> QED BY <2>3, <2>4
<1>3. ASSUME NEW id \in Ids, CancelUnknown(id) PROVE OwnIdAlone'
  <2> SUFFICES ASSUME NEW d \in Calls, NEW i \in Ids, InFlight(d, i)'
               PROVE  i \notin since'[d]
    BY DEF OwnIdAlone
  <2>1. InFlight(d, i) /\ slot[id] = Free /\ since' = Crowd(id)
    BY <1>3 DEF CancelUnknown, InFlight
  <2>2. i # id
    BY <2>1, SlotHeld, CancelAssumption
  <2>3. Crowd(id)[d] \subseteq since[d] \cup {id}
    BY <1>1, CrowdFacts
  <2> QED BY <2>1, <2>2, <2>3 DEF OwnIdAlone
<1>4. ASSUME NEW id \in Ids, CancelFound(id) PROVE OwnIdAlone'
  BY <1>4 DEF CancelFound, OwnIdAlone, InFlight
<1>5. ASSUME NEW c \in Calls, Finish(c) PROVE OwnIdAlone'
  BY <1>1, <1>5 DEF Finish, OwnIdAlone, InFlight, TypeOK
<1>6. CASE UNCHANGED vars
  BY <1>6 DEF vars, OwnIdAlone, InFlight
<1> QED BY <1>2, <1>3, <1>4, <1>5, <1>6 DEF Next

LEMMA InitImplements == Init => Promise!Init
<1> SUFFICES ASSUME Init PROVE Promise!Init
  OBVIOUS
<1>1. \A i \in Ids : ~Signalled(i)
  BY CancelAssumption DEF Init, Signalled
<1> QED BY <1>1 DEF Init, Promise!Init

\* Every step of the registry is a step of the promise or leaves it unchanged.
LEMMA StepImplements ==
  ASSUME Roomy, UniqueIds, IInv, OwnIdAlone, [Next]_vars
  PROVE  [Promise!Next]_(Promise!promiseVars)
<1>1. TypeOK /\ RegistryBounded /\ SlotsAreInFlight
  BY DEF IInv
<1>2. Free \notin Tokens /\ Tombstone \notin Calls /\ Free # Tombstone
  BY CancelAssumption DEF Tokens
<1>3. \A c \in Calls, i \in Ids : InFlight(c, i) <=> slot[i] = c
  BY <1>1, SlotHeld DEF SlotsAreInFlight
<1>4. ASSUME NEW c \in Calls, NEW id \in Ids, Begin(c, id)
      PROVE  Promise!Begin(c, id)
  <2>1. c \in Tokens /\ Put(id, c)
    BY <1>4 DEF Begin, Tokens
  <2>2. slot'[id] = c /\ \A i \in Ids \ {id} : slot'[i] = slot[i]
    BY <2>1, <1>1, PutFacts, NothingEvicted
  <2>3. /\ cancelled' = [cancelled EXCEPT ![c] = Signalled(id)]
        /\ pc[c] = "idle" /\ \A d \in Calls : ~InFlight(d, id)
    BY <1>4 DEF Begin
  <2>4. \A i \in Ids : Signalled(i)' <=> Signalled(i)
    <3> SUFFICES ASSUME NEW i \in Ids PROVE Signalled(i)' <=> Signalled(i)
      OBVIOUS
    <3>1. CASE i = id
      BY <3>1, <2>2, <2>3, <1>1, <1>2 DEF Signalled, TypeOK
    <3>2. CASE i # id
      <4>1. slot[i] # c
        BY <2>3, <1>3 DEF InFlight
      <4>2. \A d \in Calls : slot[i] = d => cancelled'[d] = cancelled[d]
        BY <4>1, <2>3, <1>1 DEF TypeOK
      <4> QED BY <3>2, <4>2, <2>2 DEF Signalled
    <3> QED BY <3>1, <3>2
  <2>5. Signalled(id) = (id \in {i \in Ids : Signalled(i)})
    <3>1. Signalled(id) \in BOOLEAN
      BY DEF Signalled
    <3> QED BY <3>1
  <2>6. {i \in Ids : Signalled(i)}' = {i \in Ids : Signalled(i)}
    BY <2>4
  <2>7. cancelled' = [cancelled EXCEPT ![c] = id \in {i \in Ids : Signalled(i)}]
    BY <2>3, <2>5
  <2> QED BY <2>3, <2>6, <2>7, <1>4 DEF Begin, Promise!Begin, Promise!InFlight, InFlight
<1>5. ASSUME NEW id \in Ids, CancelFound(id) \/ CancelUnknown(id)
      PROVE  Promise!Cancel(id)
  <2>1. pc' = pc /\ callId' = callId
    BY <1>5 DEF CancelFound, CancelUnknown
  <2>2. cancelled' = [c \in Calls |-> cancelled[c] \/ InFlight(c, id)]
    <3>1. CASE CancelFound(id)
      BY <3>1, <1>3 DEF CancelFound
    <3>2. CASE CancelUnknown(id)
      <4>1. \A c \in Calls : ~InFlight(c, id)
        BY <3>2, <1>2, <1>3 DEF CancelUnknown, Tokens
      <4>2. \A c \in Calls : (cancelled[c] \/ InFlight(c, id)) = cancelled[c]
        BY <4>1, <1>1 DEF TypeOK
      <4>3. cancelled' = cancelled
        BY <3>2 DEF CancelUnknown
      <4> QED BY <4>2, <4>3, <1>1 DEF TypeOK
    <3> QED BY <1>5, <3>1, <3>2
  <2>3. \A i \in Ids : Signalled(i)' <=> Signalled(i) \/ i = id
    <3> SUFFICES ASSUME NEW i \in Ids PROVE Signalled(i)' <=> Signalled(i) \/ i = id
      OBVIOUS
    <3>1. CASE CancelFound(id)
      <4>1. slot' = slot /\ slot[id] # Free
        BY <3>1 DEF CancelFound
      <4>2. \A d \in Calls : cancelled'[d] <=> cancelled[d] \/ slot[id] = d
        BY <2>2, <1>3
      <4>3. i # id => \A d \in Calls : slot[i] = d => slot[id] # d
        BY <1>1 DEF SlotsAreInFlight, InFlight
      <4>4. slot[id] \in Calls \cup {Tombstone}
        BY <4>1, <1>1 DEF TypeOK, Tokens
      <4> QED BY <4>1, <4>2, <4>3, <4>4 DEF Signalled
    <3>2. CASE CancelUnknown(id)
      <4>1. Tombstone \in Tokens /\ Put(id, Tombstone) /\ cancelled' = cancelled
        BY <3>2 DEF CancelUnknown, Tokens
      <4>2. slot'[id] = Tombstone /\ \A j \in Ids \ {id} : slot'[j] = slot[j]
        BY <4>1, <1>1, PutFacts, NothingEvicted
      <4> QED BY <4>1, <4>2 DEF Signalled
    <3> QED BY <1>5, <3>1, <3>2
  <2>4. {i \in Ids : Signalled(i)}' = {i \in Ids : Signalled(i)} \cup {id}
    BY <2>3
  <2> QED BY <2>1, <2>2, <2>4 DEF Promise!Cancel, Promise!InFlight, InFlight
<1>6. ASSUME NEW c \in Calls, Finish(c)
      PROVE  Promise!Finish(c)
  <2> DEFINE id == callId[c]
  <2>1. id \in Ids /\ Release(id) /\ cancelled' = cancelled
    BY <1>6 DEF Finish, IInv, SubmittedUnderId
  <2> HIDE DEF id
  <2>2. slot'[id] = Free /\ \A i \in Ids \ {id} : slot'[i] = slot[i]
    BY <2>1, <1>1, ReleaseFacts
  <2>3. \A i \in Ids : Signalled(i)' <=> Signalled(i) /\ i # id
    BY <2>1, <2>2, CancelAssumption DEF Signalled
  <2>4. {i \in Ids : Signalled(i)}' = {i \in Ids : Signalled(i)} \ {id}
    BY <2>3
  <2> QED BY <2>4, <1>6 DEF Finish, Promise!Finish, id
<1>7. CASE UNCHANGED vars
  <2>1. {i \in Ids : Signalled(i)}' = {i \in Ids : Signalled(i)}
    BY <1>7 DEF vars, Signalled
  <2> QED BY <2>1, <1>7 DEF vars, Promise!promiseVars
<1> QED BY <1>4, <1>5, <1>6, <1>7 DEF Next, Promise!Next

\* With unique ids and room for all of them the registry keeps every promise:
\* no cancellation is lost, none hits the wrong call, none outlives its call.
THEOREM Implements ==
  ASSUME Roomy, UniqueIds PROVE Spec => ImplementsPromise
<1>1. Init => OwnIdAlone
  BY DEF Init, OwnIdAlone, InFlight
<1>2. IInv /\ OwnIdAlone /\ [Next]_vars => OwnIdAlone'
  BY OwnIdStaysAlone
<1>3. IInv /\ OwnIdAlone /\ [Next]_vars => [Promise!Next]_(Promise!promiseVars)
  BY StepImplements
<1> QED BY <1>1, <1>2, <1>3, InitImplements, Invariance, PTL
        DEF Spec, ImplementsPromise, Promise!Spec

\* Then every call in flight can be found by cancel(): a call is out of reach only
\* where a client reuses an id that is in flight, or uses more ids than the map holds.
THEOREM AllCancellable ==
  ASSUME Roomy, UniqueIds PROVE Spec => []InFlightWorkCancellable
<1>1. Init => OwnIdAlone
  BY DEF Init, OwnIdAlone, InFlight
<1>2. IInv /\ OwnIdAlone /\ [Next]_vars => OwnIdAlone'
  BY OwnIdStaysAlone
<1>3. IInv /\ OwnIdAlone => InFlightWorkCancellable
  <2> SUFFICES ASSUME IInv, OwnIdAlone, NEW c \in Calls, pc[c] = "running"
               PROVE  slot[callId[c]] = c
    BY DEF InFlightWorkCancellable
  <2>1. callId[c] \in Ids /\ InFlight(c, callId[c])
    BY DEF IInv, SubmittedUnderId, InFlight
  <2> QED BY <2>1, SlotHeld
<1> QED BY <1>1, <1>2, <1>3, Invariance, PTL DEF Spec
==============================================================================
