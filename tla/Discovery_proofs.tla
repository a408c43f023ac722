--------------------------- MODULE Discovery_proofs ---------------------------
(***************************************************************************)
(* The endpoints of a project: the merge of what the source says with what *)
(* the running application says forgets nothing of either and links what   *)
(* belongs together, whatever the two say and however often it is asked.   *)
(***************************************************************************)
EXTENDS Discovery, Registration_proofs

\* What the scans of a project do to the graph is the walk.
LEMMA DiscoveryWalks ==
  ASSUME [DiscoveryNext]_discoveryVars
  PROVE  [RegistrationNext]_registrationVars
BY DEF DiscoveryNext, Scan, RunEnrich, discoveryVars

(***************************************************************************)
(* The order of paths.                                                     *)
(***************************************************************************)
LEMMA LessIsStrict ==
  ASSUME NEW p \in Seq(Nat)
  PROVE  ~Less(p, p)
<1>1. \A i \in DOMAIN p : p[i] \in Nat
  BY Positions
<1> QED
  BY <1>1 DEF Less

LEMMA LessIsTransitive ==
  ASSUME NEW p \in Seq(Nat), NEW q \in Seq(Nat), NEW r \in Seq(Nat), Less(p, q), Less(q, r)
  PROVE  Less(p, r)
<1>1. PICK i \in DOMAIN q : /\ \A k \in 1..(i - 1) : k \in DOMAIN p /\ p[k] = q[k]
                            /\ i \notin DOMAIN p \/ p[i] < q[i]
  BY DEF Less
<1>2. PICK j \in DOMAIN r : /\ \A k \in 1..(j - 1) : k \in DOMAIN q /\ q[k] = r[k]
                            /\ j \notin DOMAIN q \/ q[j] < r[j]
  BY DEF Less
<1>3. /\ Len(p) \in Nat /\ DOMAIN p = 1..Len(p) /\ \A k \in DOMAIN p : p[k] \in Nat
      /\ Len(q) \in Nat /\ DOMAIN q = 1..Len(q) /\ \A k \in DOMAIN q : q[k] \in Nat
      /\ Len(r) \in Nat /\ DOMAIN r = 1..Len(r) /\ \A k \in DOMAIN r : r[k] \in Nat
  BY Positions
<1>4. CASE i < j
  <2>1. i \in DOMAIN r /\ i \in 1..(j - 1)
    BY <1>3, <1>4
  <2>2. \A k \in 1..(i - 1) : k \in DOMAIN p /\ p[k] = r[k]
    BY <1>1, <1>2, <1>3, <1>4
  <2>3. i \notin DOMAIN p \/ p[i] < r[i]
    BY <1>1, <1>2, <2>1
  <2> QED
    BY <2>1, <2>2, <2>3 DEF Less
<1>5. CASE i = j
  <2>1. \A k \in 1..(j - 1) : k \in DOMAIN p /\ p[k] = r[k]
    BY <1>1, <1>2, <1>3, <1>5
  <2>2. j \notin DOMAIN p \/ p[j] < r[j]
    BY <1>1, <1>2, <1>3, <1>5
  <2> QED
    BY <2>1, <2>2 DEF Less
<1>6. CASE j < i
  <2>1. \A k \in 1..(j - 1) : k \in DOMAIN p /\ p[k] = r[k]
    <3>1. SUFFICES ASSUME NEW k \in 1..(j - 1) PROVE k \in DOMAIN p /\ p[k] = r[k]
      OBVIOUS
    <3>2. k \in 1..(i - 1)
      BY <1>3, <1>6
    <3> QED
      BY <1>1, <1>2, <3>2
  <2>2. j \in 1..(i - 1) /\ j \in DOMAIN q
    BY <1>3, <1>6
  <2>3. j \in DOMAIN p /\ p[j] = q[j] /\ q[j] < r[j]
    BY <1>1, <1>2, <2>2
  <2> QED
    BY <2>1, <2>3 DEF Less
<1> QED
  BY <1>3, <1>4, <1>5, <1>6

LEMMA LessIsTotal ==
  ASSUME NEW p \in Seq(Nat), NEW q \in Seq(Nat), p # q
  PROVE  Less(p, q) \/ Less(q, p)
<1> DEFINE D == {i \in Nat : /\ i \in DOMAIN p \union DOMAIN q
                             /\ ~(i \in DOMAIN p /\ i \in DOMAIN q /\ p[i] = q[i])}
<1>1. /\ Len(p) \in Nat /\ DOMAIN p = 1..Len(p) /\ \A k \in DOMAIN p : p[k] \in Nat
      /\ Len(q) \in Nat /\ DOMAIN q = 1..Len(q) /\ \A k \in DOMAIN q : q[k] \in Nat
  BY Positions
<1>2. D # {}
  <2>1. SUFFICES ASSUME D = {} PROVE FALSE
    OBVIOUS
  <2>2. \A i \in Nat : i \in DOMAIN p \union DOMAIN q => i \in DOMAIN p /\ i \in DOMAIN q /\ p[i] = q[i]
    BY <2>1
  <2>3. Len(p) = Len(q)
    <3>1. Len(p) = 0 \/ Len(p) \in DOMAIN p
      BY <1>1
    <3>2. Len(q) = 0 \/ Len(q) \in DOMAIN q
      BY <1>1
    <3>3. Len(p) = 0 \/ Len(p) \in DOMAIN q
      BY <1>1, <2>2, <3>1
    <3>4. Len(q) = 0 \/ Len(q) \in DOMAIN p
      BY <1>1, <2>2, <3>2
    <3>5. Len(p) <= Len(q) /\ Len(q) <= Len(p)
      BY ONLY <1>1, <3>3, <3>4
    <3>6. Len(p) \in Nat /\ Len(q) \in Nat
      BY <1>1
    <3> QED
      BY ONLY <3>5, <3>6
  <2>4. \A i \in 1..Len(p) : p[i] = q[i]
    BY <1>1, <2>2
  <2> QED
    BY <2>3, <2>4, SeqEqual
<1>3. PICK i \in D : \A x \in D : i <= x
  <2>1. D \subseteq Nat
    OBVIOUS
  <2> HIDE DEF D
  <2> QED
    BY <1>2, <2>1, LeastOf
<1>4. \A k \in 1..(i - 1) : k \in DOMAIN p /\ k \in DOMAIN q /\ p[k] = q[k]
  <2>1. SUFFICES ASSUME NEW k \in 1..(i - 1) PROVE k \in DOMAIN p /\ k \in DOMAIN q /\ p[k] = q[k]
    OBVIOUS
  <2>2. i \in Nat /\ i \in DOMAIN p \union DOMAIN q
    BY <1>3
  <2>3. k \in DOMAIN p \union DOMAIN q /\ k \in Nat /\ k < i
    BY <1>1, <2>2
  <2>4. k \notin D
    <3> HIDE DEF D
    <3> QED
      BY <1>3, <2>2, <2>3
  <2> QED
    BY <2>3, <2>4
<1>5. i \in DOMAIN p \union DOMAIN q /\ ~(i \in DOMAIN p /\ i \in DOMAIN q /\ p[i] = q[i])
  BY <1>3
<1> HIDE DEF D
<1>6. CASE i \notin DOMAIN p
  BY <1>4, <1>5, <1>6 DEF Less
<1>7. CASE i \notin DOMAIN q
  BY <1>4, <1>5, <1>7 DEF Less
<1>8. CASE i \in DOMAIN p /\ i \in DOMAIN q
  <2>1. p[i] < q[i] \/ q[i] < p[i]
    BY <1>1, <1>5, <1>8
  <2> QED
    BY <1>4, <1>8, <2>1 DEF Less
<1> QED
  BY <1>6, <1>7, <1>8

(***************************************************************************)
(* Lists of endpoints.                                                     *)
(***************************************************************************)
Endpoints == [method : Nat, path : Seq(Nat), source : Nat \union {Nowhere}, unknown : BOOLEAN,
              mark : {"none", "matched", "gap_filled", "static_only", "runtime_only"}]

\* By id, whatever is in a list once.
LEMMA IdsInOrder ==
  ASSUME NEW S, S \subseteq Endpoints, IsFiniteSet(S), \A d, e \in S : Id(d) = Id(e) => d = e
  PROVE  Lists(InIdOrder(S), S)
<1> DEFINE key(e) == <<e.method>> \o e.path
           R == {p \in S \X S : Less(key(p[1]), key(p[2]))}
<1>1. \A e \in S : key(e) \in Seq(Nat)
  <2>1. SUFFICES ASSUME NEW e \in S PROVE key(e) \in Seq(Nat)
    OBVIOUS
  <2>2. <<e.method>> \in Seq(Nat) /\ e.path \in Seq(Nat)
    BY DEF Endpoints
  <2> QED
    BY <2>2, ConcatProperties
<1>2. \A d, e \in S : key(d) = key(e) => d = e
  <2>1. SUFFICES ASSUME NEW d \in S, NEW e \in S, key(d) = key(e) PROVE d = e
    OBVIOUS
  <2>2. d.method \in Nat /\ e.method \in Nat /\ d.path \in Seq(Nat) /\ e.path \in Seq(Nat)
    BY DEF Endpoints
  <2>3. Head(key(d)) = d.method /\ Tail(key(d)) = d.path
    BY <2>2
  <2>4. Head(key(e)) = e.method /\ Tail(key(e)) = e.path
    BY <2>2
  <2> QED
    BY <2>1, <2>3, <2>4 DEF Id
<1>3. \A d, e \in S : <<d, e>> \in R <=> Less(key(d), key(e))
  OBVIOUS
<1>4. InIdOrder(S) = InTurn(S, R)
  BY DEF InIdOrder
<1> HIDE DEF key, R
<1>5. Orders(R, S)
  <2>1. \A d \in S : <<d, d>> \notin R
    BY <1>1, <1>3, LessIsStrict
  <2>2. \A d, e, f \in S : <<d, e>> \in R /\ <<e, f>> \in R => <<d, f>> \in R
    BY <1>1, <1>3, LessIsTransitive
  <2>3. \A d, e \in S : d # e => <<d, e>> \in R \/ <<e, d>> \in R
    BY <1>1, <1>2, <1>3, LessIsTotal
  <2> QED
    BY <2>1, <2>2, <2>3 DEF Orders
<1> QED
  BY <1>4, <1>5, TurnsList

\* Sorting moves endpoints, and neither loses nor repeats one.
LEMMA SortedIsThere ==
  ASSUME NEW s \in Seq(Endpoints)
  PROVE  /\ Sorted(s) \in Seq(Endpoints) /\ DOMAIN Sorted(s) = DOMAIN s /\ Len(Sorted(s)) = Len(s)
         /\ \E at : Lists(at, DOMAIN s) /\ DOMAIN at = DOMAIN s /\ \A k \in DOMAIN s : Sorted(s)[k] = s[at[k]]
<1> DEFINE Key(i) == s[i].path \o <<0, s[i].method>>
           Precedes(i, j) == Less(Key(i), Key(j)) \/ (Key(i) = Key(j) /\ i < j)
           D == DOMAIN s
           R == {p \in D \X D : Precedes(p[1], p[2])}
           at == InTurn(D, R)
<1>1. /\ Len(s) \in Nat /\ D = 1..Len(s) /\ D \subseteq Nat /\ IsFiniteSet(D)
      /\ \A k \in D : s[k] \in Endpoints
  BY Positions
<1>2. \A i \in D : Key(i) \in Seq(Nat)
  <2>1. SUFFICES ASSUME NEW i \in D PROVE Key(i) \in Seq(Nat)
    OBVIOUS
  <2>2. s[i].method \in Nat /\ s[i].path \in Seq(Nat)
    BY <1>1 DEF Endpoints
  <2>3. <<0, s[i].method>> \in Seq(Nat)
    BY <2>2
  <2> QED
    BY <2>2, <2>3, ConcatProperties
<1>3. \A i, j \in D : <<i, j>> \in R <=> Precedes(i, j)
  OBVIOUS
<1>4. Sorted(s) = [k \in D |-> s[at[k]]]
  BY DEF Sorted
<1> HIDE DEF Key, R, D
<1>5. Orders(R, D)
  <2>1. \A i \in D : <<i, i>> \notin R
    BY <1>1, <1>2, <1>3, LessIsStrict
  <2>2. ASSUME NEW i \in D, NEW j \in D, NEW k \in D, <<i, j>> \in R, <<j, k>> \in R
        PROVE  <<i, k>> \in R
    <3>1. Precedes(i, j) /\ Precedes(j, k)
      BY <1>3, <2>2
    <3>2. CASE Less(Key(i), Key(j)) /\ Less(Key(j), Key(k))
      <4>1. Less(Key(i), Key(k))
        BY <1>2, <3>2, LessIsTransitive
      <4> QED
        BY <1>3, <4>1
    <3>3. CASE ~(Less(Key(i), Key(j)) /\ Less(Key(j), Key(k)))
      <4>1. Precedes(i, k)
        BY <1>1, <3>1, <3>3
      <4> QED
        BY <1>3, <4>1
    <3> QED
      BY <3>2, <3>3
  <2>3. ASSUME NEW i \in D, NEW j \in D, i # j PROVE <<i, j>> \in R \/ <<j, i>> \in R
    <3>1. CASE Key(i) = Key(j)
      <4>1. i < j \/ j < i
        BY <1>1, <2>3
      <4> QED
        BY <1>3, <3>1, <4>1
    <3>2. CASE Key(i) # Key(j)
      <4>1. Less(Key(i), Key(j)) \/ Less(Key(j), Key(i))
        BY <1>2, <3>2, LessIsTotal
      <4> QED
        BY <1>3, <4>1
    <3> QED
      BY <3>1, <3>2
  <2> HIDE DEF Precedes
  <2> QED
    BY <2>1, <2>2, <2>3 DEF Orders
<1>6. Lists(at, D)
  <2> HIDE DEF Precedes
  <2> QED
    BY <1>1, <1>5, TurnsList
<1> HIDE DEF at
<1>7. Cardinality(D) = Len(s)
  BY <1>1, FS_Interval
<1>8. DOMAIN at = D /\ \A k \in D : at[k] \in D
  BY <1>1, <1>6, <1>7 DEF Lists
<1>9. Sorted(s) \in [D -> Endpoints]
  BY <1>1, <1>4, <1>8
<1>10. DOMAIN Sorted(s) = D /\ Sorted(s) \in Seq(Endpoints) /\ Len(Sorted(s)) = Len(s)
  BY <1>1, <1>9
<1> QED
  BY <1>4, <1>6, <1>8, <1>10 DEF D

\* As many images as there are things, if no two have the same.
LEMMA AsMany ==
  ASSUME NEW S, IsFiniteSet(S), NEW f, DOMAIN f = S, \A x, y \in S : f[x] = f[y] => x = y,
         NEW T, T = {f[x] : x \in S}
  PROVE  IsFiniteSet(T) /\ Cardinality(T) = Cardinality(S)
<1> DEFINE g == [x \in S |-> f[x]]
<1>1. g \in Bijection(S, T)
  BY DEF Bijection, Injection, Surjection, IsInjective
<1>2. ExistsBijection(S, T)
  BY <1>1 DEF ExistsBijection
<1> QED
  BY <1>2, FS_Bijection

Placed(s, source, method) == {k \in DOMAIN s : s[k].source = source /\ s[k].method = method}

LEMMA PlacedIsFinite ==
  ASSUME NEW s \in Seq(Endpoints), NEW source, NEW method
  PROVE  /\ IsFiniteSet(Placed(s, source, method)) /\ At(s, source, method) \in Nat
         /\ At(s, source, method) = Cardinality(Placed(s, source, method))
<1>1. Placed(s, source, method) \in SUBSET DOMAIN s
  BY DEF Placed
<1>2. IsFiniteSet(Placed(s, source, method))
  BY <1>1, Positions, FS_Subset
<1>3. At(s, source, method) = Cardinality(Placed(s, source, method))
  BY DEF At, Placed
<1> QED
  BY <1>2, <1>3, FS_CardinalityType

LEMMA NonePlaced ==
  ASSUME NEW s \in Seq(Endpoints), NEW source, NEW method, \A k \in DOMAIN s : s[k].source # source
  PROVE  At(s, source, method) = 0
<1>1. Placed(s, source, method) = {}
  BY DEF Placed
<1> QED
  BY <1>1, PlacedIsFinite, FS_EmptySet

LEMMA AtConcat ==
  ASSUME NEW s \in Seq(Endpoints), NEW t \in Seq(Endpoints), NEW source, NEW method
  PROVE  At(s \o t, source, method) = At(s, source, method) + At(t, source, method)
<1> DEFINE A == Placed(s, source, method)
           B == Placed(t, source, method)
           f == [k \in B |-> Len(s) + k]
           C == {f[k] : k \in B}
<1>1. /\ Len(s) \in Nat /\ DOMAIN s = 1..Len(s) /\ Len(t) \in Nat /\ DOMAIN t = 1..Len(t)
      /\ s \o t \in Seq(Endpoints) /\ Len(s \o t) = Len(s) + Len(t) /\ DOMAIN (s \o t) = 1..(Len(s) + Len(t))
      /\ \A i \in 1..(Len(s) + Len(t)) : (s \o t)[i] = IF i <= Len(s) THEN s[i] ELSE t[i - Len(s)]
  BY ConcatProperties, LenProperties
<1>2. A \subseteq 1..Len(s) /\ B \subseteq 1..Len(t)
  BY <1>1 DEF Placed
<1>3. IsFiniteSet(A) /\ IsFiniteSet(B) /\ Cardinality(A) = At(s, source, method)
      /\ Cardinality(B) = At(t, source, method)
  BY PlacedIsFinite
<1>4. IsFiniteSet(C) /\ Cardinality(C) = Cardinality(B)
  <2>1. DOMAIN f = B /\ \A x, y \in B : f[x] = f[y] => x = y
    BY <1>1, <1>2
  <2> HIDE DEF f, B
  <2> QED
    BY <1>3, <2>1, AsMany
<1>5. \A k : k \in C <=> k \in 1..(Len(s) + Len(t)) /\ k > Len(s) /\ k - Len(s) \in B
  <2>1. \A k : k \in C <=> \E j \in B : k = Len(s) + j
    OBVIOUS
  <2> HIDE DEF C, f
  <2>2. ASSUME NEW k, k \in C PROVE k \in 1..(Len(s) + Len(t)) /\ k > Len(s) /\ k - Len(s) \in B
    <3>1. PICK j \in B : k = Len(s) + j
      BY <2>1, <2>2
    <3>2. j \in 1..Len(t)
      BY <1>2
    <3>3. k - Len(s) = j
      BY <1>1, <3>1, <3>2
    <3> HIDE DEF B
    <3> QED
      BY <1>1, <3>1, <3>2, <3>3
  <2>3. ASSUME NEW k \in 1..(Len(s) + Len(t)), k > Len(s), k - Len(s) \in B PROVE k \in C
    <3>1. k = Len(s) + (k - Len(s))
      BY <1>1
    <3> HIDE DEF B
    <3> QED
      BY <2>1, <2>3, <3>1
  <2> QED
    BY <2>2, <2>3
<1>6. Placed(s \o t, source, method) = A \union C
  <2>1. ASSUME NEW k \in 1..(Len(s) + Len(t))
        PROVE  k \in Placed(s \o t, source, method) <=> k \in A \union C
    <3>1. CASE k <= Len(s)
      <4>1. (s \o t)[k] = s[k] /\ k \in 1..Len(s)
        BY <1>1, <3>1
      <4>2. k \notin C
        BY <1>1, <1>5, <3>1
      <4> HIDE DEF C
      <4> QED
        BY <1>1, <4>1, <4>2 DEF Placed
    <3>2. CASE ~(k <= Len(s))
      <4>1. (s \o t)[k] = t[k - Len(s)] /\ k - Len(s) \in 1..Len(t) /\ k > Len(s)
        BY <1>1, <3>2
      <4>2. k \notin A
        BY <1>1, <1>2, <3>2
      <4>3. k \in C <=> k - Len(s) \in B
        BY <1>5, <4>1
      <4> HIDE DEF C
      <4> QED
        BY <1>1, <4>1, <4>2, <4>3 DEF Placed
    <3> QED
      BY <3>1, <3>2
  <2>2. Placed(s \o t, source, method) \subseteq 1..(Len(s) + Len(t))
    BY <1>1 DEF Placed
  <2>3. A \union C \subseteq 1..(Len(s) + Len(t))
    <3>1. A \subseteq 1..(Len(s) + Len(t))
      BY <1>1, <1>2
    <3> HIDE DEF A, C
    <3> QED
      BY <1>5, <3>1
  <2> HIDE DEF A, C
  <2> QED
    BY <2>1, <2>2, <2>3
<1>7. A \intersect C = {}
  <2>1. \A k \in A : k <= Len(s)
    BY <1>1, <1>2
  <2>2. \A k \in C : k > Len(s) /\ k \in Nat
    BY <1>5
  <2> HIDE DEF A, C
  <2> QED
    BY <1>1, <2>1, <2>2
<1> HIDE DEF A, B, C
<1>8. Cardinality(A \union C) = Cardinality(A) + Cardinality(C) - 0
  BY <1>3, <1>4, <1>7, FS_Union, FS_EmptySet
<1>9. At(s \o t, source, method) = Cardinality(A \union C)
  BY <1>1, <1>6, PlacedIsFinite
<1>10. Cardinality(A) \in Nat /\ Cardinality(C) \in Nat
  BY <1>3, <1>4, FS_CardinalityType
<1> QED
  BY <1>3, <1>4, <1>8, <1>9, <1>10

Counted(e, source, method) == IF e.source = source /\ e.method = method THEN 1 ELSE 0

LEMMA AtAppend ==
  ASSUME NEW s \in Seq(Endpoints), NEW e \in Endpoints, NEW source, NEW method
  PROVE  At(Append(s, e), source, method) = At(s, source, method) + Counted(e, source, method)
<1>1. <<e>> \in Seq(Endpoints) /\ Append(s, e) = s \o <<e>>
  BY AppendIsConcat
<1>2. At(<<e>>, source, method) = Counted(e, source, method)
  <2>1. DOMAIN <<e>> = {1} /\ <<e>>[1] = e
    OBVIOUS
  <2>2. PICK t : t = <<e>>
    OBVIOUS
  <2>3. t \in Seq(Endpoints) /\ DOMAIN t = {1} /\ t[1] = e
    BY <1>1, <2>1, <2>2
  <2>4. Placed(t, source, method) = IF e.source = source /\ e.method = method THEN {1} ELSE {}
    BY <2>3 DEF Placed
  <2>5. Cardinality({1}) = 1 /\ Cardinality({}) = 0
    BY FS_Singleton, FS_EmptySet
  <2>6. At(t, source, method) = Cardinality(Placed(t, source, method))
    BY <2>3, PlacedIsFinite
  <2> QED
    BY <2>2, <2>4, <2>5, <2>6 DEF Counted
<1>3. PICK t : t = <<e>>
  OBVIOUS
<1>4. At(s \o t, source, method) = At(s, source, method) + At(t, source, method)
  <2>1. t \in Seq(Endpoints)
    BY <1>1, <1>3
  <2> QED
    BY ONLY <2>1, s \in Seq(Endpoints), AtConcat
<1> QED
  BY <1>1, <1>2, <1>3, <1>4

LEMMA AtTail ==
  ASSUME NEW s \in Seq(Endpoints), s # <<>>, NEW source, NEW method
  PROVE  /\ Head(s) \in Endpoints /\ Tail(s) \in Seq(Endpoints)
         /\ At(s, source, method) = Counted(Head(s), source, method) + At(Tail(s), source, method)
         /\ Counted(Head(s), source, method) \in Nat
<1>1. Head(s) \in Endpoints /\ Tail(s) \in Seq(Endpoints)
  BY HeadTailProperties
<1>2. <<Head(s)>> \in Seq(Endpoints) /\ s = <<Head(s)>> \o Tail(s)
  <2>1. <<Head(s)>> \in Seq(Endpoints)
    BY <1>1
  <2>2. Len(s) \in Nat \ {0} /\ 1 \in 1..Len(s) /\ Len(s) \in 1..Len(s)
    BY EmptySeq
  <2>3. SubSeq(s, 1, Len(s)) = <<s[1]>> \o SubSeq(s, 1 + 1, Len(s))
    BY <2>2, SubSeqRecursiveFirst
  <2>4. SubSeq(s, 1, Len(s)) = s /\ Tail(s) = SubSeq(s, 2, Len(s)) /\ Head(s) = s[1]
    BY SubSeqFull, TailIsSubSeq
  <2> QED
    BY <2>1, <2>3, <2>4
<1>3. At(s, source, method) = At(<<Head(s)>>, source, method) + At(Tail(s), source, method)
  <2>1. PICK t, u : t = <<Head(s)>> /\ u = Tail(s)
    OBVIOUS
  <2>2. t \in Seq(Endpoints) /\ u \in Seq(Endpoints) /\ s = t \o u
    BY <1>1, <1>2, <2>1
  <2>3. At(t \o u, source, method) = At(t, source, method) + At(u, source, method)
    BY <2>2, AtConcat
  <2> QED
    BY <2>1, <2>2, <2>3
<1>4. At(<<Head(s)>>, source, method) = Counted(Head(s), source, method)
  <2>1. PICK t, e : t = <<>> /\ e = Head(s)
    OBVIOUS
  <2>2. t \in Seq(Endpoints) /\ Append(t, e) = <<e>> /\ DOMAIN t = {}
    BY <2>1
  <2>3. At(Append(t, e), source, method) = At(t, source, method) + Counted(e, source, method)
    <3>1. t \in Seq(Endpoints) /\ e \in Endpoints
      BY <1>1, <2>1, <2>2
    <3> QED
      BY ONLY <3>1, AtAppend
  <2>4. At(t, source, method) = 0
    BY <2>2, NonePlaced
  <2> QED
    BY <2>1, <2>2, <2>3, <2>4 DEF Counted
<1> QED
  BY <1>1, <1>3, <1>4 DEF Counted

LEMMA AtSorted ==
  ASSUME NEW s \in Seq(Endpoints), NEW source, NEW method
  PROVE  At(Sorted(s), source, method) = At(s, source, method)
<1>1. PICK at : /\ Sorted(s) \in Seq(Endpoints) /\ DOMAIN Sorted(s) = DOMAIN s
                /\ Lists(at, DOMAIN s) /\ DOMAIN at = DOMAIN s /\ \A k \in DOMAIN s : Sorted(s)[k] = s[at[k]]
  BY SortedIsThere
<1> DEFINE A == Placed(Sorted(s), source, method)
           B == Placed(s, source, method)
           f == [k \in A |-> at[k]]
<1>2. /\ \A k \in DOMAIN s : at[k] \in DOMAIN s
      /\ \A x \in DOMAIN s : \E k \in DOMAIN s : at[k] = x
      /\ \A j, k \in DOMAIN s : at[j] = at[k] => j = k
  BY <1>1 DEF Lists
<1>3. A \subseteq DOMAIN s /\ \A k \in DOMAIN s : k \in A <=> at[k] \in B
  BY <1>1, <1>2 DEF Placed
<1>4. B = {f[k] : k \in A}
  <2>1. B \subseteq DOMAIN s
    BY DEF Placed
  <2>2. \A k \in A : f[k] = at[k]
    OBVIOUS
  <2> HIDE DEF A, B, f
  <2>3. ASSUME NEW x \in B PROVE \E k \in A : f[k] = x
    BY <1>2, <1>3, <2>1, <2>2
  <2>4. ASSUME NEW k \in A PROVE f[k] \in B
    BY <1>3, <2>2
  <2> QED
    BY <2>3, <2>4
<1>5. DOMAIN f = A /\ \A x, y \in A : f[x] = f[y] => x = y
  BY <1>2, <1>3
<1>6. IsFiniteSet(A) /\ At(Sorted(s), source, method) = Cardinality(A) /\ At(s, source, method) = Cardinality(B)
  BY <1>1, PlacedIsFinite
<1> HIDE DEF A, B, f
<1>7. Cardinality(B) = Cardinality(A)
  BY <1>4, <1>5, <1>6, AsMany
<1> QED
  BY <1>6, <1>7

(***************************************************************************)
(* Paths that match the same requests, and gaps.                           *)
(***************************************************************************)
LEMMA SpecialSegments ==
  rest # gap /\ rest # param /\ gap # param /\ rest \in Nat /\ gap \in Nat /\ param \in Nat
<1>1. {rest, gap, param} \subseteq Nat \ {0} /\ Cardinality({rest, gap, param}) = 3
  BY EnrichmentAssumption
<1>2. ASSUME NEW a, NEW b PROVE Cardinality({a, b}) <= 2
  <2>1. IsFiniteSet({a}) /\ Cardinality({a}) = 1
    BY FS_Singleton
  <2>2. {a, b} = {a} \union {b}
    OBVIOUS
  <2>3. Cardinality({a} \union {b}) = IF b \in {a} THEN Cardinality({a}) ELSE Cardinality({a}) + 1
    BY <2>1, FS_AddElement
  <2> QED
    BY <2>1, <2>2, <2>3
<1>3. ASSUME NEW a, NEW b, {rest, gap, param} = {a, b} PROVE FALSE
  <2>1. PICK n : n = Cardinality({rest, gap, param}) /\ n = Cardinality({a, b})
    BY <1>3
  <2>2. n = 3
    BY <1>1, <2>1
  <2>3. n <= 2
    BY <1>2, <2>1
  <2> QED
    BY <2>2, <2>3
<1>4. rest = gap => {rest, gap, param} = {gap, param}
  OBVIOUS
<1>5. rest = param => {rest, gap, param} = {gap, param}
  OBVIOUS
<1>6. gap = param => {rest, gap, param} = {rest, param}
  OBVIOUS
<1> QED
  BY <1>1, <1>3, <1>4, <1>5, <1>6

LEMMA AlikeFlattened ==
  ASSUME NEW p \in Seq(Nat), NEW q \in Seq(Nat)
  PROVE  Flattened(p) = Flattened(q) <=> Alike(p, q)
<1>1. /\ Len(p) \in Nat /\ DOMAIN p = 1..Len(p) /\ Len(q) \in Nat /\ DOMAIN q = 1..Len(q)
  BY LenProperties
<1> DEFINE flat(s) == IF s = rest THEN param ELSE s
<1>2. Flattened(p) = [k \in 1..Len(p) |-> flat(p[k])] /\ Flattened(q) = [k \in 1..Len(q) |-> flat(q[k])]
  BY <1>1 DEF Flattened
<1>3. \A a, b : flat(a) = flat(b) <=> a = b \/ {a, b} = {param, rest}
  BY SpecialSegments
<1> HIDE DEF flat
<1>4. ASSUME Flattened(p) = Flattened(q) PROVE Alike(p, q)
  <2>1. 1..Len(p) = 1..Len(q)
    BY <1>2, <1>4
  <2>2. Len(p) = Len(q)
    <3>1. PICK m \in Nat, n \in Nat : m = Len(p) /\ n = Len(q)
      BY <1>1
    <3>2. Cardinality(1..m) = m /\ Cardinality(1..n) = n
      BY FS_Interval
    <3> QED
      BY <2>1, <3>1, <3>2
  <2>3. \A k \in 1..Len(p) : flat(p[k]) = flat(q[k])
    <3>1. SUFFICES ASSUME NEW k \in 1..Len(p) PROVE flat(p[k]) = flat(q[k])
      OBVIOUS
    <3>2. Flattened(p)[k] = flat(p[k]) /\ Flattened(q)[k] = flat(q[k])
      BY <1>2, <2>2
    <3> QED
      BY <1>4, <3>2
  <2> QED
    BY <1>1, <1>3, <2>2, <2>3 DEF Alike
<1>5. ASSUME Alike(p, q) PROVE Flattened(p) = Flattened(q)
  <2>1. Len(p) = Len(q) /\ \A k \in 1..Len(p) : flat(p[k]) = flat(q[k])
    BY <1>1, <1>3, <1>5 DEF Alike
  <2> QED
    BY <1>2, <2>1
<1> QED
  BY <1>4, <1>5

LEMMA AlikeIsEquivalence ==
  ASSUME NEW p \in Seq(Nat), NEW q \in Seq(Nat), NEW r \in Seq(Nat)
  PROVE  /\ Alike(p, p)
         /\ Alike(p, q) => Alike(q, p)
         /\ Alike(p, q) /\ Alike(q, r) => Alike(p, r)
<1>1. Alike(p, p) <=> Flattened(p) = Flattened(p)
  BY AlikeFlattened
<1>2. Alike(p, q) <=> Flattened(p) = Flattened(q)
  BY AlikeFlattened
<1>3. Alike(q, p) <=> Flattened(q) = Flattened(p)
  BY AlikeFlattened
<1>4. Alike(q, r) <=> Flattened(q) = Flattened(r)
  BY AlikeFlattened
<1>5. Alike(p, r) <=> Flattened(p) = Flattened(r)
  BY AlikeFlattened
<1> QED
  BY ONLY <1>1, <1>2, <1>3, <1>4, <1>5

LEMMA AlikeGaps ==
  ASSUME NEW p \in Seq(Nat), NEW q \in Seq(Nat), Alike(p, q)
  PROVE  /\ {k \in DOMAIN p : p[k] = gap} = {k \in DOMAIN q : q[k] = gap}
         /\ Unresolved(p) <=> Unresolved(q)
<1>1. DOMAIN p = DOMAIN q
  BY LenProperties DEF Alike
<1>2. \A k \in DOMAIN p : p[k] = gap <=> q[k] = gap
  BY SpecialSegments DEF Alike
<1> QED
  BY <1>1, <1>2 DEF Unresolved, ToSet

Lined(a, b) == (a = b /\ a # gap) \/ (a \in {param, rest} /\ b \in {param, rest})

Closes(path, actual, head, tail) ==
  /\ Len(actual) >= head + tail + 1
  /\ \A k \in 1..head : Lined(path[k], actual[k])
  /\ \A k \in 0..(tail - 1) : Lined(path[Len(path) - k], actual[Len(actual) - k])

GapsOf(path) == {k \in DOMAIN path : path[k] = gap}

LEMMA FillsGapCloses ==
  ASSUME NEW path, NEW actual
  PROVE  FillsGap(path, actual) <=>
           GapsOf(path) # {} /\ Closes(path, actual, Min(GapsOf(path)) - 1, Len(path) - Max(GapsOf(path)))
BY DEF FillsGap, Closes, Lined, GapsOf

LEMMA GapsAreWithin ==
  ASSUME NEW path \in Seq(Nat), GapsOf(path) # {}
  PROVE  /\ Min(GapsOf(path)) \in 1..Len(path) /\ Max(GapsOf(path)) \in 1..Len(path) /\ Len(path) \in Nat
         /\ DOMAIN path = 1..Len(path)
<1>1. DOMAIN path \subseteq Nat /\ IsFiniteSet(DOMAIN path) /\ DOMAIN path = 1..Len(path) /\ Len(path) \in Nat
  BY Positions
<1>2. GapsOf(path) \subseteq DOMAIN path
  BY DEF GapsOf
<1>3. Min(GapsOf(path)) \in GapsOf(path) /\ Max(GapsOf(path)) \in GapsOf(path)
  BY <1>1, <1>2, SomePlaces
<1> QED
  BY <1>1, <1>2, <1>3

LEMMA LinedAlike ==
  ASSUME NEW a, NEW b, NEW c, Lined(a, b), b = c \/ {b, c} = {param, rest}
  PROVE  Lined(a, c)
BY SpecialSegments DEF Lined

LEMMA AlikeLined ==
  ASSUME NEW a, NEW b, NEW c, Lined(a, b), a = c \/ {a, c} = {param, rest}
  PROVE  Lined(c, b)
BY SpecialSegments DEF Lined

\* What fills the gaps of a path does so however much its parameters take.
LEMMA FillsGapOfAlike ==
  ASSUME NEW p \in Seq(Nat), NEW q \in Seq(Nat), NEW a \in Seq(Nat), Alike(p, q), FillsGap(p, a)
  PROVE  FillsGap(q, a)
<1>1. GapsOf(p) # {} /\ Closes(p, a, Min(GapsOf(p)) - 1, Len(p) - Max(GapsOf(p)))
  BY FillsGapCloses
<1>2. GapsOf(q) = GapsOf(p) /\ Len(p) = Len(q)
  BY AlikeGaps DEF GapsOf, Alike
<1>3. PICK head, tail : head = Min(GapsOf(p)) - 1 /\ tail = Len(p) - Max(GapsOf(p))
  OBVIOUS
<1>4. /\ head \in Nat /\ tail \in Nat /\ head < Len(p) /\ tail < Len(p) /\ Len(p) \in Nat
      /\ DOMAIN p = 1..Len(p)
  BY <1>1, <1>3, GapsAreWithin
<1>5. Closes(p, a, head, tail)
  BY <1>1, <1>3
<1>6. \A k \in 1..head : Lined(q[k], a[k])
  <2>1. SUFFICES ASSUME NEW k \in 1..head PROVE Lined(q[k], a[k])
    OBVIOUS
  <2>2. k \in DOMAIN p /\ Lined(p[k], a[k])
    BY <1>4, <1>5 DEF Closes
  <2>3. p[k] = q[k] \/ {p[k], q[k]} = {param, rest}
    BY <2>2 DEF Alike
  <2> QED
    BY <2>2, <2>3, AlikeLined
<1>7. \A k \in 0..(tail - 1) : Lined(q[Len(q) - k], a[Len(a) - k])
  <2>1. SUFFICES ASSUME NEW k \in 0..(tail - 1) PROVE Lined(q[Len(q) - k], a[Len(a) - k])
    OBVIOUS
  <2>2. PICK j : j = Len(p) - k
    OBVIOUS
  <2>3. j \in DOMAIN p /\ Lined(p[j], a[Len(a) - k])
    <3>1. tail < Len(p) /\ Lined(p[Len(p) - k], a[Len(a) - k])
      BY <1>4, <1>5 DEF Closes
    <3>2. j \in 1..Len(p)
      BY <1>4, <2>2, <3>1
    <3> QED
      BY <1>4, <2>2, <3>1, <3>2
  <2>4. p[j] = q[j] \/ {p[j], q[j]} = {param, rest}
    BY <2>3 DEF Alike
  <2>5. Lined(q[j], a[Len(a) - k])
    BY <2>3, <2>4, AlikeLined
  <2> QED
    BY <1>2, <2>2, <2>5
<1>8. Closes(q, a, head, tail)
  BY <1>5, <1>6, <1>7 DEF Closes
<1> QED
  BY <1>1, <1>2, <1>3, <1>8, FillsGapCloses

LEMMA AlikeFillsGap ==
  ASSUME NEW p \in Seq(Nat), NEW a \in Seq(Nat), NEW b \in Seq(Nat), Alike(a, b), FillsGap(p, a)
  PROVE  FillsGap(p, b)
<1>1. GapsOf(p) # {} /\ Closes(p, a, Min(GapsOf(p)) - 1, Len(p) - Max(GapsOf(p)))
  BY FillsGapCloses
<1>3. PICK head, tail : head = Min(GapsOf(p)) - 1 /\ tail = Len(p) - Max(GapsOf(p))
  OBVIOUS
<1>4. /\ head \in Nat /\ tail \in Nat
      /\ Len(a) \in Nat /\ DOMAIN a = 1..Len(a) /\ Len(b) = Len(a)
  <2>1. head \in Nat /\ tail \in Nat
    BY <1>1, <1>3, GapsAreWithin
  <2>2. Len(a) \in Nat /\ DOMAIN a = 1..Len(a)
    BY LenProperties
  <2> QED
    BY <2>1, <2>2 DEF Alike
<1>5. Closes(p, a, head, tail)
  BY <1>1, <1>3
<1>6. \A k \in 1..head : Lined(p[k], b[k])
  <2>1. SUFFICES ASSUME NEW k \in 1..head PROVE Lined(p[k], b[k])
    OBVIOUS
  <2>2. k \in DOMAIN a /\ Lined(p[k], a[k])
    BY <1>4, <1>5 DEF Closes
  <2>3. a[k] = b[k] \/ {a[k], b[k]} = {param, rest}
    BY <2>2 DEF Alike
  <2> QED
    BY <2>2, <2>3, LinedAlike
<1>7. \A k \in 0..(tail - 1) : Lined(p[Len(p) - k], b[Len(b) - k])
  <2>1. SUFFICES ASSUME NEW k \in 0..(tail - 1) PROVE Lined(p[Len(p) - k], b[Len(b) - k])
    OBVIOUS
  <2>2. PICK j : j = Len(a) - k
    OBVIOUS
  <2>3. j \in DOMAIN a /\ Lined(p[Len(p) - k], a[j])
    <3>1. tail < Len(a) /\ Lined(p[Len(p) - k], a[Len(a) - k])
      BY <1>4, <1>5 DEF Closes
    <3>2. j \in 1..Len(a)
      BY <1>4, <2>2, <3>1
    <3> QED
      BY <1>4, <2>2, <3>1, <3>2
  <2>4. a[j] = b[j] \/ {a[j], b[j]} = {param, rest}
    BY <2>3 DEF Alike
  <2>5. Lined(p[Len(p) - k], b[j])
    BY <2>3, <2>4, LinedAlike
  <2> QED
    BY <1>4, <2>2, <2>5
<1>8. Closes(p, b, head, tail)
  BY <1>4, <1>5, <1>6, <1>7 DEF Closes
<1> QED
  BY <1>1, <1>3, <1>8, FillsGapCloses

(***************************************************************************)
(* What `merge` puts in its list.                                          *)
(***************************************************************************)
\* What a parsed answer is, and any part of it.
IsAnswer(S) ==
  /\ S \subseteq Endpoints /\ IsFiniteSet(S)
  /\ \A r \in S : r.source = Nowhere /\ ~Unresolved(r.path)
  /\ \A d, e \in S : Id(d) = Id(e) => d = e

LEMMA RuntimesAreAnswers ==
  ASSUME NEW runtime \in Runtimes, NEW S \in ById(runtime)
  PROVE  IsAnswer(S)
<1>1. /\ IsFiniteSet(runtime)
      /\ \A r \in runtime :
           /\ r \in [method : Nat, path : Seq(Nat), source : {Nowhere}, unknown : BOOLEAN, mark : {"none"}]
           /\ ~Unresolved(r.path)
  BY RuntimesAssumption
<1>2. S \subseteq runtime /\ \A d, e \in S : Id(d) = Id(e) => d = e
  BY DEF ById
<1>3. IsFiniteSet(S)
  BY <1>1, <1>2, FS_Subset
<1>4. \A r \in S : r \in Endpoints /\ r.source = Nowhere
  BY <1>1, <1>2 DEF Endpoints
<1> QED
  BY <1>1, <1>2, <1>3, <1>4 DEF IsAnswer

LEMMA PartsOfAnswers ==
  ASSUME NEW S, IsAnswer(S), NEW T, T \subseteq S
  PROVE  IsAnswer(T) /\ Lists(InIdOrder(T), T)
<1>1. IsFiniteSet(T)
  BY FS_Subset DEF IsAnswer
<1>2. IsAnswer(T)
  BY <1>1 DEF IsAnswer
<1> QED
  BY <1>2, IdsInOrder DEF IsAnswer

Marks == {"matched", "gap_filled", "static_only"}

LEMMA CombineIs ==
  ASSUME NEW spec \in Endpoints, NEW r \in Endpoints, NEW as \in Marks
  PROVE  /\ Combine(spec, r, as) \in Endpoints /\ Combine(spec, r, as).source = spec.source
         /\ Combine(spec, r, as).method = r.method /\ Combine(spec, r, as).path = r.path
         /\ Combine(spec, r, as).mark = as /\ Id(Combine(spec, r, as)) = Id(r)
BY DEF Endpoints, Combine, Mark, Id, Marks

LEMMA MarkIs ==
  ASSUME NEW e \in Endpoints, NEW as \in Marks \union {"runtime_only"}
  PROVE  /\ Mark(e, as) \in Endpoints /\ Mark(e, as).source = e.source
         /\ Mark(e, as).method = e.method /\ Mark(e, as).path = e.path
         /\ Mark(e, as).mark = as /\ Mark(e, as).unknown = e.unknown /\ Id(Mark(e, as)) = Id(e)
BY DEF Endpoints, Mark, Id, Marks

\* What was scanned.
IsScan(scanned) == scanned \in Seq(Endpoints) /\ \A k \in DOMAIN scanned : scanned[k].source # Nowhere

\* An endpoint of the source has kept its place, its method, and its path but for
\* gaps that were closed.
FromSource(e, scanned) ==
  \E k \in DOMAIN scanned :
    /\ scanned[k].source = e.source /\ scanned[k].method = e.method
    /\ \/ Alike(scanned[k].path, e.path)
       \/ FillsGap(scanned[k].path, e.path) /\ ~Unresolved(e.path)

\* And where a gap was closed, nothing else in S would have.
Linked(e, scanned, S) ==
  \E k \in DOMAIN scanned :
    /\ scanned[k].source = e.source /\ scanned[k].method = e.method
    /\ \/ Alike(scanned[k].path, e.path)
       \/ /\ FillsGap(scanned[k].path, e.path) /\ ~Unresolved(e.path)
          /\ e.mark = "gap_filled" =>
               \A x \in S : x.method = e.method => ~FillsGap(scanned[k].path, x.path)

\* What only the source has is not in S.
NotAmong(e, S) ==
  e.mark = "static_only" /\ ~Unresolved(e.path) =>
    \A x \in S : ~(Alike(e.path, x.path) /\ (x.unknown \/ e.method = x.method))

IsMerged(e, scanned, S) ==
  /\ e \in Endpoints /\ e.mark \in Marks
  /\ e.source # Nowhere => Linked(e, scanned, S)
  /\ NotAmong(e, S)

LEMMA StillMerged ==
  ASSUME NEW e, NEW scanned, NEW S, NEW T, T \subseteq S, IsMerged(e, scanned, S)
  PROVE  IsMerged(e, scanned, T)
BY DEF IsMerged, Linked, NotAmong

\* By identity, or loosely.
LEMMA MatchedIsMerged ==
  ASSUME NEW scanned, IsScan(scanned), NEW spec \in Endpoints,
         spec.source # Nowhere => FromSource(spec, scanned),
         NEW r \in Endpoints, r.method = spec.method, Alike(spec.path, r.path), NEW S
  PROVE  IsMerged(Combine(spec, r, "matched"), scanned, S)
<1>1. PICK e : e = Combine(spec, r, "matched")
  OBVIOUS
<1>2. "matched" \in Marks
  BY DEF Marks
<1>3. /\ e \in Endpoints /\ e.source = spec.source /\ e.method = spec.method /\ e.path = r.path
      /\ e.mark = "matched"
  BY <1>1, <1>2, CombineIs
<1>4. spec.path \in Seq(Nat) /\ r.path \in Seq(Nat)
  BY DEF Endpoints
<1>5. Unresolved(spec.path) <=> Unresolved(r.path)
  BY <1>4, AlikeGaps
<1>6. ASSUME spec.source # Nowhere PROVE Linked(e, scanned, S)
  <2>1. PICK k \in DOMAIN scanned :
          /\ scanned[k].source = spec.source /\ scanned[k].method = spec.method
          /\ \/ Alike(scanned[k].path, spec.path)
             \/ FillsGap(scanned[k].path, spec.path) /\ ~Unresolved(spec.path)
    BY <1>6 DEF FromSource
  <2>2. scanned[k].path \in Seq(Nat)
    <3>1. scanned[k] \in Endpoints
      BY Positions DEF IsScan
    <3> QED
      BY <3>1 DEF Endpoints
  <2>3. Alike(scanned[k].path, spec.path) => Alike(scanned[k].path, r.path)
    BY <1>4, <2>2, AlikeIsEquivalence
  <2>4. FillsGap(scanned[k].path, spec.path) => FillsGap(scanned[k].path, r.path)
    BY <1>4, <2>2, AlikeFillsGap
  <2> QED
    BY <1>3, <1>5, <2>1, <2>3, <2>4 DEF Linked
<1>7. NotAmong(e, S)
  BY <1>3 DEF NotAmong
<1>8. IsMerged(e, scanned, S)
  BY <1>2, <1>3, <1>6, <1>7 DEF IsMerged
<1> QED
  BY <1>1, <1>8

\* By the one route that closes its gap.
LEMMA FilledIsMerged ==
  ASSUME NEW scanned, IsScan(scanned), NEW spec \in Endpoints,
         spec.source # Nowhere => FromSource(spec, scanned), Unresolved(spec.path),
         NEW r \in Endpoints, r.method = spec.method, FillsGap(spec.path, r.path), ~Unresolved(r.path),
         NEW S, S \subseteq Endpoints, \A x \in S : x.method = spec.method => ~FillsGap(spec.path, x.path)
  PROVE  IsMerged(Combine(spec, r, "gap_filled"), scanned, S)
<1>1. PICK e : e = Combine(spec, r, "gap_filled")
  OBVIOUS
<1>2. "gap_filled" \in Marks
  BY DEF Marks
<1>3. /\ e \in Endpoints /\ e.source = spec.source /\ e.method = spec.method /\ e.path = r.path
      /\ e.mark = "gap_filled"
  BY <1>1, <1>2, CombineIs
<1>4. spec.path \in Seq(Nat) /\ r.path \in Seq(Nat) /\ \A x \in S : x.path \in Seq(Nat)
  BY DEF Endpoints
<1>6. ASSUME spec.source # Nowhere PROVE Linked(e, scanned, S)
  <2>1. PICK k \in DOMAIN scanned :
          /\ scanned[k].source = spec.source /\ scanned[k].method = spec.method
          /\ Alike(scanned[k].path, spec.path)
    BY <1>6 DEF FromSource
  <2>2. scanned[k].path \in Seq(Nat)
    <3>1. scanned[k] \in Endpoints
      BY Positions DEF IsScan
    <3> QED
      BY <3>1 DEF Endpoints
  <2>3. Alike(spec.path, scanned[k].path)
    BY <1>4, <2>1, <2>2, AlikeIsEquivalence
  <2>4. FillsGap(scanned[k].path, r.path)
    BY <1>4, <2>2, <2>3, FillsGapOfAlike
  <2>5. \A x \in S : x.method = e.method => ~FillsGap(scanned[k].path, x.path)
    <3>1. SUFFICES ASSUME NEW x \in S, x.method = e.method, FillsGap(scanned[k].path, x.path) PROVE FALSE
      OBVIOUS
    <3>2. FillsGap(spec.path, x.path)
      BY <1>4, <2>1, <2>2, <3>1, FillsGapOfAlike
    <3> QED
      BY <1>3, <3>1, <3>2
  <2> QED
    BY <1>3, <2>1, <2>4, <2>5 DEF Linked
<1>7. NotAmong(e, S)
  BY <1>3 DEF NotAmong
<1>8. IsMerged(e, scanned, S)
  BY <1>2, <1>3, <1>6, <1>7 DEF IsMerged
<1> QED
  BY <1>1, <1>8

\* Or not at all.
LEMMA UnmatchedIsMerged ==
  ASSUME NEW scanned, NEW spec \in Endpoints, spec.source # Nowhere => FromSource(spec, scanned),
         NEW S, ~Unresolved(spec.path) =>
                  \A x \in S : ~(Alike(spec.path, x.path) /\ (x.unknown \/ spec.method = x.method))
  PROVE  IsMerged(Mark(spec, "static_only"), scanned, S)
<1>1. PICK e : e = Mark(spec, "static_only")
  OBVIOUS
<1>2. "static_only" \in Marks
  BY DEF Marks
<1>3. /\ e \in Endpoints /\ e.source = spec.source /\ e.method = spec.method /\ e.path = spec.path
      /\ e.mark = "static_only"
  BY <1>1, <1>2, MarkIs
<1>4. ASSUME spec.source # Nowhere PROVE Linked(e, scanned, S)
  BY <1>3, <1>4 DEF FromSource, Linked
<1>5. NotAmong(e, S)
  BY <1>3 DEF NotAmong
<1>6. IsMerged(e, scanned, S)
  BY <1>2, <1>3, <1>4, <1>5 DEF IsMerged
<1> QED
  BY <1>1, <1>6

(***************************************************************************)
(* The passes.                                                             *)
(***************************************************************************)
\* What a pass has yet to look at.
IsPending(q, scanned) ==
  /\ q \in Seq(Endpoints)
  /\ \A k \in DOMAIN q : q[k].source # Nowhere => FromSource(q[k], scanned)

AllMerged(q, scanned, S) ==
  q \in Seq(Endpoints) /\ \A k \in DOMAIN q : IsMerged(q[k], scanned, S)

\* Nothing of the source is lost, or twice there.
Accounted(scanned, l, u, g, o) ==
  \A source \in Nat, method \in Nat :
    At(l, source, method) + At(u, source, method) + At(g, source, method) + At(o, source, method)
      = At(scanned, source, method)

\* Nor is anything of the answer.
Answered(answer, remaining, q) ==
  \A r \in answer : r \in remaining \/ \E k \in DOMAIN q : Id(q[k]) = Id(r)

\* The lists of a merge: what the passes have to look at, what of the answer nothing
\* was merged with, what the second pass took of it, and what is merged.
IsMerge(scanned, answer, l, u, g, free, c, o) ==
  /\ IsScan(scanned)
  /\ IsPending(l, scanned) /\ IsPending(u, scanned) /\ IsPending(g, scanned)
  /\ \A k \in DOMAIN u : ~Unresolved(u[k].path)
  /\ \A k \in DOMAIN g : Unresolved(g[k].path)
  /\ IsAnswer(answer) /\ free \subseteq answer
  /\ c \in Seq(Endpoints)
  /\ AllMerged(o, scanned, free)
  /\ Accounted(scanned, l, u, g, o)
  /\ Answered(answer, free, o)

MergeInv(scanned) == IsMerge(scanned, served, left, unmatched, withGaps, unclaimed, claimed, out)

LEMMA PendingTail ==
  ASSUME NEW q, NEW scanned, IsPending(q, scanned), q # <<>>
  PROVE  /\ Head(q) \in Endpoints
         /\ Head(q).source # Nowhere => FromSource(Head(q), scanned)
         /\ IsPending(Tail(q), scanned) /\ Head(q) = q[1] /\ 1 \in DOMAIN q
         /\ \A k \in DOMAIN Tail(q) : k + 1 \in DOMAIN q /\ Tail(q)[k] = q[k + 1]
<1>1. q \in Seq(Endpoints) /\ Len(q) \in Nat \ {0} /\ DOMAIN q = 1..Len(q)
  BY EmptySeq, LenProperties DEF IsPending
<1>2. /\ Head(q) \in Endpoints /\ Tail(q) \in Seq(Endpoints) /\ Len(Tail(q)) = Len(q) - 1
      /\ \A i \in 1..Len(Tail(q)) : Tail(q)[i] = q[i + 1]
  BY <1>1, HeadTailProperties DEF IsPending
<1>3. DOMAIN Tail(q) = 1..Len(Tail(q))
  BY <1>2, LenProperties
<1>4. \A k \in DOMAIN Tail(q) : k + 1 \in DOMAIN q /\ Tail(q)[k] = q[k + 1]
  BY <1>1, <1>2, <1>3
<1>5. Head(q) = q[1] /\ 1 \in DOMAIN q
  BY <1>1
<1>6. IsPending(Tail(q), scanned)
  BY <1>2, <1>4 DEF IsPending
<1> QED
  BY <1>2, <1>4, <1>5, <1>6 DEF IsPending

LEMMA PendingAppend ==
  ASSUME NEW q, NEW scanned, IsPending(q, scanned), NEW e \in Endpoints,
         e.source # Nowhere => FromSource(e, scanned)
  PROVE  /\ IsPending(Append(q, e), scanned)
         /\ \A k \in DOMAIN Append(q, e) : (k \in DOMAIN q /\ Append(q, e)[k] = q[k]) \/ Append(q, e)[k] = e
<1>1. q \in Seq(Endpoints) /\ Len(q) \in Nat /\ DOMAIN q = 1..Len(q)
  BY LenProperties DEF IsPending
<1> DEFINE t == Append(q, e)
<1>2. /\ t \in Seq(Endpoints) /\ Len(t) = Len(q) + 1
      /\ \A i \in 1.. Len(q) : t[i] = q[i]
      /\ t[Len(q) + 1] = e
  BY <1>1, AppendProperties
<1> HIDE DEF t
<1>3. DOMAIN t = 1..Len(t)
  BY <1>2, LenProperties
<1>4. \A k \in DOMAIN t : (k \in DOMAIN q /\ t[k] = q[k]) \/ t[k] = e
  BY <1>1, <1>2, <1>3
<1>5. IsPending(t, scanned)
  BY <1>2, <1>4 DEF IsPending
<1> QED
  BY <1>4, <1>5 DEF t

LEMMA MergedAppend ==
  ASSUME NEW q, NEW scanned, NEW S, AllMerged(q, scanned, S), NEW T, T \subseteq S,
         NEW e, IsMerged(e, scanned, T)
  PROVE  /\ AllMerged(Append(q, e), scanned, T)
         /\ \A answer, remaining : Answered(answer, remaining, q) => Answered(answer, remaining, Append(q, e))
         /\ \A answer, remaining, r : Answered(answer, remaining, q) /\ Id(r) = Id(e) /\ r \in answer
                 /\ (\A d, c \in answer : Id(d) = Id(c) => d = c)
              => Answered(answer, remaining \ {r}, Append(q, e))
<1>1. q \in Seq(Endpoints) /\ Len(q) \in Nat /\ DOMAIN q = 1..Len(q) /\ e \in Endpoints
  BY LenProperties DEF AllMerged, IsMerged
<1> DEFINE t == Append(q, e)
<1>2. /\ t \in Seq(Endpoints) /\ Len(t) = Len(q) + 1
      /\ \A i \in 1.. Len(q) : t[i] = q[i]
      /\ t[Len(q) + 1] = e
  BY <1>1, AppendProperties
<1> HIDE DEF t
<1>3. DOMAIN t = 1..Len(t)
  BY <1>2, LenProperties
<1>4. \A k \in DOMAIN t : (k \in DOMAIN q /\ t[k] = q[k]) \/ t[k] = e
  BY <1>1, <1>2, <1>3
<1>5. AllMerged(t, scanned, T)
  <2>1. \A k \in DOMAIN q : IsMerged(q[k], scanned, T)
    BY StillMerged DEF AllMerged
  <2> QED
    BY <1>2, <1>4, <2>1 DEF AllMerged
<1>6. /\ \A k \in DOMAIN q : k \in DOMAIN t /\ t[k] = q[k]
      /\ Len(q) + 1 \in DOMAIN t
  BY <1>1, <1>2, <1>3
<1>7. ASSUME NEW answer, NEW remaining, Answered(answer, remaining, q)
      PROVE  Answered(answer, remaining, t)
  BY <1>6, <1>7 DEF Answered
<1>8. ASSUME NEW answer, NEW remaining, NEW r, Answered(answer, remaining, q), Id(r) = Id(e)
      PROVE  Answered(answer, remaining \ {r}, t)
  BY <1>2, <1>6, <1>8 DEF Answered
<1> QED
  BY <1>5, <1>7, <1>8 DEF t

LEMMA CountedAlike ==
  ASSUME NEW d, NEW e, d.source = e.source, d.method = e.method, NEW source, NEW method
  PROVE  Counted(d, source, method) = Counted(e, source, method)
BY DEF Counted

\* An endpoint that moves is counted once.
LEMMA MovedOnce ==
  ASSUME NEW p \in Seq(Endpoints), p # <<>>, NEW q \in Seq(Endpoints), NEW e \in Endpoints,
         e.source = Head(p).source, e.method = Head(p).method, NEW source, NEW method
  PROVE  /\ At(p, source, method) \in Nat /\ At(q, source, method) \in Nat
         /\ At(Tail(p), source, method) \in Nat /\ At(Append(q, e), source, method) \in Nat
         /\ At(Tail(p), source, method) + At(Append(q, e), source, method)
              = At(p, source, method) + At(q, source, method)
<1>1. PICK h, t : h = Head(p) /\ t = Tail(p)
  OBVIOUS
<1>2. /\ h \in Endpoints /\ t \in Seq(Endpoints) /\ Counted(h, source, method) \in Nat
      /\ At(p, source, method) = Counted(h, source, method) + At(t, source, method)
  BY <1>1, AtTail
<1>3. PICK a : a = Append(q, e)
  OBVIOUS
<1>4. At(a, source, method) = At(q, source, method) + Counted(e, source, method)
  BY <1>3, AtAppend
<1>5. Counted(e, source, method) = Counted(h, source, method)
  BY <1>1, CountedAlike
<1>6. At(p, source, method) \in Nat /\ At(q, source, method) \in Nat
  BY PlacedIsFinite
<1>7. At(t, source, method) \in Nat
  <2>1. t \in Seq(Endpoints)
    BY <1>2
  <2> QED
    BY <2>1, PlacedIsFinite
<1>8. /\ At(a, source, method) \in Nat
      /\ At(t, source, method) + At(a, source, method) = At(p, source, method) + At(q, source, method)
  <2>1. PICK x, y, z, v, w : /\ x = At(a, source, method) /\ y = At(t, source, method)
                             /\ z = At(p, source, method) /\ v = At(q, source, method)
                             /\ w = Counted(h, source, method)
    OBVIOUS
  <2>2. w \in Nat /\ y \in Nat /\ v \in Nat /\ x = v + w /\ z = w + y
    BY <1>2, <1>4, <1>5, <1>6, <1>7, <2>1
  <2>3. x \in Nat /\ y + x = z + v
    BY ONLY <2>2
  <2> QED
    BY <2>1, <2>3
<1> QED
  BY <1>1, <1>3, <1>6, <1>7, <1>8

LEMMA CountsAreNumbers ==
  ASSUME NEW q \in Seq(Endpoints), NEW source, NEW method
  PROVE  At(q, source, method) \in Nat
BY PlacedIsFinite

LEMMA MovesAreAccounted ==
  ASSUME NEW scanned, NEW l \in Seq(Endpoints), NEW u \in Seq(Endpoints), NEW g \in Seq(Endpoints),
         NEW o \in Seq(Endpoints), NEW e \in Endpoints, Accounted(scanned, l, u, g, o)
  PROVE  /\ l # <<>> /\ e.source = Head(l).source /\ e.method = Head(l).method =>
              /\ Accounted(scanned, Tail(l), u, g, Append(o, e))
              /\ Accounted(scanned, Tail(l), Append(u, e), g, o)
              /\ Accounted(scanned, Tail(l), u, Append(g, e), o)
         /\ u # <<>> /\ e.source = Head(u).source /\ e.method = Head(u).method =>
              Accounted(scanned, l, Tail(u), g, Append(o, e))
         /\ g # <<>> /\ e.source = Head(g).source /\ e.method = Head(g).method =>
              Accounted(scanned, l, u, Tail(g), Append(o, e))
<1>1. ASSUME l # <<>>, e.source = Head(l).source, e.method = Head(l).method
      PROVE  /\ Accounted(scanned, Tail(l), u, g, Append(o, e))
             /\ Accounted(scanned, Tail(l), Append(u, e), g, o)
             /\ Accounted(scanned, Tail(l), u, Append(g, e), o)
  <2>1. ASSUME NEW source \in Nat, NEW method \in Nat
        PROVE  /\ At(Tail(l), source, method) + At(u, source, method) + At(g, source, method)
                    + At(Append(o, e), source, method) = At(scanned, source, method)
               /\ At(Tail(l), source, method) + At(Append(u, e), source, method) + At(g, source, method)
                    + At(o, source, method) = At(scanned, source, method)
               /\ At(Tail(l), source, method) + At(u, source, method) + At(Append(g, e), source, method)
                    + At(o, source, method) = At(scanned, source, method)
    <3>1. PICK a, b, c, d, m, x, y, z, n :
            /\ a = At(l, source, method) /\ b = At(u, source, method) /\ c = At(g, source, method)
            /\ d = At(o, source, method) /\ m = At(Tail(l), source, method)
            /\ x = At(Append(o, e), source, method) /\ y = At(Append(u, e), source, method)
            /\ z = At(Append(g, e), source, method) /\ n = At(scanned, source, method)
      OBVIOUS
    <3>2. a \in Nat /\ b \in Nat /\ c \in Nat /\ d \in Nat
      BY <3>1, CountsAreNumbers
    <3>3. m \in Nat /\ x \in Nat /\ m + x = a + d
      BY ONLY <1>1, <3>1, MovedOnce, l \in Seq(Endpoints), o \in Seq(Endpoints), e \in Endpoints
    <3>4. y \in Nat /\ m + y = a + b
      BY ONLY <1>1, <3>1, MovedOnce, l \in Seq(Endpoints), u \in Seq(Endpoints), e \in Endpoints
    <3>5. z \in Nat /\ m + z = a + c
      BY ONLY <1>1, <3>1, MovedOnce, l \in Seq(Endpoints), g \in Seq(Endpoints), e \in Endpoints
    <3>6. a + b + c + d = n
      BY <3>1 DEF Accounted
    <3>7. m + b + c + x = n /\ m + y + c + d = n /\ m + b + z + d = n
      <4>1. m + b + c + x = n
        BY ONLY <3>2, <3>3, <3>6
      <4>2. m + y + c + d = n
        BY ONLY <3>2, <3>3, <3>4, <3>6
      <4>3. m + b + z + d = n
        BY ONLY <3>2, <3>3, <3>5, <3>6
      <4> QED
        BY <4>1, <4>2, <4>3
    <3> QED
      BY <3>1, <3>7
  <2> QED
    BY <2>1 DEF Accounted
<1>2. ASSUME u # <<>>, e.source = Head(u).source, e.method = Head(u).method
      PROVE  Accounted(scanned, l, Tail(u), g, Append(o, e))
  <2>1. ASSUME NEW source \in Nat, NEW method \in Nat
        PROVE  At(l, source, method) + At(Tail(u), source, method) + At(g, source, method)
                 + At(Append(o, e), source, method) = At(scanned, source, method)
    <3>1. PICK a, b, c, d, m, x, n :
            /\ a = At(l, source, method) /\ b = At(u, source, method) /\ c = At(g, source, method)
            /\ d = At(o, source, method) /\ m = At(Tail(u), source, method)
            /\ x = At(Append(o, e), source, method) /\ n = At(scanned, source, method)
      OBVIOUS
    <3>2. a \in Nat /\ b \in Nat /\ c \in Nat /\ d \in Nat
      BY <3>1, CountsAreNumbers
    <3>3. m \in Nat /\ x \in Nat /\ m + x = b + d
      BY ONLY <1>2, <3>1, MovedOnce, u \in Seq(Endpoints), o \in Seq(Endpoints), e \in Endpoints
    <3>4. a + b + c + d = n
      BY <3>1 DEF Accounted
    <3>5. a + m + c + x = n
      BY ONLY <3>2, <3>3, <3>4
    <3> QED
      BY <3>1, <3>5
  <2> QED
    BY <2>1 DEF Accounted
<1>3. ASSUME g # <<>>, e.source = Head(g).source, e.method = Head(g).method
      PROVE  Accounted(scanned, l, u, Tail(g), Append(o, e))
  <2>1. ASSUME NEW source \in Nat, NEW method \in Nat
        PROVE  At(l, source, method) + At(u, source, method) + At(Tail(g), source, method)
                 + At(Append(o, e), source, method) = At(scanned, source, method)
    <3>1. PICK a, b, c, d, m, x, n :
            /\ a = At(l, source, method) /\ b = At(u, source, method) /\ c = At(g, source, method)
            /\ d = At(o, source, method) /\ m = At(Tail(g), source, method)
            /\ x = At(Append(o, e), source, method) /\ n = At(scanned, source, method)
      OBVIOUS
    <3>2. a \in Nat /\ b \in Nat /\ c \in Nat /\ d \in Nat
      BY <3>1, CountsAreNumbers
    <3>3. m \in Nat /\ x \in Nat /\ m + x = c + d
      BY ONLY <1>3, <3>1, MovedOnce, g \in Seq(Endpoints), o \in Seq(Endpoints), e \in Endpoints
    <3>4. a + b + c + d = n
      BY <3>1 DEF Accounted
    <3>5. a + b + m + x = n
      BY ONLY <3>2, <3>3, <3>4
    <3> QED
      BY <3>1, <3>5
  <2> QED
    BY <2>1 DEF Accounted
<1> QED
  BY <1>1, <1>2, <1>3

\* One more endpoint is merged, with one of the answer or with none.
LEMMA OneMerged ==
  ASSUME NEW scanned, NEW answer, NEW free, NEW o, IsAnswer(answer), free \subseteq answer,
         AllMerged(o, scanned, free), Answered(answer, free, o), NEW e, NEW T,
         IsMerged(e, scanned, T),
         T = free \/ \E r \in free : T = free \ {r} /\ Id(r) = Id(e)
  PROVE  /\ AllMerged(Append(o, e), scanned, T) /\ Answered(answer, T, Append(o, e))
         /\ T \subseteq answer /\ e \in Endpoints
<1>1. T \subseteq free
  OBVIOUS
<1>2. AllMerged(Append(o, e), scanned, T)
  BY <1>1, MergedAppend
<1>3. \A d, c \in answer : Id(d) = Id(c) => d = c
  BY DEF IsAnswer
<1>4. Answered(answer, T, Append(o, e))
  <2>1. CASE T = free
    BY <1>1, <2>1, MergedAppend
  <2>2. CASE \E r \in free : T = free \ {r} /\ Id(r) = Id(e)
    <3>1. PICK r \in free : T = free \ {r} /\ Id(r) = Id(e)
      BY <2>2
    <3>2. r \in answer
      OBVIOUS
    <3> QED
      BY <1>1, <1>3, <3>1, <3>2, MergedAppend
  <2> QED
    BY <2>1, <2>2
<1> QED
  BY <1>1, <1>2, <1>4 DEF IsMerged

\* The first pass.
LEMMA IdentityMerges ==
  ASSUME NEW scanned, NEW answer, NEW l, NEW u, NEW g, NEW free, NEW c, NEW o,
         IsMerge(scanned, answer, l, u, g, free, c, o), l # <<>>, NEW spec, spec = Head(l)
  PROVE  /\ \A r \in free : Id(r) = Id(spec) =>
              IsMerge(scanned, answer, Tail(l), u, g, free \ {r}, c, Append(o, Combine(spec, r, "matched")))
         /\ Unresolved(spec.path) =>
              IsMerge(scanned, answer, Tail(l), u, Append(g, spec), free, c, o)
         /\ ~Unresolved(spec.path) =>
              IsMerge(scanned, answer, Tail(l), Append(u, spec), g, free, c, o)
<1>1. /\ IsScan(scanned) /\ IsPending(u, scanned) /\ IsPending(g, scanned) /\ IsPending(l, scanned)
      /\ IsAnswer(answer) /\ free \subseteq answer /\ free \subseteq Endpoints
      /\ AllMerged(o, scanned, free) /\ Accounted(scanned, l, u, g, o) /\ Answered(answer, free, o)
      /\ c \in Seq(Endpoints)
      /\ \A k \in DOMAIN u : ~Unresolved(u[k].path)
      /\ \A k \in DOMAIN g : Unresolved(g[k].path)
  BY DEF IsMerge, IsAnswer
<1>2. /\ spec \in Endpoints
      /\ spec.source # Nowhere => FromSource(spec, scanned)
      /\ IsPending(Tail(l), scanned)
  BY <1>1, PendingTail
<1>3. l \in Seq(Endpoints) /\ u \in Seq(Endpoints) /\ g \in Seq(Endpoints) /\ o \in Seq(Endpoints)
  BY <1>1 DEF IsPending, AllMerged
<1>4. spec.path \in Seq(Nat)
  BY <1>2 DEF Endpoints
<1>5. ASSUME NEW r \in free, Id(r) = Id(spec)
      PROVE  IsMerge(scanned, answer, Tail(l), u, g, free \ {r}, c, Append(o, Combine(spec, r, "matched")))
  <2>1. r \in Endpoints /\ r.method = spec.method /\ r.path = spec.path
    BY <1>1, <1>5 DEF Id
  <2>2. Alike(spec.path, r.path)
    BY <1>4, <2>1, AlikeIsEquivalence
  <2>3. "matched" \in Marks
    BY DEF Marks
  <2>4. PICK e, T : e = Combine(spec, r, "matched") /\ T = free \ {r}
    OBVIOUS
  <2>5. IsMerged(e, scanned, T)
    BY <1>1, <1>2, <2>1, <2>2, <2>4, MatchedIsMerged
  <2>6. e \in Endpoints /\ e.source = spec.source /\ e.method = spec.method /\ Id(r) = Id(e)
    BY <1>2, <2>1, <2>3, <2>4, CombineIs
  <2>7. AllMerged(Append(o, e), scanned, T) /\ Answered(answer, T, Append(o, e)) /\ T \subseteq answer
    BY <1>1, <2>4, <2>5, <2>6, OneMerged
  <2>8. Accounted(scanned, Tail(l), u, g, Append(o, e))
    BY <1>1, <1>3, <2>6, MovesAreAccounted
  <2>9. IsMerge(scanned, answer, Tail(l), u, g, T, c, Append(o, e))
    BY <1>1, <1>2, <2>7, <2>8 DEF IsMerge
  <2> QED
    BY <2>4, <2>9
<1>6. ASSUME Unresolved(spec.path)
      PROVE  IsMerge(scanned, answer, Tail(l), u, Append(g, spec), free, c, o)
  <2>1. PICK q : q = Append(g, spec)
    OBVIOUS
  <2>2. /\ IsPending(q, scanned)
        /\ \A k \in DOMAIN q : (k \in DOMAIN g /\ q[k] = g[k]) \/ q[k] = spec
    BY <1>1, <1>2, <2>1, PendingAppend
  <2>3. \A k \in DOMAIN q : Unresolved(q[k].path)
    BY <1>1, <1>6, <2>2
  <2>4. Accounted(scanned, Tail(l), u, q, o)
    BY <1>1, <1>2, <1>3, <2>1, MovesAreAccounted
  <2>5. IsMerge(scanned, answer, Tail(l), u, q, free, c, o)
    BY <1>1, <1>2, <2>2, <2>3, <2>4 DEF IsMerge
  <2> QED
    BY <2>1, <2>5
<1>7. ASSUME ~Unresolved(spec.path)
      PROVE  IsMerge(scanned, answer, Tail(l), Append(u, spec), g, free, c, o)
  <2>1. PICK q : q = Append(u, spec)
    OBVIOUS
  <2>2. /\ IsPending(q, scanned)
        /\ \A k \in DOMAIN q : (k \in DOMAIN u /\ q[k] = u[k]) \/ q[k] = spec
    BY <1>1, <1>2, <2>1, PendingAppend
  <2>3. \A k \in DOMAIN q : ~Unresolved(q[k].path)
    BY <1>1, <1>7, <2>2
  <2>4. Accounted(scanned, Tail(l), q, g, o)
    BY <1>1, <1>2, <1>3, <2>1, MovesAreAccounted
  <2>5. IsMerge(scanned, answer, Tail(l), q, g, free, c, o)
    BY <1>1, <1>2, <2>2, <2>3, <2>4 DEF IsMerge
  <2> QED
    BY <2>1, <2>5
<1> QED
  BY <1>5, <1>6, <1>7

\* The second pass.
LEMMA LooseMerges ==
  ASSUME NEW scanned, NEW answer, NEW l, NEW u, NEW g, NEW free, NEW c, NEW o,
         IsMerge(scanned, answer, l, u, g, free, c, o), u # <<>>, NEW spec, spec = Head(u)
  PROVE  /\ \A r \in free : r.method = spec.method /\ SameLoosely(r, spec) =>
              IsMerge(scanned, answer, l, Tail(u), g, free \ {r}, Append(c, r),
                      Append(o, Combine(spec, r, "matched")))
         /\ \A s \in Endpoints : SameLoosely(s, spec) =>
              IsMerge(scanned, answer, l, Tail(u), g, free, c,
                      Append(o, Combine(spec, [s EXCEPT !.method = spec.method], "matched")))
         /\ (\A x \in free : ~(SameLoosely(x, spec) /\ (x.unknown \/ x.method = spec.method))) =>
              IsMerge(scanned, answer, l, Tail(u), g, free, c, Append(o, Mark(spec, "static_only")))
<1>1. /\ IsScan(scanned) /\ IsPending(u, scanned) /\ IsPending(g, scanned) /\ IsPending(l, scanned)
      /\ IsAnswer(answer) /\ free \subseteq answer /\ free \subseteq Endpoints
      /\ AllMerged(o, scanned, free) /\ Accounted(scanned, l, u, g, o) /\ Answered(answer, free, o)
      /\ c \in Seq(Endpoints)
      /\ \A k \in DOMAIN u : ~Unresolved(u[k].path)
      /\ \A k \in DOMAIN g : Unresolved(g[k].path)
  BY DEF IsMerge, IsAnswer
<1>2. /\ spec \in Endpoints
      /\ spec.source # Nowhere => FromSource(spec, scanned)
      /\ IsPending(Tail(u), scanned) /\ Tail(u) \in Seq(Endpoints)
      /\ \A k \in DOMAIN Tail(u) : ~Unresolved(Tail(u)[k].path)
  BY <1>1, PendingTail DEF IsPending
<1>3. l \in Seq(Endpoints) /\ u \in Seq(Endpoints) /\ g \in Seq(Endpoints) /\ o \in Seq(Endpoints)
  BY <1>1 DEF IsPending, AllMerged
<1>4. spec.path \in Seq(Nat)
  BY <1>2 DEF Endpoints
<1>5. "matched" \in Marks /\ "static_only" \in Marks \union {"runtime_only"}
  BY DEF Marks
<1>6. ASSUME NEW s \in Endpoints, SameLoosely(s, spec)
      PROVE  Alike(spec.path, s.path)
  <2>1. s.path \in Seq(Nat)
    BY DEF Endpoints
  <2> QED
    BY <1>4, <1>6, <2>1, AlikeFlattened DEF SameLoosely
<1>7. ASSUME NEW r \in free, r.method = spec.method, SameLoosely(r, spec)
      PROVE  IsMerge(scanned, answer, l, Tail(u), g, free \ {r}, Append(c, r),
                     Append(o, Combine(spec, r, "matched")))
  <2>1. r \in Endpoints
    BY <1>1, <1>7
  <2>2. Alike(spec.path, r.path)
    BY <1>6, <1>7, <2>1
  <2>4. PICK e, T, d, t : e = Combine(spec, r, "matched") /\ T = free \ {r} /\ d = Append(c, r) /\ t = Tail(u)
    OBVIOUS
  <2>5. IsMerged(e, scanned, T)
    BY <1>1, <1>2, <1>7, <2>1, <2>2, <2>4, MatchedIsMerged
  <2>6. e \in Endpoints /\ e.source = spec.source /\ e.method = spec.method /\ Id(r) = Id(e)
    <3>1. e = Combine(spec, r, "matched") /\ "matched" \in Marks
      BY <1>5, <2>4
    <3>2. e \in Endpoints /\ e.source = spec.source /\ e.method = r.method /\ Id(e) = Id(r)
      BY ONLY <1>2, <2>1, <3>1, CombineIs
    <3> QED
      BY <1>7, <3>2
  <2>7. AllMerged(Append(o, e), scanned, T) /\ Answered(answer, T, Append(o, e)) /\ T \subseteq answer
    BY <1>1, <2>4, <2>5, <2>6, OneMerged
  <2>8. Accounted(scanned, l, t, g, Append(o, e))
    BY <1>1, <1>3, <2>4, <2>6, MovesAreAccounted
  <2>9. d \in Seq(Endpoints)
    BY <1>1, <2>1, <2>4, AppendProperties
  <2>10. IsPending(t, scanned) /\ \A k \in DOMAIN t : ~Unresolved(t[k].path)
    BY <1>2, <2>4
  <2>11. IsMerge(scanned, answer, l, t, g, T, d, Append(o, e))
    BY <1>1, <2>7, <2>8, <2>9, <2>10 DEF IsMerge
  <2> QED
    BY <2>4, <2>11
<1>8. ASSUME NEW s \in Endpoints, SameLoosely(s, spec)
      PROVE  IsMerge(scanned, answer, l, Tail(u), g, free, c,
                     Append(o, Combine(spec, [s EXCEPT !.method = spec.method], "matched")))
  <2>1. PICK r : r = [s EXCEPT !.method = spec.method]
    OBVIOUS
  <2>2. r \in Endpoints /\ r.method = spec.method /\ r.path = s.path
    BY <1>2, <2>1 DEF Endpoints
  <2>3. Alike(spec.path, r.path)
    BY <1>6, <1>8, <2>2
  <2>4. PICK e, t : e = Combine(spec, r, "matched") /\ t = Tail(u)
    OBVIOUS
  <2>5. IsMerged(e, scanned, free)
    BY <1>1, <1>2, <2>2, <2>3, <2>4, MatchedIsMerged
  <2>6. e \in Endpoints /\ e.source = spec.source /\ e.method = spec.method
    <3>1. e = Combine(spec, r, "matched") /\ "matched" \in Marks
      BY <1>5, <2>4
    <3>2. e \in Endpoints /\ e.source = spec.source /\ e.method = r.method
      BY ONLY <1>2, <2>2, <3>1, CombineIs
    <3> QED
      BY <2>2, <3>2
  <2>7. AllMerged(Append(o, e), scanned, free) /\ Answered(answer, free, Append(o, e))
    BY <1>1, <2>5, OneMerged
  <2>8. Accounted(scanned, l, t, g, Append(o, e))
    BY <1>1, <1>3, <2>4, <2>6, MovesAreAccounted
  <2>10. IsPending(t, scanned) /\ \A k \in DOMAIN t : ~Unresolved(t[k].path)
    BY <1>2, <2>4
  <2>11. IsMerge(scanned, answer, l, t, g, free, c, Append(o, e))
    BY <1>1, <2>7, <2>8, <2>10 DEF IsMerge
  <2> QED
    BY <2>1, <2>4, <2>11
<1>9. ASSUME \A x \in free : ~(SameLoosely(x, spec) /\ (x.unknown \/ x.method = spec.method))
      PROVE  IsMerge(scanned, answer, l, Tail(u), g, free, c, Append(o, Mark(spec, "static_only")))
  <2>1. \A x \in free : ~(Alike(spec.path, x.path) /\ (x.unknown \/ spec.method = x.method))
    <3> SUFFICES ASSUME NEW x \in free, Alike(spec.path, x.path) PROVE ~(x.unknown \/ spec.method = x.method)
      OBVIOUS
    <3>1. x.path \in Seq(Nat)
      BY <1>1 DEF Endpoints
    <3>2. SameLoosely(x, spec)
      BY <1>4, <3>1, AlikeFlattened DEF SameLoosely
    <3> QED
      BY <1>9, <3>2
  <2>4. PICK e, t : e = Mark(spec, "static_only") /\ t = Tail(u)
    OBVIOUS
  <2>5. IsMerged(e, scanned, free)
    BY <1>2, <2>1, <2>4, UnmatchedIsMerged
  <2>6. e \in Endpoints /\ e.source = spec.source /\ e.method = spec.method
    BY <1>2, <1>5, <2>4, MarkIs
  <2>7. AllMerged(Append(o, e), scanned, free) /\ Answered(answer, free, Append(o, e))
    BY <1>1, <2>5, OneMerged
  <2>8. Accounted(scanned, l, t, g, Append(o, e))
    BY <1>1, <1>3, <2>4, <2>6, MovesAreAccounted
  <2>10. IsPending(t, scanned) /\ \A k \in DOMAIN t : ~Unresolved(t[k].path)
    BY <1>2, <2>4
  <2>11. IsMerge(scanned, answer, l, t, g, free, c, Append(o, e))
    BY <1>1, <2>7, <2>8, <2>10 DEF IsMerge
  <2> QED
    BY <2>4, <2>11
<1> QED
  BY <1>7, <1>8, <1>9

\* The third pass.
LEMMA GapMerges ==
  ASSUME NEW scanned, NEW answer, NEW l, NEW u, NEW g, NEW free, NEW c, NEW o,
         IsMerge(scanned, answer, l, u, g, free, c, o), g # <<>>, NEW spec, spec = Head(g)
  PROVE  /\ \A r : {x \in free : x.method = spec.method /\ FillsGap(spec.path, x.path)} = {r} =>
              IsMerge(scanned, answer, l, u, Tail(g), free \ {r}, c,
                      Append(o, Combine(spec, r, "gap_filled")))
         /\ IsMerge(scanned, answer, l, u, Tail(g), free, c, Append(o, Mark(spec, "static_only")))
<1>1. /\ IsScan(scanned) /\ IsPending(u, scanned) /\ IsPending(g, scanned) /\ IsPending(l, scanned)
      /\ IsAnswer(answer) /\ free \subseteq answer /\ free \subseteq Endpoints
      /\ AllMerged(o, scanned, free) /\ Accounted(scanned, l, u, g, o) /\ Answered(answer, free, o)
      /\ c \in Seq(Endpoints)
      /\ \A k \in DOMAIN u : ~Unresolved(u[k].path)
      /\ \A k \in DOMAIN g : Unresolved(g[k].path)
      /\ \A x \in free : ~Unresolved(x.path)
  BY DEF IsMerge, IsAnswer
<1>2. /\ spec \in Endpoints
      /\ spec.source # Nowhere => FromSource(spec, scanned)
      /\ IsPending(Tail(g), scanned)
      /\ \A k \in DOMAIN Tail(g) : Unresolved(Tail(g)[k].path)
      /\ Unresolved(spec.path)
  BY <1>1, PendingTail
<1>3. l \in Seq(Endpoints) /\ u \in Seq(Endpoints) /\ g \in Seq(Endpoints) /\ o \in Seq(Endpoints)
  BY <1>1 DEF IsPending, AllMerged
<1>5. "gap_filled" \in Marks /\ "static_only" \in Marks \union {"runtime_only"}
  BY DEF Marks
<1>6. PICK t : t = Tail(g)
  OBVIOUS
<1>7. IsPending(t, scanned) /\ \A k \in DOMAIN t : Unresolved(t[k].path)
  BY <1>2, <1>6
<1>8. ASSUME NEW r, {x \in free : x.method = spec.method /\ FillsGap(spec.path, x.path)} = {r}
      PROVE  IsMerge(scanned, answer, l, u, Tail(g), free \ {r}, c,
                     Append(o, Combine(spec, r, "gap_filled")))
  <2>1. r \in free /\ r.method = spec.method /\ FillsGap(spec.path, r.path)
    BY <1>8
  <2>2. r \in Endpoints /\ ~Unresolved(r.path)
    BY <1>1, <2>1
  <2>3. PICK e, T : e = Combine(spec, r, "gap_filled") /\ T = free \ {r}
    OBVIOUS
  <2>4. T \subseteq Endpoints /\ \A x \in T : x.method = spec.method => ~FillsGap(spec.path, x.path)
    BY <1>1, <1>8, <2>3
  <2>5. IsMerged(e, scanned, T)
    BY <1>1, <1>2, <2>1, <2>2, <2>3, <2>4, FilledIsMerged
  <2>6. e \in Endpoints /\ e.source = spec.source /\ e.method = spec.method /\ Id(r) = Id(e)
    <3>1. e = Combine(spec, r, "gap_filled") /\ "gap_filled" \in Marks
      BY <1>5, <2>3
    <3>2. e \in Endpoints /\ e.source = spec.source /\ e.method = r.method /\ Id(e) = Id(r)
      BY ONLY <1>2, <2>2, <3>1, CombineIs
    <3> QED
      BY <2>1, <3>2
  <2>7. AllMerged(Append(o, e), scanned, T) /\ Answered(answer, T, Append(o, e)) /\ T \subseteq answer
    BY <1>1, <2>1, <2>3, <2>5, <2>6, OneMerged
  <2>8. Accounted(scanned, l, u, t, Append(o, e))
    BY <1>1, <1>3, <1>6, <2>6, MovesAreAccounted
  <2>11. IsMerge(scanned, answer, l, u, t, T, c, Append(o, e))
    BY <1>1, <1>7, <2>7, <2>8 DEF IsMerge
  <2> QED
    BY <1>6, <2>3, <2>11
<1>9. IsMerge(scanned, answer, l, u, Tail(g), free, c, Append(o, Mark(spec, "static_only")))
  <2>4. PICK e : e = Mark(spec, "static_only")
    OBVIOUS
  <2>5. IsMerged(e, scanned, free)
    BY <1>2, <2>4, UnmatchedIsMerged
  <2>6. e \in Endpoints /\ e.source = spec.source /\ e.method = spec.method
    BY <1>2, <1>5, <2>4, MarkIs
  <2>7. AllMerged(Append(o, e), scanned, free) /\ Answered(answer, free, Append(o, e))
    BY <1>1, <2>5, OneMerged
  <2>8. Accounted(scanned, l, u, t, Append(o, e))
    BY <1>1, <1>3, <1>6, <2>6, MovesAreAccounted
  <2>11. IsMerge(scanned, answer, l, u, t, free, c, Append(o, e))
    BY <1>1, <1>7, <2>7, <2>8 DEF IsMerge
  <2> QED
    BY <1>6, <2>4, <2>11
<1> QED
  BY <1>8, <1>9

(***************************************************************************)
(* The list between two merges.                                            *)
(***************************************************************************)
Fits(e, scanned, list) ==
  \E k \in DOMAIN scanned :
    /\ scanned[k].source = e.source /\ scanned[k].method = e.method
    /\ \/ Alike(scanned[k].path, e.path)
       \/ /\ FillsGap(scanned[k].path, e.path)
          /\ e.mark = "gap_filled" =>
               \A i \in DOMAIN list :
                 list[i].mark = "runtime_only" /\ list[i].method = scanned[k].method
                   => ~FillsGap(scanned[k].path, list[i].path)

IsList(list, scanned, answer) ==
  /\ IsScan(scanned) /\ IsPending(list, scanned)
  /\ \A source \in Nat, method \in Nat : At(list, source, method) = At(scanned, source, method)
  /\ \A r \in answer : \E k \in DOMAIN list : Id(list[k]) = Id(r)
  /\ \A k \in DOMAIN list : list[k].source # Nowhere => Fits(list[k], scanned, list)
  /\ \A j, k \in DOMAIN list :
       list[j].mark = "static_only" /\ ~Unresolved(list[j].path) /\ list[k].mark = "runtime_only"
         => ~(Alike(list[j].path, list[k].path) /\ (list[k].unknown \/ list[j].method = list[k].method))

\* As scanned.
LEMMA ScanIsList ==
  ASSUME NEW scanned, IsScan(scanned), \A k \in DOMAIN scanned : scanned[k].mark = "none"
  PROVE  IsList(scanned, scanned, {})
<1>1. scanned \in Seq(Endpoints) /\ \A k \in DOMAIN scanned : scanned[k] \in Endpoints
  BY Positions DEF IsScan
<1>2. \A k \in DOMAIN scanned : scanned[k].path \in Seq(Nat)
  BY <1>1 DEF Endpoints
<1>3. \A k \in DOMAIN scanned : Alike(scanned[k].path, scanned[k].path)
  BY <1>2, AlikeIsEquivalence
<1>4. \A k \in DOMAIN scanned : FromSource(scanned[k], scanned) /\ Fits(scanned[k], scanned, scanned)
  BY <1>3 DEF FromSource, Fits
<1>5. IsPending(scanned, scanned)
  BY <1>1, <1>4 DEF IsPending
<1> QED
  BY <1>4, <1>5 DEF IsList

\* As a merge begins.
LEMMA MergeBegins ==
  ASSUME NEW list, NEW scanned, NEW before, IsList(list, scanned, before), NEW answer, IsAnswer(answer)
  PROVE  IsMerge(scanned, answer, list, <<>>, <<>>, answer, <<>>, <<>>)
<1>1. PICK q : q = <<>>
  OBVIOUS
<1>2. q \in Seq(Endpoints) /\ DOMAIN q = {}
  BY <1>1
<1>3. \A source, method : At(q, source, method) = 0
  BY <1>2, NonePlaced
<1>4. scanned \in Seq(Endpoints)
  BY DEF IsList, IsScan
<1>5. Accounted(scanned, list, q, q, q)
  <2>1. ASSUME NEW source \in Nat, NEW method \in Nat
        PROVE  At(list, source, method) + At(q, source, method) + At(q, source, method) + At(q, source, method)
                 = At(scanned, source, method)
    <3>1. PICK a, b : a = At(list, source, method) /\ b = At(scanned, source, method)
      OBVIOUS
    <3>2. a = b /\ b \in Nat
      BY <1>4, <3>1, CountsAreNumbers DEF IsList
    <3>3. a + 0 + 0 + 0 = b
      BY ONLY <3>2
    <3> QED
      BY <1>3, <3>1, <3>3
  <2> QED
    BY <2>1 DEF Accounted
<1>6. IsPending(q, scanned) /\ AllMerged(q, scanned, answer)
  BY <1>2 DEF IsPending, AllMerged
<1>7. Answered(answer, answer, q)
  BY DEF Answered
<1>8. IsMerge(scanned, answer, list, q, q, answer, q, q)
  BY <1>2, <1>5, <1>6, <1>7 DEF IsMerge, IsList
<1> QED
  BY <1>1, <1>8

\* As it ends.
LEMMA MergeEnds ==
  ASSUME NEW scanned, NEW answer, NEW l, NEW u, NEW g, NEW free, NEW c, NEW o,
         IsMerge(scanned, answer, l, u, g, free, c, o), l = <<>>, u = <<>>, g = <<>>
  PROVE  IsList(Sorted(o \o [k \in DOMAIN InIdOrder(free) |-> Mark(InIdOrder(free)[k], "runtime_only")]),
                scanned, answer)
<1>1. /\ IsScan(scanned) /\ IsAnswer(answer) /\ free \subseteq answer /\ free \subseteq Endpoints
      /\ AllMerged(o, scanned, free) /\ Accounted(scanned, l, u, g, o) /\ Answered(answer, free, o)
      /\ \A r \in free : r.source = Nowhere
  BY DEF IsMerge, IsAnswer
<1>2. PICK q : q = InIdOrder(free)
  OBVIOUS
<1>3. Lists(q, free)
  BY <1>1, <1>2, PartsOfAnswers
<1>4. /\ Len(q) \in Nat /\ DOMAIN q = 1..Len(q) /\ \A k \in DOMAIN q : q[k] \in free
      /\ \A x \in free : \E k \in DOMAIN q : q[k] = x
  BY <1>3 DEF Lists
<1>5. PICK t : t = [k \in DOMAIN q |-> Mark(q[k], "runtime_only")]
  OBVIOUS
<1>6. "runtime_only" \in Marks \union {"runtime_only"}
  OBVIOUS
<1>7. \A r \in free : /\ Mark(r, "runtime_only") \in Endpoints /\ Mark(r, "runtime_only").source = Nowhere
                      /\ Mark(r, "runtime_only").method = r.method
                      /\ Mark(r, "runtime_only").path = r.path
                      /\ Mark(r, "runtime_only").mark = "runtime_only"
                      /\ Mark(r, "runtime_only").unknown = r.unknown
                      /\ Id(Mark(r, "runtime_only")) = Id(r)
  BY <1>1, <1>6, MarkIs
<1>8. DOMAIN t = 1..Len(q) /\ \A k \in DOMAIN t : t[k] \in Endpoints /\ q[k] \in free /\ t[k] = Mark(q[k], "runtime_only")
  BY <1>4, <1>5, <1>7
<1>9. t \in Seq(Endpoints) /\ Len(t) = Len(q)
  <2>1. t \in [1..Len(q) -> Endpoints]
    BY <1>5, <1>8
  <2> QED
    BY <1>4, <2>1, SeqDef, LenProperties
<1>10. o \in Seq(Endpoints) /\ Len(o) \in Nat /\ DOMAIN o = 1..Len(o)
       /\ \A k \in DOMAIN o : IsMerged(o[k], scanned, free)
  BY <1>1, LenProperties DEF AllMerged
<1>11. PICK s : s = o \o t
  OBVIOUS
<1>12. /\ s \in Seq(Endpoints) /\ Len(s) = Len(o) + Len(t) /\ DOMAIN s = 1..Len(s)
       /\ \A k \in 1..(Len(o) + Len(t)) : s[k] = IF k <= Len(o) THEN o[k] ELSE t[k - Len(o)]
  BY <1>9, <1>10, <1>11, ConcatProperties, LenProperties
<1>13. \A k \in DOMAIN s : IsMerged(s[k], scanned, free) \/ \E r \in free : s[k] = Mark(r, "runtime_only")
  <2> SUFFICES ASSUME NEW k \in DOMAIN s
               PROVE  IsMerged(s[k], scanned, free) \/ \E r \in free : s[k] = Mark(r, "runtime_only")
    OBVIOUS
  <2>1. CASE k <= Len(o)
    <3>1. k \in DOMAIN o /\ s[k] = o[k]
      BY <1>9, <1>4, <1>10, <1>12, <2>1
    <3> QED
      BY <1>10, <3>1
  <2>2. CASE ~(k <= Len(o))
    <3>1. k - Len(o) \in 1..Len(q) /\ s[k] = t[k - Len(o)]
      BY <1>4, <1>9, <1>10, <1>12, <2>2
    <3> QED
      BY <1>8, <3>1
  <2> QED
    BY <2>1, <2>2
<1>14. /\ \A k \in DOMAIN o : \E i \in DOMAIN s : s[i] = o[k]
       /\ \A r \in free : \E i \in DOMAIN s : s[i] = Mark(r, "runtime_only")
  <2>1. ASSUME NEW k \in DOMAIN o PROVE \E i \in DOMAIN s : s[i] = o[k]
    <3>1. k \in DOMAIN s /\ s[k] = o[k]
      BY <1>4, <1>9, <1>10, <1>12, <2>1
    <3> QED
      BY <3>1
  <2>2. ASSUME NEW r \in free PROVE \E i \in DOMAIN s : s[i] = Mark(r, "runtime_only")
    <3>1. PICK k \in DOMAIN q : q[k] = r
      BY <1>4
    <3>2. k \in DOMAIN t /\ t[k] = Mark(r, "runtime_only") /\ k \in 1..Len(t)
      BY <1>4, <1>8, <1>9, <3>1
    <3>3. Len(o) + k \in DOMAIN s /\ s[Len(o) + k] = t[k]
      BY <1>4, <1>9, <1>10, <1>12, <3>2
    <3> QED
      BY <3>2, <3>3
  <2> QED
    BY <2>1, <2>2
<1>15. PICK z : z = Sorted(s)
  OBVIOUS
<1>16. /\ z \in Seq(Endpoints) /\ DOMAIN z = DOMAIN s
       /\ \E at : Lists(at, DOMAIN s) /\ DOMAIN at = DOMAIN s /\ \A k \in DOMAIN s : z[k] = s[at[k]]
  BY <1>12, <1>15, SortedIsThere
<1>17. PICK at : Lists(at, DOMAIN s) /\ DOMAIN at = DOMAIN s /\ \A k \in DOMAIN s : z[k] = s[at[k]]
  BY <1>16
<1>18. /\ \A k \in DOMAIN z : at[k] \in DOMAIN s /\ z[k] = s[at[k]]
       /\ \A i \in DOMAIN s : \E k \in DOMAIN z : z[k] = s[i]
  <2>1. /\ \A k \in DOMAIN at : at[k] \in DOMAIN s
        /\ \A i \in DOMAIN s : \E k \in DOMAIN at : at[k] = i
    BY <1>17 DEF Lists
  <2>2. DOMAIN z = DOMAIN s /\ DOMAIN at = DOMAIN s /\ \A k \in DOMAIN s : z[k] = s[at[k]]
    BY <1>16, <1>17
  <2>3. ASSUME NEW i \in DOMAIN s PROVE \E k \in DOMAIN z : z[k] = s[i]
    <3>1. PICK k \in DOMAIN at : at[k] = i
      BY <2>1
    <3>2. k \in DOMAIN z /\ z[k] = s[at[k]]
      BY <2>2
    <3> QED
      BY <3>1, <3>2
  <2>4. \A k \in DOMAIN z : at[k] \in DOMAIN s /\ z[k] = s[at[k]]
    BY ONLY <2>1, <2>2
  <2> QED
    BY <2>3, <2>4
<1>19. /\ \A k \in DOMAIN z : IsMerged(z[k], scanned, free) \/ \E r \in free : z[k] = Mark(r, "runtime_only")
       /\ \A k \in DOMAIN o : \E i \in DOMAIN z : z[i] = o[k]
       /\ \A r \in free : \E i \in DOMAIN z : z[i] = Mark(r, "runtime_only")
  BY <1>13, <1>14, <1>18
<1>20. "runtime_only" \notin Marks
  BY DEF Marks
<1>21. \A k \in DOMAIN z : z[k].mark = "runtime_only" => \E r \in free : z[k] = Mark(r, "runtime_only")
  BY <1>19, <1>20 DEF IsMerged
<1>22. \A k \in DOMAIN z : z[k].source # Nowhere => IsMerged(z[k], scanned, free)
  BY <1>7, <1>19
<1>23. \A k \in DOMAIN z : z[k].mark = "static_only" => IsMerged(z[k], scanned, free)
  BY <1>7, <1>19
<1>24. IsPending(z, scanned)
  <2>1. ASSUME NEW k \in DOMAIN z, z[k].source # Nowhere PROVE FromSource(z[k], scanned)
    <3>1. Linked(z[k], scanned, free)
      BY <1>22, <2>1 DEF IsMerged
    <3> QED
      BY <3>1 DEF Linked, FromSource
  <2> QED
    BY <1>16, <2>1 DEF IsPending
<1>25. \A source \in Nat, method \in Nat : At(z, source, method) = At(scanned, source, method)
  <2> SUFFICES ASSUME NEW source \in Nat, NEW method \in Nat
               PROVE  At(z, source, method) = At(scanned, source, method)
    OBVIOUS
  <2>1. At(z, source, method) = At(s, source, method)
    BY <1>12, <1>15, AtSorted
  <2>2. At(s, source, method) = At(o, source, method) + At(t, source, method)
    BY <1>9, <1>10, <1>11, AtConcat
  <2>3. At(t, source, method) = 0
    <3>1. \A k \in DOMAIN t : t[k].source = Nowhere
      BY <1>7, <1>8
    <3>2. \A k \in DOMAIN t : t[k].source # source
      BY <3>1, RuntimesAssumption
    <3> QED
      BY <1>9, <3>2, NonePlaced
  <2>4. PICK e : e = <<>>
    OBVIOUS
  <2>5. e \in Seq(Endpoints) /\ DOMAIN e = {}
    BY <2>4
  <2>6. At(e, source, method) = 0
    BY <2>5, NonePlaced
  <2>7. At(e, source, method) + At(e, source, method) + At(e, source, method) + At(o, source, method)
          = At(scanned, source, method)
    BY <1>1, <2>4 DEF Accounted
  <2>8. PICK x, y : x = At(o, source, method) /\ y = At(scanned, source, method)
    OBVIOUS
  <2>9. x \in Nat /\ 0 + 0 + 0 + x = y
    BY <1>10, <2>6, <2>7, <2>8, CountsAreNumbers
  <2>10. x + 0 = y
    BY ONLY <2>9
  <2> QED
    BY <2>1, <2>2, <2>3, <2>8, <2>10
<1>26. \A r \in answer : \E k \in DOMAIN z : Id(z[k]) = Id(r)
  BY <1>1, <1>7, <1>19 DEF Answered
<1>27. \A k \in DOMAIN z : z[k].source # Nowhere => Fits(z[k], scanned, z)
  <2> SUFFICES ASSUME NEW k \in DOMAIN z, z[k].source # Nowhere PROVE Fits(z[k], scanned, z)
    OBVIOUS
  <2>1. Linked(z[k], scanned, free)
    BY <1>22 DEF IsMerged
  <2>2. PICK j \in DOMAIN scanned :
          /\ scanned[j].source = z[k].source /\ scanned[j].method = z[k].method
          /\ \/ Alike(scanned[j].path, z[k].path)
             \/ /\ FillsGap(scanned[j].path, z[k].path)
                /\ z[k].mark = "gap_filled" =>
                     \A x \in free : x.method = z[k].method => ~FillsGap(scanned[j].path, x.path)
    BY <2>1 DEF Linked
  <2>3. ASSUME NEW i \in DOMAIN z, z[k].mark = "gap_filled",
               \A x \in free : x.method = z[k].method => ~FillsGap(scanned[j].path, x.path),
               z[i].mark = "runtime_only", z[i].method = scanned[j].method
        PROVE  ~FillsGap(scanned[j].path, z[i].path)
    <3>1. PICK r \in free : z[i] = Mark(r, "runtime_only")
      BY <1>21, <2>3
    <3>2. r.method = z[k].method /\ r.path = z[i].path
      BY <1>7, <2>2, <2>3, <3>1
    <3> QED
      BY <2>3, <3>2
  <2> QED
    BY <2>2, <2>3 DEF Fits
<1>28. ASSUME NEW j \in DOMAIN z, NEW k \in DOMAIN z, z[j].mark = "static_only", ~Unresolved(z[j].path),
              z[k].mark = "runtime_only"
       PROVE  ~(Alike(z[j].path, z[k].path) /\ (z[k].unknown \/ z[j].method = z[k].method))
  <2>1. NotAmong(z[j], free)
    BY <1>23, <1>28 DEF IsMerged
  <2>2. PICK r \in free : z[k] = Mark(r, "runtime_only")
    BY <1>21, <1>28
  <2>3. z[k].path = r.path /\ z[k].unknown = r.unknown /\ z[k].method = r.method
    BY <1>7, <2>2
  <2>4. ~(Alike(z[j].path, r.path) /\ (r.unknown \/ z[j].method = r.method))
    BY <1>28, <2>1 DEF NotAmong
  <2> QED
    BY <2>3, <2>4
<1>29. IsList(z, scanned, answer)
  BY <1>1, <1>24, <1>25, <1>26, <1>27, <1>28 DEF IsList
<1> QED
  BY <1>2, <1>5, <1>11, <1>15, <1>29

\* What is scanned is of the source, and as no merge left it.
LEMMA ScannedIsScan ==
  ASSUME WalkTyped
  PROVE  IsScan(Scanned) /\ \A k \in DOMAIN Scanned : Scanned[k].mark = "none"
<1> DEFINE s == [k \in DOMAIN listed |-> Endpoint(listed[k].method, listed[k].path, listed[k].route)]
<1>1. Len(listed) \in Nat /\ DOMAIN listed = 1..Len(listed)
  BY LenProperties DEF WalkTyped
<1>2. \A k \in DOMAIN listed : IsRow(listed[k])
  BY <1>1 DEF WalkTyped
<1>3. facts \in Found
  BY DEF WalkTyped
<1>4. ASSUME NEW k \in DOMAIN listed
      PROVE  s[k] \in Endpoints /\ s[k].source \in Nat /\ s[k].mark = "none"
  <2>1. /\ listed[k].route \in Nat /\ listed[k].method \in Nat /\ listed[k].path \in Seq(Nat)
    BY <1>2, <1>3, <1>4, PositionsOfFacts DEF IsRow
  <2> QED
    BY <1>4, <2>1 DEF Endpoint, Endpoints
<1>5. s \in [1..Len(listed) -> Endpoints]
  BY <1>1, <1>4
<1>6. s \in Seq(Endpoints) /\ DOMAIN s = DOMAIN listed
  BY <1>1, <1>5, SeqDef
<1>7. \A k \in DOMAIN s : s[k].source \in Nat /\ s[k].mark = "none"
  BY <1>4, <1>6
<1>8. Scanned = Sorted(s)
  BY DEF Scanned
<1> HIDE DEF s
<1>9. PICK z : z = Sorted(s)
  OBVIOUS
<1>10. /\ z \in Seq(Endpoints) /\ DOMAIN z = DOMAIN s
       /\ \E at : Lists(at, DOMAIN s) /\ DOMAIN at = DOMAIN s /\ \A k \in DOMAIN s : z[k] = s[at[k]]
  BY <1>6, <1>9, SortedIsThere
<1>11. PICK at : Lists(at, DOMAIN s) /\ DOMAIN at = DOMAIN s /\ \A k \in DOMAIN s : z[k] = s[at[k]]
  BY <1>10
<1>12. \A k \in DOMAIN z : at[k] \in DOMAIN s /\ z[k] = s[at[k]]
  BY <1>10, <1>11 DEF Lists
<1>13. \A k \in DOMAIN z : z[k].source \in Nat /\ z[k].mark = "none"
  BY <1>7, <1>12
<1>14. \A k \in DOMAIN z : z[k].source # Nowhere
  BY <1>13, RuntimesAssumption
<1> QED
  BY <1>8, <1>9, <1>10, <1>13, <1>14 DEF IsScan

LEMMA DoneStays ==
  ASSUME WalkTyped, Done
  PROVE  ~RegistrationNext
BY DEF WalkTyped, Done, RegistrationNext, Index, Start, Descend, Return, Sweep, StartOrphan

(***************************************************************************)
(* What asking the application never undoes.                               *)
(***************************************************************************)
EnrichInv ==
  /\ merging \in BOOLEAN
  /\ merging \/ specs # <<>> \/ served # {} => Done
  /\ merging => MergeInv(Scanned)
  /\ ~merging => left = <<>> /\ unmatched = <<>> /\ withGaps = <<>>
  /\ ~merging /\ (specs # <<>> \/ served # {}) => IsList(specs, Scanned, served)

LEMMA ByIdentityMerges ==
  ASSUME NEW scanned, MergeInv(scanned), ByIdentity
  PROVE  (MergeInv(scanned))'
<1>1. PICK spec, l, u, g, free, o : /\ spec = Head(left) /\ l = left' /\ u = unmatched' /\ g = withGaps'
                                    /\ free = unclaimed' /\ o = out'
  OBVIOUS
<1>2. /\ left # <<>> /\ l = Tail(left) /\ claimed' = claimed /\ served' = served
      /\ \/ \E r \in unclaimed : /\ Id(r) = Id(spec) /\ o = Append(out, Combine(spec, r, "matched"))
                                 /\ free = unclaimed \ {r} /\ u = unmatched /\ g = withGaps
         \/ Unresolved(spec.path) /\ g = Append(withGaps, spec) /\ u = unmatched /\ free = unclaimed /\ o = out
         \/ ~Unresolved(spec.path) /\ u = Append(unmatched, spec) /\ g = withGaps /\ free = unclaimed /\ o = out
  BY <1>1 DEF ByIdentity
<1>3. IsMerge(scanned, served, left, unmatched, withGaps, unclaimed, claimed, out)
  BY DEF MergeInv
<1>4. /\ \A r \in unclaimed : Id(r) = Id(spec) =>
              IsMerge(scanned, served, Tail(left), unmatched, withGaps, unclaimed \ {r}, claimed,
                      Append(out, Combine(spec, r, "matched")))
      /\ Unresolved(spec.path) =>
           IsMerge(scanned, served, Tail(left), unmatched, Append(withGaps, spec), unclaimed, claimed, out)
      /\ ~Unresolved(spec.path) =>
           IsMerge(scanned, served, Tail(left), Append(unmatched, spec), withGaps, unclaimed, claimed, out)
  BY <1>1, <1>2, <1>3, IdentityMerges
<1>5. IsMerge(scanned, served, l, u, g, free, claimed, o)
  BY <1>2, <1>4
<1> QED
  BY <1>1, <1>2, <1>5 DEF MergeInv

\* Where the second pass looks.
LEMMA ElsewhereIs ==
  ASSUME NEW scanned, MergeInv(scanned)
  PROVE  /\ Elsewhere \in Seq(Endpoints) /\ DOMAIN Elsewhere \subseteq Nat
         /\ \A k \in DOMAIN Elsewhere : Elsewhere[k] \in Endpoints
         /\ \A r \in unclaimed : \E k \in DOMAIN Elsewhere : Elsewhere[k] = r
<1>1. PICK q, s, t : q = InIdOrder(unclaimed) /\ s = q \o claimed /\ t = s \o out
  OBVIOUS
<1>2. /\ IsAnswer(served) /\ unclaimed \subseteq served /\ unclaimed \subseteq Endpoints
      /\ claimed \in Seq(Endpoints) /\ out \in Seq(Endpoints)
  BY DEF MergeInv, IsMerge, IsAnswer, AllMerged
<1>3. Lists(q, unclaimed)
  BY <1>1, <1>2, PartsOfAnswers
<1>4. /\ Len(q) \in Nat /\ DOMAIN q = 1..Len(q) /\ \A x \in unclaimed : \E k \in DOMAIN q : q[k] = x
      /\ q \in Seq(unclaimed)
  BY <1>3 DEF Lists
<1>5. q \in Seq(Endpoints)
  BY <1>2, <1>4, LenProperties, SeqDef
<1>6. /\ s \in Seq(Endpoints) /\ Len(s) = Len(q) + Len(claimed)
      /\ \A k \in 1..(Len(q) + Len(claimed)) : s[k] = IF k <= Len(q) THEN q[k] ELSE claimed[k - Len(q)]
  BY <1>1, <1>2, <1>5, ConcatProperties
<1>7. /\ t \in Seq(Endpoints) /\ Len(t) = Len(s) + Len(out)
      /\ \A k \in 1..(Len(s) + Len(out)) : t[k] = IF k <= Len(s) THEN s[k] ELSE out[k - Len(s)]
  BY <1>1, <1>2, <1>6, ConcatProperties
<1>8. Len(claimed) \in Nat /\ Len(out) \in Nat /\ Len(s) \in Nat /\ DOMAIN t = 1..Len(t)
  BY <1>2, <1>6, <1>7, LenProperties
<1>9. ASSUME NEW r \in unclaimed PROVE \E k \in DOMAIN t : t[k] = r
  <2>1. PICK k \in DOMAIN q : q[k] = r
    BY <1>4
  <2>2. k \in 1..Len(q) /\ k \in Nat
    BY <1>4
  <2>3. s[k] = r /\ k \in 1..Len(s)
    BY <1>4, <1>6, <1>8, <2>1, <2>2
  <2>4. t[k] = s[k] /\ k \in DOMAIN t
    BY <1>7, <1>8, <2>3
  <2> QED
    BY <2>3, <2>4
<1>10. DOMAIN t \subseteq Nat /\ \A k \in DOMAIN t : t[k] \in Endpoints
  BY <1>7, Positions
<1>11. t = Elsewhere
  BY <1>1 DEF Elsewhere
<1> QED
  BY <1>7, <1>9, <1>10, <1>11

LEMMA LooselyMerges ==
  ASSUME NEW scanned, MergeInv(scanned), Loosely
  PROVE  (MergeInv(scanned))'
<1>1. PICK spec, u, free, c, o : /\ spec = Head(unmatched) /\ u = unmatched' /\ free = unclaimed'
                                 /\ c = claimed' /\ o = out'
  OBVIOUS
<1> DEFINE same == {r \in unclaimed : r.method = spec.method /\ SameLoosely(r, spec)}
           found == Head(InIdOrder(same))
           beside == Elsewhere[Min(Siblings(spec))]
<1>2. /\ unmatched # <<>> /\ u = Tail(unmatched)
      /\ left' = left /\ withGaps' = withGaps /\ served' = served
      /\ \/ /\ same # {} /\ free = unclaimed \ {found} /\ c = Append(claimed, found)
            /\ o = Append(out, Combine(spec, found, "matched"))
         \/ /\ same = {} /\ free = unclaimed /\ c = claimed
            /\ o = Append(out,
                IF Siblings(spec) = {} THEN Mark(spec, "static_only")
                ELSE Combine(spec, [beside EXCEPT !.method = spec.method], "matched"))
  BY <1>1 DEF Loosely
<1>3. IsMerge(scanned, served, left, unmatched, withGaps, unclaimed, claimed, out)
  BY DEF MergeInv
<1>4. /\ \A r \in unclaimed : r.method = spec.method /\ SameLoosely(r, spec) =>
              IsMerge(scanned, served, left, Tail(unmatched), withGaps, unclaimed \ {r}, Append(claimed, r),
                      Append(out, Combine(spec, r, "matched")))
      /\ \A s \in Endpoints : SameLoosely(s, spec) =>
              IsMerge(scanned, served, left, Tail(unmatched), withGaps, unclaimed, claimed,
                      Append(out, Combine(spec, [s EXCEPT !.method = spec.method], "matched")))
      /\ (\A x \in unclaimed : ~(SameLoosely(x, spec) /\ (x.unknown \/ x.method = spec.method))) =>
              IsMerge(scanned, served, left, Tail(unmatched), withGaps, unclaimed, claimed,
                      Append(out, Mark(spec, "static_only")))
  BY <1>1, <1>2, <1>3, LooseMerges
<1>5. CASE same # {}
  <2>1. PICK q : q = InIdOrder(same)
    OBVIOUS
  <2>2. IsAnswer(served) /\ same \subseteq served
    BY <1>3 DEF IsMerge
  <2>3. Lists(q, same)
    <3> HIDE DEF same
    <3> QED
      BY <2>1, <2>2, PartsOfAnswers
  <2>4. found \in same
    <3> HIDE DEF same
    <3>1. PICK x \in same : TRUE
      BY <1>5
    <3>2. PICK k \in DOMAIN q : q[k] = x
      BY <2>3, <3>1 DEF Lists
    <3>3. 1 \in DOMAIN q
      BY <2>3, <3>2 DEF Lists
    <3>4. q[1] \in same
      BY <2>3, <3>3 DEF Lists
    <3> QED
      BY <2>1, <3>4
  <2>5. PICK f : f = found
    OBVIOUS
  <2>6. f \in unclaimed /\ f.method = spec.method /\ SameLoosely(f, spec)
    BY <2>4, <2>5
  <2>7. free = unclaimed \ {f} /\ c = Append(claimed, f) /\ o = Append(out, Combine(spec, f, "matched"))
    BY <1>2, <1>5, <2>5
  <2>8. IsMerge(scanned, served, left, u, withGaps, free, c, o)
    BY <1>2, <1>4, <2>6, <2>7
  <2> QED
    BY <1>1, <1>2, <2>8 DEF MergeInv
<1>6. CASE same = {} /\ Siblings(spec) = {}
  <2>1. \A x \in unclaimed : ~(SameLoosely(x, spec) /\ (x.unknown \/ x.method = spec.method))
    <3> SUFFICES ASSUME NEW x \in unclaimed, SameLoosely(x, spec) PROVE ~x.unknown /\ x.method # spec.method
      OBVIOUS
    <3>1. x.method # spec.method
      BY <1>6
    <3>2. PICK k \in DOMAIN Elsewhere : Elsewhere[k] = x
      BY ElsewhereIs
    <3>3. ~x.unknown
      BY <1>6, <3>2 DEF Siblings
    <3> QED
      BY <3>1, <3>3
  <2>2. free = unclaimed /\ c = claimed /\ o = Append(out, Mark(spec, "static_only"))
    BY <1>2, <1>6
  <2>3. IsMerge(scanned, served, left, u, withGaps, free, c, o)
    BY <1>2, <1>4, <2>1, <2>2
  <2> QED
    BY <1>1, <1>2, <2>3 DEF MergeInv
<1>7. CASE same = {} /\ Siblings(spec) # {}
  <2>1. Siblings(spec) \subseteq DOMAIN Elsewhere /\ Siblings(spec) \subseteq Nat
    BY ElsewhereIs DEF Siblings
  <2>2. Min(Siblings(spec)) \in Siblings(spec)
    BY <1>7, <2>1, LeastOf
  <2>3. PICK b : b = beside
    OBVIOUS
  <2>4. b \in Endpoints /\ SameLoosely(b, spec)
    BY <2>1, <2>2, <2>3, ElsewhereIs DEF Siblings
  <2>5. /\ free = unclaimed /\ c = claimed
        /\ o = Append(out, Combine(spec, [b EXCEPT !.method = spec.method], "matched"))
    BY <1>2, <1>7, <2>3
  <2>6. IsMerge(scanned, served, left, u, withGaps, free, c, o)
    BY <1>2, <1>4, <2>4, <2>5
  <2> QED
    BY <1>1, <1>2, <2>6 DEF MergeInv
<1> QED
  BY <1>5, <1>6, <1>7

LEMMA GapsMerge ==
  ASSUME NEW scanned, MergeInv(scanned), Gaps
  PROVE  (MergeInv(scanned))'
<1>1. PICK spec, g, free, o : spec = Head(withGaps) /\ g = withGaps' /\ free = unclaimed' /\ o = out'
  OBVIOUS
<1>2. /\ withGaps # <<>> /\ g = Tail(withGaps)
      /\ left' = left /\ unmatched' = unmatched /\ claimed' = claimed /\ served' = served
      /\ \/ \E r : /\ {x \in unclaimed : x.method = spec.method /\ FillsGap(spec.path, x.path)} = {r}
                   /\ free = unclaimed \ {r} /\ o = Append(out, Combine(spec, r, "gap_filled"))
         \/ free = unclaimed /\ o = Append(out, Mark(spec, "static_only"))
  BY <1>1 DEF Gaps, Candidates
<1>3. IsMerge(scanned, served, left, unmatched, withGaps, unclaimed, claimed, out)
  BY DEF MergeInv
<1>4. /\ \A r : {x \in unclaimed : x.method = spec.method /\ FillsGap(spec.path, x.path)} = {r} =>
              IsMerge(scanned, served, left, unmatched, Tail(withGaps), unclaimed \ {r}, claimed,
                      Append(out, Combine(spec, r, "gap_filled")))
      /\ IsMerge(scanned, served, left, unmatched, Tail(withGaps), unclaimed, claimed,
                 Append(out, Mark(spec, "static_only")))
  BY <1>1, <1>2, <1>3, GapMerges
<1>5. IsMerge(scanned, served, left, unmatched, g, free, claimed, o)
  <2>1. CASE \E r : /\ {x \in unclaimed : x.method = spec.method /\ FillsGap(spec.path, x.path)} = {r}
                    /\ free = unclaimed \ {r} /\ o = Append(out, Combine(spec, r, "gap_filled"))
    <3>1. PICK r : /\ {x \in unclaimed : x.method = spec.method /\ FillsGap(spec.path, x.path)} = {r}
                   /\ free = unclaimed \ {r} /\ o = Append(out, Combine(spec, r, "gap_filled"))
      BY <2>1
    <3>2. IsMerge(scanned, served, left, unmatched, Tail(withGaps), unclaimed \ {r}, claimed,
                  Append(out, Combine(spec, r, "gap_filled")))
      BY <1>4, <3>1
    <3> QED
      BY <1>2, <3>1, <3>2
  <2>2. CASE free = unclaimed /\ o = Append(out, Mark(spec, "static_only"))
    BY <1>2, <1>4, <2>2
  <2> QED
    BY <1>2, <2>1, <2>2
<1> QED
  BY <1>1, <1>2, <1>5 DEF MergeInv

LEMMA MergedLists ==
  ASSUME NEW scanned, MergeInv(scanned), Merged
  PROVE  IsList(specs', scanned, served) /\ served' = served /\ merging' = FALSE
         /\ left' = <<>> /\ unmatched' = <<>> /\ withGaps' = <<>>
<1>1. /\ left = <<>> /\ unmatched = <<>> /\ withGaps = <<>>
      /\ left' = left /\ unmatched' = unmatched /\ withGaps' = withGaps /\ served' = served
      /\ merging' = FALSE
      /\ specs' = Sorted(out \o [k \in DOMAIN InIdOrder(unclaimed) |->
                               Mark(InIdOrder(unclaimed)[k], "runtime_only")])
  BY DEF Merged
<1>2. IsMerge(scanned, served, left, unmatched, withGaps, unclaimed, claimed, out)
  BY DEF MergeInv
<1>3. IsList(Sorted(out \o [k \in DOMAIN InIdOrder(unclaimed) |->
                               Mark(InIdOrder(unclaimed)[k], "runtime_only")]), scanned, served)
  BY <1>1, <1>2, MergeEnds
<1> QED
  BY <1>1, <1>3

LEMMA AskedMerges ==
  ASSUME NEW scanned, NEW runtime \in Runtimes, IsList(specs, scanned, served), Ask(runtime)
  PROVE  (MergeInv(scanned))'
<1>1. PICK answer \in ById(runtime) : unclaimed' = answer /\ served' = answer
  BY DEF Ask
<1>2. IsAnswer(answer)
  BY RuntimesAreAnswers
<1>3. IsMerge(scanned, answer, specs, <<>>, <<>>, answer, <<>>, <<>>)
  BY <1>2, MergeBegins
<1> QED
  BY <1>1, <1>3 DEF Ask, MergeInv

LEMMA EnrichmentAtFirst ==
  ASSUME EnrichmentInit
  PROVE  EnrichInv
BY DEF EnrichmentInit, EnrichInv

LEMMA SameScan ==
  ASSUME listed' = listed
  PROVE  Scanned' = Scanned
BY DEF Scanned

LEMMA EnrichmentStays ==
  ASSUME WalkTyped, EnrichInv, [DiscoveryNext]_discoveryVars
  PROVE  EnrichInv'
<1>1. CASE RegistrationNext /\ UNCHANGED enrichmentVars
  <2>1. ~Done
    BY <1>1, DoneStays
  <2>2. merging = FALSE /\ specs = <<>> /\ served = {} /\ left = <<>> /\ unmatched = <<>> /\ withGaps = <<>>
    BY <2>1 DEF EnrichInv
  <2>3. merging' = FALSE /\ specs' = <<>> /\ served' = {} /\ left' = <<>> /\ unmatched' = <<>> /\ withGaps' = <<>>
    BY <1>1, <2>2 DEF enrichmentVars, mergeVars
  <2> QED
    BY <2>3 DEF EnrichInv
<1>2. ASSUME UNCHANGED registrationVars
      PROVE  Scanned' = Scanned /\ Done' = Done
  <2>1. listed' = listed /\ sweeping' = sweeping /\ stack' = stack /\ from' = from
    BY <1>2 DEF registrationVars, walkVars
  <2> QED
    BY <2>1, SameScan DEF Done
<1>3. CASE Scan
  <2>1. /\ Done /\ merging = FALSE /\ specs' = Scanned /\ served' = {} /\ merging' = FALSE
        /\ left' = left /\ unmatched' = unmatched /\ withGaps' = withGaps
        /\ UNCHANGED registrationVars
    BY <1>3 DEF Scan, mergeVars, EnrichInv
  <2>2. Scanned' = Scanned /\ Done'
    BY <1>2, <2>1
  <2>3. IsList(Scanned, Scanned, {})
    BY ScannedIsScan, ScanIsList
  <2>4. IsList(specs', Scanned', served')
    BY <2>1, <2>2, <2>3
  <2>5. left' = <<>> /\ unmatched' = <<>> /\ withGaps' = <<>>
    BY <2>1 DEF EnrichInv
  <2> QED
    BY <2>1, <2>2, <2>4, <2>5 DEF EnrichInv
<1>4. CASE \E runtime \in Runtimes : RunEnrich(runtime)
  <2>1. PICK runtime \in Runtimes : RunEnrich(runtime)
    BY <1>4
  <2>2. Done /\ specs # <<>> /\ Ask(runtime) /\ UNCHANGED registrationVars
    BY <2>1 DEF RunEnrich
  <2>3. merging = FALSE /\ merging' = TRUE
    BY <2>2 DEF Ask, EnrichInv
  <2>4. IsList(specs, Scanned, served)
    BY <2>2, <2>3 DEF EnrichInv
  <2>5. PICK scanned : scanned = Scanned
    OBVIOUS
  <2>7. (MergeInv(scanned))'
    BY <2>2, <2>4, <2>5, AskedMerges
  <2>8. Scanned' = Scanned /\ Done'
    BY <1>2, <2>2
  <2>9. (MergeInv(Scanned))'
    BY <2>5, <2>7, <2>8 DEF MergeInv
  <2> QED
    BY <2>3, <2>8, <2>9 DEF EnrichInv
<1>5. CASE Merging /\ UNCHANGED registrationVars
  <2>1. PICK scanned : scanned = Scanned
    OBVIOUS
  <2>2. Scanned' = Scanned /\ (Done' <=> Done)
    BY <1>2, <1>5
  <2>3. ASSUME merging, UNCHANGED merging, (MergeInv(scanned))'
        PROVE  EnrichInv'
    <3>1. Done /\ merging' = TRUE
      BY <2>3 DEF EnrichInv
    <3>2. (MergeInv(Scanned))'
      BY <2>1, <2>2, <2>3 DEF MergeInv
    <3> QED
      BY <2>2, <3>1, <3>2 DEF EnrichInv
  <2>4. merging = TRUE /\ MergeInv(scanned)
    <3>1. left # <<>> \/ unmatched # <<>> \/ withGaps # <<>> \/ merging
      BY <1>5 DEF Merging, ByIdentity, Loosely, Gaps, Merged
    <3>2. merging = TRUE
      BY <3>1 DEF EnrichInv
    <3> QED
      BY <2>1, <3>2 DEF EnrichInv
  <2>5. CASE ByIdentity
    <3>1. (MergeInv(scanned))'
      BY <2>4, <2>5, ByIdentityMerges
    <3>2. UNCHANGED merging
      BY <2>5 DEF ByIdentity
    <3> QED
      BY <2>3, <2>4, <3>1, <3>2
  <2>6. CASE Loosely
    <3>1. (MergeInv(scanned))'
      BY <2>4, <2>6, LooselyMerges
    <3>2. UNCHANGED merging
      BY <2>6 DEF Loosely
    <3> QED
      BY <2>3, <2>4, <3>1, <3>2
  <2>7. CASE Gaps
    <3>1. (MergeInv(scanned))'
      BY <2>4, <2>7, GapsMerge
    <3>2. UNCHANGED merging
      BY <2>7 DEF Gaps
    <3> QED
      BY <2>3, <2>4, <3>1, <3>2
  <2>8. CASE Merged
    <3>1. /\ IsList(specs', scanned, served) /\ served' = served /\ merging' = FALSE
          /\ left' = <<>> /\ unmatched' = <<>> /\ withGaps' = <<>>
      BY <2>4, <2>8, MergedLists
    <3>2. IsList(specs', Scanned', served')
      BY <2>1, <2>2, <3>1
    <3>3. Done'
      BY <2>2, <2>4 DEF EnrichInv
    <3> QED
      BY <3>1, <3>2, <3>3 DEF EnrichInv
  <2> QED
    BY <1>5, <2>5, <2>6, <2>7, <2>8 DEF Merging
<1>6. CASE UNCHANGED discoveryVars
  <2>1. /\ UNCHANGED registrationVars
        /\ UNCHANGED <<specs, merging, left, unmatched, withGaps, unclaimed, claimed, out, served>>
    BY <1>6 DEF discoveryVars, enrichmentVars, mergeVars
  <2>2. Scanned' = Scanned /\ Done' = Done
    BY <1>2, <2>1
  <2>3. MergeInv(Scanned) => (MergeInv(Scanned))'
    BY <2>1, <2>2 DEF MergeInv
  <2>4. IsList(specs, Scanned, served) => IsList(specs', Scanned', served')
    BY <2>1, <2>2
  <2> QED
    BY <2>1, <2>2, <2>3, <2>4 DEF EnrichInv
<1> QED
  BY <1>1, <1>3, <1>4, <1>5, <1>6 DEF DiscoveryNext

LEMMA NothingForgotten ==
  ASSUME WalkTyped, EnrichInv
  PROVE  NothingIsForgotten
<1> SUFFICES ASSUME Enriched
             PROVE  /\ \A k \in DOMAIN Scanned : At(specs, Scanned[k].source, Scanned[k].method)
                                                   = At(Scanned, Scanned[k].source, Scanned[k].method)
                    /\ \A r \in served : \E k \in DOMAIN specs : Id(specs[k]) = Id(r)
  BY DEF NothingIsForgotten
<1>1. IsList(specs, Scanned, served)
  BY DEF Enriched, EnrichInv
<1>2. PICK scanned : scanned = Scanned
  OBVIOUS
<1>3. IsList(specs, scanned, served)
  BY <1>1, <1>2
<1>4. ASSUME NEW k \in DOMAIN scanned
      PROVE  At(specs, scanned[k].source, scanned[k].method) = At(scanned, scanned[k].source, scanned[k].method)
  <2>1. scanned \in Seq(Endpoints) /\ scanned[k].source # Nowhere
    BY <1>3 DEF IsList, IsScan
  <2>2. scanned[k] \in Endpoints
    BY <2>1, Positions
  <2>3. scanned[k].source \in Nat /\ scanned[k].method \in Nat
    BY <2>1, <2>2 DEF Endpoints
  <2> QED
    BY <1>3, <2>3 DEF IsList
<1> QED
  BY <1>2, <1>3, <1>4 DEF IsList

LEMMA SoundMatches ==
  ASSUME WalkTyped, EnrichInv
  PROVE  MatchesAreSound
<1>1. PICK scanned : scanned = Scanned
  OBVIOUS
<1>2. ASSUME ~merging
      PROVE  specs = <<>> \/ IsList(specs, scanned, served)
  BY <1>1, <1>2 DEF EnrichInv
<1>3. LinksFit
  <2> SUFFICES ASSUME ~merging, NEW k \in DOMAIN specs, specs[k].source # Nowhere
               PROVE  \E s \in ToSet(scanned) :
                        /\ s.source = specs[k].source /\ s.method = specs[k].method
                        /\ \/ Alike(s.path, specs[k].path)
                           \/ /\ FillsGap(s.path, specs[k].path)
                              /\ specs[k].mark = "gap_filled" =>
                                   \A i \in DOMAIN specs :
                                     specs[i].mark = "runtime_only" /\ specs[i].method = s.method
                                       => ~FillsGap(s.path, specs[i].path)
    BY <1>1 DEF LinksFit
  <2>1. specs # <<>>
    OBVIOUS
  <2>2. Fits(specs[k], scanned, specs)
    BY <1>2, <2>1 DEF IsList
  <2>3. PICK j \in DOMAIN scanned :
    /\ scanned[j].source = specs[k].source /\ scanned[j].method = specs[k].method
    /\ \/ Alike(scanned[j].path, specs[k].path)
       \/ /\ FillsGap(scanned[j].path, specs[k].path)
          /\ specs[k].mark = "gap_filled" =>
               \A i \in DOMAIN specs :
                 specs[i].mark = "runtime_only" /\ specs[i].method = scanned[j].method
                   => ~FillsGap(scanned[j].path, specs[i].path)
    BY <2>2 DEF Fits
  <2>4. scanned[j] \in ToSet(scanned)
    BY DEF ToSet
  <2> QED
    BY <2>3, <2>4
<1>4. LeftoversDiffer
  <2> SUFFICES ASSUME Enriched
               PROVE  \A j, k \in DOMAIN specs :
                        specs[j].mark = "static_only" /\ ~Unresolved(specs[j].path)
                          /\ specs[k].mark = "runtime_only"
                        => ~(Alike(specs[j].path, specs[k].path)
                               /\ (specs[k].unknown \/ specs[j].method = specs[k].method))
    BY DEF LeftoversDiffer
  <2>1. IsList(specs, Scanned, served)
    BY DEF Enriched, EnrichInv
  <2> QED
    BY <2>1 DEF IsList
<1> QED
  BY <1>3, <1>4 DEF MatchesAreSound

\* Scanning, asking the application and merging its answer leave the walk of the
\* registration graph as it is: a project is discovered by that walk.
THEOREM DiscoveryIsAWalk == DiscoverySpec => RegistrationSpec
<1>1. DiscoveryInit => RegistrationInit
  BY DEF DiscoveryInit
<1>2. [DiscoveryNext]_discoveryVars => [RegistrationNext]_registrationVars
  BY DiscoveryWalks
<1> QED
  BY <1>1, <1>2, PTL DEF DiscoverySpec, RegistrationSpec

\* Each list of endpoints is made of the scan and of what the application served.
THEOREM DiscoveryInvariance == DiscoverySpec => [](WalkTyped /\ EnrichInv)
<1>1. DiscoveryInit => EnrichInv
  BY EnrichmentAtFirst DEF DiscoveryInit
<1>2. WalkTyped /\ EnrichInv /\ [DiscoveryNext]_discoveryVars => EnrichInv'
  BY EnrichmentStays
<1>3. DiscoverySpec => [](WalkTyped /\ Course)
  BY DiscoveryIsAWalk, RegistrationInvariance
<1> QED
  BY <1>1, <1>2, <1>3, PTL DEF DiscoverySpec

\* Whatever the application said, and however often it was asked, each endpoint
\* that was scanned is still in the list, and so is all the application listed.
THEOREM NothingIsEverForgotten == DiscoverySpec => []NothingIsForgotten
BY DiscoveryInvariance, NothingForgotten, PTL

\* What the merge links belongs together, and what it leaves on both sides does not.
THEOREM MatchesAreAlwaysSound == DiscoverySpec => []MatchesAreSound
BY DiscoveryInvariance, SoundMatches, PTL

=============================================================================
