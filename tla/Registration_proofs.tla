------------------------- MODULE Registration_proofs -------------------------
(***************************************************************************)
(* The walk of the registration graph: it follows paths, it lists each way *)
(* from a root to a route once, and it drops nothing in silence, whatever  *)
(* was found, however the mounts are wired and whatever the limits.        *)
(*                                                                         *)
(* The argument, in the order of the sections: a set is put in turn once   *)
(* and for all; what names stand for does not change with the walk; the    *)
(* types; what a frame of the stack is given by the way that leads to it;  *)
(* the stack follows a way, and each step of the walk leaves one way less  *)
(* ahead, or none; what is listed is what is behind.                       *)
(***************************************************************************)
EXTENDS Registration, FiniteSetTheorems, SequenceTheorems, TLAPS

(***************************************************************************)
(* A finite set, put in turn.                                              *)
(***************************************************************************)
\* A relation that puts the elements of a set in one order.
Orders(R, S) ==
  /\ \A x \in S : <<x, x>> \notin R
  /\ \A x, y, z \in S : <<x, y>> \in R /\ <<y, z>> \in R => <<x, z>> \in R
  /\ \A x, y \in S : x # y => <<x, y>> \in R \/ <<y, x>> \in R

\* Ranks grow along the order.
LEMMA RanksGrow ==
  ASSUME NEW S, IsFiniteSet(S), NEW R, Orders(R, S), NEW x \in S, NEW y \in S, <<x, y>> \in R
  PROVE  Cardinality({z \in S : <<z, x>> \in R}) < Cardinality({z \in S : <<z, y>> \in R})
<1> DEFINE A == {z \in S : <<z, x>> \in R}
           B == {z \in S : <<z, y>> \in R}
<1>1. A \union {x} \subseteq B /\ x \notin A
  BY DEF Orders
<1>2. IsFiniteSet(A) /\ IsFiniteSet(B) /\ Cardinality(A) \in Nat /\ Cardinality(B) \in Nat
  <2>1. A \in SUBSET S /\ B \in SUBSET S
    OBVIOUS
  <2> HIDE DEF A, B
  <2> QED
    BY <2>1, FS_Subset, FS_CardinalityType
<1> HIDE DEF A, B
<1>3. Cardinality(A \union {x}) = Cardinality(A) + 1
  BY <1>1, <1>2, FS_AddElement
<1>4. Cardinality(A \union {x}) <= Cardinality(B)
  BY <1>1, <1>2, FS_Subset
<1> QED
  BY <1>2, <1>3, <1>4 DEF A, B

LEMMA RanksDiffer ==
  ASSUME NEW S, IsFiniteSet(S), NEW R, Orders(R, S), NEW x \in S, NEW y \in S,
         Cardinality({z \in S : <<z, x>> \in R}) = Cardinality({z \in S : <<z, y>> \in R})
  PROVE  x = y
<1> DEFINE rank(a) == Cardinality({z \in S : <<z, a>> \in R})
<1>1. \A a \in S : rank(a) \in Nat
  <2>1. SUFFICES ASSUME NEW a \in S PROVE rank(a) \in Nat
    OBVIOUS
  <2>2. {z \in S : <<z, a>> \in R} \in SUBSET S
    OBVIOUS
  <2> QED
    BY <2>2, FS_Subset, FS_CardinalityType
<1>2. \A a, b \in S : <<a, b>> \in R => rank(a) < rank(b)
  BY RanksGrow
<1>3. rank(x) = rank(y)
  OBVIOUS
<1> HIDE DEF rank
<1>4. SUFFICES ASSUME x # y PROVE FALSE
  OBVIOUS
<1>5. <<x, y>> \in R \/ <<y, x>> \in R
  BY <1>4 DEF Orders
<1>6. rank(x) < rank(y) \/ rank(y) < rank(x)
  BY <1>2, <1>5
<1>7. rank(x) \in Nat /\ rank(y) \in Nat
  BY <1>1
<1> QED
  BY <1>3, <1>6, <1>7

\* InTurn lists each element once, in order.
LEMMA TurnsAreTaken ==
  ASSUME NEW S, IsFiniteSet(S), NEW R, Orders(R, S)
  PROVE  /\ Cardinality(S) \in Nat
         /\ InTurn(S, R) \in [1..Cardinality(S) -> S]
         /\ InTurn(S, R) \in Seq(S)
         /\ Len(InTurn(S, R)) = Cardinality(S)
         /\ \A x \in S : \E k \in 1..Cardinality(S) : InTurn(S, R)[k] = x
         /\ \A j, k \in 1..Cardinality(S) : InTurn(S, R)[j] = InTurn(S, R)[k] => j = k
         /\ \A j, k \in 1..Cardinality(S) : j < k => <<InTurn(S, R)[j], InTurn(S, R)[k]>> \in R
<1> DEFINE rank(a) == Cardinality({z \in S : <<z, a>> \in R})
           n == Cardinality(S)
           q == InTurn(S, R)
<1>1. n \in Nat
  BY FS_CardinalityType
<1>2. \A a \in S : rank(a) \in 0..(n - 1)
  <2>1. SUFFICES ASSUME NEW a \in S PROVE rank(a) \in 0..(n - 1)
    OBVIOUS
  <2> DEFINE U == {z \in S : <<z, a>> \in R}
             W == S \ {a}
  <2>2. U \in SUBSET W
    BY DEF Orders
  <2>3. IsFiniteSet(W) /\ Cardinality(W) = n - 1
    BY FS_RemoveElement
  <2>6. rank(a) = Cardinality(U)
    OBVIOUS
  <2> HIDE DEF U, W, rank, n
  <2>4. IsFiniteSet(U) /\ Cardinality(U) <= Cardinality(W)
    BY <2>2, <2>3, FS_Subset
  <2>5. Cardinality(U) \in Nat
    BY <2>4, FS_CardinalityType
  <2> QED
    BY <1>1, <2>3, <2>4, <2>5, <2>6
<1>3. \A a, b \in S : rank(a) = rank(b) => a = b
  BY RanksDiffer
<1>4. \A a, b \in S : <<a, b>> \in R => rank(a) < rank(b)
  BY RanksGrow
<1>5. \A k \in 1..n : \E a \in S : rank(a) = k - 1
  <2>1. SUFFICES ASSUME NEW k \in 1..n, \A a \in S : rank(a) # k - 1 PROVE FALSE
    OBVIOUS
  <2> DEFINE T == (0..(n - 1)) \ {k - 1}
             f == [a \in S |-> rank(a)]
  <2>2. f \in [S -> T]
    BY <1>2, <2>1
  <2>3. IsFiniteSet(0..(n - 1)) /\ Cardinality(0..(n - 1)) = n
    <3>1. 0 \in Int /\ n - 1 \in Int /\ ~(0 > n - 1) /\ (n - 1) - 0 + 1 = n
      BY <1>1, <2>1
    <3> HIDE DEF n
    <3> QED
      BY <3>1, FS_Interval, Zenon
  <2>4. IsFiniteSet(T) /\ Cardinality(T) = n - 1
    <3>1. k - 1 \in 0..(n - 1)
      BY <1>1
    <3> HIDE DEF n
    <3> QED
      BY <2>3, <3>1, FS_RemoveElement
  <2>5. Cardinality(T) < Cardinality(S)
    BY <1>1, <2>4
  <2>6. PICK a \in S, b \in S : a # b /\ f[a] = f[b]
    <3> HIDE DEF f, T
    <3> QED
      BY <2>2, <2>4, <2>5, FS_PigeonHole
  <2> QED
    BY <1>3, <2>6
<1>6. q = [k \in 1..n |-> CHOOSE a \in S : rank(a) = k - 1]
  BY DEF InTurn
<1> HIDE DEF rank, n, q
<1>7. \A k \in 1..n : q[k] \in S /\ rank(q[k]) = k - 1
  BY <1>5, <1>6
<1>8. q \in [1..n -> S]
  BY <1>6, <1>7
<1>9. q \in Seq(S) /\ Len(q) = n
  BY <1>1, <1>8
<1>10. \A x \in S : \E k \in 1..n : q[k] = x
  <2>1. SUFFICES ASSUME NEW x \in S PROVE \E k \in 1..n : q[k] = x
    OBVIOUS
  <2>2. rank(x) + 1 \in 1..n /\ rank(x) \in Nat
    BY <1>1, <1>2
  <2>3. q[rank(x) + 1] \in S /\ rank(q[rank(x) + 1]) = rank(x)
    BY <1>7, <2>2
  <2> QED
    BY <1>3, <2>2, <2>3
<1>11. \A j, k \in 1..n : q[j] = q[k] => j = k
  BY <1>1, <1>7
<1>12. \A j, k \in 1..n : j < k => <<q[j], q[k]>> \in R
  <2>1. SUFFICES ASSUME NEW j \in 1..n, NEW k \in 1..n, j < k PROVE <<q[j], q[k]>> \in R
    OBVIOUS
  <2>2. q[j] \in S /\ q[k] \in S /\ rank(q[j]) = j - 1 /\ rank(q[k]) = k - 1
    BY <1>7
  <2>3. q[j] # q[k] /\ ~(<<q[k], q[j]>> \in R)
    BY <1>4, <2>1, <2>2
  <2> QED
    BY <2>2, <2>3 DEF Orders
<1> QED
  BY <1>1, <1>8, <1>9, <1>10, <1>11, <1>12 DEF n, q

\* A sequence of the elements of a finite set, each once.
Lists(q, S) ==
  /\ q \in Seq(S) /\ Len(q) = Cardinality(S) /\ Cardinality(S) \in Nat
  /\ DOMAIN q = 1..Cardinality(S)
  /\ \A k \in DOMAIN q : q[k] \in S
  /\ \A x \in S : \E k \in DOMAIN q : q[k] = x
  /\ \A j, k \in DOMAIN q : q[j] = q[k] => j = k

LEMMA TurnsList ==
  ASSUME NEW S, IsFiniteSet(S), NEW R, Orders(R, S)
  PROVE  Lists(InTurn(S, R), S)
<1>1. PICK q : q = InTurn(S, R)
  OBVIOUS
<1>2. /\ Cardinality(S) \in Nat
      /\ q \in [1..Cardinality(S) -> S]
      /\ q \in Seq(S)
      /\ Len(q) = Cardinality(S)
      /\ \A x \in S : \E k \in 1..Cardinality(S) : q[k] = x
      /\ \A j, k \in 1..Cardinality(S) : q[j] = q[k] => j = k
  BY <1>1, TurnsAreTaken
<1>3. DOMAIN q = 1..Cardinality(S) /\ \A k \in 1..Cardinality(S) : q[k] \in S
  BY <1>2
<1>4. Lists(q, S)
  BY <1>2, <1>3 DEF Lists
<1> QED
  BY <1>1, <1>4

LEMMA ImageIsFinite ==
  ASSUME NEW S, IsFiniteSet(S), NEW f, DOMAIN f = S
  PROVE  IsFiniteSet({f[x] : x \in S})
<1> DEFINE T == {f[x] : x \in S}
           g == [x \in S |-> f[x]]
<1>1. g \in Surjection(S, T)
  BY DEF Surjection
<1> HIDE DEF g, T
<1>2. IsFiniteSet(T)
  BY <1>1, FS_Surjection
<1> QED
  BY <1>2 DEF T

\* A set of numbers that is not empty has a least one, and a greatest one if it is finite.
LEMMA LeastOf ==
  ASSUME NEW T, T \subseteq Nat, T # {}
  PROVE  Min(T) \in T /\ \A x \in T : Min(T) <= x
<1>1. PICK n \in T : TRUE
  OBVIOUS
<1> DEFINE U == {x \in T : x <= n}
           R == {p \in U \X U : p[1] < p[2]}
<1>2. IsFiniteSet(U)
  <2>1. U \in SUBSET Nat /\ n \in Nat /\ \A x \in U : x <= n
    BY <1>1
  <2> HIDE DEF U
  <2> QED
    BY <2>1, FS_BoundedSetOfNaturals
<1>3. Orders(R, U)
  BY DEF Orders
<1>4. Cardinality(U) # 0
  <2>1. U # {}
    BY <1>1
  <2> HIDE DEF U
  <2> QED
    BY <1>2, <2>1, FS_EmptySet
<1> DEFINE m == Cardinality(U)
           q == InTurn(U, R)
<1>5. /\ m \in Nat /\ q \in [1..m -> U]
      /\ \A x \in U : \E k \in 1..m : q[k] = x
      /\ \A j, k \in 1..m : j < k => <<q[j], q[k]>> \in R
  <2> HIDE DEF U, R
  <2> QED
    BY <1>2, <1>3, TurnsAreTaken
<1>9. \A x, y : <<x, y>> \in R => x <= y
  <2>1. SUFFICES ASSUME NEW x, NEW y, <<x, y>> \in R PROVE x <= y
    OBVIOUS
  <2>2. x \in U /\ y \in U /\ <<x, y>>[1] < <<x, y>>[2]
    BY <2>1, Zenon
  <2> QED
    BY <2>2
<1>10. U \subseteq T /\ \A x \in T : x \in U \/ n <= x
  OBVIOUS
<1> HIDE DEF m, q, R, U
<1>6. 1 \in 1..m
  BY <1>4, <1>5 DEF m
<1>7. q[1] \in U /\ \A x \in U : q[1] <= x
  <2>1. q[1] \in U
    BY <1>5, <1>6
  <2>2. ASSUME NEW x \in U PROVE q[1] <= x
    <3>1. PICK k \in 1..m : q[k] = x
      BY <1>5
    <3>2. CASE k = 1
      BY <2>1, <3>1, <3>2 DEF U
    <3>3. CASE k # 1
      <4>1. <<q[1], q[k]>> \in R
        BY <1>5, <1>6, <3>3
      <4> QED
        BY <1>9, <3>1, <4>1
    <3> QED
      BY <3>2, <3>3
  <2> QED
    BY <2>1, <2>2
<1>8. q[1] \in T /\ \A x \in T : q[1] <= x
  <2>1. n \in U /\ n \in Nat /\ q[1] \in Nat /\ q[1] <= n
    BY <1>1, <1>7, <1>10 DEF U
  <2>2. ASSUME NEW x \in T PROVE q[1] <= x
    <3>1. x \in Nat
      OBVIOUS
    <3> QED
      BY <1>7, <1>10, <2>1, <3>1
  <2> QED
    BY <1>7, <1>10, <2>2
<1> QED
  BY <1>8 DEF Min

LEMMA GreatestOf ==
  ASSUME NEW T, T \subseteq Nat, T # {}, IsFiniteSet(T)
  PROVE  Max(T) \in T /\ \A x \in T : x <= Max(T)
<1> DEFINE R == {p \in T \X T : p[1] < p[2]}
           m == Cardinality(T)
           q == InTurn(T, R)
<1>3. Orders(R, T)
  BY DEF Orders
<1>4. m # 0
  BY FS_EmptySet
<1>5. /\ m \in Nat /\ q \in [1..m -> T]
      /\ \A x \in T : \E k \in 1..m : q[k] = x
      /\ \A j, k \in 1..m : j < k => <<q[j], q[k]>> \in R
  <2> HIDE DEF R
  <2> QED
    BY <1>3, TurnsAreTaken
<1>10. \A x, y : <<x, y>> \in R => x <= y
  <2>1. SUFFICES ASSUME NEW x, NEW y, <<x, y>> \in R PROVE x <= y
    OBVIOUS
  <2>2. x \in T /\ y \in T /\ <<x, y>>[1] < <<x, y>>[2]
    BY <2>1, Zenon
  <2> QED
    BY <2>2
<1> HIDE DEF m, q, R
<1>6. m \in 1..m
  BY <1>4, <1>5
<1>7. q[m] \in T
  BY <1>5, <1>6
<1>8. ASSUME NEW x \in T PROVE x <= q[m]
  <2>1. PICK k \in 1..m : q[k] = x
    BY <1>5
  <2>2. CASE k = m
    BY <1>7, <2>1, <2>2
  <2>3. CASE k # m
    <3>1. <<q[k], q[m]>> \in R
      BY <1>5, <1>6, <2>3
    <3> QED
      BY <1>10, <2>1, <3>1
  <2> QED
    BY <2>2, <2>3
<1>9. q[m] \in T /\ \A x \in T : q[m] >= x
  BY <1>7, <1>8
<1> QED
  BY <1>9 DEF Max

\* Positions in a sequence, of which there are finitely many.
LEMMA Positions ==
  ASSUME NEW S, NEW s \in Seq(S)
  PROVE  /\ Len(s) \in Nat /\ DOMAIN s = 1..Len(s) /\ DOMAIN s \subseteq Nat /\ IsFiniteSet(DOMAIN s)
         /\ \A k \in DOMAIN s : s[k] \in S
<1>1. Len(s) \in Nat /\ DOMAIN s = 1..Len(s) /\ \A k \in 1..Len(s) : s[k] \in S
  BY LenProperties
<1>2. IsFiniteSet(1..Len(s))
  <2>1. 1 \in Int /\ Len(s) \in Int
    BY <1>1
  <2> QED
    BY <2>1, FS_Interval, Zenon
<1> QED
  BY <1>1, <1>2

\* Some positions of a sequence, in order.
LEMMA PlacesInTurn ==
  ASSUME NEW T, T \subseteq Nat, IsFiniteSet(T)
  PROVE  Lists(InTurn(T, {p \in T \X T : p[1] < p[2]}), T)
<1> DEFINE R == {p \in T \X T : p[1] < p[2]}
<1>1. Orders(R, T)
  BY DEF Orders
<1> HIDE DEF R
<1>2. Lists(InTurn(T, R), T)
  BY <1>1, TurnsList
<1> QED
  BY <1>2 DEF R

\* Pairs of numbers in order.
LEMMA PairsInTurn ==
  ASSUME NEW T, T \subseteq Nat \X Nat, IsFiniteSet(T)
  PROVE  Lists(InOrder(T), T)
<1> DEFINE R == {p \in T \X T : Before(p[1], p[2])}
<1>1. Orders(R, T)
  <2>1. \A x, y \in T : <<x, y>> \in R <=> Before(x, y)
    OBVIOUS
  <2>2. \A x \in T : x[1] \in Nat /\ x[2] \in Nat
    OBVIOUS
  <2>3. \A x, y \in T : x[1] = y[1] /\ x[2] = y[2] => x = y
    OBVIOUS
  <2>4. \A x \in T : ~Before(x, x)
    BY <2>2 DEF Before
  <2>5. \A x, y, z \in T : Before(x, y) /\ Before(y, z) => Before(x, z)
    BY <2>2 DEF Before
  <2>6. \A x, y \in T : x # y => Before(x, y) \/ Before(y, x)
    <3>1. SUFFICES ASSUME NEW x \in T, NEW y \in T, x # y PROVE Before(x, y) \/ Before(y, x)
      OBVIOUS
    <3>2. x[1] # y[1] \/ x[2] # y[2]
      BY <2>3, <3>1
    <3> QED
      BY <2>2, <3>2 DEF Before
  <2> HIDE DEF R
  <2> QED
    BY <2>1, <2>4, <2>5, <2>6 DEF Orders
<1>2. InOrder(T) = InTurn(T, R)
  BY DEF InOrder
<1> HIDE DEF R
<1> QED
  BY <1>1, <1>2, TurnsList

(***************************************************************************)
(* What names stand for.                                                   *)
(***************************************************************************)
\* What names stand for does not change while the facts do not.
LEMMA SameDeclarations ==
  ASSUME facts' = facts
  PROVE  \A s : /\ RouterOf(s)' = RouterOf(s) /\ Declared(s)' = Declared(s) /\ Implicit(s)' = Implicit(s)
                /\ OwnPrefix(s)' = OwnPrefix(s) /\ OwnGroup(s)' = OwnGroup(s)
<1>1. \A s : RouterOf(s)' = RouterOf(s)
  BY DEF RouterOf
<1>2. \A s : Declared(s)' = Declared(s)
  BY <1>1 DEF Declared
<1> QED
  BY <1>1, <1>2 DEF Implicit, OwnPrefix, OwnGroup

LEMMA SameBindings ==
  ASSUME facts' = facts
  PROVE  \A s : Binding(s)' = Binding(s) /\ Exported(s)' = Exported(s) /\ Hop(s)' = Hop(s)
<1>1. \A s : Binding(s)' = Binding(s)
  BY DEF Binding
<1>2. \A s : Exported(s)' = Exported(s)
  BY DEF Exported
<1> QED
  BY <1>1, <1>2 DEF Hop

LEMMA SameCanonical ==
  ASSUME facts' = facts, NEW s
  PROVE  Canonical(s)' = Canonical(s)
<1>1. \A t : Hop(t)' = Hop(t)
  BY SameBindings
<1>2. \A t : Declared(t)' = Declared(t)
  BY SameDeclarations
<1> QED
  BY <1>1, <1>2, Zenon DEF Canonical

LEMMA SamePackages ==
  ASSUME facts' = facts
  PROVE  \A package, parts : /\ PackageRouter(package, parts)' = PackageRouter(package, parts)
                             /\ PackageAlias(package, parts)' = PackageAlias(package, parts)
<1>1. \A package, parts : PackageRouter(package, parts)' = PackageRouter(package, parts)
  BY DEF PackageRouter
<1>2. \A package, parts : PackageAlias(package, parts)' = PackageAlias(package, parts)
  BY DEF PackageAlias
<1> QED
  BY <1>1, <1>2

\* The names that are tried in a package.
Tried(package, parts) ==
  LET after[n \in 0..MaxHops] ==
        IF n = 0 THEN parts
        ELSE Renamed(after[n - 1], PackageAlias(package, after[n - 1]),
                     PackageAlias(package, <<Head(after[n - 1])>>))
  IN after

FirstTried(package, tried) ==
  LET found == {n \in 1..MaxHops : PackageRouter(package, tried[n - 1]) # None}
  IN IF found = {} THEN None ELSE PackageRouter(package, tried[Min(found) - 1])

LEMMA FoundInIsFirstTried ==
  ASSUME NEW package, NEW parts
  PROVE  FoundIn(package, parts) = FirstTried(package, Tried(package, parts))
BY DEF FoundIn, FirstTried, Tried

LEMMA SameFound ==
  ASSUME facts' = facts, NEW package, NEW parts
  PROVE  FoundIn(package, parts)' = FoundIn(package, parts)
<1>1. \A p, q : PackageRouter(p, q)' = PackageRouter(p, q)
  BY SamePackages
<1>2. \A p, q : PackageAlias(p, q)' = PackageAlias(p, q)
  BY SamePackages
<1>3. Tried(package, parts)' = Tried(package, parts)
  BY <1>2, Zenon DEF Tried
<1>4. \A tried : FirstTried(package, tried)' = FirstTried(package, tried)
  BY <1>1 DEF FirstTried
<1>5. /\ FoundIn(package, parts) = FirstTried(package, Tried(package, parts))
      /\ (FoundIn(package, parts) = FirstTried(package, Tried(package, parts)))'
  BY FoundInIsFirstTried, PTL
<1> QED
  BY <1>3, <1>4, <1>5

LEMMA SameResolution ==
  ASSUME facts' = facts
  PROVE  \A reference : Resolve(reference)' = Resolve(reference)
<1>1. \A p, q : FoundIn(p, q)' = FoundIn(p, q)
  BY SameFound
<1>2. \A t : Canonical(t)' = Canonical(t)
  BY SameCanonical
<1>3. \A t : Binding(t)' = Binding(t) /\ Exported(t)' = Exported(t)
  BY SameBindings
<1>4. \A t : Declared(t)' = Declared(t)
  BY SameDeclarations
<1>5. \A reference : ResolveInPackage(reference)' = ResolveInPackage(reference)
  BY <1>1, <1>3, <1>4 DEF ResolveInPackage
<1> QED
  BY <1>2, <1>3, <1>4, <1>5 DEF Resolve

LEMMA SameRoots ==
  ASSUME facts' = facts
  PROVE  /\ Roots' = Roots
         /\ \A s : Known(s)' = Known(s) /\ RoutesOn(s)' = RoutesOn(s) /\ MountsOn(s)' = MountsOn(s)
         /\ \A i : FirstOfItsKind(i)' = FirstOfItsKind(i)
<1>1. \A t : Declared(t)' = Declared(t)
  BY SameDeclarations
<1>2. \A reference : Resolve(reference)' = Resolve(reference)
  BY SameResolution
<1>3. \A i : FirstOfItsKind(i)' = FirstOfItsKind(i)
  BY DEF FirstOfItsKind
<1>4. \A s : RoutesOn(s)' = RoutesOn(s)
  BY <1>2 DEF RoutesOn, Where
<1>5. \A s : Known(s)' = Known(s)
  BY <1>1, <1>4 DEF Known
<1>6. \A s : MountsOn(s)' = MountsOn(s)
  BY <1>2, <1>3, <1>5 DEF MountsOn, Where
<1>7. Roots' = Roots
  <2>1. \A s : RouterOf(s)' = RouterOf(s)
    BY SameDeclarations
  <2> QED
    BY <1>1, <2>1 DEF Roots
<1> QED
  BY <1>3, <1>4, <1>5, <1>6, <1>7

LEMMA SameWays ==
  ASSUME facts' = facts, graph' = graph
  PROVE  /\ Edges' = Edges
         /\ \A s : Ways(s)' = Ways(s)
         /\ \A s, methods : LetThrough(s, methods)' = LetThrough(s, methods)
<1>1. Edges' = Edges
  BY DEF Edges
<1>2. \A s : Ways(s)' = Ways(s)
  BY <1>1 DEF Ways
<1>3. \A s, methods : LetThrough(s, methods)' = LetThrough(s, methods)
  BY DEF LetThrough
<1> QED
  BY <1>1, <1>2, <1>3

LEMMA SameRows ==
  ASSUME facts' = facts, graph' = graph
  PROVE  Trips' = Trips /\ \A s, w, at : Row(s, w, at)' = Row(s, w, at)
<1>1. \A s : OwnPrefix(s)' = OwnPrefix(s) /\ OwnGroup(s)' = OwnGroup(s)
  BY SameDeclarations
<1>2. \A s, w, at : Row(s, w, at)' = Row(s, w, at)
  BY <1>1 DEF Row
<1>3. Trips' = Trips
  BY SameRoots, SameWays DEF Trips
<1> QED
  BY <1>2, <1>3

LEMMA SequencesOfFacts ==
  ASSUME facts \in Found
  PROVE  /\ facts.routers \in Seq(ToSet(facts.routers)) /\ facts.routes \in Seq(ToSet(facts.routes))
         /\ facts.mounts \in Seq(ToSet(facts.mounts)) /\ facts.imports \in Seq(ToSet(facts.imports))
         /\ facts.exports \in Seq(ToSet(facts.exports))
         /\ \A i \in DOMAIN facts.routers :
              facts.routers[i].symbol \in Symbol /\ facts.routers[i].prefix \in Seq(Nat)
         /\ \A i \in DOMAIN facts.routes :
              facts.routes[i].methods \in Seq(Nat) \ {<<>>} /\ facts.routes[i].path \in Seq(Nat)
         /\ \A i \in DOMAIN facts.mounts : facts.mounts[i].prefix \in Seq(Nat)
         /\ \A i \in DOMAIN facts.exports : facts.exports[i].local \in Name
         /\ References(facts) \subseteq Reference
BY FoundAssumption DEF IsSequence

LEMMA PositionsOfFacts ==
  ASSUME facts \in Found
  PROVE  /\ DOMAIN facts.routers \subseteq Nat /\ IsFiniteSet(DOMAIN facts.routers)
         /\ DOMAIN facts.routes \subseteq Nat /\ IsFiniteSet(DOMAIN facts.routes)
         /\ DOMAIN facts.mounts \subseteq Nat /\ IsFiniteSet(DOMAIN facts.mounts)
         /\ DOMAIN facts.imports \subseteq Nat /\ IsFiniteSet(DOMAIN facts.imports)
         /\ DOMAIN facts.exports \subseteq Nat /\ IsFiniteSet(DOMAIN facts.exports)
         /\ DOMAIN facts.mounts = 1..Len(facts.mounts) /\ Len(facts.mounts) \in Nat
BY SequencesOfFacts, Positions

\* Some positions of a finite set of them.
LEMMA SomePlaces ==
  ASSUME NEW D, D \subseteq Nat, IsFiniteSet(D), NEW T, T \subseteq D
  PROVE  /\ T \subseteq Nat /\ IsFiniteSet(T)
         /\ T # {} => /\ Min(T) \in T /\ \A x \in T : Min(T) <= x
                      /\ Max(T) \in T /\ \A x \in T : x <= Max(T)
<1>1. T \subseteq Nat /\ IsFiniteSet(T)
  <2>1. T \in SUBSET D
    OBVIOUS
  <2> QED
    BY <2>1, FS_Subset
<1> QED
  BY <1>1, LeastOf, GreatestOf

LEMMA DeclaredRouters ==
  ASSUME facts \in Found, NEW s
  PROVE  /\ Declared(s) => /\ s \in Symbol /\ RouterOf(s) \in ToSet(facts.routers)
                           /\ RouterOf(s).prefix \in Seq(Nat)
         /\ Implicit(s) => Declared(s)
<1> DEFINE at == {i \in DOMAIN facts.routers : facts.routers[i].symbol = s}
<1>1. at # {} => Min(at) \in at
  <2>1. at \subseteq DOMAIN facts.routers
    OBVIOUS
  <2> HIDE DEF at
  <2> QED
    BY <2>1, PositionsOfFacts, SomePlaces
<1>2. Declared(s) => at # {} /\ RouterOf(s) = facts.routers[Min(at)]
  BY DEF Declared, RouterOf
<1>3. Declared(s) => /\ Min(at) \in DOMAIN facts.routers /\ facts.routers[Min(at)].symbol = s
                     /\ RouterOf(s) = facts.routers[Min(at)]
  BY <1>1, <1>2
<1> HIDE DEF at
<1>4. Declared(s) => RouterOf(s) \in ToSet(facts.routers)
  BY <1>3 DEF ToSet
<1>5. Declared(s) => s \in Symbol /\ RouterOf(s).prefix \in Seq(Nat)
  BY <1>3, SequencesOfFacts
<1>6. Implicit(s) => Declared(s)
  BY DEF Implicit
<1> QED
  BY <1>4, <1>5, <1>6

LEMMA PackageRouterType ==
  ASSUME facts \in Found, NEW package, NEW parts
  PROVE  PackageRouter(package, parts) \in Symbol \union {None}
<1> DEFINE those == {s \in {facts.routers[i].symbol : i \in DOMAIN facts.routers} :
                       Package[s[1]] = package /\ Parts[s[2]] = parts}
           firsts == {s[1] : s \in those}
<1>1. those \subseteq Symbol
  BY SequencesOfFacts
<1>2. \A s \in Symbol : s[1] \in Nat
  BY RegistrationAssumption DEF Symbol
<1>3. CASE those = {}
  BY <1>3 DEF PackageRouter
<1>4. CASE those # {}
  <2>1. firsts \subseteq Nat /\ firsts # {}
    BY <1>1, <1>2, <1>4
  <2> DEFINE D == DOMAIN facts.routers
             f == [i \in D |-> facts.routers[i].symbol[1]]
  <2>2. IsFiniteSet({f[i] : i \in D})
    <3>1. IsFiniteSet(D) /\ DOMAIN f = D
      BY PositionsOfFacts
    <3> HIDE DEF D, f
    <3> QED
      BY <3>1, ImageIsFinite
  <2>3. firsts \subseteq {f[i] : i \in D}
    OBVIOUS
  <2>4. Max(firsts) \in firsts /\ \A x \in firsts : x <= Max(firsts)
    <3> HIDE DEF firsts, f, D
    <3>1. IsFiniteSet(firsts)
      BY <2>2, <2>3, FS_Subset
    <3> QED
      BY <2>1, <3>1, GreatestOf
  <2>5. \E s \in those : \A t \in those : t[1] <= s[1]
    BY <2>4
  <2>6. (CHOOSE s \in those : \A t \in those : t[1] <= s[1]) \in those
    BY <2>5
  <2> QED
    BY <1>1, <1>4, <2>6 DEF PackageRouter
<1> QED
  BY <1>3, <1>4

LEMMA FoundInType ==
  ASSUME facts \in Found, NEW package, NEW parts
  PROVE  FoundIn(package, parts) \in Symbol \union {None}
BY PackageRouterType, FoundInIsFirstTried DEF FirstTried

LEMMA ExportedType ==
  ASSUME facts \in Found, NEW s
  PROVE  Exported(s) \in Name \union {None}
<1> DEFINE at == {i \in DOMAIN facts.exports :
                    <<facts.exports[i].module, facts.exports[i].exported>> = s}
<1>1. at # {} => Max(at) \in at
  <2>1. at \subseteq DOMAIN facts.exports
    OBVIOUS
  <2> HIDE DEF at
  <2> QED
    BY <2>1, PositionsOfFacts, SomePlaces
<1>2. at # {} => facts.exports[Max(at)].local \in Name
  BY <1>1, SequencesOfFacts
<1> HIDE DEF at
<1>3. Exported(s) = IF at = {} THEN None ELSE facts.exports[Max(at)].local
  BY DEF Exported, at
<1> QED
  BY <1>2, <1>3

\* What imports outside of Go are of.
TypedImports ==
  \A i \in DOMAIN facts.imports :
    /\ facts.imports[i].of \in Module \union {None}
    /\ facts.imports[i].nested \in Module \union {None}
    /\ facts.imports[i].original \in Name \union {None}

LEMMA BindingType ==
  ASSUME facts \in Found, TypedImports, NEW s, Binding(s) # None
  PROVE  \/ Binding(s).kind = "module" /\ Binding(s).module \in Module
         \/ Binding(s).kind = "symbol" /\ Binding(s).symbol \in Symbol
<1> DEFINE at == {i \in DOMAIN facts.imports :
                    <<facts.imports[i].module, facts.imports[i].local>> = s
                      /\ Target(facts.imports[i]) # None}
<1>1. at # {} => Max(at) \in at
  <2>1. at \subseteq DOMAIN facts.imports
    OBVIOUS
  <2> HIDE DEF at
  <2> QED
    BY <2>1, PositionsOfFacts, SomePlaces
<1>2. Binding(s) = IF at = {} THEN None ELSE Target(facts.imports[Max(at)])
  BY DEF Binding
<1>3. PICK i \in DOMAIN facts.imports : Target(facts.imports[i]) # None /\ Binding(s) = Target(facts.imports[i])
  BY <1>1, <1>2
<1> QED
  BY <1>3 DEF Target, TypedImports, Symbol

LEMMA HopType ==
  ASSUME facts \in Found, TypedImports, NEW s \in Symbol
  PROVE  Hop(s) \in Symbol
BY BindingType, ExportedType, RegistrationAssumption DEF Hop, Symbol

LEMMA CanonicalType ==
  ASSUME facts \in Found, TypedImports, NEW s \in Symbol
  PROVE  Canonical(s) \in Symbol
<1> DEFINE Onward(t) == IF Declared(t) THEN t ELSE Hop(t)
           Along(m, f) == f \in [0..m -> Symbol] /\ f[0] = s /\ \A n \in 1..m : f[n] = Onward(f[n - 1])
<1>1. \A t \in Symbol : Onward(t) \in Symbol
  BY HopType
<1> HIDE DEF Onward
<1>2. \A m \in Nat : \E f : Along(m, f)
  <2> DEFINE bad == {m \in Nat : ~\E f : Along(m, f)}
  <2>1. SUFFICES ASSUME bad # {} PROVE FALSE
    OBVIOUS
  <2>2. Min(bad) \in bad /\ \A x \in bad : Min(bad) <= x
    <3>1. bad \subseteq Nat
      OBVIOUS
    <3> HIDE DEF bad
    <3> QED
      BY <2>1, <3>1, LeastOf
  <2>3. PICK m \in Nat : m = Min(bad) /\ ~(\E f : Along(m, f)) /\ \A x \in bad : m <= x
    BY <2>2
  <2>4. CASE m = 0
    <3>1. [n \in 0..0 |-> s] \in [0..0 -> Symbol] /\ [n \in 0..0 |-> s][0] = s
      OBVIOUS
    <3>2. Along(0, [n \in 0..0 |-> s])
      BY <3>1
    <3> QED
      BY <2>3, <2>4, <3>2
  <2>5. CASE m # 0
    <3>1. m - 1 \in Nat /\ m - 1 \notin bad
      <4> HIDE DEF bad
      <4> QED
        BY <2>3, <2>5
    <3>2. PICK f : Along(m - 1, f)
      BY <3>1
    <3> DEFINE g == [n \in 0..m |-> IF n = m THEN Onward(f[m - 1]) ELSE f[n]]
    <3>3. Along(m, g)
      <4>1. f[m - 1] \in Symbol
        BY <3>1, <3>2
      <4>2. g \in [0..m -> Symbol]
        BY <1>1, <3>1, <3>2, <4>1
      <4>3. g[0] = s
        BY <2>5, <3>1, <3>2
      <4>4. ASSUME NEW n \in 1..m PROVE g[n] = Onward(g[n - 1])
        BY <3>1, <3>2
      <4> QED
        BY <4>2, <4>3, <4>4
    <3> QED
      BY <2>3, <3>3
  <2> QED
    BY <2>4, <2>5
<1> DEFINE IsAfter(f) == f = [n \in 0..MaxHops |-> IF n = 0 THEN s ELSE IF Declared(f[n - 1]) THEN f[n - 1] ELSE Hop(f[n - 1])]
           after == CHOOSE f : IsAfter(f)
<1>3. Canonical(s) = after[MaxHops]
  BY DEF Canonical
<1>4. MaxHops \in Nat
  BY RegistrationAssumption
<1>5. \E f : IsAfter(f)
  <2>1. PICK f : Along(MaxHops, f)
    BY <1>2, <1>4
  <2>2. IsAfter(f)
    BY <1>4, <2>1 DEF Onward
  <2> QED
    BY <2>2
<1>6. IsAfter(after)
  BY <1>5
<1> HIDE DEF after
<1>7. after[0] = s /\ \A n \in 1..MaxHops : after[n] = Onward(after[n - 1])
  BY <1>4, <1>6 DEF Onward
<1>8. \A n \in Nat : n <= MaxHops => after[n] \in Symbol
  <2> DEFINE bad == {m \in Nat : m <= MaxHops /\ after[m] \notin Symbol}
  <2>1. SUFFICES ASSUME bad # {} PROVE FALSE
    OBVIOUS
  <2>2. Min(bad) \in bad /\ \A x \in bad : Min(bad) <= x
    <3>1. bad \subseteq Nat
      OBVIOUS
    <3> HIDE DEF bad
    <3> QED
      BY <2>1, <3>1, LeastOf
  <2>3. PICK m \in Nat : m <= MaxHops /\ after[m] \notin Symbol /\ \A x \in bad : m <= x
    BY <2>2
  <2>4. m # 0
    BY <1>7, <2>3
  <2>5. m - 1 \in Nat /\ m - 1 <= MaxHops /\ m - 1 \notin bad /\ m \in 1..MaxHops
    BY <1>4, <2>3, <2>4
  <2> QED
    BY <1>1, <1>7, <2>3, <2>5
<1> QED
  BY <1>3, <1>4, <1>8

\* A reference is to a symbol, or to nothing.
LEMMA ResolveType ==
  ASSUME facts \in Found, NEW reference \in References(facts)
  PROVE  Resolve(reference) \in Symbol \union {None}
<1>1. reference \in Reference
  BY SequencesOfFacts
<1>2. <<reference.module, reference.name>> \in Symbol /\ reference.name \in Name /\ reference.module \in Module
  BY <1>1 DEF Reference, Symbol
<1>3. CASE Package[reference.module] # None
  <2>1. ResolveInPackage(reference) \in Symbol \union {None}
    BY <1>2, FoundInType DEF ResolveInPackage, Or
  <2> QED
    BY <1>3, <2>1 DEF Resolve
<1>4. CASE Package[reference.module] = None
  <2>1. TypedImports
    BY <1>4, FoundAssumption DEF TypedImports
  <2>2. \A s : Binding(s) # None => \/ Binding(s).kind = "module" /\ Binding(s).module \in Module
                                    \/ Binding(s).kind = "symbol" /\ Binding(s).symbol \in Symbol
    BY <2>1, BindingType
  <2>3. \A s \in Symbol : Canonical(s) \in Symbol
    BY <2>1, CanonicalType
  <2>4. \A s \in Symbol : s[1] \in Module
    BY DEF Symbol
  <2>5. \A m \in Module : <<m, reference.name>> \in Symbol
    BY <1>2 DEF Symbol
  <2> QED
    BY <1>2, <1>4, <2>2, <2>3, <2>4, <2>5 DEF Resolve
<1> QED
  BY <1>3, <1>4

(***************************************************************************)
(* The walk of the registration graph follows paths, whatever the wiring   *)
(* and whatever the limits.                                                *)
(***************************************************************************)

\* A frame of the stack, which may hold anything in its other fields.
IsFrame(f) ==
  f = [symbol |-> f.symbol, base |-> f.base, methods |-> f.methods, auth |-> f.auth,
       group |-> f.group, left |-> f.left]

Framed(s) ==
  /\ \E S : s \in Seq(S)
  /\ \A k \in 1..Len(s) : IsFrame(s[k])

\* A stack that is a path through `seen`.
IsPath(s, seen) ==
  /\ Framed(s)
  /\ Len(s) <= MaxDepth
  /\ \A j, k \in 1..Len(s) : s[j].symbol = s[k].symbol => j = k
  /\ \A k \in 1..Len(s) : s[k].symbol \in seen

\* One more at the end.
LEMMA Pushed ==
  ASSUME NEW S, NEW s \in Seq(S), NEW e
  PROVE  /\ Append(s, e) \in Seq(S \union {e})
         /\ Len(s) \in Nat /\ Len(Append(s, e)) = Len(s) + 1
         /\ \A k \in 1..Len(s) : Append(s, e)[k] = s[k]
         /\ Append(s, e)[Len(s) + 1] = e
<1>1. s \in Seq(S \union {e})
  BY SeqMonotonic
<1>2. e \in S \union {e}
  OBVIOUS
<1> QED
  BY <1>1, <1>2, AppendProperties

\* One less.
LEMMA Popped ==
  ASSUME NEW S, NEW s \in Seq(S), s # <<>>
  PROVE  /\ Front(s) \in Seq(S)
         /\ Len(s) \in Nat \ {0} /\ Len(Front(s)) = Len(s) - 1
         /\ \A k \in 1..(Len(s) - 1) : Front(s)[k] = s[k]
<1>1. Len(s) \in Nat \ {0}
  BY EmptySeq
<1> DEFINE n == Len(s) - 1
<1>2. 1 \in Int /\ n \in Int /\ n \in Nat /\ \A i \in 1 .. n : s[i] \in S
  BY <1>1, ElementOfSeq
<1>3. /\ SubSeq(s, 1, n) \in Seq(S)
      /\ Len(SubSeq(s, 1, n)) = n
      /\ \A k \in 1..n : SubSeq(s, 1, n)[k] = s[k]
  <2> HIDE DEF n
  <2>1. /\ SubSeq(s, 1, n) \in Seq(S)
        /\ Len(SubSeq(s, 1, n)) = IF 1 <= n THEN n - 1 + 1 ELSE 0
        /\ \A k \in 1 .. n - 1 + 1 : SubSeq(s, 1, n)[k] = s[1 + k - 1]
    BY ONLY <1>2, SubSeqProperties
  <2> QED
    BY ONLY <1>2, <2>1
<1> QED
  BY <1>1, <1>3 DEF Front

\* What is left of a path is a path.
LEMMA ShorterPaths ==
  ASSUME NEW s, NEW seen, IsPath(s, seen), s # <<>>
  PROVE  /\ IsPath(Front(s), seen)
         /\ Len(s) \in Nat \ {0} /\ Len(Front(s)) = Len(s) - 1
         /\ \A k \in 1..(Len(s) - 1) : Front(s)[k] = s[k]
<1>1. PICK S : s \in Seq(S)
  BY DEF IsPath, Framed
<1>2. /\ Front(s) \in Seq(S)
      /\ Len(s) \in Nat \ {0} /\ Len(Front(s)) = Len(s) - 1
      /\ \A k \in 1..(Len(s) - 1) : Front(s)[k] = s[k]
  BY <1>1, Popped
<1>3. MaxDepth \in Nat
  BY RegistrationAssumption
<1>4. Framed(Front(s))
  <2>1. \A k \in 1..Len(s) : IsFrame(s[k])
    BY DEF IsPath, Framed
  <2> QED
    BY <1>2, <2>1 DEF Framed
<1> QED
  BY <1>2, <1>3, <1>4 DEF IsPath

\* A frame on top of a path, of a symbol that is not on it.
LEMMA LongerPaths ==
  ASSUME NEW s, NEW seen, NEW more, NEW frame,
         IsPath(s, seen), seen \subseteq more, Len(s) < MaxDepth,
         IsFrame(frame), frame.symbol \in more,
         \A k \in 1..Len(s) : s[k].symbol # frame.symbol
  PROVE  IsPath(Append(s, frame), more)
<1>1. PICK S : s \in Seq(S)
  BY DEF IsPath, Framed
<1>2. /\ Append(s, frame) \in Seq(S \union {frame})
      /\ Len(s) \in Nat /\ Len(Append(s, frame)) = Len(s) + 1
      /\ \A k \in 1..Len(s) : Append(s, frame)[k] = s[k]
      /\ Append(s, frame)[Len(s) + 1] = frame
  BY <1>1, Pushed
<1>3. MaxDepth \in Nat
  BY RegistrationAssumption
<1> DEFINE t == Append(s, frame)
<1>4. \A k \in 1..Len(t) : (k \in 1..Len(s) /\ t[k] = s[k]) \/ (k = Len(s) + 1 /\ t[k] = frame)
  BY <1>2
<1> HIDE DEF t
<1>5. Framed(t)
  <2>1. \A k \in 1..Len(s) : IsFrame(s[k])
    BY DEF IsPath, Framed
  <2>2. \E T : t \in Seq(T)
    BY <1>2 DEF t
  <2>3. \A k \in 1..Len(t) : IsFrame(t[k])
    BY <1>4, <2>1
  <2> QED
    BY <2>2, <2>3 DEF Framed
<1>6. Len(t) <= MaxDepth
  BY <1>2, <1>3 DEF t
<1>7. \A j, k \in 1..Len(t) : t[j].symbol = t[k].symbol => j = k
  BY <1>4 DEF IsPath
<1>8. \A k \in 1..Len(t) : t[k].symbol \in more
  BY <1>4 DEF IsPath
<1> QED
  BY <1>5, <1>6, <1>7, <1>8 DEF IsPath, t

\* Crossing an edge off the frame on top changes no symbol.
LEMMA SamePaths ==
  ASSUME NEW s, NEW seen, IsPath(s, seen), s # <<>>, NEW remaining
  PROVE  IsPath(Front(s) \o <<[Last(s) EXCEPT !.left = remaining]>>, seen)
<1> DEFINE frame == [Last(s) EXCEPT !.left = remaining]
<1>1. /\ IsPath(Front(s), seen)
      /\ Len(s) \in Nat \ {0} /\ Len(Front(s)) = Len(s) - 1
      /\ \A k \in 1..(Len(s) - 1) : Front(s)[k] = s[k]
  BY ShorterPaths
<1>2. Last(s) = s[Len(s)] /\ IsFrame(Last(s)) /\ Last(s).symbol \in seen
  BY <1>1 DEF Last, IsPath, Framed
<1>3. IsFrame(frame) /\ frame.symbol = Last(s).symbol
  BY <1>2 DEF IsFrame
<1>4. \A k \in 1..Len(Front(s)) : Front(s)[k].symbol # frame.symbol
  BY <1>1, <1>2, <1>3 DEF IsPath
<1>5. Len(Front(s)) < MaxDepth
  BY <1>1, RegistrationAssumption DEF IsPath
<1>6. IsPath(Append(Front(s), frame), seen)
  <2> HIDE DEF frame
  <2> QED
    BY <1>1, <1>2, <1>3, <1>4, <1>5, LongerPaths
<1>7. PICK S : Front(s) \in Seq(S)
  BY <1>1 DEF IsPath, Framed
<1>8. Append(Front(s), frame) = Front(s) \o <<frame>>
  <2>1. Front(s) \in Seq(S \union {frame}) /\ frame \in S \union {frame}
    BY <1>7, SeqMonotonic
  <2> HIDE DEF frame
  <2> QED
    BY <2>1, AppendIsConcat
<1> QED
  BY <1>6, <1>8

\* Whatever is walked into from a path.
LEMMA WalkedInto ==
  ASSUME NEW s, NEW entrance, NEW under, NEW warned,
         IsPath(under, reached), Walk(s, entrance, under, warned)
  PROVE  IsPath(stack, reached)'
<1>1. CASE stack' = under /\ UNCHANGED reached
  BY <1>1
<1>2. CASE ~IsOn(s, under) /\ Len(under) < MaxDepth /\ reached' = reached \union {s}
             /\ \E base, group :
                  stack' = Append(under, [symbol |-> s, base |-> base, methods |-> entrance.methods,
                                          auth |-> entrance.auth, group |-> group,
                                          left |-> graph.mounts[s]])
  <2>1. PICK base, group :
          stack' = Append(under, [symbol |-> s, base |-> base, methods |-> entrance.methods,
                                  auth |-> entrance.auth, group |-> group,
                                  left |-> graph.mounts[s]])
    BY <1>2
  <2> DEFINE frame == [symbol |-> s, base |-> base, methods |-> entrance.methods,
                       auth |-> entrance.auth, group |-> group, left |-> graph.mounts[s]]
  <2>2. IsFrame(frame) /\ frame.symbol = s
    BY DEF IsFrame
  <2>3. \A k \in 1..Len(under) : under[k].symbol # frame.symbol
    <3>1. DOMAIN under = 1..Len(under)
      BY LenProperties DEF IsPath, Framed
    <3> QED
      BY <1>2, <2>2, <3>1 DEF IsOn
  <2>4. reached \subseteq reached' /\ frame.symbol \in reached'
    BY <1>2, <2>2
  <2> HIDE DEF frame
  <2>5. IsPath(Append(under, frame), reached')
    BY <1>2, <2>2, <2>3, <2>4, LongerPaths
  <2> QED
    BY <2>1, <2>5 DEF frame
<1> QED
  BY <1>1, <1>2 DEF Walk

LEMMA NoPath ==
  ASSUME NEW seen
  PROVE  IsPath(<<>>, seen)
<1>1. <<>> \in Seq({}) /\ Len(<<>>) = 0
  OBVIOUS
<1> QED
  BY <1>1, RegistrationAssumption DEF IsPath, Framed

LEMMA PathsStay ==
  ASSUME IsPath(stack, reached), [RegistrationNext]_registrationVars
  PROVE  IsPath(stack, reached)'
<1>1. CASE UNCHANGED <<stack, reached>>
  BY <1>1
<1>2. CASE Start
  BY <1>2, WalkedInto DEF Start
<1>3. CASE Descend
  <2>1. stack # <<>>
    BY <1>3 DEF Descend
  <2>2. IsPath(Front(stack) \o <<[Last(stack) EXCEPT !.left = Tail(@)]>>, reached)
    BY <2>1, SamePaths
  <2> QED
    BY <1>3, <2>2, WalkedInto DEF Descend
<1>4. CASE Return
  BY <1>4, ShorterPaths DEF Return
<1>5. CASE StartOrphan
  BY <1>1, <1>5, WalkedInto DEF StartOrphan
<1>6. CASE Index \/ Sweep \/ UNCHANGED registrationVars
  BY <1>1, <1>6 DEF Index, Sweep, registrationVars, walkVars
<1> QED
  BY <1>2, <1>3, <1>4, <1>5, <1>6 DEF RegistrationNext

\* The walk follows paths: for every set of facts, every wiring of mounts and
\* every limit, no router is walked into under itself, none deeper than the
\* limit, and what is being walked counts as reached.
THEOREM WalkingPaths == RegistrationSpec => []WalksArePaths
<1>1. RegistrationInit => IsPath(stack, reached)
  BY NoPath DEF RegistrationInit
<1>2. IsPath(stack, reached) /\ [RegistrationNext]_registrationVars => IsPath(stack, reached)'
  BY PathsStay
<1>3. IsPath(stack, reached) => WalksArePaths
  <2> SUFFICES ASSUME IsPath(stack, reached) PROVE WalksArePaths
    OBVIOUS
  <2>1. DOMAIN stack = 1..Len(stack)
    BY LenProperties DEF IsPath, Framed
  <2> QED
    BY <2>1 DEF IsPath, WalksArePaths
<1> QED
  BY <1>1, <1>2, <1>3, PTL DEF RegistrationSpec

(***************************************************************************)
(* The types of what is walked and listed.                                 *)
(***************************************************************************)
\* The routes on a router, and the mounts on it.
RoutesOf(s) == {i \in DOMAIN facts.routes : Resolve(facts.routes[i].router) = s}
MountsOf(s) == {i \in DOMAIN facts.mounts :
                  /\ FirstOfItsKind(i) /\ Resolve(facts.mounts[i].parent) = s
                  /\ Resolve(facts.mounts[i].child) # None /\ Known(Resolve(facts.mounts[i].child))}

LEMMA RoutesInTurn ==
  ASSUME facts \in Found, NEW s
  PROVE  Lists(RoutesOn(s), RoutesOf(s)) /\ IsFiniteSet(RoutesOf(s))
<1>1. RoutesOf(s) \subseteq Nat /\ IsFiniteSet(RoutesOf(s))
  <2>1. RoutesOf(s) \subseteq DOMAIN facts.routes
    BY DEF RoutesOf
  <2> QED
    BY <2>1, PositionsOfFacts, SomePlaces
<1>2. RoutesOn(s) = InTurn(RoutesOf(s), {p \in RoutesOf(s) \X RoutesOf(s) : p[1] < p[2]})
  BY DEF RoutesOn, Where, RoutesOf
<1> QED
  BY <1>1, <1>2, PlacesInTurn

\* An edge of the graph: a known router, mounted by the mount at `of`.
IsEdge(s, e) ==
  /\ e = [child |-> Resolve(facts.mounts[e.of].child), of |-> e.of]
  /\ e.of \in MountsOf(s)
  /\ e.child \in Symbol /\ Known(e.child)

LEMMA MountsInTurn ==
  ASSUME facts \in Found, NEW s
  PROVE  /\ MountsOn(s) \in Seq(ToSet(MountsOn(s))) /\ IsFiniteSet(DOMAIN MountsOn(s))
         /\ \A k \in DOMAIN MountsOn(s) : IsEdge(s, MountsOn(s)[k])
         /\ \A j, k \in DOMAIN MountsOn(s) : MountsOn(s)[j].of = MountsOn(s)[k].of => j = k
<1> DEFINE M == MountsOf(s)
           here == InTurn(M, {p \in M \X M : p[1] < p[2]})
           q == [k \in DOMAIN here |-> [child |-> Resolve(facts.mounts[here[k]].child), of |-> here[k]]]
<1>1. M \subseteq Nat /\ IsFiniteSet(M)
  <2>1. M \subseteq DOMAIN facts.mounts
    BY DEF MountsOf
  <2> HIDE DEF M
  <2> QED
    BY <2>1, PositionsOfFacts, SomePlaces
<1>2. MountsOn(s) = q
  BY DEF MountsOn, Where, MountsOf
<1>3. Lists(here, M)
  <2> HIDE DEF M
  <2> QED
    BY <1>1, PlacesInTurn
<1>4. /\ Len(here) \in Nat /\ DOMAIN here = 1..Len(here)
      /\ \A k \in DOMAIN here : here[k] \in M
      /\ \A j, k \in DOMAIN here : here[j] = here[k] => j = k
  BY <1>3 DEF Lists
<1>5. \A i \in M : Resolve(facts.mounts[i].child) \in Symbol /\ Known(Resolve(facts.mounts[i].child))
  <2>1. SUFFICES ASSUME NEW i \in M
                 PROVE  Resolve(facts.mounts[i].child) \in Symbol /\ Known(Resolve(facts.mounts[i].child))
    OBVIOUS
  <2>2. i \in DOMAIN facts.mounts /\ Resolve(facts.mounts[i].child) # None /\ Known(Resolve(facts.mounts[i].child))
    BY DEF MountsOf
  <2>3. facts.mounts[i].child \in References(facts)
    BY <2>2 DEF References
  <2> QED
    BY <2>2, <2>3, ResolveType
<1> HIDE DEF here, M
<1>6. DOMAIN q = 1..Len(here)
  BY <1>4
<1>7. \A k \in DOMAIN q : IsEdge(s, q[k])
  BY <1>4, <1>5, <1>6 DEF IsEdge, M
<1>8. \A j, k \in DOMAIN q : q[j].of = q[k].of => j = k
  BY <1>4
<1>9. q \in Seq(ToSet(q))
  <2>1. \A k \in 1..Len(here) : q[k] \in ToSet(q)
    BY <1>6 DEF ToSet
  <2>2. q \in [1..Len(here) -> ToSet(q)]
    BY <1>6, <2>1
  <2> HIDE DEF q
  <2> QED
    BY <1>4, <2>2
<1>10. IsFiniteSet(1..Len(here))
  BY <1>4, FS_Interval
<1> HIDE DEF q
<1> QED
  BY <1>2, <1>6, <1>7, <1>8, <1>9, <1>10

GraphBuilt == graph = [routes |-> [s \in Symbol |-> RoutesOn(s)], mounts |-> [s \in Symbol |-> MountsOn(s)]]

\* The rest of a sequence.
IsRest(r, q) ==
  /\ q \in Seq(ToSet(q)) /\ r \in Seq(ToSet(q)) /\ Len(r) <= Len(q)
  /\ \A j \in 1..Len(r) : r[j] = q[Len(q) - Len(r) + j]

IsFrameOfRouter(f) ==
  f.symbol \in Symbol /\ f.base \in Seq(Nat) /\ IsRest(f.left, graph.mounts[f.symbol])

IsRow(row) == row.route \in DOMAIN facts.routes /\ row.method \in Nat /\ row.path \in Seq(Nat)

\* The types of what is walked and what is listed.
WalkTyped ==
  /\ facts \in Found
  /\ graph # None => GraphBuilt
  /\ graph = None => stack = <<>> /\ listed = <<>> /\ reached = {} /\ ~sweeping
  /\ sweeping \in BOOLEAN
  /\ from \in Seq(Symbol)
  /\ reached \subseteq Symbol
  /\ IsPath(stack, reached)
  /\ \A k \in 1..Len(stack) : IsFrameOfRouter(stack[k])
  /\ listed \in Seq(ToSet(listed))
  /\ \A k \in 1..Len(listed) : IsRow(listed[k])

\* What is let through is in finite number, and of the routes of the router.
LEMMA LetThroughType ==
  ASSUME facts \in Found, GraphBuilt, NEW s \in Symbol, NEW methods
  PROVE  /\ LetThrough(s, methods) =
              {at \in RoutesOf(s) \X Nat :
                 /\ at[2] \in DOMAIN facts.routes[at[1]].methods
                 /\ methods = {} \/ facts.routes[at[1]].methods[at[2]] \in methods}
         /\ IsFiniteSet(LetThrough(s, methods)) /\ LetThrough(s, methods) \subseteq Nat \X Nat
<1> DEFINE J(i) == {j \in DOMAIN facts.routes[i].methods :
                       methods = {} \/ facts.routes[i].methods[j] \in methods}
<1>1. ToSet(graph.routes[s]) = RoutesOf(s)
  <2>1. graph.routes[s] = RoutesOn(s)
    BY DEF GraphBuilt
  <2> QED
    BY <2>1, RoutesInTurn DEF Lists, ToSet
<1>2. RoutesOf(s) \subseteq DOMAIN facts.routes /\ RoutesOf(s) \subseteq Nat /\ IsFiniteSet(RoutesOf(s))
  BY RoutesInTurn, PositionsOfFacts DEF RoutesOf
<1>3. \A i \in RoutesOf(s) : /\ DOMAIN facts.routes[i].methods \subseteq Nat
                             /\ IsFiniteSet(DOMAIN facts.routes[i].methods)
  <2>1. \A i \in RoutesOf(s) : facts.routes[i].methods \in Seq(Nat)
    BY <1>2, SequencesOfFacts
  <2> QED
    BY <2>1, Positions
<1>4. LetThrough(s, methods) = UNION {{<<i, j>> : j \in J(i)} : i \in RoutesOf(s)}
  BY <1>1 DEF LetThrough
<1>5. LetThrough(s, methods) =
        {at \in RoutesOf(s) \X Nat : /\ at[2] \in DOMAIN facts.routes[at[1]].methods
                                     /\ methods = {} \/ facts.routes[at[1]].methods[at[2]] \in methods}
  BY <1>3, <1>4
<1>6. IsFiniteSet(LetThrough(s, methods))
  <2> DEFINE f == [i \in RoutesOf(s) |-> {<<i, j>> : j \in J(i)}]
  <2>1. \A i \in RoutesOf(s) : IsFiniteSet(f[i])
    <3>1. SUFFICES ASSUME NEW i \in RoutesOf(s) PROVE IsFiniteSet({<<i, j>> : j \in J(i)})
      OBVIOUS
    <3> DEFINE D == J(i)
               g == [j \in D |-> <<i, j>>]
    <3>2. IsFiniteSet(D)
      <4>1. D \in SUBSET DOMAIN facts.routes[i].methods
        OBVIOUS
      <4> HIDE DEF D
      <4> QED
        BY <1>3, <4>1, FS_Subset
    <3>3. IsFiniteSet({g[j] : j \in D})
      <4>1. DOMAIN g = D
        OBVIOUS
      <4> HIDE DEF D, g
      <4> QED
        BY <3>2, <4>1, ImageIsFinite
    <3>4. {<<i, j>> : j \in D} = {g[j] : j \in D}
      <4> HIDE DEF D
      <4> QED
        OBVIOUS
    <3> QED
      BY <3>3, <3>4
  <2>2. IsFiniteSet({f[i] : i \in RoutesOf(s)})
    <3>1. DOMAIN f = RoutesOf(s)
      OBVIOUS
    <3> HIDE DEF f
    <3> QED
      BY <1>2, <3>1, ImageIsFinite
  <2>3. IsFiniteSet(UNION {f[i] : i \in RoutesOf(s)})
    <3> DEFINE F == {f[i] : i \in RoutesOf(s)}
    <3>1. \A T \in F : IsFiniteSet(T)
      BY <2>1
    <3> HIDE DEF F, f
    <3>2. IsFiniteSet(F)
      BY <2>2 DEF F
    <3>3. IsFiniteSet(UNION F)
      BY <3>1, <3>2, FS_UNION
    <3> QED
      BY <3>3 DEF F
  <2>4. LetThrough(s, methods) = UNION {f[i] : i \in RoutesOf(s)}
    BY <1>4
  <2> QED
    BY <2>3, <2>4
<1>7. LetThrough(s, methods) \subseteq Nat \X Nat
  BY <1>2, <1>5
<1> QED
  BY <1>5, <1>6, <1>7

\* What a router that is walked into puts on the stack.
BaseOf(s, entrance)  == IF entrance.skip THEN entrance.prefix ELSE entrance.prefix \o OwnPrefix(s)
GroupOf(s, entrance) == IF Declared(s) THEN Or(RouterOf(s).group, entrance.group) ELSE entrance.group

Entered(s, entrance) ==
  [symbol |-> s, base |-> BaseOf(s, entrance), methods |-> entrance.methods,
   auth |-> entrance.auth, group |-> GroupOf(s, entrance), left |-> graph.mounts[s]]

ListedAt(s, entrance) == Listing(s, BaseOf(s, entrance), entrance, GroupOf(s, entrance))

LEMMA WalkEnters ==
  ASSUME NEW s, NEW entrance, NEW under, NEW warned, Walk(s, entrance, under, warned)
  PROVE  \/ /\ stack' = under /\ UNCHANGED <<reached, listed>>
            /\ \/ IsOn(s, under) /\ warnings' = warned \union {Warning("cycle", s)}
               \/ /\ ~IsOn(s, under) /\ Len(under) >= MaxDepth
                  /\ warnings' = warned \union {Warning("too deep", s)}
         \/ /\ ~IsOn(s, under) /\ Len(under) < MaxDepth
            /\ stack' = Append(under, Entered(s, entrance))
            /\ listed' = listed \o ListedAt(s, entrance)
            /\ reached' = reached \union {s}
            /\ warnings' = warned
BY DEF Walk, Entered, BaseOf, GroupOf, ListedAt, OwnPrefix

LEMMA ListingType ==
  ASSUME facts \in Found, GraphBuilt, NEW s \in Symbol, NEW base \in Seq(Nat), NEW entrance, NEW group
  PROVE  /\ Listing(s, base, entrance, group) \in Seq(ToSet(Listing(s, base, entrance, group)))
         /\ \A k \in 1..Len(Listing(s, base, entrance, group)) :
              IsRow(Listing(s, base, entrance, group)[k])
<1> DEFINE T == LetThrough(s, entrance.methods)
           at == InOrder(T)
           q == Listing(s, base, entrance, group)
           row(k) == [route |-> at[k][1], method |-> facts.routes[at[k][1]].methods[at[k][2]],
                      path |-> base \o facts.routes[at[k][1]].path,
                      auth |-> Or(facts.routes[at[k][1]].auth, entrance.auth),
                      group |-> Or(facts.routes[at[k][1]].group, group), orphaned |-> sweeping]
<1>1. /\ T = {x \in RoutesOf(s) \X Nat :
                 /\ x[2] \in DOMAIN facts.routes[x[1]].methods
                 /\ entrance.methods = {} \/ facts.routes[x[1]].methods[x[2]] \in entrance.methods}
      /\ IsFiniteSet(T) /\ T \subseteq Nat \X Nat
  BY LetThroughType
<1>2. Lists(at, T)
  <2> HIDE DEF T
  <2> QED
    BY <1>1, PairsInTurn
<1>3. q = [k \in DOMAIN at |-> row(k)]
  BY DEF Listing
<1> HIDE DEF at, T
<1>4. DOMAIN at = 1..Len(at) /\ Len(at) \in Nat /\ \A k \in DOMAIN at : at[k] \in T
  BY <1>2 DEF Lists
<1>5. \A k \in DOMAIN at : IsRow(row(k))
  <2>1. SUFFICES ASSUME NEW k \in DOMAIN at PROVE IsRow(row(k))
    OBVIOUS
  <2>2. PICK i, j : at[k] = <<i, j>> /\ i \in RoutesOf(s) /\ j \in DOMAIN facts.routes[i].methods
    BY <1>1, <1>4
  <2>3. i \in DOMAIN facts.routes
    BY <2>2 DEF RoutesOf
  <2>4. facts.routes[i].methods \in Seq(Nat) /\ facts.routes[i].path \in Seq(Nat)
    BY <2>3, SequencesOfFacts
  <2>5. facts.routes[i].methods[j] \in Nat
    BY <2>2, <2>4, Positions
  <2>6. base \o facts.routes[i].path \in Seq(Nat)
    BY <2>4, ConcatProperties
  <2>7. at[k][1] = i /\ at[k][2] = j
    BY <2>2
  <2> QED
    BY <2>3, <2>5, <2>6, <2>7 DEF IsRow
<1> HIDE DEF row
<1>6. DOMAIN q = 1..Len(at) /\ \A k \in DOMAIN q : q[k] = row(k)
  BY <1>3, <1>4
<1>7. q \in Seq(ToSet(q)) /\ Len(q) = Len(at)
  <2>1. \A k \in 1..Len(at) : q[k] \in ToSet(q)
    BY <1>6 DEF ToSet
  <2>2. q = [k \in 1..Len(at) |-> row(k)]
    BY <1>3, <1>4
  <2>3. q \in [1..Len(at) -> ToSet(q)]
    BY <1>6, <2>1, <2>2
  <2> HIDE DEF q
  <2> QED
    BY <1>4, <2>3
<1>8. \A k \in 1..Len(q) : IsRow(q[k])
  BY <1>4, <1>5, <1>6, <1>7
<1> HIDE DEF q
<1>9. QED
  BY <1>7, <1>8 DEF q

\* Two lists of rows are one.
LEMMA RowsJoin ==
  ASSUME NEW p, NEW q, p \in Seq(ToSet(p)), q \in Seq(ToSet(q)),
         \A k \in 1..Len(p) : IsRow(p[k]), \A k \in 1..Len(q) : IsRow(q[k])
  PROVE  /\ p \o q \in Seq(ToSet(p \o q))
         /\ \A k \in 1..Len(p \o q) : IsRow((p \o q)[k])
         /\ Len(p \o q) = Len(p) + Len(q) /\ Len(p) \in Nat /\ Len(q) \in Nat
         /\ \A k \in 1..Len(p) : (p \o q)[k] = p[k]
         /\ \A k \in 1..Len(q) : (p \o q)[Len(p) + k] = q[k]
<1> DEFINE S == ToSet(p) \union ToSet(q)
           r == p \o q
<1>1. p \in Seq(S) /\ q \in Seq(S)
  <2>1. ToSet(p) \subseteq S /\ ToSet(q) \subseteq S
    OBVIOUS
  <2> HIDE DEF S
  <2> QED
    BY <2>1, SeqMonotonic
<1> HIDE DEF S
<1>2. /\ r \in Seq(S) /\ Len(r) = Len(p) + Len(q)
      /\ \A i \in 1..(Len(p) + Len(q)) : r[i] = IF i <= Len(p) THEN p[i] ELSE q[i - Len(p)]
  BY <1>1, ConcatProperties
<1>3. Len(p) \in Nat /\ Len(q) \in Nat /\ Len(r) \in Nat /\ DOMAIN r = 1..Len(r)
  BY <1>1, <1>2, LenProperties
<1> HIDE DEF r
<1>4. r \in Seq(ToSet(r))
  <2>1. r \in [1..Len(r) -> ToSet(r)]
    BY <1>2, <1>3 DEF ToSet
  <2> QED
    BY <1>3, <2>1
<1>5. \A k \in 1..Len(p) : r[k] = p[k]
  BY <1>2, <1>3
<1>6. \A k \in 1..Len(q) : r[Len(p) + k] = q[k]
  <2>1. SUFFICES ASSUME NEW k \in 1..Len(q) PROVE r[Len(p) + k] = q[k]
    OBVIOUS
  <2>2. Len(p) + k \in 1..(Len(p) + Len(q)) /\ ~(Len(p) + k <= Len(p)) /\ (Len(p) + k) - Len(p) = k
    BY <1>3
  <2> QED
    BY <1>2, <2>2
<1>7. \A k \in 1..Len(r) : IsRow(r[k])
  <2>1. SUFFICES ASSUME NEW k \in 1..Len(r) PROVE IsRow(r[k])
    OBVIOUS
  <2>2. CASE k <= Len(p)
    BY <1>2, <1>3, <2>2
  <2>3. CASE ~(k <= Len(p))
    <3>1. k - Len(p) \in 1..Len(q) /\ r[k] = q[k - Len(p)]
      BY <1>2, <1>3, <2>3
    <3> QED
      BY <3>1
  <2> QED
    BY <2>2, <2>3
<1> QED
  BY <1>2, <1>3, <1>4, <1>5, <1>6, <1>7 DEF r

\* The symbols there are facts about.
LEMMA KnownSymbols ==
  ASSUME facts \in Found
  PROVE  /\ IsFiniteSet({s \in Symbol : Known(s)}) /\ Symbol \subseteq Nat \X Nat
         /\ Roots \subseteq {s \in Symbol : Known(s)}
<1> DEFINE K == {s \in Symbol : Known(s)}
           D == DOMAIN facts.routers
           E == DOMAIN facts.routes
           f == [i \in D |-> facts.routers[i].symbol]
           g == [i \in E |-> Resolve(facts.routes[i].router)]
           F == {f[i] : i \in D}
           G == {g[i] : i \in E}
<1>1. IsFiniteSet(F) /\ IsFiniteSet(G)
  <2>1. IsFiniteSet(D) /\ IsFiniteSet(E) /\ DOMAIN f = D /\ DOMAIN g = E
    BY PositionsOfFacts
  <2> HIDE DEF D, E, f, g
  <2> QED
    BY <2>1, ImageIsFinite
<1>2. \A s : Declared(s) => s \in F
  <2>1. SUFFICES ASSUME NEW s, Declared(s) PROVE \E i \in D : facts.routers[i].symbol = s
    OBVIOUS
  <2> QED
    BY <2>1 DEF Declared, RouterOf
<1>3. \A s : RoutesOn(s) # <<>> => s \in G
  <2>1. SUFFICES ASSUME NEW s, RoutesOn(s) # <<>> PROVE s \in G
    OBVIOUS
  <2>2. Lists(RoutesOn(s), RoutesOf(s)) /\ IsFiniteSet(RoutesOf(s))
    BY RoutesInTurn
  <2>3. RoutesOf(s) # {}
    <3>1. SUFFICES ASSUME RoutesOf(s) = {} PROVE FALSE
      OBVIOUS
    <3>2. Len(RoutesOn(s)) = 0 /\ RoutesOn(s) \in Seq(RoutesOf(s))
      BY <2>2, <3>1, FS_EmptySet DEF Lists
    <3> QED
      BY <2>1, <3>2, EmptySeq
  <2> QED
    BY <2>3 DEF RoutesOf
<1>4. K \subseteq F \union G
  BY <1>2, <1>3 DEF Known
<1>5. IsFiniteSet(K)
  <2> HIDE DEF K, F, G
  <2>1. IsFiniteSet(F \union G)
    BY <1>1, FS_Union
  <2> QED
    BY <1>4, <2>1, FS_Subset
<1>6. Symbol \subseteq Nat \X Nat
  BY RegistrationAssumption DEF Symbol
<1>7. Roots \subseteq K
  BY DEF Roots, Known
<1> QED
  BY <1>5, <1>6, <1>7

LEMMA SomeInOrder ==
  ASSUME facts \in Found, NEW T, T \subseteq {s \in Symbol : Known(s)}
  PROVE  Lists(InOrder(T), T) /\ InOrder(T) \in Seq(Symbol) /\ IsFiniteSet(T)
<1>1. T \subseteq Nat \X Nat /\ IsFiniteSet(T) /\ T \subseteq Symbol
  BY KnownSymbols, FS_Subset
<1>2. Lists(InOrder(T), T)
  BY <1>1, PairsInTurn
<1>3. InOrder(T) \in Seq(T)
  BY <1>2 DEF Lists
<1> QED
  BY <1>1, <1>2, <1>3, SeqMonotonic

LEMMA OwnPrefixType ==
  ASSUME facts \in Found, NEW s
  PROVE  OwnPrefix(s) \in Seq(Nat)
BY DeclaredRouters DEF OwnPrefix

\* What a frame is, when it was just put on the stack.
LEMMA EnteredType ==
  ASSUME facts \in Found, GraphBuilt, NEW s \in Symbol, NEW entrance, entrance.prefix \in Seq(Nat)
  PROVE  /\ BaseOf(s, entrance) \in Seq(Nat)
         /\ IsFrame(Entered(s, entrance)) /\ IsFrameOfRouter(Entered(s, entrance))
         /\ Entered(s, entrance).symbol = s /\ Entered(s, entrance).left = graph.mounts[s]
         /\ graph.mounts[s] = MountsOn(s)
<1>1. BaseOf(s, entrance) \in Seq(Nat)
  <2>1. entrance.prefix \o OwnPrefix(s) \in Seq(Nat)
    BY OwnPrefixType, ConcatProperties
  <2> QED
    BY <2>1 DEF BaseOf
<1>2. IsFrame(Entered(s, entrance)) /\ Entered(s, entrance).symbol = s
      /\ Entered(s, entrance).left = graph.mounts[s] /\ Entered(s, entrance).base = BaseOf(s, entrance)
  BY DEF IsFrame, Entered
<1>3. graph.mounts[s] = MountsOn(s)
  BY DEF GraphBuilt
<1>4. IsRest(MountsOn(s), MountsOn(s))
  <2>1. PICK q : q = MountsOn(s)
    OBVIOUS
  <2>2. q \in Seq(ToSet(q)) /\ Len(q) \in Nat
    BY <2>1, MountsInTurn, LenProperties
  <2>3. IsRest(q, q)
    BY <2>2 DEF IsRest
  <2> QED
    BY <2>1, <2>3
<1> QED
  BY <1>1, <1>2, <1>3, <1>4 DEF IsFrameOfRouter

\* One edge fewer is left.
LEMMA RestOfRest ==
  ASSUME NEW r, NEW q, IsRest(r, q), r # <<>>
  PROVE  /\ IsRest(Tail(r), q) /\ Len(Tail(r)) = Len(r) - 1 /\ Len(r) \in Nat \ {0} /\ Len(q) \in Nat
         /\ Len(r) <= Len(q) /\ Head(r) = q[Len(q) - Len(r) + 1]
<1>1. /\ q \in Seq(ToSet(q)) /\ r \in Seq(ToSet(q)) /\ Len(r) <= Len(q)
      /\ \A j \in 1..Len(r) : r[j] = q[Len(q) - Len(r) + j]
  BY DEF IsRest
<1>2. Len(q) \in Nat /\ Len(r) \in Nat /\ Len(r) # 0
  BY <1>1, LenProperties, EmptySeq
<1>3. /\ Head(r) = r[1] /\ Tail(r) \in Seq(ToSet(q)) /\ Len(Tail(r)) = Len(r) - 1
      /\ \A i \in 1..Len(Tail(r)) : Tail(r)[i] = r[i + 1]
  <2>1. Head(r) = r[1]
    BY <1>1
  <2> QED
    BY <1>1, <2>1, HeadTailProperties
<1>4. Head(r) = q[Len(q) - Len(r) + 1]
  BY <1>1, <1>2, <1>3
<1>5. ASSUME NEW j \in 1..Len(Tail(r)) PROVE Tail(r)[j] = q[Len(q) - Len(Tail(r)) + j]
  <2>1. j + 1 \in 1..Len(r) /\ Tail(r)[j] = r[j + 1]
    BY <1>2, <1>3
  <2>2. r[j + 1] = q[Len(q) - Len(r) + (j + 1)]
    BY <1>1, <2>1
  <2>3. Len(q) - Len(r) + (j + 1) = Len(q) - Len(Tail(r)) + j
    BY <1>2, <1>3
  <2> QED
    BY <2>1, <2>2, <2>3
<1>6. Len(Tail(r)) <= Len(q)
  BY <1>1, <1>2, <1>3
<1>7. IsRest(Tail(r), q)
  BY <1>1, <1>3, <1>5, <1>6 DEF IsRest
<1> QED
  BY <1>1, <1>2, <1>3, <1>4, <1>7

CrossedOver == Front(stack) \o <<[Last(stack) EXCEPT !.left = Tail(@)]>>

\* What a mount gives to the router it mounts.
Through(top, edge) ==
  Entrance(top.base \o facts.mounts[edge.of].prefix, facts.mounts[edge.of].replaces,
           NearestMethods(facts.mounts[edge.of], top), Or(facts.mounts[edge.of].auth, top.auth),
           Or(facts.mounts[edge.of].group, top.group))

LEMMA DescendWalks ==
  ASSUME Descend
  PROVE  /\ stack # <<>> /\ Last(stack).left # <<>>
         /\ Walk(Head(Last(stack).left).child, Through(Last(stack), Head(Last(stack).left)), CrossedOver, warnings)
         /\ UNCHANGED <<facts, graph, from, sweeping>>
BY DEF Descend, Through, CrossedOver

\* The frame on top, and the edge it crosses next.
LEMMA TopOfStack ==
  ASSUME WalkTyped, stack # <<>>
  PROVE  /\ graph # None /\ GraphBuilt
         /\ Len(stack) \in Nat \ {0} /\ Len(stack) <= MaxDepth /\ DOMAIN stack = 1..Len(stack)
         /\ Last(stack) = stack[Len(stack)] /\ IsFrame(Last(stack)) /\ IsFrameOfRouter(Last(stack))
         /\ Last(stack).symbol \in Symbol
         /\ graph.mounts[Last(stack).symbol] = MountsOn(Last(stack).symbol)
<1>1. graph # None /\ GraphBuilt
  BY DEF WalkTyped
<1>2. Len(stack) \in Nat \ {0} /\ DOMAIN stack = 1..Len(stack)
  BY LenProperties, EmptySeq DEF WalkTyped, IsPath, Framed
<1>3. /\ Len(stack) <= MaxDepth /\ Last(stack) = stack[Len(stack)] /\ IsFrame(Last(stack))
      /\ IsFrameOfRouter(Last(stack))
  BY <1>2 DEF WalkTyped, IsPath, Framed, Last
<1>4. Last(stack).symbol \in Symbol
  BY <1>3 DEF IsFrameOfRouter
<1> QED
  BY <1>1, <1>2, <1>3, <1>4 DEF GraphBuilt

LEMMA CrossedStack ==
  ASSUME WalkTyped, stack # <<>>, NEW left, IsRest(left, graph.mounts[Last(stack).symbol])
  PROVE  LET frame == [Last(stack) EXCEPT !.left = left]
             crossed == Front(stack) \o <<frame>>
         IN /\ IsPath(crossed, reached) /\ Len(crossed) = Len(stack)
            /\ \A k \in 1..(Len(stack) - 1) : crossed[k] = stack[k]
            /\ crossed[Len(stack)] = frame
            /\ frame.symbol = Last(stack).symbol /\ frame.base = Last(stack).base
            /\ frame.methods = Last(stack).methods /\ frame.auth = Last(stack).auth
            /\ frame.group = Last(stack).group /\ frame.left = left
            /\ \A k \in 1..Len(stack) : crossed[k].symbol = stack[k].symbol
            /\ \A k \in 1..Len(stack) : IsFrameOfRouter(crossed[k])
            /\ crossed # <<>>
<1> DEFINE frame == [Last(stack) EXCEPT !.left = left]
           crossed == Front(stack) \o <<frame>>
<1>1. IsPath(stack, reached)
  BY DEF WalkTyped
<1>2. IsPath(crossed, reached)
  BY <1>1, SamePaths
<1>3. /\ Framed(Front(stack)) /\ Len(stack) \in Nat \ {0} /\ Len(Front(stack)) = Len(stack) - 1
      /\ \A k \in 1..(Len(stack) - 1) : Front(stack)[k] = stack[k]
  BY <1>1, ShorterPaths DEF IsPath
<1>4. PICK S : Front(stack) \in Seq(S)
  BY <1>3 DEF Framed
<1>5. /\ frame.symbol = Last(stack).symbol /\ frame.base = Last(stack).base
      /\ frame.methods = Last(stack).methods /\ frame.auth = Last(stack).auth
      /\ frame.group = Last(stack).group /\ frame.left = left
  BY TopOfStack DEF IsFrame
<1>6. crossed = Append(Front(stack), frame)
  <2>1. Front(stack) \in Seq(S \union {frame}) /\ frame \in S \union {frame}
    BY <1>4, SeqMonotonic
  <2> HIDE DEF frame
  <2> QED
    BY <2>1, AppendIsConcat
<1>7. /\ Len(crossed) = Len(stack) /\ \A k \in 1..(Len(stack) - 1) : crossed[k] = stack[k]
      /\ crossed[Len(stack)] = frame
  <2> HIDE DEF frame, crossed
  <2>1. /\ Len(Append(Front(stack), frame)) = Len(Front(stack)) + 1
        /\ \A k \in 1..Len(Front(stack)) : Append(Front(stack), frame)[k] = Front(stack)[k]
        /\ Append(Front(stack), frame)[Len(Front(stack)) + 1] = frame
    BY <1>4, Pushed
  <2> QED
    BY <1>3, <1>6, <2>1
<1> HIDE DEF frame, crossed
<1>8. IsFrameOfRouter(frame)
  BY <1>5, TopOfStack DEF IsFrameOfRouter
<1>9. \A k \in 1..Len(stack) : IsFrameOfRouter(crossed[k]) /\ crossed[k].symbol = stack[k].symbol
  <2>1. SUFFICES ASSUME NEW k \in 1..Len(stack)
                 PROVE  IsFrameOfRouter(crossed[k]) /\ crossed[k].symbol = stack[k].symbol
    OBVIOUS
  <2>2. CASE k = Len(stack)
    BY <1>5, <1>7, <1>8, <2>2, TopOfStack
  <2>3. CASE k # Len(stack)
    BY <1>3, <1>7, <2>3 DEF WalkTyped
  <2> QED
    BY <2>2, <2>3
<1>10. crossed # <<>>
  BY <1>3, <1>7
<1> QED
  BY <1>2, <1>5, <1>7, <1>9, <1>10 DEF frame, crossed

\* The next edge of the frame on top.
LEMMA NextEdge ==
  ASSUME WalkTyped, stack # <<>>, Last(stack).left # <<>>
  PROVE  /\ IsEdge(Last(stack).symbol, Head(Last(stack).left))
         /\ Head(Last(stack).left).child \in Symbol
         /\ facts.mounts[Head(Last(stack).left).of].prefix \in Seq(Nat)
         /\ Through(Last(stack), Head(Last(stack).left)).prefix \in Seq(Nat)
         /\ IsRest(Tail(Last(stack).left), graph.mounts[Last(stack).symbol])
<1> DEFINE s == Last(stack).symbol
           q == MountsOn(s)
           left == Last(stack).left
<1>1. IsRest(left, q) /\ Last(stack).base \in Seq(Nat)
  BY TopOfStack DEF IsFrameOfRouter
<1>2. /\ Len(left) \in Nat \ {0} /\ Len(q) \in Nat /\ Len(left) <= Len(q)
      /\ Head(left) = q[Len(q) - Len(left) + 1] /\ IsRest(Tail(left), q)
  BY <1>1, RestOfRest
<1>3. IsEdge(s, Head(left))
  <2>1. facts \in Found
    BY DEF WalkTyped
  <2>2. DOMAIN q = 1..Len(q)
    BY <1>1, LenProperties DEF IsRest
  <2>3. Len(q) - Len(left) + 1 \in DOMAIN q
    BY <1>2, <2>2
  <2> HIDE DEF q
  <2> QED
    BY <1>2, <2>1, <2>3, MountsInTurn DEF q
<1>4. Head(left).of \in DOMAIN facts.mounts
  BY <1>3 DEF IsEdge, MountsOf
<1>5. facts.mounts[Head(left).of].prefix \in Seq(Nat)
  BY <1>4, SequencesOfFacts DEF WalkTyped
<1>6. Through(Last(stack), Head(left)).prefix = Last(stack).base \o facts.mounts[Head(left).of].prefix
  BY DEF Through, Entrance
<1>7. Last(stack).base \o facts.mounts[Head(left).of].prefix \in Seq(Nat)
  BY <1>1, <1>5, ConcatProperties
<1> QED
  BY <1>2, <1>3, <1>5, <1>6, <1>7, TopOfStack DEF IsEdge

\* What holds of frames and of rows holds of them as long as the facts and the graph do.
LEMMA SameTypes ==
  ASSUME facts' = facts, graph' = graph
  PROVE  /\ \A f : IsFrameOfRouter(f)' <=> IsFrameOfRouter(f)
         /\ \A row : IsRow(row)' <=> IsRow(row)
         /\ GraphBuilt' <=> GraphBuilt
<1>1. \A f : IsFrameOfRouter(f)' <=> IsFrameOfRouter(f)
  BY DEF IsFrameOfRouter
<1>2. \A row : IsRow(row)' <=> IsRow(row)
  BY DEF IsRow
<1>3. GraphBuilt' <=> GraphBuilt
  BY SameRoots DEF GraphBuilt
<1> QED
  BY <1>1, <1>2, <1>3

LEMMA WalkKeepsTypes ==
  ASSUME WalkTyped, graph # None, NEW s \in Symbol, NEW entrance, entrance.prefix \in Seq(Nat),
         NEW under, IsPath(under, reached), \A k \in 1..Len(under) : IsFrameOfRouter(under[k]),
         NEW warned, Walk(s, entrance, under, warned),
         facts' = facts, graph' = graph, sweeping' = sweeping, from' \in Seq(Symbol)
  PROVE  WalkTyped'
<1>1. facts \in Found /\ GraphBuilt
  BY DEF WalkTyped
<1>2. GraphBuilt' /\ facts' \in Found /\ graph' # None /\ sweeping' \in BOOLEAN
  BY <1>1, SameTypes DEF WalkTyped
<1>3. IsPath(stack, reached)'
  BY WalkedInto
<1>4. ASSUME stack' = under, reached' = reached, listed' = listed
      PROVE  WalkTyped'
  BY <1>2, <1>3, <1>4, SameTypes DEF WalkTyped
<1>5. ASSUME ~IsOn(s, under), Len(under) < MaxDepth, stack' = Append(under, Entered(s, entrance)),
             listed' = listed \o ListedAt(s, entrance), reached' = reached \union {s}
      PROVE  WalkTyped'
  <2> DEFINE e == Entered(s, entrance)
             q == ListedAt(s, entrance)
  <2>1. BaseOf(s, entrance) \in Seq(Nat) /\ IsFrameOfRouter(e)
    BY <1>1, EnteredType
  <2>2. q \in Seq(ToSet(q)) /\ \A k \in 1..Len(q) : IsRow(q[k])
    BY <1>1, <2>1, ListingType DEF ListedAt
  <2> HIDE DEF q, e
  <2>3. listed \o q \in Seq(ToSet(listed \o q)) /\ \A k \in 1..Len(listed \o q) : IsRow((listed \o q)[k])
    BY <2>2, RowsJoin DEF WalkTyped
  <2>4. PICK st, rows : st = stack' /\ rows = listed'
    OBVIOUS
  <2>5. \A k \in 1..Len(st) : IsFrameOfRouter(st[k])
    <3>1. PICK S : under \in Seq(S)
      BY DEF IsPath, Framed
    <3>2. /\ Len(under) \in Nat /\ Len(st) = Len(under) + 1
          /\ \A k \in 1..Len(under) : st[k] = under[k]
          /\ st[Len(under) + 1] = e
      BY <1>5, <2>4, <3>1, Pushed DEF e
    <3>3. ASSUME NEW k \in 1..Len(st) PROVE IsFrameOfRouter(st[k])
      <4>1. k \in 1..Len(under) \/ k = Len(under) + 1
        BY <3>2
      <4> QED
        BY <2>1, <3>2, <4>1
    <3> QED
      BY <3>3
  <2>6. (\A k \in 1..Len(stack) : IsFrameOfRouter(stack[k]))'
    BY <2>4, <2>5, SameTypes
  <2>7. rows \in Seq(ToSet(rows)) /\ \A k \in 1..Len(rows) : IsRow(rows[k])
    BY <1>5, <2>3, <2>4 DEF q
  <2>8. (listed \in Seq(ToSet(listed)) /\ \A k \in 1..Len(listed) : IsRow(listed[k]))'
    BY <2>4, <2>7, SameTypes
  <2>9. reached' \subseteq Symbol
    BY <1>5 DEF WalkTyped
  <2> QED
    BY <1>2, <1>3, <2>6, <2>8, <2>9 DEF WalkTyped
<1> QED
  BY <1>4, <1>5, WalkEnters

LEMMA NoRows ==
  <<>> \in Seq(ToSet(<<>>)) /\ Len(<<>>) = 0
OBVIOUS

LEMMA TypesAtFirst ==
  ASSUME RegistrationInit
  PROVE  WalkTyped
<1>1. /\ facts \in Found /\ graph = None /\ from = <<>> /\ sweeping = FALSE /\ stack = <<>>
      /\ reached = {} /\ listed = <<>>
  BY DEF RegistrationInit
<1>2. IsPath(stack, reached)
  BY <1>1, NoPath
<1>3. Len(stack) = 0 /\ Len(listed) = 0 /\ listed \in Seq(ToSet(listed))
  BY <1>1, NoRows
<1>4. from \in Seq(Symbol)
  BY <1>1
<1>5. sweeping \in BOOLEAN /\ ~sweeping /\ reached \subseteq Symbol
  BY <1>1
<1>6. /\ \A k \in 1..Len(stack) : IsFrameOfRouter(stack[k])
      /\ \A k \in 1..Len(listed) : IsRow(listed[k])
  BY <1>3
<1> QED
  BY <1>1, <1>2, <1>3, <1>4, <1>5, <1>6, Zenon DEF WalkTyped

LEMMA HeadOfFrom ==
  ASSUME from \in Seq(Symbol), from # <<>>
  PROVE  Head(from) \in Symbol /\ Tail(from) \in Seq(Symbol)
BY HeadTailProperties

LEMMA TypesStay ==
  ASSUME WalkTyped, [RegistrationNext]_registrationVars
  PROVE  WalkTyped'
<1>1. CASE Index
  <2>1. facts' = facts /\ stack' = stack /\ listed' = listed /\ reached' = reached /\ sweeping' = sweeping
    BY <1>1 DEF Index
  <2>2. /\ stack = <<>> /\ listed = <<>> /\ reached = {} /\ ~sweeping
    BY <1>1 DEF Index, WalkTyped
  <2>3. from' \in Seq(Symbol)
    BY <1>1, KnownSymbols, SomeInOrder DEF Index, WalkTyped
  <2>4. GraphBuilt'
    BY <1>1, SameRoots DEF Index, GraphBuilt
  <2>5. (IsPath(stack, reached))'
    BY <2>1 DEF WalkTyped
  <2> QED
    BY <2>1, <2>2, <2>3, <2>4, <2>5, NoRows DEF WalkTyped
<1>2. CASE Start
  <2>1. /\ graph # None /\ from # <<>> /\ Walk(Head(from), AtRoot, <<>>, warnings)
        /\ from' = Tail(from) /\ facts' = facts /\ graph' = graph /\ sweeping' = sweeping
    BY <1>2 DEF Start
  <2>2. AtRoot.prefix \in Seq(Nat)
    BY DEF AtRoot, Entrance
  <2>3. Head(from) \in Symbol /\ from' \in Seq(Symbol)
    BY <2>1, HeadOfFrom DEF WalkTyped
  <2>4. IsPath(<<>>, reached) /\ \A k \in 1..Len(<<>>) : IsFrameOfRouter(<<>>[k])
    BY NoPath, NoRows
  <2> QED
    BY <2>1, <2>2, <2>3, <2>4, WalkKeepsTypes
<1>3. CASE Descend
  <2>1. /\ stack # <<>> /\ Last(stack).left # <<>>
        /\ Walk(Head(Last(stack).left).child, Through(Last(stack), Head(Last(stack).left)), CrossedOver, warnings)
        /\ UNCHANGED <<facts, graph, from, sweeping>>
    BY <1>3, DescendWalks
  <2>2. graph # None /\ from' \in Seq(Symbol)
    BY <2>1, TopOfStack DEF WalkTyped
  <2>3. /\ Head(Last(stack).left).child \in Symbol
        /\ Through(Last(stack), Head(Last(stack).left)).prefix \in Seq(Nat)
        /\ IsRest(Tail(Last(stack).left), graph.mounts[Last(stack).symbol])
    BY <2>1, NextEdge
  <2>4. /\ IsPath(CrossedOver, reached) /\ Len(CrossedOver) = Len(stack)
        /\ \A k \in 1..Len(stack) : IsFrameOfRouter(CrossedOver[k])
    BY <2>1, <2>3, CrossedStack DEF CrossedOver
  <2>5. \A k \in 1..Len(CrossedOver) : IsFrameOfRouter(CrossedOver[k])
    BY <2>4
  <2> QED
    BY <2>1, <2>2, <2>3, <2>4, <2>5, WalkKeepsTypes
<1>4. CASE Return
  <2>1. /\ stack # <<>> /\ stack' = Front(stack)
        /\ UNCHANGED <<facts, graph, from, sweeping, reached, listed, warnings>>
    BY <1>4 DEF Return
  <2>2. /\ IsPath(Front(stack), reached) /\ Len(stack) \in Nat \ {0} /\ Len(Front(stack)) = Len(stack) - 1
        /\ \A k \in 1..(Len(stack) - 1) : Front(stack)[k] = stack[k]
    BY <2>1, ShorterPaths DEF WalkTyped
  <2>3. graph # None
    BY <2>1 DEF WalkTyped
  <2>4. PICK st : st = Front(stack)
    OBVIOUS
  <2>5. \A k \in 1..Len(st) : IsFrameOfRouter(st[k])
    BY <2>2, <2>4 DEF WalkTyped
  <2>6. (\A k \in 1..Len(stack) : IsFrameOfRouter(stack[k]))'
    BY <2>1, <2>4, <2>5, SameTypes
  <2>7. (IsPath(stack, reached))'
    BY <2>1, <2>2
  <2> QED
    BY <2>1, <2>3, <2>6, <2>7, SameTypes DEF WalkTyped
<1>5. CASE Sweep
  <2>1. /\ graph # None /\ sweeping' = TRUE /\ from' = InOrder(Unreached)
        /\ UNCHANGED <<facts, graph, stack, reached, listed, warnings>>
    BY <1>5 DEF Sweep
  <2>2. Unreached \subseteq {s \in Symbol : Known(s)}
    BY DEF Unreached
  <2>3. from' \in Seq(Symbol)
    BY <2>1, <2>2, SomeInOrder DEF WalkTyped
  <2>4. (IsPath(stack, reached))'
    BY <2>1 DEF WalkTyped
  <2> QED
    BY <2>1, <2>3, <2>4, SameTypes DEF WalkTyped
<1>6. CASE StartOrphan
  <2>1. /\ sweeping /\ stack = <<>> /\ from # <<>> /\ from' = Tail(from)
        /\ facts' = facts /\ graph' = graph /\ sweeping' = sweeping
    BY <1>6 DEF StartOrphan
  <2>2. graph # None /\ Head(from) \in Symbol /\ from' \in Seq(Symbol)
    BY <2>1, HeadOfFrom DEF WalkTyped
  <2>3. CASE UNCHANGED <<stack, reached, listed>>
    <3>1. (IsPath(stack, reached))'
      BY <2>3 DEF WalkTyped
    <3> QED
      BY <2>1, <2>2, <2>3, <3>1, SameTypes DEF WalkTyped
  <2>4. CASE \E warned : Walk(Head(from), AtRoot, <<>>, warned)
    <3>1. PICK warned : Walk(Head(from), AtRoot, <<>>, warned)
      BY <2>4
    <3>2. AtRoot.prefix \in Seq(Nat)
      BY DEF AtRoot, Entrance
    <3>3. IsPath(<<>>, reached) /\ \A k \in 1..Len(<<>>) : IsFrameOfRouter(<<>>[k])
      BY NoPath, NoRows
    <3> QED
      BY <2>1, <2>2, <3>1, <3>2, <3>3, WalkKeepsTypes
  <2> QED
    BY <1>6, <2>3, <2>4 DEF StartOrphan
<1>7. CASE UNCHANGED registrationVars
  <2>1. UNCHANGED <<facts, graph, from, sweeping, stack, reached, listed, warnings>>
    BY <1>7 DEF registrationVars, walkVars
  <2>2. (IsPath(stack, reached))'
    BY <2>1 DEF WalkTyped
  <2> QED
    BY <2>1, <2>2, SameTypes DEF WalkTyped
<1> QED
  BY <1>1, <1>2, <1>3, <1>4, <1>5, <1>6, <1>7 DEF RegistrationNext

(***************************************************************************)
(* Sequences of sequences, end to end.                                     *)
(***************************************************************************)
\* The first n of them, one after another.
IsFlat(f, q, n) == f = [i \in 1..n |-> IF i = 1 THEN q[i] ELSE f[i - 1] \o q[i]]

LEMMA FlatIsThere ==
  ASSUME NEW q, NEW n \in Nat
  PROVE  \E f : IsFlat(f, q, n)
<1> DEFINE D == {m \in Nat : ~\E f : IsFlat(f, q, m)}
<1>1. SUFFICES ASSUME D # {} PROVE FALSE
  OBVIOUS
<1>2. D \subseteq Nat
  OBVIOUS
<1>3. PICK m : m = Min(D)
  OBVIOUS
<1>4. m \in D /\ \A x \in D : m <= x
  <2> HIDE DEF D
  <2> QED
    BY <1>1, <1>2, <1>3, LeastOf
<1>5. m \in Nat /\ ~\E f : IsFlat(f, q, m)
  BY <1>4
<1>6. m # 0
  <2>1. SUFFICES ASSUME m = 0 PROVE FALSE
    OBVIOUS
  <2>2. IsFlat([i \in {} |-> {}], q, 0)
    BY DEF IsFlat
  <2> QED
    BY <1>5, <2>1, <2>2
<1>7. m - 1 \in Nat /\ m - 1 \notin D
  BY <1>4, <1>5, <1>6
<1>8. PICK f : IsFlat(f, q, m - 1)
  BY <1>7
<1> DEFINE g == [i \in 1..m |-> IF i = 1 THEN q[i] ELSE f[i - 1] \o q[i]]
<1>9. \A i \in 1..m : i - 1 \in 1..(m - 1) => g[i - 1] = f[i - 1]
  <2> SUFFICES ASSUME NEW i \in 1..m, i - 1 \in 1..(m - 1) PROVE g[i - 1] = f[i - 1]
    OBVIOUS
  <2>1. PICK j : j = i - 1
    OBVIOUS
  <2>2. j \in 1..(m - 1) /\ j \in 1..m
    BY <1>5, <2>1
  <2>3. f[j] = IF j = 1 THEN q[j] ELSE f[j - 1] \o q[j]
    BY <1>8, <2>2, Zenon DEF IsFlat
  <2>4. g[j] = IF j = 1 THEN q[j] ELSE f[j - 1] \o q[j]
    BY <2>2
  <2> QED
    BY <2>1, <2>3, <2>4
<1>10. IsFlat(g, q, m)
  <2>1. \A i \in 1..m : g[i] = IF i = 1 THEN q[i] ELSE g[i - 1] \o q[i]
    <3> SUFFICES ASSUME NEW i \in 1..m PROVE g[i] = IF i = 1 THEN q[i] ELSE g[i - 1] \o q[i]
      OBVIOUS
    <3>1. i = 1 \/ i - 1 \in 1..(m - 1)
      BY <1>5
    <3>2. g[i] = IF i = 1 THEN q[i] ELSE f[i - 1] \o q[i]
      OBVIOUS
    <3> HIDE DEF g
    <3> QED
      BY <1>9, <3>1, <3>2
  <2>2. g = [i \in 1..m |-> g[i]]
    OBVIOUS
  <2> HIDE DEF g
  <2>3. [i \in 1..m |-> g[i]] = [i \in 1..m |-> IF i = 1 THEN q[i] ELSE g[i - 1] \o q[i]]
    BY <2>1
  <2> QED
    BY <2>2, <2>3 DEF IsFlat
<1> QED
  BY <1>5, <1>10

\* What agrees is flattened alike.
LEMMA FlatAgrees ==
  ASSUME NEW p, NEW q, NEW m \in Nat, NEW n \in Nat, m <= n, \A i \in 1..m : p[i] = q[i],
         NEW f, NEW g, IsFlat(f, p, m), IsFlat(g, q, n)
  PROVE  \A i \in 1..m : f[i] = g[i]
<1> DEFINE D == {i \in 1..m : f[i] # g[i]}
<1>1. SUFFICES ASSUME D # {} PROVE FALSE
  OBVIOUS
<1>2. D \subseteq Nat
  OBVIOUS
<1>3. PICK k : k = Min(D)
  OBVIOUS
<1>4. k \in D /\ \A x \in D : k <= x
  <2> HIDE DEF D
  <2> QED
    BY <1>1, <1>2, <1>3, LeastOf
<1>5. k \in 1..m /\ k \in 1..n /\ f[k] # g[k] /\ p[k] = q[k]
  BY <1>4
<1>6. f[k] = IF k = 1 THEN p[k] ELSE f[k - 1] \o p[k]
  BY <1>5, Zenon DEF IsFlat
<1>7. g[k] = IF k = 1 THEN q[k] ELSE g[k - 1] \o q[k]
  BY <1>5, Zenon DEF IsFlat
<1>8. k # 1
  BY <1>5, <1>6, <1>7
<1>9. k - 1 \in 1..m /\ k - 1 \notin D
  BY <1>4, <1>5, <1>8
<1>10. f[k - 1] = g[k - 1]
  BY <1>9
<1> QED
  BY <1>5, <1>6, <1>7, <1>8, <1>10

LEMMA FlattenIs ==
  ASSUME NEW q, NEW n \in Nat, Len(q) = n
  PROVE  /\ n = 0 => FlattenSeq(q) = q
         /\ n # 0 => \E f : IsFlat(f, q, n) /\ FlattenSeq(q) = f[n]
<1>1. n = 0 => FlattenSeq(q) = q
  BY DEF FlattenSeq
<1>2. ASSUME n # 0 PROVE \E f : IsFlat(f, q, n) /\ FlattenSeq(q) = f[n]
  <2> DEFINE g == CHOOSE f : IsFlat(f, q, n)
  <2>1. IsFlat(g, q, n)
    BY FlatIsThere
  <2>2. g = CHOOSE f : f = [i \in 1..n |-> IF i = 1 THEN q[i] ELSE f[i - 1] \o q[i]]
    BY DEF IsFlat
  <2>3. FlattenSeq(q) = g[n]
    BY <1>2, <2>2 DEF FlattenSeq
  <2> QED
    BY <2>1, <2>3
<1> QED
  BY <1>1, <1>2

LEMMA FlattenAppend ==
  ASSUME NEW S, NEW q \in Seq(S), NEW x \in S, NEW T, x \in Seq(T)
  PROVE  FlattenSeq(Append(q, x)) = FlattenSeq(q) \o x
<1>1. PICK n, m, p : n = Len(q) /\ m = n + 1 /\ p = Append(q, x)
  OBVIOUS
<1>2. n \in Nat /\ m \in Nat /\ m # 0 /\ Len(p) = m /\ p[m] = x /\ \A i \in 1..n : p[i] = q[i]
  BY <1>1, AppendProperties, LenProperties
<1>3. PICK f : IsFlat(f, p, m) /\ FlattenSeq(p) = f[m]
  BY <1>2, FlattenIs
<1>4. f[m] = IF m = 1 THEN p[m] ELSE f[m - 1] \o p[m]
  <2>1. m \in 1..m
    BY <1>2
  <2> QED
    BY <1>3, <2>1, Zenon DEF IsFlat
<1>5. CASE n = 0
  <2>1. q = <<>>
    BY <1>1, <1>5, EmptySeq
  <2>2. FlattenSeq(q) = <<>>
    BY <1>1, <1>2, <1>5, <2>1, FlattenIs
  <2>3. <<>> \o x = x
    BY ConcatEmptySeq
  <2> QED
    BY <1>1, <1>2, <1>3, <1>4, <1>5, <2>2, <2>3
<1>6. CASE n # 0
  <2>1. PICK g : IsFlat(g, q, n) /\ FlattenSeq(q) = g[n]
    BY <1>1, <1>2, <1>6, FlattenIs
  <2>2. \A i \in 1..n : q[i] = p[i]
    BY <1>2
  <2>3. n <= m
    BY <1>1, <1>2
  <2>4. \A i \in 1..n : g[i] = f[i]
    <3>1. n \in Nat /\ m \in Nat /\ IsFlat(f, p, m) /\ IsFlat(g, q, n)
      BY <1>2, <1>3, <2>1
    <3> QED
      BY ONLY <2>2, <2>3, <3>1, FlatAgrees
  <2>5. g[n] = f[n] /\ m - 1 = n /\ m # 1
    BY <1>1, <1>2, <1>6, <2>4
  <2> QED
    BY <1>1, <1>2, <1>3, <1>4, <2>1, <2>5
<1> QED
  BY <1>5, <1>6

LEMMA FlattenType ==
  ASSUME NEW T, NEW q \in Seq(Seq(T))
  PROVE  FlattenSeq(q) \in Seq(T)
<1>1. PICK n : n = Len(q)
  OBVIOUS
<1>2. n \in Nat /\ \A i \in 1..n : q[i] \in Seq(T)
  BY <1>1, LenProperties
<1>3. CASE n = 0
  <2>1. q = <<>>
    BY <1>1, <1>3, EmptySeq
  <2>2. FlattenSeq(q) = q
    BY <1>1, <1>2, <1>3, FlattenIs
  <2>3. <<>> \in Seq(T)
    OBVIOUS
  <2> QED
    BY ONLY <2>1, <2>2, <2>3, Zenon
<1>4. CASE n # 0
  <2>1. PICK f : IsFlat(f, q, n) /\ FlattenSeq(q) = f[n]
    BY <1>1, <1>2, <1>4, FlattenIs
  <2> DEFINE D == {i \in 1..n : f[i] \notin Seq(T)}
  <2>2. ASSUME D # {} PROVE FALSE
    <3>3. D \subseteq Nat
      OBVIOUS
    <3>4. PICK k : k = Min(D)
      OBVIOUS
    <3>5. k \in D /\ \A x \in D : k <= x
      <4> HIDE DEF D
      <4> QED
        BY <2>2, <3>3, <3>4, LeastOf
    <3>6. k \in 1..n /\ f[k] \notin Seq(T)
      BY <3>5
    <3>7. f[k] = IF k = 1 THEN q[k] ELSE f[k - 1] \o q[k]
      BY <2>1, <3>6, Zenon DEF IsFlat
    <3>8. q[k] \in Seq(T)
      BY <1>2, <3>6
    <3>9. k # 1
      BY <3>6, <3>7, <3>8
    <3>10. k - 1 \in 1..n /\ k - 1 \notin D
      <4> HIDE DEF D
      <4> QED
        BY <1>2, <3>5, <3>6, <3>9
    <3>11. f[k - 1] \in Seq(T)
      BY <3>10
    <3>12. f[k - 1] \o q[k] \in Seq(T)
      BY <3>8, <3>11, ConcatProperties
    <3> QED
      BY <3>6, <3>7, <3>9, <3>12
  <2>3. n \in 1..n
    BY <1>2, <1>4
  <2>4. f[n] \in Seq(T)
    BY <2>2, <2>3
  <2> QED
    BY <2>1, <2>4
<1> QED
  BY <1>3, <1>4

\* The last that was said.
LEMMA LastSaidAppend ==
  ASSUME NEW S, NEW q \in Seq(S), NEW x, NEW nothing
  PROVE  /\ LastSaid(Append(q, x), nothing) = IF x # nothing THEN x ELSE LastSaid(q, nothing)
         /\ LastSaid(<<>>, nothing) = nothing
<1>1. PICK n, p : n = Len(q) /\ p = Append(q, x)
  OBVIOUS
<1>2. /\ n \in Nat /\ Len(p) = n + 1 /\ p[n + 1] = x /\ DOMAIN q = 1..n /\ DOMAIN p = 1..(n + 1)
      /\ \A i \in 1..n : p[i] = q[i]
  <2>1. q \in Seq(S \union {x}) /\ x \in S \union {x}
    BY SeqMonotonic
  <2> QED
    BY <1>1, <2>1, AppendProperties, LenProperties
<1> DEFINE A == {k \in 1..n : q[k] # nothing}
           B == {k \in DOMAIN p : p[k] # nothing}
<1>5. LastSaid(<<>>, nothing) = nothing
  <2>1. {k \in DOMAIN <<>> : <<>>[k] # nothing} = {}
    OBVIOUS
  <2> QED
    BY <2>1 DEF LastSaid
<1>6. LastSaid(p, nothing) = IF B = {} THEN nothing ELSE p[Max(B)]
  BY DEF LastSaid
<1>3. CASE x # nothing
  <2>1. n + 1 \in B /\ B \subseteq Nat /\ \A k \in B : n + 1 >= k
    BY <1>2, <1>3
  <2>2. Max(B) = n + 1
    <3> HIDE DEF B
    <3>0. PICK z : z = Max(B)
      OBVIOUS
    <3>1. z \in B /\ \A k \in B : z >= k
      BY <2>1, <3>0, Zenon DEF Max
    <3> QED
      BY <1>2, <2>1, <3>0, <3>1
  <2>3. LastSaid(p, nothing) = p[n + 1]
    <3> HIDE DEF B
    <3> QED
      BY <1>6, <2>1, <2>2
  <2> QED
    BY <1>1, <1>2, <1>3, <1>5, <2>3
<1>4. CASE x = nothing
  <2>1. A = B
    <3>1. \A k \in 1..(n + 1) : p[k] # nothing => k \in 1..n
      BY <1>2, <1>4
    <3>2. \A k : k \in B <=> k \in 1..n /\ p[k] # nothing
      BY <1>2, <3>1
    <3>3. \A k : k \in A <=> k \in 1..n /\ q[k] # nothing
      OBVIOUS
    <3> QED
      BY <1>2, <3>2, <3>3
  <2>2. A # {} => Max(A) \in A
    <3>1. A \subseteq DOMAIN q
      BY <1>2
    <3>2. A \subseteq Nat /\ IsFiniteSet(A)
      BY <1>1, <1>2, <3>1, Positions, FS_Subset
    <3> HIDE DEF A
    <3> QED
      BY <3>2, GreatestOf
  <2>3. A # {} => p[Max(A)] = q[Max(A)]
    <3>1. \A k \in A : p[k] = q[k]
      BY <1>2
    <3> HIDE DEF A
    <3> QED
      BY <2>2, <3>1
  <2>4. LastSaid(q, nothing) = IF A = {} THEN nothing ELSE q[Max(A)]
    <3>2. DOMAIN q = 1..n
      BY <1>2
    <3>1. A = {k \in DOMAIN q : q[k] # nothing}
      BY ONLY <3>2, Zenon
    <3> HIDE DEF A
    <3> QED
      BY <3>1, Zenon DEF LastSaid
  <2>5. LastSaid(p, nothing) = IF B = {} THEN nothing ELSE p[Max(B)]
    BY DEF LastSaid
  <2>6. LastSaid(p, nothing) = LastSaid(q, nothing)
    <3> HIDE DEF A, B
    <3> QED
      BY <2>1, <2>3, <2>4, <2>5
  <2> QED
    BY <1>1, <1>4, <1>5, <2>6
<1> QED
  BY <1>3, <1>4

\* What was said was said somewhere.
LEMMA SaidSomewhere ==
  ASSUME NEW S, NEW q \in Seq(S), NEW nothing, LastSaid(q, nothing) # nothing
  PROVE  \E k \in DOMAIN q : q[k] = LastSaid(q, nothing)
<1> DEFINE A == {k \in DOMAIN q : q[k] # nothing}
<1>1. LastSaid(q, nothing) = IF A = {} THEN nothing ELSE q[Max(A)]
  BY DEF LastSaid
<1>2. A # {}
  BY <1>1
<1>3. A \subseteq DOMAIN q
  OBVIOUS
<1>4. A \subseteq Nat /\ IsFiniteSet(A)
  BY <1>3, Positions, FS_Subset
<1>5. Max(A) \in A
  <2> HIDE DEF A
  <2> QED
    BY <1>2, <1>4, GreatestOf
<1> QED
  BY <1>1, <1>2, <1>3, <1>5

\* One more at the end of a sequence.
IsLong(q, n) == q = [k \in 1..n |-> q[k]]

LEMMA Extends ==
  ASSUME NEW n \in Nat, NEW m, m = n + 1, NEW p, NEW q, IsLong(p, n), IsLong(q, m),
         \A k \in 1..n : q[k] = p[k]
  PROVE  /\ q = Append(p, q[m])
         /\ \A nothing : LastSaid(q, nothing) = IF q[m] # nothing THEN q[m] ELSE LastSaid(p, nothing)
<1> DEFINE T == {p[k] : k \in 1..n} \union {q[m]}
<1>1. PICK x, r : x = q[m] /\ r = Append(p, x)
  OBVIOUS
<1>2. p \in [1..n -> T] /\ x \in T
  BY <1>1 DEF IsLong
<1> HIDE DEF T
<1>3. p \in Seq(T) /\ Len(p) = n
  BY <1>2, SeqDef, LenProperties
<1>4. /\ r \in Seq(T) /\ Len(r) = m /\ r[m] = x
      /\ \A k \in 1..n : r[k] = p[k]
  BY <1>1, <1>2, <1>3, AppendProperties
<1>5. r = [k \in 1..m |-> r[k]]
  BY <1>4, LenProperties
<1>6. \A k \in 1..m : r[k] = q[k]
  <2> SUFFICES ASSUME NEW k \in 1..m PROVE r[k] = q[k]
    OBVIOUS
  <2>1. k \in 1..n \/ k = m
    OBVIOUS
  <2> QED
    BY <1>1, <1>4, <2>1
<1>7. [k \in 1..m |-> r[k]] = [k \in 1..m |-> q[k]]
  BY <1>6
<1>8. q = r
  BY <1>5, <1>7 DEF IsLong
<1>9. \A nothing : LastSaid(Append(p, x), nothing) = IF x # nothing THEN x ELSE LastSaid(p, nothing)
  BY <1>3, LastSaidAppend
<1> QED
  BY <1>1, <1>8, <1>9

(***************************************************************************)
(* The edges of the graph, and what ways along them give.                  *)
(***************************************************************************)
EdgeOf(s, e) == [parent |-> s, child |-> e.child, mount |-> facts.mounts[e.of]]
EdgesOf(s)   == {EdgeOf(s, e) : e \in ToSet(graph.mounts[s])}

LEMMA EdgesAre ==
  ASSUME facts \in Found, GraphBuilt
  PROVE  /\ \A s \in Symbol : \A E : E \in EdgesOf(s) <=> E \in Edges /\ E.parent = s
         /\ \A E \in Edges : E.parent \in Symbol /\ E.child \in Symbol /\ E.mount.prefix \in Seq(Nat)
<1>1. Edges = UNION {EdgesOf(s) : s \in Symbol}
  BY DEF Edges, EdgesOf, EdgeOf
<1>2. \A s, E : E \in EdgesOf(s) => E.parent = s
  BY DEF EdgesOf, EdgeOf
<1>3. ASSUME NEW s \in Symbol, NEW E \in EdgesOf(s)
      PROVE  E.child \in Symbol /\ E.mount.prefix \in Seq(Nat)
  <2>1. graph.mounts[s] = MountsOn(s)
    BY DEF GraphBuilt
  <2>2. PICK k \in DOMAIN MountsOn(s) : E = EdgeOf(s, MountsOn(s)[k])
    BY <2>1 DEF EdgesOf, ToSet
  <2>3. PICK e : e = MountsOn(s)[k]
    OBVIOUS
  <2>4. IsEdge(s, e)
    BY <2>3, MountsInTurn
  <2>5. e.of \in DOMAIN facts.mounts /\ e.child \in Symbol
    BY <2>4 DEF IsEdge, MountsOf
  <2>6. facts.mounts[e.of].prefix \in Seq(Nat)
    BY <2>5, FoundAssumption
  <2> QED
    BY <2>2, <2>3, <2>5, <2>6 DEF EdgeOf
<1> QED
  BY <1>1, <1>2, <1>3

\* A router has no edge twice.
LEMMA EdgesDiffer ==
  ASSUME facts \in Found, NEW s, NEW j \in DOMAIN MountsOn(s), NEW k \in DOMAIN MountsOn(s),
         EdgeOf(s, MountsOn(s)[j]) = EdgeOf(s, MountsOn(s)[k])
  PROVE  j = k
<1>1. PICK d, e : d = MountsOn(s)[j] /\ e = MountsOn(s)[k]
  OBVIOUS
<1>2. IsEdge(s, d) /\ IsEdge(s, e)
  BY <1>1, MountsInTurn
<1>3. /\ d.of \in DOMAIN facts.mounts /\ FirstOfItsKind(d.of)
      /\ e.of \in DOMAIN facts.mounts /\ FirstOfItsKind(e.of)
  BY <1>2 DEF IsEdge, MountsOf
<1>4. facts.mounts[d.of] = facts.mounts[e.of]
  BY <1>1 DEF EdgeOf
<1>5. d.of \in Nat \ {0} /\ e.of \in Nat \ {0}
  BY <1>3, PositionsOfFacts
<1>6. ~(d.of < e.of) /\ ~(e.of < d.of)
  <2>1. ASSUME NEW i \in Nat \ {0}, NEW n \in Nat \ {0}, FirstOfItsKind(n), facts.mounts[i] = facts.mounts[n]
        PROVE  ~(i < n)
    <3>1. SUFFICES ASSUME i < n PROVE FALSE
      OBVIOUS
    <3>2. i \in 1..(n - 1)
      BY <3>1
    <3>3. Spelling(facts.mounts[i]) = Spelling(facts.mounts[n])
      BY <2>1
    <3> QED
      BY <2>1, <3>2, <3>3 DEF FirstOfItsKind
  <2> QED
    BY <1>3, <1>4, <1>5, <2>1
<1>7. d.of = e.of
  BY <1>5, <1>6
<1> QED
  BY <1>1, <1>7, MountsInTurn

Adds(E)          == E.mount.prefix \o IF E.mount.replaces THEN <<>> ELSE OwnPrefix(E.child)
Passed(w)        == [k \in DOMAIN w |-> Adds(w[k])]
PathAlong(s, w)  == OwnPrefix(s) \o FlattenSeq(Passed(w))
AuthAlong(w)     == LastSaid([k \in DOMAIN w |-> w[k].mount.auth], None)
Groups(E)        == <<E.mount.group, OwnGroup(E.child)>>
GroupsAlong(w)   == [k \in DOMAIN w |-> Groups(w[k])]
GroupAlong(s, w) == LastSaid(<<OwnGroup(s)>> \o FlattenSeq(GroupsAlong(w)), None)

\* What way w from s gives the router it leads to.
IsGiven(f, s, w) ==
  /\ f.base = PathAlong(s, w) /\ f.methods = Narrowed(w)
  /\ f.auth = AuthAlong(w) /\ f.group = GroupAlong(s, w)

\* One edge more.
Longer(v, w, E) == v = Append(w, E)

LEMMA MoreIsSaid ==
  ASSUME NEW S, NEW w \in Seq(S), NEW E \in S, NEW v, Longer(v, w, E)
  PROVE  /\ v \in Seq(S) /\ Len(v) = Len(w) + 1 /\ v[Len(w) + 1] = E /\ \A k \in 1..Len(w) : v[k] = w[k]
         /\ Passed(v) = Append(Passed(w), Adds(E))
         /\ GroupsAlong(v) = Append(GroupsAlong(w), Groups(E))
         /\ Narrowed(v) = IF E.mount.methods # {} THEN E.mount.methods ELSE Narrowed(w)
         /\ AuthAlong(v) = IF E.mount.auth # None THEN E.mount.auth ELSE AuthAlong(w)
<1>1. PICK n, m : n = Len(w) /\ m = n + 1
  OBVIOUS
<1>2. /\ n \in Nat /\ v \in Seq(S) /\ Len(v) = m /\ v[m] = E /\ DOMAIN w = 1..n /\ DOMAIN v = 1..m
      /\ \A k \in 1..n : v[k] = w[k]
  BY <1>1, AppendProperties, LenProperties DEF Longer
<1>3. /\ m \in 1..m /\ \A k \in 1..n : k \in 1..m
  BY <1>1, <1>2
<1>4. Passed(v) = Append(Passed(w), Adds(E))
  <2>1. PICK p, q : p = Passed(w) /\ q = Passed(v)
    OBVIOUS
  <2>2. IsLong(p, n) /\ IsLong(q, m)
    BY <1>2, <2>1 DEF Passed, IsLong
  <2>3. \A k \in 1..n : q[k] = p[k]
    BY <1>2, <1>3, <2>1 DEF Passed
  <2>4. q[m] = Adds(E)
    BY <1>2, <1>3, <2>1 DEF Passed
  <2>5. /\ q = Append(p, q[m])
        /\ \A nothing : LastSaid(q, nothing) = IF q[m] # nothing THEN q[m] ELSE LastSaid(p, nothing)
    <3>1. n \in Nat /\ m = n + 1
      BY <1>1, <1>2
    <3> QED
      BY ONLY <2>2, <2>3, <3>1, Extends
  <2> QED
    BY <2>1, <2>4, <2>5
<1>5. GroupsAlong(v) = Append(GroupsAlong(w), Groups(E))
  <2>1. PICK p, q : p = GroupsAlong(w) /\ q = GroupsAlong(v)
    OBVIOUS
  <2>2. IsLong(p, n) /\ IsLong(q, m)
    BY <1>2, <2>1 DEF GroupsAlong, IsLong
  <2>3. \A k \in 1..n : q[k] = p[k]
    BY <1>2, <1>3, <2>1 DEF GroupsAlong
  <2>4. q[m] = Groups(E)
    BY <1>2, <1>3, <2>1 DEF GroupsAlong
  <2>5. /\ q = Append(p, q[m])
        /\ \A nothing : LastSaid(q, nothing) = IF q[m] # nothing THEN q[m] ELSE LastSaid(p, nothing)
    <3>1. n \in Nat /\ m = n + 1
      BY <1>1, <1>2
    <3> QED
      BY ONLY <2>2, <2>3, <3>1, Extends
  <2> QED
    BY <2>1, <2>4, <2>5
<1>6. Narrowed(v) = IF E.mount.methods # {} THEN E.mount.methods ELSE Narrowed(w)
  <2>1. PICK p, q : p = [k \in DOMAIN w |-> w[k].mount.methods] /\ q = [k \in DOMAIN v |-> v[k].mount.methods]
    OBVIOUS
  <2>2. IsLong(p, n) /\ IsLong(q, m)
    BY <1>2, <2>1 DEF IsLong
  <2>3. \A k \in 1..n : q[k] = p[k]
    BY <1>2, <1>3, <2>1
  <2>4. q[m] = E.mount.methods
    BY <1>2, <1>3, <2>1
  <2>5. /\ q = Append(p, q[m])
        /\ \A nothing : LastSaid(q, nothing) = IF q[m] # nothing THEN q[m] ELSE LastSaid(p, nothing)
    <3>1. n \in Nat /\ m = n + 1
      BY <1>1, <1>2
    <3> QED
      BY ONLY <2>2, <2>3, <3>1, Extends
  <2> QED
    BY <2>1, <2>4, <2>5 DEF Narrowed
<1>7. AuthAlong(v) = IF E.mount.auth # None THEN E.mount.auth ELSE AuthAlong(w)
  <2>1. PICK p, q : p = [k \in DOMAIN w |-> w[k].mount.auth] /\ q = [k \in DOMAIN v |-> v[k].mount.auth]
    OBVIOUS
  <2>2. IsLong(p, n) /\ IsLong(q, m)
    BY <1>2, <2>1 DEF IsLong
  <2>3. \A k \in 1..n : q[k] = p[k]
    BY <1>2, <1>3, <2>1
  <2>4. q[m] = E.mount.auth
    BY <1>2, <1>3, <2>1
  <2>5. /\ q = Append(p, q[m])
        /\ \A nothing : LastSaid(q, nothing) = IF q[m] # nothing THEN q[m] ELSE LastSaid(p, nothing)
    <3>1. n \in Nat /\ m = n + 1
      BY <1>1, <1>2
    <3> QED
      BY ONLY <2>2, <2>3, <3>1, Extends
  <2> QED
    BY <2>1, <2>4, <2>5 DEF AuthAlong
<1> QED
  BY <1>1, <1>2, <1>4, <1>5, <1>6, <1>7

LEMMA ConcatAssociates ==
  ASSUME NEW S, NEW p \in Seq(S), NEW q \in Seq(S), NEW r \in Seq(S)
  PROVE  /\ (p \o q) \o r = p \o (q \o r) /\ p \o q \in Seq(S) /\ p \o <<>> = p
<1>1. p \o <<>> = p
  BY ConcatEmptySeq
<1>2. p \o q \in Seq(S)
  BY ConcatProperties
<1>3. (p \o q) \o r = p \o (q \o r)
  BY ConcatAssociative
<1> QED
  BY <1>1, <1>2, <1>3

LEMMA ConcatTwo ==
  ASSUME NEW S, NEW p \in Seq(S), NEW x \in S, NEW y \in S
  PROVE  p \o <<x, y>> = Append(Append(p, x), y)
OBVIOUS

\* Nothing is said on the way to where the walk starts.
LEMMA NothingPassed ==
  /\ Passed(<<>>) = <<>> /\ GroupsAlong(<<>>) = <<>>
  /\ Narrowed(<<>>) = {} /\ AuthAlong(<<>>) = None
<1>1. Passed(<<>>) = <<>> /\ GroupsAlong(<<>>) = <<>>
  BY DEF Passed, GroupsAlong
<1>2. /\ [k \in DOMAIN <<>> |-> <<>>[k].mount.methods] = <<>>
      /\ [k \in DOMAIN <<>> |-> <<>>[k].mount.auth] = <<>>
  OBVIOUS
<1>3. \A nothing : LastSaid(<<>>, nothing) = nothing
  <2>1. SUFFICES ASSUME NEW nothing PROVE LastSaid(<<>>, nothing) = nothing
    OBVIOUS
  <2>2. <<>> \in Seq({})
    OBVIOUS
  <2> QED
    BY <2>2, LastSaidAppend
<1> QED
  BY <1>1, <1>2, <1>3 DEF Narrowed, AuthAlong

LEMMA FlattenNothing ==
  FlattenSeq(<<>>) = <<>>
<1>1. Len(<<>>) = 0 /\ 0 \in Nat
  OBVIOUS
<1> QED
  BY <1>1, FlattenIs

\* How a router is entered where a walk starts, and through a mount.
LEMMA GivenAtRoot ==
  ASSUME facts \in Found, NEW r
  PROVE  IsGiven(Entered(r, AtRoot), r, <<>>)
<1> DEFINE f == Entered(r, AtRoot)
<1>1. f.base = <<>> \o OwnPrefix(r) /\ f.methods = {} /\ f.auth = None
      /\ f.group = GroupOf(r, AtRoot)
  BY DEF Entered, BaseOf, AtRoot, Entrance
<1>2. f.base = PathAlong(r, <<>>)
  <2>1. OwnPrefix(r) \in Seq(Nat)
    BY OwnPrefixType
  <2>2. <<>> \o OwnPrefix(r) = OwnPrefix(r) /\ OwnPrefix(r) \o <<>> = OwnPrefix(r)
    BY <2>1, ConcatEmptySeq
  <2> QED
    BY <1>1, <2>2, NothingPassed, FlattenNothing DEF PathAlong
<1>3. f.group = GroupAlong(r, <<>>)
  <2>1. GroupOf(r, AtRoot) = OwnGroup(r)
    BY DEF GroupOf, AtRoot, Entrance, OwnGroup, Or
  <2>2. PICK g, S : g = OwnGroup(r) /\ S = {g}
    OBVIOUS
  <2>3. PICK e, q : e = <<>> /\ q = <<g>>
    OBVIOUS
  <2>4. q \o e = q /\ Append(e, g) = q /\ e \in Seq(S)
    BY <2>2, <2>3
  <2>5. LastSaid(Append(e, g), None) = IF g # None THEN g ELSE LastSaid(e, None)
    <3>1. e \in Seq(S)
      BY <2>4
    <3> QED
      BY ONLY <3>1, LastSaidAppend
  <2>6. LastSaid(e, None) = None
    BY <2>3, <2>4, LastSaidAppend
  <2>7. GroupAlong(r, <<>>) = LastSaid(q \o e, None)
    BY <2>2, <2>3, NothingPassed, FlattenNothing DEF GroupAlong
  <2> QED
    BY <1>1, <2>1, <2>2, <2>4, <2>5, <2>6, <2>7
<1> HIDE DEF f
<1> QED
  BY <1>1, <1>2, <1>3, NothingPassed DEF IsGiven, f

LEMMA GivenThrough ==
  ASSUME facts \in Found, NEW top, NEW edge, NEW s, NEW w, NEW S, w \in Seq(S), IsGiven(top, s, w),
         NEW E, E = EdgeOf(top.symbol, edge), E \in S, \A D \in S : D.mount.prefix \in Seq(Nat)
  PROVE  IsGiven(Entered(edge.child, Through(top, edge)), s, Append(w, E))
<1> DEFINE child == edge.child
           mount == facts.mounts[edge.of]
           x     == mount.prefix \o IF mount.replaces THEN <<>> ELSE OwnPrefix(child)
<1>1. PICK v, f : v = Append(w, E) /\ f = Entered(child, Through(top, edge))
  OBVIOUS
<1>2. E.child = child /\ E.mount = mount
  BY DEF EdgeOf
<1>3. /\ f.base = (IF mount.replaces THEN top.base \o mount.prefix ELSE (top.base \o mount.prefix) \o OwnPrefix(child))
      /\ f.methods = (IF mount.methods = {} THEN top.methods ELSE mount.methods)
      /\ f.auth = Or(mount.auth, top.auth)
      /\ f.group = IF Declared(child) THEN Or(RouterOf(child).group, Or(mount.group, top.group))
                                      ELSE Or(mount.group, top.group)
  BY <1>1 DEF Entered, BaseOf, GroupOf, Through, Entrance, NearestMethods
<1>4. /\ top.base = PathAlong(s, w) /\ top.methods = Narrowed(w)
      /\ top.auth = AuthAlong(w) /\ top.group = GroupAlong(s, w)
  BY DEF IsGiven
<1>5. /\ Passed(v) = Append(Passed(w), x)
      /\ GroupsAlong(v) = Append(GroupsAlong(w), <<mount.group, OwnGroup(child)>>)
      /\ Narrowed(v) = IF mount.methods # {} THEN mount.methods ELSE Narrowed(w)
      /\ AuthAlong(v) = IF mount.auth # None THEN mount.auth ELSE AuthAlong(w)
  <2>1. w \in Seq(S) /\ E \in S /\ Longer(v, w, E)
    BY <1>1 DEF Longer
  <2>2. /\ Passed(v) = Append(Passed(w), Adds(E))
        /\ GroupsAlong(v) = Append(GroupsAlong(w), Groups(E))
        /\ Narrowed(v) = IF E.mount.methods # {} THEN E.mount.methods ELSE Narrowed(w)
        /\ AuthAlong(v) = IF E.mount.auth # None THEN E.mount.auth ELSE AuthAlong(w)
    BY ONLY <2>1, MoreIsSaid
  <2>3. Adds(E) = x /\ Groups(E) = <<mount.group, OwnGroup(child)>>
    BY <1>2 DEF Adds, Groups
  <2> QED
    BY <1>2, <2>2, <2>3
<1>6. OwnPrefix(child) \in Seq(Nat) /\ OwnPrefix(s) \in Seq(Nat) /\ mount.prefix \in Seq(Nat)
      /\ <<>> \in Seq(Nat)
  BY <1>2, OwnPrefixType
<1>7. x \in Seq(Nat)
  BY <1>6, ConcatProperties
<1>8. Passed(w) \in Seq(Seq(Nat))
  <2>1. PICK n : n = Len(w)
    OBVIOUS
  <2>2. n \in Nat /\ DOMAIN w = 1..n /\ \A k \in 1..n : w[k].mount.prefix \in Seq(Nat)
    BY <2>1, LenProperties
  <2>3. \A k \in 1..n : Adds(w[k]) \in Seq(Nat)
    <3>1. SUFFICES ASSUME NEW k \in 1..n PROVE Adds(w[k]) \in Seq(Nat)
      OBVIOUS
    <3>2. OwnPrefix(w[k].child) \in Seq(Nat) /\ w[k].mount.prefix \in Seq(Nat)
      BY <2>2, OwnPrefixType
    <3> QED
      BY <1>6, <3>2, ConcatProperties DEF Adds
  <2>4. Passed(w) = [k \in 1..n |-> Adds(w[k])]
    BY <2>2 DEF Passed
  <2>5. Passed(w) \in [1..n -> Seq(Nat)]
    BY <2>3, <2>4
  <2> QED
    BY <2>2, <2>5, SeqDef
<1>9. f.base = PathAlong(s, v)
  <2>1. PICK flat, own, p, o : /\ flat = FlattenSeq(Passed(w)) /\ own = OwnPrefix(s) /\ p = mount.prefix
                               /\ o = OwnPrefix(child)
    OBVIOUS
  <2>2. flat \in Seq(Nat) /\ own \in Seq(Nat) /\ p \in Seq(Nat) /\ o \in Seq(Nat)
    BY <1>6, <1>8, <2>1, FlattenType
  <2>3. FlattenSeq(Passed(v)) = flat \o x
    <3> HIDE DEF x
    <3> QED
      BY <1>5, <1>7, <1>8, <2>1, FlattenAppend
  <2>4. PathAlong(s, v) = own \o (flat \o x) /\ top.base = own \o flat
    BY <1>4, <2>1, <2>3 DEF PathAlong
  <2>5. top.base \in Seq(Nat) /\ own \o (flat \o x) = top.base \o x
    <3> HIDE DEF x
    <3>1. (own \o flat) \o x = own \o (flat \o x) /\ own \o flat \in Seq(Nat)
      <4>1. own \in Seq(Nat) /\ flat \in Seq(Nat) /\ x \in Seq(Nat)
        BY <1>7, <2>2
      <4> QED
        BY ONLY <4>1, ConcatAssociates
    <3> QED
      BY <2>4, <3>1
  <2>6. (top.base \o p) \o o = top.base \o (p \o o) /\ p \o <<>> = p
    <3>1. PICK b : b = top.base
      OBVIOUS
    <3>2. b \in Seq(Nat)
      BY <2>5, <3>1
    <3>3. (b \o p) \o o = b \o (p \o o) /\ p \o <<>> = p
      <4>1. b \in Seq(Nat) /\ p \in Seq(Nat) /\ o \in Seq(Nat)
        BY <2>2, <3>2
      <4> QED
        BY ONLY <4>1, ConcatAssociates
    <3> QED
      BY <3>1, <3>3
  <2> QED
    BY <1>3, <2>1, <2>4, <2>5, <2>6
<1>10. f.group = GroupAlong(s, v)
  <2>1. PICK g, o, T, q : /\ g = mount.group /\ o = OwnGroup(child)
                          /\ q = GroupsAlong(w)
                          /\ T = {OwnGroup(s), g, o} \union {w[k].mount.group : k \in DOMAIN w}
                                   \union {OwnGroup(w[k].child) : k \in DOMAIN w}
    OBVIOUS
  <2>2. g \in T /\ o \in T /\ OwnGroup(s) \in T
    BY <2>1
  <2>3. q \in Seq(Seq(T))
    <3>1. PICK n : n = Len(w)
      OBVIOUS
    <3>2. n \in Nat /\ DOMAIN w = 1..n
      BY <3>1, LenProperties
    <3>3. \A k \in 1..n : Groups(w[k]) \in Seq(T)
      <4>1. SUFFICES ASSUME NEW k \in 1..n PROVE Groups(w[k]) \in Seq(T)
        OBVIOUS
      <4>2. w[k].mount.group \in T /\ OwnGroup(w[k].child) \in T
        BY <2>1, <3>2
      <4> QED
        BY <4>2 DEF Groups
    <3>4. q = [k \in 1..n |-> Groups(w[k])]
      BY <2>1, <3>2 DEF GroupsAlong
    <3>5. q \in [1..n -> Seq(T)]
      BY <3>3, <3>4
    <3> QED
      BY <3>2, <3>5, SeqDef
  <2>4. PICK pair, flat, one : pair = <<g, o>> /\ flat = FlattenSeq(q) /\ one = <<OwnGroup(s)>>
    OBVIOUS
  <2>5. pair \in Seq(T) /\ one \in Seq(T)
    BY <2>2, <2>4
  <2>6. flat \in Seq(T)
    BY <2>3, <2>4, FlattenType
  <2>7. FlattenSeq(Append(q, pair)) = flat \o pair
    BY ONLY <2>3, <2>4, <2>5, FlattenAppend
  <2>8. one \o (flat \o pair) = (one \o flat) \o pair /\ one \o flat \in Seq(T)
    BY ONLY <2>5, <2>6, ConcatAssociates
  <2>9. PICK b : b = one \o flat
    OBVIOUS
  <2>10. b \o pair = Append(Append(b, g), o) /\ Append(b, g) \in Seq(T) /\ b \in Seq(T)
    BY <2>2, <2>4, <2>8, <2>9, ConcatTwo
  <2>11. LastSaid(Append(Append(b, g), o), None) = IF o # None THEN o ELSE LastSaid(Append(b, g), None)
    <3>1. PICK c : c = Append(b, g)
      OBVIOUS
    <3>2. c \in Seq(T)
      BY <2>10, <3>1
    <3>3. LastSaid(Append(c, o), None) = IF o # None THEN o ELSE LastSaid(c, None)
      BY ONLY <3>2, LastSaidAppend
    <3> QED
      BY <3>1, <3>3
  <2>12. LastSaid(Append(b, g), None) = IF g # None THEN g ELSE LastSaid(b, None)
    <3>1. b \in Seq(T)
      BY <2>10
    <3> QED
      BY ONLY <3>1, LastSaidAppend
  <2>13. GroupAlong(s, v) = LastSaid(b \o pair, None) /\ top.group = LastSaid(b, None)
    BY <1>4, <1>5, <2>1, <2>4, <2>7, <2>8, <2>9 DEF GroupAlong
  <2>14. GroupAlong(s, v) = Or(o, Or(g, top.group))
    BY <2>10, <2>11, <2>12, <2>13 DEF Or
  <2>15. o = IF Declared(child) THEN RouterOf(child).group ELSE None
    BY <2>1 DEF OwnGroup
  <2> QED
    BY <1>3, <2>1, <2>14, <2>15 DEF Or
<1>11. f.methods = Narrowed(v) /\ f.auth = AuthAlong(v)
  BY <1>3, <1>4, <1>5 DEF Or
<1> QED
  BY <1>1, <1>9, <1>10, <1>11 DEF IsGiven

LEMMA WhatIsSaid ==
  ASSUME NEW S, NEW w \in Seq(S), NEW s
  PROVE  /\ \E T : [k \in DOMAIN w |-> w[k].mount.auth] \in Seq(T)
         /\ \E T : [k \in DOMAIN w |-> w[k].mount.methods] \in Seq(T)
         /\ \E T : <<OwnGroup(s)>> \o FlattenSeq(GroupsAlong(w)) \in Seq(T)
<1>1. PICK n : n = Len(w)
  OBVIOUS
<1>2. n \in Nat /\ DOMAIN w = 1..n
  BY <1>1, LenProperties
<1>3. \E T : [k \in DOMAIN w |-> w[k].mount.auth] \in Seq(T)
  <2>1. PICK T : T = {w[k].mount.auth : k \in 1..n}
    OBVIOUS
  <2>2. [k \in DOMAIN w |-> w[k].mount.auth] \in [1..n -> T]
    BY <1>2, <2>1
  <2> QED
    BY <1>2, <2>2, SeqDef
<1>4. \E T : [k \in DOMAIN w |-> w[k].mount.methods] \in Seq(T)
  <2>1. PICK T : T = {w[k].mount.methods : k \in 1..n}
    OBVIOUS
  <2>2. [k \in DOMAIN w |-> w[k].mount.methods] \in [1..n -> T]
    BY <1>2, <2>1
  <2> QED
    BY <1>2, <2>2, SeqDef
<1>5. \E T : <<OwnGroup(s)>> \o FlattenSeq(GroupsAlong(w)) \in Seq(T)
  <2>1. PICK T, q : /\ q = GroupsAlong(w)
                    /\ T = {OwnGroup(s)} \union {w[k].mount.group : k \in DOMAIN w}
                             \union {OwnGroup(w[k].child) : k \in DOMAIN w}
    OBVIOUS
  <2>2. \A k \in 1..n : Groups(w[k]) \in Seq(T)
    <3>1. SUFFICES ASSUME NEW k \in 1..n PROVE Groups(w[k]) \in Seq(T)
      OBVIOUS
    <3>2. w[k].mount.group \in T /\ OwnGroup(w[k].child) \in T
      BY <1>2, <2>1
    <3> QED
      BY <3>2 DEF Groups
  <2>3. q = [k \in 1..n |-> Groups(w[k])]
    BY <1>2, <2>1 DEF GroupsAlong
  <2>4. q \in [1..n -> Seq(T)]
    BY <2>2, <2>3
  <2>5. q \in Seq(Seq(T))
    BY <1>2, <2>4, SeqDef
  <2>6. PICK flat, one : flat = FlattenSeq(q) /\ one = <<OwnGroup(s)>>
    OBVIOUS
  <2>7. flat \in Seq(T)
    BY <2>5, <2>6, FlattenType
  <2>8. OwnGroup(s) \in T
    BY <2>1
  <2>9. one \in Seq(T)
    BY <2>6, <2>8
  <2>10. one \o flat \in Seq(T)
    BY ONLY <2>7, <2>9, ConcatProperties
  <2> QED
    BY <2>1, <2>6, <2>10
<1> QED
  BY <1>3, <1>4, <1>5

\* A row says of a route what the way to it gives its router.
LEMMA RowIs ==
  ASSUME NEW S, NEW w \in Seq(S), NEW s, NEW at, NEW i, i = at[1]
  PROVE  Row(s, w, at) =
           [route |-> i, method |-> facts.routes[i].methods[at[2]], orphaned |-> FALSE,
            path |-> PathAlong(s, w) \o facts.routes[i].path,
            auth |-> Or(facts.routes[i].auth, AuthAlong(w)),
            group |-> Or(facts.routes[i].group, GroupAlong(s, w))]
<1>1. PICK a, g : /\ a = [k \in DOMAIN w |-> w[k].mount.auth]
                  /\ g = <<OwnGroup(s)>> \o FlattenSeq(GroupsAlong(w))
  OBVIOUS
<1>2. PICK p, m : p = facts.routes[i].auth /\ m = facts.routes[i].group
  OBVIOUS
<1>3. LastSaid(Append(a, p), None) = Or(p, AuthAlong(w))
  <2>1. PICK T : a \in Seq(T)
    BY <1>1, WhatIsSaid
  <2>2. LastSaid(Append(a, p), None) = IF p # None THEN p ELSE LastSaid(a, None)
    BY ONLY <2>1, LastSaidAppend
  <2> QED
    BY <1>1, <2>2 DEF Or, AuthAlong
<1>4. LastSaid(g \o <<m>>, None) = Or(m, GroupAlong(s, w))
  <2>1. PICK T : g \in Seq(T)
    BY <1>1, WhatIsSaid
  <2>2. LastSaid(Append(g, m), None) = IF m # None THEN m ELSE LastSaid(g, None)
    BY ONLY <2>1, LastSaidAppend
  <2>3. g \o <<m>> = Append(g, m)
    <3>1. g \in Seq(T \union {m}) /\ m \in T \union {m}
      BY <2>1, SeqMonotonic
    <3> QED
      BY <3>1, AppendIsConcat
  <2> QED
    BY <1>1, <2>2, <2>3 DEF Or, GroupAlong
<1>5. Row(s, w, at) =
           [route |-> i, method |-> facts.routes[i].methods[at[2]], orphaned |-> FALSE,
            path |-> PathAlong(s, w) \o facts.routes[i].path,
            auth |-> LastSaid(Append(a, p), None),
            group |-> LastSaid(g \o <<m>>, None)]
  <2>1. Row(s, w, at) =
           [route |-> at[1], method |-> facts.routes[at[1]].methods[at[2]], orphaned |-> FALSE,
            path |-> PathAlong(s, w) \o facts.routes[at[1]].path,
            auth |-> LastSaid(Append([k \in DOMAIN w |-> w[k].mount.auth], facts.routes[at[1]].auth), None),
            group |-> LastSaid(<<OwnGroup(s)>> \o FlattenSeq(GroupsAlong(w))
                                 \o <<facts.routes[at[1]].group>>, None)]
    BY Zenon DEF Row, PathAlong, Passed, Adds, GroupsAlong, Groups
  <2> QED
    BY <1>1, <1>2, <2>1
<1> QED
  BY <1>2, <1>3, <1>4, <1>5

\* A row is of the route and the method at `at`.
IsOf(row, at) == row.route = at[1] /\ row.method = facts.routes[at[1]].methods[at[2]]

\* What is listed of a router that is entered at the end of a way.
LEMMA ListedIsGiven ==
  ASSUME facts \in Found, GraphBuilt, NEW t \in Symbol, NEW entrance, NEW s, NEW S, NEW w \in Seq(S),
         IsGiven(Entered(t, entrance), s, w),
         NEW at, at = InOrder(LetThrough(t, Narrowed(w))), NEW rows, rows = ListedAt(t, entrance)
  PROVE  /\ Lists(at, LetThrough(t, Narrowed(w))) /\ DOMAIN rows = 1..Len(at)
         /\ \A k \in 1..Len(at) :
              /\ IsOf(rows[k], at[k]) /\ rows[k].orphaned = sweeping
              /\ ~sweeping /\ sweeping \in BOOLEAN => rows[k] = Row(s, w, at[k])
<1> DEFINE f == Entered(t, entrance)
<1>1. /\ f.base = BaseOf(t, entrance) /\ f.methods = entrance.methods
      /\ f.auth = entrance.auth /\ f.group = GroupOf(t, entrance)
  BY DEF Entered
<1>2. /\ BaseOf(t, entrance) = PathAlong(s, w) /\ entrance.methods = Narrowed(w)
      /\ entrance.auth = AuthAlong(w) /\ GroupOf(t, entrance) = GroupAlong(s, w)
  BY <1>1 DEF IsGiven
<1>3. Lists(at, LetThrough(t, Narrowed(w)))
  BY LetThroughType, PairsInTurn
<1>4. DOMAIN at = 1..Len(at)
  BY <1>3 DEF Lists
<1>5. rows = [k \in DOMAIN at |->
                [route |-> at[k][1], method |-> facts.routes[at[k][1]].methods[at[k][2]],
                 path |-> PathAlong(s, w) \o facts.routes[at[k][1]].path,
                 auth |-> Or(facts.routes[at[k][1]].auth, AuthAlong(w)),
                 group |-> Or(facts.routes[at[k][1]].group, GroupAlong(s, w)), orphaned |-> sweeping]]
  BY <1>2, Zenon DEF ListedAt, Listing
<1>6. ASSUME NEW k \in 1..Len(at)
      PROVE  /\ IsOf(rows[k], at[k]) /\ rows[k].orphaned = sweeping
             /\ ~sweeping /\ sweeping \in BOOLEAN => rows[k] = Row(s, w, at[k])
  <2>1. PICK i, a : a = at[k] /\ i = a[1]
    OBVIOUS
  <2>2. rows[k] = [route |-> i, method |-> facts.routes[i].methods[a[2]],
                   path |-> PathAlong(s, w) \o facts.routes[i].path,
                   auth |-> Or(facts.routes[i].auth, AuthAlong(w)),
                   group |-> Or(facts.routes[i].group, GroupAlong(s, w)), orphaned |-> sweeping]
    BY <1>4, <1>5, <2>1
  <2>3. Row(s, w, a) =
           [route |-> i, method |-> facts.routes[i].methods[a[2]], orphaned |-> FALSE,
            path |-> PathAlong(s, w) \o facts.routes[i].path,
            auth |-> Or(facts.routes[i].auth, AuthAlong(w)),
            group |-> Or(facts.routes[i].group, GroupAlong(s, w))]
    BY <2>1, RowIs
  <2>4. IsOf(rows[k], a) /\ rows[k].orphaned = sweeping
    BY <2>1, <2>2 DEF IsOf
  <2>5. ASSUME ~sweeping, sweeping \in BOOLEAN PROVE rows[k] = Row(s, w, a)
    <3>1. sweeping = FALSE
      BY <2>5
    <3> QED
      BY <2>2, <2>3, <3>1
  <2> QED
    BY <2>1, <2>4, <2>5
<1> QED
  BY <1>3, <1>4, <1>5, <1>6

(***************************************************************************)
(* The ways there are.                                                     *)
(***************************************************************************)
\* The routers on a way, the first at 0.
Place(s, w, k) == IF k = 0 THEN s ELSE w[k].child

IsWay(s, w) ==
  /\ w \in Seq(Edges) /\ Len(w) <= MaxDepth - 1
  /\ \A k \in 1..Len(w) : w[k].parent = Place(s, w, k - 1)
  /\ \A j, k \in 0..Len(w) : Place(s, w, j) = Place(s, w, k) => j = k

\* As many routers as there are places, when no router is there twice.
LEMMA PlacesDiffer ==
  ASSUME NEW s, NEW w, NEW n \in Nat, DOMAIN w = 1..n
  PROVE  Cardinality({s} \union {w[k].child : k \in DOMAIN w}) = n + 1
           <=> \A j, k \in 0..n : Place(s, w, j) = Place(s, w, k) => j = k
<1> DEFINE S == 0..n
           T == {s} \union {w[k].child : k \in DOMAIN w}
           f == [k \in S |-> Place(s, w, k)]
<1>1. IsFiniteSet(S) /\ Cardinality(S) = n + 1
  <2>1. 0 \in Int /\ n \in Int /\ ~(0 > n) /\ n - 0 + 1 = n + 1
    OBVIOUS
  <2> QED
    BY <2>1, FS_Interval, Zenon
<1>2. T = {f[k] : k \in S}
  <2>1. \A k \in S : f[k] \in T
    BY DEF Place
  <2>2. s = f[0] /\ 0 \in S
    BY DEF Place
  <2>3. \A k \in 1..n : w[k].child = f[k] /\ k \in S
    BY DEF Place
  <2>4. T \subseteq {f[k] : k \in S}
    <3> HIDE DEF f, S
    <3> QED
      BY <2>2, <2>3
  <2>5. {f[k] : k \in S} \subseteq T
    <3> HIDE DEF f, S, T
    <3> QED
      BY <2>1
  <2> HIDE DEF f, S, T
  <2> QED
    BY <2>4, <2>5
<1>3. f \in Surjection(S, T)
  <2>1. f \in [S -> T]
    BY <1>2
  <2>2. \A t \in T : \E k \in S : f[k] = t
    BY <1>2
  <2> HIDE DEF S, T, f
  <2> QED
    BY <2>1, <2>2 DEF Surjection
<1>4. Cardinality(T) = Cardinality(S) <=> f \in Injection(S, T)
  <2> HIDE DEF S, T, f
  <2> QED
    BY <1>1, <1>3, FS_Surjection
<1>5. f \in Injection(S, T) <=> \A j, k \in S : f[j] = f[k] => j = k
  <2>1. f \in [S -> T]
    BY <1>2
  <2> HIDE DEF S, T, f
  <2> QED
    BY <2>1 DEF Injection, IsInjective
<1>6. \A k \in S : f[k] = Place(s, w, k)
  OBVIOUS
<1> HIDE DEF f
<1> QED
  BY <1>1, <1>4, <1>5, <1>6

LEMMA WaysAre ==
  ASSUME NEW s, NEW w
  PROVE  w \in Ways(s) <=> IsWay(s, w)
<1> DEFINE Chain == \A k \in DOMAIN w : w[k].parent = IF k = 1 THEN s ELSE w[k - 1].child
           Many  == Cardinality({s} \union {w[k].child : k \in DOMAIN w}) = Len(w) + 1
<1>1. w \in Ways(s) <=> w \in SeqOf(Edges, MaxDepth - 1) /\ Chain /\ Many
  BY DEF Ways
<1>2. w \in SeqOf(Edges, MaxDepth - 1) <=> w \in Seq(Edges) /\ Len(w) <= MaxDepth - 1
  <2>1. MaxDepth - 1 \in Nat
    BY RegistrationAssumption
  <2>2. w \in SeqOf(Edges, MaxDepth - 1) <=> \E m \in 0..(MaxDepth - 1) : w \in [1..m -> Edges]
    BY DEF SeqOf
  <2>3. ASSUME NEW m \in 0..(MaxDepth - 1), w \in [1..m -> Edges]
        PROVE  w \in Seq(Edges) /\ Len(w) <= MaxDepth - 1
    <3>1. m \in Nat
      BY <2>1
    <3>2. w \in Seq(Edges) /\ Len(w) = m
      BY <2>3, <3>1, SeqDef, LenProperties
    <3> QED
      BY <2>1, <3>2
  <2>4. ASSUME w \in Seq(Edges), Len(w) <= MaxDepth - 1
        PROVE  Len(w) \in 0..(MaxDepth - 1) /\ w \in [1..Len(w) -> Edges]
    BY <2>1, <2>4, LenProperties
  <2> QED
    BY <2>2, <2>3, <2>4
<1>3. ASSUME w \in Seq(Edges)
      PROVE  /\ Chain <=> \A k \in 1..Len(w) : w[k].parent = Place(s, w, k - 1)
             /\ Many <=> \A j, k \in 0..Len(w) : Place(s, w, j) = Place(s, w, k) => j = k
  <2>1. PICK n : n = Len(w)
    OBVIOUS
  <2>2. n \in Nat /\ DOMAIN w = 1..n
    BY <1>3, <2>1, LenProperties
  <2>3. Chain <=> \A k \in 1..n : w[k].parent = Place(s, w, k - 1)
    <3>1. \A k \in 1..n : k - 1 = 0 <=> k = 1
      BY <2>2
    <3> QED
      BY <2>2, <3>1 DEF Place
  <2>4. Many <=> \A j, k \in 0..n : Place(s, w, j) = Place(s, w, k) => j = k
    <3>1. n \in Nat /\ DOMAIN w = 1..n
      BY <2>2
    <3>2. Cardinality({s} \union {w[k].child : k \in DOMAIN w}) = n + 1
            <=> \A j, k \in 0..n : Place(s, w, j) = Place(s, w, k) => j = k
      BY ONLY <3>1, PlacesDiffer
    <3> QED
      BY <2>1, <3>2
  <2> HIDE DEF Chain, Many
  <2> QED
    BY <2>1, <2>3, <2>4
<1> HIDE DEF Chain, Many
<1> QED
  BY <1>1, <1>2, <1>3 DEF IsWay

LEMMA WaysEnd ==
  ASSUME NEW s, NEW w \in Seq(Edges)
  PROVE  End(s, w) = Place(s, w, Len(w))
<1>1. w = <<>> <=> Len(w) = 0
  BY EmptySeq
<1>2. Last(w) = w[Len(w)]
  BY DEF Last
<1> QED
  BY <1>1, <1>2 DEF End, Place

(***************************************************************************)
(* What was crossed, and what is left to cross.                            *)
(***************************************************************************)
Taken(f)  == EdgeOf(f.symbol, graph.mounts[f.symbol][Len(graph.mounts[f.symbol]) - Len(f.left)])
LeftOf(f) == {EdgeOf(f.symbol, e) : e \in ToSet(f.left)}
Crosses(f) == Len(f.left) < Len(graph.mounts[f.symbol])

LEMMA TakenIsEdge ==
  ASSUME facts \in Found, GraphBuilt, NEW f, IsFrameOfRouter(f)
  PROVE  /\ LeftOf(f) \subseteq EdgesOf(f.symbol)
         /\ f.left = graph.mounts[f.symbol] => LeftOf(f) = EdgesOf(f.symbol)
         /\ Crosses(f) => /\ Taken(f) \in Edges /\ Taken(f).parent = f.symbol
                          /\ Taken(f) \notin LeftOf(f)
<1>1. PICK s, q, r : s = f.symbol /\ q = MountsOn(s) /\ r = f.left
  OBVIOUS
<1>2. s \in Symbol /\ graph.mounts[s] = q /\ IsRest(r, q)
  BY <1>1 DEF IsFrameOfRouter, GraphBuilt
<1>3. /\ q \in Seq(ToSet(q)) /\ r \in Seq(ToSet(q)) /\ Len(r) <= Len(q)
      /\ \A j \in 1..Len(r) : r[j] = q[Len(q) - Len(r) + j]
  BY <1>2 DEF IsRest
<1>4. PICK m, n : m = Len(q) /\ n = Len(r)
  OBVIOUS
<1>5. /\ m \in Nat /\ n \in Nat /\ n <= m /\ DOMAIN q = 1..m /\ DOMAIN r = 1..n
      /\ \A j \in 1..n : r[j] = q[m - n + j]
  BY <1>3, <1>4, LenProperties
<1>6. \A j \in 1..n : r[j] \in ToSet(q)
  <2>1. \A j \in 1..n : m - n + j \in 1..m
    BY <1>5
  <2> QED
    BY <1>5, <2>1 DEF ToSet
<1>7. LeftOf(f) = {EdgeOf(s, r[j]) : j \in 1..n}
  BY <1>1, <1>5 DEF LeftOf, ToSet
<1>8. EdgesOf(s) = {EdgeOf(s, e) : e \in ToSet(q)}
  BY <1>2 DEF EdgesOf
<1>9. LeftOf(f) \subseteq EdgesOf(s)
  BY <1>6, <1>7, <1>8
<1>10. f.left = graph.mounts[f.symbol] => LeftOf(f) = EdgesOf(f.symbol)
  BY <1>1, <1>2, <1>8 DEF LeftOf
<1>11. ASSUME Crosses(f)
       PROVE  Taken(f) \in Edges /\ Taken(f).parent = s /\ Taken(f) \notin LeftOf(f)
  <2>1. n < m
    BY <1>1, <1>2, <1>4, <1>11 DEF Crosses
  <2>2. PICK k : k = m - n
    OBVIOUS
  <2>3. k \in 1..m
    BY <1>5, <2>1, <2>2
  <2>4. Taken(f) = EdgeOf(s, q[k])
    BY <1>1, <1>2, <1>4, <2>2 DEF Taken
  <2>5. Taken(f) \in EdgesOf(s)
    BY <1>5, <1>8, <2>3, <2>4 DEF ToSet
  <2>6. ASSUME Taken(f) \in LeftOf(f) PROVE FALSE
    <3>1. PICK j \in 1..n : EdgeOf(s, r[j]) = EdgeOf(s, q[k])
      BY <1>7, <2>4, <2>6
    <3>2. PICK i : i = m - n + j
      OBVIOUS
    <3>3. i \in 1..m /\ r[j] = q[i] /\ i # k
      BY <1>5, <2>2, <3>2
    <3>4. EdgeOf(s, q[i]) = EdgeOf(s, q[k])
      BY <3>1, <3>3
    <3>5. i \in DOMAIN MountsOn(s) /\ k \in DOMAIN MountsOn(s)
      BY <1>1, <1>5, <2>3, <3>3
    <3>6. EdgeOf(s, MountsOn(s)[i]) = EdgeOf(s, MountsOn(s)[k])
      BY <1>1, <3>4
    <3>7. i = k
      BY <3>5, <3>6, EdgesDiffer
    <3> QED
      BY <3>3, <3>7
  <2> QED
    BY <1>2, <2>5, <2>6, EdgesAre
<1> QED
  BY <1>1, <1>9, <1>10, <1>11

\* The next edge is taken, and the others are still left.
LEMMA OneTaken ==
  ASSUME facts \in Found, GraphBuilt, NEW f, IsFrameOfRouter(f), f.left # <<>>,
         NEW g, g.symbol = f.symbol, g.left = Tail(f.left)
  PROVE  /\ Taken(g) = EdgeOf(f.symbol, Head(f.left)) /\ Crosses(g)
         /\ LeftOf(f) = LeftOf(g) \union {Taken(g)}
<1>1. PICK s, q, r : s = f.symbol /\ q = MountsOn(s) /\ r = f.left
  OBVIOUS
<1>2. s \in Symbol /\ graph.mounts[s] = q /\ IsRest(r, q)
  BY <1>1 DEF IsFrameOfRouter, GraphBuilt
<1>3. /\ Len(Tail(r)) = Len(r) - 1 /\ Len(r) \in Nat \ {0} /\ Len(q) \in Nat
      /\ Len(r) <= Len(q) /\ Head(r) = q[Len(q) - Len(r) + 1]
  BY <1>1, <1>2, RestOfRest
<1>4. PICK l, e, m : l = g.left /\ e = Head(r) /\ m = graph.mounts[g.symbol]
  OBVIOUS
<1>5. Taken(g) = EdgeOf(s, Head(r)) /\ Crosses(g)
  <2>1. l = Tail(r) /\ m = q /\ g.symbol = s
    BY <1>1, <1>2, <1>4
  <2>2. Len(m) - Len(l) = Len(q) - Len(r) + 1 /\ Len(l) < Len(m)
    BY <1>3, <2>1
  <2>3. m[Len(m) - Len(l)] = e
    BY <1>3, <1>4, <2>1, <2>2
  <2>4. Taken(g) = EdgeOf(g.symbol, m[Len(m) - Len(l)]) /\ (Crosses(g) <=> Len(l) < Len(m))
    BY <1>4 DEF Taken, Crosses
  <2> QED
    BY <1>4, <2>1, <2>2, <2>3, <2>4
<1>6. ToSet(r) = ToSet(Tail(r)) \union {Head(r)}
  <2>1. r \in Seq(ToSet(q))
    BY <1>2 DEF IsRest
  <2>2. PICK n, t : n = Len(r) /\ t = Tail(r)
    OBVIOUS
  <2>3. /\ n \in Nat \ {0} /\ DOMAIN r = 1..n /\ DOMAIN t = 1..(n - 1)
        /\ \A i \in 1..(n - 1) : t[i] = r[i + 1]
    <3>1. r # <<>>
      BY <1>1
    <3>2. /\ t \in Seq(ToSet(q)) /\ Len(t) = n - 1 /\ \A i \in 1..Len(t) : t[i] = r[i + 1]
      BY <2>1, <2>2, <3>1, HeadTailProperties
    <3> QED
      BY <1>3, <2>1, <2>2, <3>2, LenProperties
  <2>4. Head(r) = r[1]
    BY <2>1
  <2>5. \A i \in 1..n : i # 1 => /\ i - 1 \in 1..(n - 1)
                               /\ t[i - 1] = r[i]
    <3>1. SUFFICES ASSUME NEW i \in 1..n, i # 1 PROVE i - 1 \in 1..(n - 1) /\ t[i - 1] = r[i]
      OBVIOUS
    <3>2. PICK j : j = i - 1
      OBVIOUS
    <3>3. j \in 1..(n - 1) /\ j + 1 = i
      BY <2>3, <3>1, <3>2
    <3> QED
      BY <2>3, <3>2, <3>3
  <2>6. \A i \in 1..(n - 1) : i + 1 \in 1..n
    BY <2>3
  <2>7. ToSet(r) = {r[i] : i \in 1..n} /\ ToSet(t) = {t[i] : i \in 1..(n - 1)} /\ 1 \in 1..n
    BY <2>3 DEF ToSet
  <2>8. {r[i] : i \in 1..n} \subseteq {t[i] : i \in 1..(n - 1)} \union {r[1]}
    BY <2>5
  <2>9. {t[i] : i \in 1..(n - 1)} \subseteq {r[i] : i \in 1..n}
    BY <2>3, <2>6
  <2> QED
    BY <2>2, <2>4, <2>7, <2>8, <2>9
<1>7. LeftOf(f) = {EdgeOf(s, x) : x \in ToSet(r)} /\ LeftOf(g) = {EdgeOf(s, x) : x \in ToSet(Tail(r))}
  BY <1>1 DEF LeftOf
<1> QED
  BY <1>1, <1>5, <1>6, <1>7

\* The edges crossed to the frame at k.
WayTo(st, k) == [i \in 1..(k - 1) |-> Taken(st[i])]

\* A stack that follows a way.
IsTrail(st) ==
  /\ Len(st) \in Nat /\ Len(st) <= MaxDepth
  /\ \A j, k \in 1..Len(st) : st[j].symbol = st[k].symbol => j = k
  /\ \A k \in 1..Len(st) : IsFrameOfRouter(st[k])
  /\ \A k \in 1..Len(st) : k < Len(st) =>
       Crosses(st[k]) /\ st[k + 1].symbol = Taken(st[k]).child

\* The routers it has got to.
LEMMA TrailPlaces ==
  ASSUME NEW st, NEW n, n = Len(st), n # 0, IsTrail(st), NEW w, NEW m \in 0..(n - 1),
         \A k \in 1..m : w[k] = Taken(st[k])
  PROVE  Place(st[1].symbol, w, m) = st[m + 1].symbol
<1>1. n \in Nat
  BY DEF IsTrail
<1>2. CASE m = 0
  BY <1>2 DEF Place
<1>3. CASE m # 0
  <2>1. m \in 1..m /\ m \in 1..n /\ m < n
    BY <1>1, <1>3
  <2>2. w[m] = Taken(st[m]) /\ st[m + 1].symbol = Taken(st[m]).child
    BY <2>1 DEF IsTrail
  <2> QED
    BY <1>3, <2>2 DEF Place
<1> QED
  BY <1>2, <1>3

IsWayTo(w, st, n) == w = WayTo(st, n) /\ n = Len(st) /\ n # 0

LEMMA TrailIsWay ==
  ASSUME facts \in Found, GraphBuilt, NEW st, NEW n, NEW w, IsTrail(st), IsWayTo(w, st, n)
  PROVE  /\ w \in Ways(st[1].symbol) /\ w \in Seq(Edges) /\ Len(w) = n - 1
         /\ End(st[1].symbol, w) = st[n].symbol
         /\ \A k \in 1..(n - 1) : w[k] = Taken(st[k])
<1> USE DEF IsWayTo
<1>1. PICK m, s : m = n - 1 /\ s = st[1].symbol
  OBVIOUS
<1>2. n \in Nat /\ m \in Nat /\ n <= MaxDepth /\ MaxDepth \in Nat
  BY <1>1, RegistrationAssumption DEF IsTrail
<1>3. w = [i \in 1..m |-> Taken(st[i])]
  BY <1>1 DEF WayTo
<1>4. \A k \in 1..m : w[k] = Taken(st[k])
  BY <1>3
<1>5. \A k \in 1..m : Taken(st[k]) \in Edges /\ Taken(st[k]).parent = st[k].symbol
  <2>1. SUFFICES ASSUME NEW k \in 1..m PROVE Taken(st[k]) \in Edges /\ Taken(st[k]).parent = st[k].symbol
    OBVIOUS
  <2>2. k \in 1..n /\ k < n
    BY <1>1, <1>2
  <2>3. Crosses(st[k]) /\ IsFrameOfRouter(st[k])
    BY <2>2 DEF IsTrail
  <2> QED
    BY <2>3, TakenIsEdge
<1>6. w \in Seq(Edges) /\ Len(w) = m
  <2>1. w \in [1..m -> Edges]
    BY <1>3, <1>5
  <2> QED
    BY <1>2, <2>1, SeqDef, LenProperties
<1>7. \A k \in 0..m : Place(s, w, k) = st[k + 1].symbol
  <2>1. SUFFICES ASSUME NEW k \in 0..m PROVE Place(s, w, k) = st[k + 1].symbol
    OBVIOUS
  <2>2. k \in 0..(n - 1) /\ \A i \in 1..k : w[i] = Taken(st[i])
    BY <1>1, <1>2, <1>4
  <2> QED
    BY <1>1, <2>2, TrailPlaces
<1>8. \A k \in 1..m : w[k].parent = Place(s, w, k - 1)
  <2>1. SUFFICES ASSUME NEW k \in 1..m PROVE w[k].parent = Place(s, w, k - 1)
    OBVIOUS
  <2>2. PICK j : j = k - 1
    OBVIOUS
  <2>3. j \in 0..m /\ j + 1 = k
    BY <1>2, <2>2
  <2>4. Place(s, w, j) = st[k].symbol
    BY <1>7, <2>3
  <2> QED
    BY <1>4, <1>5, <2>2, <2>4
<1>9. \A j, k \in 0..m : Place(s, w, j) = Place(s, w, k) => j = k
  <2>1. SUFFICES ASSUME NEW j \in 0..m, NEW k \in 0..m, Place(s, w, j) = Place(s, w, k) PROVE j = k
    OBVIOUS
  <2>2. PICK a, b : a = j + 1 /\ b = k + 1
    OBVIOUS
  <2>3. a \in 1..n /\ b \in 1..n
    BY <1>1, <1>2, <2>2
  <2>4. st[a].symbol = st[b].symbol
    BY <1>7, <2>1, <2>2
  <2>5. a = b
    BY <2>3, <2>4 DEF IsTrail
  <2> QED
    BY <2>2, <2>5
<1>10. IsWay(s, w)
  BY <1>1, <1>2, <1>6, <1>8, <1>9 DEF IsWay
<1>11. End(s, w) = st[n].symbol
  <2>1. m \in 0..m /\ m + 1 = n
    BY <1>1, <1>2
  <2> QED
    BY <1>6, <1>7, <2>1, WaysEnd
<1> QED
  BY <1>1, <1>4, <1>6, <1>10, <1>11, WaysAre

(***************************************************************************)
(* The ways that are still to be walked.                                   *)
(***************************************************************************)
AheadAt(st, w, j) ==
  /\ j <= Len(w) /\ w[j] \in LeftOf(st[j])
  /\ \A i \in 1..(j - 1) : w[i] = Taken(st[i])

AheadOn(st, r, w) == st[1].symbol = r /\ \E j \in 1..Len(st) : AheadAt(st, w, j)

\* Where there is no walk, nothing is ahead of it.
LEMMA NothingAhead ==
  ASSUME NEW st, Len(st) = 0
  PROVE  \A r, w : ~AheadOn(st, r, w)
<1>1. PICK n : n = Len(st)
  OBVIOUS
<1>2. \A j : j \notin 1..n
  BY <1>1
<1> QED
  BY <1>1, <1>2, Zenon DEF AheadOn

\* Where the walk is, it has been.
LEMMA BeenHere ==
  ASSUME facts \in Found, GraphBuilt, NEW st, NEW n, NEW w, IsTrail(st), IsWayTo(w, st, n), NEW r
  PROVE  ~AheadOn(st, r, w)
<1>1. SUFFICES ASSUME NEW j \in 1..n, AheadAt(st, w, j) PROVE FALSE
  BY DEF AheadOn, IsWayTo
<1>2. n \in Nat /\ j \in Nat /\ n = Len(st)
  BY DEF IsTrail, IsWayTo
<1>3. Len(w) = n - 1 /\ \A k \in 1..(n - 1) : w[k] = Taken(st[k])
  BY TrailIsWay
<1>4. j \in 1..(n - 1) /\ j < n
  BY <1>1, <1>2, <1>3 DEF AheadAt
<1>5. Taken(st[j]) \in LeftOf(st[j])
  BY <1>1, <1>3, <1>4 DEF AheadAt
<1>6. IsFrameOfRouter(st[j]) /\ Crosses(st[j])
  BY <1>2, <1>4 DEF IsTrail
<1> QED
  BY <1>5, <1>6, TakenIsEdge

\* One edge is crossed.
IsCrossing(st, to, n) ==
  /\ n = Len(st) /\ n # 0 /\ st[n].left # <<>>
  /\ \A k \in 1..(n - 1) : to[k] = st[k]
  /\ to[n].symbol = st[n].symbol /\ to[n].left = Tail(st[n].left)

Follows(to, w, n) == n <= Len(w) /\ \A i \in 1..n : w[i] = Taken(to[i])

LEMMA CrossingAhead ==
  ASSUME facts \in Found, GraphBuilt, NEW st, NEW to, NEW n, IsTrail(st), IsCrossing(st, to, n),
         NEW w
  PROVE  /\ \A j \in 1..(n - 1) : AheadAt(st, w, j) <=> AheadAt(to, w, j)
         /\ AheadAt(st, w, n) <=> AheadAt(to, w, n) \/ Follows(to, w, n)
<1>1. n \in Nat \ {0} /\ n \in 1..n
  BY DEF IsTrail, IsCrossing
<1>2. \A k \in 1..(n - 1) : to[k] = st[k]
  BY DEF IsCrossing
<1>3. ASSUME NEW j \in 1..(n - 1) PROVE AheadAt(st, w, j) <=> AheadAt(to, w, j)
  <2>1. \A i \in 1..(j - 1) : i \in 1..(n - 1)
    BY <1>1
  <2>2. \A i \in 1..(j - 1) : to[i] = st[i]
    BY <1>2, <2>1
  <2>3. to[j] = st[j]
    BY <1>2
  <2> QED
    BY <2>2, <2>3 DEF AheadAt
<1>4. LeftOf(st[n]) = LeftOf(to[n]) \union {Taken(to[n])}
  <2>1. IsFrameOfRouter(st[n]) /\ st[n].left # <<>>
    BY <1>1 DEF IsTrail, IsCrossing
  <2>2. to[n].symbol = st[n].symbol /\ to[n].left = Tail(st[n].left)
    BY DEF IsCrossing
  <2>3. PICK f, g : f = st[n] /\ g = to[n]
    OBVIOUS
  <2>4. IsFrameOfRouter(f) /\ f.left # <<>> /\ g.symbol = f.symbol /\ g.left = Tail(f.left)
    BY <2>1, <2>2, <2>3
  <2>5. LeftOf(f) = LeftOf(g) \union {Taken(g)}
    BY <2>4, OneTaken
  <2> QED
    BY <2>3, <2>5
<1>5. Follows(to, w, n) <=> n <= Len(w) /\ w[n] = Taken(to[n]) /\ \A i \in 1..(n - 1) : w[i] = Taken(st[i])
  <2>1. \A i : i \in 1..n <=> i \in 1..(n - 1) \/ i = n
    BY <1>1
  <2> QED
    BY <1>2, <2>1 DEF Follows
<1>6. AheadAt(to, w, n) <=> n <= Len(w) /\ w[n] \in LeftOf(to[n]) /\ \A i \in 1..(n - 1) : w[i] = Taken(st[i])
  BY <1>2 DEF AheadAt
<1>7. AheadAt(st, w, n) <=> n <= Len(w) /\ w[n] \in LeftOf(st[n]) /\ \A i \in 1..(n - 1) : w[i] = Taken(st[i])
  BY DEF AheadAt
<1> QED
  BY <1>3, <1>4, <1>5, <1>6, <1>7

LEMMA CrossingStarts ==
  ASSUME NEW st, NEW to, NEW n, IsTrail(st), IsCrossing(st, to, n)
  PROVE  /\ n \in Nat \ {0} /\ n <= MaxDepth /\ MaxDepth \in Nat /\ to[1].symbol = st[1].symbol
         /\ \A k \in 1..n : to[k].symbol = st[k].symbol
<1>1. n \in Nat \ {0} /\ n <= MaxDepth /\ MaxDepth \in Nat
  BY RegistrationAssumption DEF IsTrail, IsCrossing
<1>2. \A k \in 1..n : to[k].symbol = st[k].symbol
  <2>1. SUFFICES ASSUME NEW k \in 1..n PROVE to[k].symbol = st[k].symbol
    OBVIOUS
  <2>2. k = n \/ k \in 1..(n - 1)
    BY <1>1
  <2> QED
    BY <2>2 DEF IsCrossing
<1>3. 1 \in 1..n
  BY <1>1
<1> QED
  BY <1>1, <1>2, <1>3

\* What is ahead on a stack: on the frames below the one at n, and there.
LEMMA AheadBelow ==
  ASSUME NEW st, NEW n \in Nat \ {0}, n = Len(st), NEW w, NEW r
  PROVE  AheadOn(st, r, w) <=> /\ st[1].symbol = r
                               /\ \/ \E j \in 1..(n - 1) : AheadAt(st, w, j)
                                  \/ AheadAt(st, w, n)
<1>1. \A j : j \in 1..n <=> j \in 1..(n - 1) \/ j = n
  OBVIOUS
<1> QED
  BY <1>1 DEF AheadOn

\* Where a way follows the crossed edges, it comes by the routers of the stack.
LEMMA FollowsPlaces ==
  ASSUME NEW st, NEW to, NEW n, IsTrail(st), IsCrossing(st, to, n), NEW w, Follows(to, w, n)
  PROVE  \A k \in 0..(n - 1) : Place(st[1].symbol, w, k) = st[k + 1].symbol
<1>1. n \in Nat \ {0}
  BY CrossingStarts
<1> SUFFICES ASSUME NEW k \in 0..(n - 1) PROVE Place(st[1].symbol, w, k) = st[k + 1].symbol
  OBVIOUS
<1>2. \A i \in 1..k : i \in 1..n /\ i \in 1..(n - 1)
  BY <1>1
<1>3. \A i \in 1..k : w[i] = Taken(st[i])
  <2>1. \A i \in 1..k : to[i] = st[i] /\ w[i] = Taken(to[i])
    BY <1>2 DEF IsCrossing, Follows
  <2> QED
    BY <2>1
<1>4. n = Len(st) /\ n # 0
  BY DEF IsCrossing
<1> QED
  BY <1>3, <1>4, TrailPlaces

\* A walk that goes on, over the next edge, has one way less ahead.
LEMMA PushedAhead ==
  ASSUME facts \in Found, GraphBuilt, NEW st, NEW to, NEW n, IsTrail(st), IsCrossing(st, to, n),
         Len(to) = Len(st) + 1, NEW m, IsTrail(to), NEW c, IsWayTo(c, to, m),
         to[m].left = graph.mounts[to[m].symbol], NEW r, NEW w \in Ways(r)
  PROVE  AheadOn(st, r, w) <=> AheadOn(to, r, w) \/ (r = st[1].symbol /\ w = c)
<1>1. n \in Nat \ {0} /\ m \in Nat \ {0} /\ m - 1 = n /\ m = Len(to) /\ n = Len(st) /\ to[1].symbol = st[1].symbol
  <2>1. n \in Nat \ {0} /\ to[1].symbol = st[1].symbol
    BY CrossingStarts
  <2>2. n = Len(st) /\ m = Len(to)
    BY DEF IsWayTo, IsCrossing
  <2>3. m = n + 1
    BY <2>2
  <2> QED
    BY <2>1, <2>2, <2>3
<1>2. AheadOn(st, r, w) <=> /\ st[1].symbol = r
                            /\ \/ \E j \in 1..(n - 1) : AheadAt(st, w, j)
                               \/ AheadAt(st, w, n)
  BY <1>1, AheadBelow
<1>3. AheadOn(to, r, w) <=> /\ to[1].symbol = r
                            /\ \/ \E j \in 1..n : AheadAt(to, w, j)
                               \/ AheadAt(to, w, m)
  BY <1>1, AheadBelow
<1>4. /\ \A j \in 1..(n - 1) : AheadAt(st, w, j) <=> AheadAt(to, w, j)
      /\ AheadAt(st, w, n) <=> AheadAt(to, w, n) \/ Follows(to, w, n)
  BY CrossingAhead
<1>5. \A j : j \in 1..n <=> j \in 1..(n - 1) \/ j = n
  BY <1>1
<1>6. IsWay(r, w)
  BY WaysAre
<1>7. PICK l : l = Len(w)
  OBVIOUS
<1>8. l \in Nat /\ w \in Seq(Edges) /\ w = [k \in 1..l |-> w[k]]
  BY <1>6, <1>7, LenProperties DEF IsWay
<1>9. Len(c) = n /\ c = [k \in 1..n |-> Taken(to[k])]
  BY <1>1, TrailIsWay DEF IsWayTo, WayTo
<1>10. ASSUME w = c PROVE Follows(to, w, n)
  BY <1>1, <1>9, <1>10 DEF Follows
<1>11. ASSUME AheadAt(to, w, m) PROVE Follows(to, w, n)
  <2>1. m <= l /\ \A i \in 1..(m - 1) : w[i] = Taken(to[i])
    BY <1>7, <1>11 DEF AheadAt
  <2>2. n <= l /\ \A i \in 1..n : w[i] = Taken(to[i])
    <3>1. n <= l
      BY <1>1, <1>8, <2>1
    <3>2. m - 1 = n
      BY <1>1
    <3> QED
      BY ONLY <2>1, <3>1, <3>2, Zenon
  <2> QED
    BY <1>7, <2>2 DEF Follows
<1>12. ASSUME Follows(to, w, n), r = st[1].symbol, l = n PROVE w = c
  <2>1. \A k \in 1..n : w[k] = Taken(to[k])
    BY <1>12 DEF Follows
  <2>2. [k \in 1..n |-> w[k]] = [k \in 1..n |-> Taken(to[k])]
    BY <2>1
  <2> QED
    BY <1>8, <1>9, <1>12, <2>2
<1>13. ASSUME Follows(to, w, n), l # n PROVE AheadAt(to, w, m)
  <2>1. m \in 1..l /\ n \in 1..l /\ m <= l
    BY <1>1, <1>7, <1>8, <1>13 DEF Follows
  <2>2. w[m] \in Edges /\ w[m].parent = Place(r, w, n)
    <3>1. w[m] \in Edges
      BY <1>7, <1>8, <2>1, LenProperties
    <3>2. w[m].parent = Place(r, w, m - 1)
      BY <1>6, <1>7, <2>1 DEF IsWay
    <3> QED
      BY <1>1, <3>1, <3>2
  <2>3. Place(r, w, n) = w[n].child
    BY <1>1 DEF Place
  <2>4. w[n] = Taken(to[n])
    BY <1>1, <1>13 DEF Follows
  <2>5. to[m].symbol = Taken(to[n]).child
    BY <1>1 DEF IsTrail
  <2>6. w[m].parent = to[m].symbol
    BY <2>2, <2>3, <2>4, <2>5
  <2>7. IsFrameOfRouter(to[m])
    BY <1>1 DEF IsTrail
  <2>8. LeftOf(to[m]) = EdgesOf(to[m].symbol) /\ to[m].symbol \in Symbol
    BY <2>7, TakenIsEdge DEF IsFrameOfRouter
  <2>9. w[m] \in LeftOf(to[m])
    BY <2>2, <2>6, <2>8, EdgesAre
  <2>10. \A i \in 1..n : w[i] = Taken(to[i])
    BY <1>13 DEF Follows
  <2> QED
    BY <1>1, <1>7, <2>1, <2>9, <2>10 DEF AheadAt
<1> QED
  BY <1>1, <1>2, <1>3, <1>4, <1>5, <1>10, <1>11, <1>12, <1>13

\* A walk that is stopped at the next edge misses no way.
LEMMA StoppedAhead ==
  ASSUME facts \in Found, GraphBuilt, NEW st, NEW to, NEW n, IsTrail(st), IsCrossing(st, to, n), n = Len(to),
         \/ n >= MaxDepth
         \/ \E k \in 1..n : to[k].symbol = Taken(to[n]).child,
         NEW r, NEW w \in Ways(r)
  PROVE  AheadOn(st, r, w) <=> AheadOn(to, r, w)
<1>1. /\ n \in Nat \ {0} /\ n = Len(to) /\ n = Len(st) /\ to[1].symbol = st[1].symbol
      /\ n <= MaxDepth /\ MaxDepth \in Nat /\ \A k \in 1..n : to[k].symbol = st[k].symbol
  <2>1. /\ n \in Nat \ {0} /\ n <= MaxDepth /\ MaxDepth \in Nat /\ to[1].symbol = st[1].symbol
        /\ \A k \in 1..n : to[k].symbol = st[k].symbol
    BY CrossingStarts
  <2>2. n = Len(st)
    BY DEF IsCrossing
  <2> QED
    BY <2>1, <2>2
<1>2. AheadOn(st, r, w) <=> /\ st[1].symbol = r
                            /\ \/ \E j \in 1..(n - 1) : AheadAt(st, w, j)
                               \/ AheadAt(st, w, n)
  BY <1>1, AheadBelow
<1>3. AheadOn(to, r, w) <=> /\ to[1].symbol = r
                            /\ \/ \E j \in 1..(n - 1) : AheadAt(to, w, j)
                               \/ AheadAt(to, w, n)
  BY <1>1, AheadBelow
<1>4. /\ \A j \in 1..(n - 1) : AheadAt(st, w, j) <=> AheadAt(to, w, j)
      /\ AheadAt(st, w, n) <=> AheadAt(to, w, n) \/ Follows(to, w, n)
  BY CrossingAhead
<1>5. IsWay(r, w)
  BY WaysAre
<1>6. Len(w) \in Nat /\ Len(w) <= MaxDepth - 1
  BY <1>5, LenProperties DEF IsWay
<1>7. ASSUME Follows(to, w, n), st[1].symbol = r PROVE FALSE
  <2>1. n <= Len(w) /\ w[n] = Taken(to[n])
    BY <1>1, <1>7 DEF Follows
  <2>2. PICK k \in 1..n : st[k].symbol = Taken(to[n]).child
    BY <1>1, <1>6, <2>1
  <2>3. PICK j : j = k - 1
    OBVIOUS
  <2>4. j \in 0..(n - 1) /\ j + 1 = k /\ j \in 0..Len(w) /\ n \in 0..Len(w) /\ j # n
    BY <1>1, <1>6, <2>1, <2>3
  <2>5. Place(r, w, j) = st[k].symbol
    BY <1>7, <2>4, FollowsPlaces
  <2>6. Place(r, w, n) = w[n].child
    BY <1>1 DEF Place
  <2>7. Place(r, w, j) = Place(r, w, n)
    BY <2>1, <2>2, <2>5, <2>6
  <2> QED
    BY <1>5, <2>4, <2>7 DEF IsWay
<1> QED
  BY <1>1, <1>2, <1>3, <1>4, <1>7

\* A walk that turns back has nothing ahead where it turned.
LEMMA BackAhead ==
  ASSUME NEW st, NEW to, NEW n \in Nat \ {0}, n = Len(st), st[n].left = <<>>,
         Len(to) = n - 1, \A k \in 1..(n - 1) : to[k] = st[k], NEW r, NEW w
  PROVE  AheadOn(st, r, w) <=> AheadOn(to, r, w)
<1>1. AheadOn(st, r, w) <=> /\ st[1].symbol = r
                            /\ \/ \E j \in 1..(n - 1) : AheadAt(st, w, j)
                               \/ AheadAt(st, w, n)
  BY AheadBelow
<1>2. ~AheadAt(st, w, n)
  <2>1. LeftOf(st[n]) = {}
    <3>1. ToSet(<<>>) = {}
      BY DEF ToSet
    <3> QED
      BY <3>1 DEF LeftOf
  <2> QED
    BY <2>1 DEF AheadAt
<1>3. ASSUME NEW j \in 1..(n - 1) PROVE /\ AheadAt(st, w, j) <=> AheadAt(to, w, j)
                                        /\ to[1] = st[1]
  <2>1. \A i \in 1..(j - 1) : i \in 1..(n - 1)
    OBVIOUS
  <2>2. 1 \in 1..(n - 1)
    OBVIOUS
  <2>3. to[1] = st[1] /\ to[j] = st[j]
    BY <2>2
  <2>4. \A i \in 1..(j - 1) : to[i] = st[i]
    BY <2>1
  <2> QED
    BY <2>3, <2>4 DEF AheadAt
<1>4. AheadOn(to, r, w) <=> to[1].symbol = r /\ \E j \in 1..(n - 1) : AheadAt(to, w, j)
  BY DEF AheadOn
<1> QED
  BY <1>1, <1>2, <1>3, <1>4

\* A walk that starts is where it starts.
LEMMA StartAhead ==
  ASSUME facts \in Found, GraphBuilt, NEW st, IsTrail(st), Len(st) = 1,
         st[1].left = graph.mounts[st[1].symbol], NEW r, NEW w \in Ways(r)
  PROVE  AheadOn(st, r, w) <=> st[1].symbol = r /\ w # <<>>
<1>1. IsWay(r, w)
  BY WaysAre
<1>2. w \in Seq(Edges) /\ Len(w) \in Nat /\ (w = <<>> <=> Len(w) = 0)
  BY <1>1, LenProperties, EmptySeq DEF IsWay
<1>3. AheadOn(st, r, w) <=> st[1].symbol = r /\ AheadAt(st, w, 1)
  <2>1. \A j \in 1..1 : j = 1
    OBVIOUS
  <2>2. 1 \in 1..1
    OBVIOUS
  <2> QED
    BY <2>1, <2>2 DEF AheadOn
<1>4. AheadAt(st, w, 1) <=> 1 <= Len(w) /\ w[1] \in LeftOf(st[1])
  BY DEF AheadAt
<1>5. ASSUME 1 <= Len(w), st[1].symbol = r PROVE w[1] \in LeftOf(st[1])
  <2>1. 1 \in 1..Len(w)
    BY <1>2, <1>5
  <2>2. w[1] \in Edges /\ w[1].parent = r
    <3>1. w[1] \in Edges
      BY <1>2, <2>1, LenProperties
    <3>2. w[1].parent = Place(r, w, 0)
      BY <1>1, <2>1 DEF IsWay
    <3> QED
      BY <3>1, <3>2 DEF Place
  <2>3. 1 \in 1..Len(st)
    OBVIOUS
  <2>4. IsFrameOfRouter(st[1])
    BY <2>3 DEF IsTrail
  <2>5. LeftOf(st[1]) = EdgesOf(r) /\ r \in Symbol
    BY <1>5, <2>4, TakenIsEdge DEF IsFrameOfRouter
  <2> QED
    BY <2>2, <2>5, EdgesAre
<1> QED
  BY <1>2, <1>3, <1>4, <1>5

\* A stack that follows a way, each frame with what the way gives it.
Gives(st)   == \A k \in 1..Len(st) : IsGiven(st[k], st[1].symbol, WayTo(st, k))
OnTrail(st) == IsTrail(st) /\ Gives(st)

LEMMA SameWayTo ==
  ASSUME NEW st, NEW to, NEW k, \A i \in 1..(k - 1) : Taken(st[i]) = Taken(to[i])
  PROVE  WayTo(st, k) = WayTo(to, k)
BY DEF WayTo

LEMMA NoTrail ==
  ASSUME NEW st, Len(st) = 0
  PROVE  OnTrail(st)
BY RegistrationAssumption DEF OnTrail, IsTrail, Gives

\* The walk starts.
LEMMA StartTrail ==
  ASSUME facts \in Found, GraphBuilt, NEW r \in Symbol, NEW st, Len(st) = 1, st[1] = Entered(r, AtRoot)
  PROVE  /\ OnTrail(st) /\ st[1].symbol = r /\ st[1].left = graph.mounts[st[1].symbol]
         /\ IsWayTo(<<>>, st, 1)
<1>1. PICK f : f = Entered(r, AtRoot)
  OBVIOUS
<1>2. AtRoot.prefix \in Seq(Nat)
  BY DEF AtRoot, Entrance
<1>3. IsFrameOfRouter(f) /\ f.symbol = r /\ f.left = graph.mounts[r]
  BY <1>1, <1>2, EnteredType
<1>4. IsGiven(f, r, <<>>)
  BY <1>1, GivenAtRoot
<1>5. \A k \in 1..1 : k = 1
  OBVIOUS
<1>6. IsTrail(st)
  BY <1>1, <1>3, <1>5, RegistrationAssumption DEF IsTrail
<1>7. WayTo(st, 1) = <<>>
  BY DEF WayTo
<1>8. Gives(st)
  BY <1>1, <1>3, <1>4, <1>5, <1>7 DEF Gives
<1> QED
  BY <1>1, <1>3, <1>6, <1>7, <1>8 DEF OnTrail, IsWayTo

\* The walk turns back.
LEMMA BackTrail ==
  ASSUME NEW st, NEW to, NEW n \in Nat \ {0}, n = Len(st), OnTrail(st), Len(to) = n - 1,
         \A k \in 1..(n - 1) : to[k] = st[k]
  PROVE  OnTrail(to)
<1>1. IsTrail(st) /\ Gives(st)
  BY DEF OnTrail
<1>2. \A k \in 1..(n - 1) : k \in 1..n /\ k < n
  OBVIOUS
<1>3. IsTrail(to)
  <2>1. /\ Len(to) \in Nat /\ Len(to) <= MaxDepth
    BY <1>1, RegistrationAssumption DEF IsTrail
  <2>2. /\ \A j, k \in 1..Len(to) : to[j].symbol = to[k].symbol => j = k
        /\ \A k \in 1..Len(to) : IsFrameOfRouter(to[k])
    BY <1>1, <1>2 DEF IsTrail
  <2>3. ASSUME NEW k \in 1..Len(to), k < Len(to)
        PROVE  Crosses(to[k]) /\ to[k + 1].symbol = Taken(to[k]).child
    <3>1. k \in 1..(n - 1) /\ k + 1 \in 1..(n - 1)
      BY <2>3
    <3>2. Crosses(st[k]) /\ st[k + 1].symbol = Taken(st[k]).child
      BY <1>1, <1>2, <3>1 DEF IsTrail
    <3> QED
      BY <3>1, <3>2
  <2> QED
    BY <2>1, <2>2, <2>3 DEF IsTrail
<1>4. Gives(to)
  <2>1. SUFFICES ASSUME NEW k \in 1..(n - 1) PROVE IsGiven(to[k], to[1].symbol, WayTo(to, k))
    BY DEF Gives
  <2>2. \A i \in 1..(k - 1) : i \in 1..(n - 1)
    OBVIOUS
  <2>3. \A i \in 1..(k - 1) : Taken(to[i]) = Taken(st[i])
    BY <2>2
  <2>4. WayTo(to, k) = WayTo(st, k)
    BY <2>3, SameWayTo
  <2>5. 1 \in 1..(n - 1) /\ k \in 1..n
    OBVIOUS
  <2>6. IsGiven(st[k], st[1].symbol, WayTo(st, k))
    BY <1>1, <2>5 DEF Gives
  <2> QED
    BY <2>4, <2>5, <2>6
<1> QED
  BY <1>3, <1>4 DEF OnTrail

\* An edge is crossed.
Alter(f, g) == f.base = g.base /\ f.methods = g.methods /\ f.auth = g.auth /\ f.group = g.group

LEMMA CrossedTrail ==
  ASSUME facts \in Found, GraphBuilt, NEW st, NEW to, NEW n, OnTrail(st), IsCrossing(st, to, n),
         Len(to) = n, Alter(to[n], st[n]), IsFrameOfRouter(to[n])
  PROVE  OnTrail(to)
<1>1. IsTrail(st) /\ Gives(st)
  BY DEF OnTrail
<1>2. /\ n \in Nat \ {0} /\ n <= MaxDepth /\ MaxDepth \in Nat /\ to[1].symbol = st[1].symbol
      /\ \A k \in 1..n : to[k].symbol = st[k].symbol
  BY <1>1, CrossingStarts
<1>3. n = Len(st) /\ \A k \in 1..(n - 1) : to[k] = st[k]
  BY DEF IsCrossing
<1>4. \A k \in 1..n : k = n \/ (k \in 1..(n - 1) /\ k < n)
  BY <1>2
<1>5. IsTrail(to)
  <2>1. \A k \in 1..n : IsFrameOfRouter(to[k])
    BY <1>1, <1>3, <1>4 DEF IsTrail
  <2>2. \A j, k \in 1..n : to[j].symbol = to[k].symbol => j = k
    BY <1>1, <1>2, <1>3 DEF IsTrail
  <2>3. ASSUME NEW k \in 1..n, k < n PROVE Crosses(to[k]) /\ to[k + 1].symbol = Taken(to[k]).child
    <3>1. k \in 1..(n - 1) /\ k + 1 \in 1..n
      BY <1>2, <2>3
    <3>2. Crosses(st[k]) /\ st[k + 1].symbol = Taken(st[k]).child
      BY <1>1, <1>3, <2>3 DEF IsTrail
    <3> QED
      BY <1>2, <1>3, <3>1, <3>2
  <2> QED
    BY <1>2, <2>1, <2>2, <2>3 DEF IsTrail
<1>6. ASSUME NEW k \in 1..n PROVE IsGiven(to[k], to[1].symbol, WayTo(to, k))
  <2>1. \A i \in 1..(k - 1) : i \in 1..(n - 1)
    BY <1>2
  <2>2. \A i \in 1..(k - 1) : Taken(to[i]) = Taken(st[i])
    BY <1>3, <2>1
  <2>3. WayTo(to, k) = WayTo(st, k)
    BY <2>2, SameWayTo
  <2>4. IsGiven(st[k], st[1].symbol, WayTo(st, k))
    BY <1>1, <1>3 DEF Gives
  <2>5. Alter(to[k], st[k])
    BY <1>3, <1>4 DEF Alter
  <2> QED
    BY <1>2, <2>3, <2>4, <2>5 DEF IsGiven, Alter
<1> QED
  BY <1>5, <1>6 DEF OnTrail, Gives

\* The router behind it is entered.
IsPushed(up, to, n, frame) ==
  Len(up) = n + 1 /\ up[n + 1] = frame /\ \A k \in 1..n : up[k] = to[k]

LEMMA PushedTrail ==
  ASSUME facts \in Found, GraphBuilt, NEW to, NEW n, n = Len(to), n # 0, n < MaxDepth, OnTrail(to),
         Crosses(to[n]), NEW edge, Taken(to[n]) = EdgeOf(to[n].symbol, edge),
         \A k \in 1..n : to[k].symbol # edge.child,
         NEW frame, frame = Entered(edge.child, Through(to[n], edge)), IsFrameOfRouter(frame),
         NEW up, IsPushed(up, to, n, frame)
  PROVE  OnTrail(up)
<1>1. IsTrail(to) /\ Gives(to)
  BY DEF OnTrail
<1>2. PICK m : m = n + 1
  OBVIOUS
<1>3. /\ n \in Nat \ {0} /\ m \in Nat /\ m <= MaxDepth /\ m # n /\ Len(up) = m
      /\ up[m] = frame /\ \A k \in 1..n : up[k] = to[k]
  BY <1>1, <1>2, RegistrationAssumption DEF IsTrail, IsPushed
<1>4. \A k \in 1..m : k = m \/ (k \in 1..n /\ k < m)
  BY <1>2, <1>3
<1>5. n \in 1..n /\ n \in 1..m /\ 1 \in 1..n
  BY <1>2, <1>3
<1>6. frame.symbol = edge.child /\ Taken(to[n]).child = edge.child
  BY DEF Entered, EdgeOf
<1>7. IsTrail(up)
  <2>1. \A k \in 1..m : IsFrameOfRouter(up[k])
    BY <1>1, <1>3, <1>4 DEF IsTrail
  <2>2. ASSUME NEW j \in 1..m, NEW k \in 1..m, up[j].symbol = up[k].symbol PROVE j = k
    <3>1. \A i \in 1..n : up[i].symbol # up[m].symbol
      BY <1>3, <1>6
    <3>2. CASE j = m \/ k = m
      BY <1>4, <2>2, <3>1, <3>2
    <3>3. CASE j \in 1..n /\ k \in 1..n
      BY <1>1, <1>3, <2>2, <3>3 DEF IsTrail
    <3> QED
      BY <1>4, <3>2, <3>3
  <2>3. ASSUME NEW k \in 1..m, k < m PROVE Crosses(up[k]) /\ up[k + 1].symbol = Taken(up[k]).child
    <3>1. CASE k = n
      BY <1>2, <1>3, <1>5, <1>6, <3>1
    <3>2. CASE k # n
      <4>1. k \in 1..n /\ k < n /\ k + 1 \in 1..n
        BY <1>2, <1>3, <2>3, <3>2
      <4>2. Crosses(to[k]) /\ to[k + 1].symbol = Taken(to[k]).child
        BY <1>1, <4>1 DEF IsTrail
      <4> QED
        BY <1>3, <4>1, <4>2
    <3> QED
      BY <3>1, <3>2
  <2> QED
    BY <1>3, <2>1, <2>2, <2>3 DEF IsTrail
<1>8. ASSUME NEW k \in 1..n PROVE IsGiven(up[k], up[1].symbol, WayTo(up, k))
  <2>1. \A i \in 1..(k - 1) : i \in 1..n
    BY <1>3
  <2>2. \A i \in 1..(k - 1) : Taken(up[i]) = Taken(to[i])
    BY <1>3, <2>1
  <2>3. WayTo(up, k) = WayTo(to, k)
    BY <2>2, SameWayTo
  <2>4. IsGiven(to[k], to[1].symbol, WayTo(to, k))
    BY <1>1 DEF Gives
  <2> QED
    BY <1>3, <1>5, <2>3, <2>4
<1>9. IsGiven(up[m], up[1].symbol, WayTo(up, m))
  <2>1. PICK w, E, s : w = WayTo(to, n) /\ E = Taken(to[n]) /\ s = to[1].symbol
    OBVIOUS
  <2>2. IsWayTo(w, to, n)
    BY <2>1 DEF IsWayTo
  <2>3. w \in Seq(Edges) /\ Len(w) = n - 1 /\ \A k \in 1..(n - 1) : w[k] = Taken(to[k])
    BY <1>1, <2>2, TrailIsWay
  <2>4. E \in Edges
    BY <1>1, <1>3, <1>5, <2>1, TakenIsEdge DEF IsTrail
  <2>5. IsGiven(to[n], s, w)
    BY <1>1, <1>3, <1>5, <2>1 DEF Gives
  <2>6. \A D \in Edges : D.mount.prefix \in Seq(Nat)
    BY EdgesAre
  <2>7. IsGiven(frame, s, Append(w, E))
    BY <2>1, <2>3, <2>4, <2>5, <2>6, GivenThrough
  <2>8. Append(w, E) = WayTo(up, m)
    <3>1. PICK v : v = Append(w, E)
      OBVIOUS
    <3>2. v \in Seq(Edges) /\ Len(v) = n /\ v[n] = E /\ \A k \in 1..(n - 1) : v[k] = w[k]
      <4>1. /\ v \in Seq(Edges) /\ Len(v) = Len(w) + 1 /\ v[Len(w) + 1] = E
            /\ \A k \in 1..Len(w) : v[k] = w[k]
        BY <2>3, <2>4, <3>1, AppendProperties
      <4>2. Len(w) + 1 = n
        BY <1>3, <2>3
      <4> QED
        BY <2>3, <4>1, <4>2
    <3>3. \A k \in 1..n : v[k] = Taken(up[k])
      <4>1. SUFFICES ASSUME NEW k \in 1..n PROVE v[k] = Taken(up[k])
        OBVIOUS
      <4>2. k = n \/ k \in 1..(n - 1)
        BY <1>3
      <4> QED
        BY <1>3, <2>1, <2>3, <3>2, <4>2
    <3>4. v = [k \in 1..n |-> v[k]]
      BY <3>2, LenProperties
    <3>5. [k \in 1..n |-> v[k]] = [k \in 1..n |-> Taken(up[k])]
      BY <3>3
    <3>6. m - 1 = n
      BY <1>2, <1>3
    <3>7. WayTo(up, m) = [k \in 1..n |-> Taken(up[k])]
      BY <3>6, Zenon DEF WayTo
    <3> QED
      BY <3>1, <3>4, <3>5, <3>7
  <2> QED
    BY <1>3, <1>5, <2>1, <2>7, <2>8
<1>10. Gives(up)
  <2>1. \A k \in 1..m : IsGiven(up[k], up[1].symbol, WayTo(up, k))
    BY <1>4, <1>8, <1>9
  <2> QED
    BY <1>3, <2>1 DEF Gives
<1> QED
  BY <1>7, <1>10 DEF OnTrail

(***************************************************************************)
(* The steps of the walk.                                                  *)
(***************************************************************************)
\* What is listed where a way ends.
Visited(s, w, rows, at) ==
  /\ s \in Symbol /\ w \in Ways(s) /\ End(s, w) \in Symbol
  /\ Lists(at, LetThrough(End(s, w), Narrowed(w)))
  /\ rows \in Seq(ToSet(rows)) /\ Len(rows) = Len(at)
  /\ \A k \in 1..Len(at) :
       /\ IsOf(rows[k], at[k]) /\ rows[k].orphaned = sweeping
       /\ ~sweeping => rows[k] = Row(s, w, at[k])

LEMMA VisitLists ==
  ASSUME facts \in Found, GraphBuilt, sweeping \in BOOLEAN, NEW st, OnTrail(st), NEW n, NEW w, IsWayTo(w, st, n),
         NEW t \in Symbol, NEW entrance, entrance.prefix \in Seq(Nat), st[n] = Entered(t, entrance)
  PROVE  /\ \E at : Visited(st[1].symbol, w, ListedAt(t, entrance), at)
         /\ End(st[1].symbol, w) = t
<1>1. IsTrail(st) /\ Gives(st)
  BY DEF OnTrail
<1>2. /\ w \in Ways(st[1].symbol) /\ w \in Seq(Edges) /\ End(st[1].symbol, w) = st[n].symbol
  BY <1>1, TrailIsWay
<1>3. n = Len(st) /\ n # 0 /\ w = WayTo(st, n)
  BY DEF IsWayTo
<1>4. n \in Nat \ {0} /\ 1 \in 1..n /\ n \in 1..n
  BY <1>1, <1>3 DEF IsTrail
<1>5. st[1].symbol \in Symbol
  BY <1>1, <1>3, <1>4 DEF IsTrail, IsFrameOfRouter
<1>6. st[n].symbol = t
  BY DEF Entered
<1>7. PICK s, at, rows : /\ s = st[1].symbol /\ at = InOrder(LetThrough(t, Narrowed(w)))
                         /\ rows = ListedAt(t, entrance)
  OBVIOUS
<1>8. IsGiven(Entered(t, entrance), s, w)
  <2>1. IsGiven(st[n], st[1].symbol, WayTo(st, n))
    BY <1>1, <1>3, <1>4 DEF Gives
  <2> QED
    BY <1>3, <1>7, <2>1
<1>9. /\ Lists(at, LetThrough(t, Narrowed(w))) /\ DOMAIN rows = 1..Len(at)
      /\ \A k \in 1..Len(at) :
           /\ IsOf(rows[k], at[k]) /\ rows[k].orphaned = sweeping
           /\ ~sweeping /\ sweeping \in BOOLEAN => rows[k] = Row(s, w, at[k])
  BY <1>2, <1>7, <1>8, ListedIsGiven
<1>10. rows \in Seq(ToSet(rows))
  <2>1. BaseOf(t, entrance) \in Seq(Nat)
    BY EnteredType
  <2> QED
    BY <1>7, <2>1, ListingType DEF ListedAt
<1>11. Len(rows) = Len(at)
  <2>1. Len(at) \in Nat
    BY <1>9 DEF Lists
  <2>2. Len(rows) \in Nat /\ DOMAIN rows = 1..Len(rows)
    BY <1>10, LenProperties
  <2> QED
    BY <1>9, <2>1, <2>2
<1>12. Visited(s, w, rows, at)
  BY <1>2, <1>5, <1>6, <1>7, <1>9, <1>10, <1>11 DEF Visited
<1> QED
  BY <1>2, <1>6, <1>7, <1>12

\* A walk starts.
LEMMA Starting ==
  ASSUME WalkTyped, graph # None, NEW s \in Symbol, NEW warned, Walk(s, AtRoot, <<>>, warned),
         NEW st, st = stack'
  PROVE  /\ OnTrail(st) /\ Len(st) = 1 /\ st[1].symbol = s
         /\ \E rows, at : Visited(s, <<>>, rows, at) /\ listed' = listed \o rows
         /\ End(s, <<>>) = s /\ reached' = reached \union {s} /\ warnings' = warned
         /\ \A r : \A w \in Ways(r) : AheadOn(st, r, w) <=> s = r /\ w # <<>>
<1>1. facts \in Found /\ GraphBuilt /\ sweeping \in BOOLEAN
  BY DEF WalkTyped
<1>2. AtRoot.prefix \in Seq(Nat)
  BY DEF AtRoot, Entrance
<1>3. Len(<<>>) = 0 /\ MaxDepth \in Nat \ {0}
  BY RegistrationAssumption
<1>4. ~IsOn(s, <<>>) /\ ~(Len(<<>>) >= MaxDepth)
  BY <1>3 DEF IsOn
<1>5. PICK frame : frame = Entered(s, AtRoot)
  OBVIOUS
<1>6. /\ stack' = Append(<<>>, frame) /\ listed' = listed \o ListedAt(s, AtRoot)
      /\ reached' = reached \union {s} /\ warnings' = warned
  BY <1>4, <1>5, WalkEnters
<1>7. Len(st) = 1 /\ st[1] = frame
  BY <1>6
<1>8. OnTrail(st) /\ st[1].symbol = s /\ st[1].left = graph.mounts[st[1].symbol] /\ IsWayTo(<<>>, st, 1)
  BY <1>1, <1>5, <1>7, StartTrail
<1>9. PICK w, n : w = <<>> /\ n = 1
  OBVIOUS
<1>10. IsWayTo(w, st, n) /\ st[n] = Entered(s, AtRoot)
  BY <1>5, <1>7, <1>8, <1>9
<1>11. /\ \E at : Visited(st[1].symbol, w, ListedAt(s, AtRoot), at)
       /\ End(st[1].symbol, w) = s
  BY <1>1, <1>2, <1>8, <1>10, VisitLists
<1>12. \A r : \A v \in Ways(r) : AheadOn(st, r, v) <=> s = r /\ v # <<>>
  BY <1>1, <1>7, <1>8, StartAhead DEF OnTrail
<1> QED
  BY <1>6, <1>7, <1>8, <1>9, <1>11, <1>12

Stopped(old, st) ==
  /\ listed' = listed /\ reached' = reached
  /\ \E kind \in {"cycle", "too deep"} : \E t : warnings' = warnings \union {Warning(kind, t)}
  /\ \A r : \A w \in Ways(r) : AheadOn(old, r, w) <=> AheadOn(st, r, w)

WentOn(old, st, s, c) ==
  /\ \E rows, at : Visited(s, c, rows, at) /\ listed' = listed \o rows
  /\ reached' = reached \union {End(s, c)} /\ warnings' = warnings
  /\ \A r : ~AheadOn(st, r, c)
  /\ \A r : \A w \in Ways(r) : AheadOn(old, r, w) <=> AheadOn(st, r, w) \/ (r = s /\ w = c)

LEMMA Descending ==
  ASSUME WalkTyped, OnTrail(stack), Descend, NEW old, old = stack, NEW st, st = stack'
  PROVE  /\ OnTrail(st) /\ Len(st) # 0 /\ Len(old) # 0 /\ st[1].symbol = old[1].symbol
         /\ Stopped(old, st) \/ \E c : WentOn(old, st, old[1].symbol, c)
<1>1. facts \in Found /\ GraphBuilt /\ sweeping \in BOOLEAN
  <2>1. stack # <<>>
    BY DescendWalks
  <2> QED
    BY <2>1, TopOfStack DEF WalkTyped
<1>2. PICK top, edge, to, n : /\ top = Last(stack) /\ edge = Head(Last(stack).left) /\ to = CrossedOver
                              /\ n = Len(stack)
  OBVIOUS
<1>3. PICK child, entrance : child = edge.child /\ entrance = Through(top, edge)
  OBVIOUS
<1>4. /\ stack # <<>> /\ top.left # <<>> /\ Walk(child, entrance, to, warnings)
  BY <1>2, <1>3, DescendWalks
<1>5. /\ n \in Nat \ {0} /\ n <= MaxDepth /\ top = old[n] /\ n = Len(old) /\ IsFrameOfRouter(top)
      /\ MaxDepth \in Nat
  BY <1>2, <1>4, TopOfStack, RegistrationAssumption
<1>6. /\ child \in Symbol /\ entrance.prefix \in Seq(Nat)
      /\ IsRest(Tail(top.left), graph.mounts[top.symbol])
  BY <1>2, <1>3, <1>4, NextEdge
<1>7. /\ Len(to) = n /\ \A k \in 1..(n - 1) : to[k] = old[k]
      /\ Alter(to[n], top) /\ to[n].symbol = top.symbol /\ to[n].left = Tail(top.left)
      /\ IsFrameOfRouter(to[n])
      /\ IsPath(to, reached)
  <2>1. PICK left : left = Tail(top.left)
    OBVIOUS
  <2>2. to = Front(stack) \o <<[Last(stack) EXCEPT !.left = left]>>
    BY <1>2, <2>1 DEF CrossedOver
  <2>3. IsRest(left, graph.mounts[Last(stack).symbol])
    BY <1>2, <1>6, <2>1
  <2>4. LET frame == [Last(stack) EXCEPT !.left = left]
             crossed == Front(stack) \o <<frame>>
         IN /\ IsPath(crossed, reached) /\ Len(crossed) = Len(stack)
            /\ \A k \in 1..(Len(stack) - 1) : crossed[k] = stack[k]
            /\ crossed[Len(stack)] = frame
            /\ frame.symbol = Last(stack).symbol /\ frame.base = Last(stack).base
            /\ frame.methods = Last(stack).methods /\ frame.auth = Last(stack).auth
            /\ frame.group = Last(stack).group /\ frame.left = left
            /\ \A k \in 1..Len(stack) : crossed[k].symbol = stack[k].symbol
            /\ \A k \in 1..Len(stack) : IsFrameOfRouter(crossed[k])
            /\ crossed # <<>>
    BY <1>4, <2>3, CrossedStack
  <2>5. PICK frame : frame = [Last(stack) EXCEPT !.left = left]
    OBVIOUS
  <2>6. /\ IsPath(to, reached) /\ Len(to) = n /\ \A k \in 1..(n - 1) : to[k] = old[k]
        /\ to[n] = frame /\ frame.symbol = top.symbol /\ frame.base = top.base
        /\ frame.methods = top.methods /\ frame.auth = top.auth /\ frame.group = top.group
        /\ frame.left = left /\ \A k \in 1..n : IsFrameOfRouter(to[k])
    BY <1>2, <2>2, <2>4, <2>5
  <2>7. n \in 1..n
    BY <1>5
  <2> QED
    BY <2>1, <2>6, <2>7 DEF Alter
<1>8. IsCrossing(old, to, n)
  BY <1>4, <1>5, <1>7 DEF IsCrossing
<1>9. OnTrail(old) /\ IsTrail(old)
  BY DEF OnTrail
<1>10. OnTrail(to) /\ IsTrail(to)
  <2>1. OnTrail(to)
    BY <1>1, <1>5, <1>7, <1>8, <1>9, CrossedTrail
  <2> QED
    BY <2>1 DEF OnTrail
<1>11. to[1].symbol = old[1].symbol
  BY <1>8, <1>9, CrossingStarts
<1>12. Taken(to[n]) = EdgeOf(to[n].symbol, edge) /\ Crosses(to[n]) /\ Taken(to[n]).child = child
  <2>1. PICK g : g = to[n]
    OBVIOUS
  <2>2. g.symbol = top.symbol /\ g.left = Tail(top.left) /\ top.left # <<>> /\ IsFrameOfRouter(top)
    BY <1>4, <1>5, <1>7, <2>1
  <2>3. Taken(g) = EdgeOf(top.symbol, Head(top.left)) /\ Crosses(g)
    BY <1>1, <2>2, OneTaken
  <2> QED
    BY <1>2, <1>3, <2>1, <2>2, <2>3 DEF EdgeOf
<1>13. ASSUME st = to, reached' = reached, listed' = listed,
              \/ IsOn(child, to) /\ warnings' = warnings \union {Warning("cycle", child)}
              \/ n >= MaxDepth /\ warnings' = warnings \union {Warning("too deep", child)}
       PROVE  OnTrail(st) /\ Len(st) # 0 /\ st[1].symbol = old[1].symbol /\ Stopped(old, st)
  <2>1. \/ n >= MaxDepth
        \/ \E k \in 1..n : to[k].symbol = Taken(to[n]).child
    <3>1. DOMAIN to = 1..n
      <4>1. PICK S : to \in Seq(S)
        BY <1>7 DEF IsPath, Framed
      <4> QED
        BY <1>7, <4>1, LenProperties
    <3> QED
      BY <1>12, <1>13, <3>1 DEF IsOn
  <2>2. n = Len(to)
    BY <1>7
  <2>3. \A r : \A w \in Ways(r) : AheadOn(old, r, w) <=> AheadOn(to, r, w)
    BY <1>1, <1>8, <1>9, <1>10, <2>1, <2>2, StoppedAhead
  <2>4. \E kind \in {"cycle", "too deep"} : \E t : warnings' = warnings \union {Warning(kind, t)}
    BY <1>13
  <2> QED
    BY <1>5, <1>7, <1>10, <1>11, <1>13, <2>3, <2>4 DEF Stopped
<1>14. ASSUME ~IsOn(child, to), n < MaxDepth, st = Append(to, Entered(child, entrance)),
              listed' = listed \o ListedAt(child, entrance), reached' = reached \union {child},
              warnings' = warnings
       PROVE  /\ OnTrail(st) /\ Len(st) # 0 /\ st[1].symbol = old[1].symbol
              /\ \E c : WentOn(old, st, old[1].symbol, c)
  <2>1. PICK frame, m, S : frame = Entered(child, entrance) /\ m = n + 1 /\ to \in Seq(S)
    BY <1>7 DEF IsPath, Framed
  <2>2. /\ DOMAIN to = 1..n /\ Len(st) = m /\ st[m] = frame /\ \A k \in 1..n : st[k] = to[k]
    <3>1. /\ Len(to) \in Nat /\ Len(Append(to, frame)) = Len(to) + 1
          /\ \A k \in 1..Len(to) : Append(to, frame)[k] = to[k]
          /\ Append(to, frame)[Len(to) + 1] = frame
      BY <2>1, Pushed
    <3>2. DOMAIN to = 1..n
      BY <1>7, <2>1, LenProperties
    <3> QED
      BY <1>7, <1>14, <2>1, <3>1, <3>2
  <2>3. IsFrameOfRouter(frame) /\ frame.symbol = child /\ frame.left = graph.mounts[child]
    BY <1>1, <1>6, <2>1, EnteredType
  <2>4. entrance = Through(to[n], edge)
    BY <1>3, <1>7 DEF Alter, Through, NearestMethods
  <2>5. frame = Entered(edge.child, Through(to[n], edge))
    BY <1>3, <2>1, <2>4
  <2>6. \A k \in 1..n : to[k].symbol # edge.child
    BY <1>3, <1>14, <2>2 DEF IsOn
  <2>7. IsPushed(st, to, n, frame)
    BY <2>1, <2>2 DEF IsPushed
  <2>8. n = Len(to) /\ n # 0
    BY <1>5, <1>7
  <2>9. OnTrail(st)
    <3>1. Crosses(to[n]) /\ Taken(to[n]) = EdgeOf(to[n].symbol, edge)
      BY <1>12
    <3> QED
      BY <1>1, <1>10, <1>14, <2>3, <2>5, <2>6, <2>7, <2>8, <3>1, PushedTrail
  <2>10. m # 0 /\ 1 \in 1..n
    BY <1>5, <2>1
  <2>11. st[1].symbol = old[1].symbol
    BY <1>11, <2>2, <2>10
  <2>12. PICK c : IsWayTo(c, st, m)
    BY <2>2, <2>10 DEF IsWayTo
  <2>13. /\ \E at : Visited(st[1].symbol, c, ListedAt(child, entrance), at)
         /\ End(st[1].symbol, c) = child
    BY <1>1, <1>6, <2>1, <2>2, <2>9, <2>12, VisitLists
  <2>14. IsTrail(st)
    BY <2>9 DEF OnTrail
  <2>15. \A r : ~AheadOn(st, r, c)
    BY <1>1, <2>12, <2>14, BeenHere
  <2>16. st[m].left = graph.mounts[st[m].symbol]
    BY <2>2, <2>3
  <2>17. \A r : \A w \in Ways(r) : AheadOn(old, r, w) <=> AheadOn(st, r, w) \/ (r = old[1].symbol /\ w = c)
    <3>1. Len(st) = Len(old) + 1
      BY <1>5, <2>1, <2>2
    <3>2. \A k \in 1..(n - 1) : k \in 1..n
      BY <1>5
    <3>3. n \in 1..n
      BY <1>5
    <3>4. IsCrossing(old, st, n)
      BY <1>8, <2>2, <3>2, <3>3 DEF IsCrossing
    <3> QED
      BY <1>1, <1>9, <2>12, <2>14, <2>16, <3>1, <3>4, PushedAhead
  <2>18. WentOn(old, st, old[1].symbol, c)
    BY <1>14, <2>11, <2>13, <2>15, <2>17 DEF WentOn
  <2> QED
    BY <2>2, <2>9, <2>10, <2>11, <2>18
<1>15. \/ /\ stack' = to /\ UNCHANGED <<reached, listed>>
          /\ \/ IsOn(child, to) /\ warnings' = warnings \union {Warning("cycle", child)}
             \/ /\ ~IsOn(child, to) /\ Len(to) >= MaxDepth
                /\ warnings' = warnings \union {Warning("too deep", child)}
       \/ /\ ~IsOn(child, to) /\ Len(to) < MaxDepth
          /\ stack' = Append(to, Entered(child, entrance))
          /\ listed' = listed \o ListedAt(child, entrance)
          /\ reached' = reached \union {child}
          /\ warnings' = warnings
  BY <1>4, WalkEnters
<1>16. Len(old) # 0 /\ Len(to) = n
  BY <1>5, <1>7
<1> QED
  BY <1>13, <1>14, <1>15, <1>16

\* The walk turns back.
LEMMA Returning ==
  ASSUME WalkTyped, OnTrail(stack), Return, NEW old, old = stack, NEW st, st = stack'
  PROVE  /\ OnTrail(st) /\ Len(old) # 0 /\ (Len(st) # 0 => st[1].symbol = old[1].symbol)
         /\ \A r, w : AheadOn(old, r, w) <=> AheadOn(st, r, w)
<1>1. stack # <<>> /\ Last(stack).left = <<>> /\ st = Front(stack)
  BY DEF Return
<1>2. PICK n : n = Len(old)
  OBVIOUS
<1>3. n \in Nat \ {0} /\ Last(stack) = old[n]
  BY <1>1, <1>2, TopOfStack
<1>4. /\ Len(st) = n - 1 /\ \A k \in 1..(n - 1) : st[k] = old[k]
  <2>1. /\ Len(Front(stack)) = Len(stack) - 1
        /\ \A k \in 1..(Len(stack) - 1) : Front(stack)[k] = stack[k]
    BY <1>1, ShorterPaths DEF WalkTyped
  <2> QED
    BY <1>1, <1>2, <2>1
<1>5. OnTrail(old) /\ n = Len(old) /\ old[n].left = <<>>
  BY <1>1, <1>2, <1>3
<1>6. OnTrail(st)
  BY <1>3, <1>4, <1>5, BackTrail
<1>7. \A r, w : AheadOn(old, r, w) <=> AheadOn(st, r, w)
  BY <1>3, <1>4, <1>5, BackAhead
<1>8. Len(st) # 0 => st[1].symbol = old[1].symbol
  <2>1. Len(st) # 0 => 1 \in 1..(n - 1)
    BY <1>3, <1>4
  <2> QED
    BY <1>4, <2>1
<1> QED
  BY <1>3, <1>5, <1>6, <1>7, <1>8

(***************************************************************************)
(* What is listed, against the trips that are done.                        *)
(***************************************************************************)
\* A sequence of each of a set's elements, no two alike.
LEMMA EachOnce ==
  ASSUME NEW q, NEW T, q \in Seq(T), NEW n \in Nat, Len(q) = n,
         \A x \in T : \E k \in 1..n : q[k] = x,
         \A j, k \in 1..n : q[j] = q[k] => j = k
  PROVE  Lists(q, T)
<1>1. DOMAIN q = 1..n /\ \A k \in 1..n : q[k] \in T
  BY LenProperties
<1>2. PICK D : D = 1..n
  OBVIOUS
<1>3. IsFiniteSet(D) /\ Cardinality(D) = n
  <2>1. 1 \in Int /\ n \in Int /\ (IF 1 > n THEN 0 ELSE n - 1 + 1) = n
    OBVIOUS
  <2> QED
    BY <1>2, <2>1, FS_Interval, Zenon
<1>4. Cardinality(T) = Cardinality(D)
  <2> DEFINE g == [x \in D |-> q[x]]
  <2>1. g \in Bijection(D, T)
    BY <1>1, <1>2 DEF Bijection, Injection, Surjection, IsInjective
  <2>2. ExistsBijection(D, T)
    BY <2>1 DEF ExistsBijection
  <2> QED
    BY <1>3, <2>2, FS_Bijection
<1> QED
  BY <1>1, <1>3, <1>4 DEF Lists

\* One list after another.
IsJoined(r, p, m, q, n) == r = p \o q /\ m = Len(p) /\ n = Len(q)
Joins(r, p, m, q, n) ==
  /\ m \in Nat /\ n \in Nat /\ Len(r) = m + n
  /\ \A k \in 1..m : r[k] = p[k]
  /\ \A k \in 1..n : r[m + k] = q[k]
Apart(S, T) == S \intersect T = {}

LEMMA ListsJoin ==
  ASSUME NEW p, NEW S, Lists(p, S), NEW q, NEW T, Lists(q, T), Apart(S, T), NEW r, NEW m, NEW n,
         IsJoined(r, p, m, q, n)
  PROVE  Lists(r, S \union T) /\ Joins(r, p, m, q, n)
<1>1. PICK U : m = Len(p) /\ n = Len(q) /\ U = S \union T
  BY DEF IsJoined
<1>2. /\ m \in Nat /\ n \in Nat /\ p \in Seq(S) /\ q \in Seq(T) /\ DOMAIN p = 1..m /\ DOMAIN q = 1..n
      /\ \A k \in 1..m : p[k] \in S
      /\ \A k \in 1..n : q[k] \in T
      /\ \A j, k \in 1..m : p[j] = p[k] => j = k
      /\ \A j, k \in 1..n : q[j] = q[k] => j = k
      /\ \A x \in S : \E k \in 1..m : p[k] = x
      /\ \A x \in T : \E k \in 1..n : q[k] = x
  BY <1>1 DEF Lists
<1>3. /\ p \in Seq(U) /\ q \in Seq(U)
  <2>1. S \subseteq U /\ T \subseteq U
    BY <1>1
  <2> QED
    BY <1>2, <2>1, SeqMonotonic
<1>4. PICK l : l = m + n
  OBVIOUS
<1>5. /\ r \in Seq(U) /\ Len(r) = l /\ l \in Nat
      /\ \A k \in 1..l : r[k] = IF k <= m THEN p[k] ELSE q[k - m]
  <2>1. /\ p \o q \in Seq(U) /\ Len(p \o q) = Len(p) + Len(q)
        /\ \A i \in 1..(Len(p) + Len(q)) : (p \o q)[i] = IF i <= Len(p) THEN p[i] ELSE q[i - Len(p)]
    BY <1>3, ConcatProperties
  <2>2. r = p \o q
    BY DEF IsJoined
  <2> QED
    BY <1>1, <1>2, <1>4, <2>1, <2>2
<1>6. DOMAIN r = 1..l
  BY <1>5, LenProperties
<1>7. \A k \in 1..m : r[k] = p[k] /\ k \in 1..l
  BY <1>2, <1>4, <1>5
<1>8. ASSUME NEW k \in 1..n PROVE r[m + k] = q[k] /\ m + k \in 1..l
  <2>1. m + k \in 1..l /\ ~(m + k <= m) /\ (m + k) - m = k
    BY <1>2, <1>4
  <2> QED
    BY <1>5, <2>1
<1>9. ASSUME NEW k \in 1..l
      PROVE  (k \in 1..m /\ r[k] = p[k]) \/ (k - m \in 1..n /\ r[k] = q[k - m])
  BY <1>2, <1>4, <1>5
<1>10. \A k \in 1..l : r[k] \in U
  <2>1. SUFFICES ASSUME NEW k \in 1..l PROVE r[k] \in U
    OBVIOUS
  <2> QED
    BY <1>1, <1>2, <1>9
<1>11. \A x \in U : \E k \in 1..l : r[k] = x
  <2>1. SUFFICES ASSUME NEW x \in U PROVE \E k \in 1..l : r[k] = x
    OBVIOUS
  <2>2. CASE x \in S
    BY <1>2, <1>7, <2>2
  <2>3. CASE x \in T
    <3>1. PICK k \in 1..n : q[k] = x
      BY <1>2, <2>3
    <3> QED
      BY <1>8, <3>1
  <2> QED
    BY <1>1, <2>2, <2>3
<1>12. \A j, k \in 1..l : r[j] = r[k] => j = k
  <2>1. SUFFICES ASSUME NEW j \in 1..l, NEW k \in 1..l, r[j] = r[k] PROVE j = k
    OBVIOUS
  <2>2. CASE j \in 1..m /\ k \in 1..m
    BY <1>2, <1>7, <2>1, <2>2
  <2>3. CASE j - m \in 1..n /\ k - m \in 1..n /\ r[j] = q[j - m] /\ r[k] = q[k - m]
    <3>1. PICK a, b : a = j - m /\ b = k - m
      OBVIOUS
    <3>2. a = b
      BY <1>2, <2>1, <2>3, <3>1
    <3> QED
      BY <1>2, <3>1, <3>2
  <2>4. ASSUME NEW x, x \in S, x \in T PROVE FALSE
    BY <2>4 DEF Apart
  <2> QED
    BY <1>2, <1>9, <2>1, <2>2, <2>3, <2>4
<1>13. Lists(r, U)
  BY <1>5, <1>11, <1>12, EachOnce
<1> QED
  BY <1>1, <1>2, <1>4, <1>5, <1>7, <1>8, <1>13 DEF Joins

\* The trips along one way.
TripsAlong(s, w, L) == {<<s, w, at>> : at \in L}

LEMMA ListsTrips ==
  ASSUME NEW at, NEW L, Lists(at, L), NEW s, NEW w, NEW q, q = [k \in 1..Len(at) |-> <<s, w, at[k]>>]
  PROVE  Lists(q, TripsAlong(s, w, L)) /\ Len(q) = Len(at)
<1>1. PICK n, T : n = Len(at) /\ T = TripsAlong(s, w, L)
  OBVIOUS
<1>2. /\ n \in Nat
      /\ \A k \in 1..n : at[k] \in L
      /\ \A j, k \in 1..n : at[j] = at[k] => j = k
      /\ \A x \in L : \E k \in 1..n : at[k] = x
  BY <1>1 DEF Lists
<1>3. DOMAIN q = 1..n /\ \A k \in 1..n : q[k] = <<s, w, at[k]>>
  BY <1>1
<1>4. \A k \in 1..n : q[k] \in T
  BY <1>1, <1>2, <1>3 DEF TripsAlong
<1>5. \A j, k \in 1..n : q[j] = q[k] => j = k
  <2>1. SUFFICES ASSUME NEW j \in 1..n, NEW k \in 1..n, q[j] = q[k] PROVE j = k
    OBVIOUS
  <2>2. at[j] = at[k]
    BY <1>3, <2>1
  <2> QED
    BY <1>2, <2>2
<1>6. \A x \in T : \E k \in 1..n : q[k] = x
  BY <1>1, <1>2, <1>3 DEF TripsAlong
<1>7. q \in Seq(T) /\ Len(q) = n
  <2>1. q \in [1..n -> T]
    BY <1>1, <1>4
  <2> QED
    BY <1>2, <2>1, SeqDef, LenProperties
<1>8. Lists(q, T)
  <2>1. /\ q \in Seq(T) /\ n \in Nat /\ Len(q) = n
        /\ \A x \in T : \E k \in 1..n : q[k] = x
        /\ \A j, k \in 1..n : q[j] = q[k] => j = k
    BY <1>2, <1>5, <1>6, <1>7
  <2> QED
    BY ONLY <2>1, EachOnce
<1> QED
  BY <1>1, <1>7, <1>8

RowOf(t) == Row(t[1], t[2], t[3])

\* Each trip that is done is listed, in some order, and after that what is orphaned.
IsTally(q, D, rows) ==
  /\ Lists(q, D) /\ Len(q) <= Len(rows)
  /\ \A k \in 1..Len(q) : rows[k] = RowOf(q[k])
  /\ \A k \in 1..Len(rows) : k > Len(q) => rows[k].orphaned = TRUE

Tally(D, sw, rows) == \E q : IsTally(q, D, rows) /\ (~sw => Len(q) = Len(rows))

\* While the roots are walked, a visit adds the trips along its way.
LEMMA TallyGrows ==
  ASSUME ~sweeping, NEW D, NEW rows, rows \in Seq(ToSet(rows)), Tally(D, FALSE, rows),
         NEW s, NEW w, NEW more, NEW at, Visited(s, w, more, at), \A t \in D : ~(t[1] = s /\ t[2] = w)
  PROVE  Tally(D \union TripsAlong(s, w, LetThrough(End(s, w), Narrowed(w))), FALSE, rows \o more)
<1>1. PICK q : IsTally(q, D, rows) /\ Len(q) = Len(rows)
  BY DEF Tally
<1>2. PICK L, T, b : /\ L = LetThrough(End(s, w), Narrowed(w)) /\ T = TripsAlong(s, w, L)
                     /\ b = [k \in 1..Len(at) |-> <<s, w, at[k]>>]
  OBVIOUS
<1>3. Lists(q, D) /\ \A k \in 1..Len(q) : rows[k] = RowOf(q[k])
  BY <1>1 DEF IsTally
<1>4. Lists(b, T) /\ Len(b) = Len(at)
  <2>1. Lists(at, L)
    BY <1>2 DEF Visited
  <2> QED
    BY <1>2, <2>1, ListsTrips
<1>5. D \intersect T = {}
  <2>1. \A t \in T : t[1] = s /\ t[2] = w
    BY <1>2 DEF TripsAlong
  <2> QED
    BY <2>1
<1>6. PICK r, m, n, all : IsJoined(r, q, m, b, n) /\ m = Len(q) /\ n = Len(b) /\ all = rows \o more
  BY DEF IsJoined
<1>7. /\ Lists(r, D \union T) /\ m \in Nat /\ n \in Nat /\ Len(r) = m + n
      /\ \A k \in 1..m : r[k] = q[k]
      /\ \A k \in 1..n : r[m + k] = b[k]
  <2>1. Lists(q, D) /\ Lists(b, T) /\ Apart(D, T) /\ IsJoined(r, q, m, b, n)
    BY <1>3, <1>4, <1>5, <1>6 DEF Apart
  <2>2. Lists(r, D \union T) /\ Joins(r, q, m, b, n)
    BY ONLY <2>1, ListsJoin
  <2> QED
    BY <2>2 DEF Joins
<1>9. /\ m \in Nat /\ n \in Nat /\ Len(rows) = m /\ Len(more) = n /\ Len(at) = n /\ Len(r) = m + n
      /\ more \in Seq(ToSet(more))
  BY <1>1, <1>4, <1>7, <1>6 DEF Visited
<1>10. /\ Len(all) = m + n
       /\ \A k \in 1..(m + n) : all[k] = IF k <= m THEN rows[k] ELSE more[k - m]
  <2>1. PICK S : S = ToSet(rows) \union ToSet(more)
    OBVIOUS
  <2>2. rows \in Seq(S) /\ more \in Seq(S)
    <3>1. ToSet(rows) \subseteq S /\ ToSet(more) \subseteq S
      BY <2>1
    <3> QED
      BY <1>9, <3>1, SeqMonotonic
  <2>3. /\ Len(rows \o more) = Len(rows) + Len(more)
        /\ \A i \in 1..(Len(rows) + Len(more)) :
             (rows \o more)[i] = IF i <= Len(rows) THEN rows[i] ELSE more[i - Len(rows)]
    BY <2>2, ConcatProperties
  <2> QED
    BY <1>6, <1>9, <2>3
<1>11. ASSUME NEW k \in 1..(m + n) PROVE all[k] = RowOf(r[k])
  <2>1. CASE k <= m
    <3>1. k \in 1..m
      BY <1>9, <2>1
    <3> QED
      BY <1>3, <1>7, <1>6, <1>10, <2>1, <3>1
  <2>2. CASE ~(k <= m)
    <3>1. PICK j : j = k - m
      OBVIOUS
    <3>2. j \in 1..n /\ m + j = k
      BY <1>9, <2>2, <3>1
    <3>3. all[k] = more[j]
      BY <1>10, <2>2, <3>1
    <3>4. r[k] = b[j] /\ b[j] = <<s, w, at[j]>>
      BY <1>2, <1>7, <1>6, <1>9, <3>2
    <3>5. more[j] = Row(s, w, at[j])
      BY <1>9, <3>2 DEF Visited
    <3>6. RowOf(r[k]) = Row(s, w, at[j])
      BY <3>4 DEF RowOf
    <3> QED
      BY <3>3, <3>5, <3>6
  <2> QED
    BY <2>1, <2>2
<1>12. IsTally(r, D \union T, all) /\ Len(r) = Len(all)
  <2>1. Len(r) = m + n /\ Len(all) = m + n /\ m + n \in Nat
    BY <1>9, <1>10
  <2>2. \A k \in 1..Len(r) : all[k] = RowOf(r[k])
    BY <1>11, <2>1
  <2>3. \A k \in 1..Len(all) : ~(k > Len(r))
    BY <2>1
  <2> QED
    BY <1>7, <2>1, <2>2, <2>3 DEF IsTally
<1> QED
  BY <1>2, <1>6, <1>12 DEF Tally

\* Afterwards it adds only what is orphaned.
LEMMA TallyStays ==
  ASSUME sweeping = TRUE, NEW D, NEW rows, rows \in Seq(ToSet(rows)), Tally(D, TRUE, rows),
         NEW s, NEW w, NEW more, NEW at, Visited(s, w, more, at)
  PROVE  Tally(D, TRUE, rows \o more)
<1>1. PICK q : IsTally(q, D, rows)
  BY DEF Tally
<1>2. /\ Lists(q, D) /\ Len(q) <= Len(rows)
      /\ \A k \in 1..Len(q) : rows[k] = RowOf(q[k])
      /\ \A k \in 1..Len(rows) : k > Len(q) => rows[k].orphaned = TRUE
  BY <1>1 DEF IsTally
<1>3. PICK m, n, l, all : m = Len(rows) /\ n = Len(more) /\ l = Len(q) /\ all = rows \o more
  OBVIOUS
<1>4. /\ more \in Seq(ToSet(more)) /\ \A k \in 1..n : more[k].orphaned = TRUE
  BY <1>3 DEF Visited
<1>5. m \in Nat /\ n \in Nat /\ l \in Nat /\ l <= m
  BY <1>2, <1>3, <1>4, LenProperties DEF Lists
<1>6. /\ Len(all) = m + n
      /\ \A k \in 1..(m + n) : all[k] = IF k <= m THEN rows[k] ELSE more[k - m]
  <2>1. PICK S : S = ToSet(rows) \union ToSet(more)
    OBVIOUS
  <2>2. rows \in Seq(S) /\ more \in Seq(S)
    <3>1. ToSet(rows) \subseteq S /\ ToSet(more) \subseteq S
      BY <2>1
    <3> QED
      BY <1>4, <3>1, SeqMonotonic
  <2>3. /\ Len(rows \o more) = Len(rows) + Len(more)
        /\ \A i \in 1..(Len(rows) + Len(more)) :
             (rows \o more)[i] = IF i <= Len(rows) THEN rows[i] ELSE more[i - Len(rows)]
    BY <2>2, ConcatProperties
  <2> QED
    BY <1>3, <2>3
<1>7. \A k \in 1..l : all[k] = RowOf(q[k])
  <2>1. \A k \in 1..l : k \in 1..(m + n) /\ k <= m
    BY <1>5
  <2> QED
    BY <1>2, <1>3, <1>6, <2>1
<1>8. ASSUME NEW k \in 1..(m + n), k > l PROVE all[k].orphaned = TRUE
  <2>1. CASE k <= m
    <3>1. k \in 1..m
      BY <1>5, <2>1
    <3> QED
      BY <1>2, <1>3, <1>6, <1>8, <2>1, <3>1
  <2>2. CASE ~(k <= m)
    <3>1. PICK j : j = k - m
      OBVIOUS
    <3>2. j \in 1..n
      BY <1>5, <2>2, <3>1
    <3> QED
      BY <1>4, <1>6, <2>2, <3>1, <3>2
  <2> QED
    BY <2>1, <2>2
<1>9. l <= m + n
  BY <1>5
<1>10. IsTally(q, D, all)
  BY <1>2, <1>3, <1>6, <1>7, <1>8, <1>9 DEF IsTally
<1> QED
  BY <1>3, <1>10 DEF Tally

(***************************************************************************)
(* What holds on the course of a walk.                                     *)
(***************************************************************************)
Reachable(s) == \E r \in Roots : \E w \in Ways(r) : End(r, w) = s

Warned(wa) == {s \in Symbol : \E kind \in {"orphaned", "undeclared router"} : Warning(kind, s) \in wa}

\* A way from a root that is still to be walked, now or after the next start.
Ahead(st, fr, r, w) == r \in ToSet(fr) \/ AheadOn(st, r, w)

DoneTrips(st, fr, sw) == {t \in Trips : sw \/ ~Ahead(st, fr, t[1], t[2])}

\* A walk is of a root that was taken from the list, and then of a router that
\* was warned about.
Begins(st, fr, sw, wa) ==
  /\ sw => \A k \in 1..Len(st) : st[1].symbol \in Warned(wa)
  /\ ~sw => /\ \A k \in 1..Len(st) : st[1].symbol \in Roots /\ st[1].symbol \notin ToSet(fr)
            /\ ToSet(fr) \subseteq Roots
            /\ \A j, k \in 1..Len(fr) : fr[j] = fr[k] => j = k

\* Where a way leads was reached, once the way is behind the walk.
ReachesAll(st, fr, sw, re) ==
  \A r \in Roots : \A w \in Ways(r) : sw \/ ~Ahead(st, fr, r, w) => End(r, w) \in re

\* What way w lets through of router s is listed, as orphaned.
Told(s, w, li) ==
  \A at \in LetThrough(s, Narrowed(w)) : \E k \in 1..Len(li) : IsOf(li[k], at) /\ li[k].orphaned = TRUE

\* What was reached is reachable, or else is behind a router that was warned about.
IsAccounted(s, sw, wa) ==
  \/ Reachable(s)
  \/ sw /\ \E t \in Warned(wa) : \E w \in Ways(t) : End(t, w) = s

Reaches(sw, re, wa) == \A s \in re : IsAccounted(s, sw, wa)

\* Routers are warned about when the roots are walked, and every way from one is
\* still ahead of the walk or was told of.
Tells(st, sw, li, wa) ==
  \A t \in Warned(wa) : sw /\ \A w \in Ways(t) : AheadOn(st, t, w) \/ Told(End(t, w), w, li)

Warns(fr, sw, re, wa) ==
  /\ Untraced \subseteq wa
  /\ \A s \in Warned(wa) : ~Reachable(s)
  /\ sw => \A s \in Symbol : Known(s) => s \in re \/ s \in ToSet(fr) \/ Implicit(s)

\* Of the stack, the roots or orphans to come, and what was reached, listed and warned
\* about: what is behind the walk is accounted for, and the rest is ahead.
OnCourse(st, fr, sw, re, li, wa) ==
  /\ OnTrail(st) /\ Begins(st, fr, sw, wa)
  /\ ReachesAll(st, fr, sw, re) /\ Reaches(sw, re, wa) /\ Warns(fr, sw, re, wa)
  /\ Tells(st, sw, li, wa) /\ Tally(DoneTrips(st, fr, sw), sw, li)

\* All of it is about the facts and the graph, which the walk leaves as they are.
LEMMA SameTrails ==
  ASSUME facts' = facts, graph' = graph
  PROVE  /\ \A st : OnTrail(st)' <=> OnTrail(st)
         /\ \A st, r, w : AheadOn(st, r, w)' <=> AheadOn(st, r, w)
<1>1. \A f : IsFrameOfRouter(f)' <=> IsFrameOfRouter(f)
  BY SameTypes
<1>2. \A s, e : EdgeOf(s, e)' = EdgeOf(s, e)
  BY DEF EdgeOf
<1>3. \A f : Taken(f)' = Taken(f) /\ LeftOf(f)' = LeftOf(f) /\ (Crosses(f)' <=> Crosses(f))
  BY <1>2 DEF Taken, LeftOf, Crosses
<1>4. \A st : IsTrail(st)' <=> IsTrail(st)
  BY <1>1, <1>3 DEF IsTrail
<1>5. \A st, k : WayTo(st, k)' = WayTo(st, k)
  BY <1>3 DEF WayTo
<1>6. \A s : OwnPrefix(s)' = OwnPrefix(s) /\ OwnGroup(s)' = OwnGroup(s)
  BY SameDeclarations
<1>7. \A s, w : PathAlong(s, w)' = PathAlong(s, w)
  <2>1. \A E : Adds(E)' = Adds(E)
    BY <1>6 DEF Adds
  <2>2. \A w : Passed(w)' = Passed(w)
    BY <2>1 DEF Passed
  <2> QED
    BY <1>6, <2>2 DEF PathAlong
<1>8. \A s, w : GroupAlong(s, w)' = GroupAlong(s, w)
  <2>1. \A E : Groups(E)' = Groups(E)
    BY <1>6 DEF Groups
  <2>2. \A w : GroupsAlong(w)' = GroupsAlong(w)
    BY <2>1 DEF GroupsAlong
  <2> QED
    BY <1>6, <2>2 DEF GroupAlong
<1>9. \A f, s, w : IsGiven(f, s, w)' <=> IsGiven(f, s, w)
  BY <1>7, <1>8 DEF IsGiven
<1>10. \A st : Gives(st)' <=> Gives(st)
  BY <1>5, <1>9 DEF Gives
<1>11. \A st, w, j : AheadAt(st, w, j)' <=> AheadAt(st, w, j)
  BY <1>3 DEF AheadAt
<1> QED
  BY <1>4, <1>10, <1>11 DEF OnTrail, AheadOn

LEMMA SameUntraced ==
  ASSUME facts' = facts
  PROVE  Untraced' = Untraced
<1>0. \A s : Known(s)' <=> Known(s)
  BY SameRoots
<1>1. \A reference : Resolve(reference)' = Resolve(reference)
  BY SameResolution
<1>2. {i \in DOMAIN facts.routes : Resolve(facts.routes[i].router) = None}'
        = {i \in DOMAIN facts.routes : Resolve(facts.routes[i].router) = None}
  BY <1>1
<1>3. {i \in DOMAIN facts.mounts :
            None \in {Resolve(facts.mounts[i].parent), Resolve(facts.mounts[i].child)}}'
        = {i \in DOMAIN facts.mounts :
            None \in {Resolve(facts.mounts[i].parent), Resolve(facts.mounts[i].child)}}
  BY <1>1
<1>4. {i \in DOMAIN facts.mounts :
            LET child == Resolve(facts.mounts[i].child) IN
              /\ Resolve(facts.mounts[i].parent) # None /\ child # None
              /\ ~Known(child)}'
        = {i \in DOMAIN facts.mounts :
            LET child == Resolve(facts.mounts[i].child) IN
              /\ Resolve(facts.mounts[i].parent) # None /\ child # None
              /\ ~Known(child)}
  BY <1>0, <1>1
<1> QED
  BY <1>2, <1>3, <1>4, Zenon DEF Untraced

LEMMA SameCourse ==
  ASSUME facts' = facts, graph' = graph
  PROVE  \A st, fr, sw, re, li, wa : OnCourse(st, fr, sw, re, li, wa)' <=> OnCourse(st, fr, sw, re, li, wa)
<1>1. /\ \A st : OnTrail(st)' <=> OnTrail(st)
      /\ \A st, r, w : AheadOn(st, r, w)' <=> AheadOn(st, r, w)
  BY SameTrails
<1>2. /\ Roots' = Roots /\ Trips' = Trips
      /\ \A s : Known(s)' <=> Known(s)
      /\ \A s : Implicit(s)' <=> Implicit(s)
      /\ \A s : Ways(s)' = Ways(s)
      /\ \A s, methods : LetThrough(s, methods)' = LetThrough(s, methods)
      /\ \A s, w, at : Row(s, w, at)' = Row(s, w, at)
  BY SameRoots, SameWays, SameRows, SameDeclarations
<1>3. \A s : Reachable(s)' <=> Reachable(s)
  BY <1>2 DEF Reachable
<1>4. \A st, fr, r, w : Ahead(st, fr, r, w)' <=> Ahead(st, fr, r, w)
  BY <1>1 DEF Ahead
<1>5. \A st, fr, sw : DoneTrips(st, fr, sw)' = DoneTrips(st, fr, sw)
  BY <1>2, <1>4 DEF DoneTrips
<1>6. \A st, fr, sw, wa : Begins(st, fr, sw, wa)' <=> Begins(st, fr, sw, wa)
  BY <1>2 DEF Begins
<1>7. \A st, fr, sw, re : ReachesAll(st, fr, sw, re)' <=> ReachesAll(st, fr, sw, re)
  BY <1>2, <1>4 DEF ReachesAll
<1>8. \A s, w, li : Told(s, w, li)' <=> Told(s, w, li)
  <2>1. \A row, at : IsOf(row, at)' <=> IsOf(row, at)
    BY DEF IsOf
  <2> QED
    BY <1>2, <2>1 DEF Told
<1>9. \A s, sw, wa : IsAccounted(s, sw, wa)' <=> IsAccounted(s, sw, wa)
  BY <1>2, <1>3 DEF IsAccounted
<1>10. \A sw, re, wa : Reaches(sw, re, wa)' <=> Reaches(sw, re, wa)
  BY <1>9 DEF Reaches
<1>16. \A st, sw, li, wa : Tells(st, sw, li, wa)' <=> Tells(st, sw, li, wa)
  BY <1>1, <1>2, <1>8 DEF Tells
<1>11. Untraced' = Untraced
  BY SameUntraced
<1>12. \A fr, sw, re, wa : Warns(fr, sw, re, wa)' <=> Warns(fr, sw, re, wa)
  BY <1>2, <1>3, <1>11 DEF Warns
<1>13. \A t : RowOf(t)' = RowOf(t)
  BY <1>2 DEF RowOf
<1>14. \A q, D, rows : IsTally(q, D, rows)' <=> IsTally(q, D, rows)
  BY <1>13 DEF IsTally
<1>15. \A D, sw, rows : Tally(D, sw, rows)' <=> Tally(D, sw, rows)
  BY <1>14 DEF Tally
<1> QED
  BY <1>1, <1>5, <1>6, <1>7, <1>10, <1>12, <1>15, <1>16 DEF OnCourse

LEMMA TripsAre ==
  \A t : t \in Trips <=> \E r \in Roots : \E w \in Ways(r) : \E at \in LetThrough(End(r, w), Narrowed(w)) :
                           t = <<r, w, at>>
BY DEF Trips

\* Nothing is walked, nothing is listed.
LEMMA EmptyTally ==
  Tally({}, FALSE, <<>>)
<1>1. PICK q : q = <<>>
  OBVIOUS
<1>2. Lists(q, {}) /\ Len(q) = 0 /\ q = <<>>
  <2>1. PICK T, n : T = {} /\ n = 0
    OBVIOUS
  <2>2. /\ q \in Seq(T) /\ Len(q) = n /\ n \in Nat
        /\ \A x \in T : \E k \in 1..n : q[k] = x
        /\ \A j, k \in 1..n : q[j] = q[k] => j = k
    BY <1>1, <2>1
  <2>3. Lists(q, T)
    BY ONLY <2>2, EachOnce
  <2> QED
    BY <1>1, <2>1, <2>2, <2>3
<1>3. IsTally(q, {}, <<>>) /\ Len(q) = Len(<<>>)
  BY <1>2 DEF IsTally
<1> QED
  BY <1>3 DEF Tally

LEMMA FirstCourse ==
  ASSUME facts \in Found, GraphBuilt, stack = <<>>, Lists(from, Roots), sweeping = FALSE, reached = {},
         listed = <<>>, warnings = Untraced
  PROVE  OnCourse(stack, from, sweeping, reached, listed, warnings)
<1>1. Len(stack) = 0
  OBVIOUS
<1>2. OnTrail(stack)
  BY <1>1, NoTrail
<1>3. ToSet(from) = Roots
  BY DEF Lists, ToSet
<1>4. Begins(stack, from, FALSE, warnings)
  <2>1. \A j, k \in 1..Len(from) : from[j] = from[k] => j = k
    BY DEF Lists
  <2> QED
    BY <1>1, <1>3, <2>1 DEF Begins
<1>5. \A r \in Roots : \A w : Ahead(stack, from, r, w)
  BY <1>3 DEF Ahead
<1>6. ReachesAll(stack, from, FALSE, reached) /\ Reaches(FALSE, reached, warnings)
  BY <1>5 DEF ReachesAll, Reaches
<1>7. Warned(warnings) = {}
  BY DEF Warned, Untraced, Warning
<1>8. Warns(from, FALSE, reached, warnings)
  BY <1>7 DEF Warns
<1>11. Tells(stack, FALSE, listed, warnings)
  BY <1>7 DEF Tells
<1>9. DoneTrips(stack, from, FALSE) = {}
  BY <1>5, TripsAre DEF DoneTrips
<1>10. Tally(DoneTrips(stack, from, FALSE), FALSE, listed)
  BY <1>9, EmptyTally
<1> QED
  BY <1>2, <1>4, <1>6, <1>8, <1>10, <1>11 DEF OnCourse

\* A step that neither reaches nor lists anything.
LEMMA KeepCourse ==
  ASSUME NEW st, NEW fr, NEW sw, NEW re, NEW li, NEW wa, OnCourse(st, fr, sw, re, li, wa),
         NEW to, NEW fo, NEW wo, OnTrail(to), Begins(to, fo, sw, wo),
         Warned(wo) = Warned(wa), Untraced \subseteq wo,
         \A r \in Roots : \A w \in Ways(r) : sw \/ (Ahead(st, fr, r, w) <=> Ahead(to, fo, r, w)),
         \A r : \A w \in Ways(r) : AheadOn(st, r, w) <=> AheadOn(to, r, w),
         sw => \A s \in ToSet(fr) : s \in ToSet(fo) \/ s \in re \/ Implicit(s)
  PROVE  OnCourse(to, fo, sw, re, li, wo)
<1>1. /\ ReachesAll(st, fr, sw, re) /\ Reaches(sw, re, wa) /\ Warns(fr, sw, re, wa) /\ Tells(st, sw, li, wa)
      /\ Tally(DoneTrips(st, fr, sw), sw, li)
  BY DEF OnCourse
<1>2. ReachesAll(to, fo, sw, re)
  BY <1>1 DEF ReachesAll
<1>3. Reaches(sw, re, wo) /\ Tells(to, sw, li, wo)
  BY <1>1 DEF Reaches, IsAccounted, Tells
<1>4. Warns(fo, sw, re, wo)
  BY <1>1 DEF Warns
<1>5. DoneTrips(to, fo, sw) = DoneTrips(st, fr, sw)
  <2>1. ASSUME NEW t \in Trips
        PROVE  sw \/ (Ahead(st, fr, t[1], t[2]) <=> Ahead(to, fo, t[1], t[2]))
    <3>1. PICK r, w, at : r \in Roots /\ w \in Ways(r) /\ t = <<r, w, at>>
      BY TripsAre
    <3> QED
      BY <3>1
  <2> QED
    BY <2>1 DEF DoneTrips
<1> QED
  BY <1>1, <1>2, <1>3, <1>4, <1>5 DEF OnCourse

\* One way less is ahead.
OneBehind(st, fr, to, fo, s, c) ==
  /\ ~Ahead(to, fo, s, c)
  /\ \A r \in Roots : \A w \in Ways(r) : Ahead(st, fr, r, w) <=> Ahead(to, fo, r, w) \/ (r = s /\ w = c)

\* A step of the walk from a root that reaches a router.
LEMMA RootCourse ==
  ASSUME facts \in Found, GraphBuilt, ~sweeping,
         NEW st, NEW fr, NEW re, NEW li, NEW wa, OnCourse(st, fr, FALSE, re, li, wa),
         li \in Seq(ToSet(li)),
         NEW to, NEW fo, OnTrail(to), Begins(to, fo, FALSE, wa),
         NEW s \in Roots, NEW c, NEW rows, NEW at, Visited(s, c, rows, at),
         OneBehind(st, fr, to, fo, s, c)
  PROVE  OnCourse(to, fo, FALSE, re \union {End(s, c)}, li \o rows, wa)
<1>1. /\ ReachesAll(st, fr, FALSE, re) /\ Reaches(FALSE, re, wa) /\ Warns(fr, FALSE, re, wa)
      /\ Tells(st, FALSE, li, wa) /\ Tally(DoneTrips(st, fr, FALSE), FALSE, li)
  BY DEF OnCourse
<1>0. /\ ~Ahead(to, fo, s, c)
      /\ \A r \in Roots : \A w \in Ways(r) : Ahead(st, fr, r, w) <=> Ahead(to, fo, r, w) \/ (r = s /\ w = c)
  BY DEF OneBehind
<1>2. PICK now : now = re \union {End(s, c)}
  OBVIOUS
<1>3. c \in Ways(s)
  BY DEF Visited
<1>4. ReachesAll(to, fo, FALSE, now)
  BY <1>0, <1>1, <1>2, <1>3 DEF ReachesAll
<1>5. Reaches(FALSE, now, wa) /\ Tells(to, FALSE, li \o rows, wa)
  <2>1. Reachable(End(s, c))
    BY <1>3 DEF Reachable
  <2>2. Reaches(FALSE, now, wa)
    BY <1>1, <1>2, <2>1 DEF Reaches, IsAccounted
  <2>3. Warned(wa) = {}
    BY <1>1 DEF Tells
  <2> QED
    BY <2>2, <2>3 DEF Tells
<1>6. Warns(fo, FALSE, now, wa)
  BY <1>1 DEF Warns
<1>7. Tally(DoneTrips(to, fo, FALSE), FALSE, li \o rows)
  <2>1. PICK D, T : D = DoneTrips(st, fr, FALSE) /\ T = TripsAlong(s, c, LetThrough(End(s, c), Narrowed(c)))
    OBVIOUS
  <2>2. \A t \in D : ~(t[1] = s /\ t[2] = c)
    <3>1. Ahead(st, fr, s, c)
      BY <1>0, <1>3
    <3>2. \A t \in D : ~Ahead(st, fr, t[1], t[2])
      BY <2>1 DEF DoneTrips
    <3>3. SUFFICES ASSUME NEW t \in D, t[1] = s, t[2] = c PROVE FALSE
      OBVIOUS
    <3> QED
      BY <3>1, <3>2, <3>3
  <2>3. Tally(D \union T, FALSE, li \o rows)
    <3>1. /\ ~sweeping /\ li \in Seq(ToSet(li)) /\ Tally(D, FALSE, li) /\ Visited(s, c, rows, at)
          /\ \A t \in D : ~(t[1] = s /\ t[2] = c)
      BY <1>1, <2>1, <2>2
    <3> QED
      BY ONLY <2>1, <3>1, TallyGrows
  <2>4. ASSUME NEW t PROVE t \in DoneTrips(to, fo, FALSE) <=> t \in D \union T
    <3>1. CASE t \in Trips
      <4>1. PICK r, w, a : /\ r \in Roots /\ w \in Ways(r) /\ a \in LetThrough(End(r, w), Narrowed(w))
                           /\ t = <<r, w, a>>
        BY <3>1, TripsAre
      <4>2. t[1] = r /\ t[2] = w
        BY <4>1
      <4>3. t \in DoneTrips(to, fo, FALSE) <=> ~Ahead(to, fo, r, w)
        BY <3>1, <4>2 DEF DoneTrips
      <4>4. t \in D <=> ~Ahead(st, fr, r, w)
        BY <2>1, <3>1, <4>2 DEF DoneTrips
      <4>5. t \in T <=> r = s /\ w = c
        BY <2>1, <4>1 DEF TripsAlong
      <4>6. Ahead(st, fr, r, w) <=> Ahead(to, fo, r, w) \/ (r = s /\ w = c)
        BY <1>0, <4>1
      <4>7. r = s /\ w = c => ~Ahead(to, fo, r, w)
        BY <1>0
      <4> QED
        BY <4>3, <4>4, <4>5, <4>6, <4>7
    <3>2. CASE t \notin Trips
      <4>1. t \notin DoneTrips(to, fo, FALSE) /\ t \notin D
        BY <2>1, <3>2 DEF DoneTrips
      <4>2. t \notin T
        BY <1>3, <2>1, <3>2, TripsAre DEF TripsAlong
      <4> QED
        BY <4>1, <4>2
    <3> QED
      BY <3>1, <3>2
  <2>5. DoneTrips(to, fo, FALSE) = D \union T
    BY <2>4
  <2> QED
    BY <2>3, <2>5
<1> QED
  BY <1>2, <1>4, <1>5, <1>6, <1>7 DEF OnCourse

\* What is in one list or the other is in the two of them joined.
LEMMA RowsFollow ==
  ASSUME NEW p, NEW q, p \in Seq(ToSet(p)), q \in Seq(ToSet(q)), NEW r, NEW m, NEW n,
         IsJoined(r, p, m, q, n)
  PROVE  /\ \A k \in 1..m : \E j \in 1..Len(r) : r[j] = p[k]
         /\ \A k \in 1..n : \E j \in 1..Len(r) : r[j] = q[k]
<1>1. PICK S : S = ToSet(p) \union ToSet(q) /\ m = Len(p) /\ n = Len(q)
  BY DEF IsJoined
<1>2. p \in Seq(S) /\ q \in Seq(S) /\ m \in Nat /\ n \in Nat
  <2>1. ToSet(p) \subseteq S /\ ToSet(q) \subseteq S
    BY <1>1
  <2> QED
    BY <1>1, <2>1, SeqMonotonic, LenProperties
<1>3. /\ Len(r) = m + n
      /\ \A i \in 1..(m + n) : r[i] = IF i <= m THEN p[i] ELSE q[i - m]
  BY <1>1, <1>2, ConcatProperties DEF IsJoined
<1>4. ASSUME NEW k \in 1..m PROVE \E j \in 1..Len(r) : r[j] = p[k]
  <2>1. k \in 1..(m + n) /\ k <= m
    BY <1>2
  <2> QED
    BY <1>3, <2>1
<1>5. ASSUME NEW k \in 1..n PROVE \E j \in 1..Len(r) : r[j] = q[k]
  <2>1. PICK j : j = m + k
    OBVIOUS
  <2>2. j \in 1..(m + n) /\ ~(j <= m) /\ j - m = k
    BY <1>2, <2>1
  <2> QED
    BY <1>3, <2>2
<1> QED
  BY <1>1, <1>4, <1>5

\* What a visit of a walk behind an orphan lists is listed as orphaned.
LEMMA VisitTells ==
  ASSUME sweeping = TRUE, NEW li, li \in Seq(ToSet(li)), NEW s, NEW c, NEW rows, NEW at, Visited(s, c, rows, at)
  PROVE  /\ Told(End(s, c), c, li \o rows)
         /\ \A t, w : Told(t, w, li) => Told(t, w, li \o rows)
<1>1. PICK all, m, n : IsJoined(all, li, m, rows, n) /\ all = li \o rows /\ m = Len(li) /\ n = Len(rows)
  BY DEF IsJoined
<1>2. /\ rows \in Seq(ToSet(rows)) /\ Lists(at, LetThrough(End(s, c), Narrowed(c))) /\ Len(rows) = Len(at)
      /\ \A k \in 1..Len(at) : IsOf(rows[k], at[k]) /\ rows[k].orphaned = TRUE
  BY DEF Visited
<1>3. /\ \A k \in 1..Len(li) : \E j \in 1..Len(all) : all[j] = li[k]
      /\ \A k \in 1..Len(rows) : \E j \in 1..Len(all) : all[j] = rows[k]
  <2>1. li \in Seq(ToSet(li)) /\ rows \in Seq(ToSet(rows)) /\ IsJoined(all, li, m, rows, n)
    BY <1>1, <1>2
  <2>2. /\ \A k \in 1..m : \E j \in 1..Len(all) : all[j] = li[k]
        /\ \A k \in 1..n : \E j \in 1..Len(all) : all[j] = rows[k]
    BY ONLY <2>1, RowsFollow
  <2> QED
    BY <1>1, <2>2
<1>4. Told(End(s, c), c, all)
  <2>1. SUFFICES ASSUME NEW a \in LetThrough(End(s, c), Narrowed(c))
                 PROVE  \E k \in 1..Len(all) : IsOf(all[k], a) /\ all[k].orphaned = TRUE
    BY DEF Told
  <2>2. PICK k \in 1..Len(at) : at[k] = a
    BY <1>2 DEF Lists
  <2>3. PICK j \in 1..Len(all) : all[j] = rows[k]
    BY <1>2, <1>3
  <2> QED
    BY <1>2, <2>2, <2>3
<1>5. ASSUME NEW t, NEW w, Told(t, w, li) PROVE Told(t, w, all)
  <2>1. SUFFICES ASSUME NEW a \in LetThrough(t, Narrowed(w))
                 PROVE  \E k \in 1..Len(all) : IsOf(all[k], a) /\ all[k].orphaned = TRUE
    BY DEF Told
  <2>2. PICK k \in 1..Len(li) : IsOf(li[k], a) /\ li[k].orphaned = TRUE
    BY <1>5 DEF Told
  <2>3. PICK j \in 1..Len(all) : all[j] = li[k]
    BY <1>3
  <2> QED
    BY <2>2, <2>3
<1> QED
  BY <1>1, <1>4, <1>5

\* One way less is ahead, or a router is started from that was not before.
MovesOn(st, wa, to, wo, s, c) ==
  \A t \in Warned(wo) : \A w \in Ways(t) :
    AheadOn(to, t, w) \/ (t = s /\ w = c) \/ (t \in Warned(wa) /\ ~AheadOn(st, t, w))

\* A step of the walk behind an orphan that reaches a router.
LEMMA OrphanCourse ==
  ASSUME facts \in Found, GraphBuilt, sweeping = TRUE,
         NEW st, NEW fr, NEW re, NEW li, NEW wa, OnCourse(st, fr, TRUE, re, li, wa),
         li \in Seq(ToSet(li)),
         NEW to, NEW fo, NEW wo, OnTrail(to), Begins(to, fo, TRUE, wo),
         NEW s, NEW c, NEW rows, NEW at, Visited(s, c, rows, at),
         \A t : t \in Warned(wo) <=> t \in Warned(wa) \/ t = s,
         ~Reachable(s), wa \subseteq wo, MovesOn(st, wa, to, wo, s, c),
         \A t \in ToSet(fr) : t \in ToSet(fo) \/ t = End(s, c)
  PROVE  OnCourse(to, fo, TRUE, re \union {End(s, c)}, li \o rows, wo)
<1>1. /\ ReachesAll(st, fr, TRUE, re) /\ Reaches(TRUE, re, wa) /\ Warns(fr, TRUE, re, wa)
      /\ Tells(st, TRUE, li, wa) /\ Tally(DoneTrips(st, fr, TRUE), TRUE, li)
  BY DEF OnCourse
<1>2. PICK now, all : now = re \union {End(s, c)} /\ all = li \o rows
  OBVIOUS
<1>3. c \in Ways(s) /\ s \in Symbol
  BY DEF Visited
<1>4. ReachesAll(to, fo, TRUE, now)
  BY <1>1, <1>2 DEF ReachesAll
<1>5. Reaches(TRUE, now, wo)
  <2>2. IsAccounted(End(s, c), TRUE, wo)
    BY <1>3 DEF IsAccounted
  <2>3. ASSUME NEW t, IsAccounted(t, TRUE, wa) PROVE IsAccounted(t, TRUE, wo)
    BY <2>3 DEF IsAccounted
  <2> QED
    BY <1>1, <1>2, <2>2, <2>3 DEF Reaches
<1>8. Tells(to, TRUE, all, wo)
  <2>1. Told(End(s, c), c, all) /\ \A t, w : Told(t, w, li) => Told(t, w, all)
    BY <1>2, VisitTells
  <2>2. SUFFICES ASSUME NEW t \in Warned(wo), NEW w \in Ways(t), ~AheadOn(to, t, w)
                 PROVE  Told(End(t, w), w, all)
    BY DEF Tells
  <2>3. CASE t = s /\ w = c
    BY <2>1, <2>3
  <2>4. CASE t \in Warned(wa) /\ ~AheadOn(st, t, w)
    BY <1>1, <2>1, <2>4 DEF Tells
  <2> QED
    BY <2>2, <2>3, <2>4 DEF MovesOn
<1>6. Warns(fo, TRUE, now, wo)
  BY <1>1, <1>2 DEF Warns
<1>7. Tally(DoneTrips(to, fo, TRUE), TRUE, all)
  <2>1. DoneTrips(to, fo, TRUE) = DoneTrips(st, fr, TRUE)
    BY DEF DoneTrips
  <2>2. PICK D : D = DoneTrips(st, fr, TRUE)
    OBVIOUS
  <2>3. sweeping = TRUE /\ li \in Seq(ToSet(li)) /\ Tally(D, TRUE, li) /\ Visited(s, c, rows, at)
    BY <1>1, <2>2
  <2>4. Tally(D, TRUE, li \o rows)
    BY ONLY <2>3, TallyStays
  <2> QED
    BY <1>2, <2>1, <2>2, <2>4
<1> QED
  BY <1>2, <1>4, <1>5, <1>6, <1>7, <1>8 DEF OnCourse

\* The roots are walked.
LEMMA SweepCourse ==
  ASSUME NEW st, Len(st) = 0, NEW re, NEW li, NEW wa, OnCourse(st, <<>>, FALSE, re, li, wa),
         NEW fo, \A s \in Symbol : Known(s) => s \in re \/ s \in ToSet(fo)
  PROVE  OnCourse(st, fo, TRUE, re, li, wa)
<1>1. /\ OnTrail(st) /\ ReachesAll(st, <<>>, FALSE, re) /\ Reaches(FALSE, re, wa)
      /\ Warns(<<>>, FALSE, re, wa) /\ Tells(st, FALSE, li, wa) /\ Tally(DoneTrips(st, <<>>, FALSE), FALSE, li)
  BY DEF OnCourse
<1>2. \A r, w : ~Ahead(st, <<>>, r, w)
  <2>1. ToSet(<<>>) = {}
    BY DEF ToSet
  <2> QED
    BY <2>1 DEF Ahead, AheadOn
<1>3. ReachesAll(st, fo, TRUE, re)
  BY <1>1, <1>2 DEF ReachesAll
<1>4. Begins(st, fo, TRUE, wa)
  BY DEF Begins
<1>5. Reaches(TRUE, re, wa) /\ Tells(st, TRUE, li, wa)
  BY <1>1 DEF Reaches, IsAccounted, Tells
<1>6. Warns(fo, TRUE, re, wa)
  BY <1>1 DEF Warns
<1>7. Tally(DoneTrips(st, fo, TRUE), TRUE, li)
  <2>1. DoneTrips(st, fo, TRUE) = Trips /\ DoneTrips(st, <<>>, FALSE) = Trips
    BY <1>2 DEF DoneTrips
  <2> QED
    BY <1>1, <2>1 DEF Tally
<1> QED
  BY <1>1, <1>3, <1>4, <1>5, <1>6, <1>7 DEF OnCourse

Course == graph # None => OnCourse(stack, from, sweeping, reached, listed, warnings)

\* Which warnings are about what no root leads to.
LEMMA OtherWarnings ==
  ASSUME NEW wa, NEW t, NEW wo, NEW kind \in {"cycle", "too deep"}, wo = wa \union {Warning(kind, t)}
  PROVE  Warned(wo) = Warned(wa) /\ wa \subseteq wo
BY DEF Warned, Warning

LEMMA OrphanWarnings ==
  ASSUME NEW wa, NEW s \in Symbol, NEW kind \in {"orphaned", "undeclared router"}
  PROVE  \A t : t \in Warned(wa \union {Warning(kind, s)}) <=> t \in Warned(wa) \/ t = s
BY DEF Warned, Warning

\* The next one to start from.
IsTurn(fr, h, fo) == fr # <<>> /\ h = Head(fr) /\ fo = Tail(fr)

LEMMA NextTurn ==
  ASSUME NEW S, NEW fr \in Seq(S), NEW h, NEW fo, IsTurn(fr, h, fo)
  PROVE  /\ h \in S /\ \A x : x \in ToSet(fr) <=> x = h \/ x \in ToSet(fo)
         /\ (\A j, k \in 1..Len(fr) : fr[j] = fr[k] => j = k)
               => h \notin ToSet(fo) /\ \A j, k \in 1..Len(fo) : fo[j] = fo[k] => j = k
<1>1. PICK n : n = Len(fr)
  OBVIOUS
<1>2. /\ n \in Nat \ {0} /\ DOMAIN fr = 1..n /\ h = fr[1] /\ fo \in Seq(S) /\ Len(fo) = n - 1
      /\ \A k \in 1..(n - 1) : fo[k] = fr[k + 1]
  BY <1>1, HeadTailProperties, EmptySeq, LenProperties DEF IsTurn
<1>3. DOMAIN fo = 1..(n - 1)
  BY <1>2, LenProperties
<1>4. h \in S
  BY <1>2
<1>5. ASSUME NEW x PROVE x \in ToSet(fr) <=> x = h \/ x \in ToSet(fo)
  <2>1. ASSUME NEW k \in 1..n, fr[k] = x PROVE x = h \/ x \in ToSet(fo)
    <3>1. CASE k = 1
      BY <1>2, <2>1, <3>1
    <3>2. CASE k # 1
      <4>1. PICK j : j = k - 1
        OBVIOUS
      <4>2. j \in 1..(n - 1) /\ j + 1 = k
        BY <1>2, <3>2, <4>1
      <4> QED
        BY <1>2, <1>3, <2>1, <4>2 DEF ToSet
    <3> QED
      BY <3>1, <3>2
  <2>2. ASSUME NEW k \in 1..(n - 1), fo[k] = x PROVE x \in ToSet(fr)
    <3>1. k + 1 \in 1..n
      BY <1>2
    <3> QED
      BY <1>2, <2>2, <3>1 DEF ToSet
  <2>3. h \in ToSet(fr)
    <3>1. 1 \in 1..n
      BY <1>2
    <3> QED
      BY <1>2, <3>1 DEF ToSet
  <2> QED
    BY <1>2, <1>3, <2>1, <2>2, <2>3 DEF ToSet
<1>6. ASSUME \A j, k \in 1..n : fr[j] = fr[k] => j = k
      PROVE  h \notin ToSet(fo) /\ \A j, k \in 1..(n - 1) : fo[j] = fo[k] => j = k
  <2>1. ASSUME NEW k \in 1..(n - 1), fo[k] = h PROVE FALSE
    <3>1. k + 1 \in 1..n /\ 1 \in 1..n /\ k + 1 # 1
      BY <1>2
    <3> QED
      BY <1>2, <1>6, <2>1, <3>1
  <2>2. ASSUME NEW j \in 1..(n - 1), NEW k \in 1..(n - 1), fo[j] = fo[k] PROVE j = k
    <3>1. j + 1 \in 1..n /\ k + 1 \in 1..n
      BY <1>2
    <3>2. j + 1 = k + 1
      BY <1>2, <1>6, <2>2, <3>1
    <3> QED
      BY <1>2, <3>2
  <2> QED
    BY <1>3, <2>1, <2>2 DEF ToSet
<1> QED
  BY <1>1, <1>2, <1>4, <1>5, <1>6

\* The facts and the graph stay, and what is about them.
LEMMA CourseMoves ==
  ASSUME facts' = facts, graph' = graph,
         NEW st, st = stack', NEW fr, fr = from', NEW sw, sw = sweeping', NEW re, re = reached',
         NEW li, li = listed', NEW wa, wa = warnings', OnCourse(st, fr, sw, re, li, wa)
  PROVE  Course'
<1>1. \A a, b, c, d, e, f : OnCourse(a, b, c, d, e, f)' <=> OnCourse(a, b, c, d, e, f)
  BY SameCourse
<1>2. OnCourse(st, fr, sw, re, li, wa)'
  BY <1>1
<1>3. OnCourse(stack, from, sweeping, reached, listed, warnings)'
  BY <1>2
<1> QED
  BY <1>3 DEF Course

LEMMA IndexKeepsCourse ==
  ASSUME WalkTyped, Index, WalkTyped'
  PROVE  Course'
<1>1. /\ graph = None /\ from' = InOrder(Roots) /\ warnings' = Untraced
      /\ graph' = [routes |-> [s \in Symbol |-> RoutesOn(s)], mounts |-> [s \in Symbol |-> MountsOn(s)]]
      /\ facts' = facts /\ stack' = stack /\ sweeping' = sweeping /\ reached' = reached /\ listed' = listed
  BY DEF Index
<1>2. facts \in Found /\ stack = <<>> /\ listed = <<>> /\ reached = {} /\ sweeping = FALSE
  BY <1>1 DEF WalkTyped
<1>3. Lists(InOrder(Roots), Roots)
  BY <1>2, KnownSymbols, SomeInOrder
<1>4. Roots' = Roots
  BY <1>1, SameRoots
<1>5. Untraced' = Untraced
  BY <1>1, SameUntraced
<1>6. GraphBuilt'
  BY <1>1, SameRoots DEF GraphBuilt
<1>7. (facts \in Found /\ GraphBuilt /\ stack = <<>> /\ Lists(from, Roots) /\ sweeping = FALSE /\ reached = {}
         /\ listed = <<>> /\ warnings = Untraced)'
  BY <1>1, <1>2, <1>3, <1>4, <1>5, <1>6
<1>8. (facts \in Found /\ GraphBuilt /\ stack = <<>> /\ Lists(from, Roots) /\ sweeping = FALSE /\ reached = {}
         /\ listed = <<>> /\ warnings = Untraced
         => OnCourse(stack, from, sweeping, reached, listed, warnings))'
  BY FirstCourse, PTL
<1> QED
  BY <1>7, <1>8 DEF Course

LEMMA StartKeepsCourse ==
  ASSUME WalkTyped, Course, Start
  PROVE  Course'
<1>1. /\ graph # None /\ sweeping = FALSE /\ stack = <<>> /\ from # <<>>
      /\ Walk(Head(from), AtRoot, <<>>, warnings)
      /\ from' = Tail(from) /\ facts' = facts /\ graph' = graph /\ sweeping' = sweeping
  BY DEF Start, WalkTyped
<1>2. /\ facts \in Found /\ GraphBuilt /\ from \in Seq(Symbol) /\ listed \in Seq(ToSet(listed))
  BY <1>1 DEF WalkTyped
<1>3. PICK st, s, old, fr : st = stack' /\ IsTurn(from, s, fr) /\ s = Head(from) /\ fr = from' /\ old = stack
  BY <1>1 DEF IsTurn
<1>4. /\ s \in Symbol /\ \A x : x \in ToSet(from) <=> x = s \/ x \in ToSet(fr)
      /\ (\A j, k \in 1..Len(from) : from[j] = from[k] => j = k)
            => s \notin ToSet(fr) /\ \A j, k \in 1..Len(fr) : fr[j] = fr[k] => j = k
  BY <1>2, <1>3, NextTurn
<1>5. OnCourse(old, from, FALSE, reached, listed, warnings) /\ Len(old) = 0
  BY <1>1, <1>3 DEF Course
<1>6. Begins(old, from, FALSE, warnings)
  BY <1>5 DEF OnCourse
<1>7. s \in Roots /\ s \notin ToSet(fr) /\ ToSet(fr) \subseteq Roots /\ \A j, k \in 1..Len(fr) : fr[j] = fr[k] => j = k
  BY <1>4, <1>6 DEF Begins
<1>8. /\ OnTrail(st) /\ Len(st) = 1 /\ st[1].symbol = s
      /\ \E rows, at : Visited(s, <<>>, rows, at) /\ listed' = listed \o rows
      /\ End(s, <<>>) = s /\ reached' = reached \union {s} /\ warnings' = warnings
      /\ \A r : \A w \in Ways(r) : AheadOn(st, r, w) <=> s = r /\ w # <<>>
  BY <1>1, <1>3, <1>4, Starting
<1>9. PICK c, rows, at : c = <<>> /\ Visited(s, c, rows, at) /\ listed' = listed \o rows
  BY <1>8
<1>10. Begins(st, fr, FALSE, warnings)
  BY <1>7, <1>8 DEF Begins
<1>11. c \in Ways(s)
  BY <1>9 DEF Visited
<1>12. ~Ahead(st, fr, s, c)
  BY <1>7, <1>8, <1>9, <1>11 DEF Ahead
<1>13. \A r \in Roots : \A w \in Ways(r) : Ahead(old, from, r, w) <=> Ahead(st, fr, r, w) \/ (r = s /\ w = c)
  <2>1. \A r, w : ~AheadOn(old, r, w)
    BY <1>5 DEF AheadOn
  <2> QED
    BY <1>4, <1>8, <1>9, <2>1 DEF Ahead
<1>14. OnCourse(st, fr, FALSE, reached \union {End(s, c)}, listed \o rows, warnings)
  <2>1. PICK re, li, wa : re = reached /\ li = listed /\ wa = warnings
    OBVIOUS
  <2>2. PICK fo : fo = from
    OBVIOUS
  <2>3. /\ facts \in Found /\ GraphBuilt /\ ~sweeping /\ OnCourse(old, fo, FALSE, re, li, wa)
        /\ li \in Seq(ToSet(li)) /\ OnTrail(st) /\ Begins(st, fr, FALSE, wa) /\ s \in Roots
        /\ Visited(s, c, rows, at)
    BY <1>1, <1>2, <1>5, <1>7, <1>8, <1>9, <1>10, <2>1, <2>2
  <2>5. OneBehind(old, fo, st, fr, s, c)
    BY <1>12, <1>13, <2>2 DEF OneBehind
  <2>4. OnCourse(st, fr, FALSE, re \union {End(s, c)}, li \o rows, wa)
    BY ONLY <2>3, <2>5, RootCourse
  <2> QED
    BY <2>1, <2>4
<1>15. PICK re, li, wa, sw : re = reached' /\ li = listed' /\ wa = warnings' /\ sw = sweeping'
  OBVIOUS
<1>16. OnCourse(st, fr, sw, re, li, wa)
  <2>1. re = reached \union {End(s, c)} /\ li = listed \o rows /\ wa = warnings /\ sw = FALSE
    BY <1>1, <1>8, <1>9, <1>15
  <2> QED
    BY <1>14, <2>1
<1> QED
  BY <1>1, <1>3, <1>15, <1>16, CourseMoves

LEMMA ReturnKeepsCourse ==
  ASSUME WalkTyped, Course, Return
  PROVE  Course'
<1>1. /\ stack # <<>> /\ UNCHANGED <<facts, graph, from, sweeping, reached, listed, warnings>>
  BY DEF Return
<1>2. graph # None
  BY <1>1 DEF WalkTyped
<1>3. PICK st, old, fr, sw, re, li, wa : /\ st = stack' /\ old = stack /\ fr = from /\ sw = sweeping
                                         /\ re = reached /\ li = listed /\ wa = warnings
  OBVIOUS
<1>4. OnCourse(old, fr, sw, re, li, wa)
  BY <1>2, <1>3 DEF Course
<1>5. OnTrail(stack) /\ Begins(old, fr, sw, wa) /\ Warns(fr, sw, re, wa)
  BY <1>3, <1>4 DEF OnCourse
<1>6. /\ OnTrail(st) /\ Len(old) # 0 /\ (Len(st) # 0 => st[1].symbol = old[1].symbol)
      /\ \A r, w : AheadOn(old, r, w) <=> AheadOn(st, r, w)
  BY <1>3, <1>5, Returning
<1>7. Begins(st, fr, sw, wa)
  <2>1. Len(old) \in Nat /\ Len(st) \in Nat
    BY <1>3, <1>5, <1>6 DEF OnTrail, IsTrail
  <2>2. 1 \in 1..Len(old) /\ \A k \in 1..Len(st) : Len(st) # 0
    BY <1>6, <2>1
  <2> QED
    BY <1>5, <1>6, <2>2 DEF Begins
<1>8. OnCourse(st, fr, sw, re, li, wa)
  <2>1. \A r \in Roots : \A w \in Ways(r) : sw \/ (Ahead(old, fr, r, w) <=> Ahead(st, fr, r, w))
    BY <1>6 DEF Ahead
  <2>2. Untraced \subseteq wa
    BY <1>5 DEF Warns
  <2>3. /\ OnCourse(old, fr, sw, re, li, wa) /\ OnTrail(st) /\ Begins(st, fr, sw, wa) /\ Warned(wa) = Warned(wa)
        /\ sw => \A s \in ToSet(fr) : s \in ToSet(fr) \/ s \in re \/ Implicit(s)
    BY <1>4, <1>6, <1>7
  <2>4. \A r : \A w \in Ways(r) : AheadOn(old, r, w) <=> AheadOn(st, r, w)
    BY <1>6
  <2> QED
    BY ONLY <2>1, <2>2, <2>3, <2>4, KeepCourse
<1>9. /\ st = stack' /\ fr = from' /\ sw = sweeping' /\ re = reached' /\ li = listed' /\ wa = warnings'
      /\ facts' = facts /\ graph' = graph
  BY <1>1, <1>3
<1> QED
  BY <1>8, <1>9, CourseMoves

LEMMA SweepKeepsCourse ==
  ASSUME WalkTyped, Course, Sweep
  PROVE  Course'
<1>1. /\ graph # None /\ sweeping = FALSE /\ stack = <<>> /\ from = <<>>
      /\ sweeping' = TRUE /\ from' = InOrder(Unreached)
      /\ UNCHANGED <<facts, graph, stack, reached, listed, warnings>>
  BY DEF Sweep, WalkTyped
<1>2. PICK st, fo, re, li, wa : /\ st = stack' /\ fo = from' /\ re = reached /\ li = listed /\ wa = warnings
  OBVIOUS
<1>3. OnCourse(st, <<>>, FALSE, re, li, wa) /\ Len(st) = 0
  BY <1>1, <1>2 DEF Course
<1>4. \A s \in Symbol : Known(s) => s \in re \/ s \in ToSet(fo)
  <2>1. facts \in Found
    BY DEF WalkTyped
  <2>2. Unreached \subseteq {s \in Symbol : Known(s)}
    BY DEF Unreached
  <2>3. Lists(InOrder(Unreached), Unreached)
    BY <2>1, <2>2, SomeInOrder
  <2>4. \A s \in Unreached : s \in ToSet(fo)
    BY <1>1, <1>2, <2>3 DEF Lists, ToSet
  <2> QED
    BY <1>2, <2>4 DEF Unreached
<1>5. OnCourse(st, fo, TRUE, re, li, wa)
  BY <1>3, <1>4, SweepCourse
<1> QED
  BY <1>1, <1>2, <1>5, CourseMoves

LEMMA DescendKeepsCourse ==
  ASSUME WalkTyped, Course, Descend
  PROVE  Course'
<1>1. stack # <<>> /\ UNCHANGED <<facts, graph, from, sweeping>>
  BY DEF Descend
<1>2. /\ graph # None /\ sweeping \in BOOLEAN /\ facts \in Found /\ GraphBuilt /\ listed \in Seq(ToSet(listed))
  BY <1>1 DEF WalkTyped
<1>3. PICK st, old, fr, sw, re, li, wa : /\ st = stack' /\ old = stack /\ fr = from /\ sw = sweeping
                                         /\ re = reached /\ li = listed /\ wa = warnings
  OBVIOUS
<1>4. OnCourse(old, fr, sw, re, li, wa)
  BY <1>2, <1>3 DEF Course
<1>5. OnTrail(stack) /\ Begins(old, fr, sw, wa) /\ Warns(fr, sw, re, wa)
  BY <1>3, <1>4 DEF OnCourse
<1>6. PICK s : s = old[1].symbol
  OBVIOUS
<1>7. /\ OnTrail(st) /\ Len(st) # 0 /\ Len(old) # 0 /\ st[1].symbol = s
      /\ Stopped(old, st) \/ \E c : WentOn(old, st, s, c)
  BY <1>1, <1>3, <1>5, <1>6, Descending
<1>8. ASSUME NEW wo, Warned(wo) = Warned(wa)
      PROVE  Begins(st, fr, sw, wo)
  <2>1. Len(old) \in Nat
    BY <1>3, <1>5 DEF OnTrail, IsTrail
  <2>2. 1 \in 1..Len(old)
    BY <1>7, <2>1
  <2> QED
    BY <1>5, <1>6, <1>7, <1>8, <2>2 DEF Begins
<1>9. CASE Stopped(old, st)
  <2>1. PICK wo : wo = warnings'
    OBVIOUS
  <2>2. /\ listed' = li /\ reached' = re
        /\ \E kind \in {"cycle", "too deep"} : \E t : wo = wa \union {Warning(kind, t)}
        /\ \A r : \A w \in Ways(r) : AheadOn(old, r, w) <=> AheadOn(st, r, w)
    BY <1>3, <1>9, <2>1 DEF Stopped
  <2>3. Warned(wo) = Warned(wa) /\ wa \subseteq wo
    BY <2>2, OtherWarnings
  <2>4. /\ OnCourse(old, fr, sw, re, li, wa) /\ OnTrail(st) /\ Begins(st, fr, sw, wo) /\ Warned(wo) = Warned(wa)
        /\ sw => \A t \in ToSet(fr) : t \in ToSet(fr) \/ t \in re \/ Implicit(t)
    BY <1>4, <1>7, <1>8, <2>3
  <2>5. Untraced \subseteq wo
    BY <1>5, <2>3 DEF Warns
  <2>6. \A r \in Roots : \A w \in Ways(r) : sw \/ (Ahead(old, fr, r, w) <=> Ahead(st, fr, r, w))
    BY <2>2 DEF Ahead
  <2>9. \A r : \A w \in Ways(r) : AheadOn(old, r, w) <=> AheadOn(st, r, w)
    BY <2>2
  <2>7. OnCourse(st, fr, sw, re, li, wo)
    BY ONLY <2>4, <2>5, <2>6, <2>9, KeepCourse
  <2>8. /\ st = stack' /\ fr = from' /\ sw = sweeping' /\ re = reached' /\ li = listed' /\ wo = warnings'
        /\ facts' = facts /\ graph' = graph
    BY <1>1, <1>3, <2>1, <2>2
  <2> QED
    BY <2>7, <2>8, CourseMoves
<1>10. ASSUME NEW c, WentOn(old, st, s, c)
       PROVE  Course'
  <2>1. /\ \E rows, at : Visited(s, c, rows, at) /\ listed' = li \o rows
        /\ reached' = re \union {End(s, c)} /\ warnings' = wa
        /\ \A r : ~AheadOn(st, r, c)
        /\ \A r : \A w \in Ways(r) : AheadOn(old, r, w) <=> AheadOn(st, r, w) \/ (r = s /\ w = c)
    BY <1>3, <1>10 DEF WentOn
  <2>2. PICK rows, at : Visited(s, c, rows, at) /\ listed' = li \o rows
    BY <2>1
  <2>3. Begins(st, fr, sw, wa)
    BY <1>8
  <2>4. 1 \in 1..Len(old)
    <3>1. Len(old) \in Nat
      BY <1>3, <1>5 DEF OnTrail, IsTrail
    <3> QED
      BY <1>7, <3>1
  <2>5. PICK now, all : now = re \union {End(s, c)} /\ all = li \o rows
    OBVIOUS
  <2>6. ASSUME sw = FALSE
        PROVE  OnCourse(st, fr, sw, now, all, wa)
    <3>0. sweeping = FALSE
      BY <1>3, <2>6
    <3>1. s \in Roots /\ s \notin ToSet(fr)
      BY <1>5, <1>6, <2>4, <2>6 DEF Begins
    <3>2. OneBehind(old, fr, st, fr, s, c)
      BY <2>1, <3>1 DEF OneBehind, Ahead
    <3>3. /\ facts \in Found /\ GraphBuilt /\ ~sweeping
          /\ li \in Seq(ToSet(li)) /\ OnTrail(st) /\ s \in Roots
          /\ Visited(s, c, rows, at)
      BY <1>2, <1>3, <1>7, <2>2, <3>0, <3>1
    <3>5. OnCourse(old, fr, FALSE, re, li, wa) /\ Begins(st, fr, FALSE, wa)
      BY <1>4, <2>3, <2>6, Zenon
    <3>4. OnCourse(st, fr, FALSE, re \union {End(s, c)}, li \o rows, wa)
      BY ONLY <3>2, <3>3, <3>5, RootCourse
    <3> QED
      BY <2>5, <2>6, <3>4
  <2>7. ASSUME sw = TRUE
        PROVE  OnCourse(st, fr, sw, now, all, wa)
    <3>1. s \in Warned(wa)
      BY <1>5, <1>6, <2>4, <2>7 DEF Begins
    <3>2. ~Reachable(s)
      BY <1>5, <3>1 DEF Warns
    <3>3. /\ \A t : t \in Warned(wa) <=> t \in Warned(wa) \/ t = s
          /\ \A t \in ToSet(fr) : t \in ToSet(fr) \/ t = End(s, c)
          /\ wa \subseteq wa
      BY <3>1
    <3>4. /\ facts \in Found /\ GraphBuilt /\ sweeping = TRUE /\ OnCourse(old, fr, TRUE, re, li, wa)
          /\ li \in Seq(ToSet(li)) /\ OnTrail(st) /\ Begins(st, fr, TRUE, wa)
          /\ Visited(s, c, rows, at)
      BY <1>2, <1>3, <1>4, <1>7, <2>2, <2>3, <2>7
    <3>6. MovesOn(old, wa, st, wa, s, c)
      BY <2>1 DEF MovesOn
    <3>5. OnCourse(st, fr, TRUE, re \union {End(s, c)}, li \o rows, wa)
      BY ONLY <3>2, <3>3, <3>4, <3>6, OrphanCourse
    <3> QED
      BY <2>5, <2>7, <3>5
  <2>8. /\ st = stack' /\ fr = from' /\ sw = sweeping' /\ now = reached' /\ all = listed' /\ wa = warnings'
        /\ facts' = facts /\ graph' = graph
    BY <1>1, <1>3, <2>1, <2>2, <2>5
  <2>9. OnCourse(st, fr, sw, now, all, wa)
    BY <1>2, <1>3, <2>5, <2>6, <2>7
  <2> QED
    BY <2>8, <2>9, CourseMoves
<1> QED
  BY <1>7, <1>9, <1>10

LEMMA OrphanKeepsCourse ==
  ASSUME WalkTyped, Course, StartOrphan
  PROVE  Course'
<1>1. /\ sweeping = TRUE /\ stack = <<>> /\ from # <<>> /\ from' = Tail(from)
      /\ facts' = facts /\ graph' = graph /\ sweeping' = sweeping
      /\ \/ PassedOver(Head(from)) /\ UNCHANGED <<stack, reached, listed, warnings>>
         \/ /\ ~PassedOver(Head(from))
            /\ Walk(Head(from), AtRoot, <<>>,
                    warnings \union
                      {Warning(IF Declared(Head(from)) THEN "orphaned" ELSE "undeclared router", Head(from))})
  BY DEF StartOrphan, WalkTyped
<1>2. graph # None
  BY <1>1 DEF WalkTyped
<1>3. /\ facts \in Found /\ GraphBuilt /\ from \in Seq(Symbol) /\ listed \in Seq(ToSet(listed))
  BY <1>2 DEF WalkTyped
<1>4. PICK st, s, old, fo, fr, re, li, wa :
        /\ st = stack' /\ IsTurn(from, s, fr) /\ s = Head(from) /\ fr = from' /\ old = stack /\ fo = from
        /\ re = reached /\ li = listed /\ wa = warnings
  BY <1>1 DEF IsTurn
<1>5. /\ s \in Symbol /\ \A x : x \in ToSet(fo) <=> x = s \/ x \in ToSet(fr)
  BY <1>3, <1>4, NextTurn
<1>6. OnCourse(old, fo, TRUE, re, li, wa) /\ Len(old) = 0
  BY <1>1, <1>2, <1>4 DEF Course
<1>7. OnTrail(old) /\ ReachesAll(old, fo, TRUE, re) /\ Warns(fo, TRUE, re, wa)
  BY <1>6 DEF OnCourse
<1>8. CASE PassedOver(s) /\ UNCHANGED <<stack, reached, listed, warnings>>
  <2>1. Begins(old, fr, TRUE, wa)
    BY <1>6 DEF Begins
  <2>2. Untraced \subseteq wa
    BY <1>7 DEF Warns
  <2>3. \A t \in ToSet(fo) : t \in ToSet(fr) \/ t \in re \/ Implicit(t)
    BY <1>4, <1>5, <1>8 DEF PassedOver
  <2>4. /\ OnCourse(old, fo, TRUE, re, li, wa) /\ OnTrail(old) /\ Begins(old, fr, TRUE, wa)
        /\ Warned(wa) = Warned(wa) /\ Untraced \subseteq wa
        /\ \A r \in Roots : \A w \in Ways(r) : TRUE \/ (Ahead(old, fo, r, w) <=> Ahead(old, fr, r, w))
        /\ \A r : \A w \in Ways(r) : AheadOn(old, r, w) <=> AheadOn(old, r, w)
    BY <1>6, <1>7, <2>1, <2>2
  <2>5. OnCourse(old, fr, TRUE, re, li, wa)
    BY ONLY <2>3, <2>4, KeepCourse
  <2>6. PICK sw : sw = sweeping'
    OBVIOUS
  <2>7. OnCourse(old, fr, sw, re, li, wa)
    BY <1>1, <2>5, <2>6
  <2>8. /\ old = stack' /\ fr = from' /\ sw = sweeping' /\ re = reached' /\ li = listed' /\ wa = warnings'
        /\ facts' = facts /\ graph' = graph
    BY <1>1, <1>4, <1>8, <2>6
  <2> QED
    BY <2>7, <2>8, CourseMoves
<1>9. ASSUME ~PassedOver(s), NEW wo, NEW kind \in {"orphaned", "undeclared router"},
             wo = wa \union {Warning(kind, s)}, Walk(s, AtRoot, <<>>, wo)
      PROVE  Course'
  <2>1. (\A t : t \in Warned(wo) <=> t \in Warned(wa) \/ t = s) /\ wa \subseteq wo
    <3>1. \A t : t \in Warned(wa \union {Warning(kind, s)}) <=> t \in Warned(wa) \/ t = s
      BY <1>5, <1>9, OrphanWarnings
    <3> QED
      BY <1>9, <3>1, Zenon
  <2>2. /\ OnTrail(st) /\ Len(st) = 1 /\ st[1].symbol = s
        /\ \E rows, at : Visited(s, <<>>, rows, at) /\ listed' = listed \o rows
        /\ End(s, <<>>) = s /\ reached' = reached \union {s} /\ warnings' = wo
        /\ \A r : \A w \in Ways(r) : AheadOn(st, r, w) <=> s = r /\ w # <<>>
    <3>1. WalkTyped /\ graph # None /\ s \in Symbol /\ Walk(s, AtRoot, <<>>, wo) /\ st = stack'
      BY <1>2, <1>4, <1>5, <1>9
    <3> QED
      BY ONLY <3>1, Starting
  <2>3. PICK c, rows, at : c = <<>> /\ Visited(s, c, rows, at) /\ listed' = listed \o rows
    BY <2>2
  <2>4. ~Reachable(s)
    <3>1. s \notin re
      BY <1>4, <1>9 DEF PassedOver
    <3> QED
      BY <1>7, <3>1 DEF ReachesAll, Reachable
  <2>5. Begins(st, fr, TRUE, wo)
    BY <2>1, <2>2 DEF Begins
  <2>6. \A t \in ToSet(fo) : t \in ToSet(fr) \/ t = End(s, c)
    BY <1>5, <2>2, <2>3
  <2>7. /\ facts \in Found /\ GraphBuilt /\ sweeping = TRUE /\ OnCourse(old, fo, TRUE, re, li, wa)
        /\ li \in Seq(ToSet(li)) /\ OnTrail(st) /\ Begins(st, fr, TRUE, wo)
        /\ Visited(s, c, rows, at)
    BY <1>1, <1>3, <1>4, <1>6, <2>2, <2>3, <2>5
  <2>12. MovesOn(old, wa, st, wo, s, c)
    <3>1. Len(old) = 0
      BY <1>6
    <3>2. \A r, w : ~AheadOn(old, r, w)
      BY <3>1, NothingAhead
    <3> QED
      BY <2>1, <2>2, <2>3, <3>2 DEF MovesOn
  <2>8. OnCourse(st, fr, TRUE, re \union {End(s, c)}, li \o rows, wo)
    BY ONLY <2>1, <2>4, <2>6, <2>7, <2>12, OrphanCourse
  <2>9. PICK now, all, sw : now = re \union {End(s, c)} /\ all = li \o rows /\ sw = sweeping'
    OBVIOUS
  <2>10. OnCourse(st, fr, sw, now, all, wo)
    BY <1>1, <2>8, <2>9
  <2>11. /\ st = stack' /\ fr = from' /\ sw = sweeping' /\ now = reached' /\ all = listed' /\ wo = warnings'
         /\ facts' = facts /\ graph' = graph
    BY <1>1, <1>4, <2>2, <2>3, <2>9
  <2> QED
    BY <2>10, <2>11, CourseMoves
<1>10. ASSUME ~PassedOver(s) PROVE Course'
  <2>1. PICK kind, wo : /\ kind = (IF Declared(s) THEN "orphaned" ELSE "undeclared router")
                        /\ wo = wa \union {Warning(kind, s)}
    OBVIOUS
  <2>2. kind \in {"orphaned", "undeclared router"} /\ Walk(s, AtRoot, <<>>, wo)
    BY <1>1, <1>4, <1>10, <2>1
  <2> QED
    BY <1>9, <1>10, <2>1, <2>2
<1> QED
  BY <1>1, <1>4, <1>8, <1>10

LEMMA CourseStays ==
  ASSUME WalkTyped, Course, [RegistrationNext]_registrationVars, WalkTyped'
  PROVE  Course'
<1>1. CASE UNCHANGED registrationVars
  <2>1. UNCHANGED <<facts, graph, from, sweeping, stack, reached, listed, warnings>>
    BY <1>1 DEF registrationVars, walkVars
  <2>2. CASE graph = None
    BY <2>1, <2>2 DEF Course
  <2>3. CASE graph # None
    BY <2>1, <2>3, CourseMoves DEF Course
  <2> QED
    BY <2>2, <2>3
<1> QED
  BY <1>1, IndexKeepsCourse, StartKeepsCourse, DescendKeepsCourse, ReturnKeepsCourse, SweepKeepsCourse,
     OrphanKeepsCourse DEF RegistrationNext

\* What is tallied when the walk is done.
LEMMA TalliedAtLast ==
  ASSUME WalkTyped, Course, Done
  PROVE  /\ graph # None /\ facts \in Found /\ GraphBuilt /\ OnCourse(stack, from, TRUE, reached, listed, warnings)
         /\ \E q : IsTally(q, Trips, listed)
<1>1. sweeping = TRUE /\ stack = <<>> /\ from = <<>> /\ graph # None
  BY DEF Done, WalkTyped
<1>2. facts \in Found /\ GraphBuilt
  BY <1>1 DEF WalkTyped
<1>3. OnCourse(stack, from, TRUE, reached, listed, warnings)
  BY <1>1 DEF Course
<1>4. Tally(DoneTrips(stack, from, TRUE), TRUE, listed)
  BY <1>3 DEF OnCourse
<1>5. DoneTrips(stack, from, TRUE) = Trips
  BY DEF DoneTrips
<1>6. Tally(Trips, TRUE, listed)
  BY <1>4, <1>5
<1> QED
  BY <1>1, <1>2, <1>3, <1>6 DEF Tally

LEMMA EachWayListed ==
  ASSUME WalkTyped, Course
  PROVE  EveryWayIsListed
<1>1. SUFFICES ASSUME Done
               PROVE  /\ Cardinality({k \in DOMAIN listed : ~listed[k].orphaned}) = Cardinality(Trips)
                      /\ \A t \in Trips : Cardinality({k \in DOMAIN listed : listed[k] = RowOf(t)})
                                            = Cardinality({u \in Trips : RowOf(u) = RowOf(t)})
  BY DEF EveryWayIsListed, RowOf
<1>2. PICK q : IsTally(q, Trips, listed)
  BY <1>1, TalliedAtLast
<1>3. PICK n, m : n = Len(q) /\ m = Len(listed)
  OBVIOUS
<1>4. /\ n \in Nat /\ n = Cardinality(Trips) /\ m \in Nat /\ n <= m /\ DOMAIN listed = 1..m
      /\ \A k \in 1..n : q[k] \in Trips
      /\ \A x \in Trips : \E k \in 1..n : q[k] = x
      /\ \A j, k \in 1..n : q[j] = q[k] => j = k
      /\ \A k \in 1..n : listed[k] = RowOf(q[k])
      /\ \A k \in 1..m : k > n => listed[k].orphaned = TRUE
  BY <1>2, <1>3, LenProperties DEF IsTally, Lists, WalkTyped
<1>5. \A t : RowOf(t).orphaned = FALSE
  BY DEF RowOf, Row
<1>6. Cardinality({k \in DOMAIN listed : ~listed[k].orphaned}) = Cardinality(Trips)
  <2>1. \A k \in 1..n : k \in 1..m /\ listed[k].orphaned = FALSE
    BY <1>4, <1>5
  <2>2. \A k \in 1..m : ~listed[k].orphaned => k \in 1..n
    BY <1>4
  <2>3. {k \in DOMAIN listed : ~listed[k].orphaned} = 1..n
    BY <1>4, <2>1, <2>2
  <2>4. Cardinality(1..n) = n
    <3>1. 1 \in Int /\ n \in Int /\ (IF 1 > n THEN 0 ELSE n - 1 + 1) = n
      BY <1>4
    <3> QED
      BY <3>1, FS_Interval, Zenon
  <2> QED
    BY <1>4, <2>3, <2>4
<1>7. ASSUME NEW t \in Trips
      PROVE  Cardinality({k \in DOMAIN listed : listed[k] = RowOf(t)})
               = Cardinality({u \in Trips : RowOf(u) = RowOf(t)})
  <2>1. PICK S, T : /\ S = {k \in DOMAIN listed : listed[k] = RowOf(t)}
                    /\ T = {u \in Trips : RowOf(u) = RowOf(t)}
    OBVIOUS
  <2>2. \A k \in S : k \in 1..n /\ q[k] \in T
    <3>1. SUFFICES ASSUME NEW k \in S PROVE k \in 1..n /\ q[k] \in T
      OBVIOUS
    <3>2. k \in 1..m /\ listed[k] = RowOf(t)
      BY <1>4, <2>1
    <3>3. listed[k].orphaned = FALSE
      BY <1>5, <3>2
    <3>4. k \in 1..n
      BY <1>4, <3>2, <3>3
    <3> QED
      BY <1>4, <2>1, <3>2, <3>4
  <2>3. \A u \in T : \E k \in S : q[k] = u
    <3>1. SUFFICES ASSUME NEW u \in T PROVE \E k \in S : q[k] = u
      OBVIOUS
    <3>2. PICK k \in 1..n : q[k] = u
      BY <1>4, <2>1
    <3>3. k \in 1..m /\ listed[k] = RowOf(t)
      BY <1>4, <2>1, <3>2
    <3> QED
      BY <1>4, <2>1, <3>2, <3>3
  <2>4. IsFiniteSet(S)
    <3>1. S \subseteq 1..n /\ IsFiniteSet(1..n)
      BY <1>4, <2>2, FS_Interval
    <3> QED
      BY <3>1, FS_Subset
  <2>5. Cardinality(T) = Cardinality(S)
    <3> DEFINE g == [k \in S |-> q[k]]
    <3>1. g \in Bijection(S, T)
      BY <1>4, <2>2, <2>3 DEF Bijection, Injection, Surjection, IsInjective
    <3>2. ExistsBijection(S, T)
      BY <3>1 DEF ExistsBijection
    <3> QED
      BY <2>4, <3>2, FS_Bijection
  <2> QED
    BY <2>1, <2>5
<1> QED
  BY <1>6, <1>7

\* What a way lets through of a route, by the method it is for.
LEMMA LetsThrough ==
  ASSUME facts \in Found, GraphBuilt, NEW s \in Symbol, NEW i \in RoutesOf(s),
         NEW m \in ToSet(facts.routes[i].methods), NEW M, M = {} \/ m \in M
  PROVE  \E at \in LetThrough(s, M) : \A row : IsOf(row, at) => row.route = i /\ row.method = m
<1>1. PICK methods : methods = facts.routes[i].methods
  OBVIOUS
<1>2. methods \in Seq(Nat)
  BY <1>1, FoundAssumption DEF RoutesOf
<1>3. PICK j \in DOMAIN methods : methods[j] = m
  BY <1>1 DEF ToSet
<1>4. j \in Nat
  BY <1>2, LenProperties
<1>5. PICK at : at = <<i, j>>
  OBVIOUS
<1>6. at \in LetThrough(s, M)
  <2>1. LetThrough(s, M) =
          {a \in RoutesOf(s) \X Nat :
             /\ a[2] \in DOMAIN facts.routes[a[1]].methods
             /\ M = {} \/ facts.routes[a[1]].methods[a[2]] \in M}
    BY LetThroughType
  <2>2. at \in RoutesOf(s) \X Nat
    BY <1>4, <1>5
  <2> QED
    BY <1>1, <1>3, <1>5, <2>1, <2>2
<1>7. \A row : IsOf(row, at) => row.route = i /\ row.method = m
  BY <1>1, <1>3, <1>5 DEF IsOf
<1> QED
  BY <1>6, <1>7

LEMMA NoneDropped ==
  ASSUME WalkTyped, Course
  PROVE  ReportedRatherThanDropped
<1>0. WarnedAbout = Warned(warnings) /\ \A s : Leads(Roots, s) <=> Reachable(s)
  BY DEF WarnedAbout, Warned, Leads, Reachable
<1> DEFINE Starts(s) == IF Leads(Roots, s) THEN Roots ELSE WarnedAbout
           IsListed(i, s, m) == \E k \in DOMAIN listed : /\ listed[k].route = i /\ listed[k].method = m
                                                        /\ listed[k].orphaned = ~Leads(Roots, s)
           IsReported(i, s) ==
             \/ s = None /\ Warning("unresolved", facts.routes[i].router) \in warnings
             \/ s # None /\ Implicit(s) /\ s \notin reached
             \/ /\ Leads(Starts(s), s)
                /\ \A m \in ToSet(facts.routes[i].methods) : Admits(Starts(s), s, m) => IsListed(i, s, m)
<1>1. SUFFICES ASSUME Done
               PROVE  /\ \A s \in WarnedAbout : ~Leads(Roots, s)
                      /\ \A i \in DOMAIN facts.routes : IsReported(i, Resolve(facts.routes[i].router))
  BY DEF ReportedRatherThanDropped
<1> HIDE DEF Starts, IsListed
<1>9. \A s : Starts(s) = IF Reachable(s) THEN Roots ELSE Warned(warnings)
  BY <1>0 DEF Starts
<1>10. \A i, s, m : IsListed(i, s, m) <=> \E k \in DOMAIN listed : /\ listed[k].route = i /\ listed[k].method = m
                                                                  /\ listed[k].orphaned = ~Reachable(s)
  BY <1>0 DEF IsListed
<1>2. /\ facts \in Found /\ GraphBuilt /\ OnCourse(stack, from, TRUE, reached, listed, warnings)
      /\ \E q : IsTally(q, Trips, listed)
  BY <1>1, TalliedAtLast
<1>3. /\ Reaches(TRUE, reached, warnings) /\ Warns(from, TRUE, reached, warnings)
      /\ Tells(stack, TRUE, listed, warnings)
  BY <1>2 DEF OnCourse
<1>4. /\ Untraced \subseteq warnings
      /\ \A s \in Warned(warnings) : ~Reachable(s)
      /\ \A s \in Symbol : Known(s) => s \in reached \/ Implicit(s)
  <2>1. from = <<>> /\ ToSet(<<>>) = {}
    BY <1>1 DEF Done, ToSet
  <2> QED
    BY <1>3, <2>1 DEF Warns
<1>5. \A t \in Warned(warnings) : \A w \in Ways(t) : Told(End(t, w), w, listed)
  <2>1. Len(stack) = 0
    BY <1>1 DEF Done
  <2>2. \A t, w : ~AheadOn(stack, t, w)
    BY <2>1 DEF AheadOn
  <2> QED
    BY <1>3, <2>2 DEF Tells
<1>6. DOMAIN listed = 1..Len(listed)
  BY LenProperties DEF WalkTyped
<1>7. ASSUME NEW i \in DOMAIN facts.routes, NEW s, s = Resolve(facts.routes[i].router), s # None,
             ~(Implicit(s) /\ s \notin reached)
      PROVE  /\ Leads(Starts(s), s)
             /\ \A m \in ToSet(facts.routes[i].methods) : Admits(Starts(s), s, m) => IsListed(i, s, m)
  <2>1. s \in Symbol
    <3>1. facts.routes[i].router \in References(facts)
      BY DEF References
    <3> QED
      BY <1>2, <1>7, <3>1, ResolveType
  <2>2. i \in RoutesOf(s)
    BY <1>7 DEF RoutesOf
  <2>3. Known(s)
    <3>1. Lists(RoutesOn(s), RoutesOf(s))
      BY <1>2, RoutesInTurn
    <3>2. RoutesOn(s) # <<>>
      BY <2>2, <3>1 DEF Lists
    <3> QED
      BY <3>2 DEF Known
  <2>4. IsAccounted(s, TRUE, warnings)
    BY <1>3, <1>4, <1>7, <2>1, <2>3 DEF Reaches
  <2>5. Leads(Starts(s), s)
    <3>1. CASE Reachable(s)
      BY <1>0, <1>9, <3>1
    <3>2. CASE ~Reachable(s)
      BY <1>9, <2>4, <3>2 DEF IsAccounted, Leads
    <3> QED
      BY <3>1, <3>2
  <2>6. ASSUME NEW m \in ToSet(facts.routes[i].methods), Admits(Starts(s), s, m)
        PROVE  IsListed(i, s, m)
    <3>1. PICK t, w : /\ t \in Starts(s) /\ w \in Ways(t) /\ End(t, w) = s
                      /\ Narrowed(w) = {} \/ m \in Narrowed(w)
      BY <2>6 DEF Admits
    <3>2. PICK at \in LetThrough(s, Narrowed(w)) : \A row : IsOf(row, at) => row.route = i /\ row.method = m
      BY <1>2, <2>1, <2>2, <3>1, LetsThrough
    <3>3. CASE Reachable(s)
      <4>1. PICK trip : trip = <<t, w, at>>
        OBVIOUS
      <4>2. trip \in Trips
        BY <1>9, <3>1, <3>2, <3>3, <4>1, TripsAre
      <4>3. PICK q : IsTally(q, Trips, listed)
        BY <1>2
      <4>4. PICK k \in 1..Len(q) : q[k] = trip
        BY <4>2, <4>3 DEF IsTally, Lists
      <4>5. k \in 1..Len(listed) /\ listed[k] = RowOf(trip)
        <5>1. Len(q) <= Len(listed) /\ \A l \in 1..Len(q) : listed[l] = RowOf(q[l])
          BY <4>3 DEF IsTally
        <5>2. Len(q) \in Nat /\ Len(listed) \in Nat
          BY <4>3, LenProperties DEF IsTally, Lists, WalkTyped
        <5> QED
          BY <4>4, <5>1, <5>2
      <4>6. IsOf(RowOf(trip), at) /\ RowOf(trip).orphaned = FALSE
        BY <4>1 DEF RowOf, Row, IsOf
      <4>7. listed[k].route = i /\ listed[k].method = m /\ listed[k].orphaned = FALSE
        BY <3>2, <4>5, <4>6
      <4> QED
        BY <1>6, <1>10, <3>3, <4>5, <4>7
    <3>4. CASE ~Reachable(s)
      <4>1. Told(s, w, listed)
        BY <1>5, <1>9, <3>1, <3>4
      <4>2. PICK k \in 1..Len(listed) : IsOf(listed[k], at) /\ listed[k].orphaned = TRUE
        BY <3>2, <4>1 DEF Told
      <4>3. listed[k].route = i /\ listed[k].method = m
        BY <3>2, <4>2
      <4> QED
        BY <1>6, <1>10, <3>4, <4>2, <4>3
    <3> QED
      BY <3>3, <3>4
  <2> QED
    BY <2>5, <2>6
<1>8. ASSUME NEW i \in DOMAIN facts.routes, NEW s, s = Resolve(facts.routes[i].router), s = None
      PROVE  Warning("unresolved", facts.routes[i].router) \in warnings
  <2>1. Warning("unresolved", facts.routes[i].router) \in Untraced
    BY <1>8 DEF Untraced
  <2> QED
    BY <1>4, <2>1
<1>11. \A s \in WarnedAbout : ~Leads(Roots, s)
  BY <1>0, <1>4
<1>12. ASSUME NEW i \in DOMAIN facts.routes
       PROVE  IsReported(i, Resolve(facts.routes[i].router))
  <2>1. PICK s : s = Resolve(facts.routes[i].router)
    OBVIOUS
  <2>2. IsReported(i, s)
    BY <1>7, <1>8, <2>1
  <2> QED
    BY <2>1, <2>2
<1> QED
  BY <1>11, <1>12

LEMMA CourseAtFirst ==
  ASSUME RegistrationInit
  PROVE  WalkTyped /\ Course
BY TypesAtFirst DEF RegistrationInit, Course

\* What is walked and what is listed is of its types, and the walk is on its course:
\* the stack follows a way, what is behind it is listed, and the rest is ahead.
THEOREM RegistrationInvariance == RegistrationSpec => [](WalkTyped /\ Course)
<1>1. RegistrationInit => WalkTyped /\ Course
  BY CourseAtFirst
<1>2. WalkTyped /\ Course /\ [RegistrationNext]_registrationVars => (WalkTyped /\ Course)'
  <2> SUFFICES ASSUME WalkTyped, Course, [RegistrationNext]_registrationVars
               PROVE  (WalkTyped /\ Course)'
    OBVIOUS
  <2>1. WalkTyped'
    BY TypesStay
  <2>2. Course'
    BY <2>1, CourseStays
  <2> QED
    BY <2>1, <2>2
<1> QED
  BY <1>1, <1>2, PTL DEF RegistrationSpec

\* When the walk is done, every way from a root to a route is listed once, as that
\* way gives it, and nothing else is listed as reachable: whatever was found, and
\* however the mounts are wired.
THEOREM EveryWayIsAlwaysListed == RegistrationSpec => []EveryWayIsListed
BY RegistrationInvariance, EachWayListed, PTL

\* When the walk is done, no route was dropped without a word: for each method that a
\* way lets through, from a root or else from a router that was warned about, it is
\* listed (graph.rs: resolve, its walks of the roots and of the orphans).
THEOREM AlwaysReportedRatherThanDropped == RegistrationSpec => []ReportedRatherThanDropped
BY RegistrationInvariance, NoneDropped, PTL

=============================================================================
