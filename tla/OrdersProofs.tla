---------------------------- MODULE OrdersProofs ----------------------------
(***************************************************************************)
(* Lemmas about numbers, recursive functions and orders. The induction theorems    *)
(* of the library take the statement as an operator parameter, which the provers   *)
(* cannot instantiate; that the order of the numbers is well founded they can use,  *)
(* and induction on a set of numbers follows from the least one that is not in it.   *)
(***************************************************************************)
EXTENDS Orders, WellFoundedInduction, FiniteSetTheorems, TLAPS

-----------------------------------------------------------------------------
(* Numbers. *)

\* A set of numbers has a least one.
LEMMA LeastNumber ==
  ASSUME NEW T, T \subseteq Nat, T # {}
  PROVE  \E x \in T : \A y \in T : x <= y
<1>1. IsWellFoundedOn(OpToRel(<, Nat), Nat)
  BY NatLessThanWellFounded
<1>2. PICK x \in T : \A y \in T : <<y, x>> \notin OpToRel(<, Nat)
  BY <1>1, WFMin
<1>3. OpToRel(<, Nat) = {ss \in Nat \X Nat : ss[1] < ss[2]}
  BY DEF OpToRel
<1>4. \A y \in T : <<y, x>> \in Nat \X Nat
  OBVIOUS
<1>5. \A y \in T : ~(y < x)
  BY <1>2, <1>3, <1>4
<1>6. QED
  BY <1>5

\* A bounded one also has a greatest.
LEMMA GreatestNumber ==
  ASSUME NEW T, T \subseteq Nat, T # {}, NEW N \in Nat, \A x \in T : x <= N
  PROVE  \E x \in T : \A y \in T : y <= x
<1> DEFINE U == {n \in Nat : \E x \in T : n = N - x}
<1>1. PICK t \in T : TRUE
  OBVIOUS
<1>2. N - t \in U
  BY <1>1
<1>3. PICK u \in U : \A v \in U : u <= v
  <2> HIDE DEF U
  <2>1. U \subseteq Nat
    BY DEF U
  <2> QED
    BY <2>1, <1>2, LeastNumber
<1>4. PICK x \in T : u = N - x
  BY <1>3
<1>5. ASSUME NEW y \in T PROVE y <= x
  <2>1. N - y \in U
    OBVIOUS
  <2>2. u <= N - y
    BY <2>1, <1>3
  <2> QED
    BY <2>2, <1>4
<1> QED
  BY <1>4, <1>5

\* Induction, up to N.
LEMMA UpTo ==
  ASSUME NEW N \in Nat, NEW G, 0 \in G, \A n \in 1 .. N : n - 1 \in G => n \in G
  PROVE  0 .. N \subseteq G
<1>1. SUFFICES ASSUME (0 .. N) \ G # {} PROVE FALSE
  OBVIOUS
<1>2. PICK x \in (0 .. N) \ G : \A y \in (0 .. N) \ G : x <= y
  <2>1. (0 .. N) \ G \subseteq Nat
    OBVIOUS
  <2> QED
    BY <2>1, <1>1, LeastNumber
<1>3. x \in 1 .. N /\ x - 1 \in 0 .. N
  BY <1>2
<1>4. x - 1 \in G
  BY <1>2, <1>3
<1> QED
  BY <1>2, <1>3, <1>4

\* N steps on a set of states, and the functions that take them from b.
Steps(N, S) == [(1 .. N) \X S -> S]

Recursions(N, S, b, step) ==
  {f \in [0 .. N -> S] : f[0] = b /\ \A n \in 1 .. N : f[n] = step[<<n, f[n - 1]>>]}

\* A function defined step by step exists; its values stay in a set S that the steps
\* do not leave.
LEMMA RecursionExists ==
  ASSUME NEW N \in Nat, NEW S, NEW b \in S, NEW step \in Steps(N, S)
  PROVE  Recursions(N, S, b, step) # {}
<1> DEFINE Upto(f, k) == f[0] = b /\ \A n \in 1 .. k : f[n] = step[<<n, f[n - 1]>>]
           G == {k \in 0 .. N : \E f \in [0 .. N -> S] : Upto(f, k)}
<1>1. 0 \in G
  <2> DEFINE f == [n \in 0 .. N |-> b]
  <2>1. f \in [0 .. N -> S] /\ Upto(f, 0)
    OBVIOUS
  <2>2. 0 \in 0 .. N
    OBVIOUS
  <2> HIDE DEF f, Upto
  <2> QED
    BY <2>1, <2>2
<1>2. ASSUME NEW k \in 1 .. N, k - 1 \in G PROVE k \in G
  <2>1. PICK f \in [0 .. N -> S] : Upto(f, k - 1)
    BY <1>2
  <2> DEFINE g == [f EXCEPT ![k] = step[<<k, f[k - 1]>>]]
  <2>2. f[k - 1] \in S /\ <<k, f[k - 1]>> \in (1 .. N) \X S
    OBVIOUS
  <2>3. step[<<k, f[k - 1]>>] \in S
    BY <2>2 DEF Steps
  <2>4. g \in [0 .. N -> S]
    BY <2>3
  <2>5. \A n \in 0 .. N : n # k => g[n] = f[n]
    OBVIOUS
  <2>6. g[k] = step[<<k, f[k - 1]>>]
    OBVIOUS
  <2> HIDE DEF g
  <2>7. g[0] = b
    BY <2>1, <2>5
  <2>8. ASSUME NEW n \in 1 .. k PROVE g[n] = step[<<n, g[n - 1]>>]
    <3>1. g[n - 1] = f[n - 1]
      BY <2>5
    <3>2. CASE n = k
      BY <3>1, <3>2, <2>6
    <3>3. CASE n # k
      <4>1. n \in 1 .. k - 1 /\ n \in 0 .. N
        BY <3>3
      <4>2. g[n] = f[n]
        BY <4>1, <3>3, <2>5
      <4> QED
        BY <4>1, <4>2, <3>1, <2>1
    <3> QED
      BY <3>2, <3>3
  <2> QED
    BY <2>4, <2>7, <2>8
<1>3. 0 .. N \subseteq G
  <2> HIDE DEF G
  <2> QED
    BY <1>1, <1>2, UpTo
<1>4. N \in G
  <2>1. N \in 0 .. N
    OBVIOUS
  <2> HIDE DEF G
  <2> QED
    BY <2>1, <1>3
<1> QED
  BY <1>4 DEF Recursions

-----------------------------------------------------------------------------
(* Orders. *)

StrictOrder(S, before) ==
  /\ \A x \in S : <<x, x>> \notin before
  /\ \A x, y, z \in S : <<x, y>> \in before /\ <<y, z>> \in before => <<x, z>> \in before
  /\ \A x, y \in S : x # y => <<x, y>> \in before \/ <<y, x>> \in before

\* The number of the members before x: its rank, which no other member has.
LEMMA RankOfMember ==
  ASSUME NEW S, IsFiniteSet(S), NEW before, StrictOrder(S, before)
  PROVE  LET Before(x) == {y \in S : <<y, x>> \in before}
         IN /\ \A x \in S : Cardinality(Before(x)) \in 0 .. Cardinality(S) - 1
            /\ \A x, y \in S : <<x, y>> \in before => Cardinality(Before(x)) < Cardinality(Before(y))
<1> DEFINE Before(x) == {y \in S : <<y, x>> \in before}
<1>1. ASSUME NEW x \in S
      PROVE  IsFiniteSet(Before(x)) /\ Cardinality(Before(x)) \in Nat
  <2>1. Before(x) \in SUBSET S
    OBVIOUS
  <2> HIDE DEF Before
  <2> QED
    BY <2>1, FS_Subset, FS_CardinalityType
<1>2. Cardinality(S) \in Nat
  BY FS_CardinalityType
<1>3. ASSUME NEW x \in S PROVE Cardinality(Before(x)) \in 0 .. Cardinality(S) - 1
  <2>1. Before(x) \in SUBSET S /\ x \notin Before(x)
    BY DEF StrictOrder
  <2>2. Before(x) # S
    BY <2>1
  <2> HIDE DEF Before
  <2>3. Cardinality(Before(x)) <= Cardinality(S) /\ Cardinality(Before(x)) # Cardinality(S)
    BY <2>1, <2>2, FS_Subset
  <2> QED
    BY <2>3, <1>1, <1>2
<1>4. ASSUME NEW x \in S, NEW y \in S, <<x, y>> \in before
      PROVE  Cardinality(Before(x)) < Cardinality(Before(y))
  <2>1. Before(x) \in SUBSET Before(y)
    BY <1>4 DEF StrictOrder
  <2>2. x \in Before(y) /\ x \notin Before(x)
    BY <1>4 DEF StrictOrder
  <2> HIDE DEF Before
  <2>3. Cardinality(Before(x)) <= Cardinality(Before(y))
        /\ Cardinality(Before(x)) # Cardinality(Before(y))
    BY <2>1, <2>2, <1>1, FS_Subset
  <2> QED
    BY <2>3, <1>1
<1> QED
  BY <1>3, <1>4

\* InOrder lists every member once, each after those before it.
LEMMA InOrderIsOrdered ==
  ASSUME NEW S, IsFiniteSet(S), NEW before, StrictOrder(S, before)
  PROVE  LET f == InOrder(S, before)
         IN /\ Cardinality(S) \in Nat /\ f \in [1 .. Cardinality(S) -> S]
            /\ \A m, n \in 1 .. Cardinality(S) : m < n => <<f[m], f[n]>> \in before
            /\ \A x \in S : \E n \in 1 .. Cardinality(S) : f[n] = x
<1> DEFINE Before(x) == {y \in S : <<y, x>> \in before}
           N == Cardinality(S)
           rank == [x \in S |-> Cardinality(Before(x)) + 1]
           f == InOrder(S, before)
<1>1. N \in Nat
  BY FS_CardinalityType
<1>2. /\ \A x \in S : rank[x] \in 1 .. N
      /\ \A x, y \in S : <<x, y>> \in before => rank[x] < rank[y]
  <2>1. /\ \A x \in S : Cardinality(Before(x)) \in 0 .. N - 1
        /\ \A x, y \in S : <<x, y>> \in before => Cardinality(Before(x)) < Cardinality(Before(y))
    BY RankOfMember
  <2> HIDE DEF Before, N
  <2> QED
    BY <2>1, <1>1
<1>3. \A n \in 1 .. N : f[n] = CHOOSE x \in S : rank[x] = n
  <2> SUFFICES ASSUME NEW n \in 1 .. N PROVE f[n] = CHOOSE x \in S : rank[x] = n
    OBVIOUS
  <2>1. f[n] = CHOOSE x \in S : Cardinality(Before(x)) = n - 1
    BY DEF InOrder
  <2>2. \A x \in S : Cardinality(Before(x)) = n - 1 <=> rank[x] = n
    <3>1. \A x \in S : Cardinality(Before(x)) \in 0 .. N - 1
      BY RankOfMember
    <3> HIDE DEF Before, N
    <3> QED
      BY <3>1, <1>1
  <2> HIDE DEF Before, N, f, rank
  <2>3. (CHOOSE x \in S : Cardinality(Before(x)) = n - 1) = CHOOSE x \in S : rank[x] = n
    BY <2>2
  <2> QED
    BY <2>1, <2>3
<1>a. DOMAIN f = 1 .. N
  BY DEF InOrder
<1> HIDE DEF f, Before
<1>4. rank \in Injection(S, 1 .. N)
  <2>1. \A x, y \in S : rank[x] = rank[y] => x = y
    <3> SUFFICES ASSUME NEW x \in S, NEW y \in S, rank[x] = rank[y], x # y PROVE FALSE
      OBVIOUS
    <3>1. rank[x] \in Int /\ rank[y] \in Int
      BY <1>1, <1>2
    <3>2. <<x, y>> \in before \/ <<y, x>> \in before
      BY DEF StrictOrder
    <3> HIDE DEF rank
    <3> QED
      BY <3>1, <3>2, <1>2
  <2>2. rank \in [S -> 1 .. N]
    BY <1>2
  <2> HIDE DEF rank, N
  <2> QED
    BY <2>1, <2>2 DEF Injection, IsInjective
<1>5. rank \in Surjection(S, 1 .. N)
  <2>1. IsFiniteSet(1 .. N) /\ Cardinality(1 .. N) = N
    <3> HIDE DEF N
    <3> QED
      BY <1>1, FS_Interval
  <2> HIDE DEF rank
  <2> QED
    BY <1>4, <2>1, FS_Injection
<1> HIDE DEF rank, N
<1>6. \A n \in 1 .. N : f[n] \in S /\ rank[f[n]] = n
  <2> SUFFICES ASSUME NEW n \in 1 .. N PROVE f[n] \in S /\ rank[f[n]] = n
    OBVIOUS
  <2>1. \E x \in S : rank[x] = n
    BY <1>5 DEF Surjection
  <2> QED
    BY <2>1, <1>3
<1>7. f \in [1 .. N -> S]
  <2> DEFINE g == [n \in 1 .. N |-> CHOOSE x \in S : Cardinality(Before(x)) = n - 1]
  <2>1. f = g
    BY DEF f, InOrder, N, Before
  <2>2. \A n \in 1 .. N : g[n] \in S
    BY <2>1, <1>6
  <2>3. g \in [1 .. N -> S]
    BY <2>2
  <2> QED
    BY <2>1, <2>3
<1>8. ASSUME NEW m \in 1 .. N, NEW n \in 1 .. N, m < n PROVE <<f[m], f[n]>> \in before
  <2>1. f[m] # f[n]
    BY <1>6, <1>8
  <2>2. <<f[m], f[n]>> \in before \/ <<f[n], f[m]>> \in before
    BY <2>1, <1>6 DEF StrictOrder
  <2> QED
    BY <2>2, <1>2, <1>6, <1>8
<1>9. ASSUME NEW x \in S PROVE \E n \in 1 .. N : f[n] = x
  <2>1. rank[x] \in 1 .. N
    BY <1>2
  <2>2. f[rank[x]] \in S /\ rank[f[rank[x]]] = rank[x]
    BY <2>1, <1>6
  <2>3. f[rank[x]] = x
    BY <2>2, <1>4 DEF Injection, IsInjective
  <2> QED
    BY <2>1, <2>3
<1> QED
  BY <1>1, <1>7, <1>8, <1>9 DEF f, N

\* Numbers, ascending.
LEMMA AscendingIsOrdered ==
  ASSUME NEW S, IsFiniteSet(S), S \subseteq Int
  PROVE  LET f == Ascending(S)
         IN /\ Cardinality(S) \in Nat /\ f \in [1 .. Cardinality(S) -> S]
            /\ \A m, n \in 1 .. Cardinality(S) : m < n => f[m] < f[n]
            /\ \A x \in S : \E n \in 1 .. Cardinality(S) : f[n] = x
<1> DEFINE before == {p \in S \X S : p[1] < p[2]}
<1>1. \A x, y \in S : <<x, y>> \in before <=> x < y
  OBVIOUS
<1>2. Ascending(S) = InOrder(S, before)
  BY DEF Ascending
<1> HIDE DEF before
<1>3. StrictOrder(S, before)
  BY <1>1 DEF StrictOrder
<1>4. LET f == InOrder(S, before)
      IN /\ Cardinality(S) \in Nat /\ f \in [1 .. Cardinality(S) -> S]
         /\ \A m, n \in 1 .. Cardinality(S) : m < n => <<f[m], f[n]>> \in before
         /\ \A x \in S : \E n \in 1 .. Cardinality(S) : f[n] = x
  BY <1>3, InOrderIsOrdered
<1> QED
  BY <1>1, <1>2, <1>4

\* A filtered sequence has the entries at the places asked for, in their order.
LEMMA FilteredKeepsOrder ==
  ASSUME NEW T, NEW s \in Seq(T), NEW I \in SUBSET DOMAIN s
  PROVE  /\ Filtered(s, I) \in Seq(T) /\ Len(Filtered(s, I)) = Cardinality(I)
         /\ Cardinality(I) \in 0 .. Len(s)
         /\ \E place \in [1 .. Cardinality(I) -> I] :
              /\ \A m, n \in 1 .. Cardinality(I) : m < n => place[m] < place[n]
              /\ \A i \in I : \E n \in 1 .. Cardinality(I) : place[n] = i
              /\ \A n \in 1 .. Cardinality(I) : Filtered(s, I)[n] = s[place[n]]
<1>1. DOMAIN s = 1 .. Len(s) /\ Len(s) \in Nat
  OBVIOUS
<1>2. IsFiniteSet(I) /\ I \subseteq Int /\ Cardinality(I) <= Len(s)
  <2>1. I \in SUBSET (1 .. Len(s)) /\ 1 \in Int /\ Len(s) \in Int
    BY <1>1
  <2>2. IsFiniteSet(1 .. Len(s)) /\ Cardinality(1 .. Len(s)) = Len(s)
    <3> DEFINE k == Len(s)
    <3>1. k \in Nat /\ k \in Int /\ 1 \in Int
      BY <1>1
    <3> HIDE DEF k
    <3>2. IsFiniteSet(1 .. k) /\ Cardinality(1 .. k) = IF 1 > k THEN 0 ELSE k - 1 + 1
      BY <3>1, FS_Interval
    <3>3. IsFiniteSet(1 .. k) /\ Cardinality(1 .. k) = k
      BY <3>1, <3>2
    <3> QED
      BY <3>3 DEF k
  <2> QED
    BY <2>1, <2>2, FS_Subset
<1> DEFINE place == Ascending(I)
<1>3. /\ Cardinality(I) \in Nat /\ place \in [1 .. Cardinality(I) -> I]
      /\ \A m, n \in 1 .. Cardinality(I) : m < n => place[m] < place[n]
      /\ \A i \in I : \E n \in 1 .. Cardinality(I) : place[n] = i
  BY <1>2, AscendingIsOrdered
<1>4. Filtered(s, I) = [n \in DOMAIN place |-> s[place[n]]]
  BY DEF Filtered, Entries
<1> HIDE DEF place
<1>5. \A n \in 1 .. Cardinality(I) : place[n] \in DOMAIN s /\ s[place[n]] \in T
  BY <1>1, <1>3
<1>6. Filtered(s, I) = [n \in 1 .. Cardinality(I) |-> s[place[n]]]
  BY <1>3, <1>4
<1>7. Filtered(s, I) \in Seq(T) /\ Len(Filtered(s, I)) = Cardinality(I)
  BY <1>3, <1>5, <1>6
<1>8. \A n \in 1 .. Cardinality(I) : Filtered(s, I)[n] = s[place[n]]
  BY <1>6
<1> QED
  BY <1>1, <1>2, <1>3, <1>7, <1>8
=============================================================================
