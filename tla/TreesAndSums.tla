---------------------------- MODULE TreesAndSums ----------------------------
(***************************************************************************)
(* What the proofs about the components rest on.                           *)
(*                                                                         *)
(* Induction and recursion along 0..n, in a first-order form: what is to   *)
(* be shown for each number is a set of numbers, and a step of a recursion *)
(* is a function, so that the lemmas can be cited with terms for both;     *)
(* and ranks in, and sums over, finite sets.                               *)
(*                                                                         *)
(* Then theorems about Merkle: for a tree of any number of leaves, the     *)
(* proofs of merkle.ts verify in the contract, and no other leaf or index  *)
(* does, whatever proof it is presented with.  The argument goes from the  *)
(* root down: each step of verify_proof made an inner node of two          *)
(* children, and so did each layer of the tree, and an inner node has its  *)
(* two children only.  A leaf is no inner node, so that the proof ends     *)
(* where the leaves are; and it is not ZERO32, so that it ends at one of   *)
(* them.                                                                   *)
(***************************************************************************)
EXTENDS Merkle, TLAPS, WellFoundedInduction, FiniteSetTheorems

\* A set of numbers that is not empty has a least element.
LEMMA Least ==
    ASSUME NEW S, S \subseteq Nat, S # {}
    PROVE  \E x \in S : \A y \in S : x <= y
<1>1. \E x \in S : \A y \in S : ~(<<y, x>> \in OpToRel(<, Nat))
  BY WFMin, NatLessThanWellFounded, Zenon
<1>2. PICK x \in S : \A y \in S : ~(<<y, x>> \in OpToRel(<, Nat))
  BY <1>1
<1>3. \A y \in S : ~(y < x)
  BY <1>2 DEF OpToRel
<1> QED BY <1>3

\* Induction up to n: T is the set of the numbers something holds of.
LEMMA UpTo ==
    ASSUME NEW n \in Nat, NEW T, 0 \in T,
           \A k \in 0..(n - 1) : k \in T => k + 1 \in T
    PROVE  \A k \in 0..n : k \in T
<1> DEFINE missed == {k \in 0..n : k \notin T}
<1> SUFFICES ASSUME missed # {} PROVE FALSE
  OBVIOUS
<1>0. missed \subseteq Nat
  OBVIOUS
<1>1. PICK k \in missed : \A j \in missed : k <= j
  <2> HIDE DEF missed
  <2> QED BY <1>0, Least
<1>2. k \in Nat /\ k # 0 /\ k - 1 \in 0..(n - 1)
  BY <1>1
<1>3. k - 1 \in T
  BY <1>1, <1>2
<1> QED BY <1>1, <1>2, <1>3

\* Stated once: SMT knows it only when it knows nothing of Len(s).
LEMMA AppendIs ==
    ASSUME NEW S, NEW s \in Seq(S), NEW x \in S
    PROVE  /\ Append(s, x) \in Seq(S) /\ Len(Append(s, x)) = Len(s) + 1
           /\ \A i \in 1..Len(s) : Append(s, x)[i] = s[i]
           /\ Append(s, x)[Len(s) + 1] = x
OBVIOUS

\* f is the recursion from `first` along 1..n with this step function.
Recursion(f, first, n, step) ==
    f[0] = first /\ \A k \in 1..n : f[k] = step[<<f[k - 1], k>>]

\* A recursion over values in S has a result.
LEMMA RecursionExists ==
    ASSUME NEW S, NEW first \in S, NEW n \in Nat, NEW step \in [S \X (1..n) -> S]
    PROVE  \E f \in [0..n -> S] : Recursion(f, first, n, step)
<1> USE DEF Recursion
<1> DEFINE T == {m \in Nat : m <= n => \E f \in [0..m -> S] :
                    f[0] = first /\ \A k \in 1..m : f[k] = step[<<f[k - 1], k>>]}
<1>1. 0 \in T
  <2>1. [k \in 0..0 |-> first] \in [0..0 -> S]
    OBVIOUS
  <2>2. [k \in 0..0 |-> first][0] = first /\ 1..0 = {}
    OBVIOUS
  <2> QED BY <2>1, <2>2
<1>2. ASSUME NEW m \in 0..(n - 1), m \in T PROVE m + 1 \in T
  <2>0. \E f \in [0..m -> S] : f[0] = first /\ \A k \in 1..m : f[k] = step[<<f[k - 1], k>>]
    BY <1>2
  <2>1. PICK f \in [0..m -> S] : f[0] = first /\ \A k \in 1..m : f[k] = step[<<f[k - 1], k>>]
    BY <2>0
  <2> DEFINE g == [k \in 0..(m + 1) |-> IF k = m + 1 THEN step[<<f[m], m + 1>>] ELSE f[k]]
  <2>2. g \in [0..(m + 1) -> S]
    <3>1. f[m] \in S /\ m + 1 \in 1..n
      BY <1>2
    <3>2. step[<<f[m], m + 1>>] \in S
      BY <3>1
    <3>3. ASSUME NEW k \in 0..(m + 1), k # m + 1 PROVE f[k] \in S
      BY <3>3
    <3> QED BY <3>2, <3>3
  <2>3. g[0] = first
    BY <2>1
  <2>4. ASSUME NEW k \in 1..(m + 1) PROVE g[k] = step[<<g[k - 1], k>>]
    <3>1. CASE k # m + 1
      <4>1. k \in 1..m /\ k - 1 \in 0..m /\ g[k] = f[k] /\ g[k - 1] = f[k - 1]
        BY <3>1
      <4> QED BY <2>1, <4>1
    <3>2. CASE k = m + 1
      <4>1. k - 1 = m /\ g[m] = f[m] /\ g[k] = step[<<f[m], m + 1>>]
        BY <3>2
      <4> QED BY <3>2, <4>1
    <3> QED BY <3>1, <3>2
  <2> HIDE DEF g
  <2>5. \E h \in [0..(m + 1) -> S] :
              h[0] = first /\ \A k \in 1..(m + 1) : h[k] = step[<<h[k - 1], k>>]
    BY <2>2, <2>3, <2>4
  <2>6. m + 1 \in Nat
    OBVIOUS
  <2> QED BY <2>5, <2>6, Zenon
<1> HIDE DEF T
<1>3. \A k \in 0..n : k \in T
  BY <1>1, <1>2, UpTo
<1>4. n \in T
  BY <1>3
<1> QED BY <1>4 DEF T

-----------------------------------------------------------------------------
(* Ranks *)

\* The elements of a finite set in an order, where Earlier[w] are those before
\* w: their numbers are between 0 and the number of elements less one, and each
\* of these numbers is that of an element.
LEMMA RanksExist ==
    ASSUME NEW S, IsFiniteSet(S), NEW Earlier \in [S -> SUBSET S],
           \A w \in S : w \notin Earlier[w],
           \A v, w \in S : v \in Earlier[w] => Earlier[v] \subseteq Earlier[w],
           \A v, w \in S : v # w => v \in Earlier[w] \/ w \in Earlier[v]
    PROVE  /\ Cardinality(S) \in Nat
           /\ \A i \in 1..Cardinality(S) : \E w \in S : Cardinality(Earlier[w]) = i - 1
<1> DEFINE n == Cardinality(S)
           rank == [w \in S |-> Cardinality(Earlier[w])]
<1>1. n \in Nat
  BY FS_CardinalityType
<1>2. ASSUME NEW w \in S PROVE rank[w] \in 0..(n - 1) /\ IsFiniteSet(Earlier[w]) /\ rank[w] = Cardinality(Earlier[w])
  <2> DEFINE E == Earlier[w]
  <2>1. w \in S /\ w \notin E /\ E \in SUBSET S
    OBVIOUS
  <2>2. rank[w] = Cardinality(E)
    OBVIOUS
  <2> HIDE DEF E
  <2>3. IsFiniteSet(E) /\ Cardinality(E) <= n /\ (n = Cardinality(E) => S = E)
    BY <2>1, FS_Subset
  <2>4. Cardinality(E) \in Nat
    BY <2>3, FS_CardinalityType
  <2>5. Cardinality(E) # n
    BY <2>1, <2>3
  <2> HIDE DEF rank, n
  <2>6. Cardinality(E) \in 0..(n - 1)
    BY <1>1, <2>3, <2>4, <2>5
  <2> QED BY <2>2, <2>3, <2>6 DEF E
<1>3. ASSUME NEW v \in S, NEW w \in S, v \in Earlier[w] PROVE rank[v] # rank[w]
  <2> DEFINE A == Earlier[v]
             B == Earlier[w]
  <2>1. A \in SUBSET B
    BY <1>3
  <2>2. v \in B /\ v \notin A
    BY <1>3
  <2>3. IsFiniteSet(B) /\ rank[v] = Cardinality(A) /\ rank[w] = Cardinality(B)
    BY <1>2
  <2> HIDE DEF A, B, rank
  <2>4. Cardinality(B) = Cardinality(A) => B = A
    BY <2>1, <2>3, FS_Subset
  <2> QED BY <2>2, <2>3, <2>4
<1> HIDE DEF rank
<1>4. rank \in Injection(S, 0..(n - 1))
  <2>1. rank \in [S -> 0..(n - 1)]
    BY <1>2 DEF rank
  <2>2. ASSUME NEW v \in S, NEW w \in S, rank[v] = rank[w] PROVE v = w
    BY <1>3, <2>2
  <2> QED BY <2>1, <2>2 DEF Injection, IsInjective
<1>5. rank \in Surjection(S, 0..(n - 1))
  <2> HIDE DEF n
  <2>1. IsFiniteSet(0..(n - 1)) /\ Cardinality(0..(n - 1)) = n
    <3>1. 0 \in Int /\ n - 1 \in Int /\ (0 > n - 1 => n = 0) /\ n - 1 - 0 + 1 = n
      BY <1>1
    <3> QED BY <3>1, FS_Interval
  <2>2. Cardinality(S) = Cardinality(0..(n - 1)) <=> rank \in Surjection(S, 0..(n - 1))
    BY <1>4, <2>1, FS_Injection
  <2> QED BY <2>1, <2>2 DEF n
<1>6. ASSUME NEW i \in 1..n PROVE \E w \in S : Cardinality(Earlier[w]) = i - 1
  <2>1. i - 1 \in 0..(n - 1)
    BY <1>1
  <2>2. PICK w \in S : rank[w] = i - 1
    BY <1>5, <2>1 DEF Surjection
  <2> QED BY <1>2, <2>2
<1> QED BY <1>1, <1>6

-----------------------------------------------------------------------------
(* Sums over finite sets: MapThenSumSet takes one element after the other, *)
(* in an order of its own, and the result does not depend on that order.   *)

OneOf(s) == CHOOSE x \in s : TRUE

\* F has the sum of f over every part of S.
Totals(F, f, S) ==
    /\ IsFiniteSet(S) /\ \A x \in S : f[x] \in Int
    /\ F \in [SUBSET S -> Int]
    /\ F[{}] = 0
    /\ \A s \in SUBSET S : s # {} => F[s] = f[OneOf(s)] + F[s \ {OneOf(s)}]

LEMMA OneIsLess ==
    ASSUME NEW S, IsFiniteSet(S), NEW s \in SUBSET S, NEW x \in s
    PROVE  /\ s \ {x} \in SUBSET S
           /\ Cardinality(s) \in Nat /\ Cardinality(s) <= Cardinality(S)
           /\ Cardinality(s \ {x}) \in Nat
           /\ Cardinality(s \ {x}) = Cardinality(s) - 1
<1>1. IsFiniteSet(s) /\ Cardinality(s) <= Cardinality(S)
  BY FS_Subset
<1>2. IsFiniteSet(s \ {x}) /\ Cardinality(s \ {x}) = Cardinality(s) - 1
  BY <1>1, FS_RemoveElement
<1> QED BY <1>1, <1>2, FS_CardinalityType

LEMMA OneOfIs ==
    ASSUME NEW s, s # {}
    PROVE  OneOf(s) \in s
BY DEF OneOf

LEMMA TotalsExist ==
    ASSUME NEW S, IsFiniteSet(S), NEW f, \A x \in S : f[x] \in Int
    PROVE  \E F : Totals(F, f, S)
<1> DEFINE Upto(F, n) == /\ F[{}] = 0
                         /\ \A s \in SUBSET S : s # {} /\ Cardinality(s) <= n
                               => F[s] = f[OneOf(s)] + F[s \ {OneOf(s)}]
           n == Cardinality(S)
           T == {m \in 0..n : \E F \in [SUBSET S -> Int] : Upto(F, m)}
<1>0. n \in Nat
  BY FS_CardinalityType
<1>1. 0 \in T
  <2> DEFINE zero == [s \in SUBSET S |-> 0]
  <2>1. zero \in [SUBSET S -> Int] /\ zero[{}] = 0
    OBVIOUS
  <2>2. ASSUME NEW s \in SUBSET S, s # {} PROVE ~(Cardinality(s) <= 0)
    <3>1. OneOf(s) \in s
      BY <2>2, OneOfIs
    <3>2. /\ Cardinality(s) \in Nat /\ Cardinality(s \ {OneOf(s)}) \in Nat
          /\ Cardinality(s \ {OneOf(s)}) = Cardinality(s) - 1
      BY <3>1, OneIsLess
    <3> QED BY <3>2
  <2> HIDE DEF zero, n
  <2>3. Upto(zero, 0)
    BY <2>1, <2>2
  <2> QED BY <1>0, <2>1, <2>3
<1>2. ASSUME NEW m \in 0..(n - 1), m \in T PROVE m + 1 \in T
  <2>0. m \in Nat /\ m + 1 \in 0..n
    BY <1>0
  <2>1. PICK F \in [SUBSET S -> Int] : Upto(F, m)
    BY <1>2
  <2> DEFINE G == [s \in SUBSET S |-> IF Cardinality(s) <= m \/ s = {} THEN F[s]
                                      ELSE f[OneOf(s)] + F[s \ {OneOf(s)}]]
  <2>2. ASSUME NEW s \in SUBSET S, s # {}
        PROVE  /\ f[OneOf(s)] \in Int /\ s \ {OneOf(s)} \in SUBSET S
               /\ Cardinality(s) \in Nat /\ Cardinality(s \ {OneOf(s)}) \in Nat
               /\ Cardinality(s \ {OneOf(s)}) = Cardinality(s) - 1
    BY <2>2, OneOfIs, OneIsLess
  <2>3. \A s \in SUBSET S : G[s] \in Int
    BY <2>2
  <2>4. G \in [SUBSET S -> Int] /\ G[{}] = 0
    BY <2>1, <2>3
  <2>5. ASSUME NEW s \in SUBSET S, s # {}, Cardinality(s) <= m + 1
        PROVE  G[s] = f[OneOf(s)] + G[s \ {OneOf(s)}]
    <3>1. Cardinality(s \ {OneOf(s)}) <= m
      BY <2>0, <2>2, <2>5
    <3>2. G[s \ {OneOf(s)}] = F[s \ {OneOf(s)}]
      BY <2>2, <2>5, <3>1
    <3>3. G[s] = f[OneOf(s)] + F[s \ {OneOf(s)}]
      BY <2>1, <2>5
    <3> QED BY <3>2, <3>3
  <2> HIDE DEF G, n
  <2>6. Upto(G, m + 1)
    BY <2>4, <2>5
  <2> QED BY <2>0, <2>4, <2>6
<1> HIDE DEF T, n
<1>3. \A m \in 0..n : m \in T
  BY <1>0, <1>1, <1>2, UpTo
<1>4. PICK F \in [SUBSET S -> Int] : Upto(F, n)
  <2>1. n \in T
    BY <1>0, <1>3
  <2> QED BY <2>1 DEF T
<1>5. \A s \in SUBSET S : Cardinality(s) <= n
  BY FS_Subset DEF n
<1> QED BY <1>4, <1>5 DEF Totals

\* Sums over the same set of functions that agree there.
LEMMA TotalsAgree ==
    ASSUME NEW S, NEW f, NEW F, Totals(F, f, S),
           NEW T, NEW g, NEW G, Totals(G, g, T),
           NEW R, R \subseteq S, R \subseteq T, \A x \in R : f[x] = g[x]
    PROVE  F[R] = G[R]
<1> DEFINE n == Cardinality(R)
           U == {m \in 0..n : \A s \in SUBSET R : Cardinality(s) = m => F[s] = G[s]}
<1>0. IsFiniteSet(R) /\ n \in Nat
  BY FS_Subset, FS_CardinalityType DEF Totals
<1>1. 0 \in U
  <2>1. ASSUME NEW s \in SUBSET R, Cardinality(s) = 0 PROVE s = {}
    BY <1>0, <2>1, FS_Subset, FS_EmptySet
  <2>2. F[{}] = G[{}]
    BY DEF Totals
  <2> HIDE DEF n
  <2> QED BY <1>0, <2>1, <2>2
<1>2. ASSUME NEW m \in 0..(n - 1), m \in U PROVE m + 1 \in U
  <2>1. m \in Nat /\ m + 1 \in 0..n
    BY <1>0
  <2>2. ASSUME NEW s \in SUBSET R, Cardinality(s) = m + 1 PROVE F[s] = G[s]
    <3>1. s # {}
      BY <2>1, <2>2, FS_EmptySet
    <3>2. OneOf(s) \in s
      BY <3>1, OneOfIs
    <3>3. s \ {OneOf(s)} \in SUBSET R /\ Cardinality(s \ {OneOf(s)}) = m
      <4>1. /\ s \ {OneOf(s)} \in SUBSET R
            /\ Cardinality(s \ {OneOf(s)}) = Cardinality(s) - 1
        BY <1>0, <3>2, OneIsLess
      <4> QED BY <2>1, <2>2, <4>1
    <3>4. F[s \ {OneOf(s)}] = G[s \ {OneOf(s)}] /\ f[OneOf(s)] = g[OneOf(s)]
      BY <1>2, <3>2, <3>3
    <3>5. F[s] = f[OneOf(s)] + F[s \ {OneOf(s)}] /\ G[s] = g[OneOf(s)] + G[s \ {OneOf(s)}]
      BY <3>1 DEF Totals
    <3> QED BY <3>4, <3>5
  <2> HIDE DEF n
  <2> QED BY <2>1, <2>2
<1> HIDE DEF U, n
<1>3. \A m \in 0..n : m \in U
  BY <1>0, <1>1, <1>2, UpTo
<1>4. n \in U
  BY <1>0, <1>3
<1> QED BY <1>4 DEF U, n

\* Whichever element is taken out first.
LEMMA TotalsWithout ==
    ASSUME NEW S, NEW f, NEW F, Totals(F, f, S),
           NEW R, R \subseteq S, NEW x \in R
    PROVE  F[R] = f[x] + F[R \ {x}]
<1> DEFINE n == Cardinality(S)
           U == {m \in 0..n : \A s \in SUBSET S : Cardinality(s) = m
                                 => \A y \in s : F[s] = f[y] + F[s \ {y}]}
<1>0. n \in Nat /\ IsFiniteSet(S) /\ \A y \in S : f[y] \in Int
  BY FS_CardinalityType DEF Totals
<1>1. 0 \in U
  <2>1. ASSUME NEW s \in SUBSET S, Cardinality(s) = 0 PROVE s = {}
    BY <1>0, <2>1, FS_Subset, FS_EmptySet
  <2> HIDE DEF n
  <2> QED BY <1>0, <2>1
<1>2. ASSUME NEW m \in 0..(n - 1), m \in U PROVE m + 1 \in U
  <2>1. m \in Nat /\ m + 1 \in 0..n
    BY <1>0
  <2>2. ASSUME NEW s \in SUBSET S, Cardinality(s) = m + 1, NEW y \in s PROVE F[s] = f[y] + F[s \ {y}]
    <3> DEFINE c == OneOf(s)
    <3>1. c \in s
      BY OneOfIs
    <3>2. F[s] = f[c] + F[s \ {c}]
      BY DEF Totals
    <3> HIDE DEF c
    <3>3. CASE y = c
      BY <3>2, <3>3
    <3>4. CASE y # c
      <4>1. /\ s \ {c} \in SUBSET S /\ Cardinality(s \ {c}) = m /\ y \in s \ {c}
            /\ s \ {y} \in SUBSET S /\ Cardinality(s \ {y}) = m /\ c \in s \ {y}
        BY <1>0, <2>1, <2>2, <3>1, <3>4, OneIsLess
      <4> DEFINE rest == (s \ {y}) \ {c}
      <4>2. rest = (s \ {c}) \ {y} /\ rest \in SUBSET S
        OBVIOUS
      <4>3. F[s \ {c}] = f[y] + F[(s \ {c}) \ {y}] /\ F[s \ {y}] = f[c] + F[rest]
        BY <1>2, <4>1
      <4> HIDE DEF rest
      <4>4. F[s \ {c}] = f[y] + F[rest]
        BY <4>2, <4>3
      <4>5. F[rest] \in Int /\ f[y] \in Int /\ f[c] \in Int
        BY <1>0, <3>1, <4>2 DEF Totals
      <4> QED BY <3>2, <4>3, <4>4, <4>5
    <3> QED BY <3>3, <3>4
  <2> HIDE DEF n
  <2> QED BY <2>1, <2>2
<1> HIDE DEF U
<1>3. \A m \in 0..n : m \in U
  <2> HIDE DEF n
  <2> QED BY <1>0, <1>1, <1>2, UpTo
<1>4. Cardinality(R) \in 0..n
  BY <1>0, FS_Subset, FS_CardinalityType
<1> QED BY <1>3, <1>4 DEF U

\* One value that changes, or is new, changes the sum by as much.
LEMMA TotalsChange ==
    ASSUME NEW S, NEW f, NEW F, Totals(F, f, S),
           NEW x, NEW old, old = IF x \in S THEN f[x] ELSE 0,
           NEW T, T = S \cup {x}, NEW g, \A y \in S : y # x => g[y] = f[y],
           NEW G, Totals(G, g, T)
    PROVE  G[T] = F[S] - old + g[x]
<1> DEFINE others == S \ {x}
<1>1. /\ others = T \ {x} /\ others \subseteq S /\ others \subseteq T /\ T \subseteq T /\ x \in T
      /\ \A y \in others : f[y] = g[y]
  OBVIOUS
<1>2. x \notin S => others = S
  OBVIOUS
<1>3. S \subseteq S
  OBVIOUS
<1>4. x \in S => others = S \ {x}
  OBVIOUS
<1> HIDE DEF others
<1>5. G[T] = g[x] + G[others]
  <2>1. G[T] = g[x] + G[T \ {x}]
    BY <1>1, TotalsWithout
  <2> QED BY <1>1, <2>1
<1>6. F[others] = G[others]
  BY <1>1, TotalsAgree
<1>7. F[S] = old + F[others]
  <2>1. CASE x \in S
    <3>1. F[S] = f[x] + F[S \ {x}]
      BY <1>3, <2>1, TotalsWithout
    <3> QED BY <1>4, <2>1, <3>1
  <2>2. CASE x \notin S
    <3>1. F[S] \in Int
      BY DEF Totals
    <3> QED BY <1>2, <2>2, <3>1
  <2> QED BY <2>1, <2>2
<1>8. F[others] \in Int /\ old \in Int /\ g[x] \in Int
  BY <1>1 DEF Totals
<1> QED BY <1>5, <1>6, <1>7, <1>8

\* The recursion that MapThenSumSet is written as.
Iterates(F, f, S) ==
    F = [s \in SUBSET S |-> IF s = {} THEN 0 ELSE f[OneOf(s)] + F[s \ {OneOf(s)}]]

\* It has a result, and that is the sum of every part.
LEMMA TotalsAreIter ==
    ASSUME NEW S, IsFiniteSet(S), NEW f, \A x \in S : f[x] \in Int
    PROVE  (\E F : Iterates(F, f, S)) /\ \A F : Iterates(F, f, S) => Totals(F, f, S)
<1>1. PICK G : Totals(G, f, S)
  BY TotalsExist
<1>2. Iterates(G, f, S)
  BY <1>1 DEF Totals, Iterates
<1>3. ASSUME NEW F, Iterates(F, f, S) PROVE Totals(F, f, S)
  <2> DEFINE n == Cardinality(S)
             U == {m \in 0..n : \A s \in SUBSET S : Cardinality(s) = m => F[s] \in Int}
  <2>0. n \in Nat
    BY FS_CardinalityType
  <2>1. F[{}] = 0 /\ \A s \in SUBSET S : s # {} => F[s] = f[OneOf(s)] + F[s \ {OneOf(s)}]
    BY <1>3 DEF Iterates
  <2>2. 0 \in U
    <3>1. ASSUME NEW s \in SUBSET S, Cardinality(s) = 0 PROVE F[s] \in Int
      <4>1. s = {}
        BY <3>1, FS_Subset, FS_EmptySet
      <4> QED BY <2>1, <4>1
    <3> HIDE DEF n
    <3> QED BY <2>0, <3>1
  <2>3. ASSUME NEW m \in 0..(n - 1), m \in U PROVE m + 1 \in U
    <3>1. m \in Nat /\ m + 1 \in 0..n
      BY <2>0
    <3>2. ASSUME NEW s \in SUBSET S, Cardinality(s) = m + 1 PROVE F[s] \in Int
      <4>1. s # {}
        BY <3>1, <3>2, FS_EmptySet
      <4>2. OneOf(s) \in s
        BY <4>1, OneOfIs
      <4>3. s \ {OneOf(s)} \in SUBSET S /\ Cardinality(s \ {OneOf(s)}) = Cardinality(s) - 1
        BY <4>2, OneIsLess
      <4>4. F[s \ {OneOf(s)}] \in Int
        BY <2>3, <3>1, <3>2, <4>3
      <4>5. F[s] = f[OneOf(s)] + F[s \ {OneOf(s)}] /\ f[OneOf(s)] \in Int
        BY <2>1, <4>1, <4>2
      <4> QED BY <4>4, <4>5
    <3> HIDE DEF n
    <3> QED BY <3>1, <3>2
  <2> HIDE DEF U, n
  <2>4. \A m \in 0..n : m \in U
    BY <2>0, <2>2, <2>3, UpTo
  <2>5. ASSUME NEW s \in SUBSET S PROVE F[s] \in Int
    <3>1. Cardinality(s) \in 0..n
      BY <2>0, FS_Subset, FS_CardinalityType DEF n
    <3> QED BY <2>4, <3>1 DEF U
  <2>6. F \in [SUBSET S -> Int]
    BY <1>3, <2>5 DEF Iterates
  <2> QED BY <2>1, <2>6 DEF Totals
<1> QED BY <1>2, <1>3

-----------------------------------------------------------------------------
(* The sum of f over S, and how it changes *)

Total(f, S) == (CHOOSE F : Totals(F, f, S))[S]

LEMMA TotalIs ==
    ASSUME NEW S, NEW f, NEW F, Totals(F, f, S), NEW R, R \subseteq S
    PROVE  F[R] = Total(f, R)
<1>1. IsFiniteSet(R) /\ \A x \in R : f[x] \in Int
  BY FS_Subset DEF Totals
<1> DEFINE G == CHOOSE G : Totals(G, f, R)
<1>2. Totals(G, f, R)
  BY <1>1, TotalsExist
<1>3. Total(f, R) = G[R]
  BY DEF Total
<1> HIDE DEF G
<1>4. R \subseteq R /\ \A x \in R : f[x] = f[x]
  OBVIOUS
<1> QED BY <1>2, <1>3, <1>4, TotalsAgree

\* f has a sum over S.
Summable(f, S) == IsFiniteSet(S) /\ \A x \in S : f[x] \in Int

LEMMA TotalType ==
    ASSUME NEW S, NEW f, Summable(f, S)
    PROVE  Total(f, S) \in Int
<1>1. PICK F : Totals(F, f, S)
  BY TotalsExist DEF Summable
<1>2. S \subseteq S /\ S \in SUBSET S
  OBVIOUS
<1>3. F[S] = Total(f, S)
  BY <1>1, <1>2, TotalIs
<1> QED BY <1>1, <1>2, <1>3 DEF Totals

LEMMA TotalEmpty == \A f : Total(f, {}) = 0
<1> SUFFICES ASSUME NEW f PROVE Total(f, {}) = 0
  OBVIOUS
<1>1. IsFiniteSet({}) /\ \A x \in {} : f[x] \in Int
  BY FS_EmptySet
<1>2. PICK F : Totals(F, f, {})
  BY <1>1, TotalsExist
<1>3. {} \subseteq {}
  OBVIOUS
<1>4. F[{}] = Total(f, {})
  BY <1>2, <1>3, TotalIs
<1> QED BY <1>2, <1>4 DEF Totals

LEMMA TotalSame ==
    ASSUME NEW S, NEW f, Summable(f, S), NEW g, \A x \in S : f[x] = g[x]
    PROVE  Total(f, S) = Total(g, S)
<1>1. PICK F : Totals(F, f, S)
  BY TotalsExist DEF Summable
<1>2. IsFiniteSet(S) /\ \A x \in S : g[x] \in Int
  BY DEF Summable
<1>3. PICK G : Totals(G, g, S)
  BY <1>2, TotalsExist
<1>4. S \subseteq S
  OBVIOUS
<1>5. F[S] = Total(f, S) /\ G[S] = Total(g, S)
  BY <1>1, <1>3, <1>4, TotalIs
<1>6. F[S] = G[S]
  BY <1>1, <1>3, <1>4, TotalsAgree
<1> QED BY <1>5, <1>6

LEMMA TotalWithout ==
    ASSUME NEW S, NEW f, Summable(f, S), NEW x \in S
    PROVE  Total(f, S) = f[x] + Total(f, S \ {x}) /\ Summable(f, S \ {x})
<1>1. PICK F : Totals(F, f, S)
  BY TotalsExist DEF Summable
<1> DEFINE rest == S \ {x}
<1>2. S \subseteq S /\ rest \subseteq S
  OBVIOUS
<1>3. F[S] = f[x] + F[S \ {x}]
  BY <1>1, <1>2, TotalsWithout
<1>4. Summable(f, rest)
  BY FS_Subset DEF Summable
<1> HIDE DEF rest
<1>5. F[S] = Total(f, S) /\ F[rest] = Total(f, rest)
  BY <1>1, <1>2, TotalIs
<1>6. F[S] = f[x] + F[rest]
  BY <1>3 DEF rest
<1>7. Total(f, S) = f[x] + Total(f, rest)
  BY <1>5, <1>6
<1> QED BY <1>4, <1>7 DEF rest

LEMMA TotalWith ==
    ASSUME NEW S, NEW f, Summable(f, S), NEW x, x \notin S, f[x] \in Int
    PROVE  Total(f, S \cup {x}) = Total(f, S) + f[x] /\ Summable(f, S \cup {x})
<1> DEFINE more == S \cup {x}
<1>1. Summable(f, more)
  BY FS_AddElement DEF Summable
<1>2. x \in more /\ more \ {x} = S
  OBVIOUS
<1> HIDE DEF more
<1>3. Total(f, more) = f[x] + Total(f, more \ {x})
  BY <1>1, <1>2, TotalWithout
<1>4. Total(f, more) = f[x] + Total(f, S) /\ Total(f, S) \in Int
  BY <1>2, <1>3, TotalType
<1>5. Total(f, more) = Total(f, S) + f[x]
  BY <1>4
<1> QED BY <1>1, <1>5 DEF more

\* The sum over a set that is in two parts.
LEMMA TotalSplit ==
    ASSUME NEW A, NEW B, A \cap B = {}, NEW f, Summable(f, A \cup B)
    PROVE  /\ Total(f, A \cup B) = Total(f, A) + Total(f, B)
           /\ Summable(f, A) /\ Summable(f, B)
<1> DEFINE n == Cardinality(B)
           T == {m \in 0..n : \A C \in SUBSET B : Cardinality(C) = m
                                 => Total(f, A \cup C) = Total(f, A) + Total(f, C)}
<1>0. /\ IsFiniteSet(A) /\ IsFiniteSet(B) /\ n \in Nat
      /\ \A x \in A : f[x] \in Int
      /\ \A x \in B : f[x] \in Int
  <2>1. A \in SUBSET (A \cup B) /\ B \in SUBSET (A \cup B)
    OBVIOUS
  <2> QED BY <2>1, FS_Subset, FS_CardinalityType DEF Summable
<1>1. Summable(f, A) /\ Summable(f, B) /\ \A C \in SUBSET B : Summable(f, C) /\ Summable(f, A \cup C)
  <2>1. ASSUME NEW C \in SUBSET B PROVE Summable(f, C) /\ Summable(f, A \cup C)
    <3>1. A \cup C \in SUBSET (A \cup B)
      OBVIOUS
    <3> QED BY <1>0, <3>1, FS_Subset DEF Summable
  <2> QED BY <1>0, <2>1 DEF Summable
<1>2. 0 \in T
  <2>1. ASSUME NEW C \in SUBSET B, Cardinality(C) = 0 PROVE Total(f, A \cup C) = Total(f, A) + Total(f, C)
    <3>1. C = {}
      BY <1>0, <2>1, FS_Subset, FS_EmptySet
    <3>2. A \cup C = A /\ Total(f, C) = 0 /\ Total(f, A) \in Int
      BY <1>1, <3>1, TotalEmpty, TotalType
    <3> QED BY <3>2
  <2> HIDE DEF n
  <2> QED BY <1>0, <2>1
<1>3. ASSUME NEW m \in 0..(n - 1), m \in T PROVE m + 1 \in T
  <2>1. m \in Nat /\ m + 1 \in 0..n
    BY <1>0
  <2>2. ASSUME NEW C \in SUBSET B, Cardinality(C) = m + 1
        PROVE  Total(f, A \cup C) = Total(f, A) + Total(f, C)
    <3>1. C # {}
      BY <2>1, <2>2, FS_EmptySet
    <3>2. PICK c \in C : TRUE
      BY <3>1
    <3> DEFINE rest == C \ {c}
               sum == A \cup C
               less == A \cup rest
               back == sum \ {c}
    <3>3. rest \in SUBSET B /\ Cardinality(rest) = m
      BY <1>0, <2>1, <2>2, OneIsLess
    <3>4. c \in sum /\ back = less
      OBVIOUS
    <3>5. Total(f, C) = f[c] + Total(f, rest)
      BY <1>1, TotalWithout
    <3> HIDE DEF rest, sum
    <3>6. Total(f, less) = Total(f, A) + Total(f, rest)
      BY <1>3, <3>3
    <3>7. Summable(f, sum)
      BY <1>1 DEF sum
    <3>8. Total(f, sum) = f[c] + Total(f, back)
      BY <3>4, <3>7, TotalWithout
    <3>9. f[c] \in Int /\ Total(f, A) \in Int /\ Total(f, rest) \in Int
      BY <1>0, <1>1, <3>3, TotalType
    <3> HIDE DEF less, back
    <3>10. Total(f, sum) = Total(f, A) + Total(f, C)
      BY <3>4, <3>5, <3>6, <3>8, <3>9
    <3> QED BY <3>10 DEF sum
  <2> HIDE DEF n
  <2> QED BY <2>1, <2>2
<1> HIDE DEF T
<1>4. \A m \in 0..n : m \in T
  <2> HIDE DEF n
  <2> QED BY <1>0, <1>2, <1>3, UpTo
<1>5. n \in T /\ B \in SUBSET B
  BY <1>0, <1>4
<1>6. Total(f, A \cup B) = Total(f, A) + Total(f, B)
  BY <1>5 DEF T
<1> QED BY <1>1, <1>6

\* The sum over a set whose elements are renamed.
LEMMA TotalRenamed ==
    ASSUME NEW S, NEW f, Summable(f, S), NEW h,
           \A x, y \in S : h[x] = h[y] => x = y,
           NEW g, \A x \in S : g[h[x]] = f[x]
    PROVE  LET T == {h[x] : x \in S} IN Summable(g, T) /\ Total(g, T) = Total(f, S)
<1> DEFINE image(R) == {h[x] : x \in R}
           n == Cardinality(S)
           T == {m \in 0..n : \A R \in SUBSET S : Cardinality(R) = m
                    => Summable(g, image(R)) /\ Total(g, image(R)) = Total(f, R)}
<1>0. n \in Nat /\ IsFiniteSet(S) /\ \A x \in S : f[x] \in Int
  BY FS_CardinalityType DEF Summable
<1>1. 0 \in T
  <2>1. ASSUME NEW R \in SUBSET S, Cardinality(R) = 0
        PROVE  Summable(g, image(R)) /\ Total(g, image(R)) = Total(f, R)
    <3>1. R = {} /\ image(R) = {}
      BY <1>0, <2>1, FS_Subset, FS_EmptySet
    <3> HIDE DEF image
    <3> QED BY <3>1, TotalEmpty, FS_EmptySet DEF Summable
  <2> HIDE DEF n, image
  <2> QED BY <1>0, <2>1
<1>2. ASSUME NEW m \in 0..(n - 1), m \in T PROVE m + 1 \in T
  <2>1. m \in Nat /\ m + 1 \in 0..n
    BY <1>0
  <2>2. ASSUME NEW R \in SUBSET S, Cardinality(R) = m + 1
        PROVE  Summable(g, image(R)) /\ Total(g, image(R)) = Total(f, R)
    <3>1. R # {}
      BY <2>1, <2>2, FS_EmptySet
    <3>2. PICK c \in R : TRUE
      BY <3>1
    <3> DEFINE rest == R \ {c}
               old == image(rest)
    <3>3. rest \in SUBSET S /\ Cardinality(rest) = m
      BY <1>0, <2>1, <2>2, OneIsLess
    <3>4. h[c] \notin old /\ image(R) = old \cup {h[c]}
      OBVIOUS
    <3>5. Summable(f, R) /\ f[c] \in Int
      BY <1>0, FS_Subset DEF Summable
    <3>6. Total(f, R) = f[c] + Total(f, rest) /\ Summable(f, rest)
      BY <3>5, TotalWithout
    <3> HIDE DEF rest
    <3>7. Summable(g, old) /\ Total(g, old) = Total(f, rest)
      BY <1>2, <3>3
    <3> HIDE DEF old, image
    <3>8. g[h[c]] = f[c]
      OBVIOUS
    <3>9. /\ Total(g, old \cup {h[c]}) = Total(g, old) + g[h[c]]
          /\ Summable(g, old \cup {h[c]})
      BY <3>4, <3>5, <3>7, <3>8, TotalWith
    <3>10. Total(f, rest) \in Int
      BY <3>6, TotalType
    <3> QED BY <3>4, <3>5, <3>6, <3>7, <3>8, <3>9, <3>10
  <2> HIDE DEF n, image
  <2> QED BY <2>1, <2>2
<1> HIDE DEF T, image
<1>3. \A m \in 0..n : m \in T
  <2> HIDE DEF n
  <2> QED BY <1>0, <1>1, <1>2, UpTo
<1>4. n \in T /\ S \in SUBSET S
  BY <1>0, <1>3
<1>5. Summable(g, image(S)) /\ Total(g, image(S)) = Total(f, S)
  BY <1>4 DEF T
<1> QED BY <1>5 DEF image

\* A sum of what is not negative is not.
LEMMA TotalNat ==
    ASSUME NEW S, NEW f, IsFiniteSet(S), \A x \in S : f[x] \in Nat
    PROVE  Total(f, S) \in Nat /\ Summable(f, S)
<1> DEFINE n == Cardinality(S)
           T == {m \in 0..n : \A R \in SUBSET S : Cardinality(R) = m => Total(f, R) \in Nat}
<1>0. n \in Nat /\ Summable(f, S)
  BY FS_CardinalityType DEF Summable
<1>1. 0 \in T
  <2>1. ASSUME NEW R \in SUBSET S, Cardinality(R) = 0 PROVE Total(f, R) \in Nat
    <3>1. R = {}
      BY <2>1, FS_Subset, FS_EmptySet
    <3> QED BY <3>1, TotalEmpty
  <2> HIDE DEF n
  <2> QED BY <1>0, <2>1
<1>2. ASSUME NEW m \in 0..(n - 1), m \in T PROVE m + 1 \in T
  <2>1. m \in Nat /\ m + 1 \in 0..n
    BY <1>0
  <2>2. ASSUME NEW R \in SUBSET S, Cardinality(R) = m + 1 PROVE Total(f, R) \in Nat
    <3>1. R # {}
      BY <2>1, <2>2, FS_EmptySet
    <3>2. PICK c \in R : TRUE
      BY <3>1
    <3> DEFINE rest == R \ {c}
    <3>3. rest \in SUBSET S /\ Cardinality(rest) = m
      BY <2>1, <2>2, OneIsLess
    <3>4. Summable(f, R) /\ f[c] \in Nat
      BY FS_Subset DEF Summable
    <3>5. Total(f, R) = f[c] + Total(f, rest)
      BY <3>4, TotalWithout
    <3> HIDE DEF rest
    <3>6. Total(f, rest) \in Nat
      BY <1>2, <3>3
    <3> QED BY <3>4, <3>5, <3>6
  <2> HIDE DEF n
  <2> QED BY <2>1, <2>2
<1> HIDE DEF T
<1>3. \A m \in 0..n : m \in T
  <2> HIDE DEF n
  <2> QED BY <1>0, <1>1, <1>2, UpTo
<1>4. n \in T /\ S \in SUBSET S
  BY <1>0, <1>3
<1> QED BY <1>0, <1>4 DEF T

-----------------------------------------------------------------------------
(* Merkle trees *)

\* A sequence given as a function.
LEMMA LenOfFunction ==
    ASSUME NEW n \in Nat, NEW f, DOMAIN f = 1..n, f = [i \in DOMAIN f |-> f[i]]
    PROVE  Len(f) = n
<1> DEFINE S == {f[i] : i \in 1..n}
<1>1. f \in [1..n -> S]
  OBVIOUS
<1> HIDE DEF S
<1>2. f \in Seq(S)
  BY <1>1
<1>3. \A g \in Seq(S) : Len(g) \in Nat /\ DOMAIN g = 1..Len(g)
  OBVIOUS
<1>4. \A a, b \in Nat : 1..a = 1..b => a = b
  OBVIOUS
<1> QED BY <1>2, <1>3, <1>4

LEMMA Halves ==
    /\ \A x \in Nat : x \div 2 \in Nat /\ (x % 2 = 0 \/ x % 2 = 1) /\ x = 2 * (x \div 2) + (x % 2)
    /\ \A m \in Nat : m >= 1 => (m + 1) \div 2 \in 1..m
    /\ \A m \in Nat : m > 1 => (m + 1) \div 2 \in 1..(m - 1)
OBVIOUS

-----------------------------------------------------------------------------
(* The layers of a tree *)

\* The recursion of Height.
Heights(n) ==
    LET height[m \in 1..n] == IF m = 1 THEN 0 ELSE 1 + height[(m + 1) \div 2]
    IN  height

HeightRule(f, n) == \A m \in 2..n : f[m] = 1 + f[(m + 1) \div 2]

LEMMA HeightsExist ==
    ASSUME NEW n \in Nat, n >= 1
    PROVE  \E f \in [1..n -> Nat] : f[1] = 0 /\ HeightRule(f, n)
<1> DEFINE T == {k \in Nat : \E f \in [1..(k + 1) -> Nat] : f[1] = 0 /\ HeightRule(f, k + 1)}
<1>1. 0 \in T
  <2>1. [m \in 1..1 |-> 0] \in [1..(0 + 1) -> Nat] /\ [m \in 1..1 |-> 0][1] = 0
    OBVIOUS
  <2>2. HeightRule([m \in 1..1 |-> 0], 0 + 1)
    BY DEF HeightRule
  <2> QED BY <2>1, <2>2
<1>2. ASSUME NEW k \in 0..(n - 2), k \in T PROVE k + 1 \in T
  <2>1. PICK f \in [1..(k + 1) -> Nat] : f[1] = 0 /\ HeightRule(f, k + 1)
    BY <1>2
  <2> DEFINE h == (k + 3) \div 2
             g == [m \in 1..(k + 2) |-> IF m <= k + 1 THEN f[m] ELSE 1 + f[h]]
  <2>2. k \in Nat /\ h \in 1..(k + 1)
    OBVIOUS
  <2> HIDE DEF h
  <2>3. g \in [1..(k + 2) -> Nat] /\ g[1] = 0 /\ \A m \in 1..(k + 1) : g[m] = f[m]
    BY <2>1, <2>2
  <2>4. g[k + 2] = 1 + f[h]
    BY <2>2
  <2>5. HeightRule(g, k + 2)
    <3> SUFFICES ASSUME NEW m \in 2..(k + 2) PROVE g[m] = 1 + g[(m + 1) \div 2]
      BY DEF HeightRule
    <3>1. (m + 1) \div 2 \in 1..(k + 1)
      BY <2>2
    <3>2. CASE m <= k + 1
      <4>1. m \in 2..(k + 1) /\ m \in 1..(k + 1)
        BY <2>2, <3>2
      <4>2. f[m] = 1 + f[(m + 1) \div 2]
        BY <2>1, <4>1 DEF HeightRule
      <4> HIDE DEF g
      <4> QED BY <2>3, <3>1, <4>1, <4>2
    <3>3. CASE m = k + 2
      <4>1. (m + 1) \div 2 = h
        BY <2>2, <3>3 DEF h
      <4> HIDE DEF g
      <4> QED BY <2>3, <2>4, <3>1, <3>3, <4>1
    <3>4. m <= k + 1 \/ m = k + 2
      BY <2>2
    <3> QED BY <3>2, <3>3, <3>4
  <2> HIDE DEF g
  <2>6. (k + 1) + 1 = k + 2 /\ k + 1 \in Nat
    BY <2>2
  <2> QED BY <2>3, <2>5, <2>6
<1> HIDE DEF T
<1>3. n - 1 \in Nat /\ (n - 1) - 1 = n - 2 /\ (n - 1) + 1 = n
  OBVIOUS
<1>4. \A k \in 0..(n - 1) : k \in T
  BY <1>1, <1>2, <1>3, UpTo
<1>5. n - 1 \in T
  BY <1>3, <1>4
<1> QED BY <1>3, <1>5 DEF T

LEMMA HeightsAre ==
    ASSUME NEW n \in Nat, n >= 1
    PROVE  /\ Heights(n) \in [1..n -> Nat]
           /\ Heights(n)[1] = 0
           /\ \A m \in 2..n : Heights(n)[m] = 1 + Heights(n)[(m + 1) \div 2]
<1> DEFINE height == Heights(n)
<1>1. \E f : f = [m \in 1..n |-> IF m = 1 THEN 0 ELSE 1 + f[(m + 1) \div 2]]
  <2>1. PICK f \in [1..n -> Nat] : f[1] = 0 /\ HeightRule(f, n)
    BY HeightsExist
  <2>2. ASSUME NEW m \in 1..n, m # 1 PROVE f[m] = 1 + f[(m + 1) \div 2]
    BY <2>1, <2>2 DEF HeightRule
  <2>3. f = [m \in 1..n |-> IF m = 1 THEN 0 ELSE 1 + f[(m + 1) \div 2]]
    BY <2>1, <2>2
  <2> QED BY <2>3
<1>2. height = [m \in 1..n |-> IF m = 1 THEN 0 ELSE 1 + height[(m + 1) \div 2]]
  BY <1>1 DEF Heights
<1> HIDE DEF height
<1>3. height[1] = 0 /\ \A m \in 2..n : height[m] = 1 + height[(m + 1) \div 2]
  BY <1>2
<1> DEFINE T == {k \in Nat : \A m \in 1..(k + 1) : m <= n => height[m] \in Nat}
<1>4. 0 \in T
  BY <1>3
<1>5. ASSUME NEW k \in 0..(n - 2), k \in T PROVE k + 1 \in T
  <2>1. k \in Nat /\ k + 2 \in 2..n /\ (k + 3) \div 2 \in 1..(k + 1) /\ (k + 3) \div 2 <= n
        /\ (k + 2) + 1 = k + 3
    OBVIOUS
  <2>2. height[k + 2] = 1 + height[(k + 3) \div 2] /\ height[(k + 3) \div 2] \in Nat
    BY <1>3, <1>5, <2>1
  <2>3. ASSUME NEW m \in 1..((k + 1) + 1), m <= n PROVE height[m] \in Nat
    <3>1. m \in 1..(k + 1) \/ m = k + 2
      BY <2>1
    <3> QED BY <1>5, <2>2, <2>3, <3>1
  <2> QED BY <2>1, <2>3
<1>6. n - 1 \in Nat /\ (n - 1) - 1 = n - 2 /\ (n - 1) + 1 = n
  OBVIOUS
<1> HIDE DEF T
<1>7. n - 1 \in T
  BY <1>4, <1>5, <1>6, UpTo
<1>8. \A m \in 1..n : height[m] \in Nat
  BY <1>6, <1>7 DEF T
<1>9. height \in [1..n -> Nat]
  BY <1>2, <1>8
<1> QED BY <1>3, <1>9 DEF height

LEMMA HeightIsNat ==
    ASSUME NEW n \in Nat, n >= 1
    PROVE  Height(n) = Heights(n)[n] /\ Height(n) \in Nat
<1>1. Height(n) = Heights(n)[n]
  BY Zenon DEF Height, Heights
<1> QED BY <1>1, HeightsAre

\* The layers up to the h-th.
LayersUpTo(leaves, h, f) ==
    /\ DOMAIN f = 0..h
    /\ f[0] = leaves
    /\ \A k \in 1..h : f[k] = NextLayer(f[k - 1])

LEMMA LayersExist ==
    ASSUME NEW leaves, NEW h \in Nat
    PROVE  \E f : f = [k \in 0..h |-> IF k = 0 THEN leaves ELSE NextLayer(f[k - 1])]
<1> DEFINE T == {m \in Nat : \E f : f = [k \in 0..m |-> f[k]] /\ LayersUpTo(leaves, m, f)}
<1>1. 0 \in T
  <2> DEFINE f == [k \in 0..0 |-> leaves]
  <2>1. DOMAIN f = 0..0 /\ f[0] = leaves /\ f = [k \in 0..0 |-> f[k]] /\ 1..0 = {}
    OBVIOUS
  <2> QED BY <2>1 DEF LayersUpTo
<1>2. ASSUME NEW m \in 0..(h - 1), m \in T PROVE m + 1 \in T
  <2>1. PICK f : f = [k \in 0..m |-> f[k]] /\ LayersUpTo(leaves, m, f)
    BY <1>2
  <2> DEFINE top == NextLayer(f[m])
             g == [k \in 0..(m + 1) |-> IF k <= m THEN f[k] ELSE top]
  <2>2. m \in Nat /\ m + 1 \in Nat
    OBVIOUS
  <2> HIDE DEF top
  <2>3. /\ DOMAIN g = 0..(m + 1) /\ g = [k \in 0..(m + 1) |-> g[k]]
        /\ \A k \in 0..m : g[k] = f[k]
        /\ g[m + 1] = top
    BY <2>2
  <2> HIDE DEF g
  <2>4. ASSUME NEW k \in 1..(m + 1) PROVE g[k] = NextLayer(g[k - 1])
    <3>1. k - 1 \in 0..m /\ (k \in 1..m \/ k = m + 1) /\ (m + 1) - 1 = m
      BY <2>2
    <3>2. CASE k \in 1..m
      <4>1. k \in 0..m
        BY <2>2, <3>2
      <4>2. f[k] = NextLayer(f[k - 1])
        BY <2>1, <3>2 DEF LayersUpTo
      <4> QED BY <2>3, <3>1, <4>1, <4>2
    <3>3. CASE k = m + 1
      BY <2>3, <3>1, <3>3 DEF top
    <3> QED BY <3>1, <3>2, <3>3
  <2>5. g[0] = leaves
    BY <2>1, <2>2, <2>3 DEF LayersUpTo
  <2>6. LayersUpTo(leaves, m + 1, g)
    BY <2>3, <2>4, <2>5 DEF LayersUpTo
  <2> QED BY <2>2, <2>3, <2>6
<1> HIDE DEF T
<1>3. h \in T
  BY <1>1, <1>2, UpTo
<1>4. PICK f : f = [k \in 0..h |-> f[k]] /\ LayersUpTo(leaves, h, f)
  BY <1>3 DEF T
<1>5. ASSUME NEW k \in 0..h PROVE f[k] = IF k = 0 THEN leaves ELSE NextLayer(f[k - 1])
  <2>1. k = 0 \/ k \in 1..h
    OBVIOUS
  <2> QED BY <1>4, <2>1 DEF LayersUpTo
<1>6. f = [k \in 0..h |-> IF k = 0 THEN leaves ELSE NextLayer(f[k - 1])]
  BY <1>4, <1>5
<1> QED BY <1>6

\* The layers from the leaves to the root, and how many nodes they have.
LEMMA LayersAre ==
    ASSUME NEW leaves, Len(leaves) \in Nat, Len(leaves) >= 1
    PROVE  /\ Height(Len(leaves)) \in Nat
           /\ Layers(leaves)[0] = leaves
           /\ \A k \in 1..Height(Len(leaves)) : Layers(leaves)[k] = NextLayer(Layers(leaves)[k - 1])
<1> DEFINE h == Height(Len(leaves))
           layer == Layers(leaves)
<1>1. h \in Nat
  BY HeightIsNat
<1>2. layer = [k \in 0..h |-> IF k = 0 THEN leaves ELSE NextLayer(layer[k - 1])]
  <2>1. \E f : f = [k \in 0..h |-> IF k = 0 THEN leaves ELSE NextLayer(f[k - 1])]
    BY <1>1, LayersExist, ZenonT(30)
  <2> HIDE DEF h
  <2>2. layer = CHOOSE f : f = [k \in 0..h |-> IF k = 0 THEN leaves ELSE NextLayer(f[k - 1])]
    BY Zenon DEF Layers, h
  <2> QED BY <2>1, <2>2
<1> HIDE DEF h, layer
<1>3. ASSUME NEW k \in 1..h PROVE layer[k] = NextLayer(layer[k - 1])
  BY <1>1, <1>2
<1>4. layer[0] = leaves
  BY <1>1, <1>2
<1> QED BY <1>1, <1>3, <1>4 DEF h, layer

\* A layer has half the nodes of the one below, rounded up.
LEMMA NextLayerIs ==
    ASSUME NEW layer, Len(layer) \in Nat
    PROVE  /\ Len(NextLayer(layer)) = (Len(layer) + 1) \div 2
           /\ \A i \in 1..((Len(layer) + 1) \div 2) :
                 NextLayer(layer)[i] =
                     HashNode(layer[2 * i - 1], IF 2 * i <= Len(layer) THEN layer[2 * i] ELSE ZERO32)
<1> DEFINE m == (Len(layer) + 1) \div 2
           f == [i \in 1..m |-> HashNode(layer[2 * i - 1], IF 2 * i <= Len(layer) THEN layer[2 * i] ELSE ZERO32)]
<1>1. m \in Nat
  OBVIOUS
<1>2. NextLayer(layer) = f
  BY DEF NextLayer
<1>3. Len(f) = m
  <2> HIDE DEF m
  <2>1. DOMAIN f = 1..m /\ f = [i \in DOMAIN f |-> f[i]]
    OBVIOUS
  <2> HIDE DEF f
  <2> QED BY <1>1, <2>1, LenOfFunction
<1> QED BY <1>2, <1>3

LEMMA LayerSizes ==
    ASSUME NEW leaves, Len(leaves) \in Nat, Len(leaves) >= 1
    PROVE  /\ \A k \in 0..Height(Len(leaves)) : Len(Layers(leaves)[k]) \in Nat \ {0}
           /\ Len(Layers(leaves)[Height(Len(leaves))]) = 1
<1> DEFINE n == Len(leaves)
           h == Height(n)
           layer == Layers(leaves)
           T == {k \in Nat : Len(layer[k]) \in 1..n /\ Heights(n)[Len(layer[k])] = h - k}
<1>1. /\ h \in Nat /\ layer[0] = leaves /\ \A k \in 1..h : layer[k] = NextLayer(layer[k - 1])
      /\ h = Heights(n)[n]
      /\ Heights(n) \in [1..n -> Nat] /\ Heights(n)[1] = 0
      /\ \A m \in 2..n : Heights(n)[m] = 1 + Heights(n)[(m + 1) \div 2]
  BY LayersAre, HeightIsNat, HeightsAre
<1> HIDE DEF h, layer
<1>2. 0 \in T
  BY <1>1
<1>3. ASSUME NEW k \in 0..(h - 1), k \in T PROVE k + 1 \in T
  <2> DEFINE size == Len(layer[k])
  <2>1. k \in Nat /\ k + 1 \in 1..h /\ (k + 1) - 1 = k /\ h - k >= 1 /\ (h - k) - 1 = h - (k + 1)
    BY <1>1
  <2>2. size \in 1..n /\ Heights(n)[size] = h - k
    BY <1>3
  <2>3. Len(layer[k + 1]) = (size + 1) \div 2
    <3>1. layer[k + 1] = NextLayer(layer[k])
      BY <1>1, <2>1
    <3>2. size \in Nat
      BY <2>2
    <3> QED BY <3>1, <3>2, NextLayerIs
  <2> HIDE DEF size, n
  <2>4. size # 1
    BY <1>1, <2>1, <2>2
  <2>5. n \in Nat
    BY DEF n
  <2>6. size \in 2..n /\ (size + 1) \div 2 \in 1..n
    BY <2>2, <2>4, <2>5, Halves
  <2>7. Heights(n)[(size + 1) \div 2] = h - (k + 1)
    <3> DEFINE below == Heights(n)[(size + 1) \div 2]
    <3>1. h - k = 1 + below /\ below \in Nat
      BY <1>1, <2>2, <2>6
    <3>2. h \in Nat /\ k \in Nat
      BY <1>1, <2>1
    <3> HIDE DEF below
    <3>3. below = h - (k + 1)
      BY <3>1, <3>2
    <3> QED BY <3>3 DEF below
  <2> QED BY <2>1, <2>3, <2>6, <2>7
<1> HIDE DEF T
<1>4. \A k \in 0..h : k \in T
  BY <1>1, <1>2, <1>3, UpTo
<1>5. \A k \in 0..h : Len(layer[k]) \in Nat \ {0}
  BY <1>4 DEF T
<1>6. Len(layer[h]) = 1
  <2> DEFINE size == Len(layer[h])
  <2>1. size \in 1..n /\ Heights(n)[size] = 0
    BY <1>1, <1>4 DEF T
  <2> HIDE DEF size, n
  <2>2. ASSUME size \in 2..n PROVE FALSE
    <3>1. n \in Nat
      BY DEF n
    <3>2. (size + 1) \div 2 \in 1..n
      BY <2>2, <3>1, Halves
    <3>3. Heights(n)[(size + 1) \div 2] \in Nat
      BY <1>1, <3>2
    <3>4. 0 = 1 + Heights(n)[(size + 1) \div 2]
      BY <1>1, <2>1, <2>2
    <3> QED BY <3>3, <3>4
  <2>3. n \in Nat
    BY DEF n
  <2>4. size = 1
    BY <2>1, <2>2, <2>3
  <2> QED BY <2>4 DEF size
<1> QED BY <1>5, <1>6 DEF h, layer

-----------------------------------------------------------------------------
(* The steps of verify_proof *)

ClimbUpTo(first, proof, n, f) ==
    /\ DOMAIN f = 0..n
    /\ f[0] = first
    /\ \A k \in 1..n : f[k] = ClimbStep(f[k - 1], proof[k])

IsClimb(first, proof, n, f) ==
    f = [k \in 0..n |-> IF k = 0 THEN first ELSE ClimbStep(f[k - 1], proof[k])]

LEMMA ClimbExists ==
    ASSUME NEW first, NEW proof, NEW n \in Nat
    PROVE  \E f : IsClimb(first, proof, n, f)
<1> DEFINE T == {m \in Nat : \E f : f = [k \in 0..m |-> f[k]] /\ ClimbUpTo(first, proof, m, f)}
<1>1. 0 \in T
  <2> DEFINE f == [k \in 0..0 |-> first]
  <2>1. DOMAIN f = 0..0 /\ f[0] = first /\ f = [k \in 0..0 |-> f[k]] /\ 1..0 = {}
    OBVIOUS
  <2> QED BY <2>1 DEF ClimbUpTo
<1>2. ASSUME NEW m \in 0..(n - 1), m \in T PROVE m + 1 \in T
  <2>1. PICK f : f = [k \in 0..m |-> f[k]] /\ ClimbUpTo(first, proof, m, f)
    BY <1>2
  <2> DEFINE top == ClimbStep(f[m], proof[m + 1])
             g == [k \in 0..(m + 1) |-> IF k <= m THEN f[k] ELSE top]
  <2>2. m \in Nat /\ m + 1 \in Nat
    OBVIOUS
  <2> HIDE DEF top
  <2>3. /\ DOMAIN g = 0..(m + 1) /\ g = [k \in 0..(m + 1) |-> g[k]]
        /\ \A k \in 0..m : g[k] = f[k]
        /\ g[m + 1] = top
    BY <2>2
  <2> HIDE DEF g
  <2>4. ASSUME NEW k \in 1..(m + 1) PROVE g[k] = ClimbStep(g[k - 1], proof[k])
    <3>1. k - 1 \in 0..m /\ (k \in 1..m \/ k = m + 1) /\ (m + 1) - 1 = m
      BY <2>2
    <3>2. CASE k \in 1..m
      <4>1. k \in 0..m
        BY <2>2, <3>2
      <4>2. f[k] = ClimbStep(f[k - 1], proof[k])
        BY <2>1, <3>2 DEF ClimbUpTo
      <4> QED BY <2>3, <3>1, <4>1, <4>2
    <3>3. CASE k = m + 1
      BY <2>3, <3>1, <3>3 DEF top
    <3> QED BY <3>1, <3>2, <3>3
  <2>5. g[0] = first
    BY <2>1, <2>2, <2>3 DEF ClimbUpTo
  <2>6. ClimbUpTo(first, proof, m + 1, g)
    BY <2>3, <2>4, <2>5 DEF ClimbUpTo
  <2> QED BY <2>2, <2>3, <2>6
<1> HIDE DEF T
<1>3. n \in T
  BY <1>1, <1>2, UpTo
<1>4. PICK f : f = [k \in 0..n |-> f[k]] /\ ClimbUpTo(first, proof, n, f)
  BY <1>3 DEF T
<1>5. ASSUME NEW k \in 0..n PROVE f[k] = IF k = 0 THEN first ELSE ClimbStep(f[k - 1], proof[k])
  <2>1. k = 0 \/ k \in 1..n
    OBVIOUS
  <2> QED BY <1>4, <2>1 DEF ClimbUpTo
<1>6. f = [k \in 0..n |-> IF k = 0 THEN first ELSE ClimbStep(f[k - 1], proof[k])]
  BY <1>4, <1>5
<1> QED BY <1>6 DEF IsClimb

\* An inner node, of whatever children.
IsNode(h) == \E left, right : h = HashNode(left, right)

LEMMA ClimbStepIs ==
    ASSUME NEW x, NEW y, NEW sibling, y = ClimbStep(x, sibling)
    PROVE  /\ y.idx = x.idx \div 2
           /\ x.idx % 2 = 0 => y.node = HashNode(x.node, sibling)
           /\ x.idx % 2 # 0 => y.node = HashNode(sibling, x.node)
           /\ IsNode(y.node)
<1>1. /\ y.idx = x.idx \div 2
      /\ x.idx % 2 = 0 => y.node = HashNode(x.node, sibling)
      /\ x.idx % 2 # 0 => y.node = HashNode(sibling, x.node)
  BY Zenon DEF ClimbStep
<1> QED BY <1>1 DEF IsNode

LEMMA ClimbIs ==
    ASSUME NEW leaf, NEW index \in Nat, NEW proof, Len(proof) \in Nat
    PROVE  LET at == Climb(leaf, index, proof)
           IN  /\ at[0] = [node |-> leaf, idx |-> index]
               /\ \A k \in 1..Len(proof) : /\ at[k] = ClimbStep(at[k - 1], proof[k])
                                           /\ IsNode(at[k].node)
               /\ \A k \in 0..Len(proof) : at[k].idx \in Nat
<1> DEFINE n == Len(proof)
           first == [node |-> leaf, idx |-> index]
           at == Climb(leaf, index, proof)
<1>1. at = [k \in 0..n |-> IF k = 0 THEN first ELSE ClimbStep(at[k - 1], proof[k])]
  <2>1. \E f : IsClimb(first, proof, n, f)
    BY ClimbExists
  <2>2. at = CHOOSE f : IsClimb(first, proof, n, f)
    BY Zenon DEF Climb, IsClimb
  <2> HIDE DEF at, first, n
  <2>3. IsClimb(first, proof, n, at)
    BY <2>1, <2>2
  <2> QED BY <2>3 DEF IsClimb
<1>2. n \in Nat
  OBVIOUS
<1> HIDE DEF at, n
<1>3. at[0] = first
  BY <1>1, <1>2
<1>4. ASSUME NEW k \in 1..n PROVE at[k] = ClimbStep(at[k - 1], proof[k])
  BY <1>1, <1>2
<1>5. ASSUME NEW k \in 1..n PROVE IsNode(at[k].node)
  <2>1. at[k] = ClimbStep(at[k - 1], proof[k])
    BY <1>4
  <2> QED BY <2>1, ClimbStepIs
<1> DEFINE T == {k \in Nat : at[k].idx \in Nat}
<1>6. 0 \in T
  BY <1>3
<1>7. ASSUME NEW k \in 0..(n - 1), k \in T PROVE k + 1 \in T
  <2>1. k \in Nat /\ k + 1 \in 1..n /\ (k + 1) - 1 = k
    BY <1>2
  <2>2. at[k + 1].idx = at[k].idx \div 2
    <3>1. at[k + 1] = ClimbStep(at[k], proof[k + 1])
      BY <1>4, <2>1
    <3> QED BY <3>1, ClimbStepIs
  <2> QED BY <1>7, <2>1, <2>2, Halves
<1>8. \A k \in 0..n : k \in T
  <2> HIDE DEF T
  <2> QED BY <1>2, <1>6, <1>7, UpTo
<1>9. \A k \in 0..n : at[k].idx \in Nat
  BY <1>8
<1> QED BY <1>3, <1>4, <1>5, <1>9 DEF at, n

\* What is hashed: a leaf, an inner node and ZERO32 are not the same.
LEMMA HashesDiffer ==
    /\ \A fields : Leaf(fields) # ZERO32 /\ ~IsNode(Leaf(fields))
    /\ \A left, right : HashNode(left, right) # ZERO32
    /\ \A left, right, l, r : HashNode(left, right) = HashNode(l, r) => left = l /\ right = r
<1>1. \A a, b, c : <<a>> # <<>> /\ <<a>> # <<b, c>> /\ <<b, c>> # <<>>
  OBVIOUS
<1>2. \A a, b, c, d : <<a, b>> = <<c, d>> => a = c /\ b = d
  OBVIOUS
<1> QED BY <1>1, <1>2 DEF Leaf, HashNode, ZERO32, IsNode

-----------------------------------------------------------------------------
(* Soundness *)

\* One level down: what was hashed to a node of a layer is one of the layer
\* below, with its sibling.
LEMMA ChildIs ==
    ASSUME NEW layer, Len(layer) \in Nat,
           NEW x, NEW y, NEW sibling, y = ClimbStep(x, sibling), x.idx \in Nat, x.node # ZERO32,
           y.idx < Len(NextLayer(layer)), y.node = NextLayer(layer)[y.idx + 1]
    PROVE  x.idx < Len(layer) /\ x.node = layer[x.idx + 1] /\ sibling = Sibling(layer, x.idx)
<1> DEFINE n == Len(layer)
           i == y.idx
           right == IF 2 * (i + 1) <= n THEN layer[2 * (i + 1)] ELSE ZERO32
<1>1. /\ i = x.idx \div 2
      /\ x.idx % 2 = 0 => y.node = HashNode(x.node, sibling)
      /\ x.idx % 2 # 0 => y.node = HashNode(sibling, x.node)
  BY ClimbStepIs
<1>2. i \in Nat /\ n \in Nat
  BY <1>1, Halves
<1> HIDE DEF i
<1>3. i + 1 \in 1..((n + 1) \div 2) /\ i + 1 \in Nat
  <2>1. Len(NextLayer(layer)) = (n + 1) \div 2
    BY NextLayerIs
  <2>2. i < (n + 1) \div 2
    BY <2>1 DEF i
  <2> QED BY <1>2, <2>2
<1>4. y.node = HashNode(layer[2 * (i + 1) - 1], right)
  <2>1. NextLayer(layer)[i + 1] = HashNode(layer[2 * (i + 1) - 1], right)
    BY <1>3, NextLayerIs
  <2> QED BY <2>1 DEF i
<1>5. CASE x.idx % 2 = 0
  <2>1. x.node = layer[2 * (i + 1) - 1] /\ sibling = right
    BY <1>1, <1>4, <1>5, HashesDiffer
  <2>2. x.idx = 2 * i
    <3>1. x.idx = 2 * i + (x.idx % 2)
      BY <1>1, Halves
    <3> QED BY <1>2, <1>5, <3>1
  <2>3. 2 * (i + 1) - 1 = x.idx + 1
    BY <1>2, <2>2
  <2>4. x.idx < n
    BY <1>2, <1>3, <2>2
  <2>5. (x.idx + 1 < n <=> 2 * (i + 1) <= n) /\ x.idx + 1 + 1 = 2 * (i + 1)
    BY <1>2, <2>2
  <2>6. Sibling(layer, x.idx) = right
    BY <1>5, <2>5 DEF Sibling, SiblingIndex
  <2> HIDE DEF right
  <2> QED BY <2>1, <2>3, <2>4, <2>6
<1>6. CASE x.idx % 2 # 0
  <2>1. x.node = right /\ sibling = layer[2 * (i + 1) - 1]
    BY <1>1, <1>4, <1>6, HashesDiffer
  <2>2. x.idx = 2 * i + 1
    <3>1. x.idx = 2 * i + (x.idx % 2) /\ x.idx % 2 = 1
      BY <1>1, <1>6, Halves
    <3> QED BY <3>1
  <2>3. 2 * (i + 1) <= n /\ x.node = layer[2 * (i + 1)]
    BY <2>1
  <2>4. 2 * (i + 1) = x.idx + 1
    BY <1>2, <2>2
  <2>5. x.idx < n
    BY <1>2, <2>3, <2>4
  <2>6. x.idx - 1 < n /\ x.idx - 1 + 1 = 2 * (i + 1) - 1
    BY <1>2, <2>2, <2>5
  <2>7. Sibling(layer, x.idx) = layer[2 * (i + 1) - 1]
    BY <1>6, <2>6 DEF Sibling, SiblingIndex
  <2> QED BY <2>1, <2>3, <2>4, <2>5, <2>7
<1> QED BY <1>5, <1>6

\* Each of the n steps is at a node of the tree.
InTree(leaves, at, n) ==
    \A k \in 0..n : /\ at[k].idx \in Nat /\ at[k].idx < Len(Layers(leaves)[k])
                   /\ at[k].node = Layers(leaves)[k][at[k].idx + 1]

\* A proof that verifies for a leaf, under the root of a tree of leaves, has a
\* sibling for every layer, and climbs through the nodes of the tree.
LEMMA ClimbsTheTree ==
    ASSUME NEW leaves, Len(leaves) \in Nat, Len(leaves) >= 1,
           \A i \in 1..Len(leaves) : \E fields : leaves[i] = Leaf(fields),
           NEW fields, NEW index \in Nat, NEW proof, Len(proof) \in Nat,
           VerifyProof(Leaf(fields), index, proof, ComputeRoot(leaves))
    PROVE  /\ Len(proof) = Height(Len(leaves))
           /\ InTree(leaves, Climb(Leaf(fields), index, proof), Height(Len(leaves)))
<1> DEFINE n == Len(leaves)
           h == Height(n)
           p == Len(proof)
           layer == Layers(leaves)
           at == Climb(Leaf(fields), index, proof)
           Found(j) == /\ at[p - j].idx < Len(layer[h - j])
                       /\ at[p - j].node = layer[h - j][at[p - j].idx + 1]
           m == IF p <= h THEN p ELSE h
           T == {j \in Nat : Found(j)}
<1>1. /\ h \in Nat /\ layer[0] = leaves /\ \A k \in 1..h : layer[k] = NextLayer(layer[k - 1])
      /\ \A k \in 0..h : Len(layer[k]) \in Nat
      /\ Len(layer[h]) = 1
  BY LayersAre, LayerSizes
<1>2. /\ at[0] = [node |-> Leaf(fields), idx |-> index]
      /\ \A k \in 1..p : at[k] = ClimbStep(at[k - 1], proof[k]) /\ IsNode(at[k].node)
      /\ \A k \in 0..p : at[k].idx \in Nat
  BY ClimbIs
<1>3. at[p].idx = 0 /\ at[p].node = layer[h][1]
  <2>1. leaves # <<>>
    OBVIOUS
  <2>2. at[p] = [node |-> layer[h][1], idx |-> 0]
    BY <2>1 DEF VerifyProof, ComputeRoot
  <2> QED BY <2>2
<1>4. p \in Nat /\ m \in Nat /\ m <= p /\ m <= h
  BY <1>1
<1>5. \A k \in 0..p : at[k].node # ZERO32
  <2>1. at[0].node # ZERO32
    BY <1>2, HashesDiffer
  <2>2. ASSUME NEW k \in 1..p PROVE at[k].node # ZERO32
    BY <1>2, HashesDiffer DEF IsNode
  <2>3. \A k \in 0..p : k = 0 \/ k \in 1..p
    BY <1>4
  <2> QED BY <2>1, <2>2, <2>3
<1> HIDE DEF h, p, layer, at, m
<1>6. 0 \in T
  <2>1. p - 0 = p /\ h - 0 = h /\ 0 + 1 = 1 /\ 0 < 1
    BY <1>1, <1>4
  <2> QED BY <1>1, <1>3, <2>1
<1>7. ASSUME NEW j \in 0..(m - 1), j \in T PROVE j + 1 \in T
  <2> DEFINE a == p - (j + 1)
             b == h - (j + 1)
  <2>1. /\ j \in Nat /\ a \in 0..p /\ b \in 0..h
        /\ p - j \in 1..p /\ h - j \in 1..h /\ (p - j) - 1 = a /\ (h - j) - 1 = b
    BY <1>1, <1>4
  <2> HIDE DEF a, b
  <2>2. layer[h - j] = NextLayer(layer[b]) /\ Len(layer[b]) \in Nat
    BY <1>1, <2>1
  <2>3. at[p - j] = ClimbStep(at[a], proof[p - j]) /\ at[a].idx \in Nat /\ at[a].node # ZERO32
    BY <1>2, <1>5, <2>1
  <2>4. at[p - j].idx < Len(NextLayer(layer[b])) /\ at[p - j].node = NextLayer(layer[b])[at[p - j].idx + 1]
    BY <1>7, <2>2
  <2>5. at[a].idx < Len(layer[b]) /\ at[a].node = layer[b][at[a].idx + 1]
    BY <2>2, <2>3, <2>4, ChildIs, SMTT(30)
  <2>6. j + 1 \in Nat
    BY <2>1
  <2> QED BY <2>5, <2>6 DEF a, b
<1>8. \A j \in 0..m : Found(j)
  <2> HIDE DEF T
  <2>1. \A j \in 0..m : j \in T
    BY <1>4, <1>6, <1>7, UpTo
  <2> QED BY <2>1 DEF T
<1>8a. Found(m)
  BY <1>4, <1>8
<1>9. CASE p < h
  <2>1. m = p /\ p - m = 0 /\ h - m \in 1..h /\ (h - m) - 1 \in 0..h
    BY <1>1, <1>4, <1>9 DEF m
  <2>2. layer[h - m] = NextLayer(layer[(h - m) - 1]) /\ Len(layer[(h - m) - 1]) \in Nat
    BY <1>1, <2>1
  <2> DEFINE below == layer[(h - m) - 1]
             i == at[0].idx + 1
  <2>3. i \in 1..((Len(below) + 1) \div 2)
    <3>1. at[0].idx < Len(NextLayer(below)) /\ at[0].idx \in Nat
      BY <1>2, <1>4, <1>8a, <2>1, <2>2
    <3> HIDE DEF below
    <3>2. Len(NextLayer(below)) = (Len(below) + 1) \div 2 /\ Len(below) \in Nat
      BY <2>2, NextLayerIs DEF below
    <3> QED BY <3>1, <3>2
  <2>4. IsNode(NextLayer(below)[i])
    <3> HIDE DEF below, i
    <3>1. Len(below) \in Nat
      BY <2>2 DEF below
    <3>2. NextLayer(below)[i] =
             HashNode(below[2 * i - 1], IF 2 * i <= Len(below) THEN below[2 * i] ELSE ZERO32)
      BY <2>3, <3>1, NextLayerIs
    <3> QED BY <3>2, Zenon DEF IsNode
  <2>5. at[0].node = NextLayer(below)[i]
    BY <1>8a, <2>1, <2>2
  <2> QED BY <1>2, <2>4, <2>5, HashesDiffer
<1>10. CASE h < p
  <2>1. m = h /\ h - m = 0 /\ p - m \in 1..p /\ p - m \in 0..p
    BY <1>1, <1>4, <1>10 DEF m
  <2>2. IsNode(at[p - m].node) /\ at[p - m].idx \in Nat
    BY <1>2, <2>1
  <2>3. at[p - m].idx < n /\ at[p - m].node = leaves[at[p - m].idx + 1]
    BY <1>1, <1>8a, <2>1
  <2>4. at[p - m].idx + 1 \in 1..n
    BY <2>2, <2>3
  <2> QED BY <2>2, <2>3, <2>4, HashesDiffer
<1>11. CASE p = h
  <2>1. ASSUME NEW k \in 0..h PROVE at[k].idx < Len(layer[k]) /\ at[k].node = layer[k][at[k].idx + 1]
    <3>1. h - k \in 0..m /\ p - (h - k) = k /\ h - (h - k) = k
      BY <1>1, <1>4, <1>11 DEF m
    <3> QED BY <1>8, <3>1
  <2>2. InTree(leaves, at, h)
    BY <1>2, <1>11, <2>1 DEF InTree, layer
  <2> QED BY <1>11, <2>2 DEF h, p, at
<1>12. p < h \/ h < p \/ p = h
  BY <1>1, <1>4
<1> QED BY <1>9, <1>10, <1>11, <1>12

\* A proof that verifies for a leaf, under the root of a tree of leaves, is for
\* the leaf of the tree at that index, whatever the proof is made of
\* (verify_proof, lib.rs:231-252).
THEOREM ProofsAreSound ==
    ASSUME NEW leaves, Len(leaves) \in Nat, Len(leaves) >= 1,
           \A i \in 1..Len(leaves) : \E fields : leaves[i] = Leaf(fields),
           NEW fields, NEW index \in Nat, NEW proof, Len(proof) \in Nat,
           VerifyProof(Leaf(fields), index, proof, ComputeRoot(leaves))
    PROVE  index < Len(leaves) /\ leaves[index + 1] = Leaf(fields)
<1> DEFINE at == Climb(Leaf(fields), index, proof)
<1>1. Height(Len(leaves)) \in Nat /\ Layers(leaves)[0] = leaves
  BY LayersAre
<1>2. at[0].idx < Len(Layers(leaves)[0]) /\ at[0].node = Layers(leaves)[0][at[0].idx + 1]
  <2>1. InTree(leaves, at, Height(Len(leaves)))
    BY ClimbsTheTree
  <2> HIDE DEF at
  <2> QED BY <1>1, <2>1 DEF InTree
<1>3. at[0] = [node |-> Leaf(fields), idx |-> index]
  BY ClimbIs
<1> HIDE DEF at
<1> QED BY <1>1, <1>2, <1>3

\* Under the root of no leaves nothing verifies.
THEOREM NothingInNoTree ==
    ASSUME NEW fields, NEW index \in Nat, NEW proof, Len(proof) \in Nat
    PROVE  ~VerifyProof(Leaf(fields), index, proof, ComputeRoot(<<>>))
<1> DEFINE at == Climb(Leaf(fields), index, proof)
           p == Len(proof)
<1>1. /\ at[0] = [node |-> Leaf(fields), idx |-> index]
      /\ \A k \in 1..p : IsNode(at[k].node)
  BY ClimbIs
<1>2. at[p].node # ZERO32
  <2>1. CASE p = 0
    BY <1>1, <2>1, HashesDiffer
  <2>2. CASE p # 0
    <3>1. IsNode(at[p].node)
      BY <1>1, <2>2
    <3> QED BY <3>1, HashesDiffer DEF IsNode
  <2> QED BY <2>1, <2>2
<1> HIDE DEF at
<1>3. VerifyProof(Leaf(fields), index, proof, ComputeRoot(<<>>)) => at[p] = [node |-> ZERO32, idx |-> 0]
  BY DEF VerifyProof, ComputeRoot, at
<1> QED BY <1>2, <1>3

-----------------------------------------------------------------------------
(* Completeness *)

LEMMA ShiftedIs ==
    ASSUME NEW index \in Nat, NEW n \in Nat
    PROVE  /\ Shifted(index, n)[0] = index
           /\ \A k \in 1..n : Shifted(index, n)[k] = Shifted(index, n)[k - 1] \div 2
<1> DEFINE idx == Shifted(index, n)
           step == [x \in Nat \X (1..n) |-> x[1] \div 2]
<1>1. step \in [Nat \X (1..n) -> Nat]
  BY Halves
<1>2. \E f \in [0..n -> Nat] : Recursion(f, index, n, step)
  <2> HIDE DEF step
  <2> QED BY <1>1, RecursionExists
<1>3. \E f : f = [k \in 0..n |-> IF k = 0 THEN index ELSE f[k - 1] \div 2]
  <2>1. PICK f \in [0..n -> Nat] : f[0] = index /\ \A k \in 1..n : f[k] = step[<<f[k - 1], k>>]
    BY <1>2 DEF Recursion
  <2>2. ASSUME NEW k \in 0..n, k # 0 PROVE f[k] = f[k - 1] \div 2
    <3>1. k \in 1..n /\ k - 1 \in 0..n
      BY <2>2
    <3> QED BY <2>1, <3>1
  <2> HIDE DEF step
  <2>3. f = [k \in 0..n |-> IF k = 0 THEN index ELSE f[k - 1] \div 2]
    BY <2>1, <2>2
  <2> QED BY <2>3
<1>4. idx = [k \in 0..n |-> IF k = 0 THEN index ELSE idx[k - 1] \div 2]
  BY <1>3 DEF Shifted
<1> HIDE DEF idx
<1>5. idx[0] = index /\ \A k \in 1..n : idx[k] = idx[k - 1] \div 2
  BY <1>4
<1> QED BY <1>5 DEF idx

\* One level up: with the sibling getProof takes, the parent is that of the layer above.
LEMMA ParentIs ==
    ASSUME NEW layer, Len(layer) \in Nat,
           NEW x, NEW y, y = ClimbStep(x, Sibling(layer, x.idx)), x.idx \in Nat,
           x.idx < Len(layer), x.node = layer[x.idx + 1]
    PROVE  y.idx < Len(NextLayer(layer)) /\ y.node = NextLayer(layer)[y.idx + 1]
<1> DEFINE n == Len(layer)
           i == y.idx
           right == IF 2 * (i + 1) <= n THEN layer[2 * (i + 1)] ELSE ZERO32
           sibling == Sibling(layer, x.idx)
<1>1. /\ i = x.idx \div 2
      /\ x.idx % 2 = 0 => y.node = HashNode(x.node, sibling)
      /\ x.idx % 2 # 0 => y.node = HashNode(sibling, x.node)
  BY ClimbStepIs
<1>2. i \in Nat /\ n \in Nat /\ x.idx = 2 * i + (x.idx % 2) /\ (x.idx % 2 = 0 \/ x.idx % 2 = 1)
  BY <1>1, Halves
<1>3. sibling = IF x.idx % 2 = 0
                THEN (IF x.idx + 1 < n THEN layer[x.idx + 1 + 1] ELSE ZERO32)
                ELSE (IF x.idx - 1 < n THEN layer[x.idx - 1 + 1] ELSE ZERO32)
  BY DEF Sibling, SiblingIndex
<1> HIDE DEF i, sibling, n
<1>4. i + 1 \in 1..((n + 1) \div 2)
  <2>1. x.idx < n
    BY DEF n
  <2> QED BY <1>2, <2>1
<1>5. Len(NextLayer(layer)) = (n + 1) \div 2 /\ NextLayer(layer)[i + 1] = HashNode(layer[2 * (i + 1) - 1], right)
  BY <1>4, NextLayerIs DEF n
<1>6. y.node = HashNode(layer[2 * (i + 1) - 1], right)
  <2>1. CASE x.idx % 2 = 0
    <3>1. x.idx = 2 * i /\ x.idx + 1 = 2 * (i + 1) - 1 /\ x.idx + 1 + 1 = 2 * (i + 1)
          /\ (x.idx + 1 < n <=> 2 * (i + 1) <= n)
      BY <1>2, <2>1
    <3>2. sibling = right
      BY <1>3, <2>1, <3>1
    <3>3. x.node = layer[2 * (i + 1) - 1]
      BY <3>1
    <3> HIDE DEF right
    <3> QED BY <1>1, <2>1, <3>2, <3>3
  <2>2. CASE x.idx % 2 = 1
    <3>1. /\ x.idx = 2 * i + 1 /\ x.idx + 1 = 2 * (i + 1) /\ x.idx - 1 + 1 = 2 * (i + 1) - 1
          /\ x.idx < n /\ x.idx - 1 < n /\ 2 * (i + 1) <= n
      <4>1. x.idx < n
        BY DEF n
      <4> QED BY <1>2, <2>2, <4>1
    <3>2. sibling = layer[2 * (i + 1) - 1]
      BY <1>3, <2>2, <3>1
    <3>3. x.node = right
      BY <3>1
    <3> HIDE DEF right
    <3> QED BY <1>1, <2>2, <3>2, <3>3
  <2> QED BY <1>2, <2>1, <2>2
<1>7. i < (n + 1) \div 2
  BY <1>2, <1>4
<1> HIDE DEF right
<1> QED BY <1>5, <1>6, <1>7 DEF i

LEMMA GetProofIs ==
    ASSUME NEW leaves, Len(leaves) \in Nat, Len(leaves) >= 1, NEW index
    PROVE  /\ Len(GetProof(leaves, index)) = Height(Len(leaves))
           /\ \A k \in 1..Height(Len(leaves)) :
                 GetProof(leaves, index)[k] =
                     Sibling(Layers(leaves)[k - 1], Shifted(index, Height(Len(leaves)))[k - 1])
<1> DEFINE h == Height(Len(leaves))
           f == [k \in 1..h |-> Sibling(Layers(leaves)[k - 1], Shifted(index, h)[k - 1])]
<1>1. h \in Nat
  BY HeightIsNat
<1>2. GetProof(leaves, index) = f
  BY DEF GetProof
<1>3. Len(f) = h
  <2> HIDE DEF h
  <2>1. DOMAIN f = 1..h /\ f = [k \in DOMAIN f |-> f[k]]
    OBVIOUS
  <2> HIDE DEF f
  <2> QED BY <1>1, <2>1, LenOfFunction
<1> QED BY <1>2, <1>3

\* The proof getProof makes of a leaf verifies for it, at its index.
THEOREM ProofsAreComplete ==
    ASSUME NEW leaves, Len(leaves) \in Nat, NEW index \in Nat, index < Len(leaves)
    PROVE  VerifyProof(leaves[index + 1], index, GetProof(leaves, index), ComputeRoot(leaves))
<1> DEFINE n == Len(leaves)
           h == Height(n)
           layer == Layers(leaves)
           proof == GetProof(leaves, index)
           idx == Shifted(index, h)
           leaf == leaves[index + 1]
           at == Climb(leaf, index, proof)
           T == {k \in Nat : /\ at[k].idx = idx[k]
                             /\ at[k].idx < Len(layer[k])
                             /\ at[k].node = layer[k][at[k].idx + 1]}
<1>1. /\ h \in Nat /\ layer[0] = leaves /\ \A k \in 1..h : layer[k] = NextLayer(layer[k - 1])
      /\ \A k \in 0..h : Len(layer[k]) \in Nat
      /\ Len(layer[h]) = 1
  BY LayersAre, LayerSizes
<1>2. Len(proof) = h /\ \A k \in 1..h : proof[k] = Sibling(layer[k - 1], idx[k - 1])
  BY GetProofIs
<1>3. idx[0] = index /\ \A k \in 1..h : idx[k] = idx[k - 1] \div 2
  BY <1>1, ShiftedIs
<1>4. /\ at[0] = [node |-> leaf, idx |-> index]
      /\ \A k \in 1..h : at[k] = ClimbStep(at[k - 1], proof[k])
      /\ \A k \in 0..h : at[k].idx \in Nat
  BY <1>1, <1>2, ClimbIs, SMTT(30)
<1> HIDE DEF h, layer, idx, at, proof
<1>5. 0 \in T
  BY <1>1, <1>3, <1>4
<1>6. ASSUME NEW k \in 0..(h - 1), k \in T PROVE k + 1 \in T
  <2>1. k \in Nat /\ k + 1 \in Nat /\ k \in 0..h /\ k + 1 \in 1..h /\ (k + 1) - 1 = k
    BY <1>1
  <2>2. layer[k + 1] = NextLayer(layer[k]) /\ Len(layer[k]) \in Nat
    BY <1>1, <2>1
  <2>3. at[k + 1] = ClimbStep(at[k], Sibling(layer[k], at[k].idx))
    <3>1. proof[k + 1] = Sibling(layer[k], idx[k])
      BY <1>2, <2>1
    <3>2. at[k + 1] = ClimbStep(at[k], proof[k + 1])
      BY <1>4, <2>1
    <3> QED BY <1>6, <3>1, <3>2
  <2>4. at[k + 1].idx < Len(layer[k + 1]) /\ at[k + 1].node = layer[k + 1][at[k + 1].idx + 1]
    <3>1. /\ at[k].idx \in Nat /\ at[k].idx < Len(layer[k]) /\ at[k].node = layer[k][at[k].idx + 1]
          /\ Len(layer[k]) \in Nat
      BY <1>4, <1>6, <2>1, <2>2
    <3>2. /\ at[k + 1].idx < Len(NextLayer(layer[k]))
          /\ at[k + 1].node = NextLayer(layer[k])[at[k + 1].idx + 1]
      BY <2>3, <3>1, ParentIs, ZenonT(30)
    <3> QED BY <2>2, <3>2
  <2>5. at[k + 1].idx = idx[k + 1]
    <3>1. at[k + 1].idx = at[k].idx \div 2
      BY <2>3, ClimbStepIs
    <3>2. idx[k + 1] = idx[k] \div 2
      BY <1>3, <2>1
    <3> QED BY <1>6, <3>1, <3>2
  <2> QED BY <2>1, <2>4, <2>5
<1>7. h \in T
  <2> HIDE DEF T
  <2>1. \A k \in 0..h : k \in T
    BY <1>1, <1>5, <1>6, UpTo
  <2> QED BY <1>1, <2>1
<1>8. at[h].idx = 0 /\ at[h].node = layer[h][1]
  <2>1. at[h].idx \in Nat /\ at[h].idx < 1
    BY <1>1, <1>4, <1>7
  <2>2. at[h].idx = 0 /\ 0 + 1 = 1
    BY <2>1
  <2> QED BY <1>7, <2>2
<1>9. at[h] = [node |-> at[h].node, idx |-> at[h].idx]
  <2>1. CASE h = 0
    BY <1>4, <2>1
  <2>2. CASE h # 0
    <3>1. at[h] = ClimbStep(at[h - 1], proof[h])
      BY <1>1, <1>4, <2>2
    <3> QED BY <3>1 DEF ClimbStep
  <2> QED BY <2>1, <2>2
<1>10. ComputeRoot(leaves) = layer[h][1]
  <2>1. leaves # <<>>
    OBVIOUS
  <2> QED BY <2>1, Zenon DEF ComputeRoot, layer, h
<1> QED BY <1>2, <1>8, <1>9, <1>10 DEF VerifyProof, at, proof

-----------------------------------------------------------------------------
(* A proof is for one leaf *)

\* A proof that verifies is the one getProof makes.
LEMMA ProofsAreUnique ==
    ASSUME NEW leaves, Len(leaves) \in Nat, Len(leaves) >= 1,
           \A i \in 1..Len(leaves) : \E fields : leaves[i] = Leaf(fields),
           NEW fields, NEW index \in Nat, NEW proof, Len(proof) \in Nat,
           VerifyProof(Leaf(fields), index, proof, ComputeRoot(leaves))
    PROVE  /\ Len(proof) = Height(Len(leaves))
           /\ \A k \in 1..Height(Len(leaves)) : proof[k] = GetProof(leaves, index)[k]
<1> DEFINE n == Len(leaves)
           h == Height(n)
           layer == Layers(leaves)
           idx == Shifted(index, h)
           at == Climb(Leaf(fields), index, proof)
           T == {k \in Nat : at[k].idx = idx[k]}
<1>1. /\ h \in Nat /\ \A k \in 1..h : layer[k] = NextLayer(layer[k - 1])
      /\ \A k \in 0..h : Len(layer[k]) \in Nat
  BY LayersAre, LayerSizes
<1>2. /\ Len(proof) = h
      /\ \A k \in 0..h : /\ at[k].idx \in Nat /\ at[k].idx < Len(layer[k])
                        /\ at[k].node = layer[k][at[k].idx + 1]
  <2>1. Len(proof) = h /\ InTree(leaves, at, h)
    BY ClimbsTheTree
  <2> HIDE DEF at, h
  <2> QED BY <2>1 DEF InTree
<1>3. /\ at[0] = [node |-> Leaf(fields), idx |-> index]
      /\ \A k \in 1..h : at[k] = ClimbStep(at[k - 1], proof[k]) /\ IsNode(at[k].node)
  BY <1>2, ClimbIs
<1>4. \A k \in 1..h : GetProof(leaves, index)[k] = Sibling(layer[k - 1], idx[k - 1])
  BY GetProofIs
<1>5. idx[0] = index /\ \A k \in 1..h : idx[k] = idx[k - 1] \div 2
  BY <1>1, ShiftedIs
<1> HIDE DEF h, layer, idx, at
<1>6. 0 \in T
  BY <1>3, <1>5
<1>7. ASSUME NEW k \in 0..(h - 1), k \in T PROVE k + 1 \in T
  <2>1. k \in Nat /\ k + 1 \in Nat /\ k + 1 \in 1..h /\ (k + 1) - 1 = k
    BY <1>1
  <2>2. at[k + 1].idx = at[k].idx \div 2
    <3>1. at[k + 1] = ClimbStep(at[k], proof[k + 1])
      BY <1>3, <2>1
    <3> QED BY <3>1, ClimbStepIs
  <2>3. idx[k + 1] = idx[k] \div 2
    BY <1>5, <2>1
  <2> QED BY <1>7, <2>1, <2>2, <2>3
<1>8. \A k \in 0..h : k \in T
  <2> HIDE DEF T
  <2> QED BY <1>1, <1>6, <1>7, UpTo
<1>9. ASSUME NEW k \in 0..h PROVE at[k].node # ZERO32
  <2>1. k = 0 \/ k \in 1..h
    BY <1>1
  <2>2. IsNode(at[k].node) => at[k].node # ZERO32
    BY HashesDiffer DEF IsNode
  <2> QED BY <1>3, <2>1, <2>2, HashesDiffer
<1>10. ASSUME NEW k \in 1..h PROVE proof[k] = GetProof(leaves, index)[k]
  <2>1. k - 1 \in 0..h /\ k \in 0..h
    BY <1>1
  <2>2. /\ at[k] = ClimbStep(at[k - 1], proof[k]) /\ at[k - 1].idx \in Nat /\ at[k - 1].node # ZERO32
        /\ layer[k] = NextLayer(layer[k - 1]) /\ Len(layer[k - 1]) \in Nat
    BY <1>1, <1>2, <1>3, <1>9, <2>1
  <2>3. at[k].idx < Len(NextLayer(layer[k - 1])) /\ at[k].node = NextLayer(layer[k - 1])[at[k].idx + 1]
    BY <1>2, <2>1, <2>2
  <2>4. proof[k] = Sibling(layer[k - 1], at[k - 1].idx)
    BY <2>2, <2>3, ChildIs
  <2>5. at[k - 1].idx = idx[k - 1]
    BY <1>8, <2>1
  <2> QED BY <1>4, <2>4, <2>5
<1> QED BY <1>2, <1>10 DEF h

\* Leaves that differ have no proof in common: their siblings differ.
LEMMA PathsDiffer ==
    ASSUME NEW leaves, Len(leaves) \in Nat, Len(leaves) >= 1,
           \A i \in 1..Len(leaves) : \E fields : leaves[i] = Leaf(fields),
           \A i, j \in 1..Len(leaves) : leaves[i] = leaves[j] => i = j,
           NEW a \in Nat, a < Len(leaves), NEW b \in Nat, b < Len(leaves),
           \A k \in 1..Height(Len(leaves)) : GetProof(leaves, a)[k] = GetProof(leaves, b)[k]
    PROVE  a = b
<1> DEFINE n == Len(leaves)
           h == Height(n)
<1>1. h \in Nat /\ Layers(leaves)[0] = leaves /\ Len(Layers(leaves)[h]) = 1
  BY LayersAre, LayerSizes
<1>2. CASE h = 0
  <2>1. n = 1
    BY <1>1, <1>2
  <2> QED BY <2>1
<1>3. CASE h # 0
  <2>1. 1 \in 1..h /\ 1 - 1 = 0
    BY <1>1, <1>3
  <2>2. /\ GetProof(leaves, a)[1] = Sibling(leaves, Shifted(a, h)[0])
        /\ GetProof(leaves, b)[1] = Sibling(leaves, Shifted(b, h)[0])
    BY <1>1, <2>1, GetProofIs
  <2>3. Shifted(a, h)[0] = a /\ Shifted(b, h)[0] = b
    BY <1>1, ShiftedIs
  <2>4. Sibling(leaves, a) = Sibling(leaves, b)
    BY <2>1, <2>2, <2>3
  <2> HIDE DEF h, n
  <2>5. n \in Nat /\ a < n /\ b < n
    BY DEF n
  <2>6. /\ Sibling(leaves, a) = IF SiblingIndex(a) < n THEN leaves[SiblingIndex(a) + 1] ELSE ZERO32
        /\ Sibling(leaves, b) = IF SiblingIndex(b) < n THEN leaves[SiblingIndex(b) + 1] ELSE ZERO32
    BY DEF Sibling, n
  <2>7. ASSUME NEW i \in 1..n PROVE leaves[i] # ZERO32
    BY HashesDiffer DEF n
  <2>8. /\ SiblingIndex(a) \in Nat /\ SiblingIndex(b) \in Nat
        /\ SiblingIndex(a) = SiblingIndex(b) => a = b
        /\ SiblingIndex(a) >= n => a = n - 1
        /\ SiblingIndex(b) >= n => b = n - 1
    <3>1. /\ a \div 2 \in Nat /\ (a % 2 = 0 \/ a % 2 = 1) /\ a = 2 * (a \div 2) + (a % 2)
          /\ b \div 2 \in Nat /\ (b % 2 = 0 \/ b % 2 = 1) /\ b = 2 * (b \div 2) + (b % 2)
      BY Halves
    <3> QED BY <2>5, <3>1 DEF SiblingIndex
  <2> DEFINE x == SiblingIndex(a)
             y == SiblingIndex(b)
  <2> HIDE DEF x, y
  <2>9. (x < n => x + 1 \in 1..n) /\ (y < n => y + 1 \in 1..n)
    BY <2>5, <2>8 DEF x, y
  <2>10. CASE x < n /\ y < n
    <3>1. leaves[x + 1] = leaves[y + 1]
      BY <2>4, <2>6, <2>10 DEF x, y
    <3>2. x + 1 = y + 1
      BY <2>9, <2>10, <3>1 DEF n
    <3>3. x = y
      BY <2>8, <3>2 DEF x, y
    <3> QED BY <2>8, <3>3 DEF x, y
  <2>11. CASE x >= n /\ y >= n
    BY <2>8, <2>11 DEF x, y
  <2>12. CASE x < n /\ ~(y < n)
    <3>1. leaves[x + 1] = ZERO32
      BY <2>4, <2>6, <2>12 DEF x, y
    <3> QED BY <2>7, <2>9, <2>12, <3>1
  <2>13. CASE ~(x < n) /\ y < n
    <3>1. leaves[y + 1] = ZERO32
      BY <2>4, <2>6, <2>13 DEF x, y
    <3> QED BY <2>7, <2>9, <2>13, <3>1
  <2>14. (x < n \/ x >= n) /\ (y < n \/ y >= n)
    BY <2>5, <2>8 DEF x, y
  <2> QED BY <2>10, <2>11, <2>12, <2>13, <2>14
<1> QED BY <1>2, <1>3

\* In a tree of leaves that differ, the proof of a leaf verifies for this leaf at
\* its index, and for no other leaf and no other index: getProof (merkle.ts:75-86)
\* and verify_proof (lib.rs:231-252) agree on trees of any size.
THEOREM ProofIsForOneLeaf ==
    ASSUME NEW leaves, Len(leaves) \in Nat, Len(leaves) >= 1,
           \A i \in 1..Len(leaves) : \E fields : leaves[i] = Leaf(fields),
           \A i, j \in 1..Len(leaves) : leaves[i] = leaves[j] => i = j,
           NEW a \in Nat, a < Len(leaves), NEW index \in Nat, NEW fields
    PROVE  VerifyProof(Leaf(fields), index, GetProof(leaves, a), ComputeRoot(leaves))
               <=> index = a /\ leaves[a + 1] = Leaf(fields)
<1>1. Len(GetProof(leaves, a)) = Height(Len(leaves)) /\ Len(GetProof(leaves, a)) \in Nat
  BY GetProofIs, HeightIsNat
<1>2. ASSUME VerifyProof(Leaf(fields), index, GetProof(leaves, a), ComputeRoot(leaves))
      PROVE  index = a /\ leaves[a + 1] = Leaf(fields)
  <2>1. index < Len(leaves) /\ leaves[index + 1] = Leaf(fields)
    BY <1>1, <1>2, ProofsAreSound
  <2>2. \A k \in 1..Height(Len(leaves)) : GetProof(leaves, a)[k] = GetProof(leaves, index)[k]
    BY <1>1, <1>2, ProofsAreUnique
  <2>3. a = index
    BY <2>1, <2>2, PathsDiffer
  <2> QED BY <2>1, <2>3
<1>3. ASSUME index = a, leaves[a + 1] = Leaf(fields)
      PROVE  VerifyProof(Leaf(fields), index, GetProof(leaves, a), ComputeRoot(leaves))
  <2>1. VerifyProof(leaves[a + 1], a, GetProof(leaves, a), ComputeRoot(leaves))
    BY ProofsAreComplete
  <2> QED BY <1>3, <2>1
<1> QED BY <1>2, <1>3

-----------------------------------------------------------------------------
(* A root is of one tree *)

LeavesOnly(leaves) == \A i \in 1..Len(leaves) : \E fields : leaves[i] = Leaf(fields)

LEMMA SameRootSameLeaf ==
    ASSUME NEW a, Len(a) \in Nat, LeavesOnly(a), NEW b, Len(b) \in Nat, Len(b) >= 1, LeavesOnly(b),
           ComputeRoot(a) = ComputeRoot(b), NEW i \in 1..Len(a)
    PROVE  i <= Len(b) /\ b[i] = a[i]
<1>1. /\ i - 1 \in Nat /\ i - 1 < Len(a) /\ (i - 1) + 1 = i /\ Len(a) >= 1
  OBVIOUS
<1>2. PICK fields : a[i] = Leaf(fields)
  BY DEF LeavesOnly
<1>3. VerifyProof(a[i], i - 1, GetProof(a, i - 1), ComputeRoot(a))
  <2>1. VerifyProof(a[(i - 1) + 1], i - 1, GetProof(a, i - 1), ComputeRoot(a))
    BY <1>1, ProofsAreComplete
  <2> QED BY <1>1, <2>1
<1>4. Len(GetProof(a, i - 1)) \in Nat
  BY <1>1, GetProofIs, HeightIsNat
<1>5. VerifyProof(Leaf(fields), i - 1, GetProof(a, i - 1), ComputeRoot(b))
  BY <1>2, <1>3
<1>6. i - 1 < Len(b) /\ b[(i - 1) + 1] = Leaf(fields)
  <2>1. \A j \in 1..Len(b) : \E f : b[j] = Leaf(f)
    BY DEF LeavesOnly
  <2> QED BY <1>1, <1>4, <1>5, <2>1, ProofsAreSound
<1> QED BY <1>1, <1>2, <1>6

\* The root of a tree says how many leaves it has, and which.
THEOREM RootBindsLeaves ==
    ASSUME NEW a, Len(a) \in Nat, Len(a) >= 1, LeavesOnly(a),
           NEW b, Len(b) \in Nat, Len(b) >= 1, LeavesOnly(b),
           ComputeRoot(a) = ComputeRoot(b)
    PROVE  Len(a) = Len(b) /\ \A i \in 1..Len(a) : a[i] = b[i]
<1>1. \A i \in 1..Len(a) : i <= Len(b) /\ b[i] = a[i]
  BY SameRootSameLeaf
<1>2. \A i \in 1..Len(b) : i <= Len(a) /\ a[i] = b[i]
  BY SameRootSameLeaf
<1>3. Len(a) \in 1..Len(a) /\ Len(b) \in 1..Len(b)
  OBVIOUS
<1>4. Len(a) <= Len(b) /\ Len(b) <= Len(a)
  BY <1>1, <1>2, <1>3
<1> QED BY <1>1, <1>4

\* The proof getProof makes of a leaf verifies under the root of its own tree
\* only, of whatever shape the other is: a proof of a state that has gone on does
\* not pass for the state that was published (lib.rs:231-252).
THEOREM ProofIsForOneTree ==
    ASSUME NEW a, Len(a) \in Nat, LeavesOnly(a),
           NEW b, Len(b) \in Nat, Len(b) >= 1, LeavesOnly(b),
           NEW index \in Nat, index < Len(a),
           VerifyProof(a[index + 1], index, GetProof(a, index), ComputeRoot(b))
    PROVE  Len(a) = Len(b) /\ \A i \in 1..Len(a) : a[i] = b[i]
<1>1. VerifyProof(a[index + 1], index, GetProof(a, index), ComputeRoot(a))
  BY ProofsAreComplete
<1>2. ComputeRoot(a) = ComputeRoot(b)
  <2> DEFINE end == Climb(a[index + 1], index, GetProof(a, index))[Len(GetProof(a, index))]
  <2>1. end = [node |-> ComputeRoot(a), idx |-> 0] /\ end = [node |-> ComputeRoot(b), idx |-> 0]
    BY <1>1 DEF VerifyProof
  <2> HIDE DEF end
  <2>2. end.node = ComputeRoot(a) /\ end.node = ComputeRoot(b)
    BY <2>1
  <2> QED BY <2>2
<1>3. Len(a) >= 1
  OBVIOUS
<1> QED BY <1>2, <1>3, RootBindsLeaves
=============================================================================
