---------------------------- MODULE XorTheorems ----------------------------
(***************************************************************************)
(* What the proofs need of the GF(2) algebra: sums are formal, and a linear *)
(* map is what XorSum computes from the images of a basis. Induction, which  *)
(* here is the well-foundedness of finite sets. And numbers: quotients,      *)
(* powers of two and Log2Ceil, for the shapes of trees.                     *)
(***************************************************************************)
EXTENDS XorAlgebra, FiniteSetTheorems, TLAPS

LEMMA InXor ==
    ASSUME NEW a, NEW b, NEW x
    PROVE  x \in Xor(a, b) <=> ~(x \in a <=> x \in b)
  BY DEF Xor, SymDiff

(* An exclusive-or is zero when and only when the operands are equal.       *)
LEMMA XorFixed ==
    ASSUME NEW a, NEW b
    PROVE  Xor(a, b) = a <=> b = {}
<1>1. ASSUME Xor(a, b) = a, NEW x \in b PROVE FALSE
  BY <1>1, InXor
<1>2. ASSUME b = {} PROVE Xor(a, b) = a
  BY <1>2, InXor
<1>3. QED
  BY <1>1, <1>2

LEMMA XorNothing ==
    ASSUME NEW a
    PROVE  Xor(a, {}) = a
  BY XorFixed

(* An unknown is in a sum when it occurs in an odd number of its summands.  *)
LEMMA InXorSum ==
    ASSUME NEW f, NEW S, IsFiniteSet(S), NEW x
    PROVE  x \in XorSum(f, S) <=> Cardinality({ s \in S : x \in f[s] }) % 2 = 1
<1> DEFINE A == { s \in S : x \in f[s] }
<1>1. ASSUME Cardinality(A) % 2 = 1 PROVE x \in UNION { f[s] : s \in S }
  <2>1. A # {}
    <3> SUFFICES ASSUME A = {} PROVE FALSE
      OBVIOUS
    <3>1. Cardinality(A) = 0
      BY FS_EmptySet
    <3>2. QED
      BY <1>1, <3>1
  <2>2. QED
    BY <2>1
<1>2. QED
  BY <1>1 DEF XorSum

(* Odd and odd is even.                                                     *)
LEMMA XorParity ==
    ASSUME NEW A, NEW B, IsFiniteSet(A), IsFiniteSet(B)
    PROVE  Cardinality(Xor(A, B)) % 2 = 1 <=> ~(Cardinality(A) % 2 = 1 <=> Cardinality(B) % 2 = 1)
<1> DEFINE L == A \ B
           R == B \ A
           M == A \cap B
<1>1. IsFiniteSet(L) /\ IsFiniteSet(R) /\ IsFiniteSet(M)
  <2>1. L \in SUBSET A /\ R \in SUBSET B /\ M \in SUBSET A
    OBVIOUS
  <2>2. QED
    BY <2>1, FS_Subset
<1>2. Cardinality(L) \in Nat /\ Cardinality(R) \in Nat /\ Cardinality(M) \in Nat
  BY <1>1, FS_CardinalityType
<1>3. ASSUME NEW P, NEW Q, IsFiniteSet(P), IsFiniteSet(Q), P \cap Q = {}
      PROVE  Cardinality(P \cup Q) = Cardinality(P) + Cardinality(Q)
  <2>1. Cardinality(P \cup Q) = Cardinality(P) + Cardinality(Q) - Cardinality(P \cap Q)
    BY <1>3, FS_Union
  <2>2. Cardinality(P \cap Q) = 0 /\ Cardinality(P) \in Nat /\ Cardinality(Q) \in Nat
    BY <1>3, FS_EmptySet, FS_CardinalityType
  <2>3. QED
    BY <2>1, <2>2
<1>4. A = L \cup M /\ L \cap M = {} /\ B = R \cup M /\ R \cap M = {}
  OBVIOUS
<1>5. Xor(A, B) = L \cup R /\ L \cap R = {}
  BY InXor
<1> HIDE DEF L, R, M
<1>6. /\ Cardinality(A) = Cardinality(L) + Cardinality(M)
      /\ Cardinality(B) = Cardinality(R) + Cardinality(M)
      /\ Cardinality(Xor(A, B)) = Cardinality(L) + Cardinality(R)
  BY <1>1, <1>3, <1>4, <1>5
<1>7. QED
  BY <1>2, <1>6

(* XorSum is linear: the code word of a sum of words is the sum of their    *)
(* code words, whatever the generator.                                     *)
THEOREM XorSumLinear ==
    ASSUME NEW f, NEW S, NEW T, IsFiniteSet(S), IsFiniteSet(T)
    PROVE  XorSum(f, Xor(S, T)) = Xor(XorSum(f, S), XorSum(f, T))
<1>1. IsFiniteSet(Xor(S, T))
  <2>1. Xor(S, T) \in SUBSET (S \cup T)
    BY InXor
  <2>2. QED
    BY <2>1, FS_Union, FS_Subset
<1>2. ASSUME NEW x
      PROVE  x \in XorSum(f, Xor(S, T)) <=> x \in Xor(XorSum(f, S), XorSum(f, T))
  <2> DEFINE In(U) == { s \in U : x \in f[s] }
  <2>1. IsFiniteSet(In(S)) /\ IsFiniteSet(In(T))
    BY FS_Subset, In(S) \in SUBSET S, In(T) \in SUBSET T
  <2>2. In(Xor(S, T)) = Xor(In(S), In(T))
    BY InXor
  <2>3. x \in XorSum(f, Xor(S, T)) <=> Cardinality(Xor(In(S), In(T))) % 2 = 1
    BY <1>1, <2>2, InXorSum
  <2>4. /\ x \in XorSum(f, S) <=> Cardinality(In(S)) % 2 = 1
        /\ x \in XorSum(f, T) <=> Cardinality(In(T)) % 2 = 1
    BY InXorSum
  <2> HIDE DEF In
  <2>5. QED
    BY <2>1, <2>3, <2>4, XorParity, InXor
<1>3. QED
  BY <1>2

(* A sum in which every summand is itself a sum of two.                     *)
LEMMA XorSumOfXor ==
    ASSUME NEW f, NEW g, NEW h, NEW S, IsFiniteSet(S), \A s \in S : h[s] = Xor(f[s], g[s])
    PROVE  XorSum(h, S) = Xor(XorSum(f, S), XorSum(g, S))
<1>1. ASSUME NEW x
      PROVE  x \in XorSum(h, S) <=> x \in Xor(XorSum(f, S), XorSum(g, S))
  <2> DEFINE F == { s \in S : x \in f[s] }
             G == { s \in S : x \in g[s] }
             H == { s \in S : x \in h[s] }
  <2>1. IsFiniteSet(F) /\ IsFiniteSet(G)
    BY FS_Subset, F \in SUBSET S, G \in SUBSET S
  <2>2. H = Xor(F, G)
    BY InXor
  <2>3. /\ x \in XorSum(h, S) <=> Cardinality(H) % 2 = 1
        /\ x \in XorSum(f, S) <=> Cardinality(F) % 2 = 1
        /\ x \in XorSum(g, S) <=> Cardinality(G) % 2 = 1
    BY InXorSum
  <2> HIDE DEF F, G, H
  <2>4. QED
    BY <2>1, <2>2, <2>3, XorParity, InXor
<1>2. QED
  BY <1>1

LEMMA XorSumSame ==
    ASSUME NEW f, NEW g, NEW S, \A s \in S : f[s] = g[s]
    PROVE  XorSum(f, S) = XorSum(g, S)
<1>1. UNION { f[s] : s \in S } = UNION { g[s] : s \in S }
  OBVIOUS
<1>2. ASSUME NEW x PROVE { s \in S : x \in f[s] } = { s \in S : x \in g[s] }
  OBVIOUS
<1>3. QED
  BY <1>1, <1>2 DEF XorSum

LEMMA XorSumNone ==
    ASSUME NEW f
    PROVE  XorSum(f, {}) = {}
  BY DEF XorSum

(* A sum of one, and a sum with one summand more.                           *)
LEMMA XorSumOne ==
    ASSUME NEW f, NEW s
    PROVE  XorSum(f, {s}) = f[s]
<1>1. IsFiniteSet({s}) /\ Cardinality({s}) = 1 /\ Cardinality({}) = 0
  BY FS_Singleton, FS_EmptySet
<1>2. ASSUME NEW x PROVE x \in XorSum(f, {s}) <=> x \in f[s]
  <2>1. x \in XorSum(f, {s}) <=> Cardinality({ t \in {s} : x \in f[t] }) % 2 = 1
    BY <1>1, InXorSum
  <2>2. CASE x \in f[s]
    <3>1. { t \in {s} : x \in f[t] } = {s}
      BY <2>2
    <3>2. QED
      BY <1>1, <2>1, <2>2, <3>1
  <2>3. CASE x \notin f[s]
    <3>1. { t \in {s} : x \in f[t] } = {}
      BY <2>3
    <3>2. QED
      BY <1>1, <2>1, <2>3, <3>1
  <2>4. QED
    BY <2>2, <2>3
<1>3. QED
  BY <1>2

LEMMA XorSumAdd ==
    ASSUME NEW f, NEW S, IsFiniteSet(S), NEW s, s \notin S
    PROVE  XorSum(f, S \cup {s}) = Xor(f[s], XorSum(f, S))
<1>1. S \cup {s} = Xor({s}, S) /\ IsFiniteSet({s})
  BY InXor, FS_Singleton
<1>2. QED
  BY <1>1, XorSumLinear, XorSumOne

(* Of the finite sets with a property one is smallest: what an induction    *)
(* over a finite set amounts to.                                           *)
LEMMA SmallestSet ==
    ASSUME NEW S, IsFiniteSet(S), NEW B \in SUBSET (SUBSET S), B # {}
    PROVE  \E T \in B : \A U \in B : ~(U \subseteq T /\ U # T)
<1> DEFINE R == StrictSubsetOrdering(S)
           F == FiniteSubsetsOf(S)
<1>1. IsWellFoundedOn(R, F)
  BY FS_StrictSubsetOrderingWellFounded
<1>2. B \subseteq F
  BY FS_FiniteSubsetsOfFinite
<1> HIDE DEF F
<1>3. PICK T \in B : \A U \in B : <<U, T>> \notin R
  <2> HIDE DEF R
  <2>1. QED
    BY <1>1, <1>2, WFMin
<1>4. ASSUME NEW U \in B, U \subseteq T, U # T PROVE FALSE
  <2>1. <<U, T>> \in R
    BY <1>4 DEF StrictSubsetOrdering
  <2>2. QED
    BY <1>3, <2>1
<1>5. QED
  BY <1>4

(* The sum of sums: what the generator makes of the sum of several words is *)
(* the sum of what it makes of each.                                       *)
THEOREM XorSumOfSums ==
    ASSUME NEW gen, NEW B, IsFiniteSet(B), NEW S, IsFiniteSet(S),
           NEW w, \A s \in S : w[s] \in SUBSET B,
           NEW c, \A s \in S : c[s] = XorSum(gen, w[s])
    PROVE  XorSum(gen, XorSum(w, S)) = XorSum(c, S)
<1> DEFINE Bad == { T \in SUBSET S : XorSum(gen, XorSum(w, T)) # XorSum(c, T) }
<1> SUFFICES ASSUME Bad # {} PROVE FALSE
  BY S \in SUBSET S
<1>1. Bad \in SUBSET (SUBSET S)
  OBVIOUS
<1>2. PICK T \in Bad : \A U \in Bad : ~(U \subseteq T /\ U # T)
  <2> HIDE DEF Bad
  <2>1. QED
    BY <1>1, SmallestSet
<1>3. T # {}
  BY <1>2, XorSumNone
<1>4. PICK s \in T : TRUE
  BY <1>3
<1> DEFINE U == T \ {s}
<1>5. U \in SUBSET S /\ U \notin Bad /\ T = U \cup {s} /\ s \notin U /\ s \in S
  BY <1>2, <1>4
<1>6. XorSum(gen, XorSum(w, U)) = XorSum(c, U) /\ IsFiniteSet(U)
  BY <1>5, FS_Subset
<1> HIDE DEF U, Bad
<1>7. /\ XorSum(w, T) = Xor(w[s], XorSum(w, U))
      /\ XorSum(c, T) = Xor(c[s], XorSum(c, U))
  BY <1>5, <1>6, XorSumAdd
<1>8. IsFiniteSet(w[s]) /\ IsFiniteSet(XorSum(w, U))
  <2>1. XorSum(w, U) \in SUBSET B
    BY <1>5 DEF XorSum
  <2>2. QED
    BY <1>5, <2>1, FS_Subset
<1>9. XorSum(gen, XorSum(w, T)) = Xor(XorSum(gen, w[s]), XorSum(gen, XorSum(w, U)))
  BY <1>7, <1>8, XorSumLinear
<1>10. XorSum(gen, XorSum(w, T)) = XorSum(c, T)
  BY <1>5, <1>6, <1>7, <1>9
<1>11. QED
  BY <1>2, <1>10 DEF Bad

---------------------------------------------------------------------------
(* What holds of 0 and of the next number holds up to n: an induction over  *)
(* a set of numbers.                                                       *)
LEMMA IntervalInduction ==
    ASSUME NEW n \in Nat, NEW S, 0 \in S, \A k \in 1..n : k - 1 \in S => k \in S
    PROVE  0..n \subseteq S
<1> DEFINE Missing == { 0..k : k \in (0..n) \ S }
<1> SUFFICES ASSUME NEW bad0 \in (0..n) \ S PROVE FALSE
  OBVIOUS
<1>1. Missing \subseteq FiniteSubsetsOf(0..n) /\ Missing # {}
  <2>1. ASSUME NEW k \in 0..n PROVE 0..k \in SUBSET (0..n) /\ IsFiniteSet(0..k)
    <3>1. 0..k \in SUBSET (0..n)
      OBVIOUS
    <3>2. k \in Int /\ 0 \in Int
      OBVIOUS
    <3>3. QED
      BY <3>1, <3>2, FS_Interval
  <2>2. QED
    BY <2>1 DEF FiniteSubsetsOf
<1>2. PICK x \in Missing : \A y \in Missing : ~(<<y, x>> \in StrictSubsetOrdering(0..n))
  BY <1>1, FS_StrictSubsetOrderingWellFounded, WFMin
<1>3. PICK k \in (0..n) \ S : x = 0..k
  BY <1>2
<1>4. k # 0 /\ k - 1 \in (0..n) \ S
  OBVIOUS
<1>5. 0..(k - 1) \in Missing
  BY <1>4
<1>6. 0..(k - 1) \subseteq 0..k /\ 0..(k - 1) # 0..k /\ 0..k \in SUBSET (0..n) /\ 0..(k - 1) \in SUBSET (0..n)
  <2>1. k \in 0..k /\ k \notin 0..(k - 1)
    OBVIOUS
  <2>2. QED
    BY <2>1
<1>7. <<0..(k - 1), 0..k>> \in StrictSubsetOrdering(0..n)
  BY <1>6 DEF StrictSubsetOrdering
<1>8. QED
  BY <1>2, <1>3, <1>5, <1>7
---------------------------------------------------------------------------
(* Numbers. *)

LEMMA DivMod ==
    ASSUME NEW x \in Nat, NEW y \in Nat \ {0}
    PROVE  /\ x \div y \in Nat
           /\ x % y \in 0..(y - 1)
           /\ ((x \div y) * y) + (x % y) = x
  BY SMT

LEMMA Half ==
    ASSUME NEW x \in Nat
    PROVE  /\ x \div 2 \in Nat
           /\ x % 2 \in {0, 1}
           /\ (2 * (x \div 2)) + (x % 2) = x
  BY SMT

LEMMA RowsInOrder ==
    ASSUME NEW a \in Int, NEW c \in Int, NEW y \in Nat \ {0}, NEW b \in 0..(y - 1), NEW d \in 0..(y - 1), a < c
    PROVE  (a * y) + b < (c * y) + d
<1>1. PICK k \in Nat : c = a + 1 + k
  <2>1. c = a + 1 + (c - a - 1) /\ c - a - 1 \in Nat
    OBVIOUS
  <2>2. QED
    BY <2>1
<1>2. c * y = a * y + y + k * y
  BY <1>1
<1>3. k * y \in Nat
  BY <1>1
<1>4. a * y \in Int
  OBVIOUS
<1>5. QED
  BY <1>2, <1>3, <1>4

(* Row and column of a cell of a table with rows of y cells.                *)
LEMMA OneCell ==
    ASSUME NEW a \in Int, NEW c \in Int, NEW y \in Nat \ {0}, NEW b \in 0..(y - 1), NEW d \in 0..(y - 1),
           (a * y) + b = (c * y) + d
    PROVE  a = c /\ b = d
<1>1. ~(a < c) /\ ~(c < a)
  <2>1. (a * y) + b \in Int
    OBVIOUS
  <2>2. QED
    BY RowsInOrder, <2>1
<1>2. QED
  BY <1>1

LEMMA CellOf ==
    ASSUME NEW a \in Nat, NEW y \in Nat \ {0}, NEW b \in 0..(y - 1)
    PROVE  ((a * y) + b) \div y = a /\ ((a * y) + b) % y = b
<1>1. a * y \in Nat
  OBVIOUS
<1>2. PICK x \in Nat : x = (a * y) + b
  BY <1>1
<1>3. ((x \div y) * y) + (x % y) = (a * y) + b /\ x \div y \in Nat /\ x % y \in 0..(y - 1)
  BY DivMod, <1>2
<1>4. QED
  BY <1>2, <1>3, OneCell

(* A cell of n rows of y cells.                                            *)
LEMMA CellFits ==
    ASSUME NEW n \in Nat, NEW a \in 0..(n - 1), NEW y \in Nat \ {0}, NEW b \in 0..(y - 1)
    PROVE  (a * y) + b \in 0..((n * y) - 1)
<1>1. (a * y) + b < (n * y) + 0
  BY RowsInOrder
<1>2. a * y \in Nat /\ n * y \in Nat
  OBVIOUS
<1>3. QED
  BY <1>1, <1>2

LEMMA DivCeilIs ==
    ASSUME NEW x \in Nat, NEW y \in Nat \ {0}
    PROVE  /\ DivCeil(x, y) \in Nat
           /\ DivCeil(x, y) * y >= x
           /\ \A w \in Nat : w * y >= x => DivCeil(x, y) <= w
<1>1. PICK z \in Nat : z = x + y - 1
  OBVIOUS
<1>2. PICK q \in Nat, r \in 0..(y - 1) : z \div y = q /\ (q * y) + r = z
  BY <1>1, DivMod
<1>3. DivCeil(x, y) = q
  BY <1>1, <1>2 DEF DivCeil
<1>4. q * y \in Nat
  BY <1>2
<1>5. q * y >= x
  BY <1>1, <1>2, <1>4
<1>6. ASSUME NEW w \in Nat, w * y >= x PROVE q <= w
  <2>1. SUFFICES ASSUME w < q PROVE FALSE
    BY <1>2
  <2>2. ((w + 1) * y) + 0 <= (q * y) + 0
    <3>1. CASE w + 1 = q
      BY <3>1, <1>4
    <3>2. CASE w + 1 < q
      <4>1. ((w + 1) * y) + 0 < (q * y) + 0
        BY <1>2, <3>2, RowsInOrder
      <4>2. QED
        BY <4>1, <1>4
    <3>3. QED
      BY <1>2, <2>1, <3>1, <3>2
  <2>3. (w + 1) * y = w * y + y /\ w * y \in Nat
    OBVIOUS
  <2>4. QED
    BY <1>1, <1>2, <1>4, <1>6, <2>2, <2>3
<1>7. QED
  BY <1>3, <1>5, <1>6, <1>2

(* 2^n, which the provers know nothing of, as the number of subsets of 1..n. *)
LEMMA Subsets ==
    ASSUME NEW n \in Nat
    PROVE  IsFiniteSet(SUBSET (1..n)) /\ Cardinality(SUBSET (1..n)) = 2^n
<1>1. IsFiniteSet(1..n) /\ Cardinality(1..n) = n
  BY FS_Interval
<1>2. QED
  BY <1>1, FS_SUBSET

LEMMA PowerStep ==
    ASSUME NEW n \in Nat
    PROVE  2^(n + 1) = 2 * 2^n /\ 2^n \in Nat
<1> DEFINE Old == SUBSET (1..n)
           New == { X \cup {n + 1} : X \in Old }
           f == [X \in Old |-> X \cup {n + 1}]
<1>1. IsFiniteSet(Old) /\ Cardinality(Old) = 2^n /\ 2^n \in Nat
  BY Subsets, FS_CardinalityType
<1>2. SUBSET (1..(n + 1)) = Old \cup New
  <2>1. ASSUME NEW X \in SUBSET (1..(n + 1)) PROVE X \in Old \cup New
    <3>1. CASE n + 1 \in X
      <4>1. X \ {n + 1} \in Old /\ X = (X \ {n + 1}) \cup {n + 1}
        BY <3>1
      <4>2. QED
        BY <4>1
    <3>2. CASE n + 1 \notin X
      BY <3>2
    <3>3. QED
      BY <3>1, <3>2
  <2>2. ASSUME NEW X \in Old \cup New PROVE X \in SUBSET (1..(n + 1))
    OBVIOUS
  <2>3. QED
    BY <2>1, <2>2, Zenon
<1>3. Old \cap New = {}
  OBVIOUS
<1>4. ExistsBijection(Old, New)
  <2>1. f \in [Old -> New] /\ \A Y \in New : \E X \in Old : f[X] = Y
    OBVIOUS
  <2>2. ASSUME NEW X \in Old, NEW Y \in Old, f[X] = f[Y] PROVE X = Y
    <3>1. n + 1 \notin X /\ n + 1 \notin Y /\ X \cup {n + 1} = Y \cup {n + 1}
      BY <2>2
    <3>2. QED
      BY <3>1
  <2>3. f \in Injection(Old, New) /\ f \in Surjection(Old, New)
    <3> HIDE DEF f, Old, New
    <3>1. QED
      BY <2>1, <2>2 DEF Injection, Surjection, IsInjective
  <2>4. QED
    <3> HIDE DEF f, Old, New
    <3>1. QED
      BY <2>3 DEF ExistsBijection, Bijection
<1>5. IsFiniteSet(New) /\ Cardinality(New) = 2^n
  BY <1>1, <1>4, FS_Bijection
<1>6. Cardinality(Old \cup New) = 2^n + 2^n - 0
  <2> HIDE DEF Old, New
  <2>1. QED
    BY <1>1, <1>3, <1>5, FS_Union, FS_EmptySet
<1>7. Cardinality(SUBSET (1..(n + 1))) = 2^(n + 1)
  BY Subsets, n + 1 \in Nat
<1>8. 2^(n + 1) = 2^n + 2^n - 0
  <2> HIDE DEF Old, New
  <2>1. QED
    BY <1>2, <1>6, <1>7
<1>9. PICK p \in Nat : p = 2^n
  BY <1>1
<1>10. QED
  BY <1>8, <1>9

LEMMA PowerZero == 2^0 = 1
  BY SMT

LEMMA PowerFits ==
    ASSUME NEW n \in Nat
    PROVE  2^n \in Nat \ {0} /\ n <= 2^n
<1> DEFINE S == { k \in 0..n : 2^k \in Nat \ {0} /\ k <= 2^k }
<1>1. 0 \in S
  BY PowerZero
<1>2. ASSUME NEW k \in 1..n, k - 1 \in S PROVE k \in S
  <2>1. 2^((k - 1) + 1) = 2 * 2^(k - 1) /\ (k - 1) + 1 = k
    BY PowerStep
  <2>2. 2^k = 2 * 2^(k - 1)
    BY <2>1
  <2>3. PICK p \in Nat \ {0} : p = 2^(k - 1) /\ k - 1 <= p
    BY <1>2
  <2>4. 2^k = 2 * p
    BY <2>2, <2>3
  <2>5. QED
    BY <2>3, <2>4
<1>3. 0..n \subseteq S
  <2> HIDE DEF S
  <2>1. QED
    BY <1>1, <1>2, IntervalInduction
<1>4. QED
  BY <1>3

(* Halving a quotient by a power of two divides by the next one.            *)
LEMMA HalfOfQuotient ==
    ASSUME NEW x \in Nat, NEW p \in Nat \ {0}
    PROVE  (x \div p) \div 2 = x \div (2 * p)
<1>1. PICK q \in Nat, r \in 0..(p - 1) : q = x \div p /\ (q * p) + r = x
  BY DivMod
<1>2. PICK h \in Nat, b \in {0, 1} : h = q \div 2 /\ (2 * h) + b = q
  BY <1>1, Half
<1>3. (b * p) + r \in 0..((2 * p) - 1)
  <2>1. b * p \in {0, p}
    BY <1>2
  <2>2. QED
    BY <2>1, <1>1
<1>4. x = (h * (2 * p)) + ((b * p) + r)
  <2>1. q * p = (h * (2 * p)) + (b * p)
    BY <1>2
  <2>2. QED
    BY <1>1, <2>1
<1>5. x \div (2 * p) = h
  <2>1. PICK c \in 0..((2 * p) - 1) : c = (b * p) + r
    BY <1>3
  <2>2. ((h * (2 * p)) + c) \div (2 * p) = h
    BY <1>2, <2>1, CellOf
  <2>3. QED
    BY <1>4, <2>1, <2>2
<1>6. QED
  BY <1>1, <1>2, <1>5

LEMMA Log2CeilIs ==
    ASSUME NEW x \in Nat
    PROVE  Log2Ceil(x) \in 0..x /\ 2^Log2Ceil(x) >= x /\ \A e \in 0..(Log2Ceil(x) - 1) : 2^e < x
<1> DEFINE Least(d) == 2^d >= x /\ \A e \in 0..(d - 1) : 2^e < x
           Small == { k \in 0..x : \A d \in 0..k : 2^d < x }
<1>1. 2^x >= x
  BY PowerFits
<1>2. \E d \in 0..x : Least(d)
  <2>1. SUFFICES ASSUME \A d \in 0..x : ~Least(d) PROVE FALSE
    OBVIOUS
  <2>2. \A d \in 0..x : 2^d \in Nat
    BY PowerFits
  <2>3. 0 \in Small
    <3>1. 0 \in 0..x /\ 0..(0 - 1) = {} /\ 0..0 = {0}
      OBVIOUS
    <3>2. ~(2^0 >= x)
      BY <2>1, <3>1, Zenon
    <3>3. 2^0 < x
      BY <3>2, PowerZero
    <3>4. QED
      BY <3>1, <3>3, Zenon
  <2>4. ASSUME NEW k \in 1..x, k - 1 \in Small PROVE k \in Small
    <3>1. \A d \in 0..(k - 1) : 2^d < x
      BY <2>4
    <3>2. ~(2^k >= x)
      BY <2>1, <3>1
    <3>3. 2^k < x
      BY <2>2, <3>2
    <3>4. \A d \in 0..k : d = k \/ d \in 0..(k - 1)
      OBVIOUS
    <3>5. QED
      BY <3>1, <3>3, <3>4
  <2>5. 0..x \subseteq Small
    <3> HIDE DEF Small
    <3>1. QED
      BY <2>3, <2>4, IntervalInduction
  <2>6. 2^x < x
    BY <2>5
  <2>7. QED
    BY <1>1, <2>2, <2>6
<1>3. QED
  BY <1>2 DEF Log2Ceil

(* There is only one exponent that is just enough.                          *)
LEMMA Log2CeilOnly ==
    ASSUME NEW x \in Nat, NEW n \in Nat, 2^n >= x, \A e \in 0..(n - 1) : 2^e < x
    PROVE  Log2Ceil(x) = n
<1>1. PICK m \in Nat : m = Log2Ceil(x)
  BY Log2CeilIs
<1>2. 2^m >= x /\ (\A e \in 0..(m - 1) : 2^e < x)
  BY <1>1, Log2CeilIs
<1>3. ~(m < n)
  <2>1. SUFFICES ASSUME m < n PROVE FALSE
    OBVIOUS
  <2>2. 2^m < x
    BY <1>1, <2>1
  <2>3. QED
    BY <1>2, <2>2, PowerFits
<1>4. ~(n < m)
  <2>1. SUFFICES ASSUME n < m PROVE FALSE
    OBVIOUS
  <2>2. 2^n < x
    BY <1>2, <2>1
  <2>3. QED
    BY <2>2, PowerFits
<1>5. QED
  BY <1>1, <1>3, <1>4

LEMMA DivCeilAgain ==
    ASSUME NEW x \in Nat, NEW p \in Nat \ {0}, NEW q \in Nat \ {0}
    PROVE  DivCeil(DivCeil(x, p), q) = DivCeil(x, p * q)
<1>1. PICK u \in Nat : u = DivCeil(x, p)
  BY DivCeilIs
<1>2. PICK v \in Nat : v = DivCeil(u, q)
  BY DivCeilIs
<1>3. PICK r \in Nat \ {0} : r = p * q
  BY SMT
<1>4. PICK w \in Nat : w = DivCeil(x, r)
  BY DivCeilIs
<1>5. w <= v
  <2>1. v * q >= u /\ u * p >= x
    BY <1>1, <1>2, DivCeilIs
  <2>2. PICK a \in Nat : a = v * q
    BY SMT
  <2>3. a * p >= u * p
    <3>1. PICK k \in Nat : a = u + k
      <4>1. a = u + (a - u) /\ a - u \in Nat
        BY <2>1, <2>2
      <4>2. QED
        BY <4>1
    <3>2. a * p = u * p + k * p /\ k * p \in Nat /\ u * p \in Nat
      BY <3>1
    <3>3. QED
      BY <3>2
  <2>4. a * p = v * r
    BY <1>3, <2>2
  <2>5. u * p \in Nat /\ v * r \in Nat
    OBVIOUS
  <2>6. v * r >= x
    BY <2>1, <2>3, <2>4, <2>5
  <2>7. QED
    BY <1>4, <2>6, DivCeilIs
<1>6. v <= w
  <2>1. w * r >= x
    BY <1>4, DivCeilIs
  <2>2. PICK a \in Nat : a = w * q
    BY SMT
  <2>3. a * p = w * r
    BY <1>3, <2>2
  <2>4. u <= a
    BY <1>1, <2>1, <2>3, DivCeilIs
  <2>5. QED
    BY <1>2, <2>2, <2>4, DivCeilIs
<1>7. QED
  BY <1>1, <1>2, <1>3, <1>4, <1>5, <1>6
===========================================================================
