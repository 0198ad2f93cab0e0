---------------------------- MODULE BaseOtProofs ----------------------------
(***************************************************************************)
(* Theorems about BaseOt, for every number of OTs, every choice, all        *)
(* protocols and programmable functions, and both settings of either party:  *)
(* a base OT that finishes is an OT, and a commitment is opened or the       *)
(* receiver fails.                                                         *)
(*                                                                         *)
(* First the points, then what each protocol computes from them, then the    *)
(* messages between the two parties.                                       *)
(***************************************************************************)
EXTENDS BaseOt, XorTheorems

---------------------------------------------------------------------------
(* Points. *)

(* A formal combination of atoms, none of them with coefficient zero.       *)
IsAtom(a) == a = <<a[1], a[2], a[3]>> /\ a[2] \in Int /\ a[3] \in Int
IsPoint(p) ==
    /\ p = [a \in DOMAIN p |-> p[a]]
    /\ \A a \in DOMAIN p : IsAtom(a) /\ p[a] \in Int /\ p[a] # 0

LEMMA CoefType ==
    ASSUME NEW p, IsPoint(p), NEW a
    PROVE  Coef(p, a) \in Int
  BY DEF IsPoint, Coef

(* A point is what its coefficients are.                                    *)
LEMMA SamePoint ==
    ASSUME NEW p, NEW q, IsPoint(p), IsPoint(q),
           \A b : \A x, y \in Int : Coef(p, <<b, x, y>>) = Coef(q, <<b, x, y>>)
    PROVE  p = q
<1>1. ASSUME NEW a \in DOMAIN p PROVE a \in DOMAIN q /\ p[a] = q[a]
  <2>1. a = <<a[1], a[2], a[3]>> /\ a[2] \in Int /\ a[3] \in Int /\ p[a] # 0
    BY DEF IsPoint, IsAtom
  <2>2. Coef(p, a) = Coef(q, a)
    BY <2>1
  <2>3. QED
    BY <2>1, <2>2 DEF Coef
<1>2. ASSUME NEW a \in DOMAIN q PROVE a \in DOMAIN p
  <2>1. a = <<a[1], a[2], a[3]>> /\ a[2] \in Int /\ a[3] \in Int /\ q[a] # 0
    BY DEF IsPoint, IsAtom
  <2>2. Coef(p, a) = Coef(q, a)
    BY <2>1
  <2>3. QED
    BY <2>1, <2>2 DEF Coef
<1>3. DOMAIN p = DOMAIN q
  BY <1>1, <1>2
<1>4. p = [a \in DOMAIN p |-> p[a]] /\ q = [a \in DOMAIN q |-> q[a]]
  BY DEF IsPoint
<1>5. QED
  BY <1>1, <1>3, <1>4

LEMMA CombineIs ==
    ASSUME NEW p, NEW q, IsPoint(p), IsPoint(q), NEW k \in Int
    PROVE  /\ IsPoint(Combine(p, q, k))
           /\ \A a : Coef(Combine(p, q, k), a) = Coef(p, a) + k * Coef(q, a)
<1> DEFINE c(a) == Coef(p, a) + k * Coef(q, a)
           D == { b \in (DOMAIN p) \cup (DOMAIN q) : c(b) # 0 }
<1>1. \A a : c(a) \in Int
  BY CoefType
<1>2. Combine(p, q, k) = [a \in D |-> c(a)]
  BY DEF Combine
<1>3. \A a \in D : IsAtom(a)
  BY DEF IsPoint
<1>4. ASSUME NEW a, a \notin D PROVE c(a) = 0
  <2>1. CASE a \in (DOMAIN p) \cup (DOMAIN q)
    BY <1>4, <2>1
  <2>2. CASE a \notin (DOMAIN p) \cup (DOMAIN q)
    <3>1. Coef(p, a) = 0 /\ Coef(q, a) = 0
      BY <2>2 DEF Coef
    <3>2. QED
      BY <3>1
  <2>3. QED
    BY <2>1, <2>2
<1>5. \A a \in D : c(a) # 0
  OBVIOUS
<1> HIDE DEF c, D
<1>6. IsPoint(Combine(p, q, k))
  BY <1>1, <1>2, <1>3, <1>5 DEF IsPoint
<1>7. \A a : Coef(Combine(p, q, k), a) = c(a)
  BY <1>2, <1>4 DEF Coef
<1>8. QED
  BY <1>6, <1>7 DEF c

LEMMA AddIs ==
    ASSUME NEW p, NEW q, IsPoint(p), IsPoint(q)
    PROVE  /\ IsPoint(Add(p, q)) /\ \A a : Coef(Add(p, q), a) = Coef(p, a) + Coef(q, a)
           /\ IsPoint(Sub(p, q)) /\ \A a : Coef(Sub(p, q), a) = Coef(p, a) - Coef(q, a)
<1>1. \A a : Coef(p, a) \in Int /\ Coef(q, a) \in Int
  BY CoefType
<1>2. IsPoint(Combine(p, q, 1)) /\ \A a : Coef(Combine(p, q, 1), a) = Coef(p, a) + 1 * Coef(q, a)
  BY CombineIs, 1 \in Int
<1>3. IsPoint(Combine(p, q, -1)) /\ \A a : Coef(Combine(p, q, -1), a) = Coef(p, a) + (-1) * Coef(q, a)
  BY CombineIs, -1 \in Int
<1>4. QED
  BY <1>1, <1>2, <1>3 DEF Add, Sub

LEMMA TimesIs ==
    ASSUME NEW p, IsPoint(p), NEW k \in Nat \ {0}
    PROVE  /\ IsPoint(Times(k, p)) /\ \A a : Coef(Times(k, p), a) = k * Coef(p, a)
<1>1. \A a \in DOMAIN p : IsAtom(a) /\ p[a] \in Int /\ p[a] # 0
  BY DEF IsPoint
<1>2. \A a \in DOMAIN p : k * p[a] \in Int /\ k * p[a] # 0
  BY <1>1
<1>3. Times(k, p) = [a \in DOMAIN p |-> k * p[a]] /\ k * 0 = 0
  BY DEF Times
<1>4. QED
  BY <1>1, <1>2, <1>3 DEF IsPoint, Coef

(* Times the sender's secret.                                               *)
LEMMA BySenderIs ==
    ASSUME NEW p, IsPoint(p)
    PROVE  /\ IsPoint(BySender(p))
           /\ \A b : \A x, y \in Int : Coef(BySender(p), <<b, x, y>>) = Coef(p, <<b, x - 1, y>>)
<1> DEFINE up(a) == <<a[1], a[2] + 1, a[3]>>
           D == { up(a) : a \in DOMAIN p }
           f == [a \in DOMAIN p |-> up(a)]
           back(b) == CHOOSE a \in DOMAIN p : f[a] = b
<1>1. \A a \in DOMAIN p : a = <<a[1], a[2], a[3]>> /\ a[2] \in Int /\ a[3] \in Int /\ p[a] \in Int /\ p[a] # 0
  BY DEF IsPoint, IsAtom
<1>2. ASSUME NEW a \in DOMAIN p, NEW d \in DOMAIN p, up(a) = up(d) PROVE a = d
  <2>1. a[1] = d[1] /\ a[2] + 1 = d[2] + 1 /\ a[3] = d[3]
    BY <1>2
  <2>2. a[2] = d[2]
    BY <1>1, <2>1
  <2>3. QED
    BY <1>1, <2>1, <2>2
<1>3. ASSUME NEW a \in DOMAIN p PROVE back(up(a)) = a
  <2>1. back(up(a)) \in DOMAIN p /\ f[back(up(a))] = up(a)
    <3>1. a \in DOMAIN p /\ f[a] = up(a)
      OBVIOUS
    <3> HIDE DEF f, up
    <3>2. QED
      BY <3>1
  <2>2. up(back(up(a))) = up(a)
    <3> HIDE DEF up, back
    <3>1. QED
      BY <2>1
  <2>3. QED
    <3> HIDE DEF up, back
    <3>1. QED
      BY <1>2, <2>1, <2>2
<1>4. BySender(p) = [b \in D |-> p[back(b)]]
  <2>1. { f[a] : a \in DOMAIN p } = D
    OBVIOUS
  <2>2. BySender(p) = [b \in { f[a] : a \in DOMAIN p } |-> p[back(b)]]
    BY DEF BySender, Mapped
  <2>3. QED
    BY <2>1, <2>2, Zenon
<1>5. ASSUME NEW a \in DOMAIN p PROVE up(a) \in D /\ BySender(p)[up(a)] = p[a]
  <2>1. up(a) \in D
    OBVIOUS
  <2> HIDE DEF D, up, back
  <2>2. QED
    BY <1>3, <1>4, <2>1
<1>6. ASSUME NEW b \in D PROVE IsAtom(b) /\ BySender(p)[b] \in Int /\ BySender(p)[b] # 0
  <2>1. PICK a \in DOMAIN p : b = up(a)
    OBVIOUS
  <2>2. BySender(p)[b] = p[a]
    BY <1>5, <2>1
  <2>3. b[1] = a[1] /\ b[2] = a[2] + 1 /\ b[3] = a[3] /\ b = <<a[1], a[2] + 1, a[3]>>
    BY <2>1
  <2>4. QED
    BY <1>1, <2>2, <2>3 DEF IsAtom
<1>7. IsPoint(BySender(p))
  <2>1. DOMAIN BySender(p) = D /\ BySender(p) = [b \in D |-> BySender(p)[b]]
    <3> HIDE DEF D, back
    <3>1. QED
      BY <1>4
  <2>2. QED
    <3> HIDE DEF D
    <3>1. QED
      BY <1>6, <2>1 DEF IsPoint
<1>8. ASSUME NEW b, NEW x \in Int, NEW y \in Int
      PROVE  Coef(BySender(p), <<b, x, y>>) = Coef(p, <<b, x - 1, y>>)
  <2>1. DOMAIN BySender(p) = D
    <3> HIDE DEF D, back
    <3>1. QED
      BY <1>4
  <2>2. CASE <<b, x - 1, y>> \in DOMAIN p
    <3>1. up(<<b, x - 1, y>>) = <<b, x, y>>
      <4>1. (x - 1) + 1 = x
        OBVIOUS
      <4>2. QED
        BY <4>1
    <3>2. <<b, x, y>> \in D /\ BySender(p)[<<b, x, y>>] = p[<<b, x - 1, y>>]
      <4> HIDE DEF D, up
      <4>1. QED
        BY <1>5, <2>2, <3>1
    <3>3. QED
      BY <2>1, <2>2, <3>2 DEF Coef
  <2>3. CASE <<b, x - 1, y>> \notin DOMAIN p
    <3>1. <<b, x, y>> \notin D
      <4>1. SUFFICES ASSUME NEW a \in DOMAIN p, <<b, x, y>> = up(a) PROVE FALSE
        OBVIOUS
      <4>2. a[1] = b /\ a[2] + 1 = x /\ a[3] = y
        BY <4>1
      <4>3. a = <<b, x - 1, y>>
        BY <1>1, <4>2
      <4>4. QED
        BY <2>3, <4>3
    <3>2. QED
      BY <2>1, <2>3, <3>1 DEF Coef
  <2>4. QED
    BY <2>2, <2>3
<1>9. QED
  BY <1>7, <1>8

(* One atom. *)
Single(b, x, y) == [a \in {<<b, x, y>>} |-> 1]

LEMMA SingleIs ==
    ASSUME NEW b, NEW x \in Int, NEW y \in Int
    PROVE  /\ IsPoint(Single(b, x, y))
           /\ \A c : \A u, v \in Int :
                 Coef(Single(b, x, y), <<c, u, v>>) = IF c = b /\ u = x /\ v = y THEN 1 ELSE 0
           /\ BySender(Single(b, x, y)) = Single(b, x + 1, y)
           /\ \A k : ByReceiver(Single(b, x, y), k) = Single(b, x, k)
<1>1. IsPoint(Single(b, x, y))
  BY DEF IsPoint, IsAtom, Single
<1>2. \A c : \A u, v \in Int :
         Coef(Single(b, x, y), <<c, u, v>>) = IF c = b /\ u = x /\ v = y THEN 1 ELSE 0
  BY DEF Single, Coef
<1>3. BySender(Single(b, x, y)) = Single(b, x + 1, y)
  <2>1. IsPoint(Single(b, x + 1, y))
    BY DEF IsPoint, IsAtom, Single
  <2>2. ASSUME NEW c, NEW u \in Int, NEW v \in Int
        PROVE  Coef(BySender(Single(b, x, y)), <<c, u, v>>) = Coef(Single(b, x + 1, y), <<c, u, v>>)
    <3>1. Coef(BySender(Single(b, x, y)), <<c, u, v>>) = IF c = b /\ u - 1 = x /\ v = y THEN 1 ELSE 0
      <4>1. Coef(BySender(Single(b, x, y)), <<c, u, v>>) = Coef(Single(b, x, y), <<c, u - 1, v>>)
        BY <1>1, BySenderIs
      <4>2. u - 1 \in Int
        OBVIOUS
      <4>3. QED
        BY <1>2, <4>1, <4>2
    <3>2. Coef(Single(b, x + 1, y), <<c, u, v>>) = IF c = b /\ u = x + 1 /\ v = y THEN 1 ELSE 0
      BY DEF Single, Coef
    <3>3. QED
      BY <3>1, <3>2
  <2>3. QED
    BY <1>1, <2>1, <2>2, BySenderIs, SamePoint
<1>4. ASSUME NEW k PROVE ByReceiver(Single(b, x, y), k) = Single(b, x, k)
  <2> DEFINE p == Single(b, x, y)
             f == [a \in DOMAIN p |-> <<a[1], a[2], k>>]
  <2>1. DOMAIN p = {<<b, x, y>>} /\ p[<<b, x, y>>] = 1
    BY DEF Single
  <2>2. f[<<b, x, y>>] = <<b, x, k>> /\ { f[a] : a \in DOMAIN p } = {<<b, x, k>>}
    BY <2>1
  <2> HIDE DEF p
  <2>3. (CHOOSE a \in DOMAIN p : f[a] = <<b, x, k>>) = <<b, x, y>>
    <3> HIDE DEF f
    <3>1. QED
      BY <2>1, <2>2
  <2>4. ByReceiver(p, k) = [c \in { f[a] : a \in DOMAIN p } |-> p[CHOOSE a \in DOMAIN p : f[a] = c]]
    BY DEF ByReceiver, Mapped
  <2>5. ByReceiver(p, k) = [c \in {<<b, x, k>>} |-> 1]
    <3> HIDE DEF f
    <3>1. QED
      BY <2>1, <2>2, <2>3, <2>4
  <2>6. QED
    BY <2>5 DEF p, Single
<1>5. QED
  BY <1>1, <1>2, <1>3, <1>4

LEMMA PointIs ==
    ASSUME NEW base
    PROVE  IsPoint(Point(base)) /\ Point(base) = Single(base, 0, 0)
<1>1. Point(base) = Single(base, 0, 0)
  BY DEF Point, Single
<1>2. QED
  BY <1>1, SingleIs

LEMMA AddThenSub ==
    ASSUME NEW p, NEW q, IsPoint(p), IsPoint(q)
    PROVE  Sub(Add(p, q), p) = q /\ Add(Sub(p, q), q) = p
<1>1. IsPoint(Add(p, q)) /\ IsPoint(Sub(p, q))
  BY AddIs
<1>2. IsPoint(Sub(Add(p, q), p)) /\ IsPoint(Add(Sub(p, q), q))
  BY <1>1, AddIs
<1>3. \A a : Coef(p, a) \in Int /\ Coef(q, a) \in Int
  BY CoefType
<1>4. \A a : /\ Coef(Sub(Add(p, q), p), a) = (Coef(p, a) + Coef(q, a)) - Coef(p, a)
             /\ Coef(Add(Sub(p, q), q), a) = (Coef(p, a) - Coef(q, a)) + Coef(q, a)
  BY <1>1, AddIs
<1>5. \A a : Coef(Sub(Add(p, q), p), a) = Coef(q, a) /\ Coef(Add(Sub(p, q), q), a) = Coef(p, a)
  BY <1>3, <1>4
<1>6. QED
  BY <1>2, <1>5, SamePoint

---------------------------------------------------------------------------
(* What the parties compute. *)

G == <<0, 0, {}>>

LEMMA Settings ==
    ASSUME BaseAssumption, conf \in BaseConfs
    PROVE  /\ N \in Nat \ {0} /\ \A i \in 1..N : Choice(i) \in {0, 1} /\ conf.curve[i] \in {0, 1}
           /\ conf.proto \in {"simplest", "asm", "masnyRindal", "kyber", "mcRosRoy", "twist", "mock"}
           /\ conf.proto = "mcRosRoy" => conf.popf \in {"rist", "ristMul"}
           /\ conf.proto = "twist" => conf.popf \in {"feistel", "feistelMul", "eke", "mr"}
           /\ \A d \in 0..(N - 1) : GroupSize(d) \in 1..(N - d)
<1>1. /\ conf.choices \in Seq({0, 1}) /\ conf.choices # << >>
      /\ conf.curve \in Seq({0, 1}) /\ Len(conf.curve) >= Len(conf.choices)
      /\ MrStep \in Nat \ {0} /\ AsmStep \in Nat \ {0}
  BY DEF BaseAssumption
<1>2. N \in Nat \ {0}
  BY <1>1 DEF N
<1>3. \A i \in 1..N : Choice(i) \in {0, 1} /\ conf.curve[i] \in {0, 1}
  BY <1>1 DEF N, Choice
<1>4. ASSUME NEW d \in 0..(N - 1) PROVE GroupSize(d) \in 1..(N - d)
  <2>1. PICK k \in Nat \ {0} : GroupSize(d) = Least(N - d, k)
    BY <1>1, <1>2 DEF GroupSize
  <2>2. QED
    BY <1>2, <2>1 DEF Least
<1>5. QED
  BY <1>2, <1>3, <1>4 DEF BaseAssumption

(* The key of a receiver's point is the sender's point times its secret.     *)
LEMMA Keys ==
    ASSUME NEW i \in Nat
    PROVE  /\ A = Single(G, 1, 0) /\ ReceiverPoint(i) = Single(G, 0, i)
           /\ BySender(A) = Single(G, 2, 0)
           /\ ByReceiver(A, i) = Single(G, 1, i) /\ BySender(ReceiverPoint(i)) = Single(G, 1, i)
           /\ \A c : BySender(ByReceiver(Generator(c), i)) = ByReceiver(BySender(Generator(c)), i)
<1>1. ASSUME NEW c
      PROVE  /\ Generator(c) = Single(<<0, c, {}>>, 0, 0)
             /\ BySender(Generator(c)) = Single(<<0, c, {}>>, 1, 0)
             /\ BySender(BySender(Generator(c))) = Single(<<0, c, {}>>, 2, 0)
             /\ ByReceiver(Generator(c), i) = Single(<<0, c, {}>>, 0, i)
             /\ ByReceiver(BySender(Generator(c)), i) = Single(<<0, c, {}>>, 1, i)
             /\ BySender(ByReceiver(Generator(c), i)) = Single(<<0, c, {}>>, 1, i)
  <2>1. PICK base : base = <<0, c, {}>>
    OBVIOUS
  <2>2. 0 \in Int /\ 1 \in Int /\ i \in Int /\ 0 + 1 = 1 /\ 1 + 1 = 2
    OBVIOUS
  <2>3. Generator(c) = Single(base, 0, 0)
    BY <2>1 DEF Generator, Point, Single
  <2>4. BySender(Single(base, 0, 0)) = Single(base, 0 + 1, 0) /\ ByReceiver(Single(base, 0, 0), i) = Single(base, 0, i)
    BY <2>2, SingleIs
  <2>5. BySender(Single(base, 1, 0)) = Single(base, 1 + 1, 0) /\ ByReceiver(Single(base, 1, 0), i) = Single(base, 1, i)
    BY <2>2, SingleIs
  <2>6. BySender(Single(base, 0, i)) = Single(base, 0 + 1, i)
    BY <2>2, SingleIs
  <2>7. QED
    BY <2>1, <2>2, <2>3, <2>4, <2>5, <2>6
<1>2. QED
  BY <1>1 DEF A, ReceiverPoint, G

(* SimplestOT: the sender takes its own point away at choice 1.             *)
LEMMA Simplest ==
    ASSUME NEW i \in Nat \ {0}, Choice(i) \in {0, 1}
    PROVE  /\ SimplestKey(SimplestPoint(i), Choice(i)) = ByReceiver(A, i)
           /\ SimplestKey(SimplestPoint(i), 0) # SimplestKey(SimplestPoint(i), 1)
<1> DEFINE R == ReceiverPoint(i)
           P == SimplestPoint(i)
<1>1. /\ A = Single(G, 1, 0) /\ R = Single(G, 0, i) /\ BySender(A) = Single(G, 2, 0)
      /\ BySender(R) = Single(G, 1, i) /\ ByReceiver(A, i) = Single(G, 1, i)
  BY Keys
<1>2. IsPoint(A) /\ IsPoint(R) /\ IsPoint(BySender(A)) /\ IsPoint(BySender(R))
  BY <1>1, SingleIs
<1>3. IsPoint(P) /\ IsPoint(BySender(P))
  <2>1. IsPoint(P)
    BY <1>2, AddIs DEF SimplestPoint
  <2>2. QED
    BY <2>1, BySenderIs
<1>4. ASSUME Choice(i) = 0 PROVE SimplestKey(P, Choice(i)) = ByReceiver(A, i)
  <2>1. P = R
    BY <1>4 DEF SimplestPoint
  <2>2. QED
    BY <1>1, <1>4, <2>1 DEF SimplestKey
<1>5. ASSUME Choice(i) = 1 PROVE SimplestKey(P, Choice(i)) = ByReceiver(A, i)
  <2>1. P = Add(A, R)
    BY <1>5 DEF SimplestPoint
  <2>2. BySender(P) = Add(BySender(A), BySender(R))
    <3>1. IsPoint(Add(BySender(A), BySender(R)))
      BY <1>2, AddIs
    <3>2. ASSUME NEW b, NEW x \in Int, NEW y \in Int
          PROVE  Coef(BySender(P), <<b, x, y>>) = Coef(Add(BySender(A), BySender(R)), <<b, x, y>>)
      <4>1. x - 1 \in Int
        OBVIOUS
      <4>2. Coef(BySender(P), <<b, x, y>>) = Coef(A, <<b, x - 1, y>>) + Coef(R, <<b, x - 1, y>>)
        BY <1>2, <1>3, <2>1, AddIs, BySenderIs
      <4>3. /\ Coef(BySender(A), <<b, x, y>>) = Coef(A, <<b, x - 1, y>>)
            /\ Coef(BySender(R), <<b, x, y>>) = Coef(R, <<b, x - 1, y>>)
        BY <1>2, BySenderIs
      <4>4. QED
        BY <1>2, <4>2, <4>3, AddIs
    <3>3. QED
      BY <1>3, <3>1, <3>2, SamePoint
  <2>3. Sub(Add(BySender(A), BySender(R)), BySender(A)) = BySender(R)
    BY <1>2, AddThenSub
  <2>4. QED
    BY <1>1, <1>5, <2>2, <2>3 DEF SimplestKey
<1>6. SimplestKey(P, 0) # SimplestKey(P, 1)
  <2>1. Coef(BySender(A), <<G, 2, 0>>) = 1
    BY <1>1, SingleIs
  <2>2. Coef(Sub(BySender(P), BySender(A)), <<G, 2, 0>>) = Coef(BySender(P), <<G, 2, 0>>) - 1
    BY <1>2, <1>3, <2>1, AddIs
  <2>3. Coef(BySender(P), <<G, 2, 0>>) \in Int
    BY <1>3, CoefType
  <2>4. QED
    BY <2>2, <2>3 DEF SimplestKey
<1>7. QED
  BY <1>4, <1>5, <1>6

(* The assembly variant: all points are multiples of 8.                     *)
LEMMA Asm ==
    ASSUME NEW i \in Nat \ {0}, Choice(i) \in {0, 1}
    PROVE  /\ AsmKey(AsmPoint(i), Choice(i)) = Times(64, ByReceiver(A, i))
           /\ AsmKey(AsmPoint(i), 0) # AsmKey(AsmPoint(i), 1)
           /\ IsPoint(AsmPoint(i))
           /\ \A k \in Nat \ {0} :
                 Coef(AsmPoint(i), <<G, 0, k>>) =
                     IF k # i THEN 0 ELSE IF Choice(i) = 1 THEN -8 ELSE 8
<1> DEFINE R == ReceiverPoint(i)
           P == AsmPoint(i)
           at(b, x, y) == IF Choice(i) = 1
                            THEN 8 * Coef(A, <<b, x, y>>) - 8 * Coef(R, <<b, x, y>>)
                            ELSE 8 * Coef(R, <<b, x, y>>)
           aA(b, x, y) == Coef(BySender(A), <<b, x, y>>)
           aP(b, x, y) == 8 * at(b, x - 1, y)
<1>1. /\ A = Single(G, 1, 0) /\ R = Single(G, 0, i) /\ BySender(A) = Single(G, 2, 0)
      /\ BySender(R) = Single(G, 1, i) /\ ByReceiver(A, i) = Single(G, 1, i)
  BY Keys
<1>2. IsPoint(A) /\ IsPoint(R) /\ IsPoint(BySender(A)) /\ IsPoint(BySender(R))
  BY <1>1, SingleIs
<1>3. 8 \in Nat \ {0} /\ 64 \in Nat \ {0}
  OBVIOUS
<1>4. /\ IsPoint(Times(8, A)) /\ IsPoint(Times(8, R))
      /\ \A a : Coef(Times(8, A), a) = 8 * Coef(A, a) /\ Coef(Times(8, R), a) = 8 * Coef(R, a)
  BY <1>2, <1>3, TimesIs
<1>5. IsPoint(P) /\ \A b, x, y : Coef(P, <<b, x, y>>) = at(b, x, y)
  BY <1>4, AddIs DEF AsmPoint
<1>6. IsPoint(Times(8, P)) /\ \A a : Coef(Times(8, P), a) = 8 * Coef(P, a)
  BY <1>3, <1>5, TimesIs
<1>7. /\ IsPoint(AsmKey(P, 0))
      /\ \A b : \A x, y \in Int : Coef(AsmKey(P, 0), <<b, x, y>>) = aP(b, x, y)
  <2>1. AsmKey(P, 0) = BySender(Times(8, P))
    BY DEF AsmKey
  <2>2. IsPoint(BySender(Times(8, P)))
    BY <1>6, BySenderIs
  <2>3. ASSUME NEW b, NEW x \in Int, NEW y \in Int
        PROVE  Coef(BySender(Times(8, P)), <<b, x, y>>) = aP(b, x, y)
    <3>1. Coef(BySender(Times(8, P)), <<b, x, y>>) = Coef(Times(8, P), <<b, x - 1, y>>)
      BY <1>6, BySenderIs
    <3> HIDE DEF P, at
    <3>2. QED
      BY <1>5, <1>6, <3>1
  <2>4. QED
    BY <2>1, <2>2, <2>3
<1>8. /\ IsPoint(Times(64, BySender(A))) /\ IsPoint(Times(64, BySender(R)))
      /\ \A a : /\ Coef(Times(64, BySender(A)), a) = 64 * Coef(BySender(A), a)
                /\ Coef(Times(64, BySender(R)), a) = 64 * Coef(BySender(R), a)
  BY <1>2, <1>3, TimesIs
<1>9. /\ IsPoint(AsmKey(P, 1))
      /\ \A b : \A x, y \in Int : Coef(AsmKey(P, 1), <<b, x, y>>) = 64 * aA(b, x, y) - aP(b, x, y)
  <2>1. AsmKey(P, 1) = Sub(Times(64, BySender(A)), AsmKey(P, 0))
    BY DEF AsmKey
  <2> HIDE DEF P, at
  <2>2. QED
    BY <1>7, <1>8, <2>1, AddIs
<1>10. \A b : \A x, y \in Int :
          /\ Coef(A, <<b, x, y>>) = (IF b = G /\ x = 1 /\ y = 0 THEN 1 ELSE 0)
          /\ Coef(R, <<b, x, y>>) = (IF b = G /\ x = 0 /\ y = i THEN 1 ELSE 0)
          /\ Coef(BySender(A), <<b, x, y>>) = (IF b = G /\ x = 2 /\ y = 0 THEN 1 ELSE 0)
          /\ Coef(BySender(R), <<b, x, y>>) = (IF b = G /\ x = 1 /\ y = i THEN 1 ELSE 0)
  <2>1. PICK g : g = G
    OBVIOUS
  <2>2. ASSUME NEW u \in Int, NEW v \in Int, NEW b, NEW x \in Int, NEW y \in Int
        PROVE  Coef(Single(g, u, v), <<b, x, y>>) = (IF b = g /\ x = u /\ y = v THEN 1 ELSE 0)
    BY SingleIs
  <2>3. 0 \in Int /\ 1 \in Int /\ 2 \in Int /\ i \in Int
    OBVIOUS
  <2>4. /\ A = Single(g, 1, 0) /\ R = Single(g, 0, i) /\ BySender(A) = Single(g, 2, 0)
        /\ BySender(R) = Single(g, 1, i)
    BY <1>1, <2>1
  <2>5. ASSUME NEW b, NEW x \in Int, NEW y \in Int
        PROVE  /\ Coef(A, <<b, x, y>>) = (IF b = G /\ x = 1 /\ y = 0 THEN 1 ELSE 0)
               /\ Coef(R, <<b, x, y>>) = (IF b = G /\ x = 0 /\ y = i THEN 1 ELSE 0)
               /\ Coef(BySender(A), <<b, x, y>>) = (IF b = G /\ x = 2 /\ y = 0 THEN 1 ELSE 0)
               /\ Coef(BySender(R), <<b, x, y>>) = (IF b = G /\ x = 1 /\ y = i THEN 1 ELSE 0)
    <3>1. /\ Coef(Single(g, 1, 0), <<b, x, y>>) = (IF b = g /\ x = 1 /\ y = 0 THEN 1 ELSE 0)
          /\ Coef(Single(g, 0, i), <<b, x, y>>) = (IF b = g /\ x = 0 /\ y = i THEN 1 ELSE 0)
          /\ Coef(Single(g, 2, 0), <<b, x, y>>) = (IF b = g /\ x = 2 /\ y = 0 THEN 1 ELSE 0)
          /\ Coef(Single(g, 1, i), <<b, x, y>>) = (IF b = g /\ x = 1 /\ y = i THEN 1 ELSE 0)
      BY <2>2, <2>3
    <3>2. QED
      BY <2>1, <2>4, <3>1
  <2>6. QED
    BY <2>5
<1>11. AsmKey(P, Choice(i)) = Times(64, BySender(R))
  <2>1. IsPoint(AsmKey(P, Choice(i)))
    BY <1>7, <1>9
  <2>2. ASSUME NEW b, NEW x \in Int, NEW y \in Int
        PROVE  Coef(AsmKey(P, Choice(i)), <<b, x, y>>) = Coef(Times(64, BySender(R)), <<b, x, y>>)
    <3>1. x - 1 \in Int
      OBVIOUS
    <3>2. /\ Coef(A, <<b, x - 1, y>>) = (IF b = G /\ x = 2 /\ y = 0 THEN 1 ELSE 0)
          /\ Coef(R, <<b, x - 1, y>>) = (IF b = G /\ x = 1 /\ y = i THEN 1 ELSE 0)
      BY <1>10, <3>1
    <3>3. /\ Coef(BySender(A), <<b, x, y>>) = (IF b = G /\ x = 2 /\ y = 0 THEN 1 ELSE 0)
          /\ Coef(Times(64, BySender(R)), <<b, x, y>>) = 64 * (IF b = G /\ x = 1 /\ y = i THEN 1 ELSE 0)
      BY <1>8, <1>10
    <3>4. CASE Choice(i) = 0
      <4>1. Coef(AsmKey(P, 0), <<b, x, y>>) = 8 * (8 * Coef(R, <<b, x - 1, y>>))
        BY <1>7, <3>4
      <4>2. QED
        BY <3>2, <3>3, <3>4, <4>1
    <3>5. CASE Choice(i) = 1
      <4>1. Coef(AsmKey(P, 1), <<b, x, y>>)
            = 64 * Coef(BySender(A), <<b, x, y>>)
              - 8 * (8 * Coef(A, <<b, x - 1, y>>) - 8 * Coef(R, <<b, x - 1, y>>))
        BY <1>9, <3>5
      <4>2. QED
        BY <3>2, <3>3, <3>5, <4>1
    <3>6. QED
      BY <3>4, <3>5
  <2>3. QED
    BY <1>8, <2>1, <2>2, SamePoint
<1>12. AsmKey(P, 0) # AsmKey(P, 1)
  <2>1. /\ Coef(A, <<G, 0, i>>) = 0 /\ Coef(R, <<G, 0, i>>) = 1 /\ Coef(BySender(A), <<G, 1, i>>) = 0
    BY <1>10
  <2>2. 1 - 1 = 0 /\ 1 \in Int /\ i \in Int
    OBVIOUS
  <2>3. Coef(AsmKey(P, 0), <<G, 1, i>>) = 8 * at(G, 0, i)
    BY <1>7, <2>2
  <2>4. Coef(AsmKey(P, 1), <<G, 1, i>>) = 64 * 0 - 8 * at(G, 0, i)
    BY <1>9, <2>1, <2>2
  <2>5. at(G, 0, i) \in {8, -8}
    BY <2>1
  <2>6. QED
    <3> HIDE DEF at, P
    <3>1. QED
      BY <2>3, <2>4, <2>5
<1>13. ASSUME NEW k \in Nat \ {0}
       PROVE  Coef(P, <<G, 0, k>>) = IF k # i THEN 0 ELSE IF Choice(i) = 1 THEN -8 ELSE 8
  <2>1. Coef(A, <<G, 0, k>>) = 0 /\ Coef(R, <<G, 0, k>>) = IF k = i THEN 1 ELSE 0
    BY <1>10
  <2>2. Coef(P, <<G, 0, k>>) = at(G, 0, k)
    BY <1>5
  <2>3. QED
    BY <2>1, <2>2
<1>14. QED
  BY <1>1, <1>5, <1>11, <1>12, <1>13

(* MasnyRindal and Kyber: the point not chosen masks the other.              *)
LEMMA Pairs ==
    ASSUME NEW i \in Nat, Choice(i) \in {0, 1}, NEW own, IsPoint(own)
    PROVE  PairKey(Pair(i, own), Choice(i)) = own
<1> DEFINE H == HashedPoint(0, Bytes(RandomPoint(i), 0))
<1>1. IsPoint(H)
  BY PointIs DEF HashedPoint
<1>2. /\ Pair(i, own)[Choice(i)] = Sub(own, H) /\ Pair(i, own)[1 - Choice(i)] = RandomPoint(i)
  BY DEF Pair
<1>3. PairKey(Pair(i, own), Choice(i)) = Add(Sub(own, H), H)
  BY <1>2 DEF PairKey
<1>4. QED
  BY <1>1, <1>3, AddThenSub

---------------------------------------------------------------------------
(* The programmable functions: at the bit they are programmed at, they are   *)
(* what they are programmed to be.                                          *)

LEMMA XorTwice ==
    ASSUME NEW a, NEW b
    PROVE  Xor(Xor(a, b), b) = a
<1>1. \A x : x \in Xor(Xor(a, b), b) <=> x \in a
  BY InXor
<1>2. QED
  BY <1>1

LEMMA RistPopf ==
    ASSUME NEW i, NEW x, NEW y, IsPoint(y), NEW mul \in BOOLEAN
    PROVE  RistEval(i, x, RistProgram(i, x, y, mul), mul) = y
<1> DEFINE H == HashedPoint(i, Hash(2, i, x, RandomBytes(i)))
           T == Sub(y, H)
           K == IF mul THEN BitTimes(x = 1, Bytes(T, 0)) ELSE Hash(3, i, x, Bytes(T, 0))
<1>1. ASSUME NEW z PROVE RistRound(x, [t |-> T, s |-> z], i, mul) = [t |-> T, s |-> Xor(z, K)]
  BY DEF RistRound
<1>2. RistProgram(i, x, y, mul) = [t |-> T, s |-> Xor(RandomBytes(i), K)]
  BY <1>1 DEF RistProgram
<1>3. RistRound(x, RistProgram(i, x, y, mul), i, mul) = [t |-> T, s |-> RandomBytes(i)]
  BY <1>1, <1>2, XorTwice
<1>4. RistEval(i, x, RistProgram(i, x, y, mul), mul) = Add(T, H)
  BY <1>3 DEF RistEval
<1>5. IsPoint(H)
  BY PointIs DEF HashedPoint
<1>6. QED
  BY <1>4, <1>5, AddThenSub

LEMMA StringPopf ==
    ASSUME NEW i, NEW x \in {0, 1}, NEW y, NEW kind \in {"feistel", "feistelMul", "eke", "mr"}
    PROVE  Eval(kind, i, x, Program(kind, i, x, y)) = y
<1> DEFINE s0 == RandomBytes(i)
           t0 == Xor(y, Hash(2, i, x, s0))
<1>0. FeistelH(i, x, [t |-> y, s |-> s0]) = [t |-> t0, s |-> s0]
  BY DEF FeistelH
<1>1. Xor(t0, Hash(2, i, x, s0)) = y
  BY XorTwice
<1>2. FeistelEval(i, x, FeistelProgram(i, x, y)) = y
  <2>1. FeistelProgram(i, x, y) = [t |-> t0, s |-> Xor(s0, Hash(3, i, x, t0))]
    BY <1>0 DEF FeistelProgram, FeistelHPrime
  <2>2. FeistelHPrime(i, x, FeistelProgram(i, x, y)) = [t |-> t0, s |-> s0]
    BY <2>1, XorTwice DEF FeistelHPrime
  <2>3. QED
    BY <1>1, <2>2 DEF FeistelEval, FeistelH
<1>3. FeistelMulEval(i, x, FeistelMulProgram(i, x, y)) = y
  <2>1. FeistelMulProgram(i, x, y) = [t |-> t0, s |-> Xor(s0, BitTimes(x = 1, t0))]
    BY <1>0 DEF FeistelMulProgram, MulRound
  <2>2. MulRound(x, FeistelMulProgram(i, x, y)) = [t |-> t0, s |-> s0]
    BY <2>1, XorTwice DEF MulRound
  <2>3. QED
    BY <1>1, <2>2 DEF FeistelMulEval, FeistelH
<1>4. EkeEval(i, x, EkeProgram(i, x, y)) = y
  <2> DEFINE e == <<4, i, x, y>>
  <2>1. EkeProgram(i, x, y) = {e}
    BY DEF EkeProgram, Hash
  <2>2. (CHOOSE b \in {e} : TRUE) = e
    OBVIOUS
  <2>3. e[2] = i /\ e[3] = x /\ e[4] = y
    OBVIOUS
  <2> HIDE DEF e
  <2>4. QED
    BY <2>1, <2>2, <2>3 DEF EkeEval
<1>5. MrEval(i, x, MrProgram(i, x, y)) = y
  <2>1. /\ MrProgram(i, x, y)[x] = Xor(y, Hash(6, i, 0, s0))
        /\ MrProgram(i, x, y)[Other(x)] = s0
    BY DEF MrProgram, Other
  <2>2. QED
    BY <2>1, XorTwice DEF MrEval
<1>6. QED
  BY <1>2, <1>3, <1>4, <1>5 DEF Eval, Program

LEMMA PointOfBytes ==
    ASSUME NEW p, NEW bit
    PROVE  PointOf(Bytes(p, bit)) = p
<1> DEFINE e == <<0, 0, bit, {p}>>
<1>1. Bytes(p, bit) = {e} /\ Cardinality({e}) = 1
  BY FS_Singleton DEF Bytes
<1>2. (CHOOSE a \in {e} : TRUE) = e /\ e[1] = 0 /\ e[4] = {p}
  OBVIOUS
<1>3. (CHOOSE q \in {p} : TRUE) = p
  OBVIOUS
<1> HIDE DEF e
<1>4. QED
  BY <1>1, <1>2, <1>3 DEF PointOf

---------------------------------------------------------------------------
(* One OT. *)

(* What the receiver has to be answered, to hash what the sender hashes.     *)
Answers(m) ==
    /\ Proto({"simplest"}) => Uniform(SenderP) = Uniform(ReceiverP) /\ (Uniform(ReceiverP) => m.seed = 1)
    /\ Proto({"kyber"}) => \A i \in 1..N : \A j \in {0, 1} :
          m.ctxts[i][j] = [key |-> PairKey(FirstMessage(i), j), plain |-> SenderOutput(i, FirstMessage(i), j)]
    /\ Proto({"twist"}) => m.points = [c \in {0, 1} |-> BySender(Generator(c))]

LEMMA Received ==
    ASSUME BaseAssumption, conf \in BaseConfs, NEW m, Answers(m), NEW i \in 1..N
    PROVE  ReceiverOutput(i, m) = SenderOutput(i, FirstMessage(i), Choice(i))
<1>1. /\ i \in Nat \ {0} /\ Choice(i) \in {0, 1} /\ conf.curve[i] \in {0, 1}
      /\ conf.proto \in {"simplest", "asm", "masnyRindal", "kyber", "mcRosRoy", "twist", "mock"}
      /\ conf.proto = "mcRosRoy" => conf.popf \in {"rist", "ristMul"}
      /\ conf.proto = "twist" => conf.popf \in {"feistel", "feistelMul", "eke", "mr"}
  BY Settings
<1>2. IsPoint(ReceiverPoint(i)) /\ BySender(ReceiverPoint(i)) = ByReceiver(A, i)
  BY <1>1, Keys, SingleIs
<1>3. CASE conf.proto = "simplest"
  <2>1. SimplestKey(SimplestPoint(i), Choice(i)) = ByReceiver(A, i)
    BY <1>1, Simplest
  <2>2. Seed(ReceiverP, m.seed) = Seed(SenderP, 1)
    BY <1>3 DEF Seed, Answers, Proto
  <2>3. QED
    BY <1>3, <2>1, <2>2
    DEF ReceiverOutput, SenderOutput, FirstMessage, Proto, SimplestOutput, SimplestPair
<1>4. CASE conf.proto = "asm"
  <2>1. AsmKey(AsmPoint(i), Choice(i)) = Times(64, ByReceiver(A, i))
    BY <1>1, Asm
  <2>2. QED
    BY <1>4, <2>1 DEF ReceiverOutput, SenderOutput, FirstMessage, Proto, AsmOutput, AsmPair
<1>5. PairKey(Pair(i, ReceiverPoint(i)), Choice(i)) = ReceiverPoint(i)
  BY <1>1, <1>2, Pairs
<1>6. CASE conf.proto = "masnyRindal"
  BY <1>2, <1>5, <1>6 DEF ReceiverOutput, SenderOutput, FirstMessage, Proto, MrOutput, MrPair
<1>7. CASE conf.proto = "kyber"
  <2>1. FirstMessage(i) = Pair(i, ReceiverPoint(i))
    BY <1>7 DEF FirstMessage, Proto
  <2>2. m.ctxts[i][Choice(i)] = [key |-> ReceiverPoint(i), plain |-> SenderOutput(i, FirstMessage(i), Choice(i))]
    <3>1. \A j \in {0, 1} : m.ctxts[i][j] =
              [key |-> PairKey(FirstMessage(i), j), plain |-> SenderOutput(i, FirstMessage(i), j)]
      BY <1>7 DEF Answers, Proto
    <3>2. m.ctxts[i][Choice(i)] =
              [key |-> PairKey(FirstMessage(i), Choice(i)), plain |-> SenderOutput(i, FirstMessage(i), Choice(i))]
      BY <1>1, <3>1
    <3>3. QED
      BY <1>5, <2>1, <3>2
  <2>3. ReceiverOutput(i, m) = KyberOutput(i, m)
    BY <1>7 DEF ReceiverOutput, Proto
  <2>4. QED
    BY <2>2, <2>3 DEF KyberOutput
<1>8. CASE conf.proto = "mcRosRoy"
  <2>1. Eval(conf.popf, i, Choice(i), ProgramPoint(i)) = ReceiverPoint(i)
    <3>1. ASSUME NEW mul \in BOOLEAN
          PROVE  RistEval(i, Choice(i), RistProgram(i, Choice(i), ReceiverPoint(i), mul), mul) = ReceiverPoint(i)
      BY <1>2, RistPopf
    <3>2. CASE conf.popf = "rist"
      <4>1. Eval(conf.popf, i, Choice(i), ProgramPoint(i))
              = RistEval(i, Choice(i), RistProgram(i, Choice(i), ReceiverPoint(i), FALSE), FALSE)
        BY <3>2 DEF Eval, Program, ProgramPoint
      <4>2. QED
        BY <3>1, <4>1
    <3>3. CASE conf.popf = "ristMul"
      <4>1. Eval(conf.popf, i, Choice(i), ProgramPoint(i))
              = RistEval(i, Choice(i), RistProgram(i, Choice(i), ReceiverPoint(i), TRUE), TRUE)
        BY <3>3 DEF Eval, Program, ProgramPoint
      <4>2. QED
        BY <3>1, <4>1
    <3>4. QED
      BY <1>1, <1>8, <3>2, <3>3
  <2>2. QED
    BY <1>2, <1>8, <2>1 DEF ReceiverOutput, SenderOutput, FirstMessage, Proto, PopfOutput, PopfPair
<1>9. CASE conf.proto = "twist"
  <2>1. Eval(conf.popf, i, Choice(i), ProgramBytes(i)) = Bytes(TwistPoint(i), conf.curve[i])
    BY <1>1, <1>9, StringPopf DEF ProgramBytes
  <2>2. BySender(TwistPoint(i)) = ByReceiver(BySender(Generator(conf.curve[i])), i)
    BY <1>1, Keys DEF TwistPoint
  <2>3. m.points[conf.curve[i]] = BySender(Generator(conf.curve[i]))
    BY <1>1, <1>9 DEF Answers, Proto
  <2>4. QED
    BY <1>9, <2>1, <2>2, <2>3, PointOfBytes
    DEF ReceiverOutput, SenderOutput, FirstMessage, Proto, TwistOutput, TwistPair
<1>10. CASE conf.proto = "mock"
  BY <1>10 DEF ReceiverOutput, SenderOutput, FirstMessage, Proto, MockOutput, MockPair
<1>11. QED
  BY <1>1, <1>3, <1>4, <1>6, <1>7, <1>8, <1>9, <1>10

(* No two of the sender's messages are the same.                            *)
LEMMA Differ ==
    ASSUME BaseAssumption, conf \in BaseConfs, NEW i \in 1..N, NEW k \in 1..N,
           NEW j \in {0, 1}, NEW l \in {0, 1},
           SenderOutput(i, FirstMessage(i), j) = SenderOutput(k, FirstMessage(k), l)
    PROVE  i = k /\ j = l
<1>1. /\ i \in Nat \ {0} /\ k \in Nat \ {0} /\ Choice(i) \in {0, 1} /\ Choice(k) \in {0, 1}
      /\ conf.proto \in {"simplest", "asm", "masnyRindal", "kyber", "mcRosRoy", "twist", "mock"}
  BY Settings
<1>2. ASSUME NEW u, NEW v, NEW a, NEW b, NEW c, NEW d, NEW e, NEW f, Msg(u, a, c, e) = Msg(v, b, d, f)
      PROVE  u = v /\ a = b /\ c = d /\ e = f
  BY <1>2 DEF Msg
<1>3. CASE conf.proto = "simplest"
  <2>1. SimplestPair(i, SimplestPoint(i), j) = SimplestPair(k, SimplestPoint(k), l)
    BY <1>3 DEF SenderOutput, FirstMessage, Proto
  <2>2. i = k /\ SimplestKey(SimplestPoint(i), j) = SimplestKey(SimplestPoint(k), l)
    BY <1>2, <2>1 DEF SimplestPair
  <2>3. SimplestKey(SimplestPoint(i), 0) # SimplestKey(SimplestPoint(i), 1)
    BY <1>1, Simplest
  <2>4. QED
    BY <2>2, <2>3
<1>4. CASE conf.proto = "asm"
  <2>1. AsmPair(AsmPoint(i), j) = AsmPair(AsmPoint(k), l)
    BY <1>4 DEF SenderOutput, FirstMessage, Proto
  <2>2. Times(8, AsmPoint(i)) = Times(8, AsmPoint(k)) /\ AsmKey(AsmPoint(i), j) = AsmKey(AsmPoint(k), l)
    BY <1>2, <2>1 DEF AsmPair
  <2>3. /\ IsPoint(AsmPoint(i)) /\ IsPoint(AsmPoint(k))
        /\ Coef(AsmPoint(i), <<G, 0, i>>) # 0 /\ Coef(AsmPoint(i), <<G, 0, i>>) \in Int
        /\ Coef(AsmPoint(k), <<G, 0, i>>) \in Int
        /\ i # k => Coef(AsmPoint(k), <<G, 0, i>>) = 0
        /\ AsmKey(AsmPoint(i), 0) # AsmKey(AsmPoint(i), 1)
    BY <1>1, Asm
  <2>4. /\ Coef(Times(8, AsmPoint(i)), <<G, 0, i>>) = 8 * Coef(AsmPoint(i), <<G, 0, i>>)
        /\ Coef(Times(8, AsmPoint(k)), <<G, 0, i>>) = 8 * Coef(AsmPoint(k), <<G, 0, i>>)
    BY <2>3, 8 \in Nat \ {0}, TimesIs
  <2>5. i = k
    BY <2>2, <2>3, <2>4
  <2>6. QED
    BY <2>2, <2>3, <2>5
<1>5. ASSUME 2 * i + j = 2 * k + l PROVE i = k /\ j = l
  BY <1>1, <1>5
<1>6. CASE conf.proto = "masnyRindal"
  <2>1. MrPair(i, FirstMessage(i), j) = MrPair(k, FirstMessage(k), l)
    BY <1>6 DEF SenderOutput, Proto
  <2>2. QED
    BY <1>2, <1>5, <2>1 DEF MrPair
<1>7. CASE conf.proto = "kyber"
  <2>1. KyberPair(i, j) = KyberPair(k, l)
    BY <1>7 DEF SenderOutput, Proto
  <2>2. QED
    BY <1>2, <1>5, <2>1 DEF KyberPair
<1>8. CASE conf.proto = "mock"
  <2>1. MockPair(i, j) = MockPair(k, l)
    BY <1>8 DEF SenderOutput, Proto
  <2>2. QED
    BY <1>2, <1>5, <2>1 DEF MockPair
<1>9. CASE conf.proto = "mcRosRoy"
  <2>1. PopfPair(i, FirstMessage(i), j) = PopfPair(k, FirstMessage(k), l)
    BY <1>9 DEF SenderOutput, Proto
  <2>2. QED
    BY <1>2, <2>1 DEF PopfPair
<1>10. CASE conf.proto = "twist"
  <2>1. TwistPair(i, FirstMessage(i), j) = TwistPair(k, FirstMessage(k), l)
    BY <1>10 DEF SenderOutput, Proto
  <2>2. QED
    BY <1>2, <2>1 DEF TwistPair
<1>11. QED
  BY <1>1, <1>3, <1>4, <1>6, <1>7, <1>8, <1>9, <1>10

(* So there are twice as many as OTs.                                       *)
LEMMA TwiceAsMany ==
    ASSUME BaseAssumption, conf \in BaseConfs, NEW s,
           \A i \in 1..N : \A j \in {0, 1} : s[i][j] = SenderOutput(i, FirstMessage(i), j)
    PROVE  Cardinality({ s[i][j] : i \in 1..N, j \in {0, 1} }) = 2 * N
<1> DEFINE Cells == (1..N) \X {0, 1}
           Msgs == { s[i][j] : i \in 1..N, j \in {0, 1} }
           f == [c \in Cells |-> s[c[1]][c[2]]]
<1>1. N \in Nat \ {0}
  BY Settings
<1>2. IsFiniteSet(Cells) /\ Cardinality(Cells) = 2 * N
  <2>1. IsFiniteSet(1..N) /\ Cardinality(1..N) = N
    BY <1>1, FS_Interval
  <2>2. IsFiniteSet({0, 1}) /\ Cardinality({0, 1}) = 2
    <3>1. {0, 1} = 0..1
      OBVIOUS
    <3>2. QED
      <4>1. PICK a \in Int, b \in Int : a = 0 /\ b = 1
        OBVIOUS
      <4>2. IsFiniteSet(a..b) /\ Cardinality(a..b) = IF a > b THEN 0 ELSE b - a + 1
        BY FS_Interval
      <4>3. QED
        BY <3>1, <4>1, <4>2
  <2>3. Cardinality(Cells) = N * 2 /\ IsFiniteSet(Cells)
    <3>1. PICK rows, cols : rows = 1..N /\ cols = {0, 1}
      OBVIOUS
    <3>2. /\ IsFiniteSet(rows \X cols)
          /\ Cardinality(rows \X cols) = Cardinality(rows) * Cardinality(cols)
      BY <2>1, <2>2, <3>1, FS_Product
    <3>3. QED
      BY <2>1, <2>2, <3>1, <3>2
  <2>4. QED
    BY <1>1, <2>3
<1>3. ASSUME NEW c \in Cells PROVE f[c] \in Msgs
  <2>1. c[1] \in 1..N /\ c[2] \in {0, 1} /\ f[c] = s[c[1]][c[2]]
    OBVIOUS
  <2>2. QED
    BY <2>1
<1>4. ASSUME NEW x \in Msgs PROVE \E c \in Cells : f[c] = x
  <2>1. PICK i \in 1..N, j \in {0, 1} : x = s[i][j]
    OBVIOUS
  <2>2. <<i, j>> \in Cells /\ f[<<i, j>>] = s[i][j]
    OBVIOUS
  <2>3. QED
    BY <2>1, <2>2
<1>5. ASSUME NEW c \in Cells, NEW d \in Cells, f[c] = f[d] PROVE c = d
  <2>1. /\ c = <<c[1], c[2]>> /\ d = <<d[1], d[2]>>
        /\ c[1] \in 1..N /\ d[1] \in 1..N /\ c[2] \in {0, 1} /\ d[2] \in {0, 1}
    OBVIOUS
  <2>2. s[c[1]][c[2]] = s[d[1]][d[2]]
    BY <1>5
  <2>3. SenderOutput(c[1], FirstMessage(c[1]), c[2]) = SenderOutput(d[1], FirstMessage(d[1]), d[2])
    BY <2>1, <2>2
  <2>4. c[1] = d[1] /\ c[2] = d[2]
    BY <2>1, <2>3, Differ
  <2>5. QED
    BY <2>1, <2>4
<1>6. f \in Bijection(Cells, Msgs)
  <2> HIDE DEF Msgs
  <2>1. DOMAIN f = Cells /\ f = [c \in Cells |-> f[c]]
    OBVIOUS
  <2> HIDE DEF f, Cells
  <2>2. f \in [Cells -> Msgs]
    BY <1>3, <2>1
  <2>3. f \in Injection(Cells, Msgs) /\ f \in Surjection(Cells, Msgs)
    BY <1>4, <1>5, <2>2 DEF Injection, Surjection, IsInjective
  <2>4. QED
    BY <2>3 DEF Bijection
<1>7. QED
  <2> HIDE DEF f, Msgs, Cells
  <2>1. Cardinality(Msgs) = Cardinality(Cells)
    BY <1>2, <1>6, FS_Bijection DEF ExistsBijection
  <2>2. QED
    BY <1>2, <2>1 DEF Msgs

---------------------------------------------------------------------------
(* Sequences. *)

LEMMA Concatenated ==
    ASSUME NEW S, NEW a \in Seq(S), NEW b \in Seq(S)
    PROVE  /\ a \o b \in Seq(S) /\ Len(a \o b) = Len(a) + Len(b)
           /\ \A m \in 1..(Len(a) + Len(b)) : (a \o b)[m] = IF m <= Len(a) THEN a[m] ELSE b[m - Len(a)]
  OBVIOUS

LEMMA Joined ==
    ASSUME NEW m \in Nat, NEW n \in Nat, NEW f, NEW g, NEW h,
           \A k \in 1..m : f[k] = h[k], \A k \in 1..n : g[k] = h[m + k]
    PROVE  [k \in 1..m |-> f[k]] \o [k \in 1..n |-> g[k]] = [k \in 1..(m + n) |-> h[k]]
<1> DEFINE S == { h[k] : k \in 1..(m + n) }
<1>1. PICK a : a = [k \in 1..m |-> f[k]]
  OBVIOUS
<1>2. PICK b : b = [k \in 1..n |-> g[k]]
  OBVIOUS
<1>3. \A k \in 1..n : m + k \in 1..(m + n)
  OBVIOUS
<1>4. a \in [1..m -> S] /\ b \in [1..n -> S]
  <2>1. \A k \in 1..m : f[k] \in S
    OBVIOUS
  <2>2. \A k \in 1..n : g[k] \in S
    BY <1>3
  <2> HIDE DEF S
  <2>3. QED
    BY <1>1, <1>2, <2>1, <2>2
<1> HIDE DEF S
<1>5. a \in Seq(S) /\ b \in Seq(S) /\ Len(a) = m /\ Len(b) = n
  <2>1. PICK T : T = S
    OBVIOUS
  <2>2. a \in [1..m -> T] /\ b \in [1..n -> T]
    BY <1>4, <2>1
  <2>3. a \in Seq(T) /\ Len(a) = m
    BY <2>2
  <2>4. b \in Seq(T) /\ Len(b) = n
    BY <2>2
  <2>5. QED
    BY <2>1, <2>3, <2>4
<1>6. /\ a \o b \in Seq(S) /\ Len(a \o b) = m + n
      /\ \A k \in 1..(m + n) : (a \o b)[k] = IF k <= m THEN a[k] ELSE b[k - m]
  <2>1. /\ a \o b \in Seq(S) /\ Len(a \o b) = Len(a) + Len(b)
        /\ \A k \in 1..(Len(a) + Len(b)) : (a \o b)[k] = IF k <= Len(a) THEN a[k] ELSE b[k - Len(a)]
    BY <1>5, Concatenated
  <2>2. Len(a) = m /\ Len(b) = n
    BY <1>5
  <2>3. QED
    BY <2>1, <2>2
<1>7. ASSUME NEW k \in 1..(m + n) PROVE (a \o b)[k] = h[k]
  <2>1. CASE k <= m
    BY <1>1, <1>6, <2>1
  <2>2. CASE k > m
    <3>1. k - m \in 1..n /\ m + (k - m) = k
      BY <2>2
    <3>2. b[k - m] = g[k - m] /\ g[k - m] = h[m + (k - m)]
      BY <1>2, <3>1
    <3>3. QED
      BY <1>6, <2>2, <3>1, <3>2
  <2>3. k <= m \/ k > m
    OBVIOUS
  <2>4. QED
    BY <2>1, <2>2, <2>3
<1>8. a \o b = [k \in 1..(m + n) |-> h[k]]
  <2>1. PICK x : x = a \o b
    OBVIOUS
  <2>2. x \in Seq(S) /\ Len(x) = m + n /\ \A k \in 1..(m + n) : x[k] = h[k]
    BY <1>6, <1>7, <2>1
  <2>3. x = [k \in 1..(m + n) |-> h[k]]
    BY <2>2
  <2>4. QED
    BY <2>1, <2>3
<1>9. QED
  BY <1>1, <1>2, <1>8

LEMMA Emptied ==
    ASSUME NEW f
    PROVE  [k \in 1..0 |-> f[k]] = << >>
  OBVIOUS

LEMMA Taken ==
    ASSUME NEW n \in Nat \ {0}, NEW f
    PROVE  LET s == [k \in 1..n |-> f[k]] IN
           /\ s # << >> /\ Head(s) = f[1]
           /\ Tail(s) = [k \in 1..(n - 1) |-> f[k + 1]]
<1> DEFINE S == { f[k] : k \in 1..n }
<1>1. PICK s : s = [k \in 1..n |-> f[k]]
  OBVIOUS
<1>2. s \in [1..n -> S]
  BY <1>1
<1> HIDE DEF S
<1>3. s \in Seq(S) /\ Len(s) = n /\ s # << >>
  BY <1>2
<1>4. Head(s) = s[1] /\ Tail(s) \in Seq(S) /\ Len(Tail(s)) = n - 1
  BY <1>3
<1>5. \A k \in 1..(n - 1) : Tail(s)[k] = s[k + 1]
  BY <1>3
<1>6. \A k \in 1..(n - 1) : k + 1 \in 1..n
  OBVIOUS
<1>7. \A k \in 1..(n - 1) : Tail(s)[k] = f[k + 1]
  BY <1>1, <1>5, <1>6
<1>8. Tail(s) = [k \in 1..(n - 1) |-> f[k + 1]]
  <2>1. PICK t : t = Tail(s)
    OBVIOUS
  <2>2. t \in Seq(S) /\ Len(t) = n - 1 /\ \A k \in 1..(n - 1) : t[k] = f[k + 1]
    BY <1>4, <1>7, <2>1
  <2>3. t = [k \in 1..(n - 1) |-> t[k]]
    BY <2>2
  <2>4. [k \in 1..(n - 1) |-> t[k]] = [k \in 1..(n - 1) |-> f[k + 1]]
    BY <2>2
  <2>5. QED
    BY <2>1, <2>3, <2>4
<1>9. QED
  BY <1>1, <1>3, <1>4, <1>8

LEMMA OneMessage ==
    ASSUME NEW m
    PROVE  /\ <<m>> # << >> /\ Head(<<m>>) = m /\ Tail(<<m>>) = << >>
           /\ << >> \o <<m>> = <<m>> /\ <<m>> \o << >> = <<m>> /\ << >> \o << >> = << >>
  OBVIOUS

---------------------------------------------------------------------------
(* The points on their way to the sender: those of OTs a + 1 to b, a message *)
(* for each group.                                                         *)

PointsFrom(d) == [kind |-> "points", points |-> [k \in 1..GroupSize(d) |-> FirstMessage(d + k)]]
ChainAt(ms, a, b, n, f) ==
    /\ f \in [1..(n + 1) -> 0..N] /\ f[1] = a /\ f[n + 1] = b
    /\ \A k \in 1..n : f[k] < N /\ f[k + 1] = f[k] + GroupSize(f[k])
    /\ ms = [k \in 1..n |-> PointsFrom(f[k])]
Chain(ms, a, b) == \E n \in Nat : \E f : ChainAt(ms, a, b, n, f)

LEMMA ChainEmpty ==
    ASSUME NEW a \in 0..N
    PROVE  Chain(<< >>, a, a)
<1> DEFINE f == [k \in 1..1 |-> a]
<1>1. f \in [1..(0 + 1) -> 0..N] /\ f[1] = a /\ f[0 + 1] = a /\ 1..0 = {}
  OBVIOUS
<1>2. << >> = [k \in 1..0 |-> PointsFrom(f[k])]
  OBVIOUS
<1> HIDE DEF f
<1>3. ChainAt(<< >>, a, a, 0, f)
  BY <1>1, <1>2 DEF ChainAt
<1>4. QED
  BY <1>3, 0 \in Nat DEF Chain

LEMMA ChainMore ==
    ASSUME BaseAssumption, conf \in BaseConfs, NEW ms, NEW a, NEW b, Chain(ms, a, b), b < N
    PROVE  b \in 0..(N - 1) /\ Chain(ms \o <<PointsFrom(b)>>, a, b + GroupSize(b))
<1>0. PICK n \in Nat : \E f : ChainAt(ms, a, b, n, f)
  BY DEF Chain
<1>1. PICK f : ChainAt(ms, a, b, n, f)
  BY <1>0
<1>2. N \in Nat /\ \A d \in 0..(N - 1) : GroupSize(d) \in 1..(N - d)
  BY Settings
<1>3. b \in 0..(N - 1)
  <2>1. n + 1 \in 1..(n + 1)
    OBVIOUS
  <2>2. b \in 0..N
    BY <1>1, <2>1 DEF ChainAt
  <2>3. QED
    BY <1>2, <2>2
<1>4. PICK c : c = b + GroupSize(b) /\ c \in 0..N
  BY <1>2, <1>3
<1> DEFINE g == [k \in 1..((n + 1) + 1) |-> IF k = n + 2 THEN c ELSE f[k]]
           pf == [k \in 1..n |-> PointsFrom(f[k])]
           pg == [k \in 1..(n + 1) |-> PointsFrom(g[k])]
<1>5. /\ DOMAIN f = 1..(n + 1) /\ \A k \in 1..(n + 1) : f[k] \in 0..N
      /\ f[1] = a /\ f[n + 1] = b /\ ms = pf
      /\ \A k \in 1..n : f[k] < N /\ f[k + 1] = f[k] + GroupSize(f[k])
  BY <1>1 DEF ChainAt
<1>6. /\ \A k \in 1..(n + 1) : g[k] = f[k] /\ g[(n + 1) + 1] = c
      /\ g \in [1..((n + 1) + 1) -> 0..N]
  <2>1. \A k \in 1..((n + 1) + 1) : k = n + 2 \/ k \in 1..(n + 1)
    OBVIOUS
  <2>2. QED
    BY <1>4, <1>5, <2>1
<1> HIDE DEF g
<1>7. g[1] = a /\ g[n + 1] = b
  BY <1>5, <1>6
<1>8. ASSUME NEW k \in 1..(n + 1) PROVE g[k] < N /\ g[k + 1] = g[k] + GroupSize(g[k])
  <2>1. CASE k \in 1..n
    <3>1. k + 1 \in 1..(n + 1)
      BY <2>1
    <3>2. QED
      BY <1>5, <1>6, <2>1, <3>1
  <2>2. CASE k = n + 1
    BY <1>3, <1>4, <1>6, <1>7, <2>2
  <2>3. QED
    BY <2>1, <2>2
<1>9. ms \o <<PointsFrom(b)>> = pg
  <2> DEFINE one == [k \in 1..1 |-> PointsFrom(b)]
  <2>1. one = <<PointsFrom(b)>>
    OBVIOUS
  <2>2. \A k \in 1..n : pf[k] = pg[k]
    BY <1>6
  <2>3. \A k \in 1..1 : one[k] = pg[n + k]
    BY <1>7
  <2>4. pf = [k \in 1..n |-> pf[k]] /\ pg = [k \in 1..(n + 1) |-> pg[k]] /\ one = [k \in 1..1 |-> one[k]]
    OBVIOUS
  <2> HIDE DEF pf, pg, one
  <2>5. [k \in 1..n |-> pf[k]] \o [k \in 1..1 |-> one[k]] = [k \in 1..(n + 1) |-> pg[k]]
    BY <2>2, <2>3, Joined
  <2>6. QED
    BY <1>5, <2>1, <2>4, <2>5
<1>10. ChainAt(ms \o <<PointsFrom(b)>>, a, c, n + 1, g)
  <2>1. pg = [k \in 1..(n + 1) |-> PointsFrom(g[k])]
    OBVIOUS
  <2>2. \A k \in 1..(n + 1) : g[k] < N /\ g[k + 1] = g[k] + GroupSize(g[k])
    BY <1>8
  <2>3. PICK n2 \in Nat : n2 = n + 1
    OBVIOUS
  <2>4. PICK ms2 : ms2 = ms \o <<PointsFrom(b)>>
    OBVIOUS
  <2> HIDE DEF pg
  <2>5. ms2 = [k \in 1..n2 |-> PointsFrom(g[k])]
    BY <1>9, <2>1, <2>3, <2>4
  <2>6. g \in [1..(n2 + 1) -> 0..N] /\ g[n2 + 1] = c
    BY <1>6, <2>3
  <2>7. \A k \in 1..n2 : g[k] < N /\ g[k + 1] = g[k] + GroupSize(g[k])
    BY <2>2, <2>3
  <2>8. ChainAt(ms2, a, c, n2, g)
    BY <1>7, <2>5, <2>6, <2>7 DEF ChainAt
  <2>9. QED
    BY <2>3, <2>4, <2>8
<1>11. QED
  BY <1>3, <1>4, <1>10, n + 1 \in Nat DEF Chain

LEMMA ChainLess ==
    ASSUME BaseAssumption, conf \in BaseConfs, NEW ms, NEW a, NEW b, Chain(ms, a, b)
    PROVE  /\ a \in 0..N /\ b \in 0..N
           /\ ms = << >> => a = b
           /\ ms # << >> => /\ a < N /\ Head(ms) = PointsFrom(a)
                            /\ Chain(Tail(ms), a + GroupSize(a), b)
<1>0. PICK n \in Nat : \E f : ChainAt(ms, a, b, n, f)
  BY DEF Chain
<1>1. PICK f : ChainAt(ms, a, b, n, f)
  BY <1>0
<1>2. /\ DOMAIN f = 1..(n + 1) /\ \A k \in 1..(n + 1) : f[k] \in 0..N
      /\ f[1] = a /\ f[n + 1] = b /\ ms = [k \in 1..n |-> PointsFrom(f[k])]
      /\ \A k \in 1..n : f[k] < N /\ f[k + 1] = f[k] + GroupSize(f[k])
  BY <1>1 DEF ChainAt
<1>3. a \in 0..N /\ b \in 0..N
  BY <1>2, 1 \in 1..(n + 1), n + 1 \in 1..(n + 1)
<1>4. CASE n = 0
  BY <1>2, <1>3, <1>4
<1>5. CASE n # 0
  <2> DEFINE pf == [k \in 1..n |-> PointsFrom(f[k])]
             g == [k \in 1..((n - 1) + 1) |-> f[k + 1]]
             pg == [k \in 1..(n - 1) |-> PointsFrom(g[k])]
  <2>1. n \in Nat \ {0} /\ n - 1 \in Nat /\ (n - 1) + 1 = n /\ 1 \in 1..n
    BY <1>5
  <2>2. pf = [k \in 1..n |-> pf[k]] /\ pf[1] = PointsFrom(a)
    BY <1>2, <2>1
  <2>3. /\ ms # << >> /\ Head(ms) = pf[1]
        /\ Tail(ms) = [k \in 1..(n - 1) |-> pf[k + 1]]
    <3>1. ms = [k \in 1..n |-> pf[k]]
      BY <1>2
    <3> HIDE DEF pf
    <3>2. QED
      BY <2>1, <3>1, Taken
  <2>4. \A k \in 1..n : k + 1 \in 1..(n + 1)
    OBVIOUS
  <2>5. \A k \in 1..(n - 1) : k \in 1..n /\ k + 1 \in 1..n
    OBVIOUS
  <2>6. \A k \in 1..n : g[k] = f[k + 1]
    BY <2>1
  <2>7. g \in [1..((n - 1) + 1) -> 0..N]
    <3>1. \A k \in 1..((n - 1) + 1) : f[k + 1] \in 0..N
      BY <1>2, <2>1, <2>4
    <3>2. QED
      BY <3>1
  <2>8. [k \in 1..(n - 1) |-> pf[k + 1]] = pg
    BY <2>5, <2>6
  <2>9. g[1] = a + GroupSize(a) /\ g[(n - 1) + 1] = b /\ a < N
    BY <1>2, <2>1, <2>6
  <2> HIDE DEF g
  <2>10. \A k \in 1..(n - 1) : g[k] < N /\ g[k + 1] = g[k] + GroupSize(g[k])
    BY <1>2, <2>5, <2>6
  <2>11. ChainAt(Tail(ms), a + GroupSize(a), b, n - 1, g)
    BY <2>3, <2>7, <2>8, <2>9, <2>10 DEF ChainAt
  <2>12. Chain(Tail(ms), a + GroupSize(a), b)
    BY <2>1, <2>11 DEF Chain
  <2>13. QED
    BY <1>3, <2>2, <2>3, <2>9, <2>12
<1>6. QED
  BY <1>4, <1>5

---------------------------------------------------------------------------
(* The invariant: what the sender knows when it has taken the first l OTs,   *)
(* what the receiver knows when it has sent the first n, and the messages    *)
(* that make up the difference.                                            *)

Both(a, b) == [p \in Parties |-> IF p = SenderP THEN a ELSE b]
SenderAt(p, l) ==
    [pc |-> p, got |-> [i \in 1..l |-> FirstMessage(i)],
     out |-> [i \in 1..l |-> [j \in {0, 1} |-> SenderOutput(i, FirstMessage(i), j)]]]
ReceiverAt(q, g, o) == [pc |-> q, got |-> g, out |-> o]
Pending(i) == IF Waits THEN Msg(Zero, 0, 0, Zero) ELSE ReceiverOutput(i, NoAnswer)
PublicPoint ==
    [kind |-> "A", committed |-> Uniform(SenderP), commit |-> 1,
     points |-> [c \in {0, 1} |-> BySender(Generator(c))]]

Agreed == Uniform(SenderP) = Uniform(ReceiverP)
Lying == Uniform(SenderP) /\ conf.lies
PointFirst == Proto({"simplest", "asm"})
NoPoint == Proto({"kyber", "mock"})
(* Whether a receiver at q has taken the public point.                      *)
Taker(q) == IF PointFirst THEN q # "start" ELSE q = "done"

SenderGood(p, l) ==
    /\ p \in {"start", "points", "done", "failed"} /\ l \in 0..N
    /\ p = "done" <=> l = N
    /\ p \in {"start", "failed"} => l = 0
    /\ p \in {"points", "failed"} => ~NoPoint

ReceiverGood(q, g, o, n) ==
    /\ q \in {"start", "groups", "answer", "done", "failed"} /\ n \in 0..N
    /\ q \in {"start", "groups", "answer"} => o = [i \in 1..n |-> Pending(i)]
    /\ q = "start" => n < N
    /\ q = "groups" => n < N /\ PointFirst
    /\ q = "answer" => n = N /\ Waits
    /\ q = "done" => n = N /\ ~Lying /\ \E m : Answers(m) /\ o = [i \in 1..N |-> ReceiverOutput(i, m)]
    /\ q # "start" /\ q # "failed" => Agreed /\ (PointFirst => q = "done" \/ g = <<1>>)
    /\ q = "failed" => PointFirst

ToSenderGood(p, l, q, n, toS) ==
    /\ q # "failed" => p # "failed" /\ Chain(toS, l, n)
    /\ q = "start" /\ PointFirst => n = 0 /\ l = 0 /\ toS = << >>
    /\ q = "failed" =>
          \/ ~Agreed /\ p = "points" /\ l = 0 /\ toS = Closed
          \/ ~Agreed /\ p = "failed" /\ l = 0 /\ toS = << >>
          \/ p = "done" /\ Agreed /\ Lying /\ toS = Closed

AnswerOf(p, l, q) ==
    IF p = "done" /\ q \notin {"done", "failed"} THEN Answer(SenderAt(p, l)) ELSE << >>
ToReceiverGood(p, l, q, toR) ==
    /\ ~NoPoint /\ Taker(q) => p # "start"
    /\ q = "done" /\ (Uniform(SenderP) \/ Proto({"kyber"})) => p = "done"
    /\ toR = IF p # "start" /\ ~NoPoint /\ ~Taker(q) THEN <<PublicPoint>> ELSE AnswerOf(p, l, q)

Good(p, l, q, g, o, n, toS, toR) ==
    /\ SenderGood(p, l) /\ ReceiverGood(q, g, o, n)
    /\ ToSenderGood(p, l, q, n, toS) /\ ToReceiverGood(p, l, q, toR)
At(p, l, q, g, o, n, toS, toR) ==
    /\ party = Both(SenderAt(p, l), ReceiverAt(q, g, o)) /\ net = Both(toS, toR)
    /\ Good(p, l, q, g, o, n, toS, toR)

IInv ==
    /\ conf \in BaseConfs
    /\ \E p, l, q, g, o, n, toS, toR : At(p, l, q, g, o, n, toS, toR)

(* Nothing of this depends on more than the configuration.                  *)
LEMMA SteadyMessages ==
    ASSUME conf' = conf
    PROVE  /\ N' = N /\ \A S : Proto(S)' = Proto(S)
           /\ \A p : Uniform(p)' = Uniform(p)
           /\ \A d : GroupSize(d)' = GroupSize(d)
           /\ \A i : FirstMessage(i)' = FirstMessage(i)
           /\ \A i, b, j : SenderOutput(i, b, j)' = SenderOutput(i, b, j)
           /\ \A i, m : ReceiverOutput(i, m)' = ReceiverOutput(i, m)
<1>1. N' = N
  BY DEF N
<1>2. ASSUME NEW S PROVE Proto(S)' = Proto(S)
  BY DEF Proto
<1>3. ASSUME NEW i PROVE Choice(i)' = Choice(i)
  BY DEF Choice
<1>4. ASSUME NEW p PROVE Uniform(p)' = Uniform(p)
  BY <1>2 DEF Uniform
<1>5. ASSUME NEW d PROVE GroupSize(d)' = GroupSize(d)
  BY <1>1, <1>2 DEF GroupSize, Least
<1>6. ASSUME NEW p, NEW x PROVE Seed(p, x)' = Seed(p, x)
  BY <1>4 DEF Seed
<1>7. ASSUME NEW i PROVE TwistPoint(i)' = TwistPoint(i)
  BY DEF TwistPoint
<1>8. ASSUME NEW i
      PROVE  /\ SimplestPoint(i)' = SimplestPoint(i) /\ AsmPoint(i)' = AsmPoint(i)
             /\ ProgramPoint(i)' = ProgramPoint(i) /\ ProgramBytes(i)' = ProgramBytes(i)
             /\ \A own : Pair(i, own)' = Pair(i, own)
  <2>1. SimplestPoint(i)' = SimplestPoint(i)
    BY <1>3 DEF SimplestPoint
  <2>2. AsmPoint(i)' = AsmPoint(i)
    BY <1>3 DEF AsmPoint
  <2>3. ProgramPoint(i)' = ProgramPoint(i)
    BY <1>3 DEF ProgramPoint
  <2>4. ProgramBytes(i)' = ProgramBytes(i)
    BY <1>3, <1>7 DEF ProgramBytes
  <2>5. ASSUME NEW own PROVE Pair(i, own)' = Pair(i, own)
    BY <1>3 DEF Pair
  <2>6. QED
    BY <2>1, <2>2, <2>3, <2>4, <2>5
<1>9. ASSUME NEW i PROVE FirstMessage(i)' = FirstMessage(i)
  BY <1>2, <1>8 DEF FirstMessage
<1>10. ASSUME NEW i, NEW b, NEW j PROVE SenderOutput(i, b, j)' = SenderOutput(i, b, j)
  <2>1. SimplestPair(i, b, j)' = SimplestPair(i, b, j)
    BY <1>6 DEF SimplestPair, SimplestKey, Msg
  <2>2. PopfPair(i, b, j)' = PopfPair(i, b, j) /\ TwistPair(i, b, j)' = TwistPair(i, b, j)
    BY DEF PopfPair, TwistPair, Msg
  <2>3. QED
    BY <1>2, <2>1, <2>2 DEF SenderOutput
<1>11. ASSUME NEW i, NEW m PROVE ReceiverOutput(i, m)' = ReceiverOutput(i, m)
  <2>1. SimplestOutput(i, m)' = SimplestOutput(i, m)
    BY <1>6 DEF SimplestOutput, Msg
  <2>2. AsmOutput(i)' = AsmOutput(i)
    BY <1>8 DEF AsmOutput, Msg
  <2>3. MrOutput(i)' = MrOutput(i) /\ PopfOutput(i)' = PopfOutput(i) /\ MockOutput(i)' = MockOutput(i)
    BY <1>3 DEF MrOutput, PopfOutput, MockOutput, Msg
  <2>4. KyberOutput(i, m)' = KyberOutput(i, m)
    BY <1>3 DEF KyberOutput
  <2>5. TwistOutput(i, m)' = TwistOutput(i, m)
    BY <1>3 DEF TwistOutput, Msg
  <2>6. QED
    BY <1>2, <2>1, <2>2, <2>3, <2>4, <2>5 DEF ReceiverOutput
<1>12. QED
  BY <1>1, <1>2, <1>4, <1>5, <1>9, <1>10, <1>11

LEMMA Steady ==
    ASSUME conf' = conf, NEW p, NEW l, NEW q, NEW g, NEW o, NEW n, NEW toS, NEW toR
    PROVE  /\ SenderAt(p, l)' = SenderAt(p, l)
           /\ Good(p, l, q, g, o, n, toS, toR)' = Good(p, l, q, g, o, n, toS, toR)
<1>1. /\ N' = N /\ \A S : Proto(S)' = Proto(S)
      /\ \A x : Uniform(x)' = Uniform(x)
      /\ \A d : GroupSize(d)' = GroupSize(d)
      /\ \A i : FirstMessage(i)' = FirstMessage(i)
      /\ \A i, b, j : SenderOutput(i, b, j)' = SenderOutput(i, b, j)
      /\ \A i, m : ReceiverOutput(i, m)' = ReceiverOutput(i, m)
  BY SteadyMessages
<1>2. SenderAt(p, l)' = SenderAt(p, l)
  BY <1>1 DEF SenderAt
<1>3. /\ Agreed' = Agreed /\ Lying' = Lying /\ PointFirst' = PointFirst /\ NoPoint' = NoPoint
      /\ Waits' = Waits /\ PublicPoint' = PublicPoint
  BY <1>1 DEF Agreed, Lying, PointFirst, NoPoint, Waits, PublicPoint
<1>4. ASSUME NEW m PROVE Answers(m)' = Answers(m)
  BY <1>1 DEF Answers
<1>5. ASSUME NEW i PROVE Pending(i)' = Pending(i)
  BY <1>1, <1>3 DEF Pending, Msg
<1>6. SenderGood(p, l)' = SenderGood(p, l)
  BY <1>1, <1>3 DEF SenderGood
<1>7. ReceiverGood(q, g, o, n)' = ReceiverGood(q, g, o, n)
  BY <1>1, <1>3, <1>4, <1>5 DEF ReceiverGood
<1>8. ASSUME NEW d PROVE PointsFrom(d)' = PointsFrom(d)
  BY <1>1 DEF PointsFrom
<1>9. ASSUME NEW ms, NEW a, NEW b PROVE Chain(ms, a, b)' = Chain(ms, a, b)
  <2>1. ASSUME NEW k, NEW f PROVE ChainAt(ms, a, b, k, f)' = ChainAt(ms, a, b, k, f)
    BY <1>1, <1>8 DEF ChainAt
  <2>2. QED
    BY <2>1 DEF Chain
<1>10. ToSenderGood(p, l, q, n, toS)' = ToSenderGood(p, l, q, n, toS)
  BY <1>3, <1>9 DEF ToSenderGood
<1>11. AnswerOf(p, l, q)' = AnswerOf(p, l, q)
  <2>1. Opening' = Opening
    BY DEF Opening
  <2>2. Ciphertexts(SenderAt(p, l))' = Ciphertexts(SenderAt(p, l))
    BY <1>1, <1>2 DEF Ciphertexts
  <2>3. Answer(SenderAt(p, l))' = Answer(SenderAt(p, l))
    BY <1>1, <2>1, <2>2 DEF Answer
  <2>4. QED
    BY <2>3 DEF AnswerOf
<1>12. ToReceiverGood(p, l, q, toR)' = ToReceiverGood(p, l, q, toR)
  BY <1>1, <1>3, <1>11 DEF ToReceiverGood, Taker
<1>13. QED
  BY <1>2, <1>6, <1>7, <1>10, <1>12 DEF Good

---------------------------------------------------------------------------
(* Every step keeps it. *)

LEMMA Reached ==
    ASSUME conf \in BaseConfs, conf' = conf,
           NEW p, NEW l, NEW q, NEW g, NEW o, NEW n, NEW toS, NEW toR,
           party' = Both(SenderAt(p, l), ReceiverAt(q, g, o)), net' = Both(toS, toR),
           Good(p, l, q, g, o, n, toS, toR)
    PROVE  IInv'
<1>1. /\ SenderAt(p, l)' = SenderAt(p, l)
      /\ Good(p, l, q, g, o, n, toS, toR)'
  BY Steady
<1>2. /\ party' = Both(SenderAt(p, l)', ReceiverAt(q, g, o)')
  BY <1>1 DEF ReceiverAt
<1>3. At(p, l, q, g, o, n, toS, toR)'
  BY <1>1, <1>2 DEF At, Both
<1>4. QED
  BY <1>3 DEF IInv

LEMMA Moves ==
    ASSUME NEW a, NEW b, NEW x, NEW y, party = Both(a, b), net = Both(x, y), NEW st, NEW ms
    PROVE  /\ Goes(SenderP, st, ms) => conf' = conf /\ party' = Both(st, b) /\ net' = Both(x, y \o ms)
           /\ Takes(SenderP, st, ms) => conf' = conf /\ party' = Both(st, b) /\ net' = Both(Tail(x), y \o ms)
           /\ Goes(ReceiverP, st, ms) => conf' = conf /\ party' = Both(a, st) /\ net' = Both(x \o ms, y)
           /\ Takes(ReceiverP, st, ms) => conf' = conf /\ party' = Both(a, st) /\ net' = Both(x \o ms, Tail(y))
           /\ party[SenderP] = a /\ party[ReceiverP] = b
           /\ HasMessage(SenderP) <=> x # << >>
           /\ HasMessage(ReceiverP) <=> y # << >>
           /\ Message(SenderP) = Head(x) /\ Message(ReceiverP) = Head(y)
  BY DEF Both, Goes, Takes, Parties, Peer, SenderP, ReceiverP, HasMessage, Message

(* A party's record.                                                        *)
LEMMA Fields ==
    ASSUME NEW a, NEW b, NEW c, NEW x, NEW y, NEW z, NEW s, s = [pc |-> a, got |-> b, out |-> c]
    PROVE  /\ s.pc = a /\ s.got = b /\ s.out = c
           /\ [s EXCEPT !.pc = x] = [pc |-> x, got |-> b, out |-> c]
           /\ [s EXCEPT !.pc = x, !.got = y] = [pc |-> x, got |-> y, out |-> c]
           /\ [s EXCEPT !.out = y, !.pc = x] = [pc |-> x, got |-> b, out |-> y]
           /\ [s EXCEPT !.pc = x, !.out = y] = [pc |-> x, got |-> b, out |-> y]
           /\ [s EXCEPT !.got = y, !.out = z, !.pc = x] = [pc |-> x, got |-> y, out |-> z]
<1>1. s = [pc |-> a, got |-> b, out |-> c]
  OBVIOUS
<1>2. DOMAIN s = {"pc", "got", "out"} /\ s.pc = a /\ s.got = b /\ s.out = c
  BY <1>1
<1>3. [s EXCEPT !.pc = x] = [pc |-> x, got |-> b, out |-> c]
  BY <1>1
<1>4. [s EXCEPT !.pc = x, !.got = y] = [pc |-> x, got |-> y, out |-> c]
  <2>1. PICK t : t = [s EXCEPT !.pc = x, !.got = y]
    OBVIOUS
  <2>2. DOMAIN t = {"pc", "got", "out"} /\ t = [k \in DOMAIN s |-> t[k]]
    BY <1>2, <2>1
  <2>3. t["pc"] = x
    BY <1>1, <1>2, <2>1
  <2>4. t["got"] = y
    BY <1>1, <1>2, <2>1
  <2>5. t["out"] = c
    BY <1>1, <1>2, <2>1
  <2>6. QED
    BY <1>1, <1>2, <2>1, <2>2, <2>3, <2>4, <2>5
<1>5. [s EXCEPT !.out = y, !.pc = x] = [pc |-> x, got |-> b, out |-> y]
  <2>1. PICK t : t = [s EXCEPT !.out = y, !.pc = x]
    OBVIOUS
  <2>2. DOMAIN t = {"pc", "got", "out"} /\ t = [k \in DOMAIN s |-> t[k]]
    BY <1>2, <2>1
  <2>3. t["pc"] = x
    BY <1>1, <1>2, <2>1
  <2>4. t["got"] = b
    BY <1>1, <1>2, <2>1
  <2>5. t["out"] = y
    BY <1>1, <1>2, <2>1
  <2>6. QED
    BY <1>1, <1>2, <2>1, <2>2, <2>3, <2>4, <2>5
<1>6. [s EXCEPT !.pc = x, !.out = y] = [pc |-> x, got |-> b, out |-> y]
  <2>1. PICK t : t = [s EXCEPT !.pc = x, !.out = y]
    OBVIOUS
  <2>2. DOMAIN t = {"pc", "got", "out"} /\ t = [k \in DOMAIN s |-> t[k]]
    BY <1>2, <2>1
  <2>3. t["pc"] = x
    BY <1>1, <1>2, <2>1
  <2>4. t["got"] = b
    BY <1>1, <1>2, <2>1
  <2>5. t["out"] = y
    BY <1>1, <1>2, <2>1
  <2>6. QED
    BY <1>1, <1>2, <2>1, <2>2, <2>3, <2>4, <2>5
<1>7. [s EXCEPT !.got = y, !.out = z, !.pc = x] = [pc |-> x, got |-> y, out |-> z]
  <2>1. PICK t : t = [s EXCEPT !.got = y, !.out = z, !.pc = x]
    OBVIOUS
  <2>2. DOMAIN t = {"pc", "got", "out"} /\ t = [k \in DOMAIN s |-> t[k]]
    BY <1>2, <2>1
  <2>3. t["pc"] = x
    BY <1>1, <1>2, <2>1
  <2>4. t["got"] = y
    BY <1>1, <1>2, <2>1
  <2>5. t["out"] = z
    BY <1>1, <1>2, <2>1
  <2>6. QED
    BY <1>1, <1>2, <2>1, <2>2, <2>3, <2>4, <2>5
<1>8. QED
  BY <1>1, <1>2, <1>3, <1>4, <1>5, <1>6, <1>7

LEMMA SenderFields ==
    ASSUME NEW p, NEW l, NEW x
    PROVE  /\ SenderAt(p, l).pc = p /\ [SenderAt(p, l) EXCEPT !.pc = x] = SenderAt(x, l)
           /\ SenderAt(p, l).got = [i \in 1..l |-> FirstMessage(i)]
           /\ SenderAt(p, l).out = [i \in 1..l |-> [j \in {0, 1} |-> SenderOutput(i, FirstMessage(i), j)]]
<1>1. PICK b : b = [i \in 1..l |-> FirstMessage(i)]
  OBVIOUS
<1>2. PICK c : c = [i \in 1..l |-> [j \in {0, 1} |-> SenderOutput(i, FirstMessage(i), j)]]
  OBVIOUS
<1>3. ASSUME NEW y PROVE SenderAt(y, l) = [pc |-> y, got |-> b, out |-> c]
  BY <1>1, <1>2 DEF SenderAt
<1>4. PICK s : s = SenderAt(p, l)
  OBVIOUS
<1>5. s = [pc |-> p, got |-> b, out |-> c]
  BY <1>3, <1>4
<1>6. s.pc = p /\ s.got = b /\ s.out = c /\ [s EXCEPT !.pc = x] = [pc |-> x, got |-> b, out |-> c]
  BY <1>5
<1>7. QED
  BY <1>1, <1>2, <1>3, <1>4, <1>6

(* Which protocol it is decides who waits for whom.                         *)
LEMMA Classes ==
    ASSUME BaseAssumption, conf \in BaseConfs
    PROVE  /\ Uniform(SenderP) \in BOOLEAN /\ Uniform(ReceiverP) \in BOOLEAN
           /\ Uniform(SenderP) \/ Uniform(ReceiverP) => PointFirst /\ Proto({"simplest"})
           /\ PointFirst => ~NoPoint /\ ~Proto({"kyber"}) /\ ~Proto({"twist"})
           /\ Proto({"kyber"}) => NoPoint
           /\ ~PointFirst => Agreed /\ (Waits \/ Proto({"mock"}))
           /\ Waits <=> Uniform(ReceiverP) \/ (~PointFirst /\ ~Proto({"mock"}))
           /\ NoPoint => GroupSize(0) = N
           /\ NoPoint /\ Waits => Proto({"kyber"})
           /\ \A st : ~Uniform(SenderP) /\ ~Proto({"kyber"}) => Answer(st) = << >>
<1>1. conf.proto \in {"simplest", "asm", "masnyRindal", "kyber", "mcRosRoy", "twist", "mock"}
  BY Settings
<1>2. Uniform(SenderP) \in BOOLEAN /\ Uniform(ReceiverP) \in BOOLEAN
  BY DEF BaseAssumption, Uniform, SenderP, ReceiverP, Proto
<1>3. NoPoint => GroupSize(0) = N
  BY <1>1, Settings DEF GroupSize, Least, NoPoint, Proto
<1>4. \A st : ~Uniform(SenderP) /\ ~Proto({"kyber"}) => Answer(st) = << >>
  BY DEF Answer
<1>5. Uniform(SenderP) \/ Uniform(ReceiverP) => conf.proto = "simplest"
  BY DEF Uniform, Proto
<1>6. ~PointFirst => ~Uniform(SenderP) /\ ~Uniform(ReceiverP)
  BY <1>5 DEF PointFirst, Proto
<1>7. QED
  BY <1>1, <1>2, <1>3, <1>4, <1>5, <1>6 DEF PointFirst, NoPoint, Agreed, Waits, Proto

LEMMA Started ==
    ASSUME BaseAssumption, BaseInit
    PROVE  IInv
<1>1. conf \in BaseConfs /\ N \in Nat \ {0}
  BY Settings DEF BaseInit
<1>2. SenderAt("start", 0) = Fresh /\ ReceiverAt("start", << >>, << >>) = Fresh
  BY DEF SenderAt, ReceiverAt, Fresh
<1>3. party = Both(SenderAt("start", 0), ReceiverAt("start", << >>, << >>)) /\ net = Both(<< >>, << >>)
  BY <1>2 DEF BaseInit, Both, EmptyNet
<1>4. SenderGood("start", 0)
  BY <1>1 DEF SenderGood
<1>5. ReceiverGood("start", << >>, << >>, 0)
  <2>1. << >> = [i \in 1..0 |-> Pending(i)]
    OBVIOUS
  <2>2. QED
    BY <1>1, <2>1 DEF ReceiverGood
<1>6. ToSenderGood("start", 0, "start", 0, << >>)
  BY <1>1, ChainEmpty DEF ToSenderGood
<1>7. ToReceiverGood("start", 0, "start", << >>)
  BY DEF ToReceiverGood, Taker, AnswerOf
<1>8. At("start", 0, "start", << >>, << >>, 0, << >>, << >>)
  BY <1>3, <1>4, <1>5, <1>6, <1>7 DEF At, Good
<1>9. QED
  BY <1>1, <1>8 DEF IInv

(* The sender's public point: nobody has taken it yet.                      *)
LEMMA StepSenderPoint ==
    ASSUME BaseAssumption, conf \in BaseConfs, NEW p, NEW l, NEW q, NEW g, NEW o, NEW n, NEW toS, NEW toR,
           At(p, l, q, g, o, n, toS, toR), SenderPoint
    PROVE  IInv'
<1> DEFINE st == SenderAt(p, l)
<1>1. /\ party = Both(st, ReceiverAt(q, g, o)) /\ net = Both(toS, toR)
      /\ SenderGood(p, l) /\ ReceiverGood(q, g, o, n) /\ ToSenderGood(p, l, q, n, toS) /\ ToReceiverGood(p, l, q, toR)
  BY DEF At, Good
<1>2. p = "start" /\ ~NoPoint /\ Goes(SenderP, [st EXCEPT !.pc = "points"], <<PublicPoint>>)
  BY <1>1, Moves DEF SenderPoint, NoPoint, PublicPoint, SenderAt
<1>3. [st EXCEPT !.pc = "points"] = SenderAt("points", l)
  BY SenderFields
<1>4. /\ conf' = conf /\ party' = Both(SenderAt("points", l), ReceiverAt(q, g, o))
      /\ net' = Both(toS, toR \o <<PublicPoint>>)
  BY <1>1, <1>2, <1>3, Moves
<1>5. l = 0 /\ N \in Nat \ {0} /\ q # "failed" /\ ~Taker(q) /\ toR = << >>
  BY <1>1, <1>2, Settings DEF SenderGood, ToSenderGood, ToReceiverGood, AnswerOf
<1>6. toR \o <<PublicPoint>> = <<PublicPoint>>
  BY <1>5
<1>7. SenderGood("points", l)
  BY <1>1, <1>2, <1>5 DEF SenderGood
<1>8. ToSenderGood("points", l, q, n, toS)
  BY <1>1, <1>2, <1>5 DEF ToSenderGood
<1>9. ToReceiverGood("points", l, q, <<PublicPoint>>)
  BY <1>1, <1>2, <1>5, Classes DEF ToReceiverGood, Taker
<1>10. Good("points", l, q, g, o, n, toS, <<PublicPoint>>)
  BY <1>1, <1>7, <1>8, <1>9 DEF Good
<1>11. QED
  BY <1>4, <1>6, <1>10, Reached

(* The next group of points: the sender has the messages of these OTs too,   *)
(* and answers when it has all.                                            *)
LEMMA StepSenderTakesPoints ==
    ASSUME BaseAssumption, conf \in BaseConfs, NEW p, NEW l, NEW q, NEW g, NEW o, NEW n, NEW toS, NEW toR,
           At(p, l, q, g, o, n, toS, toR), SenderTakesPoints
    PROVE  IInv'
<1> DEFINE st == SenderAt(p, l)
           l2 == l + GroupSize(l)
           p2 == IF l2 = N THEN "done" ELSE p
           ms == IF l2 = N THEN Answer(SenderAt(p2, l2)) ELSE << >>
<1>1. /\ party = Both(st, ReceiverAt(q, g, o)) /\ net = Both(toS, toR)
      /\ SenderGood(p, l) /\ ReceiverGood(q, g, o, n) /\ ToSenderGood(p, l, q, n, toS) /\ ToReceiverGood(p, l, q, toR)
  BY DEF At, Good
<1>2. /\ toS # << >> /\ Head(toS).kind = "points"
      /\ p = (IF NoPoint THEN "start" ELSE "points")
  <2>1. party[SenderP].pc = p
    <3>1. party[SenderP] = st
      BY <1>1, Moves
    <3>2. st.pc = p
      BY SenderFields
    <3> HIDE DEF st
    <3>3. QED
      BY <3>1, <3>2
  <2>2. /\ HasMessage(SenderP) /\ Message(SenderP).kind = "points"
        /\ party[SenderP].pc = (IF NoPoint THEN "start" ELSE "points")
    BY DEF SenderTakesPoints, NoPoint
  <2>3. QED
    BY <1>1, <2>1, <2>2, Moves
<1>3. q # "failed" /\ Chain(toS, l, n)
  BY <1>1, <1>2 DEF ToSenderGood, Closed
<1>4. /\ l \in 0..(N - 1) /\ Head(toS) = PointsFrom(l) /\ Chain(Tail(toS), l2, n)
      /\ N \in Nat \ {0} /\ n \in 0..N
  <2>1. N \in Nat \ {0}
    BY Settings
  <2>2. /\ l \in 0..N /\ n \in 0..N /\ l < N /\ Head(toS) = PointsFrom(l)
        /\ Chain(Tail(toS), l2, n)
    BY <1>2, <1>3, ChainLess
  <2>3. QED
    BY <2>1, <2>2
<1>5. GroupSize(l) \in 1..(N - l) /\ l2 \in 1..N /\ l2 - l = GroupSize(l) /\ l \in Nat /\ GroupSize(l) \in Nat
  <2>1. GroupSize(l) \in 1..(N - l)
    BY <1>4, Settings
  <2>2. QED
    BY <1>4, <2>1
<1>6. st.got \o Head(toS).points = [i \in 1..l2 |-> FirstMessage(i)]
  <2> DEFINE a == [i \in 1..l |-> FirstMessage(i)]
             b == [k \in 1..GroupSize(l) |-> FirstMessage(l + k)]
             c == [i \in 1..l2 |-> FirstMessage(i)]
  <2>1. st.got = a /\ Head(toS).points = b
    BY <1>4 DEF SenderAt, PointsFrom
  <2>2. a = [i \in 1..l |-> a[i]] /\ b = [k \in 1..GroupSize(l) |-> b[k]] /\ c = [i \in 1..l2 |-> c[i]]
    OBVIOUS
  <2>3. \A i \in 1..l : a[i] = c[i]
    BY <1>5
  <2>4. \A k \in 1..GroupSize(l) : b[k] = c[l + k]
    <3>1. \A k \in 1..GroupSize(l) : l + k \in 1..l2
      BY <1>5
    <3>2. QED
      BY <3>1
  <2> HIDE DEF a, b, c, st
  <2>5. [i \in 1..l |-> a[i]] \o [k \in 1..GroupSize(l) |-> b[k]] = [i \in 1..(l + GroupSize(l)) |-> c[i]]
    BY <1>5, <2>3, <2>4, Joined
  <2>6. QED
    BY <2>1, <2>2, <2>5 DEF c
<1>7. PICK got : got = [i \in 1..l2 |-> FirstMessage(i)]
  OBVIOUS
<1>8. Len(got) = l2 /\ Len(st.out) = l
  <2>1. Len(got) = l2
    BY <1>5, <1>7
  <2>2. Len(st.out) = l
    BY <1>5 DEF SenderAt
  <2>3. QED
    BY <2>1, <2>2
<1> DEFINE new == [k \in 1..(Len(got) - Len(st.out)) |->
                      [j \in {0, 1} |-> SenderOutput(Len(st.out) + k, got[Len(st.out) + k], j)]]
           out == [i \in 1..l2 |-> [j \in {0, 1} |-> SenderOutput(i, FirstMessage(i), j)]]
           next == [st EXCEPT !.got = got, !.out = @ \o new, !.pc = IF Len(got) = N THEN "done" ELSE @]
<1>9. st.out \o new = out
  <2> DEFINE a == [i \in 1..l |-> [j \in {0, 1} |-> SenderOutput(i, FirstMessage(i), j)]]
             b == [k \in 1..GroupSize(l) |-> [j \in {0, 1} |-> SenderOutput(l + k, FirstMessage(l + k), j)]]
  <2>1. st.out = a
    BY DEF SenderAt
  <2>2. new = b
    <3>1. \A k \in 1..GroupSize(l) : got[l + k] = FirstMessage(l + k)
      BY <1>5, <1>7
    <3>2. new = [k \in 1..GroupSize(l) |-> [j \in {0, 1} |-> SenderOutput(l + k, got[l + k], j)]]
      BY <1>5, <1>8
    <3>3. QED
      BY <3>1, <3>2
  <2>3. a = [i \in 1..l |-> a[i]] /\ b = [k \in 1..GroupSize(l) |-> b[k]] /\ out = [i \in 1..l2 |-> out[i]]
    OBVIOUS
  <2>4. \A i \in 1..l : a[i] = out[i]
    BY <1>5
  <2>5. \A k \in 1..GroupSize(l) : b[k] = out[l + k]
    <3>1. \A k \in 1..GroupSize(l) : l + k \in 1..l2
      BY <1>5
    <3>2. QED
      BY <3>1
  <2> HIDE DEF a, b, out, new, st
  <2>6. [i \in 1..l |-> a[i]] \o [k \in 1..GroupSize(l) |-> b[k]] = [i \in 1..(l + GroupSize(l)) |-> out[i]]
    BY <1>5, <2>4, <2>5, Joined
  <2>7. QED
    BY <2>1, <2>2, <2>3, <2>6
<1>10. next = SenderAt(p2, l2)
  <2> HIDE DEF new
  <2>1. next = [pc |-> IF Len(got) = N THEN "done" ELSE p, got |-> got, out |-> st.out \o new]
    <3>1. PICK a, b : st = [pc |-> p, got |-> a, out |-> b]
      BY DEF SenderAt
    <3>2. st.pc = p
      BY SenderFields
    <3>3. PICK c : c = st.out \o new
      OBVIOUS
    <3>4. next = [st EXCEPT !.got = got, !.out = c, !.pc = IF Len(got) = N THEN "done" ELSE p]
      BY <3>2, <3>3
    <3> HIDE DEF st, next
    <3>5. QED
      BY <3>1, <3>3, <3>4, Fields
  <2>2. next = [pc |-> p2, got |-> got, out |-> out]
    BY <1>8, <1>9, <2>1
  <2>3. QED
    BY <1>7, <2>2 DEF SenderAt
<1>11. Takes(SenderP, next, IF next.pc = "done" THEN Answer(next) ELSE << >>)
  <2>1. st.got \o Head(toS).points = got
    BY <1>6, <1>7
  <2>2. party[SenderP] = st /\ Message(SenderP) = Head(toS)
    BY <1>1, Moves
  <2> DEFINE After(s, points) ==
               [s EXCEPT !.got = points,
                         !.out = @ \o [k \in 1..(Len(points) - Len(s.out)) |->
                                        [j \in {0, 1} |-> SenderOutput(Len(s.out) + k, points[Len(s.out) + k], j)]],
                         !.pc = IF Len(points) = N THEN "done" ELSE @]
             Sends(x) == Takes(SenderP, x, IF x.pc = "done" THEN Answer(x) ELSE << >>)
  <2>3. Sends(After(party[SenderP], party[SenderP].got \o Message(SenderP).points))
    BY DEF SenderTakesPoints
  <2>4. After(st, got) = next
    OBVIOUS
  <2> HIDE DEF st, next, After, Sends
  <2>5. Sends(next)
    BY <2>1, <2>2, <2>3, <2>4
  <2>6. QED
    BY <2>5 DEF Sends
<1> HIDE DEF new, next, st, out
<1>12. next.pc = "done" <=> l2 = N
  <2>1. next.pc = p2
    BY <1>10 DEF SenderAt
  <2>2. p # "done"
    BY <1>2
  <2>3. QED
    BY <2>1, <2>2
<1>13. Takes(SenderP, SenderAt(p2, l2), ms)
  BY <1>10, <1>11, <1>12
<1>14. /\ conf' = conf /\ party' = Both(SenderAt(p2, l2), ReceiverAt(q, g, o))
       /\ net' = Both(Tail(toS), toR \o ms)
  BY <1>1, <1>13, Moves
<1>15. NoPoint => l2 = N
  <2>1. NoPoint => l = 0
    BY <1>1, <1>2 DEF SenderGood
  <2>2. QED
    BY <1>4, <2>1, Classes
<1>16. SenderGood(p2, l2)
  BY <1>2, <1>4, <1>5, <1>15 DEF SenderGood
<1>17. ~(q = "start" /\ PointFirst)
  BY <1>1, <1>2 DEF ToSenderGood
<1>18. ToSenderGood(p2, l2, q, n, Tail(toS))
  <2>1. p2 # "failed"
    BY <1>2
  <2>2. QED
    BY <1>3, <1>4, <1>17, <2>1 DEF ToSenderGood
<1>19. ToReceiverGood(p2, l2, q, toR \o ms)
  <2>1. /\ ~NoPoint /\ Taker(q) => p2 # "start"
        /\ q = "done" /\ (Uniform(SenderP) \/ Proto({"kyber"})) => p2 = "done"
    BY <1>1, <1>2 DEF ToReceiverGood
  <2>2. q = "done" => ms = << >>
    BY <1>1, <1>2, Classes DEF ToReceiverGood
  <2>3. CASE ~NoPoint /\ ~Taker(q)
    <3>1. toR = <<PublicPoint>>
      BY <1>1, <1>2, <2>3 DEF ToReceiverGood
    <3>2. ~PointFirst
      BY <1>17, <2>3 DEF Taker
    <3>3. ms = << >>
      BY <2>3, <3>2, Classes
    <3>4. p2 # "start"
      BY <1>2, <2>3
    <3> HIDE DEF p2, ms
    <3>5. QED
      BY <2>1, <2>3, <3>1, <3>3, <3>4 DEF ToReceiverGood
  <2>4. CASE NoPoint \/ Taker(q)
    <3>1. toR = << >>
      BY <1>1, <1>2, <2>4 DEF ToReceiverGood, AnswerOf
    <3>2. ms = AnswerOf(p2, l2, q)
      <4>1. p2 = "done" <=> l2 = N
        BY <1>2
      <4> HIDE DEF p2
      <4>2. QED
        BY <1>3, <2>2, <4>1 DEF AnswerOf
    <3>3. toR \o ms = ms
      <4>1. AnswerOf(p2, l2, q) = << >> \/ \E m : AnswerOf(p2, l2, q) = <<m>>
        <5>1. PICK s : s = SenderAt(p2, l2)
          OBVIOUS
        <5>2. Answer(s) = << >> \/ \E m : Answer(s) = <<m>>
          <6>1. Answer(s) = Opening \/ Answer(s) = Ciphertexts(s) \/ Answer(s) = << >>
            BY DEF Answer
          <6>2. \E m : Opening = <<m>>
            BY DEF Opening
          <6>3. \E m : Ciphertexts(s) = <<m>>
            BY Zenon DEF Ciphertexts
          <6>4. QED
            BY <6>1, <6>2, <6>3
        <5> HIDE DEF p2, l2
        <5>3. QED
          BY <5>1, <5>2 DEF AnswerOf
      <4> HIDE DEF p2, ms
      <4>2. QED
        BY <3>1, <3>2, <4>1, OneMessage
    <3> HIDE DEF p2, ms
    <3>4. QED
      BY <2>1, <2>4, <3>2, <3>3 DEF ToReceiverGood
  <2>5. QED
    BY <2>3, <2>4
<1>20. Good(p2, l2, q, g, o, n, Tail(toS), toR \o ms)
  BY <1>1, <1>16, <1>18, <1>19 DEF Good
<1> HIDE DEF p2, l2, ms
<1>21. QED
  BY <1>14, <1>20, Reached

(* Only a receiver that was not asked what it expects closes the socket on a *)
(* sender that is still waiting.                                           *)
LEMMA StepSenderSeesClosed ==
    ASSUME BaseAssumption, conf \in BaseConfs, NEW p, NEW l, NEW q, NEW g, NEW o, NEW n, NEW toS, NEW toR,
           At(p, l, q, g, o, n, toS, toR), SenderSeesClosed
    PROVE  IInv'
<1> DEFINE st == SenderAt(p, l)
<1>1. /\ party = Both(st, ReceiverAt(q, g, o)) /\ net = Both(toS, toR)
      /\ SenderGood(p, l) /\ ReceiverGood(q, g, o, n) /\ ToSenderGood(p, l, q, n, toS) /\ ToReceiverGood(p, l, q, toR)
  BY DEF At, Good
<1>2. /\ p = "points" /\ toS # << >> /\ Head(toS).kind = "closed"
      /\ Takes(SenderP, [st EXCEPT !.pc = "failed"], << >>)
  BY <1>1, Moves DEF SenderSeesClosed, SenderAt
<1>3. q = "failed"
  <2>1. SUFFICES ASSUME Chain(toS, l, n) PROVE FALSE
    BY <1>1 DEF ToSenderGood
  <2>2. Head(toS) = PointsFrom(l)
    BY <1>2, <2>1, ChainLess
  <2>3. QED
    BY <1>2, <2>2 DEF PointsFrom
<1>4. ~Agreed /\ l = 0 /\ toS = Closed
  BY <1>1, <1>2, <1>3 DEF ToSenderGood
<1>5. PointFirst /\ N \in Nat \ {0} /\ ~NoPoint
  BY <1>1, <1>3, Settings, Classes DEF ReceiverGood
<1>6. toR = << >>
  BY <1>1, <1>3, <1>5 DEF ToReceiverGood, Taker, AnswerOf
<1>7. Tail(toS) = << >> /\ toR \o << >> = << >>
  BY <1>4, <1>6 DEF Closed
<1>8. [st EXCEPT !.pc = "failed"] = SenderAt("failed", l)
  BY SenderFields
<1>9. /\ conf' = conf /\ party' = Both(SenderAt("failed", l), ReceiverAt(q, g, o))
      /\ net' = Both(<< >>, << >>)
  <2>1. PICK st2 : st2 = SenderAt("failed", l)
    OBVIOUS
  <2>2. Takes(SenderP, st2, << >>)
    BY <1>2, <1>8, <2>1
  <2> HIDE DEF st
  <2>3. conf' = conf /\ party' = Both(st2, ReceiverAt(q, g, o)) /\ net' = Both(Tail(toS), toR \o << >>)
    <3>1. PICK st1, b, ms : st1 = SenderAt(p, l) /\ b = ReceiverAt(q, g, o) /\ ms = << >>
      OBVIOUS
    <3>2. party = Both(st1, b) /\ net = Both(toS, toR) /\ Takes(SenderP, st2, ms)
      BY <1>1, <2>2, <3>1 DEF st
    <3>3. conf' = conf /\ party' = Both(st2, b) /\ net' = Both(Tail(toS), toR \o ms)
      BY <3>2, Moves
    <3>4. QED
      BY <3>1, <3>3
  <2>4. QED
    BY <1>7, <2>1, <2>3
<1>10. SenderGood("failed", l)
  BY <1>4, <1>5 DEF SenderGood
<1>11. ToSenderGood("failed", l, q, n, << >>)
  BY <1>3, <1>4 DEF ToSenderGood
<1>12. ToReceiverGood("failed", l, q, << >>)
  BY <1>3, <1>5 DEF ToReceiverGood, Taker, AnswerOf
<1>13. Good("failed", l, q, g, o, n, << >>, << >>)
  BY <1>1, <1>10, <1>11, <1>12 DEF Good
<1>14. QED
  BY <1>9, <1>13, Reached

(* The receiver of SimplestOT and its variant has the public point, and goes *)
(* on when it comes as it expects.                                         *)
LEMMA StepReceiverTakesPoint ==
    ASSUME BaseAssumption, conf \in BaseConfs, NEW p, NEW l, NEW q, NEW g, NEW o, NEW n, NEW toS, NEW toR,
           At(p, l, q, g, o, n, toS, toR), ReceiverTakesPoint
    PROVE  IInv'
<1> DEFINE r == ReceiverAt(q, g, o)
<1>1. /\ party = Both(SenderAt(p, l), r) /\ net = Both(toS, toR)
      /\ SenderGood(p, l) /\ ReceiverGood(q, g, o, n) /\ ToSenderGood(p, l, q, n, toS) /\ ToReceiverGood(p, l, q, toR)
  BY DEF At, Good
<1>2. r.pc = q /\ r.got = g /\ r.out = o /\ N \in Nat \ {0}
  BY Settings DEF ReceiverAt
<1>3. PointFirst /\ q = "start" /\ toR # << >>
  BY <1>1, <1>2, Moves DEF ReceiverTakesPoint, PointFirst
<1>4. ~NoPoint /\ n = 0 /\ l = 0 /\ toS = << >>
  BY <1>1, <1>3, Classes DEF ToSenderGood
<1>5. p # "start" /\ toR = <<PublicPoint>>
  <2>1. p # "done"
    BY <1>1, <1>2, <1>4 DEF SenderGood
  <2>2. QED
    BY <1>1, <1>3, <1>4, <2>1 DEF ToReceiverGood, AnswerOf, Taker
<1>6. p = "points"
  BY <1>1, <1>2, <1>3, <1>4, <1>5 DEF SenderGood, ToSenderGood
<1>7. /\ Message(ReceiverP) = PublicPoint
      /\ PublicPoint.committed = Uniform(SenderP) /\ PublicPoint.commit = 1 /\ Tail(toR) = << >>
  BY <1>1, <1>5, Moves DEF PublicPoint
<1>8. ASSUME Agreed PROVE IInv'
  <2> DEFINE r2 == ReceiverAt("groups", <<1>>, o)
  <2>1. Takes(ReceiverP, [r EXCEPT !.pc = "groups", !.got = <<1>>], << >>)
    BY <1>1, <1>7, <1>8, Moves DEF ReceiverTakesPoint, Agreed
  <2>2. [r EXCEPT !.pc = "groups", !.got = <<1>>] = r2
    <3>1. PICK one, groups : one = <<1>> /\ groups = "groups"
      OBVIOUS
    <3>2. PICK s : s = r /\ s = [pc |-> q, got |-> g, out |-> o]
      BY DEF ReceiverAt
    <3>3. [s EXCEPT !.pc = groups, !.got = one] = [pc |-> groups, got |-> one, out |-> o]
      <4>1. PICK t : t = [s EXCEPT !.pc = groups, !.got = one]
        OBVIOUS
      <4>2. DOMAIN t = {"pc", "got", "out"} /\ t = [k \in DOMAIN t |-> t[k]]
        BY <3>2, <4>1
      <4>3. t["pc"] = groups /\ t["got"] = one /\ t["out"] = o
        BY <3>2, <4>1
      <4>4. QED
        BY <4>1, <4>2, <4>3
    <3>4. r2 = [pc |-> groups, got |-> one, out |-> o]
      BY <3>1 DEF ReceiverAt
    <3> HIDE DEF r, r2
    <3>5. QED
      BY <3>1, <3>2, <3>3, <3>4
  <2>3. conf' = conf /\ party' = Both(SenderAt(p, l), r2) /\ net' = Both(toS, << >>)
    <3>1. PICK a, b, st, ms : a = SenderAt(p, l) /\ b = r /\ st = r2 /\ ms = << >>
      OBVIOUS
    <3> HIDE DEF r, r2
    <3>2. party = Both(a, b) /\ net = Both(toS, toR) /\ Takes(ReceiverP, st, ms)
      BY <1>1, <2>1, <2>2, <3>1
    <3>3. conf' = conf /\ party' = Both(a, st) /\ net' = Both(toS \o ms, Tail(toR))
      BY <3>2, Moves
    <3>4. toS \o ms = toS
      BY <1>4, <3>1
    <3>5. QED
      BY <1>7, <3>1, <3>3, <3>4
  <2>4. ReceiverGood("groups", <<1>>, o, n)
    BY <1>1, <1>2, <1>3, <1>4, <1>8 DEF ReceiverGood
  <2>5. ToSenderGood(p, l, "groups", n, toS)
    BY <1>1, <1>3 DEF ToSenderGood
  <2>6. ToReceiverGood(p, l, "groups", << >>)
    BY <1>3, <1>6 DEF ToReceiverGood, Taker, AnswerOf
  <2>7. Good(p, l, "groups", <<1>>, o, n, toS, << >>)
    BY <1>1, <2>4, <2>5, <2>6 DEF Good
  <2>8. QED
    BY <2>3, <2>7, Reached
<1>9. ASSUME ~Agreed PROVE IInv'
  <2> DEFINE r2 == ReceiverAt("failed", g, o)
  <2>1. Takes(ReceiverP, [r EXCEPT !.pc = "failed"], Closed)
    BY <1>1, <1>7, <1>9, Moves DEF ReceiverTakesPoint, Agreed
  <2>2. [r EXCEPT !.pc = "failed"] = r2
    <3>1. PICK s : s = r /\ s = [pc |-> q, got |-> g, out |-> o]
      BY DEF ReceiverAt
    <3> HIDE DEF r
    <3>2. QED
      BY <3>1 DEF ReceiverAt
  <2>3. conf' = conf /\ party' = Both(SenderAt(p, l), r2) /\ net' = Both(Closed, << >>)
    <3>1. PICK a, b, st, ms : a = SenderAt(p, l) /\ b = r /\ st = r2 /\ ms = Closed
      OBVIOUS
    <3> HIDE DEF r, r2
    <3>2. party = Both(a, b) /\ net = Both(toS, toR) /\ Takes(ReceiverP, st, ms)
      BY <1>1, <2>1, <2>2, <3>1
    <3>3. conf' = conf /\ party' = Both(a, st) /\ net' = Both(toS \o ms, Tail(toR))
      BY <3>2, Moves
    <3>4. toS \o ms = ms
      BY <1>4, <3>1 DEF Closed
    <3>5. QED
      BY <1>7, <3>1, <3>3, <3>4
  <2>4. ReceiverGood("failed", g, o, n)
    BY <1>1, <1>3 DEF ReceiverGood
  <2>5. ToSenderGood(p, l, "failed", n, Closed)
    BY <1>4, <1>6, <1>9 DEF ToSenderGood
  <2>6. ToReceiverGood(p, l, "failed", << >>)
    BY <1>3, <1>6 DEF ToReceiverGood, Taker, AnswerOf
  <2>7. Good(p, l, "failed", g, o, n, Closed, << >>)
    BY <1>1, <2>4, <2>5, <2>6 DEF Good
  <2>8. QED
    BY <2>3, <2>7, Reached
<1>10. QED
  BY <1>8, <1>9

(* The receiver's next group; without an answer to wait for it has the      *)
(* messages of the group at once.                                          *)
LEMMA StepReceiverSends ==
    ASSUME BaseAssumption, conf \in BaseConfs, NEW p, NEW l, NEW q, NEW g, NEW o, NEW n, NEW toS, NEW toR,
           At(p, l, q, g, o, n, toS, toR), ReceiverSends
    PROVE  IInv'
<1> DEFINE r == ReceiverAt(q, g, o)
           n2 == n + GroupSize(n)
           group == Group(n)
           more == [k \in DOMAIN group |-> IF Waits THEN Msg(Zero, 0, 0, Zero) ELSE ReceiverOutput(group[k], NoAnswer)]
           q2 == IF n2 < N THEN q ELSE IF Waits THEN "answer" ELSE "done"
           points == [k \in DOMAIN group |-> FirstMessage(group[k])]
           o2 == [i \in 1..n2 |-> Pending(i)]
<1>1. /\ party = Both(SenderAt(p, l), r) /\ net = Both(toS, toR)
      /\ SenderGood(p, l) /\ ReceiverGood(q, g, o, n) /\ ToSenderGood(p, l, q, n, toS) /\ ToReceiverGood(p, l, q, toR)
  BY DEF At, Good
<1>2. r.pc = q /\ r.got = g /\ r.out = o /\ N \in Nat \ {0}
  BY Settings DEF ReceiverAt
<1>3. q = (IF PointFirst THEN "groups" ELSE "start")
  <2>1. party[ReceiverP].pc = q
    BY <1>1, <1>2, Moves
  <2>2. QED
    BY <2>1 DEF ReceiverSends, PointFirst
<1>4. /\ n \in 0..(N - 1) /\ o = [i \in 1..n |-> Pending(i)] /\ p # "failed" /\ Chain(toS, l, n)
  BY <1>1, <1>2, <1>3 DEF ReceiverGood, ToSenderGood
<1>5. GroupSize(n) \in 1..(N - n) /\ n2 \in 1..N /\ n \in Nat /\ GroupSize(n) \in Nat
  <2>1. GroupSize(n) \in 1..(N - n)
    BY <1>4, Settings
  <2>2. QED
    BY <1>2, <1>4, <2>1
<1>6. Len(o) = n
  BY <1>4, <1>5
<1>7. /\ DOMAIN group = 1..GroupSize(n) /\ Len(group) = GroupSize(n)
      /\ \A k \in 1..GroupSize(n) : group[k] = n + k
  BY <1>5 DEF Group
<1>8. points = [k \in 1..GroupSize(n) |-> FirstMessage(n + k)]
  <2> HIDE DEF group
  <2>1. QED
    BY <1>7
<1>9. o \o more = o2
  <2> DEFINE b == [k \in 1..GroupSize(n) |-> Pending(n + k)]
  <2>1. more = b
    <3> HIDE DEF group
    <3>1. QED
      BY <1>7 DEF Pending
  <2>2. o = [i \in 1..n |-> o[i]] /\ b = [k \in 1..GroupSize(n) |-> b[k]] /\ o2 = [i \in 1..n2 |-> o2[i]]
    BY <1>4
  <2>3. \A i \in 1..n : o[i] = o2[i]
    BY <1>4, <1>5
  <2>4. \A k \in 1..GroupSize(n) : b[k] = o2[n + k]
    <3>1. \A k \in 1..GroupSize(n) : n + k \in 1..n2
      BY <1>5
    <3>2. QED
      BY <3>1
  <2> HIDE DEF b, o2, more
  <2>5. [i \in 1..n |-> o[i]] \o [k \in 1..GroupSize(n) |-> b[k]] = [i \in 1..(n + GroupSize(n)) |-> o2[i]]
    BY <1>5, <2>3, <2>4, Joined
  <2>6. QED
    BY <2>1, <2>2, <2>5
<1> DEFINE next == [r EXCEPT !.out = o2, !.pc = q2]
<1>10. Goes(ReceiverP, next, <<PointsFrom(n)>>)
  <2>1. party[ReceiverP] = r
    BY <1>1, Moves
  <2>2. n + Len(group) = n2
    BY <1>7
  <2> HIDE DEF r, group
  <2>3. Goes(ReceiverP, [r EXCEPT !.out = r.out \o more,
                                  !.pc = IF n + Len(group) < N THEN r.pc ELSE IF Waits THEN "answer" ELSE "done"],
             <<[kind |-> "points", points |-> points]>>)
    BY <1>2, <1>6, <2>1 DEF ReceiverSends, group
  <2> HIDE DEF more, points
  <2>4. r.out \o more = o2
    BY <1>2, <1>9
  <2>5. (IF n + Len(group) < N THEN r.pc ELSE IF Waits THEN "answer" ELSE "done") = q2
    BY <1>2, <2>2
  <2> HIDE DEF o2, n2, q2
  <2>6. Goes(ReceiverP, next, <<[kind |-> "points", points |-> points]>>)
    BY <2>3, <2>4, <2>5
  <2>7. QED
    BY <1>8, <2>6 DEF PointsFrom
<1>11. next = ReceiverAt(q2, g, o2)
  <2>1. PICK s, x, y : s = r /\ s = [pc |-> q, got |-> g, out |-> o] /\ x = q2 /\ y = o2
    BY DEF ReceiverAt
  <2>2. [s EXCEPT !.out = y, !.pc = x] = [pc |-> x, got |-> g, out |-> y]
    <3>1. PICK t : t = [s EXCEPT !.out = y, !.pc = x]
      OBVIOUS
    <3>2. DOMAIN t = {"pc", "got", "out"} /\ t = [k \in DOMAIN t |-> t[k]]
      BY <2>1, <3>1
    <3>3. t["pc"] = x /\ t["got"] = g /\ t["out"] = y
      BY <2>1, <3>1
    <3>4. QED
      BY <3>1, <3>2, <3>3
  <2> HIDE DEF r, o2, n2, q2
  <2>3. QED
    BY <2>1, <2>2 DEF ReceiverAt
<1> HIDE DEF group, more, points, next
<1>12. conf' = conf /\ party' = Both(SenderAt(p, l), ReceiverAt(q2, g, o2)) /\ net' = Both(toS \o <<PointsFrom(n)>>, toR)
  <2>1. PICK a, b, st, ms : a = SenderAt(p, l) /\ b = r /\ st = next /\ ms = <<PointsFrom(n)>>
    OBVIOUS
  <2> HIDE DEF r
  <2>2. party = Both(a, b) /\ net = Both(toS, toR) /\ Goes(ReceiverP, st, ms)
    BY <1>1, <1>10, <2>1
  <2>3. conf' = conf /\ party' = Both(a, st) /\ net' = Both(toS \o ms, toR)
    BY <2>2, Moves
  <2> HIDE DEF q2, o2
  <2>4. QED
    BY <1>11, <2>1, <2>3
<1>13. Chain(toS \o <<PointsFrom(n)>>, l, n2)
  BY <1>2, <1>4, <1>5, ChainMore
<1>14. Agreed /\ (PointFirst => g = <<1>>)
  BY <1>1, <1>3, Classes DEF ReceiverGood
<1>15. n2 < N \/ (n2 = N /\ ~(n2 < N))
  BY <1>2, <1>5
<1>16. ReceiverGood(q2, g, o2, n2)
  <2>1. CASE n2 < N
    BY <1>3, <1>5, <1>14, <2>1 DEF ReceiverGood
  <2>2. CASE n2 = N /\ Waits
    BY <1>5, <1>14, <2>2 DEF ReceiverGood
  <2>3. CASE n2 = N /\ ~Waits
    <3>1. Uniform(ReceiverP) = FALSE /\ Uniform(SenderP) = FALSE /\ ~Proto({"kyber"}) /\ ~Proto({"twist"})
      <4>1. ~Uniform(ReceiverP) /\ ~Proto({"kyber"}) /\ ~Proto({"twist"})
        BY <2>3 DEF Waits, Proto
      <4>2. QED
        BY <1>14, <4>1, Classes DEF Agreed
    <3>2. Answers(NoAnswer)
      BY <3>1 DEF Answers
    <3>3. o2 = [i \in 1..N |-> ReceiverOutput(i, NoAnswer)]
      BY <2>3 DEF Pending
    <3>4. ~Lying
      BY <3>1 DEF Lying
    <3>5. q2 = "done"
      BY <1>2, <2>3
    <3> HIDE DEF q2, o2
    <3>6. QED
      BY <1>5, <1>14, <2>3, <3>2, <3>3, <3>4, <3>5 DEF ReceiverGood
  <2>4. QED
    BY <1>15, <2>1, <2>2, <2>3
<1>17. ToSenderGood(p, l, q2, n2, toS \o <<PointsFrom(n)>>)
  <2>1. q2 # "failed" /\ ~(q2 = "start" /\ PointFirst)
    BY <1>3
  <2> HIDE DEF q2, n2
  <2>2. QED
    BY <1>4, <1>13, <2>1 DEF ToSenderGood
<1>18. ToReceiverGood(p, l, q2, toR)
  <2>1. CASE q2 = q
    BY <1>1, <2>1 DEF ToReceiverGood, Taker, AnswerOf
  <2>2. CASE q2 = "answer"
    <3>1. Taker(q2) = Taker(q) /\ AnswerOf(p, l, q2) = AnswerOf(p, l, q)
      BY <1>3, <2>2 DEF Taker, AnswerOf
    <3>2. QED
      BY <1>1, <2>2, <3>1 DEF ToReceiverGood
  <2>3. CASE q2 = "done" /\ ~Waits
    <3>1. Uniform(ReceiverP) = FALSE /\ Uniform(SenderP) = FALSE /\ ~Proto({"kyber"})
      <4>1. ~Uniform(ReceiverP) /\ ~Proto({"kyber"})
        BY <2>3 DEF Waits, Proto
      <4>2. QED
        BY <1>14, <4>1, Classes DEF Agreed
    <3>2. Answer(SenderAt(p, l)) = << >>
      BY <3>1, Classes
    <3>3. AnswerOf(p, l, q) = << >> /\ AnswerOf(p, l, q2) = << >>
      BY <3>2 DEF AnswerOf
    <3>4. PointFirst \/ NoPoint
      BY <2>3, Classes DEF NoPoint, Proto
    <3>5. PointFirst => Taker(q) /\ Taker(q2)
      BY <1>3, <2>3 DEF Taker
    <3>6. QED
      BY <1>1, <2>3, <3>1, <3>3, <3>4, <3>5 DEF ToReceiverGood
  <2>4. QED
    BY <2>1, <2>2, <2>3
<1>19. Good(p, l, q2, g, o2, n2, toS \o <<PointsFrom(n)>>, toR)
  BY <1>1, <1>16, <1>17, <1>18 DEF Good
<1> HIDE DEF q2, o2, n2
<1>20. QED
  BY <1>12, <1>19, Reached

(* What a receiver that waits for an answer finds: the sender's points,      *)
(* ciphertexts, or the opening of the commitment.                          *)
LEMMA AnswerIs ==
    ASSUME BaseAssumption, conf \in BaseConfs, NEW p, NEW l, SenderGood(p, l), NEW toR,
           ToReceiverGood(p, l, "answer", toR), toR # << >>, Waits, Agreed
    PROVE  \E m :
              /\ toR = <<m>> /\ (~NoPoint => p # "start")
              /\ Uniform(SenderP) \/ Proto({"kyber"}) => p = "done"
              /\ \/ m.kind # "seed" /\ ~Uniform(SenderP) /\ Answers(m)
                 \/ /\ m.kind = "seed" /\ Uniform(SenderP) /\ p = "done"
                    /\ m.seed = IF conf.lies THEN 2 ELSE 1
<1>1. CASE ~PointFirst /\ ~NoPoint
  <2>1. p # "start" /\ toR = <<PublicPoint>>
    BY <1>1 DEF ToReceiverGood, Taker, AnswerOf
  <2>2. ~Uniform(SenderP) /\ ~Proto({"kyber"}) /\ ~Proto({"simplest"})
    BY <1>1, Classes DEF PointFirst, Proto
  <2>3. PublicPoint.kind = "A" /\ PublicPoint.points = [c \in {0, 1} |-> BySender(Generator(c))]
    BY DEF PublicPoint
  <2>4. Answers(PublicPoint)
    BY <2>2, <2>3 DEF Answers
  <2>5. QED
    BY <2>1, <2>2, <2>3, <2>4
<1>2. CASE PointFirst \/ NoPoint
  <2>1. p = "done" /\ toR = Answer(SenderAt(p, l))
    <3>1. Taker("answer") \/ NoPoint
      BY <1>2 DEF Taker
    <3>2. QED
      BY <3>1 DEF ToReceiverGood, AnswerOf
  <2>2. l = N
    BY <2>1 DEF SenderGood
  <2>3. CASE Uniform(SenderP)
    <3>0. PICK e : e = IF conf.lies THEN 2 ELSE 1
      OBVIOUS
    <3>1. PICK m : m = [kind |-> "seed", seed |-> e]
      OBVIOUS
    <3>2. toR = <<m>>
      <4>1. Answer(SenderAt(p, l)) = Opening
        BY <2>3, Classes DEF Answer
      <4>2. Opening = <<m>>
        <5>1. CASE conf.lies
          BY <3>0, <3>1, <5>1 DEF Opening
        <5>2. CASE ~conf.lies
          BY <3>0, <3>1, <5>2 DEF Opening
        <5>3. QED
          BY <5>1, <5>2
      <4>3. QED
        BY <2>1, <4>1, <4>2
    <3>3. m.kind = "seed" /\ m.seed = IF conf.lies THEN 2 ELSE 1
      BY <3>0, <3>1
    <3>4. QED
      BY <2>1, <2>3, <3>2, <3>3
  <2>4. CASE ~Uniform(SenderP)
    <3>1. Proto({"kyber"})
      BY <2>1, <2>4, Classes
    <3>2. PICK c : c = [i \in 1..N |-> [j \in {0, 1} |->
                          [key |-> PairKey(SenderAt(p, l).got[i], j),
                           plain |-> SenderOutput(i, SenderAt(p, l).got[i], j)]]]
      OBVIOUS
    <3>3. PICK m : m = [kind |-> "ctxts", ctxts |-> c]
      OBVIOUS
    <3>4. toR = <<m>>
      BY <2>1, <2>4, <3>1, <3>2, <3>3 DEF Answer, Ciphertexts
    <3>5. \A i \in 1..N : SenderAt(p, l).got[i] = FirstMessage(i)
      BY <2>2 DEF SenderAt
    <3>6. \A i \in 1..N : \A j \in {0, 1} :
             c[i][j] = [key |-> PairKey(FirstMessage(i), j), plain |-> SenderOutput(i, FirstMessage(i), j)]
      BY <3>2, <3>5
    <3>7. m.kind = "ctxts" /\ m.ctxts = c
      BY <3>3
    <3>8. ~Proto({"simplest"}) /\ ~Proto({"twist"})
      BY <3>1 DEF Proto
    <3>9. Answers(m)
      BY <3>6, <3>7, <3>8 DEF Answers
    <3>10. QED
      BY <2>1, <2>4, <3>4, <3>7, <3>9
  <2>5. QED
    BY <2>3, <2>4
<1>3. QED
  BY <1>1, <1>2

(* The answer: the receiver has its messages, or finds the commitment opened *)
(* to another seed.                                                        *)
LEMMA StepReceiverTakesAnswer ==
    ASSUME BaseAssumption, conf \in BaseConfs, NEW p, NEW l, NEW q, NEW g, NEW o, NEW n, NEW toS, NEW toR,
           At(p, l, q, g, o, n, toS, toR), ReceiverTakesAnswer
    PROVE  IInv'
<1> DEFINE r == ReceiverAt(q, g, o)
<1>1. /\ party = Both(SenderAt(p, l), r) /\ net = Both(toS, toR)
      /\ SenderGood(p, l) /\ ReceiverGood(q, g, o, n) /\ ToSenderGood(p, l, q, n, toS) /\ ToReceiverGood(p, l, q, toR)
  BY DEF At, Good
<1>2. r.pc = q /\ r.got = g /\ r.out = o /\ N \in Nat \ {0}
  BY Settings DEF ReceiverAt
<1>3. q = "answer" /\ toR # << >>
  BY <1>1, <1>2, Moves DEF ReceiverTakesAnswer
<1>4. n = N /\ Waits /\ Agreed /\ (PointFirst => g = <<1>>) /\ Chain(toS, l, n) /\ p # "failed"
  BY <1>1, <1>3 DEF ReceiverGood, ToSenderGood
<1>5. PICK m : /\ toR = <<m>> /\ (~NoPoint => p # "start")
               /\ Uniform(SenderP) \/ Proto({"kyber"}) => p = "done"
               /\ \/ m.kind # "seed" /\ ~Uniform(SenderP) /\ Answers(m)
                  \/ /\ m.kind = "seed" /\ Uniform(SenderP) /\ p = "done"
                     /\ m.seed = IF conf.lies THEN 2 ELSE 1
  <2>1. ToReceiverGood(p, l, "answer", toR)
    BY <1>1, <1>3
  <2>2. QED
    BY <1>1, <1>3, <1>4, <2>1, AnswerIs
<1>6. Head(toR) = m /\ Tail(toR) = << >> /\ Message(ReceiverP) = m /\ party[ReceiverP] = r
  BY <1>1, <1>5, Moves
<1>7. m.kind = "seed" => Decommits(g[1], m) = ~conf.lies /\ PointFirst /\ g[1] = 1
  BY <1>4, <1>5, Classes DEF Decommits
<1> DEFINE outs == [i \in 1..N |-> ReceiverOutput(i, m)]
<1>8. IF m.kind = "seed" /\ ~Decommits(g[1], m)
        THEN Takes(ReceiverP, [r EXCEPT !.pc = "failed"], Closed)
        ELSE Takes(ReceiverP, [r EXCEPT !.pc = "done", !.out = outs], << >>)
  <2> HIDE DEF r
  <2>1. QED
    BY <1>2, <1>6 DEF ReceiverTakesAnswer
<1>9. ASSUME m.kind = "seed", ~Decommits(g[1], m) PROVE IInv'
  <2> DEFINE r2 == ReceiverAt("failed", g, o)
  <2>1. Takes(ReceiverP, [r EXCEPT !.pc = "failed"], Closed)
    BY <1>8, <1>9
  <2>2. [r EXCEPT !.pc = "failed"] = r2
    <3>1. PICK s : s = r /\ s = [pc |-> q, got |-> g, out |-> o]
      BY DEF ReceiverAt
    <3> HIDE DEF r
    <3>2. QED
      BY <3>1 DEF ReceiverAt
  <2>3. Uniform(SenderP) /\ p = "done" /\ conf.lies /\ PointFirst
    BY <1>5, <1>7, <1>9
  <2>4. toS = << >>
    <3>1. l = N
      BY <1>1, <2>3 DEF SenderGood
    <3>2. ~(l < N)
      BY <1>2, <3>1
    <3>3. QED
      BY <1>4, <3>2, ChainLess
  <2>5. conf' = conf /\ party' = Both(SenderAt(p, l), r2) /\ net' = Both(Closed, << >>)
    <3>1. PICK a, b, st, ms : a = SenderAt(p, l) /\ b = r /\ st = r2 /\ ms = Closed
      OBVIOUS
    <3> HIDE DEF r, r2
    <3>2. party = Both(a, b) /\ net = Both(toS, toR) /\ Takes(ReceiverP, st, ms)
      BY <1>1, <2>1, <2>2, <3>1
    <3>3. conf' = conf /\ party' = Both(a, st) /\ net' = Both(toS \o ms, Tail(toR))
      BY <3>2, Moves
    <3>4. toS \o ms = ms
      BY <2>4, <3>1 DEF Closed
    <3>5. QED
      BY <1>6, <3>1, <3>3, <3>4
  <2>6. ReceiverGood("failed", g, o, n)
    BY <1>1, <2>3 DEF ReceiverGood
  <2>7. ToSenderGood(p, l, "failed", n, Closed)
    BY <1>4, <2>3 DEF ToSenderGood, Lying
  <2>8. ToReceiverGood(p, l, "failed", << >>)
    BY <2>3 DEF ToReceiverGood, Taker, AnswerOf
  <2>9. Good(p, l, "failed", g, o, n, Closed, << >>)
    BY <1>1, <2>6, <2>7, <2>8 DEF Good
  <2>10. QED
    BY <2>5, <2>9, Reached
<1>10. ASSUME ~(m.kind = "seed" /\ ~Decommits(g[1], m)) PROVE IInv'
  <2> DEFINE r2 == ReceiverAt("done", g, outs)
  <2>1. Takes(ReceiverP, [r EXCEPT !.pc = "done", !.out = outs], << >>)
    BY <1>8, <1>10
  <2>2. [r EXCEPT !.pc = "done", !.out = outs] = r2
    <3>1. PICK s, x, y : s = r /\ s = [pc |-> q, got |-> g, out |-> o] /\ x = "done" /\ y = outs
      BY DEF ReceiverAt
    <3>2. [s EXCEPT !.pc = x, !.out = y] = [pc |-> x, got |-> g, out |-> y]
      <4>1. PICK t : t = [s EXCEPT !.pc = x, !.out = y]
        OBVIOUS
      <4>2. DOMAIN t = {"pc", "got", "out"} /\ t = [k \in DOMAIN t |-> t[k]]
        BY <3>1, <4>1
      <4>3. t["pc"] = x /\ t["got"] = g /\ t["out"] = y
        BY <3>1, <4>1
      <4>4. QED
        BY <4>1, <4>2, <4>3
    <3> HIDE DEF r, outs
    <3>3. QED
      BY <3>1, <3>2 DEF ReceiverAt
  <2>3. Answers(m) /\ ~Lying
    <3>1. CASE m.kind = "seed"
      <4>1. ~conf.lies /\ m.seed = 1 /\ Uniform(SenderP)
        BY <1>5, <1>7, <1>10, <3>1
      <4>2. Proto({"simplest"}) /\ ~Proto({"kyber"}) /\ ~Proto({"twist"})
        BY <4>1, Classes
      <4>3. QED
        BY <1>4, <4>1, <4>2 DEF Answers, Lying, Agreed
    <3>2. CASE m.kind # "seed"
      BY <1>5, <3>2 DEF Lying
    <3>3. QED
      BY <3>1, <3>2
  <2>4. conf' = conf /\ party' = Both(SenderAt(p, l), r2) /\ net' = Both(toS, << >>)
    <3>1. PICK a, b, st, ms : a = SenderAt(p, l) /\ b = r /\ st = r2 /\ ms = << >>
      OBVIOUS
    <3> HIDE DEF r, r2, outs
    <3>2. party = Both(a, b) /\ net = Both(toS, toR) /\ Takes(ReceiverP, st, ms)
      BY <1>1, <2>1, <2>2, <3>1
    <3>3. conf' = conf /\ party' = Both(a, st) /\ net' = Both(toS \o ms, Tail(toR))
      BY <3>2, Moves
    <3>4. toS \o ms = toS
      <4>0. PICK k \in Nat : \E f : ChainAt(toS, l, n, k, f)
        BY <1>4 DEF Chain
      <4>1. PICK f : ChainAt(toS, l, n, k, f)
        BY <4>0
      <4>2. toS = [i \in 1..k |-> PointsFrom(f[i])]
        BY <4>1 DEF ChainAt
      <4>3. PICK h : h = [i \in 1..k |-> PointsFrom(f[i])]
        OBVIOUS
      <4>4. \A i \in 1..0 : h[i] = h[k + i]
        OBVIOUS
      <4>5. [i \in 1..k |-> h[i]] \o [i \in 1..0 |-> h[i]] = [i \in 1..(k + 0) |-> h[i]]
        BY <4>4, 0 \in Nat, Joined
      <4>6. h = [i \in 1..k |-> h[i]] /\ k + 0 = k /\ [i \in 1..0 |-> h[i]] = << >>
        BY <4>3, Emptied
      <4>7. h \o << >> = h
        BY <4>5, <4>6
      <4>8. QED
        BY <3>1, <4>2, <4>3, <4>7
    <3>5. QED
      BY <1>6, <3>1, <3>3, <3>4
  <2>5. ReceiverGood("done", g, outs, n)
    BY <1>1, <1>4, <2>3 DEF ReceiverGood
  <2>6. ToSenderGood(p, l, "done", n, toS)
    BY <1>4 DEF ToSenderGood
  <2>7. ToReceiverGood(p, l, "done", << >>)
    BY <1>5 DEF ToReceiverGood, Taker, AnswerOf
  <2>8. Good(p, l, "done", g, outs, n, toS, << >>)
    BY <1>1, <2>5, <2>6, <2>7 DEF Good
  <2> HIDE DEF outs
  <2>9. QED
    BY <2>4, <2>8, Reached
<1>11. QED
  BY <1>9, <1>10

---------------------------------------------------------------------------
(* The theorems. *)

LEMMA Stays ==
    ASSUME BaseAssumption, IInv, UNCHANGED vars
    PROVE  IInv'
<1>1. PICK p, l, q, g, o, n, toS, toR : At(p, l, q, g, o, n, toS, toR)
  BY DEF IInv
<1>2. conf' = conf /\ party' = party /\ net' = net /\ conf \in BaseConfs
  BY DEF vars, IInv
<1>3. QED
  BY <1>1, <1>2, Reached DEF At

LEMMA Kept ==
    ASSUME BaseAssumption, IInv, [BaseNext]_vars
    PROVE  IInv'
<1>1. conf \in BaseConfs /\ \E p, l, q, g, o, n, toS, toR : At(p, l, q, g, o, n, toS, toR)
  BY DEF IInv
<1>2. PICK p, l, q, g, o, n, toS, toR : At(p, l, q, g, o, n, toS, toR)
  BY <1>1
<1>3. CASE SenderPoint
  BY <1>1, <1>2, <1>3, StepSenderPoint
<1>4. CASE SenderTakesPoints
  BY <1>1, <1>2, <1>4, StepSenderTakesPoints
<1>5. CASE SenderSeesClosed
  BY <1>1, <1>2, <1>5, StepSenderSeesClosed
<1>6. CASE ReceiverTakesPoint
  BY <1>1, <1>2, <1>6, StepReceiverTakesPoint
<1>7. CASE ReceiverSends
  BY <1>1, <1>2, <1>7, StepReceiverSends
<1>8. CASE ReceiverTakesAnswer
  BY <1>1, <1>2, <1>8, StepReceiverTakesAnswer
<1>9. CASE UNCHANGED vars
  BY <1>9, Stays
<1>10. QED
  BY <1>3, <1>4, <1>5, <1>6, <1>7, <1>8, <1>9 DEF BaseNext, BaseDone

(* What each party of a base OT knows, and what is on its way to it, is what *)
(* the configuration and the number of OTs each has handled make it, in       *)
(* every state of SimplestOT, its variant, MasnyRindal, McRosRoy and the mock *)
(* (Base/*.cpp): no message is taken for one of another OT.                 *)
THEOREM Invariant ==
    BaseAssumption => (BaseSpec => []IInv)
<1> SUFFICES ASSUME BaseAssumption PROVE BaseSpec => []IInv
  OBVIOUS
<1>1. BaseInit => IInv
  BY Started
<1>2. IInv /\ [BaseNext]_vars => IInv'
  BY Kept
<1>3. QED
  BY <1>1, <1>2, PTL DEF BaseSpec

LEMMA Correct ==
    ASSUME BaseAssumption, IInv
    PROVE  BaseOtCorrect
<1>1. conf \in BaseConfs /\ N \in Nat \ {0}
  BY Settings DEF IInv
<1>2. PICK p, l, q, g, o, n, toS, toR : At(p, l, q, g, o, n, toS, toR)
  BY DEF IInv
<1> DEFINE s == [i \in 1..N |-> [j \in {0, 1} |-> SenderOutput(i, FirstMessage(i), j)]]
<1>3. SUFFICES ASSUME \A x \in Parties : party[x].pc = "done"
               PROVE  LET t == party[SenderP].out r == party[ReceiverP].out IN
                      /\ Len(t) = N /\ Len(r) = N
                      /\ \A i \in 1..N : r[i] = t[i][Choice(i)]
                      /\ Cardinality({ t[i][j] : i \in 1..N, j \in {0, 1} }) = 2 * N
  BY DEF BaseOtCorrect
<1>4. /\ party[SenderP] = SenderAt(p, l) /\ party[ReceiverP] = ReceiverAt(q, g, o)
      /\ SenderGood(p, l) /\ ReceiverGood(q, g, o, n)
  BY <1>2 DEF At, Good, Both, Parties, SenderP, ReceiverP
<1>5. party[SenderP].pc = "done" /\ party[ReceiverP].pc = "done"
  BY <1>3 DEF Parties, SenderP, ReceiverP
<1>6. p = "done" /\ l = N /\ party[SenderP].out = s
  <2>1. p = "done"
    BY <1>4, <1>5 DEF SenderAt
  <2>2. l = N
    BY <1>4, <2>1 DEF SenderGood
  <2>3. QED
    BY <1>4, <2>1, <2>2 DEF SenderAt
<1>7. q = "done" /\ party[ReceiverP].out = o
  BY <1>4, <1>5 DEF ReceiverAt
<1>8. PICK m : Answers(m) /\ o = [i \in 1..N |-> ReceiverOutput(i, m)]
  BY <1>4, <1>7 DEF ReceiverGood
<1>9. Len(s) = N /\ Len(o) = N
  <2>1. Len(s) = N
    BY <1>1
  <2>2. Len(o) = N
    BY <1>1, <1>8
  <2>3. QED
    BY <2>1, <2>2
<1>10. ASSUME NEW i \in 1..N PROVE o[i] = s[i][Choice(i)]
  <2>1. Choice(i) \in {0, 1}
    BY <1>1, Settings
  <2>2. s[i][Choice(i)] = SenderOutput(i, FirstMessage(i), Choice(i))
    BY <2>1
  <2>3. o[i] = ReceiverOutput(i, m)
    BY <1>8
  <2>4. QED
    BY <1>1, <1>8, <2>2, <2>3, Received
<1>11. Cardinality({ s[i][j] : i \in 1..N, j \in {0, 1} }) = 2 * N
  <2>1. \A i \in 1..N : \A j \in {0, 1} : s[i][j] = SenderOutput(i, FirstMessage(i), j)
    OBVIOUS
  <2> HIDE DEF s
  <2>2. QED
    BY <1>1, <2>1, TwiceAsMany
<1> HIDE DEF s
<1>12. QED
  BY <1>6, <1>7, <1>9, <1>10, <1>11

(* A base OT of libOTe/Base that finishes is an OT: the receiver has the     *)
(* sender's message of every choice, and no two of the sender's messages are  *)
(* the same, for any number of OTs, any choices, any group sizes, and every   *)
(* protocol and programmable function.                                     *)
THEOREM OtCorrect ==
    BaseAssumption => (BaseSpec => []BaseOtCorrect)
<1> SUFFICES ASSUME BaseAssumption PROVE BaseSpec => []BaseOtCorrect
  OBVIOUS
<1>1. IInv => BaseOtCorrect
  BY Correct
<1>2. BaseSpec => []IInv
  BY Invariant
<1>3. QED
  BY <1>1, <1>2, PTL

(* The receiver of SimplestOT fails when the sender opens another seed than  *)
(* it committed to, or when the two do not agree on committing, and never    *)
(* else; a sender that has finished was asked what it expects.              *)
THEOREM Decommitting ==
    BaseAssumption => (BaseSpec => []DecommitExact)
<1> SUFFICES ASSUME BaseAssumption PROVE BaseSpec => []DecommitExact
  OBVIOUS
<1>1. ASSUME IInv PROVE DecommitExact
  <2>1. conf \in BaseConfs /\ N \in Nat \ {0}
    BY <1>1, Settings DEF IInv
  <2>2. PICK p, l, q, g, o, n, toS, toR : At(p, l, q, g, o, n, toS, toR)
    BY <1>1 DEF IInv
  <2>3. /\ party[SenderP].pc = p /\ party[ReceiverP].pc = q
        /\ SenderGood(p, l) /\ ReceiverGood(q, g, o, n) /\ ToSenderGood(p, l, q, n, toS)
    BY <2>2 DEF At, Good, Both, Parties, SenderP, ReceiverP, SenderAt, ReceiverAt
  <2>4. q = "failed" => ~Agreed \/ Lying
    BY <2>3 DEF ToSenderGood
  <2>5. q = "done" => Agreed /\ ~Lying
    BY <2>3 DEF ReceiverGood
  <2>6. p = "done" => Agreed
    <3>1. SUFFICES ASSUME p = "done", ~Agreed PROVE FALSE
      OBVIOUS
    <3>2. l = N /\ n \in 0..N
      BY <2>3, <3>1 DEF SenderGood, ReceiverGood
    <3>3. q = "start" /\ PointFirst
      BY <1>1, <2>1, <2>3, <3>1, Classes DEF ReceiverGood, ToSenderGood
    <3>4. l = 0
      BY <2>3, <3>3 DEF ToSenderGood
    <3>5. QED
      BY <2>1, <3>2, <3>4
  <2>7. QED
    BY <2>3, <2>4, <2>5, <2>6 DEF DecommitExact, Agreed, Lying
<1>2. IInv => DecommitExact
  BY <1>1
<1>3. BaseSpec => []IInv
  BY Invariant
<1>4. QED
  BY <1>2, <1>3, PTL
=============================================================================
