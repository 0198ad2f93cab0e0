-------------------------- MODULE PprfBuffersProofs --------------------------
(***************************************************************************)
(* Proofs about PprfBuffers, for every even domain: the spans that          *)
(* allocateExpandTree computes from the number of parents are the levels     *)
(* that expandOne computes from the domain, and no write of a level reaches   *)
(* a node that is still to be read.                                         *)
(***************************************************************************)
EXTENDS PprfBuffers, XorTheorems

---------------------------------------------------------------------------
(* The shape of the tree and of the allocation. *)

EvenDomain == domain \in Nat \ {0} /\ domain % 2 = 0

(* Half the leaves, the nodes above the leaves.                             *)
LEMMA HalfDomain ==
    ASSUME EvenDomain
    PROVE  \E h \in Nat \ {0} : /\ domain = 2 * h /\ (domain + 1) \div 2 = h /\ DivCeil(domain, 2) = h
                                /\ Parents = IF h = 1 THEN 1 ELSE 2 * DivCeil(h, 2)
<1>1. domain \in Nat \ {0} /\ domain % 2 = 0
  BY DEF EvenDomain
<1>2. PICK h \in Nat : h = domain \div 2 /\ domain = 2 * h
  BY <1>1, Half
<1>3. h \in Nat \ {0}
  BY <1>1, <1>2
<1>4. (domain + 1) \div 2 = h
  BY <1>2
<1>5. DivCeil(domain, 2) = h
  BY <1>2 DEF DivCeil
<1>6. Parents = IF h = 1 THEN 1 ELSE 2 * DivCeil(h, 2)
  <2>1. domain > 2 <=> h # 1
    BY <1>2, <1>3
  <2>2. DivCeil(h, 2) * 2 = 2 * DivCeil(h, 2)
    BY DivCeilIs, <1>3
  <2>3. QED
    BY <1>4, <2>1, <2>2 DEF Parents, RoundUpTo
<1>7. QED
  BY <1>2, <1>3, <1>4, <1>5, <1>6

(* Twice the quotient rounded up is the number or one more.                  *)
LEMMA EvenUp ==
    ASSUME NEW x \in Nat
    PROVE  /\ DivCeil(x, 2) \in Nat /\ 2 * DivCeil(x, 2) \in {x, x + 1}
           /\ DivCeil(2 * x, 2) = x /\ RoundUpTo(x, 2) = 2 * DivCeil(x, 2)
           /\ (x + 1) \div 2 = DivCeil(x, 2)
<1>1. PICK y \in Nat : y = x + 1
  OBVIOUS
<1>2. PICK c \in Nat, b \in {0, 1} : c = y \div 2 /\ (2 * c) + b = y
  BY <1>1, Half
<1>3. DivCeil(x, 2) = c
  <2>1. x + 2 - 1 = y
    BY <1>1
  <2>2. QED
    BY <1>2, <2>1 DEF DivCeil
<1>4. DivCeil(2 * x, 2) = x
  BY DEF DivCeil
<1>5. QED
  BY <1>1, <1>2, <1>3, <1>4 DEF RoundUpTo

(* allocateExpandTree is called for one level less than the tree has.        *)
LEMMA Depths ==
    ASSUME EvenDomain
    PROVE  /\ mDepth \in Nat \ {0} /\ Depth = mDepth - 1
           /\ domain <= 2^mDepth /\ Parents \in Nat \ {0}
           /\ \A n \in Nat : n < Depth => 2^n < Parents
           /\ Parents <= 2^Depth
<1>1. PICK h \in Nat \ {0} : /\ domain = 2 * h /\ DivCeil(domain, 2) = h
                             /\ Parents = IF h = 1 THEN 1 ELSE 2 * DivCeil(h, 2)
  BY HalfDomain
<1>2. PICK D \in Nat : D = mDepth
  BY <1>1, Log2CeilIs DEF mDepth
<1>3. 2^D >= domain /\ \A n \in 0..(D - 1) : 2^n < domain
  BY <1>1, <1>2, Log2CeilIs DEF mDepth
<1>4. D # 0
  <2>1. SUFFICES ASSUME D = 0 PROVE FALSE
    OBVIOUS
  <2>2. 2^0 >= domain
    BY <1>3, <2>1
  <2>3. QED
    BY <1>1, <2>2, PowerZero
<1>5. PICK P \in Nat \ {0} : P = Parents /\ h <= P
  BY <1>1, EvenUp
<1>6. 2^D = 2 * 2^(D - 1) /\ 2^(D - 1) \in Nat
  BY <1>4, PowerStep, D - 1 \in Nat, (D - 1) + 1 = D
<1>7. P <= 2^(D - 1)
  <2>1. PICK p \in Nat : p = 2^(D - 1) /\ h <= p
    BY <1>1, <1>3, <1>6
  <2>2. CASE h = 1
    BY <1>1, <1>5, <2>1, <2>2
  <2>3. CASE h # 1
    <3>1. D - 1 # 0
      <4>1. SUFFICES ASSUME D - 1 = 0 PROVE FALSE
        OBVIOUS
      <4>2. h <= 2^0
        BY <2>1, <4>1
      <4>3. QED
        BY <1>1, <2>3, <4>2, PowerZero
    <3>2. PICK r \in Nat : p = 2 * r
      <4>1. 2^(D - 1) = 2 * 2^(D - 2) /\ 2^(D - 2) \in Nat
        BY <1>4, <3>1, PowerStep, D - 2 \in Nat, (D - 2) + 1 = D - 1
      <4>2. QED
        BY <2>1, <4>1
    <3>3. PICK c \in Nat : c = DivCeil(h, 2) /\ 2 * c \in {h, h + 1}
      BY EvenUp
    <3>4. 2 * c <= p
      BY <2>1, <3>2, <3>3
    <3>5. QED
      BY <1>1, <1>5, <2>1, <2>3, <3>3, <3>4
  <2>4. QED
    BY <2>2, <2>3
<1>8. ASSUME NEW n \in 0..(D - 2) PROVE 2^n < P
  <2>1. 2^(n + 1) < domain
    BY <1>3
  <2>2. 2^(n + 1) = 2 * 2^n /\ 2^n \in Nat
    BY PowerStep
  <2>3. PICK p \in Nat : p = 2^n
    BY <2>2
  <2>4. 2 * p < 2 * h
    BY <1>1, <2>1, <2>2, <2>3
  <2>5. QED
    BY <1>5, <2>3, <2>4
<1>9. Depth = D - 1
  <2>1. Log2Ceil(P) = D - 1
    <3>1. D - 1 \in Nat /\ 2^(D - 1) >= P
      BY <1>4, <1>6, <1>7
    <3>2. \A n \in 0..((D - 1) - 1) : 2^n < P
      BY <1>8
    <3>3. QED
      BY <3>1, <3>2, Log2CeilOnly
  <2>2. QED
    BY <1>5, <2>1 DEF Depth
<1>10. \A n \in Nat : n < Depth => 2^n < Parents
  BY <1>5, <1>8, <1>9
<1>11. QED
  BY <1>2, <1>3, <1>4, <1>5, <1>6, <1>7, <1>9, <1>10

(* The level d of expandOne: the root alone, each level as wide as the next   *)
(* one needs, half of the leaves in the last.                               *)
LEMMA Widths ==
    ASSUME EvenDomain
    PROVE  /\ \A k \in 0..mDepth : Width(k) \in Nat \ {0}
           /\ Width(0) = 1 /\ 2 * Width(mDepth - 1) = domain
           /\ \A k \in 1..mDepth : 2 * Width(k - 1) \in {Width(k), Width(k) + 1}
<1>1. PICK h \in Nat \ {0} : domain = 2 * h /\ DivCeil(domain, 2) = h
  BY HalfDomain
<1>2. PICK D \in Nat \ {0} : D = mDepth /\ domain <= 2^D
  BY Depths
<1>3. \A k \in 0..D : D - k \in Nat /\ 2^(D - k) \in Nat \ {0}
  BY PowerFits
<1>4. \A k \in 0..D : Width(k) \in Nat \ {0}
  <2>1. SUFFICES ASSUME NEW k \in 0..D PROVE Width(k) \in Nat \ {0}
    OBVIOUS
  <2>2. PICK p \in Nat \ {0} : p = 2^(D - k)
    BY <1>3
  <2>3. PICK w \in Nat : w = DivCeil(domain, p) /\ w * p >= domain
    <3>1. PICK n \in Nat : n = domain
      BY <1>1
    <3>2. DivCeil(n, p) \in Nat /\ DivCeil(n, p) * p >= n
      BY DivCeilIs
    <3>3. QED
      BY <3>1, <3>2
  <2>4. w # 0
    BY <1>1, <2>2, <2>3
  <2>5. QED
    BY <1>2, <2>2, <2>3, <2>4 DEF Width
<1>5. Width(0) = 1
  <2>1. PICK p \in Nat \ {0} : p = 2^D
    BY PowerFits
  <2>2. 1 * p >= domain
    BY <1>2, <2>1
  <2>3. DivCeil(domain, p) <= 1
    BY <1>1, <2>2, DivCeilIs
  <2>4. Width(0) = DivCeil(domain, p)
    BY <1>2, <2>1 DEF Width
  <2>5. QED
    BY <1>4, <2>3, <2>4
<1>6. 2 * Width(D - 1) = domain
  <2>1. 2^1 = 2
    BY PowerStep, PowerZero, 0 \in Nat, 0 + 1 = 1
  <2>2. D - (D - 1) = 1
    OBVIOUS
  <2>3. Width(D - 1) = DivCeil(domain, 2)
    BY <1>2, <2>1, <2>2 DEF Width
  <2>4. QED
    BY <1>1, <2>3
<1>7. ASSUME NEW k \in 1..D PROVE 2 * Width(k - 1) \in {Width(k), Width(k) + 1}
  <2>1. PICK p \in Nat \ {0} : p = 2^(D - k)
    BY <1>3
  <2>2. 2^(D - (k - 1)) = p * 2
    <3>1. D - k \in Nat /\ (D - k) + 1 = D - (k - 1)
      OBVIOUS
    <3>2. QED
      BY <2>1, <3>1, PowerStep
  <2>3. PICK w \in Nat : w = Width(k) /\ w = DivCeil(domain, p)
    BY <1>2, <1>4, <2>1 DEF Width
  <2>4. Width(k - 1) = DivCeil(w, 2)
    <3>1. DivCeil(w, 2) = DivCeil(domain, p * 2)
      BY <1>1, <2>3, DivCeilAgain
    <3>2. QED
      BY <1>2, <2>2, <3>1 DEF Width
  <2>5. QED
    BY <2>3, <2>4, EvenUp
<1>8. QED
  BY <1>2, <1>4, <1>5, <1>6, <1>7

(* The spans of allocateExpandTree are the levels of expandOne, rounded up to *)
(* whole pairs of children.                                                 *)
LEMMA SpansAreLevels ==
    ASSUME EvenDomain
    PROVE  /\ SpanSize(0) = 1
           /\ \A k \in 1..(mDepth - 1) : SpanSize(k) = 2 * Width(k - 1)
<1>1. PICK h \in Nat \ {0} : /\ domain = 2 * h /\ DivCeil(domain, 2) = h
                             /\ Parents = IF h = 1 THEN 1 ELSE 2 * DivCeil(h, 2)
  BY HalfDomain
<1>2. PICK D \in Nat \ {0} : D = mDepth /\ Depth = D - 1 /\ domain <= 2^D
  BY Depths
<1>3. PICK P \in Nat \ {0} : P = Parents /\ P <= 2^(D - 1)
  BY <1>2, Depths
<1>4. D - 1 \in Nat
  OBVIOUS
<1>5. SpanSize(0) = 1
  <2>1. CASE Depth = 0
    <3>1. P <= 1
      BY <1>2, <1>3, <2>1, PowerZero
    <3>2. QED
      BY <1>3, <2>1, <3>1 DEF SpanSize
  <2>2. CASE Depth # 0
    <3>1. PICK p \in Nat \ {0} : p = 2^(D - 1)
      BY <1>4, PowerFits
    <3>2. PICK w \in Nat : w = DivCeil(P, p) /\ w * p >= P /\ (1 * p >= P => w <= 1)
      BY <1>3, DivCeilIs
    <3>3. w = 1
      <4>1. w # 0
        BY <1>3, <3>1, <3>2
      <4>2. w <= 1
        BY <1>3, <3>1, <3>2
      <4>3. QED
        BY <4>1, <4>2
    <3>4. 2^(Depth - 0) = p
      BY <1>2, <3>1
    <3>5. QED
      BY <1>3, <2>2, <3>1, <3>2, <3>3, <3>4 DEF SpanSize
  <2>3. QED
    BY <2>1, <2>2
<1>6. ASSUME NEW k \in 1..(D - 1) PROVE SpanSize(k) = 2 * Width(k - 1)
  <2>1. h # 1 /\ P = 2 * DivCeil(h, 2)
    <3>1. SUFFICES ASSUME h = 1 PROVE FALSE
      BY <1>1, <1>3
    <3>2. 2^0 < P
      <4>1. 0 \in Nat /\ 0 < Depth
        BY <1>2
      <4>2. QED
        BY <1>3, <4>1, Depths
    <3>3. QED
      BY <1>1, <1>3, <3>1, <3>2, PowerZero
  <2>2. PICK p \in Nat \ {0} : p = 2^((D - 1) - k)
    BY PowerFits, (D - 1) - k \in Nat
  <2>3. D - (k - 1) = (((D - 1) - k) + 1) + 1
    OBVIOUS
  <2>4. 2^(D - (k - 1)) = 2 * (2 * p)
    <3>1. 2^(((D - 1) - k) + 1) = 2 * p
      BY <2>2, PowerStep, (D - 1) - k \in Nat
    <3>2. 2^((((D - 1) - k) + 1) + 1) = 2 * (2 * p)
      BY <3>1, PowerStep, ((D - 1) - k) + 1 \in Nat
    <3>3. QED
      BY <2>3, <3>2
  <2>5. PICK w \in Nat : w = DivCeil(P, p)
    BY <1>3, DivCeilIs
  (* Rounded up to pairs, or half of the leaves and then the level above.   *)
  <2>6. Width(k - 1) = DivCeil(w, 2)
    <3>1. PICK c \in Nat : c = DivCeil(h, 2)
      BY EvenUp
    <3>2. DivCeil(w, 2) = DivCeil(P, p * 2)
      BY <1>3, <2>5, DivCeilAgain
    <3>3. DivCeil(P, 2 * p) = DivCeil(DivCeil(P, 2), p)
      BY <1>3, DivCeilAgain
    <3>4. DivCeil(P, 2) = c
      BY <2>1, <3>1, EvenUp
    <3>5. DivCeil(c, p) = DivCeil(h, 2 * p)
      BY <3>1, DivCeilAgain
    <3>6. DivCeil(h, 2 * p) = DivCeil(domain, 2 * (2 * p))
      <4>1. PICK q \in Nat \ {0} : q = 2 * p
        OBVIOUS
      <4>2. DivCeil(DivCeil(domain, 2), q) = DivCeil(domain, 2 * q)
        BY <1>1, DivCeilAgain
      <4>3. QED
        BY <1>1, <4>1, <4>2
    <3>7. p * 2 = 2 * p
      OBVIOUS
    <3>8. QED
      BY <1>2, <2>4, <3>2, <3>3, <3>4, <3>5, <3>6, <3>7 DEF Width
  <2>7. CASE k = Depth
    <3>1. p = 1
      BY <1>2, <2>2, <2>7, PowerZero, (D - 1) - k = 0
    <3>2. w = P
      BY <1>3, <2>5, <3>1 DEF DivCeil
    <3>3. QED
      BY <1>3, <2>1, <2>5, <2>6, <2>7, <3>2, EvenUp DEF SpanSize
  <2>8. CASE k # Depth
    <3>1. w > 1
      <4>1. p < P
        BY <1>2, <1>3, <2>2, Depths, (D - 1) - k \in Nat, (D - 1) - k < Depth
      <4>2. w * p >= P
        BY <1>3, <2>5, DivCeilIs
      <4>3. w # 0 /\ w # 1
        BY <1>3, <2>2, <4>1, <4>2
      <4>4. QED
        BY <2>5, <4>3
    <3>2. 2^(Depth - k) = p
      BY <1>2, <2>2
    <3>3. SpanSize(k) = RoundUpTo(w, 2)
      BY <1>3, <2>5, <2>8, <3>1, <3>2 DEF SpanSize
    <3>4. QED
      BY <2>5, <2>6, <3>3, EvenUp
  <2>9. QED
    BY <2>7, <2>8
<1>7. QED
  BY <1>2, <1>5, <1>6

(* A level fits in the half of the allocation it is given: the larger one     *)
(* for the last level and every other one above it, the smaller between them. *)
LEMMA LevelsFit ==
    ASSUME EvenDomain
    PROVE  /\ SecondLast \in Nat \ {0} /\ Parents \in Nat \ {0} /\ AllocSize \in Nat
           /\ SecondLast + Parents <= AllocSize
           /\ \A k \in 0..(mDepth - 1) : SpanSize(k) \in Nat /\ SpanSize(k) <= BufferSize(k)
<1>1. PICK h \in Nat \ {0} : /\ domain = 2 * h
                             /\ Parents = IF h = 1 THEN 1 ELSE 2 * DivCeil(h, 2)
  BY HalfDomain
<1>2. PICK E \in Nat : E = Depth /\ mDepth = E + 1
  BY Depths
<1>3. PICK P \in Nat \ {0} : P = Parents
  BY Depths
<1>4. PICK c \in Nat : c = DivCeil(P, 2) /\ 2 * c \in {P, P + 1}
  BY EvenUp
<1>5. PICK t \in Nat : t = DivCeil(c, 2) /\ 2 * t \in {c, c + 1}
  BY EvenUp
<1>6. SecondLast = 2 * t
  <2>1. (P + 1) \div 2 = c
    BY <1>4, EvenUp
  <2>2. RoundUpTo(c, 2) = 2 * t
    BY <1>5, EvenUp
  <2>3. QED
    BY <1>3, <2>1, <2>2 DEF SecondLast
<1>7. t # 0
  BY <1>3, <1>4, <1>5
<1>8. AllocSize \in {P + (2 * t), P + (2 * t) + 1}
  <2>1. PICK n \in Nat : n = P + (2 * t)
    BY <1>3
  <2>2. PICK m \in Nat : m = DivCeil(n, 2) /\ 2 * m \in {n, n + 1} /\ RoundUpTo(n, 2) = 2 * m
    BY EvenUp
  <2>3. QED
    BY <1>3, <1>6, <2>1, <2>2 DEF AllocSize
<1>9. /\ SpanSize(0) = 1
      /\ \A k \in 1..E : SpanSize(k) = 2 * Width(k - 1)
      /\ \A k \in 0..(E + 1) : Width(k) \in Nat \ {0}
      /\ \A k \in 1..(E + 1) : 2 * Width(k - 1) \in {Width(k), Width(k) + 1}
      /\ 2 * Width(E) = 2 * h
  BY <1>1, <1>2, SpansAreLevels, Widths
<1>10. \A k \in 0..E : SpanSize(k) \in Nat \ {0}
  <2>1. SUFFICES ASSUME NEW k \in 0..E PROVE SpanSize(k) \in Nat \ {0}
    OBVIOUS
  <2>2. CASE k = 0
    BY <1>9, <2>2
  <2>3. CASE k # 0
    <3>1. k \in 1..E /\ k - 1 \in 0..(E + 1)
      BY <2>3
    <3>2. QED
      BY <1>9, <3>1
  <2>4. QED
    BY <2>2, <2>3
<1>11. SpanSize(E) = P
  BY <1>2, <1>3 DEF SpanSize
(* A level needs no more room than the next one.                            *)
<1>12. ASSUME NEW k \in 1..E PROVE SpanSize(k - 1) <= SpanSize(k)
  <2>1. PICK b \in Nat \ {0} : b = Width(k - 1) /\ SpanSize(k) = 2 * b
    <3>1. k - 1 \in 0..(E + 1)
      OBVIOUS
    <3>2. QED
      BY <1>9, <3>1
  <2>2. CASE k = 1
    BY <1>9, <2>1, <2>2
  <2>3. CASE k # 1
    <3>1. k - 1 \in 1..(E + 1) /\ k - 1 \in 1..E /\ k - 2 \in 0..(E + 1) /\ (k - 1) - 1 = k - 2
      BY <2>3
    <3>2. PICK a \in Nat \ {0} : a = Width(k - 2) /\ SpanSize(k - 1) = 2 * a /\ 2 * a \in {b, b + 1}
      BY <1>9, <2>1, <3>1
    <3>3. QED
      BY <2>1, <3>2
  <2>4. QED
    BY <2>2, <2>3
(* All but the last fit in the smaller half, which has the last but one.     *)
<1>13. \A k \in 0..E : k < E => SpanSize(k) <= 2 * t
  <2> DEFINE Fits == { j \in 0..(E - 1) : SpanSize((E - 1) - j) <= 2 * t }
  <2>1. CASE E = 0
    BY <2>1
  <2>2. CASE E # 0
    <3>1. E \in 1..E /\ E - 1 \in 0..(E + 1) /\ E - 1 \in 0..E
      BY <2>2
    <3>2. 0 \in Fits
      <4>1. SpanSize(E - 1) <= 2 * t
        <5>1. CASE E = 1
          BY <1>7, <1>9, <5>1
        <5>2. CASE E # 1
          <6>1. E - 1 \in 1..E /\ E - 2 \in 0..(E + 1) /\ (E - 1) - 1 = E - 2 /\ E - 1 \in 1..(E + 1)
            BY <2>2, <5>2
          <6>2. PICK a \in Nat, b \in Nat : /\ a = Width(E - 2) /\ b = Width(E - 1)
                                            /\ SpanSize(E - 1) = 2 * a /\ 2 * a \in {b, b + 1} /\ P = 2 * b
            BY <1>9, <1>11, <3>1, <6>1
          <6>3. c = b
            BY <1>4, <6>2
          <6>4. QED
            BY <1>5, <6>2, <6>3
        <5>3. QED
          BY <5>1, <5>2
      <4>2. (E - 1) - 0 = E - 1 /\ 0 \in 0..(E - 1)
        BY <2>2
      <4>3. QED
        BY <4>1, <4>2
    <3>3. ASSUME NEW j \in 1..(E - 1), j - 1 \in Fits PROVE j \in Fits
      <4>1. /\ (E - 1) - (j - 1) \in 1..E /\ ((E - 1) - (j - 1)) - 1 = (E - 1) - j
            /\ (E - 1) - (j - 1) \in 0..E /\ (E - 1) - j \in 0..E
        OBVIOUS
      <4>2. SpanSize((E - 1) - j) <= SpanSize((E - 1) - (j - 1))
        BY <1>12, <4>1
      <4>3. PICK x \in Nat, y \in Nat : x = SpanSize((E - 1) - j) /\ y = SpanSize((E - 1) - (j - 1))
        BY <1>10, <4>1
      <4>4. x <= y /\ y <= 2 * t
        BY <3>3, <4>2, <4>3
      <4>5. QED
        BY <4>3, <4>4
    <3>4. 0..(E - 1) \subseteq Fits
      <4> HIDE DEF Fits
      <4>1. QED
        BY <2>2, <3>2, <3>3, IntervalInduction, E - 1 \in Nat
    <3>5. ASSUME NEW k \in 0..E, k < E PROVE SpanSize(k) <= 2 * t
      <4>1. (E - 1) - k \in 0..(E - 1) /\ (E - 1) - ((E - 1) - k) = k
        BY <3>5
      <4>2. QED
        BY <3>4, <4>1
    <3>6. QED
      BY <3>5
  <2>3. QED
    BY <2>1, <2>2
<1>14. ASSUME NEW k \in 0..E PROVE SpanSize(k) <= BufferSize(k)
  <2>1. CASE k = E
    <3>1. SpanStart(k) = SecondLast
      BY <1>2, <2>1 DEF SpanStart
    <3>2. QED
      BY <1>3, <1>6, <1>7, <1>11, <2>1, <3>1 DEF BufferSize
  <2>2. CASE k # E
    <3>1. SpanSize(k) <= 2 * t
      BY <1>13, <2>2
    (* The smaller half is no larger than the other.                        *)
    <3>2. 2 * t <= P
      <4>1. 2^0 < P
        <5>1. 0 \in Nat /\ 0 < Depth
          BY <1>2, <2>2
        <5>2. QED
          BY <1>3, <5>1, Depths
      <4>2. P # 1
        BY <4>1, PowerZero
      <4>3. PICK g \in Nat : P = 2 * g
        BY <1>1, <1>3, <4>2, EvenUp
      <4>4. QED
        BY <1>3, <1>4, <1>5, <4>3
    <3>3. BufferSize(k) \in {2 * t, P}
      BY <1>3, <1>6 DEF BufferSize
    <3>4. PICK x \in Nat : x = SpanSize(k)
      BY <1>10
    <3>5. QED
      BY <3>1, <3>2, <3>3, <3>4
  <2>3. QED
    BY <2>1, <2>2
<1>15. QED
  BY <1>2, <1>3, <1>6, <1>7, <1>8, <1>10, <1>14

(* Two levels in turn are in different halves.                              *)
LEMMA Halves ==
    ASSUME EvenDomain, NEW k \in 0..(mDepth - 2)
    PROVE  \/ SpanStart(k) = 0 /\ SpanStart(k + 1) = SecondLast
              /\ BufferSize(k) = SecondLast /\ BufferSize(k + 1) = Parents
           \/ SpanStart(k) = SecondLast /\ SpanStart(k + 1) = 0
              /\ BufferSize(k) = Parents /\ BufferSize(k + 1) = SecondLast
<1>1. PICK E \in Nat : E = Depth /\ mDepth = E + 1
  BY Depths
<1>2. PICK n \in Nat : n = E - k /\ E - (k + 1) = n - 1 /\ n - 1 \in Nat
  BY <1>1
<1>3. n % 2 = 0 <=> (n - 1) % 2 # 0
  BY <1>2, Half
<1>4. SpanStart(k) = IF n % 2 = 0 THEN SecondLast ELSE 0
  BY <1>1, <1>2 DEF SpanStart
<1>5. SpanStart(k + 1) = IF (n - 1) % 2 = 0 THEN SecondLast ELSE 0
  BY <1>1, <1>2 DEF SpanStart
<1>6. SecondLast # 0
  BY LevelsFit
<1>7. QED
  BY <1>3, <1>4, <1>5, <1>6 DEF BufferSize

---------------------------------------------------------------------------
(* The invariant. *)

Ranges == domain \in Domains /\ EvenDomain /\ d \in 0..(mDepth - 1) /\ parent \in 0..Width(d)

Cells == cell \in [0..(AllocSize - 1) -> {Unset} \cup ((0..(mDepth - 1)) \X Nat)]

(* The nodes of the next level that have been written so far.               *)
ChildrenWritten ==
    d < mDepth - 1 => \A q \in 0..(2 * parent - 1) : cell[SpanStart(d + 1) + q] = <<d + 1, q>>

IInv == Ranges /\ Cells /\ ParentsIntact /\ ChildrenWritten

(* What stays in the middle of an expansion.                                *)
LEMMA SameDomain ==
    ASSUME UNCHANGED domain
    PROVE  /\ EvenDomain' = EvenDomain /\ mDepth' = mDepth /\ AllocSize' = AllocSize
           /\ Depth' = Depth /\ SecondLast' = SecondLast
           /\ \A k : Width(k)' = Width(k) /\ SpanStart(k)' = SpanStart(k)
  BY DEF EvenDomain, mDepth, AllocSize, Parents, SecondLast, Width, SpanStart, Depth

LEMMA Start ==
    ASSUME DomainsAssumption, Init
    PROVE  IInv
<1>1. domain \in Domains /\ EvenDomain
  BY DEF DomainsAssumption, Init, EvenDomain
<1>2. PICK D \in Nat \ {0} : D = mDepth
  BY <1>1, Depths
<1>3. Width(0) = 1
  BY <1>1, Widths
<1>4. Ranges
  BY <1>1, <1>2, <1>3 DEF Ranges, Init
<1>5. SpanStart(0) \in 0..(AllocSize - 1)
  BY <1>1, LevelsFit DEF SpanStart
<1>6. Cells
  BY <1>2, <1>5 DEF Cells, Init
<1>7. ParentsIntact
  <2>1. SpanStart(0) + 0 = SpanStart(0)
    BY <1>1, LevelsFit DEF SpanStart
  <2>2. d = 0 /\ parent..(Width(d) - 1) = {0}
    BY <1>3 DEF Init
  <2>3. cell[SpanStart(0)] = <<0, 0>>
    BY <1>5 DEF Init
  <2>4. QED
    BY <2>1, <2>2, <2>3 DEF ParentsIntact
<1>8. ChildrenWritten
  <2>1. 0..(2 * parent - 1) = {}
    BY DEF Init
  <2>2. QED
    BY <2>1 DEF ChildrenWritten
<1>9. QED
  BY <1>4, <1>6, <1>7, <1>8 DEF IInv

(* The two children of a parent go to the other half of the allocation.      *)
LEMMA ExpandParentStep ==
    ASSUME IInv, ExpandParent
    PROVE  IInv'
<1> DEFINE s == SpanStart(d + 1)
<1>1. Ranges /\ EvenDomain /\ Cells /\ ParentsIntact /\ ChildrenWritten
  BY DEF IInv, Ranges
<1>2. PICK D \in Nat \ {0} : D = mDepth
  BY <1>1, Depths
<1>3. /\ d \in 0..(D - 2) /\ d + 1 \in 1..(D - 1) /\ (d + 1) - 1 = d /\ domain' = domain /\ d' = d /\ parent' = parent + 1
  BY <1>1, <1>2 DEF ExpandParent, Ranges
<1>4. PICK w \in Nat \ {0} : w = Width(d)
  BY <1>1, <1>2, <1>3, Widths
<1>5. parent \in 0..(w - 1)
  BY <1>1, <1>4 DEF ExpandParent, Ranges
<1>6. PICK p \in Nat, l \in Nat, a \in Nat :
          p = Parents /\ l = SecondLast /\ a = AllocSize /\ l + p <= a /\ l # 0
  BY <1>1, LevelsFit
<1>7. SpanSize(d + 1) = 2 * w /\ SpanSize(d + 1) <= BufferSize(d + 1)
  BY <1>1, <1>2, <1>3, <1>4, SpansAreLevels, LevelsFit
<1>8. SpanSize(d) <= BufferSize(d) /\ w <= SpanSize(d)
  <2>1. SpanSize(d) <= BufferSize(d)
    BY <1>1, <1>2, <1>3, LevelsFit
  <2>2. CASE d = 0
    BY <1>1, <1>4, <2>1, <2>2, Widths, SpansAreLevels
  <2>3. CASE d # 0
    <3>1. d \in 1..(D - 1) /\ d \in 1..D /\ d - 1 \in 0..D
      BY <1>3, <2>3
    <3>2. PICK v \in Nat : v = Width(d - 1) /\ SpanSize(d) = 2 * v /\ 2 * v \in {w, w + 1}
      BY <1>1, <1>2, <1>4, <3>1, Widths, SpansAreLevels
    <3>3. QED
      BY <2>1, <3>2
  <2>4. QED
    BY <2>2, <2>3
<1>9. \/ SpanStart(d) = 0 /\ s = l /\ w <= l /\ 2 * w <= p
      \/ SpanStart(d) = l /\ s = 0 /\ w <= p /\ 2 * w <= l
  <2>1. \/ SpanStart(d) = 0 /\ s = l /\ BufferSize(d) = l /\ BufferSize(d + 1) = p
        \/ SpanStart(d) = l /\ s = 0 /\ BufferSize(d) = p /\ BufferSize(d + 1) = l
    BY <1>1, <1>2, <1>3, <1>6, Halves
  <2>2. SpanSize(d) \in Nat
    BY <1>1, <1>2, <1>3, LevelsFit
  <2>3. QED
    BY <1>4, <1>6, <1>7, <1>8, <2>1, <2>2
<1>10. cell' = [c \in 0..(a - 1) |->
                  IF c - s \in {2 * parent, 2 * parent + 1} THEN <<d + 1, c - s>> ELSE cell[c]]
  BY <1>1, <1>6 DEF ExpandParent, Cells
<1>11. s \in Nat /\ SpanStart(d) \in Nat
  BY <1>6, <1>9
<1> HIDE DEF s
<1>12. Ranges'
  <2>1. parent' \in 0..w
    BY <1>3, <1>5
  <2>2. QED
    BY <1>1, <1>2, <1>3, <1>4, <2>1, SameDomain DEF Ranges
<1>13. Cells'
  <2>1. ASSUME NEW c \in 0..(a - 1)
        PROVE  cell'[c] \in {Unset} \cup ((0..(D - 1)) \X Nat)
    <3>1. CASE c - s \in {2 * parent, 2 * parent + 1}
      <4>1. c - s \in Nat
        BY <1>5, <3>1
      <4>2. QED
        BY <1>3, <1>10, <3>1, <4>1
    <3>2. CASE c - s \notin {2 * parent, 2 * parent + 1}
      BY <1>1, <1>2, <1>6, <1>10, <3>2 DEF Cells
    <3>3. QED
      BY <3>1, <3>2
  <2>2. QED
    BY <1>2, <1>3, <1>6, <1>10, <2>1, SameDomain DEF Cells
(* The parents still to come are in the half that is not written.           *)
<1>14. ParentsIntact'
  <2>1. ASSUME NEW q \in (parent + 1)..(w - 1) PROVE cell'[SpanStart(d) + q] = <<d, q>>
    <3>1. PICK c \in Nat : c = SpanStart(d) + q
      BY <1>5, <1>11
    <3>2. c \in 0..(a - 1) /\ c - s \notin {2 * parent, 2 * parent + 1}
      BY <1>5, <1>6, <1>9, <3>1
    <3>3. cell[c] = <<d, q>>
      BY <1>1, <1>4, <1>5, <3>1 DEF ParentsIntact
    <3>4. QED
      BY <1>10, <3>1, <3>2, <3>3
  <2>2. QED
    BY <1>3, <1>4, <2>1, SameDomain DEF ParentsIntact
<1>15. ChildrenWritten'
  <2>1. ASSUME NEW q \in 0..(2 * (parent + 1) - 1) PROVE cell'[s + q] = <<d + 1, q>>
    <3>1. PICK c \in Nat : c = s + q /\ c - s = q
      BY <1>5, <1>11
    <3>2. c \in 0..(a - 1)
      BY <1>5, <1>6, <1>9, <3>1
    <3>3. CASE q \in {2 * parent, 2 * parent + 1}
      BY <1>10, <3>1, <3>2, <3>3
    <3>4. CASE q \notin {2 * parent, 2 * parent + 1}
      <4>1. q \in 0..(2 * parent - 1)
        BY <1>5, <3>4
      <4>2. cell[c] = <<d + 1, q>>
        BY <1>1, <1>2, <1>3, <3>1, <4>1 DEF ChildrenWritten, s
      <4>3. QED
        BY <1>10, <3>1, <3>2, <3>4, <4>2
    <3>5. QED
      BY <3>3, <3>4
  <2>2. SpanStart(d + 1)' = s
    BY <1>3, SameDomain DEF s, SpanStart
  <2>3. QED
    BY <1>3, <2>1, <2>2 DEF ChildrenWritten
<1>16. QED
  BY <1>12, <1>13, <1>14, <1>15 DEF IInv

(* Every node of the next level has been written when a level is done.       *)
LEMMA NextLevelStep ==
    ASSUME IInv, NextLevel
    PROVE  IInv'
<1>1. Ranges /\ EvenDomain /\ Cells /\ ParentsIntact /\ ChildrenWritten
  BY DEF IInv, Ranges
<1>2. PICK D \in Nat \ {0} : D = mDepth
  BY <1>1, Depths
<1>3. /\ d \in 0..(D - 2) /\ d + 1 \in 1..D /\ (d + 1) - 1 = d /\ domain' = domain /\ d' = d + 1 /\ parent' = 0
      /\ cell' = cell
  BY <1>1, <1>2 DEF NextLevel, Ranges
<1>4. PICK w \in Nat \ {0} : w = Width(d) /\ parent = w
  BY <1>1, <1>2, <1>3, Widths DEF NextLevel
<1>5. PICK v \in Nat \ {0} : v = Width(d + 1) /\ v <= 2 * w
  <2>1. d + 1 \in 0..D
    BY <1>3
  <2>2. PICK v \in Nat \ {0} : v = Width(d + 1)
    BY <1>1, <1>2, <2>1, Widths
  <2>3. 2 * Width((d + 1) - 1) \in {Width(d + 1), Width(d + 1) + 1}
    BY <1>1, <1>2, <1>3, Widths
  <2>4. 2 * w \in {v, v + 1}
    BY <1>3, <1>4, <2>2, <2>3
  <2>5. QED
    BY <2>2, <2>4
<1>6. Ranges'
  BY <1>1, <1>2, <1>3, <1>5, SameDomain DEF Ranges
<1>7. Cells'
  BY <1>1, <1>3, SameDomain DEF Cells
<1>8. ParentsIntact'
  <2>1. ASSUME NEW q \in 0..(v - 1) PROVE cell[SpanStart(d + 1) + q] = <<d + 1, q>>
    <3>1. q \in 0..(2 * parent - 1)
      BY <1>4, <1>5
    <3>2. QED
      BY <1>1, <1>2, <1>3, <3>1 DEF ChildrenWritten
  <2>2. SpanStart(d)' = SpanStart(d + 1) /\ Width(d)' = v
    BY <1>3, <1>5, SameDomain DEF SpanStart, Width
  <2>3. QED
    BY <1>3, <2>1, <2>2 DEF ParentsIntact
<1>9. ChildrenWritten'
  <2>1. 0..(2 * parent' - 1) = {}
    BY <1>3
  <2>2. QED
    BY <2>1 DEF ChildrenWritten
<1>10. QED
  BY <1>6, <1>7, <1>8, <1>9 DEF IInv

LEMMA HashLeavesStep ==
    ASSUME IInv, HashLeaves
    PROVE  IInv'
<1>1. Ranges /\ EvenDomain /\ Cells /\ ParentsIntact
  BY DEF IInv, Ranges
<1>2. PICK D \in Nat \ {0} : D = mDepth /\ D - 1 \in 0..D
  BY <1>1, Depths
<1>3. d = D - 1 /\ domain' = domain /\ d' = d /\ parent' = parent + 1 /\ cell' = cell
  BY <1>1, <1>2 DEF HashLeaves
<1>4. PICK w \in Nat \ {0} : w = Width(d)
  BY <1>1, <1>2, <1>3, Widths
<1>5. parent \in 0..(w - 1)
  BY <1>1, <1>4 DEF HashLeaves, Ranges
<1>6. Ranges'
  <2>1. parent' \in 0..w
    BY <1>3, <1>5
  <2>2. QED
    BY <1>1, <1>2, <1>3, <1>4, <2>1, SameDomain DEF Ranges
<1>7. Cells'
  BY <1>1, <1>3, SameDomain DEF Cells
<1>8. ParentsIntact'
  <2>1. \A q \in (parent + 1)..(w - 1) : q \in parent..(w - 1)
    BY <1>5
  <2>2. QED
    BY <1>1, <1>3, <1>4, <2>1, SameDomain DEF ParentsIntact
<1>9. ChildrenWritten'
  <2>1. ~(d' < mDepth' - 1)
    BY <1>2, <1>3, SameDomain
  <2>2. QED
    BY <2>1 DEF ChildrenWritten
<1>10. QED
  BY <1>6, <1>7, <1>8, <1>9 DEF IInv

(* For every even domain: where expandOne is, what the allocation holds of   *)
(* the level it reads and of the level it writes.                           *)
THEOREM Invariant == DomainsAssumption => (Spec => []IInv)
<1> SUFFICES ASSUME DomainsAssumption PROVE Spec => []IInv
  OBVIOUS
<1>1. Init => IInv
  BY Start
<1>2. IInv /\ [Next]_vars => IInv'
  <2> SUFFICES ASSUME IInv, [Next]_vars PROVE IInv'
    OBVIOUS
  <2>1. CASE ExpandParent
    BY <2>1, ExpandParentStep
  <2>2. CASE NextLevel
    BY <2>2, NextLevelStep
  <2>3. CASE HashLeaves
    BY <2>3, HashLeavesStep
  <2>4. CASE UNCHANGED vars
    <3>1. UNCHANGED <<domain, d, parent, cell>>
      BY <2>4 DEF vars
    <3>2. Ranges' /\ Cells'
      BY <3>1, SameDomain DEF IInv, Ranges, Cells
    <3>3. ParentsIntact' /\ ChildrenWritten'
      BY <3>1, SameDomain DEF IInv, ParentsIntact, ChildrenWritten
    <3>4. QED
      BY <3>2, <3>3 DEF IInv
  <2>5. QED
    BY <2>1, <2>2, <2>3, <2>4 DEF Next, Done
<1>3. QED
  BY <1>1, <1>2, PTL DEF Spec

(* For every even domain: indices and cells stay in range.                  *)
THEOREM TypeCorrect == DomainsAssumption => (Spec => []TypeOK)
<1>1. IInv => TypeOK
  <2> SUFFICES ASSUME IInv PROVE TypeOK
    OBVIOUS
  <2>1. ASSUME NEW c \in DOMAIN cell
        PROVE  cell[c] = Unset \/ (cell[c][1] \in 0..(mDepth - 1) /\ cell[c][2] \in Nat)
    <3>1. cell[c] \in {Unset} \cup ((0..(mDepth - 1)) \X Nat)
      BY DEF IInv, Cells
    <3>2. QED
      BY <3>1
  <2>2. QED
    BY <2>1 DEF IInv, Ranges, TypeOK
<1>2. QED
  BY <1>1, Invariant, PTL

(* For every even domain: expandOne never reads a node that was not written,  *)
(* or that its own writes or those of a level further down have destroyed.    *)
THEOREM ParentsRead == DomainsAssumption => (Spec => []ParentsIntact)
<1>1. IInv => ParentsIntact
  BY DEF IInv
<1>2. QED
  BY <1>1, Invariant, PTL

(* For every even domain: the spans have the sizes the receiver's expandOne    *)
(* asserts, each node is written within the span of its level and each span   *)
(* lies within its half of the allocation.                                  *)
THEOREM WritesFit == DomainsAssumption => (Spec => []WritesInSpan)
<1>1. IInv => WritesInSpan
  <2> SUFFICES ASSUME IInv PROVE WritesInSpan
    OBVIOUS
  <2>1. EvenDomain /\ d \in 0..(mDepth - 1) /\ parent \in 0..Width(d)
    BY DEF IInv, Ranges
  <2>2. PICK D \in Nat \ {0} : D = mDepth /\ Depth = D - 1
    BY <2>1, Depths
  <2>3. PICK w \in Nat \ {0} : w = Width(d)
    BY <2>1, <2>2, Widths
  <2>4. (d < D - 1 /\ parent < w) => 2 * parent + 1 < SpanSize(d + 1) /\ SpanSize(d + 1) = 2 * w
    <3>1. SUFFICES ASSUME d < D - 1, parent < w
                   PROVE  2 * parent + 1 < SpanSize(d + 1) /\ SpanSize(d + 1) = 2 * w
      OBVIOUS
    <3>2. d + 1 \in 1..(D - 1) /\ (d + 1) - 1 = d
      BY <2>1, <2>2, <3>1
    <3>3. SpanSize(d + 1) = 2 * w
      BY <2>1, <2>2, <2>3, <3>2, SpansAreLevels
    <3>4. QED
      BY <2>1, <2>3, <3>1, <3>3
  <2>5. SpanSize(d) \in {w, w + 1}
    <3>1. CASE d = 0
      BY <2>1, <2>3, <3>1, Widths, SpansAreLevels
    <3>2. CASE d # 0
      <4>1. d \in 1..(D - 1) /\ d \in 1..D /\ d - 1 \in 0..D
        BY <2>1, <2>2, <3>2
      <4>2. SpanSize(d) = 2 * Width(d - 1) /\ 2 * Width(d - 1) \in {w, w + 1}
        BY <2>1, <2>2, <2>3, <4>1, Widths, SpansAreLevels
      <4>3. QED
        BY <4>2
    <3>3. QED
      BY <3>1, <3>2
  <2>6. SpanSize(d) <= BufferSize(d)
    BY <2>1, <2>2, LevelsFit
  <2>7. SpanSize(0) = 1 /\ 2 * Width(D - 1) = domain
    BY <2>1, <2>2, SpansAreLevels, Widths
  <2>8. QED
    BY <2>2, <2>3, <2>4, <2>5, <2>6, <2>7 DEF WritesInSpan
<1>2. QED
  BY <1>1, Invariant, PTL
==============================================================================
