-------------------------- MODULE LinearCodeProofs --------------------------
(***************************************************************************)
(* The proof that LinearCode computes code words: for every generator, every *)
(* size of plaintext and code word, every number of bits in a byte, and      *)
(* whatever the memory behind the plaintext holds.                          *)
(*                                                                         *)
(* First the order in which generateMod8Table finds the bytes with a bit;    *)
(* then the table, entry by entry; then the lanes encode adds its rows in.   *)
(***************************************************************************)
EXTENDS LinearCode, XorTheorems

---------------------------------------------------------------------------
(* Bits of a byte. *)

HasBit(v, g) == (v \div Shl1[g]) % 2 = 1

LEMMA Shifts ==
    ASSUME LinearAssumption
    PROVE  /\ ByteBits \in Nat \ {0} /\ Shl1[0] = 1
           /\ \A g \in 0..ByteBits : Shl1[g] \in Nat \ {0}
           /\ \A g \in 0..(ByteBits - 1) : Shl1[g] \in ByteValues
<1>1. /\ ByteBits \in Nat \ {0} /\ Shl1 \in [0..ByteBits -> Nat] /\ Shl1[0] = 1
      /\ \A g \in 1..ByteBits : Shl1[g] = 2 * Shl1[g - 1]
  BY DEF LinearAssumption
<1> DEFINE Positive == { g \in 0..ByteBits : Shl1[g] \in Nat \ {0} }
           Below == { j \in 0..(ByteBits - 1) : Shl1[(ByteBits - 1) - j] < Shl1[ByteBits] }
<1>2. 0..ByteBits \subseteq Positive
  <2>1. 0 \in Positive
    BY <1>1
  <2>2. ASSUME NEW g \in 1..ByteBits, g - 1 \in Positive PROVE g \in Positive
    <3>1. PICK s \in Nat \ {0} : s = Shl1[g - 1]
      BY <2>2
    <3>2. Shl1[g] = 2 * s
      BY <1>1, <3>1
    <3>3. QED
      BY <3>2
  <2>3. QED
    <3> HIDE DEF Positive
    <3>1. QED
      BY <1>1, <2>1, <2>2, IntervalInduction
<1>3. \A g \in 0..ByteBits : Shl1[g] \in Nat \ {0}
  BY <1>2
<1>4. ASSUME NEW g \in 1..ByteBits PROVE Shl1[g - 1] < Shl1[g]
  <2>1. PICK s \in Nat \ {0} : s = Shl1[g - 1]
    BY <1>1, <1>3, g - 1 \in 0..ByteBits
  <2>2. Shl1[g] = 2 * s
    BY <1>1, <2>1
  <2>3. QED
    BY <2>1, <2>2
<1>5. 0..(ByteBits - 1) \subseteq Below
  <2>1. 0 \in Below
    <3>1. ByteBits \in 1..ByteBits /\ (ByteBits - 1) - 0 = ByteBits - 1 /\ 0 \in 0..(ByteBits - 1)
      BY <1>1
    <3>2. QED
      BY <1>4, <3>1
  <2>2. ASSUME NEW j \in 1..(ByteBits - 1), j - 1 \in Below PROVE j \in Below
    <3>1. /\ (ByteBits - 1) - (j - 1) \in 1..ByteBits
          /\ (ByteBits - 1) - (j - 1) \in 0..ByteBits /\ ByteBits \in 0..ByteBits
          /\ ((ByteBits - 1) - (j - 1)) - 1 = (ByteBits - 1) - j /\ (ByteBits - 1) - j \in 0..ByteBits
      BY <1>1
    <3>2. Shl1[(ByteBits - 1) - j] < Shl1[(ByteBits - 1) - (j - 1)]
      BY <1>4, <3>1
    <3>3. /\ Shl1[(ByteBits - 1) - j] \in Nat /\ Shl1[(ByteBits - 1) - (j - 1)] \in Nat
          /\ Shl1[ByteBits] \in Nat
      BY <1>3, <3>1
    <3>4. Shl1[(ByteBits - 1) - (j - 1)] < Shl1[ByteBits]
      BY <2>2
    <3>5. QED
      BY <3>2, <3>3, <3>4
  <2>3. ByteBits - 1 \in Nat
    BY <1>1
  <2>4. QED
    <3> HIDE DEF Below
    <3>1. QED
      BY <2>1, <2>2, <2>3, IntervalInduction
<1>6. ASSUME NEW g \in 0..(ByteBits - 1) PROVE Shl1[g] \in ByteValues
  <2>1. (ByteBits - 1) - g \in 0..(ByteBits - 1) /\ (ByteBits - 1) - ((ByteBits - 1) - g) = g
    BY <1>1
  <2>2. Shl1[g] < Shl1[ByteBits]
    BY <1>5, <2>1
  <2>3. g \in 0..ByteBits /\ ByteBits \in 0..ByteBits
    BY <1>1
  <2>4. PICK a \in Nat, b \in Nat : a = Shl1[g] /\ b = Shl1[ByteBits]
    BY <1>3, <2>3
  <2>5. QED
    BY <2>2, <2>4 DEF ByteValues
<1>7. QED
  BY <1>1, <1>3, <1>6

(* The next number with a bit of weight S set: in the same run or, after S    *)
(* numbers without it, at the start of the next.                            *)
LEMMA NextWithBit ==
    ASSUME NEW S \in Nat \ {0}, NEW v \in Nat, (v \div S) % 2 = 1,
           NEW n, n = IF (v + 1) % S # 0 THEN v + 1 ELSE v + 1 + S
    PROVE  /\ n \in Nat /\ v < n /\ (n \div S) % 2 = 1
           /\ \A u \in Nat : v < u /\ u < n => (u \div S) % 2 # 1
<1>1. PICK q \in Nat, r \in 0..(S - 1) : v \div S = q /\ (q * S) + r = v
  BY DivMod
<1>2. q % 2 = 1
  BY <1>1
<1>3. q * S \in Nat /\ (q + 1) * S = q * S + S /\ (q + 2) * S = q * S + S + S
  BY <1>1
<1>4. CASE r + 1 < S
  <2>1. PICK t \in 0..(S - 1) : t = r + 1
    BY <1>4
  <2>2. ((q * S) + t) \div S = q /\ ((q * S) + t) % S = t
    BY <1>1, <2>1, CellOf
  <2>3. v + 1 = (q * S) + t
    BY <1>1, <1>3, <2>1
  <2>4. n = v + 1 /\ (n \div S) % 2 = 1
    BY <1>2, <2>1, <2>2, <2>3
  <2>5. QED
    BY <2>4
<1>5. CASE r + 1 = S
  <2>1. v + 1 = ((q + 1) * S) + 0
    BY <1>1, <1>3, <1>5
  <2>2. (((q + 1) * S) + 0) % S = 0
    BY CellOf, q + 1 \in Nat, 0 \in 0..(S - 1)
  <2>3. n = v + 1 + S
    BY <2>1, <2>2
  <2>4. n = ((q + 2) * S) + 0
    BY <1>3, <2>1, <2>3
  <2>5. (((q + 2) * S) + 0) \div S = q + 2
    BY CellOf, q + 2 \in Nat, 0 \in 0..(S - 1)
  <2>6. (q + 2) % 2 = 1 /\ (q + 1) % 2 = 0
    BY <1>1, <1>2
  <2>7. ASSUME NEW u \in Nat, v < u, u < n PROVE (u \div S) % 2 # 1
    <3>1. PICK t \in 0..(S - 1) : t = u - (v + 1)
      BY <2>3, <2>7
    <3>2. u = ((q + 1) * S) + t
      BY <1>3, <2>1, <3>1
    <3>3. (((q + 1) * S) + t) \div S = q + 1
      BY CellOf, q + 1 \in Nat
    <3>4. QED
      BY <2>6, <3>2, <3>3
  <2>8. (n \div S) % 2 = 1
    BY <2>4, <2>5, <2>6
  <2>9. n \in Nat /\ v < n
    BY <2>3
  <2>10. QED
    BY <2>7, <2>8, <2>9
<1>6. QED
  BY <1>1, <1>4, <1>5

LEMMA NextValueIs ==
    ASSUME LinearAssumption, NEW g \in 0..(ByteBits - 1), NEW v \in ByteValues, HasBit(v, g)
    PROVE  /\ NextValue(g, v) \in Nat /\ v < NextValue(g, v) /\ HasBit(NextValue(g, v), g)
           /\ \A u \in ByteValues : v < u /\ u < NextValue(g, v) => ~HasBit(u, g)
<1>1. PICK S \in Nat \ {0} : S = Shl1[g]
  BY Shifts
<1>2. v \in Nat /\ ByteValues \subseteq Nat
  BY Shifts DEF ByteValues
<1>3. NextValue(g, v) = IF (v + 1) % S # 0 THEN v + 1 ELSE v + 1 + S
  BY <1>1 DEF NextValue
<1>4. (v \div S) % 2 = 1
  BY <1>1 DEF HasBit
<1>5. PICK n : n = NextValue(g, v)
  OBVIOUS
<1>6. /\ n \in Nat /\ v < n /\ (n \div S) % 2 = 1
      /\ \A u \in Nat : v < u /\ u < n => (u \div S) % 2 # 1
  BY <1>2, <1>3, <1>4, <1>5, NextWithBit, ZenonT(60)
<1>7. QED
  BY <1>1, <1>2, <1>5, <1>6 DEF HasBit

(* The first number with a bit is the weight of the bit.                     *)
LEMMA FirstWithBit ==
    ASSUME LinearAssumption, NEW g \in 0..(ByteBits - 1)
    PROVE  HasBit(Shl1[g], g) /\ \A u \in ByteValues : u < Shl1[g] => ~HasBit(u, g)
<1>1. PICK S \in Nat \ {0} : S = Shl1[g]
  BY Shifts
<1>2. ByteValues \subseteq Nat
  BY DEF ByteValues
<1>3. ((1 * S) + 0) \div S = 1 /\ (1 * S) + 0 = S
  BY CellOf, 1 \in Nat, 0 \in 0..(S - 1)
<1>4. ASSUME NEW u \in ByteValues, u < S PROVE u \div S = 0
  <2>1. u \in 0..(S - 1) /\ (0 * S) + u = u
    BY <1>2, <1>4
  <2>2. ((0 * S) + u) \div S = 0
    BY <2>1, CellOf, 0 \in Nat
  <2>3. QED
    BY <2>1, <2>2
<1>5. QED
  BY <1>1, <1>3, <1>4 DEF HasBit

---------------------------------------------------------------------------
(* The table. *)

LEMMA Shape ==
    ASSUME LinearAssumption, conf \in LinearConfs
    PROVE  /\ conf.bits \in Nat \ {0} /\ conf.blocks \in Nat \ {0}
           /\ PlaintextU8Size \in Nat \ {0} /\ conf.bits <= PlaintextU8Size * ByteBits
           /\ conf.plaintext \in [0..(PlaintextU8Size - 1) -> ByteValues]
           /\ CodeSize \in Nat \ {0} /\ conf.blocks <= CodeSize /\ (Wide => CodeSize = conf.blocks)
           /\ ~Wide => CodeSize \in {1, 2, 4, 8}
           /\ RowCount \in Nat
           /\ \E m \in Nat \ {0} : RowCount = 8 * m /\ PlaintextU8Size <= RowCount
<1>1. /\ conf.bits \in Nat \ {0} /\ conf.blocks \in Nat \ {0} /\ ByteBits \in Nat \ {0}
      /\ conf.plaintext \in [0..(PlaintextU8Size - 1) -> ByteValues]
  BY DEF LinearAssumption, PlaintextU8Size
<1>2. PICK n \in Nat, k \in Nat \ {0} : n = conf.bits /\ k = ByteBits
  BY <1>1
<1>3. PICK u \in Nat : u = PlaintextU8Size /\ u * k >= n
  <2>1. DivCeil(n, k) \in Nat /\ DivCeil(n, k) * k >= n
    BY <1>2, DivCeilIs
  <2>2. QED
    BY <1>2, <2>1 DEF PlaintextU8Size
<1>4. u # 0
  BY <1>1, <1>2, <1>3
<1>5. PICK b \in Nat \ {0} : b = conf.blocks
  BY <1>1
<1>6. CodeSize = CASE b = 3 -> 4 [] b \in 5..7 -> 8 [] OTHER -> b
  BY <1>5 DEF CodeSize
<1>7. /\ CodeSize \in Nat \ {0} /\ b <= CodeSize /\ (CodeSize > 8 => CodeSize = b)
      /\ ~(CodeSize > 8) => CodeSize \in {1, 2, 4, 8}
  <2>1. CASE b = 3
    BY <1>6, <2>1
  <2>2. CASE b \in 5..7
    BY <1>6, <2>2
  <2>3. CASE b # 3 /\ b \notin 5..7
    BY <1>5, <1>6, <2>3
  <2>4. QED
    BY <2>1, <2>2, <2>3
<1>8. \E m \in Nat \ {0} : RowCount = 8 * m /\ u <= RowCount
  <2>1. PICK m \in Nat : m = DivCeil(u, 8) /\ m * 8 >= u
    BY DivCeilIs, 8 \in Nat \ {0}
  <2>2. RowCount = 8 * m
    BY <1>3, <2>1 DEF RowCount, RoundUpTo
  <2>3. QED
    BY <1>3, <1>4, <2>1, <2>2
<1>9. RowCount \in Nat
  BY <1>8
<1>10. QED
  BY <1>1, <1>2, <1>3, <1>4, <1>5, <1>7, <1>8, <1>9 DEF Wide

(* The rows of the generator an entry has, when those of D have been added:   *)
(* <<i, g, v>> is row g of byte i in the entry of v.                        *)
Entry(i, v, w, D) ==
    IF w < conf.blocks
    THEN { <<(i * ByteBits) + g, w>> :
             g \in { b \in 0..(ByteBits - 1) :
                       (i * ByteBits) + b < conf.bits /\ HasBit(v, b) /\ <<i, b, v>> \in D } }
    ELSE {}
Table(D) ==
    [i \in 0..(RowCount - 1) |-> [v \in ByteValues |-> [w \in 0..(CodeSize - 1) |-> Entry(i, v, w, D)]]]

Earlier(i, g, v) ==
    { t \in Nat \X Nat \X Nat : t[1] < i \/ (t[1] = i /\ (t[2] < g \/ (t[2] = g /\ t[3] < v))) }
All == Nat \X Nat \X Nat

LEMMA SameTable ==
    ASSUME LinearAssumption, conf \in LinearConfs, NEW C, NEW D,
           \A i \in 0..(RowCount - 1), g \in 0..(ByteBits - 1), v \in ByteValues :
               HasBit(v, g) => (<<i, g, v>> \in C <=> <<i, g, v>> \in D)
    PROVE  Table(C) = Table(D)
<1>1. ASSUME NEW i \in 0..(RowCount - 1), NEW v \in ByteValues, NEW w \in 0..(CodeSize - 1)
      PROVE  Entry(i, v, w, C) = Entry(i, v, w, D)
  <2>1. { b \in 0..(ByteBits - 1) : (i * ByteBits) + b < conf.bits /\ HasBit(v, b) /\ <<i, b, v>> \in C }
        = { b \in 0..(ByteBits - 1) : (i * ByteBits) + b < conf.bits /\ HasBit(v, b) /\ <<i, b, v>> \in D }
    OBVIOUS
  <2>2. QED
    BY <2>1, Zenon DEF Entry
<1>2. QED
  BY <1>1, Zenon DEF Table

(* One entry of the table gets one more row.                                *)
LEMMA FillStep ==
    ASSUME LinearAssumption, conf \in LinearConfs, NEW D, e = Table(D),
           NEW i \in 0..(RowCount - 1), NEW v \in ByteValues, NEW g \in 0..(ByteBits - 1),
           HasBit(v, g), <<i, g, v>> \notin D
    PROVE  [e EXCEPT ![i][v] = AddRow(@, (i * ByteBits) + g)] = Table(D \cup {<<i, g, v>>})
<1> DEFINE C == D \cup {<<i, g, v>>}
           r == (i * ByteBits) + g
<1>1. ByteBits \in Nat \ {0} /\ RowCount \in Nat
  BY Shifts, Shape
<1>2. r \in Nat
  <2>1. i * ByteBits \in Nat
    BY <1>1
  <2>2. QED
    BY <1>1, <2>1
<1>3. ASSUME NEW w \in 0..(CodeSize - 1), r < conf.bits, w < conf.blocks
      PROVE  Entry(i, v, w, C) = Xor(Entry(i, v, w, D), {<<r, w>>})
  <2>1. <<r, w>> \notin Entry(i, v, w, D)
    <3>1. SUFFICES ASSUME NEW b \in 0..(ByteBits - 1), <<i, b, v>> \in D, <<r, w>> = <<(i * ByteBits) + b, w>>
                   PROVE  FALSE
      BY <1>3 DEF Entry
    <3>2. (i * ByteBits) + g = (i * ByteBits) + b
      BY <3>1
    <3>3. g = b
      BY <1>1, <3>2, OneCell
    <3>4. QED
      BY <3>1, <3>3
  <2>2. { b \in 0..(ByteBits - 1) : (i * ByteBits) + b < conf.bits /\ HasBit(v, b) /\ <<i, b, v>> \in C }
        = { b \in 0..(ByteBits - 1) : (i * ByteBits) + b < conf.bits /\ HasBit(v, b) /\ <<i, b, v>> \in D }
            \cup {g}
    <3>1. \A b : <<i, b, v>> = <<i, g, v>> <=> b = g
      OBVIOUS
    <3>2. QED
      BY <1>3, <3>1
  <2>3. Entry(i, v, w, C) = Entry(i, v, w, D) \cup {<<r, w>>}
    BY <1>3, <2>2 DEF Entry
  <2>4. QED
    BY <2>1, <2>3 DEF Xor, SymDiff
<1>4. ASSUME NEW w \in 0..(CodeSize - 1), ~(r < conf.bits /\ w < conf.blocks)
      PROVE  Entry(i, v, w, C) = Entry(i, v, w, D)
  <2>1. { b \in 0..(ByteBits - 1) : (i * ByteBits) + b < conf.bits /\ HasBit(v, b) /\ <<i, b, v>> \in C }
        = { b \in 0..(ByteBits - 1) : (i * ByteBits) + b < conf.bits /\ HasBit(v, b) /\ <<i, b, v>> \in D }
        \/ ~(w < conf.blocks)
    <3>1. \A b : <<i, b, v>> = <<i, g, v>> <=> b = g
      OBVIOUS
    <3>2. QED
      BY <1>4, <3>1
  <2>2. QED
    BY <2>1, Zenon DEF Entry
<1>5. ASSUME NEW j \in 0..(RowCount - 1), NEW u \in ByteValues, NEW w \in 0..(CodeSize - 1), ~(j = i /\ u = v)
      PROVE  Entry(j, u, w, C) = Entry(j, u, w, D)
  <2>1. \A b : <<j, b, u>> # <<i, g, v>>
    BY <1>5
  <2>2. { b \in 0..(ByteBits - 1) : (j * ByteBits) + b < conf.bits /\ HasBit(u, b) /\ <<j, b, u>> \in C }
        = { b \in 0..(ByteBits - 1) : (j * ByteBits) + b < conf.bits /\ HasBit(u, b) /\ <<j, b, u>> \in D }
    BY <2>1
  <2>3. QED
    BY <2>2, Zenon DEF Entry
<1>6. AddRow(e[i][v], r) = [w \in 0..(CodeSize - 1) |-> Entry(i, v, w, C)]
  <2>1. e[i][v] = [w \in 0..(CodeSize - 1) |-> Entry(i, v, w, D)]
    BY Zenon DEF Table
  <2>2. AddRow(e[i][v], r) = [w \in 0..(CodeSize - 1) |->
             IF r < conf.bits /\ w < conf.blocks THEN Xor(Entry(i, v, w, D), {<<r, w>>}) ELSE Entry(i, v, w, D)]
    <3> HIDE DEF r
    <3>1. QED
      BY <2>1 DEF AddRow
  <2>3. QED
    <3> HIDE DEF r, C
    <3>1. QED
      BY <1>3, <1>4, <2>2
<1>7. [e EXCEPT ![i][v] = AddRow(@, r)]
        = [j \in 0..(RowCount - 1) |-> [u \in ByteValues |->
             IF j = i /\ u = v THEN AddRow(e[i][v], r) ELSE e[j][u]]]
  <2> HIDE DEF r
  <2>1. e = [j \in 0..(RowCount - 1) |-> [u \in ByteValues |-> e[j][u]]]
    BY Zenon DEF Table
  <2>2. QED
    BY <2>1
<1>8. ASSUME NEW j \in 0..(RowCount - 1), NEW u \in ByteValues
      PROVE  (IF j = i /\ u = v THEN AddRow(e[i][v], r) ELSE e[j][u])
             = [w \in 0..(CodeSize - 1) |-> Entry(j, u, w, C)]
  <2> HIDE DEF r, C
  <2>1. CASE j = i /\ u = v
    BY <1>6, <2>1
  <2>2. CASE ~(j = i /\ u = v)
    <3>1. e[j][u] = [w \in 0..(CodeSize - 1) |-> Entry(j, u, w, D)]
      BY Zenon DEF Table
    <3>2. QED
      BY <1>5, <2>2, <3>1
  <2>3. QED
    BY <2>1, <2>2
<1>9. QED
  <2> HIDE DEF r, C
  <2>1. [j \in 0..(RowCount - 1) |-> [u \in ByteValues |->
             IF j = i /\ u = v THEN AddRow(e[i][v], r) ELSE e[j][u]]] = Table(C)
    BY <1>8, ZenonT(60) DEF Table
  <2>2. [e EXCEPT ![i][v] = AddRow(@, r)] = Table(C)
    BY <1>7, <2>1
  <2>3. QED
    BY <2>2 DEF r, C

(* The loops go to the next entry with the bit, to the next bit, or to the    *)
(* next byte, and pass no entry with the bit.                               *)
LEMMA EntryDone ==
    ASSUME LinearAssumption, conf \in LinearConfs,
           NEW i \in 0..(RowCount - 1), NEW g \in 0..(ByteBits - 1), NEW v \in ByteValues, HasBit(v, g),
           NextValue(g, v) \in ByteValues
    PROVE  Table(Earlier(i, g, v) \cup {<<i, g, v>>}) = Table(Earlier(i, g, NextValue(g, v)))
<1>1. PICK n \in ByteValues : n = NextValue(g, v)
  OBVIOUS
<1>2. v < n /\ \A u \in ByteValues : v < u /\ u < n => ~HasBit(u, g)
  BY <1>1, NextValueIs
<1>3. RowCount \in Nat /\ ByteBits \in Nat /\ ByteValues \subseteq Nat
  <2>1. RowCount \in Nat
    BY Shape
  <2>2. ByteBits \in Nat /\ Shl1[ByteBits] \in Nat
    BY Shifts, ByteBits \in 0..ByteBits
  <2>3. QED
    BY <2>1, <2>2 DEF ByteValues
<1>4. ASSUME NEW j \in 0..(RowCount - 1), NEW b \in 0..(ByteBits - 1), NEW u \in ByteValues, HasBit(u, b)
      PROVE  <<j, b, u>> \in Earlier(i, g, v) \cup {<<i, g, v>>} <=> <<j, b, u>> \in Earlier(i, g, n)
  <2>1. j \in Nat /\ b \in Nat /\ u \in Nat
    BY <1>3
  <2>2. j = i /\ b = g => ~(v < u /\ u < n)
    BY <1>2, <1>4
  <2>3. <<j, b, u>> \in Earlier(i, g, v) <=> (j < i \/ (j = i /\ (b < g \/ (b = g /\ u < v))))
    BY <2>1 DEF Earlier
  <2>4. <<j, b, u>> \in Earlier(i, g, n) <=> (j < i \/ (j = i /\ (b < g \/ (b = g /\ u < n))))
    BY <2>1 DEF Earlier
  <2>5. v \in Nat /\ n \in Nat
    BY <1>3
  <2>6. QED
    BY <1>2, <2>1, <2>2, <2>3, <2>4, <2>5
<1>5. QED
  BY <1>1, <1>4, SameTable

LEMMA BitDone ==
    ASSUME LinearAssumption, conf \in LinearConfs,
           NEW i \in 0..(RowCount - 1), NEW g \in 0..(ByteBits - 1), NEW v \in ByteValues, HasBit(v, g),
           NextValue(g, v) \notin ByteValues, g + 1 < ByteBits
    PROVE  Table(Earlier(i, g, v) \cup {<<i, g, v>>}) = Table(Earlier(i, g + 1, Shl1[g + 1]))
<1>1. RowCount \in Nat /\ ByteBits \in Nat /\ ByteValues \subseteq Nat
  BY Shape, Shifts DEF ByteValues
<1>2. g + 1 \in 0..(ByteBits - 1)
  BY <1>1
<1>3. PICK s \in ByteValues : s = Shl1[g + 1]
  BY <1>2, Shifts
<1>4. \A u \in ByteValues : u < s => ~HasBit(u, g + 1)
  BY <1>2, <1>3, FirstWithBit
<1>5. \A u \in ByteValues : v < u => ~HasBit(u, g)
  <2>1. PICK n \in Nat : n = NextValue(g, v) /\ \A u \in ByteValues : v < u /\ u < n => ~HasBit(u, g)
    BY NextValueIs
  <2>2. \A u \in ByteValues : u < n
    BY <2>1, Shifts, ByteBits \in 0..ByteBits, <1>1 DEF ByteValues
  <2>3. QED
    BY <2>1, <2>2
<1>6. ASSUME NEW j \in 0..(RowCount - 1), NEW b \in 0..(ByteBits - 1), NEW u \in ByteValues, HasBit(u, b)
      PROVE  <<j, b, u>> \in Earlier(i, g, v) \cup {<<i, g, v>>} <=> <<j, b, u>> \in Earlier(i, g + 1, s)
  <2>1. j \in Nat /\ b \in Nat /\ u \in Nat /\ v \in Nat /\ s \in Nat /\ g \in Nat
    BY <1>1
  <2>2. (b = g => ~(v < u)) /\ (b = g + 1 => ~(u < s))
    BY <1>4, <1>5, <1>6
  <2>3. <<j, b, u>> \in Earlier(i, g, v) <=> (j < i \/ (j = i /\ (b < g \/ (b = g /\ u < v))))
    BY <2>1 DEF Earlier
  <2>4. <<j, b, u>> \in Earlier(i, g + 1, s) <=> (j < i \/ (j = i /\ (b < g + 1 \/ (b = g + 1 /\ u < s))))
    BY <2>1 DEF Earlier
  <2>5. QED
    BY <2>1, <2>2, <2>3, <2>4
<1>7. QED
  BY <1>3, <1>6, SameTable

LEMMA ByteDone ==
    ASSUME LinearAssumption, conf \in LinearConfs,
           NEW i \in 0..(RowCount - 1), NEW g \in 0..(ByteBits - 1), NEW v \in ByteValues, HasBit(v, g),
           NextValue(g, v) \notin ByteValues, g + 1 = ByteBits
    PROVE  /\ Table(Earlier(i, g, v) \cup {<<i, g, v>>}) = Table(Earlier(i + 1, 0, 1))
           /\ i + 1 = RowCount => Table(Earlier(i + 1, 0, 1)) = Table(All)
<1>1. RowCount \in Nat /\ ByteBits \in Nat /\ ByteValues \subseteq Nat
  BY Shape, Shifts DEF ByteValues
<1>2. \A u \in ByteValues : u < 1 => ~HasBit(u, 0)
  <2>1. 0 \in 0..(ByteBits - 1) /\ Shl1[0] = 1
    BY Shifts
  <2>2. QED
    BY <2>1, FirstWithBit
<1>3. \A u \in ByteValues : v < u => ~HasBit(u, g)
  <2>1. PICK n \in Nat : n = NextValue(g, v) /\ \A u \in ByteValues : v < u /\ u < n => ~HasBit(u, g)
    BY NextValueIs
  <2>2. \A u \in ByteValues : u < n
    BY <2>1, Shifts, ByteBits \in 0..ByteBits, <1>1 DEF ByteValues
  <2>3. QED
    BY <2>1, <2>2
<1>4. ASSUME NEW j \in 0..(RowCount - 1), NEW b \in 0..(ByteBits - 1), NEW u \in ByteValues, HasBit(u, b)
      PROVE  /\ <<j, b, u>> \in Earlier(i, g, v) \cup {<<i, g, v>>} <=> <<j, b, u>> \in Earlier(i + 1, 0, 1)
             /\ i + 1 = RowCount => <<j, b, u>> \in Earlier(i + 1, 0, 1)
  <2>1. j \in Nat /\ b \in Nat /\ u \in Nat /\ v \in Nat /\ g \in Nat /\ i \in Nat
    BY <1>1
  <2>2. (b = g => ~(v < u)) /\ (b = 0 => ~(u < 1)) /\ b <= g
    BY <1>1, <1>2, <1>3, <1>4
  <2>3. <<j, b, u>> \in Earlier(i, g, v) <=> (j < i \/ (j = i /\ (b < g \/ (b = g /\ u < v))))
    BY <2>1 DEF Earlier
  <2>4. <<j, b, u>> \in Earlier(i + 1, 0, 1) <=> (j < i + 1 \/ (j = i + 1 /\ (b < 0 \/ (b = 0 /\ u < 1))))
    BY <2>1 DEF Earlier
  <2>5. QED
    BY <1>1, <2>1, <2>2, <2>3, <2>4
<1>5. \A j \in 0..(RowCount - 1), b \in 0..(ByteBits - 1), u \in ByteValues : <<j, b, u>> \in All
  BY <1>1 DEF All
<1>6. QED
  BY <1>4, <1>5, SameTable

---------------------------------------------------------------------------
(* The lanes. *)

(* What the lookup of a byte adds to block w: nothing, for a padding row.    *)
RowOf(i, w) == IF i < PlaintextU8Size THEN Entry(i, conf.plaintext[i], w, All) ELSE {}
CodeWordOf(w) == { <<r, w>> : r \in { x \in 0..(conf.bits - 1) : BitSet(x) } }

LEMMA Lookup ==
    ASSUME LinearAssumption, conf \in LinearConfs, e = Table(All),
           NEW i \in 0..(RowCount - 1), NEW w \in 0..(CodeSize - 1), NEW junk \in Junk
    PROVE  e[i][ByteView(i, junk)][w] = RowOf(i, w)
<1>1. /\ PlaintextU8Size \in Nat /\ RowCount \in Nat /\ ByteBits \in Nat \ {0} /\ conf.bits \in Nat
      /\ conf.bits <= PlaintextU8Size * ByteBits
      /\ conf.plaintext \in [0..(PlaintextU8Size - 1) -> ByteValues]
  <2>1. ByteBits \in Nat \ {0}
    BY Shifts
  <2>2. QED
    BY <2>1, Shape
<1>2. ByteView(i, junk) \in ByteValues
  <2>1. junk \in ByteValues
    BY DEF LinearAssumption
  <2>2. QED
    BY <1>1, <2>1 DEF ByteView
<1>3. e[i][ByteView(i, junk)][w] = Entry(i, ByteView(i, junk), w, All)
  BY <1>2, Zenon DEF Table
<1>4. CASE i < PlaintextU8Size
  BY <1>3, <1>4 DEF ByteView, RowOf
<1>5. CASE ~(i < PlaintextU8Size)
  <2>1. ASSUME NEW b \in 0..(ByteBits - 1) PROVE ~((i * ByteBits) + b < conf.bits)
    <3>1. PICK u \in Nat, k \in Nat \ {0} : u = PlaintextU8Size /\ k = ByteBits
      BY <1>1
    <3>2. (u * k) + 0 <= (i * k) + b
      <4>1. CASE u = i
        <5>1. u * k \in Nat
          OBVIOUS
        <5>2. QED
          BY <3>1, <4>1, <5>1
      <4>2. CASE u < i
        <5>1. (u * k) + 0 < (i * k) + b
          BY <3>1, <4>2, RowsInOrder, 0 \in 0..(k - 1)
        <5>2. u * k \in Nat /\ i * k \in Nat
          OBVIOUS
        <5>3. QED
          BY <5>1, <5>2
      <4>3. QED
        BY <1>1, <1>5, <3>1, <4>1, <4>2
    <3>3. u * k \in Nat /\ i * k \in Nat
      OBVIOUS
    <3>4. QED
      BY <1>1, <3>1, <3>2, <3>3
  <2>2. \A y : Entry(i, y, w, All) = {}
    BY <2>1 DEF Entry
  <2>3. QED
    BY <1>3, <1>5, <2>2 DEF RowOf
<1>6. QED
  BY <1>4, <1>5

LEMMA RowsApart ==
    ASSUME LinearAssumption, NEW i \in Nat, NEW j \in Nat, NEW w, NEW x, x \in RowOf(i, w), x \in RowOf(j, w)
    PROVE  i = j
<1>1. PICK b \in 0..(ByteBits - 1) : x = <<(i * ByteBits) + b, w>>
  BY DEF RowOf, Entry
<1>2. PICK c \in 0..(ByteBits - 1) : x = <<(j * ByteBits) + c, w>>
  BY DEF RowOf, Entry
<1>3. (i * ByteBits) + b = (j * ByteBits) + c
  BY <1>1, <1>2
<1>4. QED
  BY <1>3, OneCell, Shifts

(* Lane k of step lanes, when the first n rows have been looked up.          *)
Lane(k, step, n, w) == UNION { RowOf(i, w) : i \in { j \in 0..(n - 1) : j % step = k } }

Multiple(n, step) == \E m \in Nat : n = m * step

LEMMA LaneStep ==
    ASSUME LinearAssumption, NEW step \in Nat \ {0}, NEW n \in Nat, Multiple(n, step),
           NEW k \in 0..(step - 1), NEW w
    PROVE  Xor(Lane(k, step, n, w), RowOf(n + k, w)) = Lane(k, step, n + step, w)
<1> PICK m \in Nat : n = m * step
  BY DEF Multiple
<1> DEFINE Rest(j) == j % step
<1>1. { j \in 0..((n + step) - 1) : Rest(j) = k } = { j \in 0..(n - 1) : Rest(j) = k } \cup {n + k}
  <2>1. ASSUME NEW t \in 0..(step - 1) PROVE Rest(n + t) = t
    BY CellOf
  <2>2. ASSUME NEW j \in 0..((n + step) - 1), Rest(j) = k, j \notin 0..(n - 1) PROVE j = n + k
    <3>1. PICK t \in 0..(step - 1) : j = n + t
      <4>1. j - n \in 0..(step - 1) /\ j = n + (j - n)
        BY <2>2
      <4>2. QED
        BY <4>1
    <3>2. QED
      BY <2>1, <2>2, <3>1
  <2>3. n + k \in 0..((n + step) - 1) /\ Rest(n + k) = k
    BY <2>1
  <2>4. 0..(n - 1) \subseteq 0..((n + step) - 1)
    OBVIOUS
  <2>5. QED
    <3> HIDE DEF Rest
    <3>1. QED
      BY <2>2, <2>3, <2>4
<1>2. Lane(k, step, n + step, w) = Lane(k, step, n, w) \cup RowOf(n + k, w)
  <2>1. \A j : Rest(j) = j % step
    OBVIOUS
  <2> HIDE DEF Rest
  <2>2. Lane(k, step, n + step, w) = UNION { RowOf(i, w) : i \in { j \in 0..((n + step) - 1) : Rest(j) = k } }
    BY <2>1, Zenon DEF Lane
  <2>3. Lane(k, step, n, w) = UNION { RowOf(i, w) : i \in { j \in 0..(n - 1) : Rest(j) = k } }
    BY <2>1, Zenon DEF Lane
  <2>4. QED
    BY <1>1, <2>2, <2>3
<1>3. ASSUME NEW x, x \in Lane(k, step, n, w), x \in RowOf(n + k, w) PROVE FALSE
  <2>1. PICK i \in 0..(n - 1) : x \in RowOf(i, w)
    BY <1>3 DEF Lane
  <2>2. i = n + k
    BY <1>3, <2>1, RowsApart
  <2>3. QED
    BY <2>2
<1>4. QED
  BY <1>2, <1>3 DEF Xor, SymDiff

LEMMA DisjointSum ==
    ASSUME NEW S, IsFiniteSet(S), NEW f,
           \A x : \A s, t \in S : x \in f[s] /\ x \in f[t] => s = t
    PROVE  XorSum(f, S) = UNION { f[s] : s \in S }
<1>1. ASSUME NEW x PROVE x \in XorSum(f, S) <=> x \in UNION { f[s] : s \in S }
  <2>1. x \in XorSum(f, S) <=> Cardinality({ s \in S : x \in f[s] }) % 2 = 1
    BY InXorSum
  <2>2. CASE \E s \in S : x \in f[s]
    <3>1. PICK s \in S : x \in f[s]
      BY <2>2
    <3>2. { t \in S : x \in f[t] } = {s}
      BY <3>1
    <3>3. Cardinality({s}) = 1
      BY FS_Singleton
    <3>4. QED
      BY <2>1, <3>1, <3>2, <3>3
  <2>3. CASE ~\E s \in S : x \in f[s]
    <3>1. { t \in S : x \in f[t] } = {}
      BY <2>3
    <3>2. Cardinality({}) = 0
      BY FS_EmptySet
    <3>3. QED
      BY <2>1, <2>3, <3>1, <3>2
  <2>4. QED
    BY <2>2, <2>3
<1>2. QED
  BY <1>1

LEMMA LanesSum ==
    ASSUME LinearAssumption, NEW step \in Nat \ {0}, NEW n \in Nat, NEW w, NEW f,
           \A k \in 0..(step - 1) : f[k] = Lane(k, step, n, w)
    PROVE  XorSum(f, 0..(step - 1)) = UNION { RowOf(i, w) : i \in 0..(n - 1) }
<1> DEFINE Rest(j) == j % step
<1>1. \A k \in 0..(step - 1) : \A x : x \in f[k] <=> \E i \in 0..(n - 1) : Rest(i) = k /\ x \in RowOf(i, w)
  BY DEF Lane
<1>2. \A i \in Nat : Rest(i) \in 0..(step - 1)
  BY DivMod
<1> HIDE DEF Rest
<1>3. ASSUME NEW x, NEW k \in 0..(step - 1), NEW l \in 0..(step - 1), x \in f[k], x \in f[l] PROVE k = l
  <2>1. PICK i \in 0..(n - 1) : Rest(i) = k /\ x \in RowOf(i, w)
    BY <1>1, <1>3
  <2>2. PICK j \in 0..(n - 1) : Rest(j) = l /\ x \in RowOf(j, w)
    BY <1>1, <1>3
  <2>3. i = j
    BY <2>1, <2>2, RowsApart
  <2>4. QED
    BY <2>1, <2>2, <2>3
<1>4. XorSum(f, 0..(step - 1)) = UNION { f[k] : k \in 0..(step - 1) }
  <2>1. IsFiniteSet(0..(step - 1))
    BY FS_Interval
  <2>2. QED
    BY <1>3, <2>1, DisjointSum
<1>5. ASSUME NEW x
      PROVE  x \in UNION { f[k] : k \in 0..(step - 1) } <=> x \in UNION { RowOf(i, w) : i \in 0..(n - 1) }
  BY <1>1, <1>2
<1>6. QED
  BY <1>4, <1>5

(* All rows together are the code word.                                     *)
LEMMA WholeWord ==
    ASSUME LinearAssumption, conf \in LinearConfs, NEW w \in 0..(conf.blocks - 1),
           NEW n \in Nat, PlaintextU8Size <= n
    PROVE  UNION { RowOf(i, w) : i \in 0..(n - 1) } = CodeWordOf(w)
<1>1. /\ PlaintextU8Size \in Nat /\ ByteBits \in Nat \ {0} /\ conf.bits \in Nat /\ conf.blocks \in Nat
      /\ conf.bits <= PlaintextU8Size * ByteBits
  BY Shape, Shifts
<1>2. w < conf.blocks
  BY <1>1
<1>3. ASSUME NEW x, x \in UNION { RowOf(i, w) : i \in 0..(n - 1) } PROVE x \in CodeWordOf(w)
  <2>1. PICK i \in 0..(n - 1) : i < PlaintextU8Size /\ x \in Entry(i, conf.plaintext[i], w, All)
    BY <1>3 DEF RowOf
  <2>2. PICK b \in 0..(ByteBits - 1) :
            (i * ByteBits) + b < conf.bits /\ HasBit(conf.plaintext[i], b) /\ x = <<(i * ByteBits) + b, w>>
    BY <1>2, <2>1 DEF Entry
  <2>3. PICK r \in Nat : r = (i * ByteBits) + b
    <3>1. i * ByteBits \in Nat
      BY <1>1
    <3>2. QED
      BY <1>1, <3>1
  <2>4. r \div ByteBits = i /\ r % ByteBits = b
    <3>1. i \in Nat /\ ByteBits \in Nat \ {0}
      BY <1>1
    <3>2. ((i * ByteBits) + b) \div ByteBits = i /\ ((i * ByteBits) + b) % ByteBits = b
      BY <3>1, CellOf
    <3>3. QED
      BY <2>3, <3>2
  <2>5. BitSet(r)
    BY <2>2, <2>4 DEF BitSet, HasBit
  <2>6. r \in 0..(conf.bits - 1) /\ x = <<r, w>>
    BY <1>1, <2>2, <2>3
  <2>7. QED
    BY <2>5, <2>6 DEF CodeWordOf
<1>4. ASSUME NEW x, x \in CodeWordOf(w) PROVE x \in UNION { RowOf(i, w) : i \in 0..(n - 1) }
  <2>1. PICK r \in 0..(conf.bits - 1) : BitSet(r) /\ x = <<r, w>>
    BY <1>4 DEF CodeWordOf
  <2>2. PICK i \in Nat, b \in 0..(ByteBits - 1) : i = r \div ByteBits /\ b = r % ByteBits /\ (i * ByteBits) + b = r
    <3>1. r \in Nat
      BY <1>1
    <3>2. QED
      BY <1>1, <3>1, DivMod
  <2>3. HasBit(conf.plaintext[i], b)
    BY <2>1, <2>2 DEF BitSet, HasBit
  <2>4. i < PlaintextU8Size
    <3>1. SUFFICES ASSUME ~(i < PlaintextU8Size) PROVE FALSE
      OBVIOUS
    <3>2. PICK u \in Nat, k \in Nat \ {0} : u = PlaintextU8Size /\ k = ByteBits
      BY <1>1
    <3>3. (u * k) + 0 <= (i * k) + b
      <4>1. u * k \in Nat /\ i * k \in Nat
        BY <2>2
      <4>2. CASE u = i
        BY <3>2, <4>1, <4>2
      <4>3. CASE u < i
        <5>1. (u * k) + 0 < (i * k) + b
          BY <3>2, <4>3, RowsInOrder, 0 \in 0..(k - 1)
        <5>2. QED
          BY <3>2, <4>1, <5>1
      <4>4. QED
        BY <3>1, <3>2, <4>2, <4>3
    <3>4. QED
      BY <1>1, <2>1, <2>2, <3>2, <3>3
  <2>5. i \in 0..(n - 1)
    BY <1>1, <2>4
  <2>6. <<i, b, conf.plaintext[i]>> \in All
    <3>1. conf.plaintext[i] \in ByteValues
      BY <2>4, Shape, i \in 0..(PlaintextU8Size - 1), <1>1
    <3>2. QED
      BY <1>1, <3>1 DEF All, ByteValues
  <2>7. x \in Entry(i, conf.plaintext[i], w, All)
    <3>1. x = <<(i * ByteBits) + b, w>> /\ (i * ByteBits) + b < conf.bits
      BY <1>1, <2>1, <2>2
    <3>2. QED
      BY <1>2, <2>3, <2>6, <3>1 DEF Entry
  <2>8. QED
    BY <2>4, <2>5, <2>7 DEF RowOf
<1>5. QED
  BY <1>3, <1>4
---------------------------------------------------------------------------
(* The invariant. *)

AtTable(i, g, v) ==
    at = [stage |-> "table", i |-> i, g |-> g, v |-> v, j |-> 0, c |-> NoBlocks, codeword |-> << >>]
AtEncode(i, g, v, j, c, word) ==
    at = [stage |-> "encode", i |-> i, g |-> g, v |-> v, j |-> j, c |-> c, codeword |-> word]

(* Nothing has been computed before the table is empty.                     *)
Unloaded ==
    at.stage = "load" =>
        at = [stage |-> "load", i |-> 0, g |-> 0, v |-> 0, j |-> 0, c |-> NoBlocks, codeword |-> << >>]

(* The table has the rows of the entries the loops have passed.              *)
Filled ==
    at.stage = "table" =>
        \E i \in 0..(RowCount - 1), g \in 0..(ByteBits - 1), v \in ByteValues :
            AtTable(i, g, v) /\ HasBit(v, g) /\ e = Table(Earlier(i, g, v))

(* Accumulator x has the rows of its lane: the rows below i that are as far   *)
(* from a multiple of the rows of a step as the accumulator is from the first. *)
NarrowLanes(i, c) ==
    /\ ~Wide /\ i \in 0..RowCount /\ Multiple(i, ByteStep)
    /\ \A x \in 0..7 : c[x] = Lane(x \div CodeSize, ByteStep, i, x % CodeSize)
WideLanes(i, j, c, word) ==
    /\ Wide /\ i \in 0..RowCount /\ j \in 0..(CodeSize - 1) /\ Multiple(i, 8)
    /\ \A x \in 0..7 : c[x] = Lane(x, 8, i, j)
    /\ \A w \in 0..(j - 1) : word[w] = CodeWordOf(w)

Encoding ==
    at.stage = "encode" =>
        /\ e = Table(All)
        /\ \E i, g, v, j, c, word :
              AtEncode(i, g, v, j, c, word) /\ (NarrowLanes(i, c) \/ WideLanes(i, j, c, word))

IInv == conf \in LinearConfs /\ Unloaded /\ Filled /\ Encoding /\ CodeWordExact

(* The sizes and sums do not change when the configuration does not.        *)
LEMMA Steady ==
    ASSUME UNCHANGED conf
    PROVE  /\ RowCount' = RowCount /\ CodeSize' = CodeSize /\ ByteStep' = ByteStep /\ Wide' = Wide
           /\ PlaintextU8Size' = PlaintextU8Size
           /\ \A D : Table(D)' = Table(D)
           /\ \A k, step, n, w : Lane(k, step, n, w)' = Lane(k, step, n, w)
           /\ \A w : CodeWordOf(w)' = CodeWordOf(w)
<1>1. PlaintextU8Size' = PlaintextU8Size
  BY DEF PlaintextU8Size
<1>2. RowCount' = RowCount
  BY <1>1 DEF RowCount
<1>3. CodeSize' = CodeSize
  BY DEF CodeSize
<1>4. ByteStep' = ByteStep /\ Wide' = Wide
  BY <1>3 DEF ByteStep, Wide
<1>5. ASSUME NEW i, NEW v, NEW w, NEW D PROVE Entry(i, v, w, D)' = Entry(i, v, w, D)
  BY DEF Entry
<1>6. ASSUME NEW D PROVE Table(D)' = Table(D)
  BY <1>2, <1>3, <1>5 DEF Table
<1>7. ASSUME NEW i, NEW w PROVE RowOf(i, w)' = RowOf(i, w)
  BY <1>1 DEF RowOf, Entry
<1>8. ASSUME NEW k, NEW step, NEW n, NEW w PROVE Lane(k, step, n, w)' = Lane(k, step, n, w)
  BY <1>7 DEF Lane
<1>9. ASSUME NEW w PROVE CodeWordOf(w)' = CodeWordOf(w)
  BY DEF CodeWordOf, BitSet
<1>10. QED
  BY <1>1, <1>2, <1>3, <1>4, <1>6, <1>8, <1>9

LEMMA NoLane ==
    ASSUME NEW k, NEW step, NEW w
    PROVE  Lane(k, step, 0, w) = {}
<1>1. 0..(0 - 1) = {}
  OBVIOUS
<1>2. QED
  BY <1>1 DEF Lane

(* Code words of up to eight blocks: the accumulators are the lanes of as many *)
(* rows as a step looks up.                                                  *)
LEMMA Narrow ==
    ASSUME LinearAssumption, conf \in LinearConfs, ~Wide
    PROVE  /\ ByteStep \in Nat \ {0} /\ CodeSize * ByteStep = 8
           /\ \A x \in 0..7 : x \div CodeSize \in 0..(ByteStep - 1) /\ x % CodeSize \in 0..(CodeSize - 1)
           /\ \A k \in 0..(ByteStep - 1), w \in 0..(CodeSize - 1) :
                 /\ (k * CodeSize) + w \in 0..7
                 /\ ((k * CodeSize) + w) \div CodeSize = k /\ ((k * CodeSize) + w) % CodeSize = w
           /\ \A m \in Nat : m * ByteStep < RowCount => (m * ByteStep) + ByteStep <= RowCount
<1>1. PICK z \in {1, 2, 4, 8} : z = CodeSize
  BY Shape
<1>2. PICK n \in Nat : RowCount = 8 * n
  BY Shape
<1>3. CASE z = 1
  <2>1. CodeSize = 1 /\ ByteStep = 8
    BY <1>1, <1>3 DEF ByteStep
  <2>2. QED
    BY <1>2, <2>1
<1>4. CASE z = 2
  <2>1. CodeSize = 2 /\ ByteStep = 4
    BY <1>1, <1>4 DEF ByteStep
  <2>2. QED
    BY <1>2, <2>1
<1>5. CASE z = 4
  <2>1. CodeSize = 4 /\ ByteStep = 2
    BY <1>1, <1>5 DEF ByteStep
  <2>2. QED
    BY <1>2, <2>1
<1>6. CASE z = 8
  <2>1. CodeSize = 8 /\ ByteStep = 1
    BY <1>1, <1>6 DEF ByteStep
  <2>2. QED
    BY <1>2, <2>1
<1>7. QED
  BY <1>3, <1>4, <1>5, <1>6

(* An empty table is the table of no rows.                                  *)
LEMMA EmptyTable ==
    ASSUME LinearAssumption, conf \in LinearConfs
    PROVE  Table(Earlier(0, 0, 1))
           = [i \in 0..(RowCount - 1) |-> [v \in ByteValues |-> [w \in 0..(CodeSize - 1) |-> ZeroBlock]]]
<1>1. 0 \in 0..(ByteBits - 1) /\ Shl1[0] = 1 /\ ByteBits \in Nat \ {0}
  BY Shifts
<1>2. \A u \in ByteValues : u < 1 => ~HasBit(u, 0)
  BY <1>1, FirstWithBit
<1>3. ASSUME NEW i \in 0..(RowCount - 1), NEW g \in 0..(ByteBits - 1), NEW v \in ByteValues, HasBit(v, g)
      PROVE  <<i, g, v>> \notin Earlier(0, 0, 1)
  <2>1. \/ i < 0 \/ (i = 0 /\ (g < 0 \/ (g = 0 /\ v < 1)))
        \/ <<i, g, v>> \notin Earlier(0, 0, 1)
    BY DEF Earlier
  <2>2. ~(i < 0) /\ ~(g < 0)
    OBVIOUS
  <2>3. QED
    BY <1>2, <1>3, <2>1, <2>2
<1>4. Table(Earlier(0, 0, 1)) = Table({})
  BY <1>3, SameTable
<1>5. ASSUME NEW i, NEW v, NEW w PROVE Entry(i, v, w, {}) = {}
  BY DEF Entry
<1>6. QED
  BY <1>4, <1>5 DEF Table, ZeroBlock
---------------------------------------------------------------------------
(* The steps. *)

LEMMA Start == LinearAssumption /\ LinearInit => IInv
BY DEF LinearInit, IInv, Unloaded, Filled, Encoding, CodeWordExact

LEMMA TooLongStep ==
    ASSUME LinearAssumption, IInv, TooLong
    PROVE  IInv'
<1>1. conf' \in LinearConfs /\ at'.stage = "threw"
  BY DEF IInv, TooLong, Unloaded
<1>2. QED
  BY <1>1 DEF IInv, Unloaded, Filled, Encoding, CodeWordExact

LEMMA LoadStep ==
    ASSUME LinearAssumption, IInv, Load
    PROVE  IInv'
<1>1. conf \in LinearConfs /\ conf' = conf
  BY DEF IInv, Load
<1>2. at' = [stage |-> "table", i |-> 0, g |-> 0, v |-> 1, j |-> 0, c |-> NoBlocks, codeword |-> << >>]
  <2>1. at = [stage |-> "load", i |-> 0, g |-> 0, v |-> 0, j |-> 0, c |-> NoBlocks, codeword |-> << >>]
    BY DEF IInv, Load, Unloaded
  <2>2. at' = [at EXCEPT !.stage = "table", !.v = 1]
    BY DEF Load
  <2>3. QED
    BY <2>1, <2>2
<1>3. e' = Table(Earlier(0, 0, 1))
  BY <1>1, EmptyTable DEF Load
<1>4. 0 \in 0..(ByteBits - 1) /\ 1 \in ByteValues /\ HasBit(1, 0)
  <2>1. 0 \in 0..(ByteBits - 1) /\ Shl1[0] = 1 /\ Shl1[0] \in ByteValues
    BY Shifts
  <2>2. QED
    BY <2>1, FirstWithBit
<1>5. 0 \in 0..(RowCount - 1)
  BY <1>1, Shape
<1>6. PICK D : D = Earlier(0, 0, 1)
  OBVIOUS
<1>7. AtTable(0, 0, 1)' /\ e' = Table(D)' /\ 0 \in 0..(RowCount' - 1)
  BY <1>1, <1>2, <1>3, <1>5, <1>6, Steady DEF AtTable, NoBlocks, ZeroBlock
<1>8. Filled'
  BY <1>4, <1>6, <1>7 DEF Filled
<1>9. at'.stage = "table"
  BY <1>2
<1>10. QED
  BY <1>1, <1>8, <1>9 DEF IInv, Unloaded, Encoding, CodeWordExact

(* One entry of the table more.                                             *)
LEMMA FillingStep ==
    ASSUME LinearAssumption, IInv, Filling
    PROVE  /\ conf \in LinearConfs /\ conf' = conf
           /\ \E i \in 0..(RowCount - 1), g \in 0..(ByteBits - 1), v \in ByteValues :
                 /\ AtTable(i, g, v) /\ HasBit(v, g)
                 /\ e' = Table(Earlier(i, g, v) \cup {<<i, g, v>>})
<1>1. conf \in LinearConfs /\ conf' = conf /\ at.stage = "table"
  BY DEF IInv, Filling
<1>2. PICK i \in 0..(RowCount - 1), g \in 0..(ByteBits - 1), v \in ByteValues :
          AtTable(i, g, v) /\ HasBit(v, g) /\ e = Table(Earlier(i, g, v))
  BY <1>1 DEF IInv, Filled
<1>3. at.i = i /\ at.g = g /\ at.v = v
  BY <1>2 DEF AtTable
<1>4. e' = [e EXCEPT ![i][v] = AddRow(@, (i * ByteBits) + g)]
  BY <1>3 DEF Filling
<1>5. <<i, g, v>> \notin Earlier(i, g, v)
  <2>1. i \in Int /\ g \in Int /\ v \in Int
    BY DEF ByteValues
  <2>2. QED
    BY <2>1 DEF Earlier
<1>6. e' = Table(Earlier(i, g, v) \cup {<<i, g, v>>})
  <2>1. PICK D : D = Earlier(i, g, v)
    OBVIOUS
  <2>2. e = Table(D) /\ <<i, g, v>> \notin D
    BY <1>2, <1>5, <2>1
  <2>3. [e EXCEPT ![i][v] = AddRow(@, (i * ByteBits) + g)] = Table(D \cup {<<i, g, v>>})
    BY <1>1, <1>2, <2>2, FillStep
  <2>4. QED
    BY <1>4, <2>1, <2>3
<1>7. QED
  BY <1>1, <1>2, <1>6

LEMMA TableStep ==
    ASSUME LinearAssumption, conf \in LinearConfs, UNCHANGED conf,
           NEW i \in 0..(RowCount - 1), NEW g \in 0..(ByteBits - 1), NEW v \in ByteValues,
           AtTable(i, g, v)', HasBit(v, g), e' = Table(Earlier(i, g, v))
    PROVE  IInv'
<1>1. PICK D : D = Earlier(i, g, v)
  OBVIOUS
<1>2. e' = Table(D)' /\ i \in 0..(RowCount' - 1)
  BY <1>1, Steady
<1>3. Filled'
  BY <1>1, <1>2 DEF Filled
<1>4. at'.stage = "table"
  BY DEF AtTable
<1>5. QED
  BY <1>3, <1>4 DEF IInv, Unloaded, Encoding, CodeWordExact

LEMMA NextEntryStep ==
    ASSUME LinearAssumption, IInv, NextEntry
    PROVE  IInv'
<1>1. conf \in LinearConfs /\ conf' = conf
  BY FillingStep DEF NextEntry
<1>2. PICK i \in 0..(RowCount - 1), g \in 0..(ByteBits - 1), v \in ByteValues :
          AtTable(i, g, v) /\ HasBit(v, g) /\ e' = Table(Earlier(i, g, v) \cup {<<i, g, v>>})
  BY FillingStep DEF NextEntry
<1>3. PICK n \in ByteValues : n = NextValue(g, v)
  BY <1>2 DEF NextEntry, AtTable
<1>4. AtTable(i, g, n)'
  BY <1>2, <1>3 DEF NextEntry, AtTable, NoBlocks
<1>5. HasBit(n, g)
  BY <1>2, <1>3, NextValueIs
<1>6. e' = Table(Earlier(i, g, n))
  BY <1>1, <1>2, <1>3, EntryDone
<1>7. QED
  BY <1>1, <1>4, <1>5, <1>6, TableStep

LEMMA NextBitStep ==
    ASSUME LinearAssumption, IInv, NextBit
    PROVE  IInv'
<1>1. conf \in LinearConfs /\ conf' = conf
  BY FillingStep DEF NextBit
<1>2. PICK i \in 0..(RowCount - 1), g \in 0..(ByteBits - 1), v \in ByteValues :
          AtTable(i, g, v) /\ HasBit(v, g) /\ e' = Table(Earlier(i, g, v) \cup {<<i, g, v>>})
  BY FillingStep DEF NextBit
<1>3. NextValue(g, v) \notin ByteValues /\ g + 1 < ByteBits
  BY <1>2 DEF NextBit, AtTable
<1>4. PICK h \in 0..(ByteBits - 1) : h = g + 1
  BY <1>3, Shifts
<1>5. PICK s \in ByteValues : s = Shl1[h] /\ HasBit(s, h)
  BY Shifts, FirstWithBit
<1>6. AtTable(i, h, s)'
  BY <1>2, <1>4, <1>5 DEF NextBit, AtTable, NoBlocks
<1>7. e' = Table(Earlier(i, h, s))
  BY <1>1, <1>2, <1>3, <1>4, <1>5, BitDone
<1>8. QED
  BY <1>1, <1>5, <1>6, <1>7, TableStep

LEMMA NextByteStep ==
    ASSUME LinearAssumption, IInv, NextByte
    PROVE  IInv'
<1>1. conf \in LinearConfs /\ conf' = conf
  BY FillingStep DEF NextByte
<1>2. PICK i \in 0..(RowCount - 1), g \in 0..(ByteBits - 1), v \in ByteValues :
          AtTable(i, g, v) /\ HasBit(v, g) /\ e' = Table(Earlier(i, g, v) \cup {<<i, g, v>>})
  BY FillingStep DEF NextByte
<1>3. NextValue(g, v) \notin ByteValues /\ g + 1 = ByteBits
  BY <1>2 DEF NextByte, AtTable
<1>4. /\ e' = Table(Earlier(i + 1, 0, 1))
      /\ i + 1 = RowCount => e' = Table(All)
  BY <1>1, <1>2, <1>3, ByteDone
<1>5. CASE i + 1 < RowCount
  <2>1. PICK k \in 0..(RowCount - 1) : k = i + 1
    BY <1>1, <1>5, Shape
  <2>2. 0 \in 0..(ByteBits - 1) /\ 1 \in ByteValues /\ HasBit(1, 0)
    <3>1. 0 \in 0..(ByteBits - 1) /\ Shl1[0] = 1 /\ Shl1[0] \in ByteValues
      BY Shifts
    <3>2. QED
      BY <3>1, FirstWithBit
  <2>3. AtTable(k, 0, 1)'
    BY <1>2, <1>5, <2>1 DEF NextByte, AtTable, NoBlocks
  <2>4. QED
    BY <1>1, <1>4, <2>1, <2>2, <2>3, TableStep
<1>6. CASE ~(i + 1 < RowCount)
  <2>1. i + 1 = RowCount
    BY <1>1, <1>6, Shape
  <2>2. e' = Table(All)'
    BY <1>1, <1>4, <2>1, Steady
  <2>3. AtEncode(0, g, v, 0, NoBlocks, << >>)'
    BY <1>2, <1>6 DEF NextByte, AtTable, AtEncode, NoBlocks
  <2>4. 0 \in 0..RowCount /\ 0 \in 0..(CodeSize - 1) /\ \A x \in 0..7 : NoBlocks[x] = {}
    BY <1>1, Shape DEF NoBlocks, ZeroBlock
  <2>5. CASE Wide
    <3>1. WideLanes(0, 0, NoBlocks, << >>)
      <4>1. Multiple(0, 8) /\ 0..(0 - 1) = {}
        <5>1. 0 = 0 * 8 /\ 0 \in Nat
          OBVIOUS
        <5>2. QED
          BY <5>1 DEF Multiple
      <4>2. QED
        BY <2>4, <2>5, <4>1, NoLane DEF WideLanes
    <3>2. WideLanes(0, 0, NoBlocks, << >>)'
      BY <1>1, <3>1, Steady DEF WideLanes, NoBlocks
    <3>3. QED
      BY <1>1, <2>2, <2>3, <3>2 DEF IInv, Encoding, AtEncode, Unloaded, Filled, CodeWordExact
  <2>6. CASE ~Wide
    <3>1. NarrowLanes(0, NoBlocks)
      <4>1. 0 = 0 * ByteStep /\ 0 \in Nat
        BY <1>1, <2>6, Narrow
      <4> Multiple(0, ByteStep)
        BY <4>1 DEF Multiple
      <4>2. QED
        BY <2>4, <2>6, <4>1, NoLane DEF NarrowLanes
    <3>2. NarrowLanes(0, NoBlocks)'
      BY <1>1, <3>1, Steady DEF NarrowLanes, NoBlocks
    <3>3. QED
      BY <1>1, <2>2, <2>3, <3>2 DEF IInv, Encoding, AtEncode, Unloaded, Filled, CodeWordExact
  <2>7. QED
    BY <2>5, <2>6
<1>7. QED
  BY <1>5, <1>6
LEMMA LookupNarrowStep ==
    ASSUME LinearAssumption, IInv, LookupNarrow
    PROVE  IInv'
<1>1. conf \in LinearConfs /\ UNCHANGED conf /\ e' = e /\ e = Table(All) /\ at.stage = "encode" /\ ~Wide
  BY DEF IInv, LookupNarrow, Encoding
<1>2. PICK i, g, v, j, c, word :
          AtEncode(i, g, v, j, c, word) /\ (NarrowLanes(i, c) \/ WideLanes(i, j, c, word))
  BY <1>1 DEF IInv, Encoding
<1>3. NarrowLanes(i, c)
  BY <1>1, <1>2 DEF WideLanes
<1>4. PICK S \in Nat \ {0} : S = ByteStep
  BY <1>1, Narrow
<1>5. PICK m \in Nat : i = m * S
  BY <1>3, <1>4 DEF NarrowLanes, Multiple
<1>6. i \in Nat /\ i < RowCount /\ RowCount \in Nat
  BY <1>1, <1>2, <1>3, Shape DEF LookupNarrow, AtEncode, NarrowLanes
<1>7. PICK n \in 0..RowCount : n = i + S
  BY <1>1, <1>4, <1>5, <1>6, Narrow
<1>8. PICK junk \in [0..(S - 1) -> Junk] :
          at' = [at EXCEPT !.i = @ + S,
                    !.c = [x \in 0..7 |->
                             Xor(@[x], e[at.i + (x \div CodeSize)]
                                        [ByteView(at.i + (x \div CodeSize), junk[x \div CodeSize])][x % CodeSize])]]
  BY <1>4 DEF LookupNarrow
<1>9. PICK d : d = [x \in 0..7 |->
                     Xor(c[x], e[i + (x \div CodeSize)]
                                [ByteView(i + (x \div CodeSize), junk[x \div CodeSize])][x % CodeSize])]
  OBVIOUS
<1>10. AtEncode(n, g, v, j, d, word)'
  <2>1. at = [stage |-> "encode", i |-> i, g |-> g, v |-> v, j |-> j, c |-> c, codeword |-> word]
    BY <1>2 DEF AtEncode
  <2>2. at.i = i /\ at.c = c
    BY <2>1
  <2>3. at' = [at EXCEPT !.i = n, !.c = d]
    BY <1>7, <1>8, <1>9, <2>2
  <2>4. QED
    BY <2>1, <2>3 DEF AtEncode
<1>11. ASSUME NEW x \in 0..7 PROVE d[x] = Lane(x \div CodeSize, S, n, x % CodeSize)
  <2>1. PICK k \in 0..(S - 1), w \in 0..(CodeSize - 1) : k = x \div CodeSize /\ w = x % CodeSize
    BY <1>1, <1>4, Narrow
  <2>2. d[x] = Xor(c[x], e[i + k][ByteView(i + k, junk[k])][w])
    BY <1>9, <2>1
  <2>3. c[x] = Lane(k, S, i, w)
    BY <1>3, <1>4, <2>1 DEF NarrowLanes
  <2>4. PICK r \in 0..(RowCount - 1) : r = i + k
    BY <1>6, <1>7
  <2>5. e[r][ByteView(r, junk[k])][w] = RowOf(r, w)
    BY <1>1, <1>8, Lookup
  <2>6. Xor(Lane(k, S, i, w), RowOf(i + k, w)) = Lane(k, S, i + S, w)
    BY <1>3, <1>4, <1>6, LaneStep DEF NarrowLanes
  <2>7. QED
    BY <1>7, <2>1, <2>2, <2>3, <2>4, <2>5, <2>6
<1>12. NarrowLanes(n, d)
  <2>1. Multiple(n, S)
    <3>1. m + 1 \in Nat /\ n = (m + 1) * S
      BY <1>5, <1>7
    <3>2. QED
      BY <3>1 DEF Multiple
  <2>2. QED
    BY <1>1, <1>4, <1>11, <2>1 DEF NarrowLanes
<1>13. NarrowLanes(n, d)' /\ e' = Table(All)'
  BY <1>1, <1>12, Steady DEF NarrowLanes
<1>14. QED
  BY <1>1, <1>10, <1>13 DEF IInv, Encoding, AtEncode, Unloaded, Filled, CodeWordExact

LEMMA LookupWideStep ==
    ASSUME LinearAssumption, IInv, LookupWide
    PROVE  IInv'
<1>1. conf \in LinearConfs /\ UNCHANGED conf /\ e' = e /\ e = Table(All) /\ at.stage = "encode" /\ Wide
  BY DEF IInv, LookupWide, Encoding
<1>2. PICK i, g, v, j, c, word :
          AtEncode(i, g, v, j, c, word) /\ (NarrowLanes(i, c) \/ WideLanes(i, j, c, word))
  BY <1>1 DEF IInv, Encoding
<1>3. WideLanes(i, j, c, word)
  BY <1>1, <1>2 DEF NarrowLanes
<1>4. PICK m \in Nat : i = m * 8
  BY <1>3 DEF WideLanes, Multiple
<1>5. i \in Nat /\ i < RowCount /\ RowCount \in Nat /\ j \in 0..(CodeSize - 1)
  BY <1>1, <1>2, <1>3, Shape DEF LookupWide, AtEncode, WideLanes
<1>6. PICK n \in 0..RowCount : n = i + 8
  <2>1. PICK q \in Nat : RowCount = 8 * q
    BY <1>1, Shape
  <2>2. QED
    BY <1>4, <1>5, <2>1
<1>7. PICK junk \in [0..7 -> Junk] :
          at' = [at EXCEPT !.i = @ + 8,
                    !.c = [x \in 0..7 |-> Xor(@[x], e[at.i + x][ByteView(at.i + x, junk[x])][at.j])]]
  BY DEF LookupWide
<1>8. PICK d : d = [x \in 0..7 |-> Xor(c[x], e[i + x][ByteView(i + x, junk[x])][j])]
  OBVIOUS
<1>9. AtEncode(n, g, v, j, d, word)'
  <2>1. at = [stage |-> "encode", i |-> i, g |-> g, v |-> v, j |-> j, c |-> c, codeword |-> word]
    BY <1>2 DEF AtEncode
  <2>2. at.i = i /\ at.c = c /\ at.j = j
    BY <2>1
  <2>3. at' = [at EXCEPT !.i = n, !.c = d]
    BY <1>6, <1>7, <1>8, <2>2
  <2>4. QED
    BY <2>1, <2>3 DEF AtEncode
<1>10. ASSUME NEW x \in 0..7 PROVE d[x] = Lane(x, 8, n, j)
  <2>1. d[x] = Xor(c[x], e[i + x][ByteView(i + x, junk[x])][j])
    BY <1>8
  <2>2. c[x] = Lane(x, 8, i, j)
    BY <1>3 DEF WideLanes
  <2>3. PICK r \in 0..(RowCount - 1) : r = i + x
    BY <1>5, <1>6
  <2>4. e[r][ByteView(r, junk[x])][j] = RowOf(r, j)
    BY <1>1, <1>5, <1>7, Lookup
  <2>5. Xor(Lane(x, 8, i, j), RowOf(i + x, j)) = Lane(x, 8, i + 8, j)
    <3>1. PICK t \in Nat \ {0} : t = 8
      OBVIOUS
    <3>2. x \in 0..(t - 1) /\ Multiple(i, t)
      BY <1>3, <3>1 DEF WideLanes
    <3>3. Xor(Lane(x, t, i, j), RowOf(i + x, j)) = Lane(x, t, i + t, j)
      BY <1>5, <3>2, LaneStep
    <3>4. QED
      BY <3>1, <3>3
  <2>6. QED
    BY <1>6, <2>1, <2>2, <2>3, <2>4, <2>5
<1>11. WideLanes(n, j, d, word)
  <2>1. Multiple(n, 8)
    <3>1. m + 1 \in Nat /\ n = (m + 1) * 8
      BY <1>4, <1>6
    <3>2. QED
      BY <3>1 DEF Multiple
  <2>2. QED
    BY <1>1, <1>3, <1>10, <2>1 DEF WideLanes
<1>12. WideLanes(n, j, d, word)' /\ e' = Table(All)'
  BY <1>1, <1>11, Steady DEF WideLanes
<1>13. QED
  BY <1>1, <1>9, <1>12 DEF IInv, Encoding, AtEncode, Unloaded, Filled, CodeWordExact

LEMMA StoreNarrowStep ==
    ASSUME LinearAssumption, IInv, StoreNarrow
    PROVE  IInv'
<1>1. conf \in LinearConfs /\ UNCHANGED conf /\ at.stage = "encode" /\ ~Wide
  BY DEF IInv, StoreNarrow
<1>2. PICK i, g, v, j, c, word :
          AtEncode(i, g, v, j, c, word) /\ (NarrowLanes(i, c) \/ WideLanes(i, j, c, word))
  BY <1>1 DEF IInv, Encoding
<1>3. NarrowLanes(i, c)
  BY <1>1, <1>2 DEF WideLanes
<1>4. PICK S \in Nat \ {0} : S = ByteStep
  BY <1>1, Narrow
<1>5. i = RowCount /\ RowCount \in Nat /\ PlaintextU8Size <= RowCount
  BY <1>1, <1>2, <1>3, Shape DEF StoreNarrow, AtEncode, NarrowLanes
<1>6. at.c = c
  BY <1>2 DEF AtEncode
<1>7. ASSUME NEW w \in 0..(conf.blocks - 1)
      PROVE  XorSum([k \in 0..(S - 1) |-> c[(k * CodeSize) + w]], 0..(S - 1)) = CodeWordOf(w)
  <2>1. w \in 0..(CodeSize - 1)
    BY <1>1, Shape
  <2>2. PICK f : f = [k \in 0..(S - 1) |-> c[(k * CodeSize) + w]]
    OBVIOUS
  <2>3. ASSUME NEW k \in 0..(S - 1) PROVE f[k] = Lane(k, S, RowCount, w)
    <3>1. PICK x \in 0..7 : x = (k * CodeSize) + w /\ x \div CodeSize = k /\ x % CodeSize = w
      BY <1>1, <1>4, <2>1, Narrow
    <3>2. c[x] = Lane(k, S, RowCount, w)
      BY <1>3, <1>4, <1>5, <3>1 DEF NarrowLanes
    <3>3. QED
      BY <2>2, <3>1, <3>2
  <2>4. PICK n \in Nat : n = RowCount
    BY <1>5
  <2>5. XorSum(f, 0..(S - 1)) = UNION { RowOf(r, w) : r \in 0..(n - 1) }
    BY <2>3, <2>4, LanesSum
  <2>6. UNION { RowOf(r, w) : r \in 0..(n - 1) } = CodeWordOf(w)
    BY <1>1, <1>5, <2>4, WholeWord
  <2>7. QED
    BY <2>2, <2>5, <2>6
<1>8. /\ at'.stage = "done"
      /\ at'.codeword = [w \in 0..(conf.blocks - 1) |->
                           XorSum([k \in 0..(S - 1) |-> c[(k * CodeSize) + w]], 0..(S - 1))]
  <2>1. at = [stage |-> "encode", i |-> i, g |-> g, v |-> v, j |-> j, c |-> c, codeword |-> word]
    BY <1>2 DEF AtEncode
  <2>2. at' = [at EXCEPT !.stage = "done",
                 !.codeword = [w \in 0..(conf.blocks - 1) |->
                    XorSum([k \in 0..(S - 1) |-> c[(k * CodeSize) + w]], 0..(S - 1))]]
    BY <1>4, <1>6 DEF StoreNarrow
  <2>3. QED
    BY <2>1, <2>2
<1>9. CodeWordExact'
  <2>1. ASSUME NEW w \in 0..(conf.blocks - 1) PROVE at'.codeword[w] = CodeWordOf(w)'
    BY <1>1, <1>7, <1>8, Steady
  <2>2. QED
    BY <1>1, <2>1 DEF CodeWordExact, CodeWordOf
<1>10. QED
  BY <1>1, <1>8, <1>9 DEF IInv, Encoding, Unloaded, Filled

LEMMA StoreWideStep ==
    ASSUME LinearAssumption, IInv, StoreWide
    PROVE  IInv'
<1>1. conf \in LinearConfs /\ UNCHANGED conf /\ e' = e /\ e = Table(All) /\ at.stage = "encode" /\ Wide
  BY DEF IInv, StoreWide, Encoding
<1>2. PICK i, g, v, j, c, word :
          AtEncode(i, g, v, j, c, word) /\ (NarrowLanes(i, c) \/ WideLanes(i, j, c, word))
  BY <1>1 DEF IInv, Encoding
<1>3. WideLanes(i, j, c, word)
  BY <1>1, <1>2 DEF NarrowLanes
<1>4. i = RowCount /\ RowCount \in Nat /\ PlaintextU8Size <= RowCount /\ CodeSize = conf.blocks /\ CodeSize \in Nat
  BY <1>1, <1>2, <1>3, Shape DEF StoreWide, AtEncode, WideLanes
<1>5. j \in 0..(CodeSize - 1) /\ \A w \in 0..(j - 1) : word[w] = CodeWordOf(w)
  BY <1>3 DEF WideLanes
<1>6. XorSum(c, 0..7) = CodeWordOf(j)
  <2>1. PICK n \in Nat : n = RowCount
    BY <1>4
  <2>2. PICK t \in Nat \ {0} : t = 8
    OBVIOUS
  <2>3. \A x \in 0..(t - 1) : c[x] = Lane(x, t, n, j)
    BY <1>3, <1>4, <2>1, <2>2 DEF WideLanes
  <2>4. XorSum(c, 0..(t - 1)) = UNION { RowOf(r, j) : r \in 0..(n - 1) }
    BY <2>3, LanesSum
  <2>5. UNION { RowOf(r, j) : r \in 0..(n - 1) } = CodeWordOf(j)
    BY <1>1, <1>4, <1>5, <2>1, WholeWord
  <2>6. QED
    BY <2>2, <2>4, <2>5
<1>7. PICK longer : longer = [w \in 0..j |-> IF w = j THEN XorSum(c, 0..7) ELSE word[w]]
  OBVIOUS
<1>8. \A w \in 0..j : longer[w] = CodeWordOf(w)
  BY <1>5, <1>6, <1>7
<1>9. at' = [stage |-> IF j + 1 < CodeSize THEN "encode" ELSE "done",
             i |-> 0, g |-> g, v |-> v, j |-> j + 1, c |-> NoBlocks, codeword |-> longer]
  <2>1. at = [stage |-> "encode", i |-> i, g |-> g, v |-> v, j |-> j, c |-> c, codeword |-> word]
    BY <1>2 DEF AtEncode
  <2>2. at.c = c /\ at.j = j /\ at.codeword = word
    BY <2>1
  <2>3. at' = [at EXCEPT !.codeword = longer, !.c = NoBlocks, !.i = 0, !.j = j + 1,
                         !.stage = IF j + 1 < CodeSize THEN "encode" ELSE "done"]
    BY <1>7, <2>2 DEF StoreWide
  <2>4. QED
    BY <2>1, <2>3
<1>10. CASE j + 1 < CodeSize
  <2>1. PICK k \in 0..(CodeSize - 1) : k = j + 1
    BY <1>4, <1>5, <1>10
  <2>2. AtEncode(0, g, v, k, NoBlocks, longer)'
    BY <1>9, <1>10, <2>1 DEF AtEncode, NoBlocks
  <2>3. WideLanes(0, k, NoBlocks, longer)
    <3>1. Multiple(0, 8) /\ 0 \in 0..RowCount
      <4>1. 0 = 0 * 8 /\ 0 \in Nat
        OBVIOUS
      <4>2. QED
        BY <1>4, <4>1 DEF Multiple
    <3>2. \A x \in 0..7 : NoBlocks[x] = {}
      BY DEF NoBlocks, ZeroBlock
    <3>3. \A w \in 0..(k - 1) : longer[w] = CodeWordOf(w)
      BY <1>5, <1>8, <2>1
    <3>4. QED
      BY <1>1, <3>1, <3>2, <3>3, NoLane DEF WideLanes
  <2>4. WideLanes(0, k, NoBlocks, longer)' /\ e' = Table(All)'
    BY <1>1, <2>3, Steady DEF WideLanes, NoBlocks
  <2>5. QED
    BY <1>1, <2>2, <2>4 DEF IInv, Encoding, AtEncode, Unloaded, Filled, CodeWordExact
<1>11. CASE ~(j + 1 < CodeSize)
  <2>1. at'.stage = "done" /\ at'.codeword = longer
    BY <1>9, <1>11
  <2>2. 0..(conf.blocks - 1) \subseteq 0..j
    BY <1>4, <1>5, <1>11
  <2>3. CodeWordExact'
    <3>1. ASSUME NEW w \in 0..(conf.blocks - 1) PROVE at'.codeword[w] = CodeWordOf(w)'
      BY <1>1, <1>8, <2>1, <2>2, Steady
    <3>2. QED
      BY <1>1, <3>1 DEF CodeWordExact, CodeWordOf
  <2>4. QED
    BY <1>1, <2>1, <2>3 DEF IInv, Encoding, Unloaded, Filled
<1>12. QED
  BY <1>10, <1>11

LEMMA EncodeBch511Step ==
    ASSUME LinearAssumption, IInv, EncodeBch511
    PROVE  IInv'
<1>1. conf \in LinearConfs /\ UNCHANGED conf /\ e = Table(All) /\ at.stage = "encode"
  BY DEF IInv, EncodeBch511, Encoding
<1>2. PICK i, g, v, j, c, word : AtEncode(i, g, v, j, c, word)
  BY <1>1 DEF IInv, Encoding
<1>3. BchBytes = PlaintextU8Size /\ PlaintextU8Size \in Nat \ {0} /\ PlaintextU8Size <= RowCount /\ RowCount \in Nat
  BY <1>1, Shape DEF EncodeBch511, Bch511
<1>4. PICK n \in Nat : n = BchBytes
  BY <1>3
<1>5. ASSUME NEW w \in 0..(conf.blocks - 1)
      PROVE  XorSum([r \in 0..(n - 1) |-> e[r][conf.plaintext[r]][w]], 0..(n - 1)) = CodeWordOf(w)
  <2>1. w \in 0..(CodeSize - 1)
    BY <1>1, Shape
  <2>2. PICK f : f = [r \in 0..(n - 1) |-> e[r][conf.plaintext[r]][w]]
    OBVIOUS
  <2>3. ASSUME NEW r \in 0..(n - 1) PROVE f[r] = RowOf(r, w)
    <3>1. PICK junk \in Junk : TRUE
      BY DEF LinearAssumption
    <3>2. r \in 0..(RowCount - 1) /\ r < PlaintextU8Size
      BY <1>3, <1>4
    <3>3. ByteView(r, junk) = conf.plaintext[r]
      BY <3>2 DEF ByteView
    <3>4. e[r][ByteView(r, junk)][w] = RowOf(r, w)
      BY <1>1, <2>1, <3>2, Lookup
    <3>5. QED
      BY <2>2, <3>3, <3>4
  <2>4. \A x : \A s, t \in 0..(n - 1) : x \in f[s] /\ x \in f[t] => s = t
    BY <2>3, RowsApart
  <2>5. IsFiniteSet(0..(n - 1))
    BY FS_Interval
  <2>6. XorSum(f, 0..(n - 1)) = UNION { f[r] : r \in 0..(n - 1) }
    BY <2>4, <2>5, DisjointSum
  <2>7. UNION { f[r] : r \in 0..(n - 1) } = UNION { RowOf(r, w) : r \in 0..(n - 1) }
    BY <2>3
  <2>8. UNION { RowOf(r, w) : r \in 0..(n - 1) } = CodeWordOf(w)
    BY <1>1, <1>3, <1>4, WholeWord
  <2>9. QED
    BY <2>2, <2>6, <2>7, <2>8
<1>6. /\ at'.stage = "done"
      /\ at'.codeword = [w \in 0..(conf.blocks - 1) |->
                           XorSum([r \in 0..(n - 1) |-> e[r][conf.plaintext[r]][w]], 0..(n - 1))]
  <2>1. at = [stage |-> "encode", i |-> i, g |-> g, v |-> v, j |-> j, c |-> c, codeword |-> word]
    BY <1>2 DEF AtEncode
  <2>2. at' = [at EXCEPT !.stage = "done",
                 !.codeword = [w \in 0..(conf.blocks - 1) |->
                    XorSum([r \in 0..(n - 1) |-> e[r][conf.plaintext[r]][w]], 0..(n - 1))]]
    BY <1>4 DEF EncodeBch511
  <2>3. QED
    BY <2>1, <2>2
<1>7. CodeWordExact'
  <2>1. ASSUME NEW w \in 0..(conf.blocks - 1) PROVE at'.codeword[w] = CodeWordOf(w)'
    BY <1>1, <1>5, <1>6, Steady
  <2>2. QED
    BY <1>1, <2>1 DEF CodeWordExact, CodeWordOf
<1>8. QED
  BY <1>1, <1>6, <1>7 DEF IInv, Encoding, Unloaded, Filled

LEMMA StutterStep ==
    ASSUME IInv, UNCHANGED vars
    PROVE  IInv'
<1>1. UNCHANGED conf /\ e' = e /\ at' = at
  BY DEF vars
<1>2. Unloaded' /\ CodeWordExact'
  BY <1>1 DEF IInv, Unloaded, CodeWordExact, BitSet
<1>3. Filled'
  <2>1. SUFFICES ASSUME at.stage = "table"
                 PROVE  (\E i \in 0..(RowCount - 1), g \in 0..(ByteBits - 1), v \in ByteValues :
                            AtTable(i, g, v) /\ HasBit(v, g) /\ e = Table(Earlier(i, g, v)))'
    BY <1>1 DEF Filled
  <2>2. PICK i \in 0..(RowCount - 1), g \in 0..(ByteBits - 1), v \in ByteValues :
            AtTable(i, g, v) /\ HasBit(v, g) /\ e = Table(Earlier(i, g, v))
    BY <2>1 DEF IInv, Filled
  <2>3. PICK D : D = Earlier(i, g, v)
    OBVIOUS
  <2>4. e' = Table(D)' /\ i \in 0..(RowCount' - 1) /\ AtTable(i, g, v)'
    BY <1>1, <2>2, <2>3, Steady DEF AtTable
  <2>5. QED
    BY <2>2, <2>3, <2>4
<1>4. Encoding'
  <2>1. \A i, c : NarrowLanes(i, c)' = NarrowLanes(i, c)
    BY <1>1, Steady DEF NarrowLanes
  <2>2. \A i, j, c, word : WideLanes(i, j, c, word)' = WideLanes(i, j, c, word)
    BY <1>1, Steady DEF WideLanes
  <2>3. QED
    BY <1>1, <2>1, <2>2, Steady DEF IInv, Encoding, AtEncode
<1>5. QED
  BY <1>1, <1>2, <1>3, <1>4 DEF IInv

(* The invariant of the loops: the table has the rows they have passed, the   *)
(* accumulators those they have looked up.                                   *)
THEOREM Invariant == LinearAssumption => (LinearSpec => []IInv)
<1> SUFFICES ASSUME LinearAssumption PROVE LinearSpec => []IInv
  OBVIOUS
<1>1. LinearInit => IInv
  BY Start
<1>2. IInv /\ [LinearNext]_vars => IInv'
  BY TooLongStep, LoadStep, NextEntryStep, NextBitStep, NextByteStep, LookupNarrowStep, StoreNarrowStep,
     LookupWideStep, StoreWideStep, EncodeBch511Step, StutterStep DEF LinearNext, LinearDone
<1>3. QED
  BY <1>1, <1>2, PTL DEF LinearSpec

(* Whichever loop computes it, a code word is the sum of the rows of the      *)
(* generator at the bits of the plaintext.                                   *)
THEOREM CodeWords == LinearAssumption => (LinearSpec => []CodeWordExact)
<1> SUFFICES ASSUME LinearAssumption PROVE LinearSpec => []CodeWordExact
  OBVIOUS
<1>1. IInv => CodeWordExact
  BY DEF IInv
<1>2. LinearSpec => []IInv
  BY Invariant
<1>3. QED
  BY <1>1, <1>2, PTL
=============================================================================
