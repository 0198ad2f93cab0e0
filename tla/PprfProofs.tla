----------------------------- MODULE PprfProofs -----------------------------
(***************************************************************************)
(* Proofs about Pprf, for every configuration the two parties may agree on: *)
(* any even domain, any number of trees, any batch size, every layout.      *)
(*                                                                         *)
(* First the arithmetic of the tree: level d of a tree has room for its      *)
(* active node, whose parent is the active node above. Then the labels of   *)
(* the nodes, which all differ, the pads, and the output positions, which    *)
(* do not collide. Last the receiver, level by level, and the buffers.      *)
(***************************************************************************)
EXTENDS Pprf, XorTheorems

---------------------------------------------------------------------------
(* The shape of a tree. *)

(* Both parties were configured, and the receiver's points are leaves.      *)
Configured == conf \in Confs /\ points \in [0..(Trees - 1) -> PointSpace]

LEMMA Sizes ==
    ASSUME Configured
    PROVE  /\ Domain \in Nat \ {0} /\ Domain % 2 = 0 /\ Trees \in Nat \ {0} /\ Batch \in Nat \ {0}
           /\ Depth \in Nat \ {0} /\ Domain <= 2^Depth
<1>1. Domain \in Nat \ {0} /\ Domain % 2 = 0 /\ Trees \in Nat \ {0} /\ Batch \in Nat \ {0}
  BY PprfAssumption DEF Configured, Domain, Trees
<1>2. Depth \in Nat /\ 2^Depth >= Domain
  BY <1>1, Log2CeilIs DEF Depth
<1>3. Depth # 0
  <2>1. SUFFICES ASSUME Depth = 0 PROVE FALSE
    OBVIOUS
  <2>2. 2^0 >= Domain
    BY <1>2, <2>1
  <2>3. QED
    BY <1>1, <2>2, PowerZero
<1>4. QED
  BY <1>1, <1>2, <1>3, PowerFits

(* The width of a level is at most twice that of the level above; the root  *)
(* is alone, and the last level has half as many nodes as there are leaves. *)
LEMMA Widths ==
    ASSUME Configured
    PROVE  /\ \A d \in 0..Depth : Width(d) \in Nat
           /\ Width(0) = 1
           /\ \A d \in 1..Depth : Width(d) <= 2 * Width(d - 1)
           /\ 2 * Width(Depth - 1) = Domain
<1>1. \A d \in 0..Depth : Depth - d \in Nat /\ 2^(Depth - d) \in Nat \ {0}
  BY Sizes, PowerFits
<1>2. \A d \in 0..Depth : Width(d) \in Nat
  BY <1>1, Sizes, DivCeilIs DEF Width
<1>3. Width(0) = 1
  <2>1. PICK p \in Nat \ {0} : p = 2^Depth /\ Domain <= p
    BY Sizes, PowerFits
  <2>2. PICK w \in Nat : w = DivCeil(Domain, p)
    BY <2>1, Sizes, DivCeilIs
  <2>3. w * p >= Domain /\ (1 * p >= Domain => w <= 1)
    BY <2>1, <2>2, Sizes, DivCeilIs
  <2>4. w = 1
    <3>1. w = 0 \/ w = 1
      BY <2>1, <2>2, <2>3, Sizes
    <3>2. w # 0
      BY <2>1, <2>3, Sizes
    <3>3. QED
      BY <3>1, <3>2
  <2>5. QED
    BY <2>1, <2>2, <2>4, Sizes DEF Width
<1>4. ASSUME NEW d \in 1..Depth PROVE Width(d) <= 2 * Width(d - 1)
  <2>1. PICK k \in Nat : k = Depth - d /\ Depth - (d - 1) = k + 1
    BY Sizes
  <2>2. PICK p \in Nat \ {0} : p = 2^k /\ 2 * p = 2^(k + 1)
    BY PowerFits, PowerStep
  <2>3. PICK w \in Nat : w = Width(d - 1)
    BY <1>2, Sizes
  <2>4. w * (2 * p) >= Domain
    <3>1. PICK pp \in Nat \ {0} : pp = 2 * p
      OBVIOUS
    <3>2. w = DivCeil(Domain, pp)
      BY <2>1, <2>2, <2>3, <3>1 DEF Width
    <3>3. w * pp >= Domain
      BY <3>2, Sizes, DivCeilIs
    <3>4. QED
      BY <3>1, <3>3
  <2>5. PICK v \in Nat : v = 2 * w /\ v * p >= Domain
    BY <2>4
  <2>6. Width(d) = DivCeil(Domain, p)
    BY <2>1, <2>2 DEF Width
  <2>7. QED
    <3>1. DivCeil(Domain, p) <= v
      BY <2>2, <2>5, Sizes, DivCeilIs
    <3>2. QED
      BY <2>3, <2>5, <2>6, <3>1
<1>5. 2 * Width(Depth - 1) = Domain
  <2>1. Depth - (Depth - 1) = 1 /\ 2^1 = 2
    BY Sizes
  <2>2. Width(Depth - 1) = DivCeil(Domain, 2)
    BY <2>1 DEF Width
  <2>3. PICK h \in Nat : Domain = 2 * h
    BY Sizes, Half
  <2>4. DivCeil(Domain, 2) = h
    <3>1. DivCeil(Domain, 2) = (2 * h + 1) \div 2
      BY <2>3 DEF DivCeil
    <3>2. QED
      BY <3>1
  <2>5. QED
    BY <2>2, <2>3, <2>4
<1>6. QED
  BY <1>2, <1>3, <1>4, <1>5

(* The node above the punctured leaf of tree t in level d.                  *)
Active(t, d) == points[t] \div 2^(Depth - d)

LEMMA ActiveFits ==
    ASSUME Configured, NEW t \in 0..(Trees - 1)
    PROVE  /\ \A d \in 0..Depth : Active(t, d) \in 0..(Width(d) - 1)
           /\ \A d \in 1..Depth : /\ Active(t, d) \div 2 = Active(t, d - 1)
                                  /\ Active(t, d) % 2 = PathBit(t, Depth - d)
           /\ Active(t, Depth) = points[t]
           /\ points[t] \in 0..(Domain - 1)
<1>1. points[t] \in Nat /\ points[t] < Domain
  BY Sizes DEF Configured, PointSpace
<1>2. PICK x \in Nat : x = points[t] /\ x < Domain
  BY <1>1
<1>3. ASSUME NEW d \in 0..Depth PROVE Active(t, d) \in 0..(Width(d) - 1)
  <2>1. PICK p \in Nat \ {0} : p = 2^(Depth - d)
    BY Sizes, PowerFits
  <2>2. PICK w \in Nat : w = DivCeil(Domain, p) /\ w * p >= Domain
    BY <2>1, Sizes, DivCeilIs
  <2>3. PICK q \in Nat, r \in 0..(p - 1) : q = x \div p /\ (q * p) + r = x
    BY <2>1, DivMod
  <2>4. q < w
    <3>1. SUFFICES ASSUME w <= q PROVE FALSE
      BY <2>2, <2>3
    <3>2. w * p <= q * p
      <4>1. CASE w = q
        BY <4>1
      <4>2. CASE w < q
        <5>1. (w * p) + 0 < (q * p) + 0
          BY <2>1, <2>2, <2>3, <4>2, RowsInOrder
        <5>2. QED
          BY <5>1, <2>2, <2>3
      <4>3. QED
        BY <3>1, <4>1, <4>2, <2>2, <2>3
    <3>3. w * p \in Nat /\ q * p \in Nat
      BY <2>1, <2>2, <2>3
    <3>4. QED
      BY <1>2, <2>2, <2>3, <3>2, <3>3, Sizes
  <2>5. QED
    BY <1>2, <2>1, <2>2, <2>3, <2>4 DEF Active, Width
<1>4. ASSUME NEW d \in 1..Depth PROVE Active(t, d) \div 2 = Active(t, d - 1)
  <2>1. PICK k \in Nat : k = Depth - d /\ Depth - (d - 1) = k + 1
    BY Sizes
  <2>2. PICK p \in Nat \ {0} : p = 2^k /\ 2 * p = 2^(k + 1)
    BY PowerFits, PowerStep
  <2>3. (x \div p) \div 2 = x \div (2 * p)
    BY <2>2, HalfOfQuotient
  <2>4. QED
    BY <1>2, <2>1, <2>2, <2>3 DEF Active
<1>5. Active(t, Depth) = points[t]
  <2>1. Depth - Depth = 0 /\ 2^0 = 1
    BY Sizes, PowerZero
  <2>2. x \div 1 = x
    OBVIOUS
  <2>3. QED
    BY <1>2, <2>1, <2>2 DEF Active
<1>6. \A d \in 1..Depth : Active(t, d) % 2 = PathBit(t, Depth - d)
  BY DEF Active, PathBit
<1>7. QED
  BY <1>1, <1>3, <1>4, <1>5, <1>6, Sizes

---------------------------------------------------------------------------
(* The labels of the sender's nodes. *)

(* The nodes of level d.                                                   *)
Nodes(d) == 0..((IF d = 0 THEN 1 ELSE 2 * Width(d - 1)) - 1)
Root(t) == [i \in {0} |-> { <<2, t>> }]

LEMMA SendLevelsAre ==
    ASSUME Configured, NEW t
    PROVE  SendLevels(t) = [d \in 0..(Depth - 1) |->
               IF d = 0 THEN Root(t) ELSE Children(SendLevels(t)[d - 1], d - 1)]
<1> DEFINE Next0(g, d) == IF d = 0 THEN Root(t) ELSE Children(g[d - 1], d - 1)
           Upto == { k \in 0..(Depth - 1) : \E g : g = [d \in 0..k |-> Next0(g, d)] }
<1>1. 0 \in Upto
  <2>1. PICK g : g = [d \in 0..0 |-> Root(t)]
    OBVIOUS
  <2>2. g = [d \in 0..0 |-> Next0(g, d)]
    BY <2>1
  <2>3. QED
    BY <2>2, Sizes
<1>2. ASSUME NEW k \in 1..(Depth - 1), k - 1 \in Upto PROVE k \in Upto
  <2>1. PICK g : g = [d \in 0..(k - 1) |-> Next0(g, d)]
    BY <1>2
  <2>2. PICK h : h = [d \in 0..k |-> IF d = k THEN Next0(g, k) ELSE g[d]]
    OBVIOUS
  <2>3. \A d \in 0..k : h[d] = Next0(h, d)
    <3>1. ASSUME NEW d \in 0..k PROVE h[d] = Next0(h, d)
      <4>1. CASE d = k
        BY <2>2, <4>1
      <4>2. CASE d # k
        <5>1. d \in 0..(k - 1) /\ h[d] = g[d] /\ (d # 0 => d - 1 \in 0..(k - 1) /\ h[d - 1] = g[d - 1])
          BY <2>2, <4>2
        <5>2. g[d] = Next0(g, d)
          BY <2>1, <5>1, Zenon
        <5>3. QED
          BY <5>1, <5>2
      <4>3. QED
        BY <4>1, <4>2
    <3>2. QED
      BY <3>1
  <2>4. h = [d \in 0..k |-> h[d]]
    BY <2>2, Zenon
  <2>5. h = [d \in 0..k |-> Next0(h, d)]
    <3> HIDE DEF Next0
    <3>1. QED
      BY <2>3, <2>4, Zenon
  <2>6. QED
    BY <2>5
<1>3. \E g : g = [d \in 0..(Depth - 1) |-> Next0(g, d)]
  <2>1. Depth - 1 \in Nat
    BY Sizes
  <2>2. 0..(Depth - 1) \subseteq Upto
    <3> HIDE DEF Upto
    <3>1. QED
      BY <1>1, <1>2, <2>1, IntervalInduction
  <2>3. Depth - 1 \in Upto
    BY <2>1, <2>2
  <2>4. QED
    BY <2>3
<1>4. QED
  BY <1>3, Zenon DEF SendLevels, Root

LEMMA ParentFits ==
    ASSUME Configured
    PROVE  /\ \A d \in 0..Depth : Nodes(d) \subseteq Nat
           /\ \A d \in 1..Depth : \A i \in Nodes(d) : i \div 2 \in Nodes(d - 1)
           /\ Nodes(Depth) = 0..(Domain - 1)
           /\ Nodes(0) = {0}
<1>1. ASSUME NEW d \in 1..Depth, NEW i \in Nodes(d) PROVE i \div 2 \in Nodes(d - 1)
  <2>1. PICK w \in Nat : w = Width(d - 1)
    BY Widths, Sizes
  <2>2. i \in 0..((2 * w) - 1)
    BY <2>1 DEF Nodes
  <2>3. i \div 2 \in 0..(w - 1)
    BY <2>2, Half
  <2>4. CASE d = 1
    <3>1. w = 1 /\ Nodes(d - 1) = 0..0
      BY <2>1, <2>4, Widths DEF Nodes
    <3>2. QED
      BY <2>3, <3>1
  <2>5. CASE d # 1
    <3>1. PICK v \in Nat : v = Width(d - 2) /\ d - 2 \in 0..Depth
      BY Widths, Sizes, <2>5
    <3>2. d - 1 \in 1..Depth /\ (d - 1) - 1 = d - 2 /\ d - 1 # 0
      BY <2>5, Sizes
    <3>3. w <= 2 * v
      BY <2>1, <3>1, <3>2, Widths
    <3>4. Nodes(d - 1) = 0..((2 * v) - 1)
      BY <3>1, <3>2 DEF Nodes
    <3>5. QED
      BY <2>1, <2>3, <3>1, <3>3, <3>4
  <2>6. QED
    BY <2>4, <2>5
<1>2. Nodes(Depth) = 0..(Domain - 1)
  BY Sizes, Widths DEF Nodes
<1>3. QED
  BY <1>1, <1>2 DEF Nodes

LEMMA NodeNat ==
    ASSUME Configured, NEW d \in 0..Depth, NEW i \in Nodes(d)
    PROVE  i \in Nat
  BY ParentFits

LEMMA ParentNode ==
    ASSUME Configured, NEW d \in 1..Depth, NEW i \in Nodes(d)
    PROVE  i \div 2 \in Nodes(d - 1)
  BY ParentFits

(* A node is the child, on the side its index says, of the node above it.   *)
LEMMA NodeIs ==
    ASSUME Configured, NEW t, NEW d \in 0..(Depth - 1)
    PROVE  /\ DOMAIN SendLevels(t)[d] = Nodes(d)
           /\ d = 0 => SendLevels(t)[d][0] = { <<2, t>> }
           /\ d # 0 => \A i \in Nodes(d) :
                  SendLevels(t)[d][i] = { <<i % 2, SendLevels(t)[d - 1][i \div 2]>> }
<1>1. SendLevels(t)[d] = IF d = 0 THEN Root(t) ELSE Children(SendLevels(t)[d - 1], d - 1)
  BY SendLevelsAre, Zenon
<1>2. CASE d = 0
  BY <1>1, <1>2, ParentFits DEF Root
<1>3. CASE d # 0
  <2>1. PICK up : up = SendLevels(t)[d - 1]
    OBVIOUS
  <2>2. SendLevels(t)[d] = [i \in Nodes(d) |-> { <<i % 2, up[i \div 2]>> }]
    BY <1>1, <1>3, <2>1 DEF Children, Nodes, Inner
  <2>3. QED
    BY <1>3, <2>1, <2>2
<1>4. QED
  BY <1>2, <1>3

LEMMA LeafIs ==
    ASSUME Configured, NEW t
    PROVE  /\ DOMAIN SendLeaves(t) = 0..(Domain - 1)
           /\ \A i \in 0..(Domain - 1) :
                /\ SendLeaves(t)[i] = { <<4 + (i % 2), SendLevels(t)[Depth - 1][i \div 2]>> }
                /\ i \div 2 \in Nodes(Depth - 1)
<1>1. SendLeaves(t) = [i \in 0..(Domain - 1) |-> { <<4 + (i % 2), SendLevels(t)[Depth - 1][i \div 2]>> }]
  BY DEF SendLeaves, Leaves, Leaf
<1>2. ASSUME NEW i \in 0..(Domain - 1) PROVE i \div 2 \in Nodes(Depth - 1)
  <2>1. i \in Nodes(Depth) /\ Depth \in 1..Depth
    BY ParentFits, Sizes
  <2>2. QED
    BY <2>1, ParentNode
<1>3. QED
  BY <1>1, <1>2

(* No two nodes of the sender's trees are the same block.                   *)
DifferentBelow(d) ==
    \A t, u \in 0..(Trees - 1) : \A e \in 0..(Depth - 1) : \A i \in Nodes(d), k \in Nodes(e) :
        SendLevels(t)[d][i] = SendLevels(u)[e][k] => t = u /\ d = e /\ i = k

LEMMA NodesDiffer ==
    ASSUME Configured
    PROVE  \A d \in 0..(Depth - 1) : DifferentBelow(d)
<1> DEFINE S == { d \in 0..(Depth - 1) : DifferentBelow(d) }
<1>1. ASSUME NEW u, NEW e \in 0..(Depth - 1), e # 0, NEW k \in Nodes(e), NEW t,
             { <<2, t>> } = SendLevels(u)[e][k]
      PROVE  FALSE
  <2>1. SendLevels(u)[e][k] = { <<k % 2, SendLevels(u)[e - 1][k \div 2]>> }
    BY <1>1, NodeIs
  <2>2. 2 = k % 2
    <3>1. PICK up : up = SendLevels(u)[e - 1][k \div 2]
      OBVIOUS
    <3>2. { <<2, t>> } = { <<k % 2, up>> }
      BY <1>1, <2>1, <3>1
    <3>3. <<2, t>> \in { <<k % 2, up>> }
      BY <3>2, Zenon
    <3>4. <<2, t>> = <<k % 2, up>>
      BY <3>3
    <3>5. QED
      BY <3>4
  <2>3. k \in Nat
    BY NodeNat, Sizes
  <2>4. QED
    BY <2>2, <2>3, Half
<1>2. 0 \in S
  <2>1. ASSUME NEW t \in 0..(Trees - 1), NEW u \in 0..(Trees - 1), NEW e \in 0..(Depth - 1),
               NEW i \in Nodes(0), NEW k \in Nodes(e), SendLevels(t)[0][i] = SendLevels(u)[e][k]
        PROVE  t = u /\ 0 = e /\ i = k
    <3>1. i = 0 /\ SendLevels(t)[0][i] = { <<2, t>> }
      BY NodeIs, ParentFits, Sizes, SMTT(30)
    <3>2. e = 0
      BY <1>1, <2>1, <3>1, ZenonT(60)
    <3>3. k = 0 /\ SendLevels(u)[e][k] = { <<2, u>> }
      BY <3>2, NodeIs, ParentFits
    <3>4. <<2, t>> = <<2, u>>
      BY <2>1, <3>1, <3>3
    <3>5. QED
      BY <3>1, <3>2, <3>3, <3>4
  <2>2. QED
    BY <2>1, Sizes DEF DifferentBelow
<1>3. ASSUME NEW d \in 1..(Depth - 1), d - 1 \in S PROVE d \in S
  <2>1. ASSUME NEW t \in 0..(Trees - 1), NEW u \in 0..(Trees - 1), NEW e \in 0..(Depth - 1),
               NEW i \in Nodes(d), NEW k \in Nodes(e), SendLevels(t)[d][i] = SendLevels(u)[e][k]
        PROVE  t = u /\ d = e /\ i = k
    <3>1. PICK up : up = SendLevels(t)[d - 1][i \div 2] /\ SendLevels(t)[d][i] = { <<i % 2, up>> }
      BY NodeIs
    <3>2. e # 0
      <4>1. SUFFICES ASSUME e = 0 PROVE FALSE
        OBVIOUS
      <4>2. SendLevels(u)[e][k] = { <<2, u>> }
        BY <4>1, NodeIs, ParentFits
      <4>3. i % 2 = 2
        <5>1. { <<i % 2, up>> } = { <<2, u>> }
          BY <2>1, <3>1, <4>1, <4>2
        <5>2. <<2, u>> \in { <<i % 2, up>> }
          BY <5>1, Zenon
        <5>3. <<2, u>> = <<i % 2, up>>
          BY <5>2
        <5>4. QED
          BY <5>3
      <4>4. i \in Nat
        BY NodeNat, Sizes
      <4>5. QED
        BY <4>3, <4>4, Half
    <3>3. PICK over : over = SendLevels(u)[e - 1][k \div 2] /\ SendLevels(u)[e][k] = { <<k % 2, over>> }
      BY <3>2, NodeIs
    <3>4. <<i % 2, up>> = <<k % 2, over>>
      BY <2>1, <3>1, <3>3
    <3>5. i % 2 = k % 2 /\ up = over
      BY <3>4
    <3>6. i \div 2 \in Nodes(d - 1) /\ k \div 2 \in Nodes(e - 1) /\ e - 1 \in 0..(Depth - 1)
      <4>1. d \in 1..Depth /\ e \in 1..Depth
        BY <3>2, Sizes
      <4>2. QED
        BY <4>1, ParentNode, Sizes
    <3>7. t = u /\ d - 1 = e - 1 /\ i \div 2 = k \div 2
      <4>1. DifferentBelow(d - 1)
        BY <1>3
      <4>2. SendLevels(t)[d - 1][i \div 2] = SendLevels(u)[e - 1][k \div 2]
        BY <3>1, <3>3, <3>5
      <4>3. QED
        BY <3>6, <4>1, <4>2 DEF DifferentBelow
    <3>8. i \in Nat /\ k \in Nat
      BY NodeNat, Sizes
    <3>9. i = k
      BY <3>5, <3>7, <3>8, Half
    <3>10. QED
      BY <3>2, <3>7, <3>9
  <2>2. QED
    BY <2>1 DEF DifferentBelow
<1>4. 0..(Depth - 1) \subseteq S
  <2> HIDE DEF S
  <2>1. QED
    BY <1>2, <1>3, Sizes, IntervalInduction
<1>5. QED
  BY <1>4

LEMMA LeavesDiffer ==
    ASSUME Configured, NEW t \in 0..(Trees - 1), NEW u \in 0..(Trees - 1),
           NEW i \in 0..(Domain - 1), NEW k \in 0..(Domain - 1), SendLeaves(t)[i] = SendLeaves(u)[k]
    PROVE  t = u /\ i = k
<1>1. PICK x : x = SendLevels(t)[Depth - 1][i \div 2]
  OBVIOUS
<1>2. PICK y : y = SendLevels(u)[Depth - 1][k \div 2]
  OBVIOUS
<1>3. <<4 + (i % 2), x>> = <<4 + (k % 2), y>>
  <2>1. SendLeaves(t)[i] = { <<4 + (i % 2), x>> } /\ SendLeaves(u)[k] = { <<4 + (k % 2), y>> }
    BY <1>1, <1>2, LeafIs
  <2>2. QED
    BY <2>1
<1>4. i \in Nat /\ k \in Nat
  BY Sizes
<1>5. i % 2 = k % 2 /\ x = y
  BY <1>3, <1>4, Half
<1>6. t = u /\ i \div 2 = k \div 2
  <2>1. Depth - 1 \in 0..(Depth - 1) /\ DifferentBelow(Depth - 1)
    BY NodesDiffer, Sizes
  <2>2. i \div 2 \in Nodes(Depth - 1) /\ k \div 2 \in Nodes(Depth - 1)
    BY LeafIs
  <2>3. SendLevels(t)[Depth - 1][i \div 2] = SendLevels(u)[Depth - 1][k \div 2]
    BY <1>1, <1>2, <1>5
  <2>4. PICK d \in 0..(Depth - 1) : d = Depth - 1
    BY <2>1
  <2>5. DifferentBelow(d) /\ i \div 2 \in Nodes(d) /\ k \div 2 \in Nodes(d)
    BY <2>1, <2>2, <2>4
  <2>6. SendLevels(t)[d][i \div 2] = SendLevels(u)[d][k \div 2]
    BY <2>3, <2>4
  <2>7. QED
    BY <2>5, <2>6 DEF DifferentBelow
<1>7. QED
  BY <1>4, <1>5, <1>6, Half

---------------------------------------------------------------------------
(* What is sent, and the pads it is masked with. *)

LEMMA InSideSum ==
    ASSUME NEW level, NEW side, NEW x \in SideSum(level, side)
    PROVE  \E i \in DOMAIN level : i % 2 = side /\ x \in level[i]
  BY DEF SideSum, XorSum

LEMMA InNodeSum ==
    ASSUME Configured, NEW t, NEW d \in 1..(Depth - 1), NEW side \in {0, 1}, NEW x \in SideSum(SendLevels(t)[d], side)
    PROVE  \E i \in Nodes(d) : i % 2 = side /\ x = <<side, SendLevels(t)[d - 1][i \div 2]>>
<1>1. d \in 0..(Depth - 1) /\ d # 0
  BY Sizes
<1>2. DOMAIN SendLevels(t)[d] = Nodes(d)
  BY <1>1, NodeIs
<1>3. PICK i \in Nodes(d) : i % 2 = side /\ x \in SendLevels(t)[d][i]
  BY <1>2, InSideSum
<1>4. SendLevels(t)[d][i] = { <<i % 2, SendLevels(t)[d - 1][i \div 2]>> }
  BY <1>1, NodeIs
<1>5. x = <<i % 2, SendLevels(t)[d - 1][i \div 2]>>
  BY <1>3, <1>4
<1>6. QED
  BY <1>3, <1>5

LEMMA InLeafSum ==
    ASSUME Configured, NEW t, NEW side \in {0, 1}, NEW x \in SideSum(SendLeaves(t), side)
    PROVE  \E i \in 0..(Domain - 1) :
               /\ i % 2 = side /\ x = <<4 + side, SendLevels(t)[Depth - 1][i \div 2]>>
               /\ SendLeaves(t)[i] = { x }
<1>1. PICK i \in 0..(Domain - 1) : i % 2 = side /\ x \in SendLeaves(t)[i]
  BY LeafIs, InSideSum
<1>2. SendLeaves(t)[i] = { <<4 + (i % 2), SendLevels(t)[Depth - 1][i \div 2]>> }
  BY LeafIs
<1>3. x = <<4 + (i % 2), SendLevels(t)[Depth - 1][i \div 2]>>
  BY <1>1, <1>2
<1>4. QED
  BY <1>1, <1>2, <1>3

(* Leaf i of tree t is on the given side and has the one element x.         *)
LeafOf(t, i, side, x) == i % 2 = side /\ SendLeaves(t)[i] = { x }

LEMMA LeafSumHas ==
    ASSUME Configured
    PROVE  \A t : \A side \in {0, 1} : \A x \in SideSum(SendLeaves(t), side) :
               /\ x[1] = 4 + side
               /\ \E i \in 0..(Domain - 1) : LeafOf(t, i, side, x)
<1>1. ASSUME NEW t, NEW side \in {0, 1}, NEW x \in SideSum(SendLeaves(t), side)
      PROVE  /\ x[1] = 4 + side
             /\ \E i \in 0..(Domain - 1) : LeafOf(t, i, side, x)
  <2>1. PICK i \in 0..(Domain - 1) : i % 2 = side /\ x \in SendLeaves(t)[i]
    BY LeafIs, InSideSum
  <2>2. SendLeaves(t)[i] = { <<4 + (i % 2), SendLevels(t)[Depth - 1][i \div 2]>> }
    BY LeafIs
  <2>3. PICK r : r = i % 2
    OBVIOUS
  <2>4. PICK y : y = <<4 + r, SendLevels(t)[Depth - 1][i \div 2]>> /\ SendLeaves(t)[i] = { y }
    BY <2>2, <2>3
  <2>5. x = y /\ r = side
    BY <2>1, <2>3, <2>4
  <2>6. x[1] = 4 + side
    BY <2>4, <2>5
  <2>7. LeafOf(t, i, side, x)
    BY <2>1, <2>4, <2>5 DEF LeafOf
  <2>8. QED
    BY <2>6, <2>7
<1>2. QED
  BY <1>1

(* The receiver's and the sender's levels and values below hold no pads.    *)
LEMMA SumPads ==
    ASSUME NEW x, NEW pad, pad[1] \in {3, 6}, NEW sum, \A a \in sum : a[1] \notin {3, 6}, x = Xor(sum, {pad})
    PROVE  /\ Pads(x) = { pad }
           /\ \A a \in x : a = pad \/ a \in sum
           /\ \A a \in sum : a \in x
<1>1. \A a : a \in x <=> ~(a \in sum <=> a = pad)
  <2>1. \A a : a \in Xor(sum, {pad}) <=> ~(a \in sum <=> a \in {pad})
    BY InXor
  <2>2. QED
    BY <2>1
<1>2. pad \notin sum
  OBVIOUS
<1>3. ASSUME NEW a \in x, a[1] \in {3, 6} PROVE a = pad
  BY <1>1, <1>3
<1>4. Pads(x) = { pad }
  BY <1>1, <1>2, <1>3 DEF Pads
<1>5. QED
  BY <1>1, <1>2, <1>4

LEMMA EncSumIs ==
    ASSUME Configured, NEW t, NEW d \in 0..(Depth - 2), NEW side \in {0, 1}
    PROVE  /\ EncSum(t, d)[side] = Xor(SideSum(SendLevels(t)[d + 1], side), { <<3, t, OtIdx(d), 1 - side>> })
           /\ Pads(EncSum(t, d)[side]) = { <<3, t, OtIdx(d), 1 - side>> }
           /\ \A a \in EncSum(t, d)[side] :
                a = <<3, t, OtIdx(d), 1 - side>> \/ a \in SideSum(SendLevels(t)[d + 1], side)
           /\ \A a \in EncSum(t, d)[side] : a[1] \in {0, 1, 3}
<1> DEFINE sum == SideSum(SendLevels(t)[d + 1], side)
           pad == <<3, t, OtIdx(d), 1 - side>>
<1>1. EncSum(t, d)[side] = Xor(sum, { pad })
  BY DEF EncSum, Key
<1>2. ASSUME NEW a \in sum PROVE a[1] \in {0, 1}
  <2>1. d + 1 \in 1..(Depth - 1)
    BY Sizes
  <2>2. PICK y : a = <<side, y>>
    BY <2>1, InNodeSum
  <2>3. QED
    BY <2>2
<1>3. pad[1] = 3
  OBVIOUS
<1>4. /\ Pads(EncSum(t, d)[side]) = { pad }
      /\ \A a \in EncSum(t, d)[side] : a = pad \/ a \in sum
  <2>1. pad[1] \in {3, 6} /\ \A a \in sum : a[1] \notin {3, 6}
    BY <1>2, <1>3
  <2> HIDE DEF sum, pad
  <2>2. QED
    BY <1>1, <2>1, SumPads
<1>5. QED
  <2> HIDE DEF sum, pad
  <2>1. \A a \in EncSum(t, d)[side] : a[1] \in {0, 1, 3}
    BY <1>2, <1>3, <1>4
  <2>2. QED
    BY <1>1, <1>4, <2>1 DEF sum, pad

(* The sums of leaf message <<t, k>>, whose element e is masked with pad e   *)
(* of the other base OT message.                                           *)
LeafIdx == IF conf.program THEN {0, 1} ELSE {0}
LeafSum(t, k, e) ==
    IF ~conf.program THEN SideSum(SendLeaves(t), k)
    ELSE IF e = k THEN SideSum(SendLeaves(t), e)
    ELSE Xor(SideSum(SendLeaves(t), e), ValueOf(t))

LEMMA LeafMsgIs ==
    ASSUME Configured, NEW t, NEW k \in {0, 1}, NEW e \in LeafIdx
    PROVE  /\ DOMAIN LeafMsg(t, k) = LeafIdx
           /\ LeafMsg(t, k)[e] = Xor(LeafSum(t, k, e), { <<6, t, 1 - k, e>> })
           /\ Pads(LeafMsg(t, k)[e]) = { <<6, t, 1 - k, e>> }
           /\ \A a \in LeafMsg(t, k)[e] : a = <<6, t, 1 - k, e>> \/ a \in LeafSum(t, k, e)
           /\ \A a \in LeafSum(t, k, e) : a \in LeafMsg(t, k)[e]
           /\ \A a \in LeafMsg(t, k)[e] : a[1] \in {4, 5, 6, 7}
<1> DEFINE sum == LeafSum(t, k, e)
           pad == <<6, t, 1 - k, e>>
<1>1. DOMAIN LeafMsg(t, k) = LeafIdx /\ LeafMsg(t, k)[e] = Xor(sum, { pad })
  <2>1. CASE conf.program
    <3>1. e \in {0, 1} /\ LeafIdx = {0, 1}
      BY <2>1 DEF LeafIdx
    <3>2. QED
      BY <2>1, <3>1 DEF LeafMsg, LeafSum, LeafPad
  <2>2. CASE ~conf.program
    <3>1. e = 0 /\ LeafIdx = {0}
      BY <2>2 DEF LeafIdx
    <3>2. QED
      BY <2>2, <3>1 DEF LeafMsg, LeafSum, LeafPad
  <2>3. QED
    BY <2>1, <2>2
<1>2. ASSUME NEW s \in {0, 1}, NEW a \in SideSum(SendLeaves(t), s) PROVE a[1] \in {4, 5}
  <2>1. PICK y : a = <<4 + s, y>>
    BY InLeafSum
  <2>2. QED
    BY <2>1
<1>3. ASSUME NEW a \in sum PROVE a[1] \in {4, 5, 7}
  <2>1. CASE a \in SideSum(SendLeaves(t), 0) \cup SideSum(SendLeaves(t), 1)
    BY <1>2, <2>1
  <2>2. CASE a \in ValueOf(t)
    BY <2>2 DEF ValueOf
  <2>3. ASSUME NEW s \in {0, 1}, a \in Xor(SideSum(SendLeaves(t), s), ValueOf(t))
        PROVE  a \in SideSum(SendLeaves(t), s) \/ a \in ValueOf(t)
    BY <2>3, InXor
  <2>4. e \in {0, 1}
    BY DEF LeafIdx
  <2>5. QED
    BY <1>3, <2>1, <2>2, <2>3, <2>4 DEF LeafSum
<1>4. pad[1] = 6
  OBVIOUS
<1>5. /\ Pads(LeafMsg(t, k)[e]) = { pad }
      /\ \A a \in LeafMsg(t, k)[e] : a = pad \/ a \in sum
      /\ \A a \in sum : a \in LeafMsg(t, k)[e]
  <2>1. pad[1] \in {3, 6} /\ \A a \in sum : a[1] \notin {3, 6}
    BY <1>3, <1>4
  <2> HIDE DEF sum, pad
  <2>2. PICK x : x = LeafMsg(t, k)[e] /\ x = Xor(sum, { pad })
    BY <1>1
  <2>3. Pads(x) = { pad } /\ (\A a \in x : a = pad \/ a \in sum) /\ (\A a \in sum : a \in x)
    BY <2>1, <2>2, SumPads
  <2>4. QED
    BY <2>2, <2>3
<1>6. QED
  <2> HIDE DEF sum, pad
  <2>1. \A a \in LeafMsg(t, k)[e] : a[1] \in {4, 5, 6, 7}
    BY <1>3, <1>4, <1>5
  <2>2. QED
    BY <1>1, <1>5, <2>1 DEF sum, pad

(* Every element that can ever be masked.                                  *)
Sums == { EncSum(t, d)[side] : t \in 0..(Trees - 1), d \in 0..(Depth - 2), side \in {0, 1} }
LeafElements == { LeafMsg(t, k)[e] : t \in 0..(Trees - 1), k \in {0, 1}, e \in LeafIdx }

(* A pad tells the one element that it masks.                              *)
LEMMA PadTells ==
    ASSUME Configured, NEW x \in Sums \cup LeafElements, NEW y \in Sums \cup LeafElements
    PROVE  Cardinality(Pads(x)) = 1 /\ (x # y => Pads(x) \cap Pads(y) = {})
<1>1. ASSUME NEW z \in Sums
      PROVE  \E t \in 0..(Trees - 1), d \in 0..(Depth - 2), side \in {0, 1} :
                 z = EncSum(t, d)[side] /\ Pads(z) = { <<3, t, OtIdx(d), 1 - side>> }
  <2>1. PICK t \in 0..(Trees - 1), d \in 0..(Depth - 2), side \in {0, 1} : z = EncSum(t, d)[side]
    BY <1>1 DEF Sums
  <2>2. Pads(EncSum(t, d)[side]) = { <<3, t, OtIdx(d), 1 - side>> }
    BY EncSumIs
  <2>3. QED
    BY <2>1, <2>2
<1>2. ASSUME NEW z \in LeafElements
      PROVE  \E t \in 0..(Trees - 1), k \in {0, 1}, e \in LeafIdx :
                 z = LeafMsg(t, k)[e] /\ Pads(z) = { <<6, t, 1 - k, e>> }
  <2>1. PICK t \in 0..(Trees - 1), k \in {0, 1}, e \in LeafIdx : z = LeafMsg(t, k)[e]
    BY <1>2 DEF LeafElements
  <2>2. Pads(LeafMsg(t, k)[e]) = { <<6, t, 1 - k, e>> }
    BY LeafMsgIs
  <2>3. QED
    BY <2>1, <2>2
<1>3. \E pad : Pads(x) = { pad }
  BY <1>1, <1>2
<1>4. Cardinality(Pads(x)) = 1
  BY <1>3, FS_Singleton
<1>5. ASSUME NEW pad \in Pads(x), pad \in Pads(y) PROVE x = y
  <2>1. CASE x \in Sums /\ y \in Sums
    <3>1. PICK t \in 0..(Trees - 1), d \in 0..(Depth - 2), side \in {0, 1} :
              x = EncSum(t, d)[side] /\ pad = <<3, t, OtIdx(d), 1 - side>>
      BY <1>1, <1>5, <2>1
    <3>2. PICK u \in 0..(Trees - 1), f \in 0..(Depth - 2), other \in {0, 1} :
              y = EncSum(u, f)[other] /\ pad = <<3, u, OtIdx(f), 1 - other>>
      BY <1>1, <1>5, <2>1
    <3>3. t = u /\ OtIdx(d) = OtIdx(f) /\ 1 - side = 1 - other
      BY <3>1, <3>2
    <3>4. d = f /\ side = other
      BY <3>3, Sizes DEF OtIdx
    <3>5. QED
      BY <3>1, <3>2, <3>3, <3>4
  <2>2. CASE x \in LeafElements /\ y \in LeafElements
    <3>1. PICK t \in 0..(Trees - 1), k \in {0, 1}, e \in LeafIdx :
              x = LeafMsg(t, k)[e] /\ pad = <<6, t, 1 - k, e>>
      BY <1>2, <1>5, <2>2
    <3>2. PICK u \in 0..(Trees - 1), l \in {0, 1}, f \in LeafIdx :
              y = LeafMsg(u, l)[f] /\ pad = <<6, u, 1 - l, f>>
      BY <1>2, <1>5, <2>2
    <3>3. t = u /\ 1 - k = 1 - l /\ e = f
      BY <3>1, <3>2
    <3>4. k = l
      BY <3>3
    <3>5. QED
      BY <3>1, <3>2, <3>3, <3>4
  <2>3. ASSUME NEW z \in Sums PROVE \A a \in Pads(z) : a[1] = 3
    BY <1>1
  <2>4. ASSUME NEW z \in LeafElements PROVE \A a \in Pads(z) : a[1] = 6
    BY <1>2
  <2>5. QED
    BY <1>5, <2>1, <2>2, <2>3, <2>4
<1>6. QED
  BY <1>4, <1>5

---------------------------------------------------------------------------
(* What the receiver can open hides the active path. *)

(* The pads the receiver has are those of the other side.                   *)
LEMMA OpenedSides ==
    ASSUME Configured, NEW t \in 0..(Trees - 1)
    PROVE  /\ \A d \in 0..(Depth - 2), side \in {0, 1} :
                <<3, t, OtIdx(d), 1 - side>> \in Opened => 1 - side = Active(t, d + 1) % 2
           /\ \A k \in {0, 1}, e \in LeafIdx : <<6, t, 1 - k, e>> \in Opened => 1 - k = points[t] % 2
<1>1. ASSUME NEW d \in 0..(Depth - 2), NEW side \in {0, 1}, <<3, t, OtIdx(d), 1 - side>> \in Opened
      PROVE  1 - side = Active(t, d + 1) % 2
  <2>1. PICK u, j : <<3, t, OtIdx(d), 1 - side>> = <<3, u, j, PathBit(u, j)>>
    BY <1>1 DEF Opened
  <2>2. 1 - side = PathBit(t, OtIdx(d))
    BY <2>1
  <2>3. d + 1 \in 1..Depth /\ OtIdx(d) = Depth - (d + 1)
    BY Sizes DEF OtIdx
  <2>4. QED
    BY <2>2, <2>3, ActiveFits
<1>2. ASSUME NEW k \in {0, 1}, NEW e \in LeafIdx, <<6, t, 1 - k, e>> \in Opened
      PROVE  1 - k = points[t] % 2
  <2>1. PICK u, f : <<6, t, 1 - k, e>> = <<6, u, PathBit(u, 0), f>>
    BY <1>2 DEF Opened
  <2>2. 1 - k = PathBit(t, 0)
    BY <2>1
  <2>3. Depth \in 1..Depth /\ Depth - Depth = 0
    BY Sizes
  <2>4. QED
    BY <2>2, <2>3, ActiveFits
<1>3. QED
  BY <1>1, <1>2

LEMMA ActiveNodeIs ==
    ASSUME Configured, NEW u \in 0..(Trees - 1), NEW f \in 1..(Depth - 1)
    PROVE  /\ Active(u, f) \in Nodes(f)
           /\ ActiveNode(u, f) = SendLevels(u)[f][Active(u, f)]
           /\ \A a \in ActiveNode(u, f) : a[1] \in {0, 1} /\ ActiveNode(u, f) = { a }
<1>1. f \in 0..Depth /\ f \in 1..Depth /\ f \in 0..(Depth - 1) /\ f # 0
  BY Sizes
<1>2. Active(u, f) \in Nodes(f)
  <2>1. PICK w \in Nat : w = Width(f) /\ Active(u, f) \in 0..(w - 1)
    BY <1>1, Widths, ActiveFits
  <2>2. PICK v \in Nat : v = Width(f - 1) /\ w <= 2 * v
    BY <1>1, <2>1, Widths, Sizes
  <2>3. Nodes(f) = 0..((2 * v) - 1)
    BY <1>1, <2>2 DEF Nodes
  <2>4. QED
    BY <2>1, <2>2, <2>3
<1>3. ActiveNode(u, f) = SendLevels(u)[f][Active(u, f)]
  BY DEF ActiveNode, Active
<1>4. SendLevels(u)[f][Active(u, f)] = { <<Active(u, f) % 2, SendLevels(u)[f - 1][Active(u, f) \div 2]>> }
  BY <1>1, <1>2, NodeIs
<1>5. Active(u, f) % 2 \in {0, 1}
  <2>1. Active(u, f) \in Nat
    BY <1>1, <1>2, NodeNat
  <2>2. QED
    BY <2>1, Half
<1>6. QED
  BY <1>2, <1>3, <1>4, <1>5

LEMMA PuncturedLeaf ==
    ASSUME Configured, NEW u \in 0..(Trees - 1)
    PROVE  /\ points[u] \in 0..(Domain - 1)
           /\ \E a : SendLeaves(u)[points[u]] = { a } /\ a[1] \in {4, 5}
<1>1. PICK p \in 0..(Domain - 1) : p = points[u]
  BY ActiveFits
<1>2. SendLeaves(u)[p] = { <<4 + (p % 2), SendLevels(u)[Depth - 1][p \div 2]>> }
  BY LeafIs
<1>3. p % 2 \in {0, 1}
  BY Sizes, Half
<1>4. PICK a : a = <<4 + (p % 2), SendLevels(u)[Depth - 1][p \div 2]>>
  OBVIOUS
<1>5. a[1] \in {4, 5}
  BY <1>3, <1>4
<1>6. QED
  BY <1>1, <1>2, <1>4, <1>5

LEMMA SumsHide ==
    ASSUME Configured, NEW x \in Sums, Pads(x) \subseteq Opened, NEW u \in 0..(Trees - 1)
    PROVE  /\ \A f \in 1..(Depth - 1) : ActiveNode(u, f) \cap x = {}
           /\ ~(SendLeaves(u)[points[u]] \subseteq x)
<1>1. PICK t \in 0..(Trees - 1), d \in 0..(Depth - 2), side \in {0, 1} : x = EncSum(t, d)[side]
  BY DEF Sums
<1>2. /\ Pads(x) = { <<3, t, OtIdx(d), 1 - side>> }
      /\ \A a \in x : a = <<3, t, OtIdx(d), 1 - side>> \/ a \in SideSum(SendLevels(t)[d + 1], side)
      /\ \A a \in x : a[1] \in {0, 1, 3}
  BY <1>1, EncSumIs
<1>3. 1 - side = Active(t, d + 1) % 2
  BY <1>2, OpenedSides
<1>4. ASSUME NEW f \in 1..(Depth - 1), NEW a \in ActiveNode(u, f), a \in x PROVE FALSE
  <2>1. a[1] \in {0, 1} /\ SendLevels(u)[f][Active(u, f)] = { a } /\ Active(u, f) \in Nodes(f)
    BY <1>4, ActiveNodeIs
  <2>2. a \in SideSum(SendLevels(t)[d + 1], side)
    BY <1>2, <1>4, <2>1
  <2>3. PICK e \in 1..(Depth - 1) : e = d + 1
    BY Sizes
  <2>4. PICK i \in Nodes(e) : i % 2 = side /\ a = <<side, SendLevels(t)[e - 1][i \div 2]>>
    <3>1. a \in SideSum(SendLevels(t)[e], side)
      BY <2>2, <2>3
    <3>2. QED
      BY <3>1, InNodeSum
  <2>5. SendLevels(t)[e][i] = { <<i % 2, SendLevels(t)[e - 1][i \div 2]>> }
    BY NodeIs, Sizes
  <2>6. SendLevels(t)[e][i] = SendLevels(u)[f][Active(u, f)]
    BY <2>1, <2>4, <2>5
  <2>7. DifferentBelow(e) /\ e \in 0..(Depth - 1) /\ f \in 0..(Depth - 1)
    BY NodesDiffer, Sizes
  <2>8. t = u /\ e = f /\ i = Active(u, f)
    <3>1. PICK k \in Nodes(f) : k = Active(u, f)
      BY <2>1
    <3>2. SendLevels(t)[e][i] = SendLevels(u)[f][k]
      BY <2>6, <3>1
    <3>3. t = u /\ e = f /\ i = k
      BY <2>7, <3>2 DEF DifferentBelow
    <3>4. QED
      BY <3>1, <3>3
  <2>9. side = Active(t, d + 1) % 2
    BY <2>3, <2>4, <2>8
  <2>10. QED
    BY <1>3, <2>9
<1>5. ~(SendLeaves(u)[points[u]] \subseteq x)
  <2>1. PICK a : SendLeaves(u)[points[u]] = { a } /\ a[1] \in {4, 5}
    BY PuncturedLeaf
  <2>2. QED
    BY <1>2, <2>1
<1>6. QED
  BY <1>4, <1>5

LEMMA LeafSumTags ==
    ASSUME Configured, NEW t, NEW s \in {0, 1}, NEW a \in SideSum(SendLeaves(t), s)
    PROVE  a[1] # 7
<1>1. a[1] = 4 + s
  BY LeafSumHas
<1>2. QED
  BY <1>1

LEMMA PuncturedInSum ==
    ASSUME Configured, NEW u \in 0..(Trees - 1), NEW t \in 0..(Trees - 1), NEW s \in {0, 1},
           NEW a, SendLeaves(u)[points[u]] = { a }, a \in SideSum(SendLeaves(t), s)
    PROVE  t = u /\ s = points[t] % 2
<1>1. PICK i \in 0..(Domain - 1) : LeafOf(t, i, s, a)
  BY LeafSumHas
<1>2. PICK p \in 0..(Domain - 1) : p = points[u]
  BY PuncturedLeaf
<1>3. SendLeaves(t)[i] = SendLeaves(u)[p] /\ i % 2 = s
  BY <1>1, <1>2 DEF LeafOf
<1>4. t = u /\ i = p
  BY <1>3, LeavesDiffer
<1>5. QED
  BY <1>2, <1>3, <1>4

LEMMA LeavesHide ==
    ASSUME Configured, NEW x \in LeafElements, Pads(x) \subseteq Opened, NEW u \in 0..(Trees - 1)
    PROVE  /\ \A f \in 1..(Depth - 1) : ActiveNode(u, f) \cap x = {}
           /\ SendLeaves(u)[points[u]] \subseteq x => ValueOf(u) \subseteq x
<1>1. PICK t \in 0..(Trees - 1), k \in {0, 1}, e \in LeafIdx : x = LeafMsg(t, k)[e]
  BY DEF LeafElements
<1>2. /\ Pads(x) = { <<6, t, 1 - k, e>> }
      /\ \A a \in x : a = <<6, t, 1 - k, e>> \/ a \in LeafSum(t, k, e)
      /\ \A a \in LeafSum(t, k, e) : a \in x
      /\ \A a \in x : a[1] \in {4, 5, 6, 7}
  BY <1>1, LeafMsgIs
<1>3. 1 - k = points[t] % 2
  BY <1>2, OpenedSides
<1>4. ASSUME NEW f \in 1..(Depth - 1), NEW a \in ActiveNode(u, f) PROVE a \notin x
  <2>1. a[1] \in {0, 1}
    BY ActiveNodeIs
  <2>2. QED
    BY <1>2, <2>1
<1>5. ASSUME SendLeaves(u)[points[u]] \subseteq x PROVE ValueOf(u) \subseteq x
  <2>1. PICK a : SendLeaves(u)[points[u]] = { a } /\ a[1] \in {4, 5}
    BY PuncturedLeaf
  <2>2. a \in LeafSum(t, k, e)
    BY <1>2, <1>5, <2>1
  <2>3. ASSUME NEW s \in {0, 1}, a \in SideSum(SendLeaves(t), s)
        PROVE  t = u /\ s = points[t] % 2
    BY <2>1, <2>3, PuncturedInSum
  <2>4. conf.program /\ e # k
    BY <1>3, <2>2, <2>3 DEF LeafSum
  <2>5. e \in {0, 1} /\ LeafSum(t, k, e) = Xor(SideSum(SendLeaves(t), e), ValueOf(t))
    BY <2>4 DEF LeafSum, LeafIdx
  <2>6. a \notin ValueOf(t)
    BY <2>1 DEF ValueOf
  <2>7. a \in SideSum(SendLeaves(t), e)
    BY <2>2, <2>5, <2>6, InXor
  <2>8. t = u
    BY <2>3, <2>5, <2>7
  <2>9. ASSUME NEW v \in ValueOf(t) PROVE v \in x
    <3>1. v[1] = 7
      BY <2>9 DEF ValueOf
    <3>2. v \notin SideSum(SendLeaves(t), e)
      BY <2>5, <3>1, LeafSumTags
    <3>3. QED
      BY <1>2, <2>5, <2>9, <3>2, InXor
  <2>10. QED
    BY <2>8, <2>9
<1>6. QED
  BY <1>4, <1>5

---------------------------------------------------------------------------
(* Output positions. *)

LEMMA TreeCell ==
    ASSUME Configured, NEW t \in 0..(Trees - 1)
    PROVE  \E q \in Nat, r \in 0..(Batch - 1) : q = t \div Batch /\ r = t % Batch /\ (q * Batch) + r = t
<1>1. t \in Nat /\ Batch \in Nat \ {0}
  BY Sizes
<1>2. QED
  BY <1>1, DivMod

(* The position of leaf i of tree t in the interleaved layouts, as a cell of *)
(* a table of batches of leaves of Batch trees.                             *)
LEMMA InterleavedIdx ==
    ASSUME Configured, NEW t \in 0..(Trees - 1), NEW i \in Int, NEW f, f \notin {"leaf", "tree"}
    PROVE  OutIdx(f, t, i) = ((((t \div Batch) * Domain) + i) * Batch) + (t % Batch)
<1>1. PICK b \in Nat \ {0}, n \in Nat : b = Batch /\ n = Domain
  BY Sizes
<1>2. PICK q \in Nat, r \in 0..(b - 1) : q = t \div b /\ r = t % b /\ (q * b) + r = t
  BY <1>1, TreeCell
<1>3. t - r = q * b
  BY <1>2
<1>4. (t - r) * n = (q * n) * b
  BY <1>3
<1>5. (((q * n) + i) * b) = ((q * n) * b) + (i * b)
  OBVIOUS
<1>6. OutIdx(f, t, i) = ((t - r) * n) + (i * b) + r
  BY <1>1, <1>2 DEF OutIdx
<1>7. q * n \in Nat /\ (q * n) * b \in Nat /\ i * b \in Int
  BY <1>1, <1>2
<1>8. OutIdx(f, t, i) = (((q * n) + i) * b) + r
  BY <1>4, <1>5, <1>6, <1>7, <1>2
<1>9. QED
  BY <1>1, <1>2, <1>8

(* A position is in the output, and holds one leaf of one tree.             *)
LEMMA OutIdxFits ==
    ASSUME Configured, NEW f \in Formats, ValidFormat(f), NEW t \in 0..(Trees - 1), NEW i \in 0..(Domain - 1)
    PROVE  OutIdx(f, t, i) \in 0..(OutSize(f) - 1)
<1>1. PICK b \in Nat \ {0}, n \in Nat \ {0}, m \in Nat \ {0} : b = Batch /\ n = Domain /\ m = Trees
  BY Sizes
<1>2. CASE f = "leaf"
  <2>1. (i * m) + t \in 0..((n * m) - 1)
    BY <1>1, CellFits
  <2>2. QED
    BY <1>1, <1>2, <2>1 DEF OutIdx, OutSize
<1>3. CASE f = "tree"
  <2>1. (t * n) + i \in 0..((m * n) - 1)
    BY <1>1, CellFits
  <2>2. m * n = n * m
    BY <1>1
  <2>3. QED
    BY <1>1, <1>3, <2>1, <2>2 DEF OutIdx, OutSize
<1>4. CASE f \in {"inter", "callback"}
  <2>1. PICK w \in Nat : w = DivCeil(m, b) /\ w * b >= m
    BY <1>1, DivCeilIs
  <2>2. PICK q \in Nat, r \in 0..(b - 1) : q = t \div b /\ r = t % b /\ (q * b) + r = t
    BY <1>1, TreeCell
  <2>3. q \in 0..(w - 1)
    <3>1. SUFFICES ASSUME w <= q PROVE FALSE
      BY <2>1, <2>2
    <3>2. w * b <= q * b
      <4>1. CASE w < q
        <5>1. (w * b) + 0 < (q * b) + 0
          BY <2>1, <2>2, <4>1, RowsInOrder
        <5>2. QED
          BY <5>1, <2>1, <2>2
      <4>2. QED
        BY <3>1, <4>1, <2>1, <2>2
    <3>3. QED
      BY <1>1, <2>1, <2>2, <3>2
  <2>4. PICK j \in 0..((w * n) - 1) : j = (q * n) + i
    BY <1>1, <2>1, <2>3, CellFits
  <2>5. (j * b) + r \in 0..(((w * n) * b) - 1)
    <3>1. PICK v \in Nat : v = w * n
      BY <1>1, <2>1
    <3>2. j \in 0..(v - 1)
      BY <2>4, <3>1
    <3>3. (j * b) + r \in 0..((v * b) - 1)
      BY <2>2, <3>2, CellFits
    <3>4. QED
      BY <3>1, <3>3
  <2>6. OutIdx(f, t, i) = (j * b) + r
    BY <1>1, <1>4, <2>2, <2>4, InterleavedIdx
  <2>7. OutSize(f) = n * (w * b)
    <3>1. CASE f = "callback"
      BY <1>1, <2>1, <3>1 DEF OutSize, RoundUpTo
    <3>2. CASE f = "inter"
      <4>1. m % b = 0
        BY <1>1, <3>2 DEF ValidFormat
      <4>2. PICK k \in Nat : m = k * b
        <5>1. ((m \div b) * b) + (m % b) = m /\ m \div b \in Nat
          BY <1>1, DivMod
        <5>2. QED
          BY <4>1, <5>1
      <4>3. w <= k
        BY <1>1, <2>1, <4>2, DivCeilIs
      <4>4. w = k
        <5>1. SUFFICES ASSUME w < k PROVE FALSE
          BY <4>2, <4>3, <2>1
        <5>2. (w * b) + 0 < (k * b) + 0
          BY <5>1, <2>1, <4>2, RowsInOrder
        <5>3. QED
          BY <5>2, <2>1, <4>2
      <4>5. QED
        BY <1>1, <3>2, <4>2, <4>4 DEF OutSize
    <3>3. QED
      BY <1>4, <3>1, <3>2
  <2>8. n * (w * b) = (w * n) * b
    BY <1>1, <2>1
  <2>9. QED
    BY <2>5, <2>6, <2>7, <2>8
<1>5. QED
  BY <1>2, <1>3, <1>4 DEF Formats

LEMMA OutIdxTells ==
    ASSUME Configured, NEW f, NEW t \in 0..(Trees - 1), NEW i \in 0..(Domain - 1),
           NEW u \in 0..(Trees - 1), NEW k \in 0..(Domain - 1), OutIdx(f, t, i) = OutIdx(f, u, k)
    PROVE  t = u /\ i = k
<1>1. PICK b \in Nat \ {0}, n \in Nat \ {0}, m \in Nat \ {0} : b = Batch /\ n = Domain /\ m = Trees
  BY Sizes
<1>2. CASE f = "leaf"
  <2>1. (i * m) + t = (k * m) + u
    BY <1>1, <1>2 DEF OutIdx
  <2>2. QED
    BY <1>1, <2>1, OneCell
<1>3. CASE f = "tree"
  <2>1. (t * n) + i = (u * n) + k
    BY <1>1, <1>3 DEF OutIdx
  <2>2. QED
    BY <1>1, <2>1, OneCell
<1>4. CASE f \notin {"leaf", "tree"}
  <2>1. PICK q \in Nat, r \in 0..(b - 1) : q = t \div b /\ r = t % b /\ (q * b) + r = t
    BY <1>1, TreeCell
  <2>2. PICK p \in Nat, s \in 0..(b - 1) : p = u \div b /\ s = u % b /\ (p * b) + s = u
    BY <1>1, TreeCell
  <2>3. PICK x \in Int : x = (q * n) + i
    BY <1>1, <2>1
  <2>4. PICK y \in Int : y = (p * n) + k
    BY <1>1, <2>2
  <2>5. (x * b) + r = (y * b) + s
    <3>1. i \in Int /\ k \in Int
      BY <1>1
    <3>2. OutIdx(f, t, i) = (((q * n) + i) * b) + r
      BY <1>1, <1>4, <2>1, <3>1, InterleavedIdx
    <3>3. OutIdx(f, u, k) = (((p * n) + k) * b) + s
      BY <1>1, <1>4, <2>2, <3>1, InterleavedIdx
    <3>4. QED
      BY <2>3, <2>4, <3>2, <3>3
  <2>6. x = y /\ r = s
    BY <2>1, <2>2, <2>5, OneCell
  <2>7. (q * n) + i = (p * n) + k
    BY <2>3, <2>4, <2>6
  <2>8. q = p /\ i = k
    BY <1>1, <2>1, <2>2, <2>7, OneCell
  <2>9. QED
    BY <2>1, <2>2, <2>6, <2>8
<1>5. QED
  BY <1>2, <1>3, <1>4

(* The output holds val[t][i] for the first n trees, and is blank elsewhere. *)
Covers(f, n, p) == \E t \in 0..(Trees - 1), i \in 0..(Domain - 1) : t < n /\ OutIdx(f, t, i) = p
Written(out, f, n, val) ==
    /\ DOMAIN out = 0..(OutSize(f) - 1)
    /\ \A t \in 0..(Trees - 1), i \in 0..(Domain - 1) : t < n => out[OutIdx(f, t, i)] = val[t][i]
    /\ \A p \in DOMAIN out : ~Covers(f, n, p) => out[p] = ZeroBlock

LEMMA CopyOutIs ==
    ASSUME Configured, NEW f \in Formats, ValidFormat(f), NEW out, NEW n \in 0..(Trees - 1), NEW val, NEW leaves,
           Written(out, f, n, val), \A t \in n..(n + Rem(n) - 1) : leaves[t] = val[t]
    PROVE  Written(CopyOut(out, f, n, leaves), f, n + Batch, val)
<1> DEFINE cells == (n..(n + Rem(n) - 1)) \X (0..(Domain - 1))
           At(ti) == OutIdx(f, ti[1], ti[2])
           new == CopyOut(out, f, n, leaves)
<1>1. /\ DOMAIN new = DOMAIN out
      /\ \A p \in DOMAIN out :
           new[p] = IF \E ti \in cells : At(ti) = p
                      THEN LET ti == CHOOSE ti \in cells : At(ti) = p IN leaves[ti[1]][ti[2]]
                      ELSE out[p]
  BY DEF CopyOut
<1>2. \A t \in 0..(Trees - 1) : t < n + Batch <=> t < n \/ t \in n..(n + Rem(n) - 1)
  BY Sizes DEF Rem
<1>3. n..(n + Rem(n) - 1) \subseteq 0..(Trees - 1)
  BY Sizes DEF Rem
<1>4. ASSUME NEW t \in 0..(Trees - 1), NEW i \in 0..(Domain - 1), t < n + Batch
      PROVE  new[OutIdx(f, t, i)] = val[t][i]
  <2>1. PICK p \in DOMAIN out : p = OutIdx(f, t, i)
    BY OutIdxFits DEF Written
  <2>2. CASE t \in n..(n + Rem(n) - 1)
    <3>1. <<t, i>> \in cells /\ At(<<t, i>>) = p
      BY <2>1, <2>2
    <3>2. PICK ti \in cells : At(ti) = p /\ new[p] = leaves[ti[1]][ti[2]]
      <4> HIDE DEF cells, At, new
      <4>1. QED
        BY <1>1, <3>1
    <3>3. PICK u \in n..(n + Rem(n) - 1), k \in 0..(Domain - 1) : ti = <<u, k>>
      BY <3>2
    <3>4. u \in 0..(Trees - 1) /\ OutIdx(f, u, k) = p /\ new[p] = leaves[u][k]
      BY <1>3, <3>2, <3>3
    <3>5. t = u /\ i = k
      BY <2>1, <3>4, OutIdxTells
    <3>6. QED
      BY <2>1, <2>2, <3>4, <3>5
  <2>3. CASE t \notin n..(n + Rem(n) - 1)
    <3>1. t < n
      BY <1>2, <1>4, <2>3
    <3>2. ~\E ti \in cells : At(ti) = p
      <4>1. SUFFICES ASSUME NEW u \in n..(n + Rem(n) - 1), NEW k \in 0..(Domain - 1), OutIdx(f, u, k) = p
                     PROVE  FALSE
        OBVIOUS
      <4>2. u \in 0..(Trees - 1)
        BY <1>3
      <4>3. t = u
        BY <2>1, <4>1, <4>2, OutIdxTells
      <4>4. QED
        BY <2>3, <4>3
    <3>3. new[p] = out[p]
      <4> HIDE DEF cells, At, new
      <4>1. QED
        BY <1>1, <3>2
    <3>4. QED
      BY <2>1, <3>1, <3>3 DEF Written
  <2>4. QED
    BY <2>2, <2>3
<1>5. ASSUME NEW p \in DOMAIN out, ~Covers(f, n + Batch, p) PROVE new[p] = ZeroBlock
  <2>1. ~\E ti \in cells : At(ti) = p
    <3>1. SUFFICES ASSUME NEW u \in n..(n + Rem(n) - 1), NEW k \in 0..(Domain - 1), OutIdx(f, u, k) = p
                   PROVE  FALSE
      OBVIOUS
    <3>2. QED
      BY <1>2, <1>3, <1>5, <3>1 DEF Covers
  <2>2. new[p] = out[p]
    <3> HIDE DEF cells, At, new
    <3>1. QED
      BY <1>1, <2>1
  <2>3. ~Covers(f, n, p)
    BY <1>2, <1>5 DEF Covers
  <2>4. QED
    BY <2>2, <2>3 DEF Written
<1>6. QED
  <2> HIDE DEF new
  <2>1. DOMAIN new = 0..(OutSize(f) - 1)
    BY <1>1 DEF Written
  <2>2. Written(new, f, n + Batch, val)
    BY <1>1, <1>4, <1>5, <2>1 DEF Written
  <2>3. QED
    BY <2>2 DEF new

---------------------------------------------------------------------------
(* The receiver's trees. *)

LEMMA Unmask ==
    ASSUME NEW a, NEW b, NEW k
    PROVE  Xor(Xor(Xor(a, k), b), k) = Xor(a, b) /\ Xor(k, Xor(a, k)) = a /\ Xor(Xor(a, k), k) = a
<1>1. \A x : x \in Xor(Xor(Xor(a, k), b), k) <=> x \in Xor(a, b)
  BY InXor
<1>2. \A x : x \in Xor(k, Xor(a, k)) <=> x \in a
  BY InXor
<1>3. \A x : x \in Xor(Xor(a, k), k) <=> x \in a
  BY InXor
<1>4. QED
  BY <1>1, <1>2, <1>3

LEMMA XorSwap ==
    ASSUME NEW a, NEW b, NEW c
    PROVE  Xor(Xor(a, b), c) = Xor(Xor(a, c), b)
<1>1. \A x : x \in Xor(Xor(a, b), c) <=> x \in Xor(Xor(a, c), b)
  BY InXor
<1>2. QED
  BY <1>1

(* One node of a side from the sum of them all, when all others are known.  *)
LEMMA SiblingSum ==
    ASSUME NEW D, IsFiniteSet(D), NEW full, NEW part, DOMAIN full = D, DOMAIN part = D,
           NEW side, NEW s \in D, s % 2 = side,
           \A i \in D : i % 2 = side /\ i # s => full[i] = part[i]
    PROVE  Xor(SideSum(full, side), Xor(SideSum(part, side), part[s])) = full[s]
<1> DEFINE Rest == { i \in D : i % 2 = side /\ i # s }
<1>1. IsFiniteSet(Rest)
  BY FS_Subset, Rest \in SUBSET D
<1>2. { i \in D : i % 2 = side } = Rest \cup {s} /\ s \notin Rest
  OBVIOUS
<1>3. XorSum(full, Rest) = XorSum(part, Rest)
  <2>1. \A i \in Rest : full[i] = part[i]
    OBVIOUS
  <2> HIDE DEF Rest
  <2>2. QED
    BY <2>1, XorSumSame
<1>4. PICK r : r = XorSum(full, Rest)
  OBVIOUS
<1>5. SideSum(full, side) = Xor(full[s], r) /\ SideSum(part, side) = Xor(part[s], r)
  <2> HIDE DEF Rest
  <2>1. XorSum(full, Rest \cup {s}) = Xor(full[s], r)
    BY <1>1, <1>2, <1>4, XorSumAdd
  <2>2. XorSum(part, Rest \cup {s}) = Xor(part[s], r)
    BY <1>1, <1>2, <1>3, <1>4, XorSumAdd
  <2>3. QED
    BY <1>2, <2>1, <2>2 DEF SideSum
<1>6. \A x : x \in Xor(Xor(full[s], r), Xor(Xor(part[s], r), part[s])) <=> x \in full[s]
  BY InXor
<1>7. QED
  BY <1>5, <1>6

(* What the receiver makes of the level above and the sums of level d.      *)
RecvStep(t, theirs, above, d) ==
    IF d = 1
      THEN [i \in {0, 1} |->
              IF i = PathBit(t, Depth - 1) THEN ZeroBlock ELSE Xor(KeyHeld(t, Depth - 1), theirs[0][i])]
      ELSE [i \in DOMAIN Children(above, d - 1) |->
              CASE i = Active(t, d) - (Active(t, d) % 2) + (1 - (Active(t, d) % 2)) ->
                     Xor(Xor(theirs[d - 1][1 - (Active(t, d) % 2)],
                             Xor(SideSum(Children(above, d - 1), 1 - (Active(t, d) % 2)),
                                 SumStart(1 - (Active(t, d) % 2)))),
                         KeyHeld(t, OtIdx(d - 1)))
                [] i = Active(t, d) -> ZeroBlock
                [] OTHER -> Children(above, d - 1)[i]]

LEMMA RecvLevelsAre ==
    ASSUME Configured, NEW t, NEW theirs
    PROVE  RecvLevels(t, theirs) = [d \in 1..(Depth - 1) |-> RecvStep(t, theirs, RecvLevels(t, theirs)[d - 1], d)]
<1> DEFINE Upto == { k \in 0..(Depth - 1) : \E g : g = [d \in 1..k |-> RecvStep(t, theirs, g[d - 1], d)] }
<1>1. 0 \in Upto
  <2>1. PICK g : g = [d \in 1..0 |-> 0]
    OBVIOUS
  <2>2. g = [d \in 1..0 |-> RecvStep(t, theirs, g[d - 1], d)]
    BY <2>1
  <2>3. 0 \in 0..(Depth - 1)
    BY Sizes
  <2>4. QED
    BY <2>2, <2>3, Zenon
<1>2. ASSUME NEW k \in 1..(Depth - 1), k - 1 \in Upto PROVE k \in Upto
  <2>1. PICK g : g = [d \in 1..(k - 1) |-> RecvStep(t, theirs, g[d - 1], d)]
    BY <1>2
  <2>2. PICK h : h = [d \in 1..k |-> IF d = k THEN RecvStep(t, theirs, IF k = 1 THEN g[0] ELSE g[k - 1], k) ELSE g[d]]
    OBVIOUS
  <2>3. ASSUME NEW d \in 1..k PROVE h[d] = RecvStep(t, theirs, h[d - 1], d)
    <3>1. d = 1 => \A x, y : RecvStep(t, theirs, x, d) = RecvStep(t, theirs, y, d)
      BY DEF RecvStep
    <3>2. CASE d = k
      <4>1. CASE k = 1
        BY <2>2, <3>1, <3>2, <4>1
      <4>2. CASE k # 1
        <5>1. h[k] = RecvStep(t, theirs, g[k - 1], k) /\ h[k - 1] = g[k - 1]
          BY <2>2, <4>2
        <5>2. QED
          BY <3>2, <5>1
      <4>3. QED
        BY <4>1, <4>2
    <3>3. CASE d # k
      <4>1. d \in 1..(k - 1) /\ h[d] = g[d] /\ (d # 1 => h[d - 1] = g[d - 1])
        BY <2>2, <3>3
      <4>2. g[d] = RecvStep(t, theirs, g[d - 1], d)
        BY <2>1, <4>1, Zenon
      <4>3. QED
        BY <3>1, <4>1, <4>2
    <3>4. QED
      BY <3>2, <3>3
  <2>4. h = [d \in 1..k |-> h[d]]
    BY <2>2, Zenon
  <2>5. h = [d \in 1..k |-> RecvStep(t, theirs, h[d - 1], d)]
    BY <2>3, <2>4, Zenon
  <2>6. QED
    BY <2>5
<1>3. \E g : g = [d \in 1..(Depth - 1) |-> RecvStep(t, theirs, g[d - 1], d)]
  <2>1. Depth - 1 \in Nat
    BY Sizes
  <2>2. 0..(Depth - 1) \subseteq Upto
    <3> HIDE DEF Upto
    <3>1. QED
      BY <1>1, <1>2, <2>1, IntervalInduction
  <2>3. Depth - 1 \in Upto
    BY <2>1, <2>2
  <2>4. QED
    BY <2>3
<1>4. QED
  BY <1>3, Zenon DEF RecvLevels, RecvStep, Active

(* What the sender's sums and leaf messages of tree t are, as the receiver   *)
(* reads them.                                                             *)
SentSums(t, theirs) == \A d \in 0..(Depth - 2), side \in {0, 1} : theirs[d][side] = EncSum(t, d)[side]
SentLeaf(t, msgs) == \A k \in {0, 1}, e \in LeafIdx : msgs[k][e] = LeafMsg(t, k)[e]

(* A level of the receiver: the sender's, but for the active node.          *)
Known(t, d, level) ==
    level = [i \in Nodes(d) |-> IF i = Active(t, d) THEN ZeroBlock ELSE SendLevels(t)[d][i]]

LEMMA FirstLevel ==
    ASSUME Configured, Depth > 1, NEW t \in 0..(Trees - 1), NEW theirs, SentSums(t, theirs), NEW above
    PROVE  Known(t, 1, RecvStep(t, theirs, above, 1))
<1>1. 1 \in 1..Depth /\ 1 \in 0..Depth /\ 1 \in 0..(Depth - 1) /\ 0 \in 0..(Depth - 2) /\ 0 \in 0..Depth
  BY Sizes
<1>2. PICK a \in {0, 1} : a = Active(t, 1) /\ a = PathBit(t, Depth - 1)
  <2>1. PICK x \in Nat : x = Active(t, 1)
    BY <1>1, ActiveFits, Widths
  <2>2. x \div 2 = 0
    <3>1. Active(t, 0) \in 0..(1 - 1)
      BY <1>1, ActiveFits, Widths
    <3>2. x \div 2 = Active(t, 0)
      BY <1>1, <2>1, ActiveFits
    <3>3. QED
      BY <3>1, <3>2
  <2>3. x % 2 = PathBit(t, Depth - 1)
    BY <1>1, <2>1, ActiveFits
  <2>4. QED
    BY <2>1, <2>2, <2>3, Half
<1>3. Nodes(1) = {0, 1}
  BY Widths DEF Nodes
<1>4. ASSUME NEW i \in {0, 1}, i # a
      PROVE  Xor(KeyHeld(t, Depth - 1), theirs[0][i]) = SendLevels(t)[1][i]
  <2>1. 1 - i = a
    BY <1>4
  <2>2. PICK level : level = SendLevels(t)[1] /\ DOMAIN level = {0, 1}
    <3>1. DOMAIN SendLevels(t)[1] = Nodes(1)
      BY <1>1, NodeIs
    <3>2. QED
      BY <1>3, <3>1
  <2>3. SideSum(level, i) = level[i]
    <3>1. { j \in DOMAIN level : j % 2 = i } = {i}
      BY <2>2
    <3>2. QED
      BY <3>1, XorSumOne DEF SideSum
  <2>4. OtIdx(0) = Depth - 1 /\ 0 + 1 = 1
    BY Sizes DEF OtIdx
  <2>5. EncSum(t, 0)[i] = Xor(SideSum(SendLevels(t)[0 + 1], i), { <<3, t, OtIdx(0), 1 - i>> })
    BY <1>1, EncSumIs, ZenonT(60)
  <2>6. KeyHeld(t, Depth - 1) = { <<3, t, Depth - 1, a>> }
    BY <1>2 DEF KeyHeld, Key
  <2>7. theirs[0][i] = Xor(level[i], { <<3, t, Depth - 1, a>> })
    BY <1>1, <2>1, <2>2, <2>3, <2>4, <2>5 DEF SentSums
  <2>8. QED
    BY <2>2, <2>6, <2>7, Unmask
<1>5. RecvStep(t, theirs, above, 1) =
        [i \in {0, 1} |-> IF i = a THEN ZeroBlock ELSE Xor(KeyHeld(t, Depth - 1), theirs[0][i])]
  BY <1>2 DEF RecvStep
<1>6. QED
  BY <1>2, <1>3, <1>4, <1>5 DEF Known

(* The children of a level the receiver knows: the sender's, but for the two *)
(* of the active node, which are those of ZeroBlock.                       *)
LEMMA ChildrenKnown ==
    ASSUME Configured, NEW t \in 0..(Trees - 1), NEW d \in 2..(Depth - 1), NEW above, Known(t, d - 1, above)
    PROVE  /\ DOMAIN Children(above, d - 1) = Nodes(d)
           /\ \A i \in Nodes(d) :
                Children(above, d - 1)[i] =
                    IF i \div 2 = Active(t, d - 1) THEN Inner(i % 2, ZeroBlock) ELSE SendLevels(t)[d][i]
<1>1. Children(above, d - 1) = [i \in Nodes(d) |-> Inner(i % 2, above[i \div 2])]
  BY DEF Children, Nodes
<1>2. ASSUME NEW i \in Nodes(d)
      PROVE  Inner(i % 2, above[i \div 2]) =
                 IF i \div 2 = Active(t, d - 1) THEN Inner(i % 2, ZeroBlock) ELSE SendLevels(t)[d][i]
  <2>1. i \div 2 \in Nodes(d - 1)
    BY ParentNode, Sizes
  <2>2. SendLevels(t)[d][i] = { <<i % 2, SendLevels(t)[d - 1][i \div 2]>> }
    BY NodeIs, Sizes
  <2>3. above[i \div 2] = IF i \div 2 = Active(t, d - 1) THEN ZeroBlock ELSE SendLevels(t)[d - 1][i \div 2]
    BY <2>1 DEF Known
  <2>4. QED
    BY <2>2, <2>3 DEF Inner
<1>3. QED
  BY <1>1, <1>2

LEMMA NodesFinite ==
    ASSUME Configured, NEW d \in 1..Depth
    PROVE  IsFiniteSet(Nodes(d))
<1>1. PICK w \in Nat : w = Width(d - 1)
  BY Widths, Sizes
<1>2. Nodes(d) = 0..((2 * w) - 1) /\ (2 * w) - 1 \in Int
  BY <1>1 DEF Nodes
<1>3. QED
  BY <1>2, FS_Interval

LEMMA NextLevel ==
    ASSUME Configured, NEW t \in 0..(Trees - 1), NEW theirs, SentSums(t, theirs),
           NEW d \in 2..(Depth - 1), NEW above, Known(t, d - 1, above)
    PROVE  Known(t, d, RecvStep(t, theirs, above, d))
<1>1. d \in 1..Depth /\ d \in 0..(Depth - 1) /\ d # 0 /\ d # 1 /\ d - 1 \in 0..(Depth - 2)
  BY Sizes
<1>2. PICK raw : raw = Children(above, d - 1) /\ DOMAIN raw = Nodes(d)
  BY ChildrenKnown
<1>3. PICK a \in Nodes(d), bit \in {0, 1} :
          a = Active(t, d) /\ a \in Nat /\ bit = a % 2 /\ bit = PathBit(t, Depth - d) /\ a \div 2 = Active(t, d - 1)
  <2>1. Active(t, d) \in Nodes(d)
    BY ActiveNodeIs, Sizes
  <2>2. Active(t, d) \in Nat
    BY <1>1, <2>1, NodeNat, Sizes
  <2>3. Active(t, d) % 2 \in {0, 1}
    BY <2>2, Half
  <2>4. QED
    BY <1>1, <2>1, <2>2, <2>3, ActiveFits
<1>4. PICK s \in Nodes(d) : s = a - bit + (1 - bit) /\ s \in Nat /\ s % 2 = 1 - bit /\ s \div 2 = a \div 2
  <2>1. PICK w \in Nat : w = Width(d - 1)
    BY <1>1, Widths, Sizes
  <2>2. Nodes(d) = 0..((2 * w) - 1)
    BY <1>1, <2>1 DEF Nodes
  <2>3. PICK h \in Nat : h = a \div 2 /\ (2 * h) + bit = a
    BY <1>3, Half
  <2>4. PICK other \in {0, 1} : other = 1 - bit /\ other # bit
    OBVIOUS
  <2>5. a \in 0..((2 * w) - 1)
    BY <2>2
  <2>6. h < w
    BY <2>3, <2>5
  <2>7. (2 * h) + other \in 0..((2 * w) - 1) /\ (2 * h) + other \in Nat
    BY <2>6
  <2>8. ((2 * h) + other) % 2 = other /\ ((2 * h) + other) \div 2 = h
    BY Half
  <2>9. a - bit + (1 - bit) = (2 * h) + other
    BY <2>3, <2>4
  <2>10. QED
    BY <2>2, <2>3, <2>4, <2>7, <2>8, <2>9
<1>5. PICK full : full = SendLevels(t)[d] /\ DOMAIN full = Nodes(d)
  BY <1>1, NodeIs
<1>6. ASSUME NEW i \in Nodes(d), i # a, i # s PROVE raw[i] = full[i]
  <2>1. i \in Nat
    BY <1>1, NodeNat, Sizes
  <2>2. i \div 2 # a \div 2
    <3>1. SUFFICES ASSUME i \div 2 = a \div 2 PROVE FALSE
      OBVIOUS
    <3>2. PICK h \in Nat, b \in {0, 1} : h = a \div 2 /\ (2 * h) + b = i
      BY <2>1, <3>1, Half
    <3>3. (2 * h) + bit = a
      BY <1>3, <3>2, Half
    <3>4. CASE b = bit
      BY <1>6, <3>2, <3>3, <3>4
    <3>5. CASE b = 1 - bit
      BY <1>4, <1>6, <3>2, <3>3, <3>5
    <3>6. b = bit \/ b = 1 - bit
      OBVIOUS
    <3>7. QED
      BY <3>4, <3>5, <3>6
  <2>3. QED
    BY <1>2, <1>3, <1>5, <2>2, ChildrenKnown
<1>7. raw[s] = Inner(1 - bit, ZeroBlock)
  BY <1>2, <1>3, <1>4, ChildrenKnown
<1>8. Xor(Xor(theirs[d - 1][1 - bit], Xor(SideSum(raw, 1 - bit), SumStart(1 - bit))), KeyHeld(t, OtIdx(d - 1)))
        = full[s]
  <2>1. Xor(SideSum(full, 1 - bit), Xor(SideSum(raw, 1 - bit), raw[s])) = full[s]
    <3>1. \A i \in Nodes(d) : i % 2 = 1 - bit /\ i # s => full[i] = raw[i]
      <4>1. a % 2 # 1 - bit
        BY <1>3
      <4>2. QED
        BY <1>6, <4>1
    <3>2. PICK D : D = Nodes(d) /\ IsFiniteSet(D)
      BY <1>1, NodesFinite
    <3>3. PICK side : side = 1 - bit
      OBVIOUS
    <3>4. /\ DOMAIN full = D /\ DOMAIN raw = D /\ s \in D /\ s % 2 = side
          /\ \A i \in D : i % 2 = side /\ i # s => full[i] = raw[i]
      BY <1>2, <1>4, <1>5, <3>1, <3>2, <3>3
    <3>5. Xor(SideSum(full, side), Xor(SideSum(raw, side), raw[s])) = full[s]
      BY <3>2, <3>4, SiblingSum
    <3>6. QED
      BY <3>3, <3>5
  <2>2. OtIdx(d - 1) = Depth - d /\ (d - 1) + 1 = d
    BY Sizes DEF OtIdx
  <2>3. KeyHeld(t, OtIdx(d - 1)) = { <<3, t, OtIdx(d - 1), bit>> }
    BY <1>3, <2>2 DEF KeyHeld, Key
  <2>4. 1 - bit \in {0, 1} /\ 1 - (1 - bit) = bit
    OBVIOUS
  <2>5. PICK side \in {0, 1} : side = 1 - bit /\ 1 - side = bit
    BY <2>4
  <2>6. EncSum(t, d - 1)[side] = Xor(SideSum(SendLevels(t)[(d - 1) + 1], side), { <<3, t, OtIdx(d - 1), 1 - side>> })
    BY <1>1, EncSumIs
  <2>7. theirs[d - 1][side] = Xor(SideSum(full, side), { <<3, t, OtIdx(d - 1), bit>> })
    BY <1>1, <1>5, <2>2, <2>5, <2>6 DEF SentSums
  <2>8. SumStart(1 - bit) = raw[s]
    BY <1>7 DEF SumStart
  <2>9. PICK K : K = { <<3, t, OtIdx(d - 1), bit>> }
    OBVIOUS
  <2>10. PICK F, R : F = SideSum(full, side) /\ R = Xor(SideSum(raw, side), raw[s])
    OBVIOUS
  <2>11. Xor(Xor(Xor(F, K), R), K) = full[s]
    BY <2>1, <2>5, <2>10, Unmask
  <2>12. theirs[d - 1][1 - bit] = Xor(F, K) /\ KeyHeld(t, OtIdx(d - 1)) = K
    BY <2>3, <2>5, <2>7, <2>9, <2>10
  <2>13. Xor(SideSum(raw, 1 - bit), SumStart(1 - bit)) = R
    BY <2>5, <2>8, <2>10
  <2>14. QED
    BY <2>11, <2>12, <2>13
<1>9. RecvStep(t, theirs, above, d) =
        [i \in Nodes(d) |->
            CASE i = s -> full[s]
              [] i = a -> ZeroBlock
              [] OTHER -> raw[i]]
  <2>1. PICK v : v = Xor(Xor(theirs[d - 1][1 - bit], Xor(SideSum(raw, 1 - bit), SumStart(1 - bit))),
                         KeyHeld(t, OtIdx(d - 1)))
    OBVIOUS
  <2>2. PICK sibling : sibling = a - bit + (1 - bit)
    OBVIOUS
  <2>3. RecvStep(t, theirs, above, d) =
          [i \in DOMAIN raw |->
              CASE i = sibling -> v
                [] i = a -> ZeroBlock
                [] OTHER -> raw[i]]
    BY <1>1, <1>2, <1>3, <2>1, <2>2 DEF RecvStep
  <2>4. v = full[s] /\ sibling = s /\ DOMAIN raw = Nodes(d)
    BY <1>2, <1>4, <1>8, <2>1, <2>2
  <2>5. QED
    BY <2>3, <2>4, Zenon
<1>10. s # a
  <2>1. a % 2 = bit /\ s % 2 = 1 - bit
    BY <1>3, <1>4
  <2>2. 1 - bit # bit
    OBVIOUS
  <2>3. QED
    BY <2>1, <2>2
<1>11. QED
  BY <1>3, <1>5, <1>6, <1>9, <1>10 DEF Known

(* What the receiver reconstructs of each level is the sender's level with   *)
(* the active node blanked.                                                *)
LEMMA AllLevels ==
    ASSUME Configured, NEW t \in 0..(Trees - 1), NEW theirs, SentSums(t, theirs)
    PROVE  \A d \in 1..(Depth - 1) : Known(t, d, RecvLevels(t, theirs)[d])
<1> DEFINE Reached == { k \in 0..(Depth - 1) : k = 0 \/ Known(t, k, RecvLevels(t, theirs)[k]) }
<1>1. Depth - 1 \in Nat
  BY Sizes
<1>2. 0 \in Reached
  BY <1>1
<1>3. ASSUME NEW k \in 1..(Depth - 1), k - 1 \in Reached PROVE k \in Reached
  <2>1. RecvLevels(t, theirs)[k] = RecvStep(t, theirs, RecvLevels(t, theirs)[k - 1], k)
    <3>1. PICK f : f = RecvLevels(t, theirs)
      OBVIOUS
    <3>2. f = [d \in 1..(Depth - 1) |-> RecvStep(t, theirs, f[d - 1], d)]
      BY <3>1, RecvLevelsAre
    <3>3. f[k] = RecvStep(t, theirs, f[k - 1], k)
      BY <3>2, Zenon
    <3>4. QED
      BY <3>1, <3>3
  <2>2. CASE k = 1
    <3>1. Depth > 1
      BY <1>3, Sizes
    <3>2. Known(t, 1, RecvStep(t, theirs, RecvLevels(t, theirs)[k - 1], 1))
      BY <3>1, FirstLevel
    <3>3. QED
      BY <2>1, <2>2, <3>2, <1>1
  <2>3. CASE k # 1
    <3>1. k \in 2..(Depth - 1) /\ k - 1 # 0
      BY <2>3, <1>1
    <3>2. Known(t, k - 1, RecvLevels(t, theirs)[k - 1])
      BY <1>3, <3>1
    <3>3. Known(t, k, RecvStep(t, theirs, RecvLevels(t, theirs)[k - 1], k))
      BY <3>1, <3>2, NextLevel
    <3>4. QED
      BY <2>1, <3>3, <1>1
  <2>4. QED
    BY <2>2, <2>3
<1>4. 0..(Depth - 1) \subseteq Reached
  <2> HIDE DEF Reached
  <2>1. QED
    BY <1>1, <1>2, <1>3, IntervalInduction
<1>5. QED
  BY <1>4

(* The leaf level of the receiver before the leaf message: every leaf but    *)
(* the two below the active node, and nothing in a tree of depth one.      *)
LEMMA RawLeaves ==
    ASSUME Configured, NEW t \in 0..(Trees - 1), NEW theirs, SentSums(t, theirs)
    PROVE  /\ DOMAIN RecvRaw(t, theirs) = 0..(Domain - 1)
           /\ \A i \in 0..(Domain - 1) : i \div 2 # points[t] \div 2 => RecvRaw(t, theirs)[i] = SendLeaves(t)[i]
           /\ Depth > 1 => \A i \in 0..(Domain - 1) :
                  i \div 2 = points[t] \div 2 => RecvRaw(t, theirs)[i] = Leaf(i % 2, ZeroBlock)
<1>1. PICK a \in Nat, h \in Nat : a = points[t] /\ h = a \div 2 /\ h = Active(t, Depth - 1)
  <2>1. Depth \in 1..Depth /\ Depth - 1 \in 0..Depth
    BY Sizes
  <2>2. points[t] \in Nat
    BY ActiveFits, Sizes
  <2>3. points[t] \div 2 = Active(t, Depth - 1)
    BY <2>1, ActiveFits
  <2>4. QED
    BY <2>2, <2>3, Half
<1>2. CASE Depth > 1
  <2>1. Depth - 1 \in 1..(Depth - 1)
    BY <1>2, Sizes
  <2>2. PICK level : level = RecvLevels(t, theirs)[Depth - 1] /\ Known(t, Depth - 1, level)
    BY <2>1, AllLevels
  <2>3. RecvRaw(t, theirs) = [i \in 0..(Domain - 1) |-> Leaf(i % 2, level[i \div 2])]
    BY <1>2, <2>2 DEF RecvRaw, Leaves
  <2>4. ASSUME NEW i \in 0..(Domain - 1)
        PROVE  /\ i \div 2 # h => RecvRaw(t, theirs)[i] = SendLeaves(t)[i]
               /\ i \div 2 = h => RecvRaw(t, theirs)[i] = Leaf(i % 2, ZeroBlock)
    <3>1. i \div 2 \in Nodes(Depth - 1) /\ SendLeaves(t)[i] = { <<4 + (i % 2), SendLevels(t)[Depth - 1][i \div 2]>> }
      BY LeafIs
    <3>2. level[i \div 2] = IF i \div 2 = h THEN ZeroBlock ELSE SendLevels(t)[Depth - 1][i \div 2]
      BY <1>1, <2>2, <3>1 DEF Known
    <3>3. RecvRaw(t, theirs)[i] = Leaf(i % 2, level[i \div 2])
      BY <2>3
    <3>4. QED
      BY <3>1, <3>2, <3>3 DEF Leaf
  <2>5. QED
    BY <1>1, <2>3, <2>4
<1>3. CASE ~(Depth > 1)
  <2>1. Depth = 1
    BY <1>3, Sizes
  <2>2. Domain <= 2
    <3>1. 2^1 = 2 * 2^0 /\ 0 + 1 = 1
      BY PowerStep
    <3>2. QED
      BY <2>1, <3>1, PowerZero, Sizes
  <2>3. Domain \in Nat /\ points[t] \in 0..(Domain - 1)
    BY Sizes, ActiveFits
  <2>4. \A i \in 0..(Domain - 1) : i \div 2 = 0
    BY <2>2, <2>3
  <2>5. points[t] \div 2 = 0
    BY <2>3, <2>4
  <2>6. DOMAIN RecvRaw(t, theirs) = 0..(Domain - 1)
    BY <1>3 DEF RecvRaw
  <2>7. QED
    BY <1>3, <2>4, <2>5, <2>6
<1>4. QED
  BY <1>2, <1>3

(* With a side's sum in hand the receiver's own sum of it leaves the leaf of *)
(* that side below the active node.                                        *)
LEMMA LastSibling ==
    ASSUME Configured, NEW t \in 0..(Trees - 1), NEW theirs, SentSums(t, theirs), NEW side \in {0, 1},
           NEW s, s = points[t] - (points[t] % 2) + side
    PROVE  /\ s \in 0..(Domain - 1) /\ s % 2 = side /\ s \div 2 = points[t] \div 2
           /\ Xor(SideSum(SendLeaves(t), side), RecvLeafSum(RecvRaw(t, theirs), side)) = SendLeaves(t)[s]
<1>1. PICK a \in Nat, h \in Nat, bit \in {0, 1} :
          a = points[t] /\ h = a \div 2 /\ bit = a % 2 /\ (2 * h) + bit = a /\ a \in 0..(Domain - 1)
  <2>1. PICK a \in Nat : a = points[t] /\ a \in 0..(Domain - 1)
    <3>1. points[t] \in 0..(Domain - 1) /\ Domain \in Nat
      BY ActiveFits, Sizes
    <3>2. QED
      BY <3>1
  <2>2. a \div 2 \in Nat /\ a % 2 \in {0, 1} /\ (2 * (a \div 2)) + (a % 2) = a
    BY Half
  <2>3. QED
    BY <2>1, <2>2
<1>2. s = (2 * h) + side
  BY <1>1
<1>3. s % 2 = side /\ s \div 2 = h /\ s \in Nat
  BY <1>2
<1>4. s \in 0..(Domain - 1)
  <2>1. PICK n \in Nat : n = Domain /\ n % 2 = 0
    BY Sizes
  <2>2. PICK m \in Nat : m = n \div 2 /\ n = 2 * m
    BY <2>1, Half
  <2>3. h < m
    BY <1>1, <2>1, <2>2
  <2>4. QED
    BY <1>2, <2>1, <2>2, <2>3
<1>5. PICK D : D = 0..(Domain - 1) /\ IsFiniteSet(D)
  <2>1. Domain - 1 \in Int
    BY Sizes
  <2>2. QED
    BY <2>1, FS_Interval
<1>6. PICK full : full = SendLeaves(t) /\ DOMAIN full = D
  BY <1>5, LeafIs
<1>7. CASE Depth > 1
  <2>1. PICK raw : /\ raw = RecvRaw(t, theirs) /\ DOMAIN raw = D
                   /\ \A i \in D : i \div 2 # h => raw[i] = full[i]
                   /\ \A i \in D : i \div 2 = h => raw[i] = Leaf(i % 2, ZeroBlock)
    <3>1. PICK raw : raw = RecvRaw(t, theirs)
      OBVIOUS
    <3>2. DOMAIN raw = D
      BY <1>5, <3>1, RawLeaves
    <3>3. \A i \in D : i \div 2 # h => raw[i] = full[i]
      BY <1>1, <1>5, <1>6, <3>1, RawLeaves
    <3>4. \A i \in D : i \div 2 = h => raw[i] = Leaf(i % 2, ZeroBlock)
      BY <1>1, <1>5, <1>7, <3>1, RawLeaves
    <3>5. QED
      BY <3>1, <3>2, <3>3, <3>4
  <2>2. ASSUME NEW i \in D PROVE i % 2 = side /\ i # s => full[i] = raw[i]
    <3> SUFFICES ASSUME i % 2 = side, i # s PROVE full[i] = raw[i]
      OBVIOUS
    <3>1. i \in Nat
      BY <1>5, Sizes
    <3>2. (2 * (i \div 2)) + (i % 2) = i
      BY <3>1, Half
    <3>3. i \div 2 # h
      BY <1>2, <3>2
    <3>4. QED
      BY <2>1, <3>3
  <2>3. raw[s] = LeafSumStart(side)
    BY <1>3, <1>4, <1>5, <2>1 DEF LeafSumStart
  <2>4. Xor(SideSum(full, side), Xor(SideSum(raw, side), raw[s])) = full[s]
    <3>1. DOMAIN full = D /\ DOMAIN raw = D /\ s \in D /\ s % 2 = side
      BY <1>3, <1>4, <1>5, <1>6, <2>1
    <3>2. \A i \in D : i % 2 = side /\ i # s => full[i] = raw[i]
      BY <2>2, Zenon
    <3>3. IsFiniteSet(D)
      BY <1>5
    <3>4. ASSUME NEW z \in D, z % 2 = side, \A i \in D : i % 2 = side /\ i # z => full[i] = raw[i]
          PROVE  Xor(SideSum(full, side), Xor(SideSum(raw, side), raw[z])) = full[z]
      <4>1. DOMAIN full = D /\ DOMAIN raw = D
        BY <3>1
      <4>2. QED
        BY <3>3, <3>4, <4>1, SiblingSum
    <3>5. QED
      BY <3>1, <3>2, <3>4
  <2>5. RecvLeafSum(raw, side) = Xor(SideSum(raw, side), raw[s])
    BY <1>7, <2>3 DEF RecvLeafSum
  <2>6. QED
    BY <1>1, <1>3, <1>4, <1>6, <2>1, <2>4, <2>5
<1>8. CASE ~(Depth > 1)
  <2>1. Domain \in Nat /\ Domain <= 2
    <3>1. Depth = 1
      BY <1>8, Sizes
    <3>2. 2^1 = 2 * 2^0 /\ 0 + 1 = 1
      BY PowerStep
    <3>3. QED
      BY <3>1, <3>2, PowerZero, Sizes
  <2>2. \A i \in D : i = 0 \/ i = 1
    BY <2>1, <1>5
  <2>3. { i \in D : i % 2 = side } = {s}
    <3>1. ASSUME NEW i \in D, i % 2 = side PROVE i = s
      <4>1. i = side
        BY <2>2, <3>1
      <4>2. s = side
        BY <2>2, <1>3, <1>4, <1>5
      <4>3. QED
        BY <4>1, <4>2
    <3>2. s \in D /\ s % 2 = side
      BY <1>3, <1>4, <1>5
    <3>3. QED
      BY <3>1, <3>2
  <2>4. SideSum(full, side) = full[s]
    BY <1>6, <2>3, XorSumOne DEF SideSum
  <2>5. RecvLeafSum(RecvRaw(t, theirs), side) = {}
    BY <1>8 DEF RecvLeafSum, ZeroBlock
  <2>6. Xor(full[s], {}) = full[s]
    BY XorNothing
  <2>7. QED
    BY <1>1, <1>3, <1>4, <1>6, <2>4, <2>5, <2>6
<1>9. QED
  BY <1>7, <1>8

(* What the receiver ends up with for tree t: the sender's leaves, but for   *)
(* the punctured one.                                                      *)
Reconstructed(t) ==
    [i \in 0..(Domain - 1) |->
        IF i # points[t] THEN SendLeaves(t)[i]
        ELSE IF conf.program THEN Xor(SendLeaves(t)[i], ValueOf(t)) ELSE ZeroBlock]

(* The element of the leaf message that the receiver can open, unmasked.    *)
LEMMA HeldLeafSum ==
    ASSUME Configured, NEW t \in 0..(Trees - 1), NEW msgs, SentLeaf(t, msgs), NEW e \in LeafIdx
    PROVE  /\ 1 - (points[t] % 2) \in {0, 1}
           /\ Xor(msgs[1 - (points[t] % 2)][e], LeafPad(t, PathBit(t, 0), e)) = LeafSum(t, 1 - (points[t] % 2), e)
<1>1. PICK bit \in {0, 1} : bit = points[t] % 2 /\ bit = PathBit(t, 0)
  <2>1. Depth \in 1..Depth /\ Depth \in 0..Depth /\ Depth - Depth = 0
    BY Sizes
  <2>2. Active(t, Depth) = points[t] /\ Active(t, Depth) % 2 = PathBit(t, Depth - Depth)
    BY <2>1, ActiveFits
  <2>3. points[t] \in Nat
    BY ActiveFits, Sizes
  <2>4. QED
    BY <2>1, <2>2, <2>3, Half
<1>2. PICK k \in {0, 1} : k = 1 - bit /\ 1 - k = bit
  OBVIOUS
<1>3. msgs[k][e] = Xor(LeafSum(t, k, e), { <<6, t, bit, e>> })
  <2>1. LeafMsg(t, k)[e] = Xor(LeafSum(t, k, e), { <<6, t, 1 - k, e>> })
    BY LeafMsgIs
  <2>2. msgs[k][e] = LeafMsg(t, k)[e]
    BY DEF SentLeaf
  <2>3. QED
    BY <1>2, <2>1, <2>2
<1>4. LeafPad(t, PathBit(t, 0), e) = { <<6, t, bit, e>> }
  BY <1>1 DEF LeafPad
<1>5. PICK F : F = LeafSum(t, k, e)
  OBVIOUS
<1>6. Xor(msgs[k][e], LeafPad(t, PathBit(t, 0), e)) = F
  <2>1. PICK P : P = { <<6, t, bit, e>> }
    OBVIOUS
  <2>2. Xor(Xor(F, P), P) = F
    BY Unmask
  <2>3. msgs[k][e] = Xor(F, P) /\ LeafPad(t, PathBit(t, 0), e) = P
    BY <1>3, <1>4, <1>5, <2>1
  <2>4. QED
    BY <2>2, <2>3
<1>7. QED
  BY <1>1, <1>2, <1>5, <1>6

LEMMA RecvLeavesAre ==
    ASSUME Configured, NEW t \in 0..(Trees - 1), NEW theirs, SentSums(t, theirs), NEW msgs, SentLeaf(t, msgs)
    PROVE  RecvLeaves(t, theirs, msgs) = Reconstructed(t)
<1>1. PICK a \in Nat, h \in Nat, bit \in {0, 1} :
          a = points[t] /\ h = a \div 2 /\ bit = a % 2 /\ (2 * h) + bit = a /\ a \in 0..(Domain - 1)
  <2>1. PICK a \in Nat : a = points[t] /\ a \in 0..(Domain - 1)
    <3>1. points[t] \in 0..(Domain - 1) /\ Domain \in Nat
      BY ActiveFits, Sizes
    <3>2. QED
      BY <3>1
  <2>2. a \div 2 \in Nat /\ a % 2 \in {0, 1} /\ (2 * (a \div 2)) + (a % 2) = a
    BY Half
  <2>3. QED
    BY <2>1, <2>2
<1>2. PICK k \in {0, 1} : k = 1 - bit /\ k # bit
  OBVIOUS
<1>3. PICK D : D = 0..(Domain - 1) /\ D \subseteq Nat
  BY Sizes
<1>4. PICK full : full = SendLeaves(t) /\ DOMAIN full = D
  BY <1>3, LeafIs
<1>5. PICK raw : raw = RecvRaw(t, theirs)
  OBVIOUS
<1>6. DOMAIN raw = D /\ \A i \in D : i \div 2 # h => raw[i] = full[i]
  BY <1>1, <1>3, <1>4, <1>5, RawLeaves
<1>7. PICK base \in Nat : base = a - bit /\ base = 2 * h
  BY <1>1
<1>8. ASSUME NEW side \in {0, 1}
      PROVE  /\ base + side \in D
             /\ Xor(SideSum(full, side), RecvLeafSum(raw, side)) = full[base + side]
  <2>1. PICK s : s = base + side
    OBVIOUS
  <2>2. s = points[t] - (points[t] % 2) + side
    BY <1>1, <1>7, <2>1
  <2>3. s \in 0..(Domain - 1) /\ Xor(SideSum(SendLeaves(t), side), RecvLeafSum(RecvRaw(t, theirs), side)) = SendLeaves(t)[s]
    BY <2>2, LastSibling
  <2>4. QED
    BY <1>3, <1>4, <1>5, <2>1, <2>3
<1>9. ASSUME NEW i \in D, i # base, i # base + 1 PROVE raw[i] = full[i]
  <2>1. i \in Nat
    BY <1>3
  <2>2. (2 * (i \div 2)) + (i % 2) = i /\ i % 2 \in {0, 1}
    BY <2>1, Half
  <2>3. i \div 2 # h
    <3>1. SUFFICES ASSUME i \div 2 = h PROVE FALSE
      OBVIOUS
    <3>2. i = base + (i % 2)
      BY <1>7, <2>2, <3>1
    <3>3. i = base \/ i = base + 1
      BY <2>2, <3>2
    <3>4. QED
      BY <1>9, <3>3
  <2>4. QED
    BY <1>6, <2>3
<1>10. PICK held : held = [e \in {0, 1} |-> Xor(msgs[k][e], LeafPad(t, PathBit(t, 0), e))]
  OBVIOUS
<1>11. \A e \in LeafIdx : held[e] = LeafSum(t, k, e)
  <2>1. ASSUME NEW e \in LeafIdx PROVE held[e] = LeafSum(t, k, e)
    <3>1. k = 1 - (points[t] % 2)
      BY <1>1, <1>2
    <3>2. e \in {0, 1}
      BY DEF LeafIdx
    <3>3. Xor(msgs[k][e], LeafPad(t, PathBit(t, 0), e)) = LeafSum(t, k, e)
      BY <3>1, HeldLeafSum
    <3>4. QED
      BY <1>10, <3>2, <3>3
  <2>2. QED
    BY <2>1
<1>12. CASE conf.program
  <2>1. 0 \in LeafIdx /\ 1 \in LeafIdx
    BY <1>12 DEF LeafIdx
  <2>2. PICK val : val = ValueOf(t)
    OBVIOUS
  <2>3. held[k] = SideSum(full, k) /\ held[bit] = Xor(SideSum(full, bit), val)
    <3>1. LeafSum(t, k, k) = SideSum(full, k)
      BY <1>4, <1>12 DEF LeafSum
    <3>2. LeafSum(t, k, bit) = Xor(SideSum(full, bit), val)
      BY <1>2, <1>4, <1>12, <2>2 DEF LeafSum
    <3>3. QED
      BY <1>11, <2>1, <3>1, <3>2
  <2>4. Xor(held[k], RecvLeafSum(raw, k)) = full[base + k]
    BY <1>8, <2>3
  <2>5. Xor(held[bit], RecvLeafSum(raw, bit)) = Xor(full[a], val)
    <3>1. base + bit = a
      BY <1>7
    <3>2. Xor(SideSum(full, bit), RecvLeafSum(raw, bit)) = full[a]
      BY <1>8, <3>1
    <3>3. QED
      BY <2>3, <3>2, XorSwap
  <2>6. PICK v : v = [side \in {0, 1} |-> Xor(held[side], RecvLeafSum(raw, side))]
    OBVIOUS
  <2>7. RecvLeaves(t, theirs, msgs) = [raw EXCEPT ![base] = v[0], ![base + 1] = v[1]]
    <3>1. 1 - (points[t] % 2) = k /\ points[t] - (points[t] % 2) = base
      BY <1>1, <1>2, <1>7
    <3>2. v[0] = Xor(Xor(msgs[k][0], LeafPad(t, PathBit(t, 0), 0)), RecvLeafSum(raw, 0))
      BY <1>10, <2>6
    <3>3. v[1] = Xor(Xor(msgs[k][1], LeafPad(t, PathBit(t, 0), 1)), RecvLeafSum(raw, 1))
      BY <1>10, <2>6
    <3>4. QED
      BY <1>5, <1>12, <3>1, <3>2, <3>3 DEF RecvLeaves
  <2>8. v[k] = full[base + k] /\ v[bit] = Xor(full[a], val)
    BY <2>4, <2>5, <2>6
  <2>9. ASSUME NEW i \in D
        PROVE  [raw EXCEPT ![base] = v[0], ![base + 1] = v[1]][i] = IF i # a THEN full[i] ELSE Xor(full[i], val)
    <3>1. CASE i = a
      <4>1. [raw EXCEPT ![base] = v[0], ![base + 1] = v[1]][i] = v[bit]
        BY <1>6, <1>7, <3>1
      <4>2. QED
        BY <2>8, <3>1, <4>1
    <3>2. CASE i = base + k
      <4>1. [raw EXCEPT ![base] = v[0], ![base + 1] = v[1]][i] = v[k]
        BY <1>6, <1>7, <3>2
      <4>2. i # a
        BY <1>2, <1>7, <3>2
      <4>3. QED
        BY <2>8, <3>2, <4>1, <4>2
    <3>3. CASE i # a /\ i # base + k
      <4>1. i # base /\ i # base + 1
        BY <1>2, <1>7, <3>3
      <4>2. [raw EXCEPT ![base] = v[0], ![base + 1] = v[1]][i] = raw[i]
        BY <1>6, <4>1
      <4>3. QED
        BY <1>9, <3>3, <4>1, <4>2
    <3>4. QED
      BY <3>1, <3>2, <3>3
  <2>10. [raw EXCEPT ![base] = v[0], ![base + 1] = v[1]] =
            [i \in D |-> IF i # a THEN full[i] ELSE Xor(full[i], val)]
    BY <1>6, <2>9
  <2>11. Reconstructed(t) = [i \in D |-> IF i # a THEN full[i] ELSE Xor(full[i], val)]
    BY <1>1, <1>3, <1>4, <1>12, <2>2 DEF Reconstructed
  <2>12. QED
    BY <2>7, <2>10, <2>11
<1>13. CASE ~conf.program
  <2>1. 0 \in LeafIdx
    BY <1>13 DEF LeafIdx
  <2>2. held[0] = SideSum(full, k)
    <3>1. LeafSum(t, k, 0) = SideSum(full, k)
      BY <1>4, <1>13 DEF LeafSum
    <3>2. QED
      BY <1>11, <2>1, <3>1
  <2>3. PICK v : v = Xor(held[0], RecvLeafSum(raw, k))
    OBVIOUS
  <2>4. v = full[base + k]
    BY <1>8, <2>2, <2>3
  <2>5. RecvLeaves(t, theirs, msgs) = [raw EXCEPT ![base + k] = v, ![a] = ZeroBlock]
    <3>1. 1 - (points[t] % 2) = k /\ points[t] - (points[t] % 2) = base
      BY <1>1, <1>2, <1>7
    <3>2. v = Xor(Xor(msgs[k][0], LeafPad(t, PathBit(t, 0), 0)), RecvLeafSum(raw, k))
      BY <1>10, <2>3
    <3>3. QED
      BY <1>1, <1>5, <1>13, <3>1, <3>2 DEF RecvLeaves
  <2>6. ASSUME NEW i \in D
        PROVE  [raw EXCEPT ![base + k] = v, ![a] = ZeroBlock][i] = IF i # a THEN full[i] ELSE ZeroBlock
    <3>1. CASE i = a
      BY <1>6, <3>1
    <3>2. CASE i = base + k
      <4>1. i # a
        BY <1>2, <1>7, <3>2
      <4>2. QED
        BY <1>6, <2>4, <3>2, <4>1
    <3>3. CASE i # a /\ i # base + k
      <4>1. i # base /\ i # base + 1
        BY <1>2, <1>7, <3>3
      <4>2. QED
        BY <1>6, <1>9, <3>3, <4>1
    <3>4. QED
      BY <3>1, <3>2, <3>3
  <2>7. [raw EXCEPT ![base + k] = v, ![a] = ZeroBlock] = [i \in D |-> IF i # a THEN full[i] ELSE ZeroBlock]
    BY <1>6, <2>6
  <2>8. Reconstructed(t) = [i \in D |-> IF i # a THEN full[i] ELSE ZeroBlock]
    BY <1>1, <1>3, <1>4, <1>13 DEF Reconstructed
  <2>9. QED
    BY <2>5, <2>7, <2>8
<1>14. QED
  BY <1>12, <1>13

---------------------------------------------------------------------------
(* The inductive invariant. *)

(* The sums and leaf messages of the batch that starts at tree b are where   *)
(* the receiver reads them: from so in the sums and from lo in the leaf      *)
(* messages of buff.                                                       *)
BatchAt(buff, b, so, lo) ==
    \A j \in 0..(Rem(b) - 1) :
        /\ \A d \in 0..(Depth - 2) : buff.sums[so + d * Rem(b) + j] = EncSum(b + j, d)
        /\ \A k \in {0, 1} : buff.leaf[lo + 2 * j + k] = LeafMsg(b + j, k)

(* The one buffer of the lazy mode when the first n trees are expanded.     *)
Filled(buff, n) ==
    /\ DOMAIN buff.sums = 0..(n * (Depth - 1) - 1)
    /\ DOMAIN buff.leaf = 0..(2 * n - 1)
    /\ \A q \in 0..(n - 1) : q * Batch < n => BatchAt(buff, q * Batch, q * Batch * (Depth - 1), q * Batch * 2)

Expanded(n) == IF n < Trees THEN n ELSE Trees

Control ==
    /\ sPc \in {"start", "run", "done", "failed"}
    /\ rPc \in {"start", "wait", "run", "done", "failed"}
    /\ {sBase, rBase, closed} \subseteq BOOLEAN
    /\ sPc \in {"run", "done"} => ValidFormat(conf.sFormat)
    /\ rPc \in {"wait", "run", "done"} => ValidFormat(conf.rFormat)
    /\ sPc = "start" => sTree = 0
    /\ sPc = "done" => sTree >= Trees
    /\ rPc = "done" => rTree >= Trees
    /\ rPc \in {"start", "wait"} => rTree = 0
    /\ rPc = "wait" => ~conf.eager

(* Both parties advance by whole batches, and never past the last one.      *)
Position(tree) == \E q \in 0..NumBatches : tree = q * Batch

Sent == [t \in 0..(Trees - 1) |-> SendLeaves(t)]
Held == [t \in 0..(Trees - 1) |-> Reconstructed(t)]
Outputs ==
    /\ Written(sOut, conf.sFormat, sTree, Sent)
    /\ Written(rOut, conf.rFormat, rTree, Held)

(* Eager: the batches between the two parties are in the socket, in order.  *)
(* Lazy: the sender fills one buffer, and it is sent when it is complete.   *)
EagerChannel ==
    /\ sTree = rTree + Len(chan) * Batch
    /\ \A k \in 1..Len(chan), b \in Nat : b = rTree + (k - 1) * Batch => BatchAt(chan[k], b, 0, 0)
    /\ sTree = Len(masked) * Batch
LazyChannel ==
    /\ sPc # "done" => chan = << >> /\ masked = << >> /\ Filled(sBuff, Expanded(sTree))
    /\ Len(chan) <= 1 /\ Len(masked) <= 1
    /\ \A k \in 1..Len(chan) : Filled(chan[k], Trees)
    /\ rPc = "run" => sPc = "done" /\ chan = << >> /\ Filled(rBuff, Trees)

Maskings ==
    /\ Emitted(sBuff) \subseteq Sums \cup LeafElements
    /\ \A k \in 1..Len(masked) : masked[k] \subseteq Sums \cup LeafElements

Sequence(s) == \E S : s \in Seq(S)

IInv ==
    /\ Configured
    /\ Sequence(chan) /\ Sequence(masked)
    /\ Control
    /\ Position(sTree) /\ Position(rTree)
    /\ Outputs
    /\ conf.eager => EagerChannel
    /\ ~conf.eager => LazyChannel
    /\ Maskings

---------------------------------------------------------------------------
(* A step changes neither the configuration nor the points, and so nothing   *)
(* that is computed from them.                                             *)
Fixed == conf' = conf /\ points' = points

LEMMA FixedSizes ==
    ASSUME Fixed
    PROVE  /\ Trees' = Trees /\ Domain' = Domain /\ Depth' = Depth /\ NumBatches' = NumBatches
           /\ \A b : Rem(b)' = Rem(b)
           /\ \A f : OutSize(f)' = OutSize(f) /\ (ValidFormat(f)' <=> ValidFormat(f))
           /\ \A f, t, i : OutIdx(f, t, i)' = OutIdx(f, t, i)
           /\ Configured' <=> Configured
  BY DEF Fixed, Trees, Domain, Depth, NumBatches, DivCeil, Log2Ceil, Rem, OutSize, RoundUpTo, ValidFormat, OutIdx,
         Configured, PointSpace

LEMMA FixedTrees ==
    ASSUME Fixed
    PROVE  /\ \A t : SendLeaves(t)' = SendLeaves(t) /\ Reconstructed(t)' = Reconstructed(t)
           /\ Sent' = Sent /\ Held' = Held
<1>1. \A t : SendLeaves(t)' = SendLeaves(t)
  BY DEF Fixed, SendLeaves, Leaves, Leaf, SendLevels, Children, Inner, Width, Depth, Domain, DivCeil, Log2Ceil
<1>2. \A t : Reconstructed(t)' = Reconstructed(t)
  BY <1>1 DEF Fixed, Reconstructed, ValueOf, Domain, Xor, SymDiff, ZeroBlock
<1>3. QED
  BY <1>1, <1>2, FixedSizes DEF Sent, Held

LEMMA FixedMessages ==
    ASSUME Fixed
    PROVE  /\ \A t, d : EncSum(t, d)' = EncSum(t, d)
           /\ \A t, k : LeafMsg(t, k)' = LeafMsg(t, k)
           /\ Sums' = Sums /\ LeafElements' = LeafElements
<1>1. \A t, d : EncSum(t, d)' = EncSum(t, d)
  BY DEF Fixed, EncSum, SideSum, XorSum, Xor, SymDiff, Key, OtIdx,
         SendLevels, Children, Inner, Width, Depth, Domain, DivCeil, Log2Ceil
<1>2. \A t, k : LeafMsg(t, k)' = LeafMsg(t, k)
  BY DEF Fixed, LeafMsg, SideSum, XorSum, Xor, SymDiff, LeafPad, ValueOf,
         SendLeaves, Leaves, Leaf, SendLevels, Children, Inner, Width, Depth, Domain, DivCeil, Log2Ceil
<1>3. Sums' = Sums
  BY <1>1, FixedSizes DEF Sums
<1>4. LeafElements' = LeafElements
  BY <1>2, FixedSizes DEF LeafElements, LeafIdx, Fixed
<1>5. QED
  BY <1>1, <1>2, <1>3, <1>4

(* Each part of the invariant after a step, from the same facts about the    *)
(* new values of the variables.                                            *)
LEMMA OutputsStep ==
    ASSUME Fixed, Written(sOut', conf.sFormat, sTree', Sent), Written(rOut', conf.rFormat, rTree', Held)
    PROVE  Outputs'
  BY FixedSizes, FixedTrees DEF Outputs, Written, Covers, Fixed, OutIdx, OutSize, Trees, Domain, RoundUpTo, DivCeil

LEMMA EagerStep ==
    ASSUME Fixed, sTree' = rTree' + Len(chan') * Batch, sTree' = Len(masked') * Batch,
           \A k \in 1..Len(chan'), b \in Nat : b = rTree' + (k - 1) * Batch => BatchAt(chan'[k], b, 0, 0)
    PROVE  EagerChannel'
<1>1. ASSUME NEW k \in 1..Len(chan'), NEW b \in Nat, b = rTree' + (k - 1) * Batch
      PROVE  \A j \in 0..(Rem(b)' - 1) :
                 /\ \A d \in 0..(Depth' - 2) : chan'[k].sums[0 + d * Rem(b)' + j] = EncSum(b + j, d)'
                 /\ \A s \in {0, 1} : chan'[k].leaf[0 + 2 * j + s] = LeafMsg(b + j, s)'
  <2>1. BatchAt(chan'[k], b, 0, 0)
    BY <1>1
  <2>2. QED
    BY <2>1, FixedSizes, FixedMessages DEF BatchAt
<1>2. QED
  BY <1>1 DEF EagerChannel, BatchAt

LEMMA LazyStep ==
    ASSUME Fixed,
           sPc' # "done" => chan' = << >> /\ masked' = << >> /\ Filled(sBuff', Expanded(sTree')),
           Len(chan') <= 1, Len(masked') <= 1,
           \A k \in 1..Len(chan') : Filled(chan'[k], Trees),
           rPc' = "run" => sPc' = "done" /\ chan' = << >> /\ Filled(rBuff', Trees)
    PROVE  LazyChannel'
<1>1. ASSUME NEW buff, NEW n, Filled(buff, n)
      PROVE  /\ DOMAIN buff.sums = 0..(n * (Depth' - 1) - 1)
             /\ DOMAIN buff.leaf = 0..(2 * n - 1)
             /\ \A q \in 0..(n - 1) : q * Batch < n =>
                    \A j \in 0..(Rem(q * Batch)' - 1) :
                        /\ \A d \in 0..(Depth' - 2) :
                              buff.sums[(q * Batch * (Depth' - 1)) + d * Rem(q * Batch)' + j] = EncSum(q * Batch + j, d)'
                        /\ \A k \in {0, 1} : buff.leaf[(q * Batch * 2) + 2 * j + k] = LeafMsg(q * Batch + j, k)'
  BY <1>1, FixedSizes, FixedMessages DEF Filled, BatchAt
<1>2. (sPc # "done" => chan = << >> /\ masked = << >> /\ Filled(sBuff, Expanded(sTree)))'
  BY <1>1, FixedSizes DEF Filled, BatchAt, Expanded
<1>3. (\A k \in 1..Len(chan) : Filled(chan[k], Trees))'
  <2>1. ASSUME NEW k \in 1..Len(chan') PROVE Filled(chan[k], Trees)'
    <3>1. PICK buff, n : buff = chan'[k] /\ n = Trees /\ n = Trees' /\ Filled(buff, n)
      BY FixedSizes
    <3>2. QED
      BY <1>1, <3>1 DEF Filled, BatchAt
  <2>2. QED
    BY <2>1
<1>4. (rPc = "run" => sPc = "done" /\ chan = << >> /\ Filled(rBuff, Trees))'
  <2>1. ASSUME rPc' = "run" PROVE Filled(rBuff, Trees)'
    <3>1. PICK buff, n : buff = rBuff' /\ n = Trees /\ n = Trees' /\ Filled(buff, n)
      BY <2>1, FixedSizes
    <3>2. /\ DOMAIN buff.sums = 0..(n * (Depth' - 1) - 1)
          /\ DOMAIN buff.leaf = 0..(2 * n - 1)
          /\ \A q \in 0..(n - 1) : q * Batch < n =>
                 \A j \in 0..(Rem(q * Batch)' - 1) :
                     /\ \A d \in 0..(Depth' - 2) :
                           buff.sums[(q * Batch * (Depth' - 1)) + d * Rem(q * Batch)' + j] = EncSum(q * Batch + j, d)'
                     /\ \A k \in {0, 1} : buff.leaf[(q * Batch * 2) + 2 * j + k] = LeafMsg(q * Batch + j, k)'
      BY <1>1, <3>1
    <3>3. QED
      BY <3>1, <3>2 DEF Filled, BatchAt
  <2>2. QED
    BY <2>1
<1>5. QED
  BY <1>2, <1>3, <1>4 DEF LazyChannel

LEMMA MaskStep ==
    ASSUME Fixed, Emitted(sBuff') \subseteq Sums \cup LeafElements,
           \A k \in 1..Len(masked') : masked'[k] \subseteq Sums \cup LeafElements
    PROVE  Maskings'
  BY FixedMessages DEF Maskings, Emitted

LEMMA ControlStep ==
    ASSUME Fixed,
           sPc' \in {"start", "run", "done", "failed"}, rPc' \in {"start", "wait", "run", "done", "failed"},
           sBase' \in BOOLEAN, rBase' \in BOOLEAN, closed' \in BOOLEAN,
           sPc' \in {"run", "done"} => ValidFormat(conf.sFormat),
           rPc' \in {"wait", "run", "done"} => ValidFormat(conf.rFormat),
           sPc' = "start" => sTree' = 0, sPc' = "done" => sTree' >= Trees,
           rPc' = "done" => rTree' >= Trees, rPc' \in {"start", "wait"} => rTree' = 0,
           rPc' = "wait" => ~conf.eager
    PROVE  Control'
  BY FixedSizes DEF Control, Fixed, ValidFormat

LEMMA PositionStep ==
    ASSUME Fixed, \E q \in 0..NumBatches : sTree' = q * Batch, \E q \in 0..NumBatches : rTree' = q * Batch
    PROVE  Position(sTree)' /\ Position(rTree)'
  BY FixedSizes DEF Position

---------------------------------------------------------------------------
(* Buffers and channels. *)

LEMMA EmptySequence == Sequence(<< >>) /\ Len(<< >>) = 0
<1>1. << >> \in Seq({})
  OBVIOUS
<1>2. QED
  BY <1>1 DEF Sequence

LEMMA Appended ==
    ASSUME NEW s, Sequence(s), NEW e
    PROVE  /\ Sequence(Append(s, e)) /\ Len(s) \in Nat /\ Len(Append(s, e)) = Len(s) + 1
           /\ \A k \in 1..Len(s) : Append(s, e)[k] = s[k]
           /\ Append(s, e)[Len(s) + 1] = e
<1>1. PICK S : s \in Seq(S)
  BY DEF Sequence
<1>2. PICK T : T = S \cup {e}
  OBVIOUS
<1>3. s \in Seq(T) /\ e \in T
  BY <1>1, <1>2
<1>4. Append(s, e) \in Seq(T)
  BY <1>3
<1>5. QED
  BY <1>3, <1>4 DEF Sequence

LEMMA TailOf ==
    ASSUME NEW s, Sequence(s), s # << >>
    PROVE  /\ Sequence(Tail(s)) /\ Len(s) \in Nat \ {0} /\ Len(Tail(s)) = Len(s) - 1
           /\ \A k \in 1..(Len(s) - 1) : Tail(s)[k] = s[k + 1]
           /\ Head(s) = s[1]
<1>1. PICK S : s \in Seq(S)
  BY DEF Sequence
<1>2. Tail(s) \in Seq(S) /\ Len(s) \in Nat \ {0}
  BY <1>1
<1>3. QED
  BY <1>1, <1>2 DEF Sequence

LEMMA Concatenated ==
    ASSUME NEW n \in Nat, NEW m \in Nat, NEW f, NEW g, DOMAIN f = 0..(n - 1), DOMAIN g = 0..(m - 1)
    PROVE  Concat(f, g) = [p \in 0..((n + m) - 1) |-> IF p \in 0..(n - 1) THEN f[p] ELSE g[p - n]]
<1>1. Cardinality(0..(n - 1)) = n /\ Cardinality(0..(m - 1)) = m
  <2>1. \A k \in Nat : Cardinality(0..(k - 1)) = k
    <3>1. ASSUME NEW k \in Nat PROVE Cardinality(0..(k - 1)) = k
      <4>1. 0 \in Int /\ k - 1 \in Int
        OBVIOUS
      <4>2. Cardinality(0..(k - 1)) = IF 0 > k - 1 THEN 0 ELSE (k - 1) - 0 + 1
        BY <4>1, FS_Interval
      <4>3. QED
        BY <4>2
    <3>2. QED
      BY <3>1
  <2>2. QED
    BY <2>1
<1>2. QED
  BY <1>1 DEF Concat

LEMMA Scaled ==
    ASSUME NEW a \in Int, NEW b \in Int, NEW c \in Nat, a <= b
    PROVE  a * c \in Int /\ b * c \in Int /\ a * c <= b * c
<1>1. PICK k \in Nat : b = a + k
  <2>1. b - a \in Nat /\ b = a + (b - a)
    OBVIOUS
  <2>2. QED
    BY <2>1
<1>2. b * c = a * c + k * c
  BY <1>1
<1>3. k * c \in Nat /\ a * c \in Int
  BY <1>1
<1>4. QED
  BY <1>2, <1>3

(* The trees of a batch.                                                   *)
LEMMA BatchFits ==
    ASSUME Configured, NEW b \in 0..(Trees - 1)
    PROVE  /\ Rem(b) \in Nat \ {0} /\ Rem(b) <= Batch
           /\ \A j \in 0..(Rem(b) - 1) : b + j \in 0..(Trees - 1)
           /\ b + Rem(b) <= Trees
           /\ Expanded(b) = b /\ Expanded(b + Batch) = b + Rem(b)
  BY Sizes DEF Rem, Expanded

(* What the sender writes for one batch.                                   *)
LEMMA PartIs ==
    ASSUME Configured, NEW b \in 0..(Trees - 1)
    PROVE  /\ DOMAIN EncSums(b) = 0..(((Depth - 1) * Rem(b)) - 1)
           /\ DOMAIN LeafMsgs(b) = 0..((2 * Rem(b)) - 1)
           /\ BatchAt([sums |-> EncSums(b), leaf |-> LeafMsgs(b)], b, 0, 0)
<1>1. PICK r \in Nat \ {0} : r = Rem(b)
  BY BatchFits
<1>2. PICK w \in Nat : w = Depth - 1
  BY Sizes
<1>3. EncSums(b) = [p \in 0..((w * r) - 1) |-> EncSum(b + (p % r), p \div r)]
  BY <1>1, <1>2 DEF EncSums
<1>4. LeafMsgs(b) = [p \in 0..((2 * r) - 1) |-> LeafMsg(b + (p \div 2), p % 2)]
  BY <1>1 DEF LeafMsgs
<1>5. ASSUME NEW j \in 0..(r - 1), NEW d \in 0..(w - 1)
      PROVE  EncSums(b)[0 + d * r + j] = EncSum(b + j, d)
  <2>1. PICK p \in 0..((w * r) - 1) : p = (d * r) + j
    BY <1>1, CellFits
  <2>2. p \div r = d /\ p % r = j
    <3>1. d \in Nat
      OBVIOUS
    <3>2. ((d * r) + j) \div r = d /\ ((d * r) + j) % r = j
      BY <3>1, CellOf
    <3>3. QED
      BY <2>1, <3>2
  <2>3. EncSums(b)[p] = EncSum(b + j, d)
    BY <1>3, <2>2
  <2>4. 0 + d * r + j = p
    BY <2>1
  <2>5. QED
    BY <2>3, <2>4
<1>6. ASSUME NEW j \in 0..(r - 1), NEW k \in {0, 1}
      PROVE  LeafMsgs(b)[0 + 2 * j + k] = LeafMsg(b + j, k)
  <2>1. PICK p \in 0..((2 * r) - 1) : p = (2 * j) + k
    BY <1>1
  <2>2. p \div 2 = j /\ p % 2 = k
    BY <2>1
  <2>3. LeafMsgs(b)[p] = LeafMsg(b + j, k)
    BY <1>4, <2>2
  <2>4. 0 + 2 * j + k = p
    BY <2>1
  <2>5. QED
    BY <2>3, <2>4
<1>7. Depth - 2 = w - 1
  BY <1>2, Sizes
<1>8. QED
  BY <1>1, <1>2, <1>3, <1>4, <1>5, <1>6, <1>7 DEF BatchAt

(* An element of a batch of the sender's is a sum or a leaf element.        *)
LEMMA PartElements ==
    ASSUME Configured, NEW b \in 0..(Trees - 1)
    PROVE  Emitted([sums |-> EncSums(b), leaf |-> LeafMsgs(b)]) \subseteq Sums \cup LeafElements
<1>1. PICK r \in Nat \ {0} : r = Rem(b) /\ \A j \in 0..(r - 1) : b + j \in 0..(Trees - 1)
  BY BatchFits
<1>2. PICK w \in Nat : w = Depth - 1
  BY Sizes
<1>3. ASSUME NEW p \in 0..((w * r) - 1), NEW side \in {0, 1}
      PROVE  EncSums(b)[p][side] \in Sums
  <2>1. EncSums(b) = [x \in 0..((w * r) - 1) |-> EncSum(b + (x % r), x \div r)]
    BY <1>1, <1>2 DEF EncSums
  <2>2. PICK d \in Nat, j \in 0..(r - 1) : d = p \div r /\ j = p % r /\ (d * r) + j = p
    <3>1. p \in Nat
      OBVIOUS
    <3>2. QED
      BY <3>1, DivMod
  <2>3. d <= w - 1
    <3>1. SUFFICES ASSUME w <= d PROVE FALSE
      BY <2>2
    <3>2. w * r \in Int /\ d * r \in Int /\ w * r <= d * r
      BY <3>1, <2>2, Scaled
    <3>3. p <= (w * r) - 1
      BY <3>2
    <3>4. QED
      BY <2>2, <3>2, <3>3
  <2>4. d \in 0..(Depth - 2)
    BY <1>2, <2>2, <2>3, Sizes
  <2>5. PICK t \in 0..(Trees - 1) : t = b + j
    BY <1>1, <2>2
  <2>6. EncSums(b)[p] = EncSum(t, d)
    BY <2>1, <2>2, <2>5
  <2>7. QED
    BY <2>4, <2>6 DEF Sums
<1>4. ASSUME NEW p \in 0..((2 * r) - 1), NEW e \in DOMAIN LeafMsgs(b)[p]
      PROVE  LeafMsgs(b)[p][e] \in LeafElements
  <2>1. LeafMsgs(b) = [x \in 0..((2 * r) - 1) |-> LeafMsg(b + (x \div 2), x % 2)]
    BY <1>1 DEF LeafMsgs
  <2>2. PICK j \in 0..(r - 1), k \in {0, 1} : j = p \div 2 /\ k = p % 2
    <3>1. p \in Nat /\ p < 2 * r
      OBVIOUS
    <3>2. p \div 2 \in Nat /\ p % 2 \in {0, 1} /\ (2 * (p \div 2)) + (p % 2) = p
      BY <3>1, Half
    <3>3. QED
      BY <3>1, <3>2
  <2>3. PICK t \in 0..(Trees - 1) : t = b + j
    BY <1>1, <2>2
  <2>4. LeafMsgs(b)[p] = LeafMsg(t, k)
    BY <2>1, <2>2, <2>3
  <2>5. DOMAIN LeafMsg(t, k) = LeafIdx
    <3>1. PICK x : x \in LeafIdx
      BY DEF LeafIdx
    <3>2. QED
      BY <3>1, LeafMsgIs
  <2>6. e \in LeafIdx
    BY <2>4, <2>5
  <2>7. QED
    BY <2>4, <2>6 DEF LeafElements
<1>5. DOMAIN EncSums(b) = 0..((w * r) - 1) /\ DOMAIN LeafMsgs(b) = 0..((2 * r) - 1)
  BY <1>1, <1>2, PartIs
<1>6. QED
  BY <1>3, <1>4, <1>5 DEF Emitted

(* The sender's buffer with one more batch.                                *)
Longer(buff, b) == [sums |-> Concat(buff.sums, EncSums(b)), leaf |-> Concat(buff.leaf, LeafMsgs(b))]

LEMMA LongerIs ==
    ASSUME Configured, NEW b \in 0..(Trees - 1), NEW buff, Filled(buff, b)
    PROVE  /\ DOMAIN Longer(buff, b).sums = 0..(((b + Rem(b)) * (Depth - 1)) - 1)
           /\ DOMAIN Longer(buff, b).leaf = 0..((2 * (b + Rem(b))) - 1)
           /\ \A p \in 0..((b * (Depth - 1)) - 1) : Longer(buff, b).sums[p] = buff.sums[p]
           /\ \A p \in 0..((2 * b) - 1) : Longer(buff, b).leaf[p] = buff.leaf[p]
           /\ \A p \in 0..(((Depth - 1) * Rem(b)) - 1) :
                  Longer(buff, b).sums[(b * (Depth - 1)) + p] = EncSums(b)[p]
           /\ \A p \in 0..((2 * Rem(b)) - 1) : Longer(buff, b).leaf[(2 * b) + p] = LeafMsgs(b)[p]
           /\ Emitted(buff) \subseteq Sums \cup LeafElements =>
                  Emitted(Longer(buff, b)) \subseteq Sums \cup LeafElements
<1>1. PICK r \in Nat : r = Rem(b)
  BY BatchFits
<1>2. PICK w \in Nat : w = Depth - 1
  BY Sizes
<1>3. PICK n \in Nat, m \in Nat : n = b * w /\ m = w * r /\ n + m = (b + r) * w
  BY <1>1, <1>2
<1>4. PICK f, g : f = buff.sums /\ g = EncSums(b) /\ DOMAIN f = 0..(n - 1) /\ DOMAIN g = 0..(m - 1)
  <2>1. DOMAIN buff.sums = 0..(n - 1)
    BY <1>2, <1>3 DEF Filled
  <2>2. DOMAIN EncSums(b) = 0..(m - 1)
    BY <1>1, <1>2, <1>3, PartIs
  <2>3. QED
    BY <2>1, <2>2
<1>5. PICK h, l : h = buff.leaf /\ l = LeafMsgs(b) /\ DOMAIN h = 0..((2 * b) - 1) /\ DOMAIN l = 0..((2 * r) - 1)
  <2>1. DOMAIN buff.leaf = 0..((2 * b) - 1)
    BY DEF Filled
  <2>2. DOMAIN LeafMsgs(b) = 0..((2 * r) - 1)
    BY <1>1, PartIs
  <2>3. QED
    BY <2>1, <2>2
<1>6. PICK new : new = Longer(buff, b)
  OBVIOUS
<1>7. new.sums = [p \in 0..((n + m) - 1) |-> IF p \in 0..(n - 1) THEN f[p] ELSE g[p - n]]
  <2>1. Concat(f, g) = [p \in 0..((n + m) - 1) |-> IF p \in 0..(n - 1) THEN f[p] ELSE g[p - n]]
    <3>1. DOMAIN f = 0..(n - 1) /\ DOMAIN g = 0..(m - 1)
      BY <1>4
    <3>2. n \in Nat /\ m \in Nat
      OBVIOUS
    <3>3. QED
      BY <3>1, <3>2, Concatenated, SMTT(60)
  <2>2. new.sums = Concat(f, g)
    BY <1>4, <1>6 DEF Longer
  <2>3. QED
    BY <2>1, <2>2
<1>8. new.leaf = [p \in 0..(((2 * b) + (2 * r)) - 1) |-> IF p \in 0..((2 * b) - 1) THEN h[p] ELSE l[p - (2 * b)]]
  <2>1. Concat(h, l) =
          [p \in 0..(((2 * b) + (2 * r)) - 1) |-> IF p \in 0..((2 * b) - 1) THEN h[p] ELSE l[p - (2 * b)]]
    <3>1. PICK x \in Nat, y \in Nat : x = 2 * b /\ y = 2 * r
      BY <1>1
    <3>2. Concat(h, l) = [p \in 0..((x + y) - 1) |-> IF p \in 0..(x - 1) THEN h[p] ELSE l[p - x]]
      <4>1. DOMAIN h = 0..(x - 1) /\ DOMAIN l = 0..(y - 1)
        BY <1>5, <3>1
      <4>2. QED
        BY <4>1, Concatenated, SMTT(60)
    <3>3. QED
      BY <3>1, <3>2
  <2>2. new.leaf = Concat(h, l)
    BY <1>5, <1>6 DEF Longer
  <2>3. QED
    BY <2>1, <2>2
<1>9. DOMAIN new.sums = 0..(((b + r) * w) - 1) /\ DOMAIN new.leaf = 0..((2 * (b + r)) - 1)
  BY <1>1, <1>3, <1>7, <1>8
<1>10. /\ \A p \in 0..(n - 1) : new.sums[p] = f[p]
       /\ \A p \in 0..(m - 1) : new.sums[n + p] = g[p]
  BY <1>7
<1>11. /\ \A p \in 0..((2 * b) - 1) : new.leaf[p] = h[p]
       /\ \A p \in 0..((2 * r) - 1) : new.leaf[(2 * b) + p] = l[p]
  BY <1>1, <1>8
<1>12. ASSUME Emitted(buff) \subseteq Sums \cup LeafElements PROVE Emitted(new) \subseteq Sums \cup LeafElements
  <2>1. Emitted([sums |-> g, leaf |-> l]) \subseteq Sums \cup LeafElements
    BY <1>4, <1>5, PartElements
  <2>2. ASSUME NEW p \in DOMAIN new.sums, NEW side \in {0, 1} PROVE new.sums[p][side] \in Sums \cup LeafElements
    <3>1. CASE p \in 0..(n - 1)
      BY <1>4, <1>10, <1>12, <3>1 DEF Emitted
    <3>2. CASE p \notin 0..(n - 1)
      <4>1. PICK x \in 0..(m - 1) : p = n + x
        <5>1. p \in 0..((n + m) - 1)
          BY <1>7
        <5>2. p - n \in 0..(m - 1) /\ p = n + (p - n)
          BY <3>2, <5>1
        <5>3. QED
          BY <5>2
      <4>2. new.sums[p] = g[x]
        BY <1>10, <4>1
      <4>3. QED
        BY <1>4, <2>1, <4>2 DEF Emitted
    <3>3. QED
      BY <3>1, <3>2
  <2>3. ASSUME NEW p \in DOMAIN new.leaf, NEW e \in DOMAIN new.leaf[p] PROVE new.leaf[p][e] \in Sums \cup LeafElements
    <3>1. CASE p \in 0..((2 * b) - 1)
      BY <1>5, <1>11, <1>12, <3>1 DEF Emitted
    <3>2. CASE p \notin 0..((2 * b) - 1)
      <4>1. PICK x \in 0..((2 * r) - 1) : p = (2 * b) + x
        <5>1. p \in 0..(((2 * b) + (2 * r)) - 1)
          BY <1>8
        <5>2. p - (2 * b) \in 0..((2 * r) - 1) /\ p = (2 * b) + (p - (2 * b))
          BY <1>1, <3>2, <5>1
        <5>3. QED
          BY <5>2
      <4>2. new.leaf[p] = l[x]
        BY <1>11, <4>1
      <4>3. QED
        BY <1>5, <2>1, <4>2 DEF Emitted
    <3>3. QED
      BY <3>1, <3>2
  <2>4. QED
    BY <2>2, <2>3 DEF Emitted
<1>13. QED
  BY <1>1, <1>2, <1>3, <1>4, <1>5, <1>6, <1>9, <1>10, <1>11, <1>12

(* Batches start at multiples of Batch, so none starts inside another.      *)
LEMMA BatchesApart ==
    ASSUME Configured, NEW q \in Nat, NEW b \in 0..(Trees - 1), b = q * Batch
    PROVE  /\ \A x \in Nat : x < q => x * Batch \in 0..(Trees - 1) /\ (x * Batch) + Rem(x * Batch) <= b
           /\ \A x \in Nat : x > q => x * Batch >= b + Rem(b)
<1>1. PICK y \in Nat \ {0} : y = Batch
  BY Sizes
<1>2. PICK n \in Nat : n = Trees /\ b < n
  BY Sizes
<1>3. ASSUME NEW x \in Nat, x < q PROVE x * y \in 0..(n - 1) /\ (x * y) + Rem(x * y) <= b
  <2>1. (x + 1) * y <= q * y
    BY <1>3, Scaled
  <2>2. (x + 1) * y = x * y + y /\ x * y \in Nat /\ q * y = b
    BY <1>1
  <2>3. PICK c \in Nat : c = x * y /\ c + y <= b
    BY <2>1, <2>2
  <2>4. Rem(c) = y
    BY <1>1, <1>2, <2>3 DEF Rem
  <2>5. QED
    BY <1>2, <2>3, <2>4
<1>4. ASSUME NEW x \in Nat, x > q PROVE x * y >= b + Rem(b)
  <2>1. (q + 1) * y <= x * y
    BY <1>4, Scaled
  <2>2. (q + 1) * y = q * y + y /\ q * y = b /\ x * y \in Nat
    BY <1>1
  <2>3. Rem(b) <= y /\ Rem(b) \in Nat
    BY <1>1, BatchFits
  <2>4. QED
    BY <2>1, <2>2, <2>3
<1>5. QED
  BY <1>1, <1>2, <1>3, <1>4

LEMMA FilledGrows ==
    ASSUME Configured, NEW q \in Nat, NEW b \in 0..(Trees - 1), b = q * Batch, NEW buff, Filled(buff, b)
    PROVE  Filled(Longer(buff, b), b + Rem(b))
<1>1. PICK w \in Nat : w = Depth - 1 /\ Depth - 2 = w - 1
  BY Sizes
<1>2. PICK new : new = Longer(buff, b)
  OBVIOUS
<1>3. /\ \A p \in 0..((b * w) - 1) : new.sums[p] = buff.sums[p]
      /\ \A p \in 0..((2 * b) - 1) : new.leaf[p] = buff.leaf[p]
      /\ \A p \in 0..((w * Rem(b)) - 1) : new.sums[(b * w) + p] = EncSums(b)[p]
      /\ \A p \in 0..((2 * Rem(b)) - 1) : new.leaf[(2 * b) + p] = LeafMsgs(b)[p]
  BY <1>1, <1>2, LongerIs
<1>4. ASSUME NEW x \in Nat, x < q, x * Batch < b PROVE BatchAt(new, x * Batch, x * Batch * w, x * Batch * 2)
  <2>1. PICK c \in 0..(Trees - 1) : c = x * Batch /\ c + Rem(c) <= b
    BY <1>4, BatchesApart
  <2>2. PICK r \in Nat \ {0} : r = Rem(c) /\ c + r <= b
    BY <2>1, BatchFits
  <2>3. x \in 0..(b - 1)
    <3>1. x * 1 <= x * Batch
      BY Sizes
    <3>2. x < b
      BY <1>4, <2>1, <3>1, Sizes
    <3>3. QED
      BY <3>2
  <2>4. BatchAt(buff, c, c * w, c * 2)
    BY <1>1, <1>4, <2>1, <2>3 DEF Filled
  <2>5. ASSUME NEW j \in 0..(r - 1), NEW d \in 0..(w - 1)
        PROVE  new.sums[c * w + d * r + j] = buff.sums[c * w + d * r + j]
    <3>1. (d * r) + j \in 0..((w * r) - 1)
      BY CellFits
    <3>2. (c + r) * w <= b * w /\ b * w \in Int
      BY <2>2, Scaled
    <3>3. (c + r) * w = c * w + w * r /\ c * w \in Nat
      OBVIOUS
    <3>4. PICK p \in Nat : p = c * w + d * r + j /\ p < b * w
      <4>1. PICK z \in Nat : z = (d * r) + j /\ z <= (w * r) - 1
        BY <3>1
      <4>2. PICK v \in Nat : v = c * w
        BY <3>3
      <4>3. v + z < b * w
        BY <3>2, <3>3, <4>1, <4>2
      <4>4. c * w + d * r + j = v + z
        BY <4>1, <4>2
      <4>5. QED
        BY <4>3, <4>4
    <3>5. p \in 0..((b * w) - 1)
      BY <3>2, <3>4
    <3>6. QED
      BY <1>3, <3>4, <3>5
  <2>6. ASSUME NEW j \in 0..(r - 1), NEW k \in {0, 1}
        PROVE  new.leaf[c * 2 + 2 * j + k] = buff.leaf[c * 2 + 2 * j + k]
    <3>1. c * 2 + 2 * j + k \in 0..((2 * b) - 1)
      BY <2>2
    <3>2. QED
      BY <1>3, <3>1
  <2>7. BatchAt(new, c, c * w, c * 2)
    BY <1>1, <2>2, <2>4, <2>5, <2>6 DEF BatchAt
  <2>8. QED
    BY <2>1, <2>7
<1>5. BatchAt(new, b, b * w, b * 2)
  <2>1. PICK r \in Nat \ {0} : r = Rem(b)
    BY BatchFits
  <2>2. PICK part : part = [sums |-> EncSums(b), leaf |-> LeafMsgs(b)] /\ BatchAt(part, b, 0, 0)
    BY PartIs
  <2>3. ASSUME NEW j \in 0..(r - 1), NEW d \in 0..(w - 1)
        PROVE  new.sums[b * w + d * r + j] = part.sums[0 + d * r + j]
    <3>1. PICK p \in 0..((w * r) - 1) : p = (d * r) + j
      BY CellFits
    <3>2. new.sums[(b * w) + p] = part.sums[p]
      BY <1>3, <2>1, <2>2, <3>1
    <3>3. (b * w) + p = b * w + d * r + j /\ p = 0 + d * r + j
      BY <3>1
    <3>4. QED
      BY <3>2, <3>3
  <2>4. ASSUME NEW j \in 0..(r - 1), NEW k \in {0, 1}
        PROVE  new.leaf[b * 2 + 2 * j + k] = part.leaf[0 + 2 * j + k]
    <3>1. PICK p \in 0..((2 * r) - 1) : p = 2 * j + k
      OBVIOUS
    <3>2. new.leaf[(2 * b) + p] = part.leaf[p]
      BY <1>3, <2>1, <2>2, <3>1
    <3>3. (2 * b) + p = b * 2 + 2 * j + k /\ p = 0 + 2 * j + k
      BY <3>1
    <3>4. QED
      BY <3>2, <3>3
  <2>5. BatchAt(part, b, 0, 0)
    BY <2>2
  <2>6. \A j \in 0..(r - 1) :
          /\ \A d \in 0..(w - 1) : part.sums[0 + d * r + j] = EncSum(b + j, d)
          /\ \A k \in {0, 1} : part.leaf[0 + 2 * j + k] = LeafMsg(b + j, k)
    BY <1>1, <2>1, <2>5 DEF BatchAt
  <2>7. \A j \in 0..(r - 1) :
          /\ \A d \in 0..(w - 1) : new.sums[b * w + d * r + j] = EncSum(b + j, d)
          /\ \A k \in {0, 1} : new.leaf[b * 2 + 2 * j + k] = LeafMsg(b + j, k)
    BY <2>3, <2>4, <2>6
  <2>8. QED
    BY <1>1, <2>1, <2>7 DEF BatchAt
<1>6. ASSUME NEW x \in 0..((b + Rem(b)) - 1), x * Batch < b + Rem(b)
      PROVE  BatchAt(new, x * Batch, x * Batch * w, x * Batch * 2)
  <2>1. x \in Nat /\ ~(x > q)
    <3>1. x \in Nat
      BY BatchFits
    <3>2. ASSUME x > q PROVE FALSE
      <4>1. x * Batch >= b + Rem(b)
        BY <3>1, <3>2, BatchesApart
      <4>2. x * Batch \in Nat /\ b + Rem(b) \in Nat
        BY <3>1, BatchFits, Sizes
      <4>3. QED
        BY <1>6, <4>1, <4>2
    <3>3. QED
      BY <3>1, <3>2
  <2>2. CASE x = q
    BY <1>5, <2>2
  <2>3. CASE x < q
    <3>1. x * Batch < b
      <4>1. PICK c \in 0..(Trees - 1) : c = x * Batch /\ c + Rem(c) <= b
        BY <2>1, <2>3, BatchesApart
      <4>2. Rem(c) \in Nat \ {0}
        BY BatchFits
      <4>3. QED
        BY <4>1, <4>2
    <3>2. QED
      BY <1>4, <2>1, <2>3, <3>1
  <2>4. QED
    BY <2>1, <2>2, <2>3
<1>7. /\ DOMAIN new.sums = 0..(((b + Rem(b)) * (Depth - 1)) - 1)
      /\ DOMAIN new.leaf = 0..((2 * (b + Rem(b))) - 1)
  BY <1>2, LongerIs
<1>8. QED
  BY <1>1, <1>2, <1>6, <1>7 DEF Filled

(* The receiver reads a batch's sums and leaf messages right, and so every   *)
(* leaf it writes is right.                                                *)
LEMMA FromBatch ==
    ASSUME Configured, NEW b \in 0..(Trees - 1), NEW buff, NEW so, NEW lo, BatchAt(buff, b, so, lo),
           NEW t \in b..(b + Rem(b) - 1)
    PROVE  /\ t \in 0..(Trees - 1)
           /\ RecvLeaves(t, [d \in 0..(Depth - 2) |-> buff.sums[so + d * Rem(b) + (t - b)]],
                            [k \in {0, 1} |-> buff.leaf[lo + 2 * (t - b) + k]]) = Reconstructed(t)
<1>1. PICK j \in 0..(Rem(b) - 1) : j = t - b /\ t = b + j
  <2>1. t - b \in 0..(Rem(b) - 1) /\ t = b + (t - b)
    BY BatchFits
  <2>2. QED
    BY <2>1
<1>2. t \in 0..(Trees - 1)
  BY <1>1, BatchFits
<1>3. PICK theirs : theirs = [d \in 0..(Depth - 2) |-> buff.sums[so + d * Rem(b) + j]]
  OBVIOUS
<1>4. PICK msgs : msgs = [k \in {0, 1} |-> buff.leaf[lo + 2 * j + k]]
  OBVIOUS
<1>5. SentSums(t, theirs)
  <2>1. \A d \in 0..(Depth - 2) : theirs[d] = EncSum(t, d)
    BY <1>1, <1>3 DEF BatchAt
  <2>2. QED
    BY <2>1 DEF SentSums
<1>6. SentLeaf(t, msgs)
  <2>1. \A k \in {0, 1} : msgs[k] = LeafMsg(t, k)
    BY <1>1, <1>4 DEF BatchAt
  <2>2. QED
    BY <2>1 DEF SentLeaf
<1>7. RecvLeaves(t, theirs, msgs) = Reconstructed(t)
  BY <1>2, <1>5, <1>6, RecvLeavesAre
<1>8. QED
  BY <1>1, <1>2, <1>3, <1>4, <1>7

---------------------------------------------------------------------------
(* The invariant holds initially, and every action preserves it.            *)

LEMMA NothingEmitted == Emitted(EmptyBuff) = {}
  BY DEF Emitted, EmptyBuff

LEMMA BlankWritten ==
    ASSUME NEW f, NEW val
    PROVE  Written(BlankOut(f), f, 0, val)
<1>1. \A t \in 0..(Trees - 1) : ~(t < 0)
  OBVIOUS
<1>2. QED
  BY <1>1 DEF Written, BlankOut, Covers

LEMMA InitInv ==
    ASSUME Init
    PROVE  IInv
<1>1. Configured
  BY DEF Init, Configured
<1>2. Sequence(chan) /\ Sequence(masked) /\ Len(chan) = 0 /\ Len(masked) = 0
  BY EmptySequence DEF Init
<1>3. Control
  BY DEF Init, Control
<1>4. 0 * Batch = 0 /\ NumBatches \in Nat
  <2>1. PICK n \in Nat, y \in Nat \ {0} : n = Trees /\ y = Batch
    BY <1>1, Sizes
  <2>2. DivCeil(n, y) \in Nat /\ 0 * y = 0
    BY DivCeilIs
  <2>3. QED
    BY <2>1, <2>2 DEF NumBatches
<1>5. Position(sTree) /\ Position(rTree)
  <2>1. 0 \in 0..NumBatches /\ sTree = 0 * Batch /\ rTree = 0 * Batch
    BY <1>4 DEF Init
  <2>2. QED
    BY <2>1 DEF Position
<1>6. Outputs
  BY BlankWritten DEF Init, Outputs
<1>7. EagerChannel
  BY <1>2, <1>4 DEF Init, EagerChannel
<1>8. LazyChannel
  <2>1. Filled(EmptyBuff, 0)
    <3>1. 0 * (Depth - 1) = 0
      BY <1>1, Sizes
    <3>2. 0..(0 * (Depth - 1) - 1) = {} /\ 0..(2 * 0 - 1) = {} /\ 0..(0 - 1) = {}
      BY <3>1
    <3>3. DOMAIN EmptyBuff.sums = {} /\ DOMAIN EmptyBuff.leaf = {}
      BY DEF EmptyBuff
    <3>4. QED
      BY <3>2, <3>3 DEF Filled
  <2>2. Expanded(sTree) = 0
    BY <1>1, Sizes DEF Init, Expanded
  <2>3. QED
    BY <1>2, <2>1, <2>2 DEF Init, LazyChannel
<1>9. Maskings
  BY <1>2, NothingEmitted DEF Init, Maskings
<1>10. QED
  BY <1>1, <1>2, <1>3, <1>5, <1>6, <1>7, <1>8, <1>9 DEF IInv

LEMMA InvStep ==
    ASSUME IInv, Fixed, Sequence(chan'), Sequence(masked'), Control', Position(sTree)', Position(rTree)',
           Outputs', conf.eager => EagerChannel', ~conf.eager => LazyChannel', Maskings'
    PROVE  IInv'
<1>1. Configured'
  BY FixedSizes DEF IInv
<1>2. (conf.eager => EagerChannel)' /\ (~conf.eager => LazyChannel)'
  BY DEF Fixed
<1>3. Sequence(chan)' /\ Sequence(masked)'
  BY DEF Sequence
<1>4. QED
  BY <1>1, <1>2, <1>3 DEF IInv

(* A step that changes only the parties' progress.                         *)
LEMMA QuietStep ==
    ASSUME IInv, Fixed, sTree' = sTree, rTree' = rTree, sOut' = sOut, rOut' = rOut,
           sBuff' = sBuff, chan' = chan, masked' = masked, Control',
           ~conf.eager => (sPc' # "done" => sPc # "done"),
           ~conf.eager => (rPc' = "run" => sPc' = "done" /\ chan = << >> /\ Filled(rBuff', Trees))
    PROVE  IInv'
<1>1. Position(sTree)' /\ Position(rTree)'
  <2>1. \E q \in 0..NumBatches : sTree' = q * Batch
    BY DEF IInv, Position
  <2>2. \E q \in 0..NumBatches : rTree' = q * Batch
    BY DEF IInv, Position
  <2>3. QED
    BY <2>1, <2>2, PositionStep
<1>2. Outputs'
  BY OutputsStep DEF IInv, Outputs
<1>3. ASSUME conf.eager PROVE EagerChannel'
  BY <1>3, EagerStep DEF IInv, EagerChannel
<1>4. ASSUME ~conf.eager PROVE LazyChannel'
  <2>1. LazyChannel
    BY <1>4 DEF IInv
  <2>2. sPc' # "done" => chan' = << >> /\ masked' = << >> /\ Filled(sBuff', Expanded(sTree'))
    BY <1>4, <2>1 DEF LazyChannel
  <2>3. Len(chan') <= 1 /\ Len(masked') <= 1
    BY <2>1 DEF LazyChannel
  <2>4. \A k \in 1..Len(chan') : Filled(chan'[k], Trees)
    BY <2>1 DEF LazyChannel
  <2>5. rPc' = "run" => sPc' = "done" /\ chan' = << >> /\ Filled(rBuff', Trees)
    BY <1>4
  <2>6. QED
    BY <2>2, <2>3, <2>4, <2>5, LazyStep
<1>5. Maskings'
  BY MaskStep DEF IInv, Maskings
<1>6. Sequence(chan') /\ Sequence(masked')
  BY DEF IInv
<1>7. QED
  BY <1>1, <1>2, <1>3, <1>4, <1>5, <1>6, InvStep

LEMMA FormatsKnown ==
    ASSUME Configured
    PROVE  conf.sFormat \in Formats /\ conf.rFormat \in Formats
  BY PprfAssumption DEF Configured

LEMMA PositionNat ==
    ASSUME Configured, NEW n, \E q \in 0..NumBatches : n = q * Batch
    PROVE  NumBatches \in Nat /\ n \in Nat
<1>1. PICK m \in Nat, y \in Nat \ {0} : m = Trees /\ y = Batch
  BY Sizes
<1>2. NumBatches \in Nat
  BY <1>1, DivCeilIs DEF NumBatches
<1>3. QED
  BY <1>1, <1>2

LEMMA SendStartInv ==
    ASSUME IInv, SendStart
    PROVE  IInv'
<1>1. Fixed /\ UNCHANGED <<sTree, rTree, sOut, rOut, sBuff, rBuff, chan, masked, rPc, sBase, rBase>>
  BY DEF SendStart, Fixed, recvVars
<1>2. sPc' \in {"run", "failed"} /\ closed' \in BOOLEAN /\ (sPc' = "run" => ValidFormat(conf.sFormat)) /\ sPc = "start"
  BY DEF SendStart, IInv, Control
<1>3. Control'
  BY <1>1, <1>2, ControlStep DEF IInv, Control
<1>4. ASSUME ~conf.eager PROVE rPc # "run"
  BY <1>2, <1>4 DEF IInv, LazyChannel
<1>5. QED
  BY <1>1, <1>2, <1>3, <1>4, QuietStep

LEMMA SendClosedInv ==
    ASSUME IInv, SendClosed
    PROVE  IInv'
<1>1. Fixed /\ UNCHANGED <<sTree, rTree, sOut, rOut, sBuff, rBuff, chan, masked, rPc, sBase, rBase, closed>>
  BY DEF SendClosed, Fixed, recvVars
<1>2. sPc' = "failed" /\ sPc = "run"
  BY DEF SendClosed
<1>3. Control'
  BY <1>1, <1>2, ControlStep DEF IInv, Control
<1>4. ASSUME ~conf.eager PROVE rPc # "run"
  BY <1>2, <1>4 DEF IInv, LazyChannel
<1>5. QED
  BY <1>1, <1>2, <1>3, <1>4, QuietStep

LEMMA RecvStartInv ==
    ASSUME IInv, RecvStart
    PROVE  IInv'
<1>1. Fixed /\ UNCHANGED <<sTree, rTree, sOut, rOut, sBuff, rBuff, chan, masked, sPc, sBase, rBase>>
  BY DEF RecvStart, Fixed, sendVars
<1>2. /\ rPc' \in {"run", "wait", "failed"} /\ closed' \in BOOLEAN /\ rPc = "start"
      /\ rPc' \in {"run", "wait"} => ValidFormat(conf.rFormat)
      /\ rPc' = "wait" => ~conf.eager
      /\ rPc' = "run" => conf.eager
  BY DEF RecvStart, IInv, Control
<1>3. Control'
  BY <1>1, <1>2, ControlStep DEF IInv, Control
<1>4. QED
  BY <1>1, <1>2, <1>3, QuietStep

LEMMA RecvClosedInv ==
    ASSUME IInv, RecvClosed
    PROVE  IInv'
<1>1. Fixed /\ UNCHANGED <<sTree, rTree, sOut, rOut, sBuff, rBuff, chan, masked, sPc, sBase, rBase, closed>>
  BY DEF RecvClosed, Fixed, sendVars
<1>2. rPc' = "failed"
  BY DEF RecvClosed
<1>3. Control'
  BY <1>1, <1>2, ControlStep DEF IInv, Control
<1>4. QED
  BY <1>1, <1>2, <1>3, QuietStep

LEMMA RecvEndInv ==
    ASSUME IInv, RecvEnd
    PROVE  IInv'
<1>1. Fixed /\ UNCHANGED <<sTree, rTree, sOut, rOut, sBuff, chan, masked, sPc, sBase, closed>>
  BY DEF RecvEnd, Fixed, sendVars
<1>2. rPc' = "done" /\ rPc = "run" /\ rTree >= Trees /\ rBase' = FALSE
  BY DEF RecvEnd
<1>3. Control'
  BY <1>1, <1>2, ControlStep DEF IInv, Control
<1>4. QED
  BY <1>1, <1>2, <1>3, QuietStep

(* The receiver takes the one message of the lazy mode.                     *)
LEMMA RecvAllInv ==
    ASSUME IInv, RecvAll
    PROVE  IInv'
<1>1. Fixed /\ UNCHANGED <<sTree, rTree, sOut, rOut, sBuff, masked, sPc, sBase, rBase, closed>>
  BY DEF RecvAll, Fixed, sendVars
<1>2. rPc' = "run" /\ rPc = "wait" /\ rTree = 0 /\ ~conf.eager /\ chan # << >>
  BY DEF RecvAll, IInv, Control
<1>3. Control'
  BY <1>1, <1>2, ControlStep DEF IInv, Control
<1>4. LazyChannel /\ sPc = "done"
  BY <1>2 DEF IInv, LazyChannel
<1>5. Sequence(chan') /\ chan' = << >> /\ Filled(rBuff', Trees)
  <2>1. PICK c : c = chan /\ Sequence(c) /\ c # << >> /\ Len(c) <= 1 /\ \A k \in 1..Len(c) : Filled(c[k], Trees)
    BY <1>2, <1>4 DEF IInv, LazyChannel
  <2>2. Sequence(Tail(c)) /\ Len(c) \in Nat \ {0} /\ Len(Tail(c)) = Len(c) - 1 /\ Head(c) = c[1]
    BY <2>1, TailOf
  <2>3. Len(Tail(c)) = 0 /\ 1 \in 1..Len(c)
    BY <2>1, <2>2
  <2>4. Tail(c) = << >>
    <3>1. PICK s, S : s = Tail(c) /\ s \in Seq(S)
      BY <2>2 DEF Sequence
    <3>2. Len(s) = 0
      BY <2>3, <3>1
    <3>3. s = << >>
      <4>1. s \in Seq(S)
        BY <3>1
      <4>2. QED
        BY <3>2, <4>1
    <3>4. QED
      BY <3>1, <3>3
  <2>5. chan' = Tail(c) /\ rBuff' = c[1]
    BY <2>1, <2>2 DEF RecvAll
  <2>6. QED
    BY <2>1, <2>2, <2>3, <2>4, <2>5
<1>6. Position(sTree)' /\ Position(rTree)'
  <2>1. \E q \in 0..NumBatches : sTree' = q * Batch
    BY <1>1 DEF IInv, Position
  <2>2. \E q \in 0..NumBatches : rTree' = q * Batch
    BY <1>1 DEF IInv, Position
  <2>3. QED
    BY <1>1, <2>1, <2>2, PositionStep
<1>7. Outputs'
  BY <1>1, OutputsStep DEF IInv, Outputs
<1>8. LazyChannel'
  <2>1. Len(chan') = 0 /\ Len(chan') <= 1 /\ Len(masked') <= 1
    BY <1>1, <1>4, <1>5, EmptySequence DEF LazyChannel
  <2>2. \A k \in 1..Len(chan') : Filled(chan'[k], Trees)
    BY <2>1
  <2>3. QED
    BY <1>1, <1>4, <1>5, <2>1, <2>2, LazyStep
<1>9. Maskings'
  BY <1>1, MaskStep DEF IInv, Maskings
<1>10. Sequence(masked')
  BY <1>1 DEF IInv
<1>11. QED
  BY <1>1, <1>2, <1>3, <1>5, <1>6, <1>7, <1>8, <1>9, <1>10, InvStep

(* The end of expand: in the lazy mode the full buffer is sent.             *)
LEMMA SendEndInv ==
    ASSUME IInv, SendEnd
    PROVE  IInv'
<1>1. Fixed /\ UNCHANGED <<sTree, rTree, sOut, rOut, rBuff, rPc, rBase, closed>>
  BY DEF SendEnd, Fixed, recvVars
<1>2. sPc' = "done" /\ sPc = "run" /\ sTree >= Trees /\ sBase' = FALSE
  BY DEF SendEnd
<1>3. Control'
  BY <1>1, <1>2, ControlStep DEF IInv, Control
<1>4. Position(sTree)' /\ Position(rTree)'
  <2>1. \E q \in 0..NumBatches : sTree' = q * Batch
    BY <1>1 DEF IInv, Position
  <2>2. \E q \in 0..NumBatches : rTree' = q * Batch
    BY <1>1 DEF IInv, Position
  <2>3. QED
    BY <1>1, <2>1, <2>2, PositionStep
<1>5. Outputs'
  BY <1>1, OutputsStep DEF IInv, Outputs
<1>6. CASE conf.eager
  <2>1. UNCHANGED <<chan, masked, sBuff>>
    BY <1>6 DEF SendEnd
  <2>2. EagerChannel'
    BY <1>1, <1>6, <2>1, EagerStep DEF IInv, EagerChannel
  <2>3. Maskings'
    BY <1>1, <2>1, MaskStep DEF IInv, Maskings
  <2>4. Sequence(chan') /\ Sequence(masked')
    BY <2>1 DEF IInv
  <2>5. QED
    BY <1>1, <1>3, <1>4, <1>5, <1>6, <2>2, <2>3, <2>4, InvStep
<1>7. CASE ~conf.eager
  <2>1. chan = << >> /\ masked = << >> /\ Filled(sBuff, Trees) /\ rPc # "run"
    <3>1. Expanded(sTree) = Trees
      <4>1. PICK q \in 0..NumBatches : sTree = q * Batch
        BY DEF IInv, Position
      <4>2. Configured
        BY DEF IInv
      <4>3. sTree \in Nat /\ Trees \in Nat
        BY <4>1, <4>2, Sizes, PositionNat
      <4>4. QED
        BY <1>2, <4>3 DEF Expanded
    <3>2. QED
      BY <1>2, <1>7, <3>1 DEF IInv, LazyChannel
  <2>2. chan' = Append(chan, sBuff) /\ masked' = Append(masked, Emitted(sBuff)) /\ sBuff' = EmptyBuff
    BY <1>7 DEF SendEnd
  <2>3. PICK x, m : x = sBuff /\ m = Emitted(sBuff) /\ Filled(x, Trees) /\ m \subseteq Sums \cup LeafElements
    BY <2>1 DEF IInv, Maskings
  <2>4. /\ Sequence(chan') /\ Len(chan') = 1 /\ chan'[1] = x
        /\ Sequence(masked') /\ Len(masked') = 1 /\ masked'[1] = m
    <3>1. /\ Sequence(Append(<< >>, x)) /\ Len(Append(<< >>, x)) = 1 /\ Append(<< >>, x)[1] = x
          /\ Sequence(Append(<< >>, m)) /\ Len(Append(<< >>, m)) = 1 /\ Append(<< >>, m)[1] = m
      <4>1. ASSUME NEW y
            PROVE  Sequence(Append(<< >>, y)) /\ Len(Append(<< >>, y)) = 1 /\ Append(<< >>, y)[1] = y
        <5>1. PICK e : e = << >> /\ Sequence(e) /\ Len(e) = 0
          BY EmptySequence
        <5>2. Sequence(Append(e, y)) /\ Len(Append(e, y)) = Len(e) + 1 /\ Append(e, y)[Len(e) + 1] = y
          BY <5>1, Appended
        <5>3. QED
          BY <5>1, <5>2
      <4>2. QED
        BY <4>1
    <3>2. chan' = Append(<< >>, x) /\ masked' = Append(<< >>, m)
      BY <2>1, <2>2, <2>3
    <3>3. QED
      BY <3>1, <3>2
  <2>5. LazyChannel'
    <3>1. \A k \in 1..Len(chan') : Filled(chan'[k], Trees)
      BY <2>3, <2>4
    <3>2. rPc' # "run" /\ Len(chan') <= 1 /\ Len(masked') <= 1
      BY <1>1, <2>1, <2>4
    <3>3. QED
      BY <1>1, <1>2, <3>1, <3>2, LazyStep
  <2>6. Maskings'
    <3>1. Emitted(sBuff') = {}
      BY <2>2, NothingEmitted
    <3>2. \A k \in 1..Len(masked') : masked'[k] \subseteq Sums \cup LeafElements
      BY <2>3, <2>4
    <3>3. QED
      BY <1>1, <3>1, <3>2, MaskStep
  <2>7. QED
    BY <1>1, <1>3, <1>4, <1>5, <1>7, <2>4, <2>5, <2>6, InvStep
<1>8. QED
  BY <1>6, <1>7

(* The batch after one that starts below Trees still starts within bounds.  *)
LEMMA NextPosition ==
    ASSUME Configured, NEW q \in 0..NumBatches, NEW b, b = q * Batch, b < Trees
    PROVE  /\ b \in 0..(Trees - 1) /\ q \in Nat
           /\ q + 1 \in 0..NumBatches /\ b + Batch = (q + 1) * Batch
<1>1. PICK n \in Nat, y \in Nat \ {0} : n = Trees /\ y = Batch
  BY Sizes
<1>2. PICK m \in Nat : m = NumBatches /\ m * y >= n
  BY <1>1, DivCeilIs DEF NumBatches
<1>3. q \in Nat /\ q * y \in Nat
  BY <1>1, <1>2
<1>4. q < m
  <2>1. SUFFICES ASSUME q >= m PROVE FALSE
    BY <1>2, <1>3
  <2>2. m * y \in Int /\ q * y \in Int /\ m * y <= q * y
    BY <1>2, <1>3, <2>1, Scaled
  <2>3. QED
    BY <1>1, <1>2, <2>2
<1>5. (q + 1) * y = q * y + y
  BY <1>1, <1>3
<1>6. QED
  BY <1>1, <1>2, <1>3, <1>4, <1>5

LEMMA SendBatchInv ==
    ASSUME IInv, SendBatch
    PROVE  IInv'
<1>1. Fixed /\ UNCHANGED <<rTree, rOut, rBuff, sPc, rPc, sBase, rBase, closed>>
  BY DEF SendBatch, Fixed, recvVars
<1>2. sPc = "run" /\ sTree < Trees /\ sTree' = sTree + Batch /\ Configured
  BY DEF SendBatch, IInv
<1>3. PICK q \in Nat, b \in 0..(Trees - 1) :
          /\ b = sTree /\ b = q * Batch /\ q \in 0..NumBatches
          /\ q + 1 \in 0..NumBatches /\ b + Batch = (q + 1) * Batch
  <2>1. PICK q \in 0..NumBatches : sTree = q * Batch
    BY DEF IInv, Position
  <2>2. PICK b : b = sTree /\ b = q * Batch /\ b < Trees
    BY <1>2, <2>1
  <2>3. b \in 0..(Trees - 1) /\ q \in Nat /\ q + 1 \in 0..NumBatches /\ b + Batch = (q + 1) * Batch
    BY <1>2, <2>2, NextPosition
  <2>4. QED
    BY <2>2, <2>3
<1>4. Control'
  BY <1>1, <1>2, ControlStep DEF IInv, Control
<1>5. Position(sTree)' /\ Position(rTree)'
  <2>1. \E x \in 0..NumBatches : sTree' = x * Batch
    BY <1>2, <1>3
  <2>2. \E x \in 0..NumBatches : rTree' = x * Batch
    BY <1>1 DEF IInv, Position
  <2>3. QED
    BY <1>1, <2>1, <2>2, PositionStep
<1>6. Outputs'
  <2>1. PICK leaves : leaves = [t \in b..(b + Rem(b) - 1) |-> SendLeaves(t)]
    OBVIOUS
  <2>2. PICK f, out, val : f = conf.sFormat /\ out = sOut /\ val = Sent
    OBVIOUS
  <2>3. f \in Formats /\ ValidFormat(f) /\ Written(out, f, b, val)
    BY <1>2, <1>3, <2>2, FormatsKnown DEF IInv, Control, Outputs
  <2>4. \A t \in b..(b + Rem(b) - 1) : leaves[t] = val[t]
    <3>1. b..(b + Rem(b) - 1) \subseteq 0..(Trees - 1)
      BY <1>2, Sizes DEF Rem
    <3>2. QED
      BY <2>1, <2>2, <3>1 DEF Sent
  <2>5. Written(CopyOut(out, f, b, leaves), f, b + Batch, val)
    BY <1>2, <2>3, <2>4, CopyOutIs
  <2>6. sOut' = CopyOut(out, f, b, leaves)
    BY <1>3, <2>1, <2>2 DEF SendBatch
  <2>7. Written(sOut', conf.sFormat, sTree', Sent)
    BY <1>2, <1>3, <2>2, <2>5, <2>6
  <2>8. Written(rOut', conf.rFormat, rTree', Held)
    BY <1>1 DEF IInv, Outputs
  <2>9. QED
    BY <1>1, <2>7, <2>8, OutputsStep
<1>7. PICK part : part = [sums |-> EncSums(b), leaf |-> LeafMsgs(b)]
  OBVIOUS
<1>8. BatchAt(part, b, 0, 0) /\ Emitted(part) \subseteq Sums \cup LeafElements
  BY <1>2, <1>7, PartIs, PartElements
<1>9. CASE conf.eager
  <2>1. chan' = Append(chan, part) /\ masked' = Append(masked, Emitted(part)) /\ sBuff' = sBuff
    BY <1>3, <1>7, <1>9 DEF SendBatch
  <2>2. PICK y, c, m, x, r :
            /\ y \in Nat /\ c = chan /\ m = masked /\ x = Emitted(part) /\ r = rTree /\ y = Batch
            /\ Sequence(c) /\ Sequence(m)
    <3>1. Sequence(chan) /\ Sequence(masked)
      BY DEF IInv
    <3>2. Batch \in Nat
      BY <1>2, Sizes
    <3>3. QED
      BY <3>1, <3>2
  <2>3. /\ b = r + Len(c) * y /\ b = Len(m) * y
        /\ \A k \in 1..Len(c), z \in Nat : z = r + (k - 1) * y => BatchAt(c[k], z, 0, 0)
    BY <1>3, <1>9, <2>2 DEF IInv, EagerChannel
  <2>4. /\ Sequence(Append(c, part)) /\ Len(c) \in Nat /\ Len(Append(c, part)) = Len(c) + 1
        /\ \A k \in 1..Len(c) : Append(c, part)[k] = c[k]
        /\ Append(c, part)[Len(c) + 1] = part
    BY <2>2, Appended
  <2>5. /\ Sequence(Append(m, x)) /\ Len(m) \in Nat /\ Len(Append(m, x)) = Len(m) + 1
        /\ \A k \in 1..Len(m) : Append(m, x)[k] = m[k]
        /\ Append(m, x)[Len(m) + 1] = x
    BY <2>2, Appended
  <2>6. PICK c2, m2 : c2 = Append(c, part) /\ m2 = Append(m, x) /\ c2 = chan' /\ m2 = masked'
    BY <2>1, <2>2
  <2>7. PICK h \in Nat, g \in Nat : h = Len(c) /\ g = Len(m)
    BY <2>4, <2>5
  <2>8. r \in Int
    <3>1. \E p \in 0..NumBatches : rTree = p * Batch
      BY DEF IInv, Position
    <3>2. rTree \in Nat
      BY <1>2, <3>1, PositionNat
    <3>3. QED
      BY <2>2, <3>2
  <2>9. b + y = r + (h + 1) * y /\ b + y = (g + 1) * y
    <3>1. y \in Nat
      BY <2>2
    <3>2. b = r + h * y /\ b = g * y
      BY <2>3, <2>7
    <3>3. QED
      BY <2>8, <3>1, <3>2
  <2>10. \A k \in 1..(h + 1), z \in Nat : z = r + (k - 1) * y => BatchAt(c2[k], z, 0, 0)
    <3>1. ASSUME NEW k \in 1..(h + 1), NEW z \in Nat, z = r + (k - 1) * y PROVE BatchAt(c2[k], z, 0, 0)
      <4>1. CASE k = h + 1
        <5>1. c2[k] = part
          BY <2>4, <2>6, <2>7, <4>1
        <5>2. z = b
          BY <2>3, <2>7, <3>1, <4>1
        <5>3. QED
          BY <1>8, <5>1, <5>2
      <4>2. CASE k # h + 1
        <5>1. k \in 1..h
          BY <4>2
        <5>2. c2[k] = c[k]
          BY <2>4, <2>6, <2>7, <5>1
        <5>3. BatchAt(c[k], z, 0, 0)
          BY <2>3, <2>7, <3>1, <5>1
        <5>4. QED
          BY <5>2, <5>3
      <4>3. QED
        BY <4>1, <4>2
    <3>2. QED
      BY <3>1
  <2>11. EagerChannel'
    <3>1. Len(c2) = h + 1 /\ Len(m2) = g + 1 /\ sTree' = b + y /\ rTree' = r
      BY <1>1, <1>2, <1>3, <2>2, <2>4, <2>5, <2>6, <2>7
    <3>2. sTree' = rTree' + Len(chan') * Batch /\ sTree' = Len(masked') * Batch
      BY <2>2, <2>6, <2>9, <3>1
    <3>3. \A k \in 1..Len(chan'), z \in Nat : z = rTree' + (k - 1) * Batch => BatchAt(chan'[k], z, 0, 0)
      BY <2>2, <2>6, <2>10, <3>1
    <3>4. QED
      BY <1>1, <3>2, <3>3, EagerStep
  <2>12. Maskings'
    <3>1. \A k \in 1..Len(m) : m[k] \subseteq Sums \cup LeafElements
      BY <2>2 DEF IInv, Maskings
    <3>2. \A k \in 1..(g + 1) : m2[k] \subseteq Sums \cup LeafElements
      <4>1. ASSUME NEW k \in 1..(g + 1) PROVE m2[k] \subseteq Sums \cup LeafElements
        <5>1. CASE k = g + 1
          BY <1>8, <2>2, <2>5, <2>6, <2>7, <5>1
        <5>2. CASE k # g + 1
          <6>1. k \in 1..Len(m)
            BY <2>7, <5>2
          <6>2. m2[k] = m[k]
            BY <2>5, <2>6, <6>1
          <6>3. QED
            BY <3>1, <6>1, <6>2
        <5>3. QED
          BY <5>1, <5>2
      <4>2. QED
        BY <4>1
    <3>3. Len(masked') = g + 1
      BY <2>5, <2>6, <2>7
    <3>4. \A k \in 1..Len(masked') : masked'[k] \subseteq Sums \cup LeafElements
      BY <2>6, <3>2, <3>3
    <3>5. Emitted(sBuff') \subseteq Sums \cup LeafElements
      BY <2>1 DEF IInv, Maskings
    <3>6. QED
      BY <1>1, <3>4, <3>5, MaskStep
  <2>13. Sequence(chan') /\ Sequence(masked')
    BY <2>4, <2>5, <2>6
  <2>14. QED
    BY <1>1, <1>4, <1>5, <1>6, <1>9, <2>11, <2>12, <2>13, InvStep
<1>10. CASE ~conf.eager
  <2>1. chan' = chan /\ masked' = masked /\ sBuff' = Longer(sBuff, b)
    BY <1>3, <1>10 DEF SendBatch, Longer
  <2>2. /\ chan = << >> /\ masked = << >> /\ Filled(sBuff, Expanded(sTree)) /\ rPc # "run"
        /\ Emitted(sBuff) \subseteq Sums \cup LeafElements
    BY <1>2, <1>10 DEF IInv, LazyChannel, Maskings
  <2>3. Expanded(b) = b /\ Expanded(b + Batch) = b + Rem(b)
    BY <1>2, BatchFits
  <2>4. PICK x : x = sBuff /\ Filled(x, b) /\ Emitted(x) \subseteq Sums \cup LeafElements
    BY <1>3, <2>2, <2>3
  <2>5. Filled(Longer(x, b), b + Rem(b))
    <3>1. b = q * Batch
      BY <1>3
    <3>2. QED
      BY <1>2, <2>4, <3>1, FilledGrows
  <2>6. Emitted(Longer(x, b)) \subseteq Sums \cup LeafElements
    BY <1>2, <2>4, LongerIs
  <2>7. LazyChannel'
    <3>1. Filled(sBuff', Expanded(sTree'))
      BY <1>2, <1>3, <2>1, <2>3, <2>4, <2>5
    <3>2. /\ chan' = << >> /\ masked' = << >> /\ rPc' # "run"
          /\ Len(chan') = 0 /\ Len(masked') = 0 /\ Len(chan') <= 1 /\ Len(masked') <= 1
      BY <1>1, <2>1, <2>2, EmptySequence
    <3>3. \A k \in 1..Len(chan') : Filled(chan'[k], Trees)
      BY <3>2
    <3>4. QED
      BY <1>1, <3>1, <3>2, <3>3, LazyStep
  <2>8. Maskings'
    <3>1. Emitted(sBuff') \subseteq Sums \cup LeafElements
      BY <2>1, <2>4, <2>6
    <3>2. \A k \in 1..Len(masked') : masked'[k] \subseteq Sums \cup LeafElements
      BY <2>1 DEF IInv, Maskings
    <3>3. QED
      BY <1>1, <3>1, <3>2, MaskStep
  <2>9. Sequence(chan') /\ Sequence(masked')
    BY <2>1 DEF IInv
  <2>10. QED
    BY <1>1, <1>4, <1>5, <1>6, <1>10, <2>7, <2>8, <2>9, InvStep
<1>11. QED
  BY <1>9, <1>10

(* The buffer the receiver reads a batch from, and that the batch is there.  *)
Incoming == IF conf.eager THEN Head(chan) ELSE rBuff

LEMMA IncomingBatch ==
    ASSUME IInv, RecvBatch, NEW q \in Nat, NEW b \in 0..(Trees - 1), b = rTree, b = q * Batch
    PROVE  BatchAt(Incoming, b, EncOffset(b), LeafOffset(b))
<1>1. Configured /\ rPc = "run" /\ (conf.eager => chan # << >>)
  BY DEF IInv, RecvBatch
<1>2. CASE conf.eager
  <2>1. PICK c : c = chan /\ Sequence(c) /\ c # << >>
    BY <1>1, <1>2 DEF IInv
  <2>2. Len(c) \in Nat \ {0} /\ Head(c) = c[1]
    BY <2>1, TailOf
  <2>3. \A k \in 1..Len(c), z \in Nat : z = b + (k - 1) * Batch => BatchAt(c[k], z, 0, 0)
    BY <1>2, <2>1 DEF IInv, EagerChannel
  <2>4. 1 \in 1..Len(c) /\ b \in Nat /\ b = b + (1 - 1) * Batch
    BY <1>1, <2>2, Sizes
  <2>5. BatchAt(c[1], b, 0, 0)
    BY <2>3, <2>4
  <2>6. Incoming = c[1] /\ EncOffset(b) = 0 /\ LeafOffset(b) = 0
    BY <1>2, <2>1, <2>2 DEF Incoming, EncOffset, LeafOffset
  <2>7. QED
    BY <2>5, <2>6
<1>3. CASE ~conf.eager
  <2>1. PICK buff, n : n \in Nat /\ buff = rBuff /\ n = Trees /\ Filled(buff, n)
    <3>1. Trees \in Nat
      BY <1>1, Sizes
    <3>2. Filled(rBuff, Trees)
      BY <1>1, <1>3 DEF IInv, LazyChannel
    <3>3. QED
      BY <3>1, <3>2
  <2>2. q \in 0..(n - 1)
    <3>1. q * 1 <= q * Batch
      <4>1. PICK y \in Nat \ {0} : y = Batch
        BY <1>1, Sizes
      <4>2. 1 <= y
        BY <4>1
      <4>3. 1 * q <= y * q
        BY <4>1, <4>2, Scaled
      <4>4. 1 * q = q * 1 /\ y * q = q * y
        BY <4>1
      <4>5. QED
        BY <4>1, <4>3, <4>4
    <3>2. q * 1 = q /\ b < n /\ b \in Nat
      BY <2>1
    <3>3. q < n
      BY <2>1, <3>1, <3>2
    <3>4. QED
      BY <2>1, <3>3
  <2>3. q * Batch < n
    BY <2>1
  <2>4. BatchAt(buff, q * Batch, q * Batch * (Depth - 1), q * Batch * 2)
    BY <2>1, <2>2, <2>3 DEF Filled
  <2>5. Incoming = buff /\ EncOffset(b) = b * (Depth - 1) /\ LeafOffset(b) = b * 2
    BY <1>3, <2>1 DEF Incoming, EncOffset, LeafOffset
  <2>6. QED
    BY <2>4, <2>5
<1>4. QED
  BY <1>2, <1>3

LEMMA RecvBatchInv ==
    ASSUME IInv, RecvBatch
    PROVE  IInv'
<1>1. Fixed /\ UNCHANGED <<sTree, sOut, sBuff, rBuff, masked, sPc, rPc, sBase, rBase, closed>>
  BY DEF RecvBatch, Fixed, sendVars
<1>2. rPc = "run" /\ rTree < Trees /\ rTree' = rTree + Batch /\ Configured
  BY DEF RecvBatch, IInv
<1>3. PICK q \in Nat, b \in 0..(Trees - 1) :
          /\ b = rTree /\ b = q * Batch /\ q \in 0..NumBatches
          /\ q + 1 \in 0..NumBatches /\ b + Batch = (q + 1) * Batch
  <2>1. PICK q \in 0..NumBatches : rTree = q * Batch
    BY DEF IInv, Position
  <2>2. PICK b : b = rTree /\ b = q * Batch /\ b < Trees
    BY <1>2, <2>1
  <2>3. b \in 0..(Trees - 1) /\ q \in Nat /\ q + 1 \in 0..NumBatches /\ b + Batch = (q + 1) * Batch
    BY <1>2, <2>2, NextPosition
  <2>4. QED
    BY <2>2, <2>3
<1>4. Control'
  BY <1>1, <1>2, ControlStep DEF IInv, Control
<1>5. Position(sTree)' /\ Position(rTree)'
  <2>1. \E x \in 0..NumBatches : sTree' = x * Batch
    BY <1>1 DEF IInv, Position
  <2>2. \E x \in 0..NumBatches : rTree' = x * Batch
    BY <1>2, <1>3
  <2>3. QED
    BY <1>1, <2>1, <2>2, PositionStep
<1>6. PICK buff, so, lo :
          /\ buff = Incoming /\ so = EncOffset(b) /\ lo = LeafOffset(b)
          /\ BatchAt(buff, b, so, lo)
  BY <1>3, IncomingBatch
<1>7. Outputs'
  <2>1. PICK leaves : leaves =
          [t \in b..(b + Rem(b) - 1) |->
              RecvLeaves(t, [d \in 0..(Depth - 2) |-> buff.sums[so + d * Rem(b) + (t - b)]],
                            [k \in {0, 1} |-> buff.leaf[lo + 2 * (t - b) + k]])]
    OBVIOUS
  <2>2. PICK f, out, val : f = conf.rFormat /\ out = rOut /\ val = Held
    OBVIOUS
  <2>3. f \in Formats /\ ValidFormat(f) /\ Written(out, f, b, val)
    BY <1>2, <1>3, <2>2, FormatsKnown DEF IInv, Control, Outputs
  <2>4. \A t \in b..(b + Rem(b) - 1) : leaves[t] = val[t]
    <3>1. ASSUME NEW t \in b..(b + Rem(b) - 1)
          PROVE  leaves[t] = val[t]
      <4>1. /\ t \in 0..(Trees - 1)
            /\ RecvLeaves(t, [d \in 0..(Depth - 2) |-> buff.sums[so + d * Rem(b) + (t - b)]],
                             [k \in {0, 1} |-> buff.leaf[lo + 2 * (t - b) + k]]) = Reconstructed(t)
        BY <1>2, <1>6, FromBatch
      <4>2. val[t] = Reconstructed(t)
        BY <2>2, <4>1 DEF Held
      <4>3. QED
        BY <2>1, <4>1, <4>2
    <3>2. QED
      BY <3>1
  <2>5. Written(CopyOut(out, f, b, leaves), f, b + Batch, val)
    BY <1>2, <2>3, <2>4, CopyOutIs
  <2>6. rOut' = CopyOut(out, f, b, leaves)
    BY <1>3, <1>6, <2>1, <2>2 DEF RecvBatch, Incoming
  <2>7. Written(rOut', conf.rFormat, rTree', Held)
    BY <1>2, <1>3, <2>2, <2>5, <2>6
  <2>8. Written(sOut', conf.sFormat, sTree', Sent)
    BY <1>1 DEF IInv, Outputs
  <2>9. QED
    BY <1>1, <2>7, <2>8, OutputsStep
<1>8. Maskings'
  BY <1>1, MaskStep DEF IInv, Maskings
<1>9. Sequence(masked')
  BY <1>1 DEF IInv
<1>10. CASE conf.eager
  <2>1. PICK y, c : y \in Nat /\ c = chan /\ y = Batch /\ Sequence(c) /\ c # << >>
    <3>1. Batch \in Nat /\ Sequence(chan) /\ chan # << >>
      BY <1>2, <1>10, Sizes DEF IInv, RecvBatch
    <3>2. QED
      BY <3>1
  <2>2. /\ Sequence(Tail(c)) /\ Len(c) \in Nat \ {0} /\ Len(Tail(c)) = Len(c) - 1
        /\ \A k \in 1..(Len(c) - 1) : Tail(c)[k] = c[k + 1]
    BY <2>1, TailOf
  <2>3. PICK c2, h : h \in Nat /\ c2 = Tail(c) /\ c2 = chan' /\ h + 1 = Len(c) /\ h = Len(c2)
    <3>1. chan' = Tail(c)
      BY <1>10, <2>1 DEF RecvBatch
    <3>2. PICK n : n \in Nat \ {0} /\ n = Len(c)
      BY <2>2
    <3>3. n - 1 \in Nat /\ (n - 1) + 1 = Len(c) /\ n - 1 = Len(Tail(c))
      BY <2>2, <3>2
    <3>4. QED
      BY <3>1, <3>3
  <2>4. /\ sTree = b + (h + 1) * y /\ sTree = Len(masked) * y
        /\ \A k \in 1..(h + 1), z \in Nat : z = b + (k - 1) * y => BatchAt(c[k], z, 0, 0)
    BY <1>3, <1>10, <2>1, <2>3 DEF IInv, EagerChannel
  <2>5. b \in Nat /\ sTree = (b + y) + h * y
    <3>1. b \in Nat /\ y \in Nat /\ h \in Nat
      BY <1>2, <2>1, <2>3
    <3>2. (b + y) + h * y = b + (h + 1) * y
      BY <3>1
    <3>3. QED
      BY <2>4, <3>1, <3>2
  <2>6. ASSUME NEW k \in 1..h, NEW z \in Nat, z = (b + y) + (k - 1) * y
        PROVE  BatchAt(c2[k], z, 0, 0)
    <3>1. k + 1 \in 1..(h + 1) /\ z = b + ((k + 1) - 1) * y
      <4>1. b \in Nat /\ y \in Nat /\ h \in Nat
        BY <2>1, <2>3, <2>5
      <4>2. (b + y) + (k - 1) * y = b + ((k + 1) - 1) * y
        BY <4>1
      <4>3. k + 1 \in 1..(h + 1)
        BY <4>1
      <4>4. QED
        BY <2>6, <4>2, <4>3
    <3>2. BatchAt(c[k + 1], z, 0, 0)
      BY <2>4, <3>1
    <3>3. k \in 1..(Len(c) - 1)
      BY <2>3
    <3>4. c2[k] = c[k + 1]
      BY <2>2, <2>3, <3>3
    <3>5. QED
      BY <3>2, <3>4
  <2>7. EagerChannel'
    <3>1. sTree' = rTree' + Len(chan') * Batch /\ sTree' = Len(masked') * Batch
      BY <1>1, <1>2, <1>3, <2>1, <2>3, <2>4, <2>5
    <3>2. \A k \in 1..Len(chan'), z \in Nat : z = rTree' + (k - 1) * Batch => BatchAt(chan'[k], z, 0, 0)
      BY <1>2, <1>3, <2>1, <2>3, <2>6
    <3>3. QED
      BY <1>1, <3>1, <3>2, EagerStep
  <2>8. Sequence(chan')
    BY <2>2, <2>3
  <2>9. QED
    BY <1>1, <1>4, <1>5, <1>7, <1>8, <1>9, <1>10, <2>7, <2>8, InvStep
<1>11. CASE ~conf.eager
  <2>1. chan' = chan
    BY <1>11 DEF RecvBatch
  <2>2. LazyChannel'
    <3>1. LazyChannel
      BY <1>11 DEF IInv
    <3>2. sPc' # "done" => chan' = << >> /\ masked' = << >> /\ Filled(sBuff', Expanded(sTree'))
      BY <1>1, <2>1, <3>1 DEF LazyChannel
    <3>3. Len(chan') <= 1 /\ Len(masked') <= 1 /\ \A k \in 1..Len(chan') : Filled(chan'[k], Trees)
      BY <1>1, <2>1, <3>1 DEF LazyChannel
    <3>4. rPc' = "run" => sPc' = "done" /\ chan' = << >> /\ Filled(rBuff', Trees)
      BY <1>1, <2>1, <3>1 DEF LazyChannel
    <3>5. QED
      BY <1>1, <3>2, <3>3, <3>4, LazyStep
  <2>3. Sequence(chan')
    BY <2>1 DEF IInv
  <2>4. QED
    BY <1>1, <1>4, <1>5, <1>7, <1>8, <1>9, <1>11, <2>2, <2>3, InvStep
<1>12. QED
  BY <1>10, <1>11

LEMMA StutterInv ==
    ASSUME IInv, UNCHANGED vars
    PROVE  IInv'
<1>1. /\ Fixed
      /\ UNCHANGED <<sTree, rTree, sOut, rOut, sBuff, rBuff, chan, masked, sPc, rPc, sBase, rBase, closed>>
  BY DEF vars, sendVars, recvVars, Fixed
<1>2. Control'
  BY <1>1, ControlStep DEF IInv, Control
<1>3. ASSUME ~conf.eager, rPc = "run" PROVE sPc = "done" /\ chan = << >> /\ Filled(rBuff, Trees)
  BY <1>3 DEF IInv, LazyChannel
<1>4. QED
  BY <1>1, <1>2, <1>3, QuietStep

LEMMA NextInv ==
    ASSUME IInv, [Next]_vars
    PROVE  IInv'
<1>1. CASE UNCHANGED vars
  BY <1>1, StutterInv
<1>2. CASE SendStart
  BY <1>2, SendStartInv
<1>3. CASE SendBatch
  BY <1>3, SendBatchInv
<1>4. CASE SendEnd
  BY <1>4, SendEndInv
<1>5. CASE SendClosed
  BY <1>5, SendClosedInv
<1>6. CASE RecvStart
  BY <1>6, RecvStartInv
<1>7. CASE RecvAll
  BY <1>7, RecvAllInv
<1>8. CASE RecvBatch
  BY <1>8, RecvBatchInv
<1>9. CASE RecvEnd
  BY <1>9, RecvEndInv
<1>10. CASE RecvClosed
  BY <1>10, RecvClosedInv
<1>11. QED
  BY <1>1, <1>2, <1>3, <1>4, <1>5, <1>6, <1>7, <1>8, <1>9, <1>10 DEF Next, SendNext, RecvNext, Done

(* For every configuration: the control state, the outputs written so far,   *)
(* what is in the socket and what was masked are as IInv says.              *)
THEOREM Invariant == Spec => []IInv
<1>1. Init => IInv
  BY InitInv
<1>2. IInv /\ [Next]_vars => IInv'
  BY NextInv
<1>3. QED
  BY <1>1, <1>2, PTL DEF Spec

---------------------------------------------------------------------------
(* What the invariant says of the properties. *)

LEMMA InvTypes ==
    ASSUME IInv
    PROVE  TypeOK
<1>1. Configured /\ Sequence(chan) /\ Sequence(masked)
  BY DEF IInv
<1>2. PICK m, y, n : m \in Nat /\ y \in Nat \ {0} /\ n \in Nat \ {0} /\ m = NumBatches /\ y = Batch /\ n = Trees
  <2>1. PICK n \in Nat \ {0}, y \in Nat \ {0} : n = Trees /\ y = Batch
    BY <1>1, Sizes
  <2>2. DivCeil(n, y) \in Nat
    BY DivCeilIs
  <2>3. QED
    BY <2>1, <2>2 DEF NumBatches
<1>3. m \in Nat \ {0} /\ m * y \in Nat /\ RoundUpTo(Trees, Batch) = m * y
  <2>1. m \in Nat /\ y \in Nat \ {0} /\ n \in Nat \ {0}
    BY <1>2
  <2>2. m * y >= n
    BY <1>2, DivCeilIs DEF NumBatches
  <2>3. m # 0
    <3>1. SUFFICES ASSUME m = 0 PROVE FALSE
      OBVIOUS
    <3>2. m * y = 0
      BY <2>1, <3>1
    <3>3. QED
      BY <2>1, <2>2, <3>2
  <2>4. RoundUpTo(Trees, Batch) = m * y
    BY <1>2 DEF RoundUpTo, NumBatches
  <2>5. m * y \in Nat
    BY <2>1
  <2>6. QED
    BY <2>1, <2>3, <2>4, <2>5
<1>4. ASSUME NEW z, \E q \in 0..NumBatches : z = q * Batch PROVE z \in 0..(m * y)
  <2>1. PICK q \in 0..m : z = q * y
    BY <1>2, <1>4
  <2>2. q \in Nat /\ q <= m /\ y \in Nat
    BY <1>2
  <2>3. q * y <= m * y /\ q * y \in Nat /\ m * y \in Nat
    BY <2>2, <1>3, Scaled
  <2>4. QED
    BY <2>1, <2>3
<1>5. sTree \in 0..(m * y) /\ rTree \in 0..(m * y)
  BY <1>4 DEF IInv, Position
<1>6. Len(chan) \in Nat /\ Len(masked) \in Nat
  BY <1>1, Appended
<1>7. Len(chan) <= m /\ Len(masked) <= m
  <2>1. CASE conf.eager
    <3>1. PICK c, k : c = Len(chan) /\ k = Len(masked) /\ c \in Nat /\ k \in Nat
      BY <1>6
    <3>2. ASSUME NEW x \in Nat, x * y <= m * y PROVE x <= m
      <4>1. SUFFICES ASSUME m < x PROVE FALSE
        BY <1>3
      <4>2. (m * y) + 0 < (x * y) + 0
        BY <4>1, <1>2, <1>3, RowsInOrder
      <4>3. x * y \in Nat /\ m * y \in Nat
        BY <1>2, <1>3
      <4>4. QED
        BY <3>2, <4>2, <4>3
    <3>3. sTree = rTree + c * y /\ sTree = k * y
      BY <1>2, <2>1, <3>1 DEF IInv, EagerChannel
    <3>4. c * y \in Nat /\ k * y \in Nat
      BY <1>2, <3>1
    <3>5. c * y <= m * y /\ k * y <= m * y
      BY <1>3, <1>5, <3>3, <3>4
    <3>6. c <= m /\ k <= m
      BY <3>1, <3>2, <3>5
    <3>7. QED
      BY <3>1, <3>6
  <2>2. CASE ~conf.eager
    <3>1. Len(chan) <= 1 /\ Len(masked) <= 1
      BY <2>2 DEF IInv, LazyChannel
    <3>2. QED
      BY <1>3, <1>6, <3>1
  <2>3. QED
    BY <2>1, <2>2
<1>8. points \in [0..(Trees - 1) -> 0..(Domain - 1)] /\ conf \in Confs
  BY <1>1 DEF Configured, PointSpace
<1>9. DOMAIN sOut = 0..(OutSize(conf.sFormat) - 1) /\ DOMAIN rOut = 0..(OutSize(conf.rFormat) - 1)
  BY DEF IInv, Outputs, Written
<1>10. /\ sPc \in {"start", "run", "done", "failed"} /\ rPc \in {"start", "wait", "run", "done", "failed"}
       /\ {sBase, rBase, closed} \subseteq BOOLEAN
  BY DEF IInv, Control
<1>11. QED
  BY <1>2, <1>3, <1>5, <1>7, <1>8, <1>9, <1>10 DEF TypeOK

LEMMA InvMasks ==
    ASSUME IInv
    PROVE  MasksUsedOnce
<1>1. Configured /\ \A k \in 1..Len(masked) : masked[k] \subseteq Sums \cup LeafElements
  BY DEF IInv, Maskings
<1>2. UNION { masked[k] : k \in 1..Len(masked) } \subseteq Sums \cup LeafElements
  BY <1>1
<1>3. QED
  BY <1>1, <1>2, PadTells DEF MasksUsedOnce

LEMMA InvHidden ==
    ASSUME IInv
    PROVE  ActivePathHidden
<1>1. Configured /\ \A k \in 1..Len(masked) : masked[k] \subseteq Sums \cup LeafElements
  BY DEF IInv, Maskings
<1>2. ASSUME NEW x \in Sums \cup LeafElements, Pads(x) \subseteq Opened, NEW t \in 0..(Trees - 1)
      PROVE  /\ \A d \in 1..(Depth - 1) : ActiveNode(t, d) \cap x = {}
             /\ SendLeaves(t)[points[t]] \subseteq x => ValueOf(t) \subseteq x
  <2>1. CASE x \in Sums
    BY <1>1, <1>2, <2>1, SumsHide
  <2>2. CASE x \in LeafElements
    BY <1>1, <1>2, <2>2, LeavesHide
  <2>3. QED
    BY <2>1, <2>2
<1>3. QED
  BY <1>1, <1>2 DEF ActivePathHidden

(* The receiver's leaf is the sender's, but for the punctured one.          *)
LEMMA LeafDiffers ==
    ASSUME Configured, NEW t \in 0..(Trees - 1), NEW i \in 0..(Domain - 1)
    PROVE  SendLeaves(t)[i] # {} /\ (SendLeaves(t)[i] # Reconstructed(t)[i] <=> i = points[t])
<1>1. PICK leaf : leaf = SendLeaves(t)[i] /\ leaf # {}
  <2>1. SendLeaves(t)[i] = { <<4 + (i % 2), SendLevels(t)[Depth - 1][i \div 2]>> }
    BY LeafIs
  <2>2. QED
    BY <2>1
<1>2. Reconstructed(t)[i] =
        IF i # points[t] THEN leaf ELSE IF conf.program THEN Xor(leaf, ValueOf(t)) ELSE ZeroBlock
  BY <1>1 DEF Reconstructed
<1>3. Xor(leaf, ValueOf(t)) # leaf
  <2>1. PICK val : val = ValueOf(t) /\ val # {}
    BY DEF ValueOf
  <2>2. Xor(leaf, val) # leaf
    BY <2>1, XorFixed
  <2>3. QED
    BY <2>1, <2>2
<1>4. QED
  BY <1>1, <1>2, <1>3 DEF ZeroBlock

LEMMA InvNoLeafLost ==
    ASSUME IInv
    PROVE  NoLeafLost
<1> SUFFICES ASSUME sPc = "done"
             PROVE  { sOut[p] : p \in DOMAIN sOut } \ {ZeroBlock} =
                      UNION { { SendLeaves(t)[i] : i \in 0..(Domain - 1) } : t \in 0..(Trees - 1) }
  BY DEF NoLeafLost
<1>1. PICK f, out, n :
          /\ f = conf.sFormat /\ out = sOut /\ n = sTree /\ Written(out, f, n, Sent)
          /\ f \in Formats /\ ValidFormat(f) /\ n >= Trees
  BY FormatsKnown DEF IInv, Outputs, Control
<1>2. Configured /\ n \in Int
  BY <1>1, PositionNat DEF IInv, Position
<1>3. ASSUME NEW t \in 0..(Trees - 1), NEW i \in 0..(Domain - 1)
      PROVE  /\ OutIdx(f, t, i) \in DOMAIN out
             /\ out[OutIdx(f, t, i)] = SendLeaves(t)[i]
             /\ SendLeaves(t)[i] # ZeroBlock
  <2>1. OutIdx(f, t, i) \in DOMAIN out
    BY <1>1, <1>2, OutIdxFits DEF Written
  <2>2. t < n
    BY <1>1, <1>2, Sizes
  <2>3. out[OutIdx(f, t, i)] = Sent[t][i]
    BY <1>1, <2>2 DEF Written
  <2>4. SendLeaves(t)[i] # ZeroBlock
    BY <1>2, LeafDiffers DEF ZeroBlock
  <2>5. QED
    BY <2>1, <2>3, <2>4 DEF Sent
<1>4. ASSUME NEW p \in DOMAIN out, out[p] # ZeroBlock
      PROVE  \E t \in 0..(Trees - 1), i \in 0..(Domain - 1) : out[p] = SendLeaves(t)[i]
  <2>1. Covers(f, n, p)
    BY <1>1, <1>4 DEF Written
  <2>2. QED
    BY <1>3, <2>1 DEF Covers
<1>5. { out[p] : p \in DOMAIN out } \ {ZeroBlock} =
        UNION { { SendLeaves(t)[i] : i \in 0..(Domain - 1) } : t \in 0..(Trees - 1) }
  BY <1>3, <1>4
<1>6. QED
  BY <1>1, <1>5

LEMMA InvCorrect ==
    ASSUME IInv
    PROVE  PprfCorrect
<1> SUFFICES ASSUME NEW t \in 0..(Trees - 1), t < sTree, t < rTree, NEW i \in 0..(Domain - 1)
             PROVE  rOut[OutIdx(conf.rFormat, t, i)] =
                      IF i = points[t] THEN Punctured(t) ELSE sOut[OutIdx(conf.sFormat, t, i)]
  BY DEF PprfCorrect, Common
<1>1. Configured /\ points[t] \in 0..(Domain - 1)
  BY ActiveFits DEF IInv
<1>2. ASSUME NEW k \in 0..(Domain - 1)
      PROVE  /\ sOut[OutIdx(conf.sFormat, t, k)] = SendLeaves(t)[k]
             /\ rOut[OutIdx(conf.rFormat, t, k)] = Reconstructed(t)[k]
  <2>1. sOut[OutIdx(conf.sFormat, t, k)] = Sent[t][k] /\ rOut[OutIdx(conf.rFormat, t, k)] = Held[t][k]
    BY DEF IInv, Outputs, Written
  <2>2. QED
    BY <2>1 DEF Sent, Held
<1>3. Punctured(t) = IF conf.program THEN Xor(SendLeaves(t)[points[t]], ValueOf(t)) ELSE ZeroBlock
  <2>1. PICK a \in 0..(Domain - 1) : a = points[t] /\ sOut[OutIdx(conf.sFormat, t, points[t])] = SendLeaves(t)[a]
    BY <1>1, <1>2
  <2>2. QED
    BY <2>1 DEF Punctured
<1>4. Reconstructed(t)[i] =
        IF i # points[t] THEN SendLeaves(t)[i]
        ELSE IF conf.program THEN Xor(SendLeaves(t)[i], ValueOf(t)) ELSE ZeroBlock
  BY DEF Reconstructed
<1>5. QED
  BY <1>2, <1>3, <1>4

LEMMA InvPoints ==
    ASSUME IInv
    PROVE  PointsLocateDifference
<1> SUFFICES ASSUME conf.sFormat = conf.rFormat, conf.rFormat \in {"inter", "callback"}, sPc = "done", rPc = "done"
             PROVE  { p \in DOMAIN sOut : sOut[p] # rOut[p] } = { Points(t) : t \in 0..(Trees - 1) }
  BY DEF PointsLocateDifference
<1>1. PICK f, out, held, n, k :
          /\ f = conf.sFormat /\ f = conf.rFormat /\ out = sOut /\ held = rOut /\ n = sTree /\ k = rTree
          /\ Written(out, f, n, Sent) /\ Written(held, f, k, Held)
          /\ f \in Formats /\ f \in {"inter", "callback"} /\ ValidFormat(f) /\ n >= Trees /\ k >= Trees
  BY FormatsKnown DEF IInv, Outputs, Control
<1>2. Configured /\ n \in Int /\ k \in Int
  BY <1>1, PositionNat DEF IInv, Position
<1>3. ASSUME NEW t \in 0..(Trees - 1), NEW i \in 0..(Domain - 1)
      PROVE  /\ OutIdx(f, t, i) \in DOMAIN out
             /\ out[OutIdx(f, t, i)] # held[OutIdx(f, t, i)] <=> i = points[t]
  <2>1. OutIdx(f, t, i) \in DOMAIN out
    BY <1>1, <1>2, OutIdxFits DEF Written
  <2>2. t < n /\ t < k
    BY <1>1, <1>2, Sizes
  <2>3. out[OutIdx(f, t, i)] = Sent[t][i] /\ held[OutIdx(f, t, i)] = Held[t][i]
    BY <1>1, <2>2 DEF Written
  <2>4. SendLeaves(t)[i] # Reconstructed(t)[i] <=> i = points[t]
    BY <1>2, LeafDiffers
  <2>5. QED
    BY <2>1, <2>3, <2>4 DEF Sent, Held
<1>4. ASSUME NEW t \in 0..(Trees - 1)
      PROVE  points[t] \in 0..(Domain - 1) /\ Points(t) = OutIdx(f, t, points[t])
  <2>1. PICK a : a = points[t] /\ a \in 0..(Domain - 1) /\ a \in Int
    <3>1. points[t] \in 0..(Domain - 1)
      BY <1>2, ActiveFits
    <3>2. QED
      BY <3>1
  <2>2. f \notin {"leaf", "tree"}
    BY <1>1
  <2>3. OutIdx(f, t, a) = ((((t \div Batch) * Domain) + a) * Batch) + (t % Batch)
    BY <1>2, <2>1, <2>2, InterleavedIdx
  <2>4. Points(t) = ((((t \div Batch) * Domain) + a) * Batch) + (t % Batch)
    BY <2>1 DEF Points
  <2>5. QED
    BY <2>1, <2>3, <2>4
<1>5. ASSUME NEW p \in DOMAIN out, out[p] # held[p]
      PROVE  \E t \in 0..(Trees - 1) : p = Points(t)
  <2>1. Covers(f, n, p)
    <3>1. SUFFICES ASSUME ~Covers(f, n, p) PROVE FALSE
      OBVIOUS
    <3>2. ~Covers(f, k, p)
      BY <1>1, <1>2, <3>1, Sizes DEF Covers
    <3>3. out[p] = ZeroBlock /\ held[p] = ZeroBlock
      BY <1>1, <3>1, <3>2 DEF Written
    <3>4. QED
      BY <1>5, <3>3
  <2>2. PICK t \in 0..(Trees - 1), i \in 0..(Domain - 1) : OutIdx(f, t, i) = p
    BY <2>1 DEF Covers
  <2>3. i = points[t]
    BY <1>3, <1>5, <2>2
  <2>4. QED
    BY <1>4, <2>2, <2>3
<1>6. ASSUME NEW t \in 0..(Trees - 1) PROVE Points(t) \in DOMAIN out /\ out[Points(t)] # held[Points(t)]
  <2>1. PICK a \in 0..(Domain - 1) : a = points[t] /\ Points(t) = OutIdx(f, t, a)
    BY <1>4
  <2>2. OutIdx(f, t, a) \in DOMAIN out /\ out[OutIdx(f, t, a)] # held[OutIdx(f, t, a)]
    BY <1>3, <2>1
  <2>3. QED
    BY <2>1, <2>2
<1>7. { p \in DOMAIN out : out[p] # held[p] } = { Points(t) : t \in 0..(Trees - 1) }
  BY <1>5, <1>6
<1>8. QED
  BY <1>1, <1>7

---------------------------------------------------------------------------
(* The theorems. *)

(* The parties' program counters, the trees they have expanded, the size of the
   outputs and the number of messages in the socket stay in range: a batch more
   than there are is never begun, however the parties interleave. *)
THEOREM TypeCorrect == Spec => []TypeOK
<1>1. IInv => TypeOK
  BY InvTypes
<1>2. QED
  BY <1>1, Invariant, PTL

(* RegularPprfReceiver::expand, whatever the domain, the number of trees, the
   batch size, the two layouts and the framing (eager or one message): every
   leaf both parties have written is the same on either side, but the punctured
   one, which is off by the programmed value, or zero. *)
THEOREM Correct == Spec => []PprfCorrect
<1>1. IInv => PprfCorrect
  BY InvCorrect
<1>2. QED
  BY <1>1, Invariant, PTL

(* getPoints names exactly the output positions where the parties' interleaved
   or callback outputs differ. *)
THEOREM PointsCorrect == Spec => []PointsLocateDifference
<1>1. IInv => PointsLocateDifference
  BY InvPoints
<1>2. QED
  BY <1>1, Invariant, PTL

(* No leaf overwrites another one's output position: when the sender is done its
   output holds every leaf of every tree, in each layout. *)
THEOREM NothingLost == Spec => []NoLeafLost
<1>1. IInv => NoLeafLost
  BY InvNoLeafLost
<1>2. QED
  BY <1>1, Invariant, PTL

(* No two of the sums and leaf messages that expand sends share a pad, and each
   has one: two elements never reveal their difference. *)
THEOREM MaskedOnce == Spec => []MasksUsedOnce
<1>1. IInv => MasksUsedOnce
  BY InvMasks
<1>2. QED
  BY <1>1, Invariant, PTL

(* The elements the receiver's base OTs open hold no node on the path to a
   punctured leaf, and that leaf only under the programmed value. *)
THEOREM PathHidden == Spec => []ActivePathHidden
<1>1. IInv => ActivePathHidden
  BY InvHidden
<1>2. QED
  BY <1>1, Invariant, PTL
=============================================================================
