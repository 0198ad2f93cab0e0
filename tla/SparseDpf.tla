----------------------------- MODULE SparseDpf -----------------------------
(***************************************************************************)
(* SparseDpf.h: a distributed point function on a given set of points of a  *)
(* large domain. The first levels are one dense RegularDpf whose leaves are *)
(* bins; below, every bin is a tree with a node only where the points of    *)
(* the set part, so a node may lie several levels below its parent. All     *)
(* nodes whose children part at one level are corrected together.          *)
(*                                                                         *)
(* The dense expansion is used by what PointFunction of RegularDpf says of  *)
(* it. Randomness is symbolic (Gf2Poly), the points are concrete.          *)
(***************************************************************************)
EXTENDS DpfMult, TwoParty, SequencesExt

CONSTANT SparseConfs

(* Sorted sets of points that hold the point of their tree; without dense   *)
(* levels partition does not end for a set of one point.                   *)
SparseAssumption ==
    \A c \in SparseConfs :
        /\ c.domain \in Nat \ {0, 1} /\ c.dense \in Nat
        /\ DOMAIN c.sets = DOMAIN c.points
        /\ \A r \in DOMAIN c.sets :
              /\ \A i \in 1..(Len(c.sets[r]) - 1) : c.sets[r][i] < c.sets[r][i + 1]
              /\ \A i \in 1..Len(c.sets[r]) : c.sets[r][i] \in 0..(c.domain - 1)
              /\ \E i \in 1..Len(c.sets[r]) : c.sets[r][i] = c.points[r]
              /\ c.dense = 0 => Len(c.sets[r]) > 1

Trees == DOMAIN conf.points
mDenseDepth == Min({conf.dense, Log2Ceil(conf.domain)})
depth == Log2Ceil(conf.domain) - mDenseDepth
Set(r) == conf.sets[r]

PointShare(p, r, j) ==
    LET mask == BitVar(<<1, r, j, 0, 0>>) IN
    IF p = 0 THEN mask ELSE Xor(mask, PBit(BitOf(conf.points[r], j)))
ValueShare(p, r) == Fresh(<<2, p, r, 0, 0>>)
Value(r) == BXor(ValueShare(0, r), ValueShare(1, r))
(* Draws of the PRNG of party p.                                           *)
Random(p, r, d, j) == Fresh(<<5, p, r, d, j>>)
HashBlock(seed, j) == Hash(<<6, j, 0, 0, 0>>, seed)

(* A leaf of the dense expansion without values: seeds and tags are equal   *)
(* but at the point's bin.                                                 *)
BinOf(x) == x \div 2^depth
DenseSeed(p, r, bin) ==
    Fresh(<<8, r, bin, IF bin = BinOf(conf.points[r]) THEN 1 + p ELSE 0, 0>>)
DenseTag(p, r, bin) ==
    Xor(BitVar(<<9, r, bin, 0, 0>>), PBit(IF bin = BinOf(conf.points[r]) THEN p ELSE 0))

---------------------------------------------------------------------------
(* Trees. Nodes are ranges <<lo, hi>> of indices of the set, the points     *)
(* lo..hi-1, kept with the level at which their children part.             *)

Mid(r, lo, hi, b) == Min({ i \in lo..(hi - 1) : BitOf(Set(r)[i], b) = 1 } \cup {hi})
Parts(r, lo, hi, b) == Mid(r, lo, hi, b) \notin {lo, hi}
(* partition: the level, and where the right child begins.                 *)
PartLevel(r, lo, hi, upper) ==
    IF hi - lo = 1 THEN 0 ELSE 1 + Max({ b \in 0..(upper - 1) : Parts(r, lo, hi, b) })
PartMid(r, lo, hi, level) == IF level = 0 THEN hi ELSE Mid(r, lo, hi, level - 1)

EmptyTree ==
    [nodes |-> [d \in 0..depth |-> << >>], z |-> [d \in 0..depth |-> <<Zero, Zero>>],
     c |-> [d \in 0..depth |-> FALSE], tau |-> [d \in 0..depth |-> <<PZero, PZero>>],
     sigma |-> [d \in 0..depth |-> Zero]]

(* The two children of a node whose range parts at `level`.                *)
AddChildren(tree, r, lo, hi, level, seeds, tag) ==
    LET mid == PartMid(r, lo, hi, level)
        range(j) == IF j = 0 THEN <<lo, mid>> ELSE <<mid, hi>>
        at(j) == PartLevel(r, range(j)[1], range(j)[2], level)
        node(j) == [lo |-> range(j)[1], hi |-> range(j)[2], seed |-> seeds[j + 1], tag |-> tag,
                    child |-> j, parent |-> level]
        left == [tree.nodes EXCEPT ![at(0)] = Append(@, node(0))]
    IN [tree EXCEPT !.nodes = [left EXCEPT ![at(1)] = Append(@, node(1))],
                    !.z[level] = <<BXor(@[1], seeds[1]), BXor(@[2], seeds[2])>>,
                    !.c[level] = TRUE]

(* The bins of a set: maximal ranges of points with one bin.               *)
BinRange(r, bin) ==
    LET idx == { i \in 1..Len(Set(r)) : BinOf(Set(r)[i]) = bin } IN <<Min(idx), Max(idx) + 1>>
Bins(r) == { BinOf(Set(r)[i]) : i \in 1..Len(Set(r)) }
Single(r, bin) == LET g == BinRange(r, bin) IN g[2] = g[1] + 1

(* The trees that begin in the bins; a bin of one point has its leaf.      *)
DenseTree(p, r) ==
    LET root(tree, bin) ==
            LET g == BinRange(r, bin) seed == DenseSeed(p, r, bin) IN
            AddChildren(tree, r, g[1], g[2], PartLevel(r, g[1], g[2], depth),
                        <<HashBlock(seed, 0), HashBlock(seed, 1)>>, DenseTag(p, r, bin))
    IN FoldLeft(root, EmptyTree, SetToSortSeq({ b \in Bins(r) : ~Single(r, b) }, <))
RootTree(p, r) ==
    LET n == Len(Set(r)) level == PartLevel(r, 1, n + 1, depth) IN
    AddChildren(EmptyTree, r, 1, n + 1, level, <<Random(p, r, 0, 0), Random(p, r, 0, 1)>>, PBit(p))

(* A node with the correction of its parent's level.                       *)
NodeTagUncorrected(tree, node) == node.seed.lo
NodeTag(tree, node) == Xor(node.seed.lo, Mul(node.tag, tree.tau[node.parent][node.child + 1]))
NodeSeed(tree, node) == BXor(node.seed, BTimes(node.tag, tree.sigma[node.parent]))

(* The loop over the nodes of level d.                                     *)
ExpandNodes(tree, r, d) ==
    LET expand(acc, node) ==
            LET seed == NodeSeed(tree, node) IN
            AddChildren(acc, r, node.lo, node.hi, d, <<HashBlock(seed, 0), HashBlock(seed, 1)>>,
                        NodeTag(tree, node))
    IN FoldLeft(expand, tree, tree.nodes[d])

NoLeaf == [val |-> Zero, tag |-> PZero]
(* The leaves, from the bins of one point and from the nodes of level 0.    *)
LeavesOf(p, r, tree) ==
    [i \in 1..Len(Set(r)) |->
        LET bin == BinOf(Set(r)[i])
            nodes == { n \in 1..Len(tree.nodes[0]) : tree.nodes[0][n].lo = i }
        IN IF nodes # {}
             THEN LET node == tree.nodes[0][Max(nodes)] IN
                  [val |-> NodeSeed(tree, node), tag |-> NodeTag(tree, node)]
           ELSE IF mDenseDepth > 0 /\ Single(r, bin)
             THEN [val |-> DenseSeed(p, r, bin), tag |-> DenseTag(p, r, bin)]
           ELSE NoLeaf]
(* gamma sums the leaves of the nodes of level 0.                          *)
GammaLeaves(tree) == { tree.nodes[0][n].lo : n \in 1..Len(tree.nodes[0]) }

---------------------------------------------------------------------------
(* The protocol. *)

SparseInit ==
    /\ conf \in SparseConfs
    /\ party = [p \in Parties |->
            [pc |-> "begin", d |-> depth, otIdx |-> 0, tree |-> << >>, leaf |-> << >>, gamma |-> << >>,
             out |-> << >>]]
    /\ net = EmptyNet

(* expand up to the loop over the levels.                                  *)
Begin(p) ==
    /\ party[p].pc = "begin"
    /\ Goes(p, [party[p] EXCEPT !.pc = "level",
                    !.tree = [r \in Trees |-> IF mDenseDepth > 0 THEN DenseTree(p, r) ELSE RootTree(p, r)]],
            << >>)

(* The sums of a level no node of a tree parts at are random.              *)
Z(p, st, r) == IF st.tree[r].c[st.d] THEN st.tree[r].z[st.d]
               ELSE <<Random(p, r, st.d, 2), Random(p, r, st.d, 3)>>
Used(st) == \E r \in Trees : st.tree[r].c[st.d]
AlphaShare(p, st, r) == PointShare(p, r, st.d - 1)
Tau(p, st, r) ==
    <<Xor(Xor(Z(p, st, r)[1].lo, AlphaShare(p, st, r)), PBit(p)), Xor(Z(p, st, r)[2].lo, AlphaShare(p, st, r))>>

(* The multiplier has the base OTs after those of the dense expansion.      *)
Ot(st, r) == mDenseDepth * Len(conf.points) + st.otIdx + r - 1
MultMessage(p, st) ==
    [kind |-> "mult",
     theta |-> [r \in Trees |-> Theta(p, 1, Ot(st, r), BXor(Z(p, st, r)[1], Z(p, st, r)[2]))],
     phi |-> [r \in Trees |-> Phi(p, 1, Ot(st, r), Xor(AlphaShare(p, st, r), PBit(p)))]]

(* Below level d: the nodes of the next level, or after the last the leaves *)
(* and the reveal of gamma.                                                *)
GammaOf(p, st, leaf) ==
    [r \in Trees |-> BXor(ValueShare(p, r), BSum([i \in GammaLeaves(st.tree[r]) |-> leaf[r][i].val],
                                                GammaLeaves(st.tree[r])))]
Below(p, st) ==
    IF st.d > 1 THEN [st EXCEPT !.pc = "level", !.d = @ - 1,
                                !.tree = [r \in Trees |-> ExpandNodes(@[r], r, st.d - 1)]]
    ELSE LET leaf == [r \in Trees |-> LeavesOf(p, r, st.tree[r])] IN
         [st EXCEPT !.pc = "gamma", !.d = 0, !.leaf = leaf, !.gamma = GammaOf(p, st, leaf)]
GammaMessages(st) == IF st.pc = "gamma" THEN <<[kind |-> "gamma", g |-> st.gamma]>> ELSE << >>

(* A level that is not used needs no message; with a domain the dense       *)
(* levels cover there is no level at all.                                  *)
SkipLevel(p) ==
    /\ party[p].pc = "level"
    /\ party[p].d = 0 \/ ~Used(party[p])
    /\ LET st == Below(p, party[p]) IN Goes(p, st, GammaMessages(st))

(* The sums are revealed, one and then the other.                          *)
SendSums(p) ==
    /\ party[p].pc = "level" /\ party[p].d > 0 /\ Used(party[p])
    /\ Goes(p, [party[p] EXCEPT !.pc = "z0"],
            <<[kind |-> "z0", z |-> [r \in Trees |-> Z(p, party[p], r)[1]]]>>)
RecvSum0(p) ==
    /\ party[p].pc = "z0" /\ HasMessage(p)
    /\ Takes(p, [party[p] EXCEPT !.pc = "z1"],
             <<[kind |-> "z1", z |-> [r \in Trees |-> Z(p, party[p], r)[2]]]>>)
Multiply(p) ==
    /\ party[p].pc = "z1" /\ HasMessage(p)
    /\ Takes(p, [party[p] EXCEPT !.pc = "mult"], <<MultMessage(p, party[p])>>)

SigmaShare(p, st, m) ==
    LET mine == MultMessage(p, st) IN
    [r \in Trees |-> BXor(Product(p, 1, Ot(st, r), BXor(mine.theta[r], m.theta[r]), Xor(mine.phi[r], m.phi[r])),
                          Z(p, st, r)[1])]
FinishMultiply(p) ==
    /\ party[p].pc = "mult" /\ HasMessage(p)
    /\ LET st == party[p]
           sigma == SigmaShare(p, st, Message(p))
           tau == [r \in Trees |-> Tau(p, st, r)]
           tree == [r \in Trees |-> [st.tree[r] EXCEPT !.sigma[st.d] = sigma[r], !.tau[st.d] = tau[r]]]
       IN Takes(p, [st EXCEPT !.pc = "reveal", !.otIdx = @ + Len(conf.points), !.tree = tree],
                <<[kind |-> "sigma", sigma |-> sigma, tau |-> tau]>>)

CorrectLevel(p) ==
    /\ party[p].pc = "reveal" /\ HasMessage(p)
    /\ LET m == Message(p)
           st == party[p]
           tree == [r \in Trees |->
                      [st.tree[r] EXCEPT !.sigma[st.d] = BXor(@, m.sigma[r]),
                                         !.tau[st.d] = <<Xor(@[1], m.tau[r][1]), Xor(@[2], m.tau[r][2])>>]]
           next == Below(p, [st EXCEPT !.tree = tree])
       IN Takes(p, next, GammaMessages(next))

Gamma(p) ==
    /\ party[p].pc = "gamma" /\ HasMessage(p)
    /\ LET st == party[p]
           gamma == [r \in Trees |-> BXor(st.gamma[r], Message(p).g[r])]
           out == [r \in Trees |-> [i \in 1..Len(Set(r)) |->
                      [val |-> BXor(st.leaf[r][i].val, BTimes(st.leaf[r][i].tag, gamma[r])),
                       tag |-> st.leaf[r][i].tag]]]
       IN Takes(p, [st EXCEPT !.pc = "done", !.out = out, !.tree = << >>], << >>)

SparseDone == (\A p \in Parties : party[p].pc = "done") /\ UNCHANGED vars
PartyNext(p) ==
    Begin(p) \/ SkipLevel(p) \/ SendSums(p) \/ RecvSum0(p) \/ Multiply(p) \/ FinishMultiply(p)
    \/ CorrectLevel(p) \/ Gamma(p)
SparseNext == (\E p \in Parties : PartyNext(p)) \/ SparseDone
SparseSpec == SparseInit /\ [][SparseNext]_vars

---------------------------------------------------------------------------
(* Properties. *)

Finished == \A p \in Parties : party[p].pc = "done"
InSingleBin(r) == mDenseDepth > 0 /\ Single(r, BinOf(conf.points[r]))

(* The tags of the points of the set are shares of the indicator of the     *)
(* tree's point, and the values are shares of zero elsewhere.              *)
SparseIndicator ==
    Finished => \A r \in Trees : \A i \in 1..Len(Set(r)) :
        LET a == party[0].out[r][i] b == party[1].out[r][i] IN
        /\ Xor(a.tag, b.tag) = PBit(IF Set(r)[i] = conf.points[r] THEN 1 ELSE 0)
        /\ Set(r)[i] # conf.points[r] => BXor(a.val, b.val) = Zero

(* At the point they are shares of the value, where the point has not a bin *)
(* of its own.                                                             *)
SparseValue ==
    Finished => \A r \in Trees : \A i \in 1..Len(Set(r)) :
        (Set(r)[i] = conf.points[r] /\ ~InSingleBin(r)) =>
            BXor(party[0].out[r][i].val, party[1].out[r][i].val) = Value(r)

(* SparseDpf_Proto_Test (Dpf_Tests.cpp) compares the sum of the outputs at  *)
(* the point with the value, whatever the set.                             *)
SparseValueAlways ==
    Finished => \A r \in Trees : \A i \in 1..Len(Set(r)) :
        Set(r)[i] = conf.points[r] =>
            BXor(party[0].out[r][i].val, party[1].out[r][i].val) = Value(r)

(* A node waits at its level below its parent, whose correction it needs,   *)
(* and the products stay within the base OTs that were set.                *)
NodesInOrder ==
    \A p \in Parties : party[p].tree # << >> =>
        /\ party[p].otIdx <= depth * Len(conf.points)
        /\ \A r \in Trees, d \in 0..depth : \A n \in 1..Len(party[p].tree[r].nodes[d]) :
              LET node == party[p].tree[r].nodes[d][n] IN
              /\ node.parent \in (d + 1)..depth /\ party[p].tree[r].c[node.parent]
              /\ d = 0 <=> node.hi = node.lo + 1
===========================================================================
