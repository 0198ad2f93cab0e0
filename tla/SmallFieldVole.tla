--------------------------- MODULE SmallFieldVole ---------------------------
(***************************************************************************)
(* SmallFieldVole.{h,cpp}: VOLE over GF(2^fieldBits) from the seeds of a     *)
(* PPRF per VOLE. The sender knows all 2^fieldBits seeds of a VOLE, the     *)
(* receiver all but number delta. With r[x] the block that seed x gives,    *)
(* u is their sum, bit b of v the sum of those with bit b in x, and bit b   *)
(* of w the same for the receiver's seeds, numbered by x xor delta; so that *)
(* w = v + u * delta.                                                      *)
(*                                                                         *)
(* Blocks are sums of unknowns (XorAlgebra), seeds are tuples of integers.  *)
(***************************************************************************)
EXTENDS XorAlgebra, Sequences

superBlkShift == 3
superBlkSize == 8

DivNearest(x, y) == (x + y \div 2) \div y
BitAt(x, b) == (x \div 2^b) % 2

VolesPadded(fieldBits, numVoles) ==
    LET padded == IF fieldBits <= superBlkShift
                    THEN RoundUpTo(numVoles, DivNearest(superBlkSize, 2^fieldBits - 1))
                    ELSE numVoles
    IN IF padded > RoundUpTo(numVoles, 4) THEN padded ELSE RoundUpTo(numVoles, 4)

---------------------------------------------------------------------------
(* The combining tree, in place: after its level d a node holds its sum and *)
(* behind it the d partial sums by bit.                                    *)

XorReduce(in, depth, maxDepth) ==
    LET level[d \in 0..depth] ==
            IF d = 0 THEN in
            ELSE IF d > maxDepth THEN level[d - 1]
            ELSE [k \in DOMAIN in |->
                    LET stride == 2^(d - 1)
                        root == (k \div (2 * stride)) * 2 * stride
                    IN IF k - root < d THEN Xor(level[d - 1][k], level[d - 1][k + stride])
                       ELSE IF k - root = d THEN level[d - 1][root + stride]
                       ELSE level[d - 1][k]]
    IN level[depth]

(* Trees of more than one super block: path[t] collects eight nodes of      *)
(* level t. A super block completes as many levels as its number divides;   *)
(* the root is narrower, and assigns its bits instead of adding them unless *)
(* they already hold the correction.                                       *)
PathLevels(fieldBits) == (fieldBits - 1) \div superBlkShift
Climb(st, t, superBlk) ==
    LET red == XorReduce(st.path[t - 1], superBlkShift, superBlkShift) IN
    [path |-> [st.path EXCEPT ![t - 1] = red,
                              ![t][(superBlk \div 8^t - 1) % superBlkSize] = red[0]],
     out |-> [b \in DOMAIN st.out |->
                 IF b \div superBlkShift = t - 1 THEN Xor(st.out[b], red[(b % superBlkShift) + 1])
                 ELSE st.out[b]],
     u |-> st.u]
XorReducePath(fieldBits, superBlk, st, correctionPresent) ==
    LET last == PathLevels(fieldBits)
        done == CHOOSE t \in 0..last : superBlk % 8^t = 0 /\ (t = last \/ superBlk % 8^(t + 1) # 0)
        climb[t \in 0..done] == IF t = 0 THEN st ELSE Climb(climb[t - 1], t, superBlk)
        top == climb[done]
        width == 1 + ((fieldBits - 1) % superBlkShift)
        red == XorReduce(top.path[done], superBlkShift, width)
        low == done * superBlkShift
    IN IF superBlk % 2^fieldBits # 0 THEN top
       ELSE [top EXCEPT !.u = red[0],
                 !.out = [b \in DOMAIN @ |->
                     IF b \notin low..(low + width - 1) THEN @[b]
                     ELSE IF correctionPresent THEN Xor(@[b], red[b - low + 1])
                     ELSE red[b - low + 1]]]

Garbage == {<<0>>}
EmptyPath(fieldBits) ==
    [t \in 0..PathLevels(fieldBits) |-> [k \in 0..(superBlkSize - 1) |-> Garbage]]
(* All super blocks of one VOLE; the receiver's first call always takes the *)
(* default, no correction.                                                 *)
WalkPath(fieldBits, r, out, correctionPresent) ==
    LET fill(st, s) == [st EXCEPT !.path[0] = [k \in 0..(superBlkSize - 1) |-> r[(s - 1) * superBlkSize + k]]]
        f[s \in 0..(2^fieldBits \div superBlkSize)] ==
            IF s = 0 THEN [path |-> EmptyPath(fieldBits), out |-> out, u |-> Garbage]
            ELSE XorReducePath(fieldBits, s * superBlkSize, fill(f[s - 1], s), correctionPresent /\ s > 1)
    IN f[2^fieldBits \div superBlkSize]

---------------------------------------------------------------------------
(* generate, of sender and receiver. r[i][x] is the block of seed x of VOLE *)
(* i, padding included, and the result one [u, v] or w for every VOLE.     *)

SenderGenerate(fieldBits, numVoles, r) ==
    LET size == 2^fieldBits
        perBlk == superBlkSize \div size
        reduced(i) ==
            XorReduce([k \in 0..(superBlkSize - 1) |-> r[(i \div perBlk) * perBlk + k \div size][k % size]],
                      superBlkShift, fieldBits)
        large(i) == WalkPath(fieldBits, r[i],
                             [b \in 0..(fieldBits - 1) |-> ZeroBlock], FALSE)
    IN [i \in 0..(numVoles - 1) |->
          IF fieldBits <= superBlkShift
            THEN LET red == reduced(i) at == (i % perBlk) * size IN
                 [u |-> red[at], v |-> [b \in 0..(fieldBits - 1) |-> red[at + b + 1]]]
            ELSE LET st == large(i) IN [u |-> st.u, v |-> st.out]]

(* The zeroth block is unknown and taken as zero; correction[i] is added    *)
(* where delta has a bit.                                                  *)
ReceiverGenerate(fieldBits, numVoles, r, delta, correction) ==
    LET size == 2^fieldBits
        known(i, x) == IF x = 0 THEN ZeroBlock ELSE r[i][x]
        reduced(i) == XorReduce([k \in 0..(size - 1) |-> known(i, k)], fieldBits, fieldBits)
        shift(i, b) == BitTimes(BitAt(delta[i], b) = 1, correction[i])
    IN [i \in 0..(numVoles - 1) |->
          IF fieldBits <= superBlkShift
            THEN LET red == reduced(i) IN
                 [b \in 0..(fieldBits - 1) |-> Xor(red[b + 1], shift(i, b))]
            ELSE WalkPath(fieldBits, [x \in 0..(size - 1) |-> known(i, x)],
                          [b \in 0..(fieldBits - 1) |-> shift(i, b)], TRUE).out]

(* What they are to compute.                                               *)
SumOver(S, r) == XorSum(r, S)
WithBit(fieldBits, b) == { x \in 0..(2^fieldBits - 1) : BitAt(x, b) = 1 }

---------------------------------------------------------------------------
(* expand: the seeds, with the receiver's own moved to position 0 by        *)
(* conditional swaps, one bit of delta after the other.                    *)

Reorder(row, fieldBits, delta) ==
    LET flip(x, b) == IF BitAt(x, b) = 1 THEN x - 2^b ELSE x + 2^b
        f[b \in 0..fieldBits] ==
            IF b = 0 THEN row
            ELSE IF BitAt(delta, b - 1) = 0 THEN f[b - 1]
            ELSE [x \in DOMAIN row |-> f[b - 1][flip(x, b - 1)]]
    IN f[fieldBits]

(* The consistency proof of one VOLE: a PRG of every seed, whose first part *)
(* is checked and whose second replaces the seed. Tag is that first part.   *)
Tag(seed) == { <<1>> \o seed }
Refreshed(seed) == <<2>> \o seed
SeedProof(seeds) ==
    [correction |-> XorSum([x \in DOMAIN seeds |-> Tag(seeds[x])], DOMAIN seeds),
     hash |-> [x \in DOMAIN seeds |-> Tag(seeds[x])]]

(* The receiver fills in the tag of the seed it does not know.              *)
ProofHolds(seeds, delta, proof) ==
    LET total == XorSum([x \in DOMAIN seeds |-> Tag(seeds[x])], DOMAIN seeds)
        missing == Xor(proof.correction, total)
    IN proof.hash = [x \in DOMAIN seeds |->
                        IF x = delta THEN Xor(Tag(seeds[x]), missing) ELSE Tag(seeds[x])]
===========================================================================
