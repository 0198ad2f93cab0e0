------------------------------ MODULE Gf2Poly ------------------------------
(***************************************************************************)
(* Blocks whose bits are polynomials over GF(2).                           *)
(*                                                                         *)
(* Where a protocol selects by a secret bit that is itself computed (the    *)
(* tag of a tree node, the choice bit of an OT), sums of unknowns are not   *)
(* enough. A bit is the set of the monomials of a polynomial, a monomial    *)
(* the set of its unknowns; a block is its least significant bit and one    *)
(* bit that stands for each of the others, since every operation on them    *)
(* is bitwise. An equation holds of two blocks exactly when it holds for    *)
(* every value of the unknowns.                                            *)
(*                                                                         *)
(* An unknown is <<id, lsb, args>>: id a tuple of integers, lsb 1 for a     *)
(* least significant bit, args empty or the block that is hashed.          *)
(***************************************************************************)
EXTENDS XorAlgebra, Sequences

PZero == {}
POne == {{}}
PBit(b) == IF b = 1 THEN POne ELSE PZero

(* The product: a monomial remains when it arises an odd number of times.   *)
Mul(P, Q) ==
    IF P = PZero \/ Q = PZero THEN PZero
    ELSE IF P = POne THEN Q
    ELSE IF Q = POne THEN P
    ELSE { m \in { pq[1] \cup pq[2] : pq \in P \X Q } :
             Cardinality({ pq \in P \X Q : pq[1] \cup pq[2] = m }) % 2 = 1 }

Blk(hi, lo) == [hi |-> hi, lo |-> lo]
Zero == Blk(PZero, PZero)
(* block::allSame of a bit.                                                *)
AllSame(t) == Blk(t, t)

BXor(a, b) == Blk(Xor(a.hi, b.hi), Xor(a.lo, b.lo))
BAnd(a, b) == Blk(Mul(a.hi, b.hi), Mul(a.lo, b.lo))
BTimes(t, b) == BAnd(AllSame(t), b)
(* XOR of f[x] over x \in S.                                               *)
BSum(f, S) ==
    Blk(XorSum([x \in S |-> f[x].hi], S), XorSum([x \in S |-> f[x].lo], S))

(* A random bit, a random block, and the output of a hash or cipher.        *)
BitVar(id) == {{ <<id, 1, {}>> }}
Fresh(id) == Blk({{ <<id, 0, {}>> }}, {{ <<id, 1, {}>> }})
Hash(id, b) == Blk({{ <<id, 0, {b}>> }}, {{ <<id, 1, {b}>> }})

(* Bit j of an integer.                                                    *)
BitOf(x, j) == (x \div 2^j) % 2
===========================================================================
