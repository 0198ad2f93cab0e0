---------------------------- MODULE XorAlgebra ----------------------------
(***************************************************************************)
(* The GF(2) algebra that every protocol of the library computes in.       *)
(*                                                                         *)
(* A `block` (cryptoTools' 128-bit word) is represented by the finite set  *)
(* of unknowns whose exclusive-or it is: `a ^ b` is the symmetric          *)
(* difference, ZeroBlock the empty set.  Two blocks are equal as formal    *)
(* sums exactly when the code would compute equal words for every value    *)
(* of the unknowns (seeds, PRNG outputs, fixed-key AES outputs).           *)
(***************************************************************************)
EXTENDS FiniteSets, FiniteSetsExt, Integers

ZeroBlock == {}

(* a ^ b *)
Xor(a, b) == SymDiff(a, b)

(* XOR over s \in S of f[s]: an unknown survives when it occurs an odd      *)
(* number of times.                                                        *)
XorSum(f, S) ==
    { a \in UNION { f[s] : s \in S } :
        Cardinality({ s \in S : a \in f[s] }) % 2 = 1 }

(* b * x for a bit b, the code's `x & zeroAndAllOneBlocks[b]`.              *)
BitTimes(b, x) == IF b THEN x ELSE ZeroBlock

(* roundUpTo and divCeil of cryptoTools, and log2ceil.                      *)
DivCeil(x, y) == (x + y - 1) \div y
RoundUpTo(x, y) == DivCeil(x, y) * y
Log2Ceil(x) == CHOOSE d \in 0..x : 2^d >= x /\ \A e \in 0..(d - 1) : 2^e < x
===========================================================================
