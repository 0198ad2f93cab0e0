---------------------------- MODULE QuasiCyclic ----------------------------
(***************************************************************************)
(* QuasiCyclicCode::dualEncode: the parity part of the noise vector is cut   *)
(* into polynomials, each is multiplied with a public random one, and the    *)
(* sum of the products, modulo x^p - 1, is added to the message part.       *)
(*                                                                         *)
(* The code works on 128 rows of bits; all are treated alike, so a bit here  *)
(* is the formal sum of the elements that were passed in. A block is two     *)
(* words, and reducing a product shifts it by whole blocks and then word by  *)
(* word.                                                                   *)
(***************************************************************************)
EXTENDS XorAlgebra, Sequences

CONSTANTS
    QuasiConfs,   \* message size, code size, mPrimeModulus
    WordBits,     \* 64
    ByteBits,     \* 8
    Public(_, _)  \* bit k of the public polynomial number s

QuasiAssumption ==
    /\ WordBits \in Nat \ {0} /\ ByteBits \in Nat \ {0} /\ WordBits % ByteBits = 0
    /\ \A c \in QuasiConfs :
          /\ c.message \in Nat \ {0} /\ c.n \in Nat /\ c.n > c.message
          /\ c.p \in Nat /\ c.p >= c.message /\ c.p > 1

VARIABLES
    conf,
    e,    \* the noise vector
    at    \* the product, its remainder, and how far modp has come

vars == <<conf, e, at>>

BlockBits == 2 * WordBits
PolyBlocks == DivCeil(conf.p, BlockBits)
PolyBits == PolyBlocks * BlockBits
Polys == DivCeil(conf.n - conf.message, conf.p)

Input == [j \in 0..(conf.n - 1) |-> { <<"e", j>> }]

QuasiInit ==
    /\ conf \in QuasiConfs
    /\ e = Input
    /\ at = [stage |-> "multiply", i |-> 0, product |-> << >>, c |-> << >>]

(* transpose: the parity part fills the polynomials without gaps, zeros      *)
(* come after it.                                                          *)
Parity(k) == IF k < conf.n - conf.message THEN e[conf.message + k] ELSE ZeroBlock

(* The sum of the products, which the FFT computes without a modulus.       *)
Multiply ==
    /\ at.stage = "multiply"
    /\ at' = [at EXCEPT !.stage = "reduce",
                !.product = [k \in 0..(2 * PolyBits - 1) |->
                    LET Terms == { t \in (0..(Polys - 1)) \X (0..(PolyBits - 1)) :
                                     k - t[2] \in 0..(PolyBits - 1) /\ Public(t[1], k - t[2]) }
                    IN XorSum([t \in Terms |-> Parity(t[1] * PolyBits + t[2])], Terms)]]
    /\ UNCHANGED <<conf, e>>

---------------------------------------------------------------------------
(* modp. Word l of a vector of bits, and the shifts of words.              *)

Word(x, l) == [k \in 0..(WordBits - 1) |-> x[l * WordBits + k]]
Right(w, n) == [k \in 0..(WordBits - 1) |-> IF k + n < WordBits THEN w[k + n] ELSE ZeroBlock]
Left(w, n) == [k \in 0..(WordBits - 1) |-> IF k >= n THEN w[k - n] ELSE ZeroBlock]
XorWords(v, w) == [k \in 0..(WordBits - 1) |-> Xor(v[k], w[k])]

MinOf(a, b) == IF a < b THEN a ELSE b

(* bitShiftXor: what is added to word l of dest, from the blocks of in that  *)
(* begin at word `first` of the product. Whole blocks of dest take two words *)
(* of in for each of theirs; the block after the last takes what is left.   *)
ShiftXor(in, first, blocks, shift, l) ==
    LET n == IF shift >= WordBits THEN shift - WordBits ELSE shift
        skip == IF shift >= WordBits THEN 1 ELSE 0
        end == MinOf(PolyBlocks, IF shift = 0 THEN blocks ELSE blocks - 1)
        At(h) == Word(in, first + h)
        none == [k \in 0..(WordBits - 1) |-> ZeroBlock]
    IN CASE l \div 2 < end /\ shift = 0 -> At(l)
         [] l \div 2 < end /\ shift # 0 ->
              XorWords(Right(At(l + skip), n), Left(At(l + skip + 1), WordBits - n))
         [] l \div 2 = end /\ shift # 0 /\ l % 2 = 0 ->
              IF skip = 1 THEN Right(At(l + 1), n)
              ELSE XorWords(Right(At(l), n), Left(At(l + 1), WordBits - n))
         [] l \div 2 = end /\ shift # 0 /\ l % 2 = 1 /\ skip = 0 -> Right(At(l), n)
         [] OTHER -> none

(* The bytes that hold the first p bits are copied; the rest of the matrix   *)
(* row is not initialized.                                                 *)
CopyFirst ==
    /\ at.stage = "reduce" /\ at.i = 0
    /\ at' = [at EXCEPT !.i = 1,
                !.c = [k \in 0..(PolyBits - 1) |->
                         IF k < DivCeil(conf.p, ByteBits) * ByteBits THEN at.product[k]
                         ELSE { <<"uninitialized", k>> }]]
    /\ UNCHANGED <<conf, e>>

CountFloor == (2 * PolyBits) \div conf.p
Count == DivCeil(2 * PolyBits, conf.p)
(* The next p coefficients of the product are added to the first.           *)
AddSegment ==
    /\ at.stage = "reduce" /\ at.i \in 1..(Count - 1)
    /\ LET begin == at.i * conf.p
           end == MinOf(begin + conf.p, 2 * PolyBits)
           first == begin \div BlockBits
           sum == [l \in 0..(2 * PolyBlocks - 1) |->
                     XorWords(Word(at.c, l),
                              ShiftXor(at.product, 2 * first, DivCeil(end, BlockBits) - first,
                                       begin % BlockBits, l))]
       IN at' = [at EXCEPT !.i = @ + 1,
                           !.c = [k \in DOMAIN @ |-> sum[k \div WordBits][k % WordBits]]]
    /\ UNCHANGED <<conf, e>>

(* The bits from p on are cleared, those of the last byte by a mask.        *)
ClearRest ==
    /\ at.stage = "reduce" /\ at.i = Count
    /\ at' = [at EXCEPT !.stage = "add", !.i = 0,
                        !.c = [k \in DOMAIN @ |-> IF k < conf.p THEN @[k] ELSE ZeroBlock]]
    /\ UNCHANGED <<conf, e>>

(* A square of the remainders is transposed and added to the message part.  *)
AddSquare ==
    /\ at.stage = "add" /\ at.i < DivCeil(conf.message, BlockBits)
    /\ LET j == at.i * BlockBits
           end == j + MinOf(BlockBits, conf.message - j)
       IN e' = [k \in DOMAIN e |-> IF k \in j..(end - 1) THEN Xor(e[k], at.c[k]) ELSE e[k]]
    /\ at' = [at EXCEPT !.i = @ + 1]
    /\ UNCHANGED conf

QuasiDone == at.stage = "add" /\ at.i = DivCeil(conf.message, BlockBits) /\ UNCHANGED vars

QuasiNext == Multiply \/ CopyFirst \/ AddSegment \/ ClearRest \/ AddSquare \/ QuasiDone

---------------------------------------------------------------------------
(* The message part has gained the products modulo x^p - 1: bits k and m of *)
(* the factors meet at (k + m) mod p, however the product lies in its words,*)
(* and nothing of the memory that was not initialized.                     *)
ReducedExactly ==
    (at.stage = "add" /\ at.i = DivCeil(conf.message, BlockBits)) =>
        \A j \in 0..(conf.message - 1) :
            LET Terms == { t \in (0..(Polys - 1)) \X (0..(PolyBits - 1)) \X (0..(PolyBits - 1)) :
                             t[1] * PolyBits + t[2] < conf.n - conf.message
                             /\ Public(t[1], t[3]) /\ (t[2] + t[3]) % conf.p = j }
            IN e[j] = Xor(Input[j],
                          XorSum([t \in Terms |-> Input[conf.message + t[1] * PolyBits + t[2]]], Terms))
===========================================================================
