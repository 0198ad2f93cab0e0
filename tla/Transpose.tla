----------------------------- MODULE Transpose -----------------------------
(***************************************************************************)
(* The bit transposes of Tools.cpp.                                         *)
(*                                                                         *)
(* In place on a square of 128 x 128 bits, or on eight of them side by side:  *)
(* eklundh_transpose128 by halving widths, sse_transpose128 by squares of     *)
(* two bytes, avx_transpose128 by doubling widths, two rows to a vector; and  *)
(* from one matrix of any size into another: sse_transpose and avx_transpose. *)
(*                                                                         *)
(* A bit is the set of the input bits it is the sum of, so that shifts and   *)
(* masks that lose or mix bits are seen.                                    *)
(***************************************************************************)
EXTENDS XorAlgebra, Sequences, TLC

CONSTANTS
    TransposeConfs,  \* the function, and the sizes of its argument
    ByteBits,        \* 8; two bytes are the side of a square of the SSE code
    LogSide,         \* 7: a side is 128 bits
    BaseShift,       \* 3: the AVX code first transposes squares of 8 bits
    GroupRows,       \* 32 rows: 2^(avxBlockShift + 1)
    ChunkSize        \* 8 bytes of an input row that sse_transpose takes at a time

Side == 2^LogSide
Word == Side \div 2          \* u64
Square == 2 * ByteBits       \* u16
InPlace == {"eklundh", "sse", "avx"}

TransposeAssumption ==
    /\ ByteBits \in Nat \ {0} /\ ChunkSize \in Nat \ {0} /\ LogSide \in Nat /\ BaseShift \in 1..LogSide
    /\ Side % Square = 0 /\ Side % GroupRows = 0 /\ GroupRows % 2^BaseShift = 0
    /\ \A c \in TransposeConfs :
          \/ c.call \in InPlace /\ c.copies \in Nat \ {0}
          \/ /\ c.call \in {"sseInto", "avxInto"}
             /\ {c.rows, c.stride, c.outRows, c.outStride} \subseteq Nat \ {0}

VARIABLES
    conf,
    e,    \* the matrix in place, or the one that is written
    at    \* the loops

vars == <<conf, e, at>>

(* The bit of the input at row r and column c; what was in the output.       *)
Bit(r, c) == { <<r, c>> }
Before(r, c) == { <<r, c, 0>> }

TransposeInit ==
    /\ conf \in TransposeConfs
    /\ e = IF conf.call \in InPlace
           THEN [p \in (0..(Side - 1)) \X (0..(Side * conf.copies - 1)) |-> Bit(p[1], p[2])]
           ELSE [p \in (0..(conf.outRows - 1)) \X (0..(conf.outStride * ByteBits - 1)) |-> Before(p[1], p[2])]
    /\ at = [stage |-> "start", copy |-> 0, i |-> 0, j |-> 0, k |-> 0]

(* The rows of the square that is worked on: the 128x1024 functions take one  *)
(* block of every row after another.                                        *)
Row(r) == [c \in 0..(Side - 1) |-> e[<<r, at.copy * Side + c>>]]
WithRows(rows) ==
    [p \in DOMAIN e |->
        IF p[2] \div Side = at.copy /\ p[1] \in DOMAIN rows THEN rows[p[1]][p[2] % Side] ELSE e[p]]

Next128(step) ==
    at' = IF at.copy + 1 < conf.copies THEN [step EXCEPT !.copy = @ + 1] ELSE [step EXCEPT !.stage = "done"]

---------------------------------------------------------------------------
(* A row as two words, their shifts and masks.                              *)
WordBits == 0..(Word - 1)
Half(row, h) == [b \in WordBits |-> row[h * Word + b]]
Joined(lo, hi) == [c \in 0..(Side - 1) |-> IF c < Word THEN lo[c] ELSE hi[c - Word]]
Shl(x, n) == [b \in WordBits |-> IF b >= n THEN x[b - n] ELSE ZeroBlock]
Shr(x, n) == [b \in WordBits |-> IF b + n < Word THEN x[b + n] ELSE ZeroBlock]
And(x, mask) == [b \in WordBits |-> IF b \in mask THEN x[b] ELSE ZeroBlock]
XorWords(x, y) == [b \in WordBits |-> Xor(x[b], y[b])]

(* TRANSPOSE_MASKS128: the lower half of every 2 * width bits.              *)
LowerHalves(width) == { b \in WordBits : (b \div width) % 2 = 0 }
Inverse1(mask) == WordBits \ mask

(* eklundh_transpose128: the rows i1 and i2 = i1 + width of a pass.          *)
EklundhPair(row1, row2, width) ==
    LET m1 == IF width = Word THEN WordBits ELSE LowerHalves(width)
        m2 == IF width = Word THEN {} ELSE LowerHalves(width)
        t1 == Half(row1, 0)  t2 == Half(row1, 1)
        tt1 == Half(row2, 0) tt2 == Half(row2, 1)
    IN IF width < Word
       THEN [first |-> Joined(XorWords(And(t1, m1), Shl(And(tt1, m1), width)),
                              XorWords(XorWords(And(t2, m2), Shl(And(tt2, m2), width)),
                                       Shr(And(tt1, m1), Word - width))),
             second |-> Joined(XorWords(XorWords(And(tt1, Inverse1(m1)), Shr(And(t1, Inverse1(m1)), width)),
                                        Shl(And(t2, Inverse1(m2)), Word - width)),
                               XorWords(And(tt2, Inverse1(m2)), Shr(And(t2, Inverse1(m2)), width)))]
       ELSE [first |-> Joined(And(t1, m1), XorWords(And(t2, m2), Shr(And(tt1, m1), Word - width))),
             second |-> Joined(XorWords(And(tt1, Inverse1(m1)), Shl(And(t2, Inverse1(m2)), Word - width)),
                               And(tt2, Inverse1(m2)))]

(* One width: all pairs of rows, which have no row in common.                *)
EklundhPass ==
    /\ at.stage = "start" /\ conf.call = "eklundh"
    /\ LET width == Word \div 2^at.i
           rows == [r \in 0..(Side - 1) |->
                      IF (r \div width) % 2 = 0 THEN EklundhPair(Row(r), Row(r + width), width).first
                      ELSE EklundhPair(Row(r - width), Row(r), width).second]
       IN e' = WithRows(rows)
    /\ IF at.i + 1 < LogSide THEN at' = [at EXCEPT !.i = @ + 1] ELSE Next128([at EXCEPT !.i = 0])
    /\ UNCHANGED conf

---------------------------------------------------------------------------
(* sse_loadSubSquare: of Square rows from x on, the bytes 2y and 2y + 1.      *)
LoadSubSquare(x, y) ==
    [b \in 0..1 |-> [l \in 0..(Square - 1) |->
        [n \in 0..(ByteBits - 1) |-> Row(Square * x + l)[(2 * y + b) * ByteBits + n]]]]

(* sse_transposeSubSquare: the top bits of Square bytes become two bytes of a *)
(* row, and the bytes are shifted; rows are filled from the last to the first.*)
TransposeSubSquare(rows, in, x, y) ==
    [r \in DOMAIN rows |->
        IF r \div Square # x THEN rows[r]
        ELSE LET b == (r % Square) \div ByteBits
                 shifts == ByteBits - 1 - (r % ByteBits)
             IN [c \in DOMAIN rows[r] |->
                    IF c \div Square = y THEN in[b][c % Square][ByteBits - 1 - shifts] ELSE rows[r][c]]]

AllRows == [r \in 0..(Side - 1) |-> Row(r)]

SseDiagonal ==
    /\ at.stage = "start" /\ conf.call = "sse"
    /\ e' = WithRows(TransposeSubSquare(AllRows, LoadSubSquare(at.j, at.j), at.j, at.j))
    /\ IF at.j > 0 THEN at' = [at EXCEPT !.stage = "swap", !.k = 0]
       ELSE IF Side > Square THEN at' = [at EXCEPT !.j = 1]
       ELSE Next128(at)
    /\ UNCHANGED conf

SseSwap ==
    /\ at.stage = "swap"
    /\ LET a == LoadSubSquare(at.k, at.j)
           b == LoadSubSquare(at.j, at.k)
       IN e' = WithRows(TransposeSubSquare(TransposeSubSquare(AllRows, a, at.j, at.k), b, at.k, at.j))
    /\ IF at.k + 1 < at.j THEN at' = [at EXCEPT !.k = @ + 1]
       ELSE IF (at.j + 1) * Square < Side THEN at' = [at EXCEPT !.stage = "start", !.j = @ + 1]
       ELSE Next128([at EXCEPT !.stage = "start", !.j = 0])
    /\ UNCHANGED conf

---------------------------------------------------------------------------
(* avx_transpose_block_iter1: the rows r, r + 1 and those 2^shift below; for  *)
(* the first shift also the squares of two within each pair of rows.         *)
TwoByTwo(rows, r) ==
    LET u == rows[r] v == rows[r + 1] IN
    [rows EXCEPT ![r] = [c \in DOMAIN u |-> IF c % 2 = 1 THEN v[c - 1] ELSE u[c]],
                 ![r + 1] = [c \in DOMAIN v |-> IF c % 2 = 0 THEN u[c + 1] ELSE v[c]]]
(* diff = (x ^ (y << w)) & mask is added to x, and shifted back to y; the     *)
(* last shift exchanges words.                                              *)
SwapHalves(rows, r, w) ==
    LET x == rows[r] y == rows[r + w]
        diff == [c \in DOMAIN x |-> IF (c \div w) % 2 = 1 THEN Xor(x[c], y[c - w]) ELSE ZeroBlock]
    IN [rows EXCEPT ![r] = [c \in DOMAIN x |-> Xor(x[c], diff[c])],
                    ![r + w] = [c \in DOMAIN y |-> IF c + w < Side THEN Xor(y[c], diff[c + w]) ELSE y[c]]]
BlockIter1(rows, r, shift) ==
    LET w == 2^shift
        two == IF shift = 1 THEN TwoByTwo(TwoByTwo(rows, r), r + w) ELSE rows
    IN SwapHalves(SwapHalves(two, r, w), r + 1, w)

(* avx_transpose_block_iter2, all matrices of 2^(shift + 1) rows: of each the  *)
(* upper rows that begin a step of 2^step rows.                             *)
BlockIter2(rows, begin, count, shift, step) ==
    LET Pairs == { r \in begin..(begin + count - 1) :
                     (r - begin) % 2^(shift + 1) < 2^shift /\ (r - begin) % 2^step = 0 }
    IN FoldSet(LAMBDA r, acc : BlockIter1(acc, r, shift), rows, Pairs)

(* avx_transpose<3>: groups of rows, each with the shifts below BaseShift.   *)
AvxBase ==
    /\ at.stage = "start" /\ conf.call = "avx"
    /\ e' = WithRows(BlockIter2(AllRows, at.i * GroupRows, GroupRows, at.k + 1, 1))
    /\ at' = IF at.k + 2 < BaseShift THEN [at EXCEPT !.k = @ + 1]
             ELSE IF (at.i + 1) * GroupRows < Side THEN [at EXCEPT !.i = @ + 1, !.k = 0]
             ELSE [at EXCEPT !.stage = "rest", !.i = 0, !.k = BaseShift]
    /\ UNCHANGED conf

(* avx_transpose<7>: the pairs of rows 2i of every eight, with the shifts     *)
(* from BaseShift on.                                                       *)
AvxRest ==
    /\ at.stage = "rest"
    /\ e' = WithRows(BlockIter2(AllRows, 2 * at.i, Side, at.k, BaseShift))
    /\ IF at.k + 1 < LogSide THEN at' = [at EXCEPT !.k = @ + 1]
       ELSE IF at.i + 1 < 2^(BaseShift - 1) THEN at' = [at EXCEPT !.i = @ + 1, !.k = BaseShift]
       ELSE Next128([at EXCEPT !.stage = "start", !.i = 0, !.k = 0])
    /\ UNCHANGED conf

---------------------------------------------------------------------------
(* From a matrix of conf.rows rows into another; what is written is a        *)
(* function of the cells it reaches, in the output or not.                   *)
Write(cells) == [p \in DOMAIN e \cup DOMAIN cells |-> IF p \in DOMAIN cells THEN cells[p] ELSE e[p]]

SubBlockWidth == conf.rows \div Square
SubBlockHight == conf.outRows \div (ByteBits * ChunkSize)
LeftOverHeight == conf.outRows % (ByteBits * ChunkSize)
LeftOverWidth == conf.rows % Square
HhEnd == DivCeil(LeftOverHeight, ByteBits)
LastSkip == (ByteBits - (LeftOverHeight % ByteBits)) % ByteBits

SseCheck ==
    /\ at.stage = "start" /\ conf.call = "sseInto"
    /\ at' = [at EXCEPT !.stage =
                IF conf.outStride < DivCeil(conf.rows, ByteBits) \/ conf.outRows > conf.stride * ByteBits
                THEN "threw" ELSE "squares"]
    /\ UNCHANGED <<conf, e>>

(* The four loops: whole squares, the input bytes after the last chunk, and   *)
(* both for the rows that do not fill a square.                              *)
LoopCount(loop) ==
    CASE loop = 0 -> SubBlockHight * SubBlockWidth
      [] loop = 1 -> HhEnd * SubBlockWidth
      [] loop = 2 -> IF LeftOverWidth > 0 THEN SubBlockHight ELSE 0
      [] loop = 3 -> IF LeftOverWidth > 0 THEN HhEnd ELSE 0
LoopWidth(loop) == IF loop <= 1 THEN SubBlockWidth ELSE 1
LoopBytes(loop, h) ==
    IF loop \in {0, 2} THEN (h * ChunkSize)..(h * ChunkSize + ChunkSize - 1) ELSE {SubBlockHight * ChunkSize + h}

(* Byte by byte: the column of bytes below one another, zero where there is no*)
(* row; shifted once for each row of the output that is skipped or written.   *)
Columns(byte, w, count, skip, width) ==
    LET bytes == [l \in 0..(width - 1) |-> [n \in 0..(ByteBits - 1) |->
                    IF l < count THEN Bit(w * Square + l, byte * ByteBits + n) ELSE ZeroBlock]]
    IN [p \in { <<byte * ByteBits + ByteBits - 1 - skip - j, w * Square + l>> :
                  j \in 0..(ByteBits - 1 - skip), l \in 0..(width - 1) } |->
          LET j == byte * ByteBits + ByteBits - 1 - skip - p[1]
          IN bytes[p[2] - w * Square][ByteBits - 1 - (skip + j)]]

SseSquare ==
    /\ at.stage = "squares" /\ at.i < LoopCount(at.k)
    /\ LET h == at.i \div LoopWidth(at.k)
           w == IF at.k <= 1 THEN at.i % SubBlockWidth ELSE SubBlockWidth
           count == IF at.k <= 1 THEN Square ELSE LeftOverWidth
           width == IF count <= ByteBits THEN ByteBits ELSE Square
           skip == IF at.k \in {1, 3} /\ h = HhEnd - 1 THEN LastSkip ELSE 0
       IN e' = Write(FoldSet(LAMBDA byte, cells : cells @@ Columns(byte, w, count, skip, width),
                             << >>, LoopBytes(at.k, h)))
    /\ at' = [at EXCEPT !.i = @ + 1]
    /\ UNCHANGED conf

SseNextLoop ==
    /\ at.stage = "squares" /\ at.i = LoopCount(at.k)
    /\ at' = IF at.k < 3 THEN [at EXCEPT !.k = @ + 1, !.i = 0] ELSE [at EXCEPT !.stage = "done"]
    /\ UNCHANGED <<conf, e>>

(* avx_transpose: squares of 128 bits, whole or what is left of them, with    *)
(* zeros around it, each transposed in place and copied byte by byte.        *)
MinOf(a, b) == IF a < b THEN a ELSE b
RBits == MinOf(conf.rows, conf.outStride * ByteBits)
CBits == MinOf(conf.stride * ByteBits, conf.outRows)
InWholeBytes(bits) == RoundUpTo(bits, ByteBits)

AvxSquare ==
    /\ at.stage = "start" /\ conf.call = "avxInto"
    /\ LET rows == MinOf(Side, RBits - at.i * Side)
           columns == MinOf(Side, CBits - at.j * Side)
           buff == [k \in 0..(Side - 1) |-> [c \in 0..(Side - 1) |->
                      IF k < rows /\ c < InWholeBytes(columns)
                      THEN Bit(at.i * Side + k, at.j * Side + c) ELSE ZeroBlock]]
       IN e' = Write([p \in { <<at.j * Side + k, at.i * Side + c>> :
                                k \in 0..(columns - 1), c \in 0..(InWholeBytes(rows) - 1) } |->
                        buff[p[2] - at.i * Side][p[1] - at.j * Side]])
    /\ at' = IF (at.j + 1) * Side < CBits THEN [at EXCEPT !.j = @ + 1]
             ELSE IF (at.i + 1) * Side < RBits THEN [at EXCEPT !.i = @ + 1, !.j = 0]
             ELSE [at EXCEPT !.stage = "done"]
    /\ UNCHANGED conf

TransposeDone == at.stage \in {"done", "threw"} /\ UNCHANGED vars

TransposeNext ==
    \/ EklundhPass \/ SseDiagonal \/ SseSwap \/ AvxBase \/ AvxRest
    \/ SseCheck \/ SseSquare \/ SseNextLoop \/ AvxSquare \/ TransposeDone

---------------------------------------------------------------------------
(* In place every bit is where its mirror image was, square by square. Of a   *)
(* matrix of any size the bits that exist on both sides are, the rest of a    *)
(* byte that has some of them is zero, and nothing else is written.          *)
TransposeExact ==
    at.stage = "done" =>
        IF conf.call \in InPlace
        THEN \A r, c \in 0..(Side - 1), i \in 0..(conf.copies - 1) :
                e[<<r, i * Side + c>>] = Bit(c, i * Side + r)
        ELSE e = [p \in (0..(conf.outRows - 1)) \X (0..(conf.outStride * ByteBits - 1)) |->
                    IF p[1] >= CBits \/ p[2] >= InWholeBytes(RBits) THEN Before(p[1], p[2])
                    ELSE IF p[2] >= RBits THEN ZeroBlock
                    ELSE Bit(p[2], p[1])]
===========================================================================
