---------------------------- MODULE LinearCode ----------------------------
(***************************************************************************)
(* LinearCode: the code word of a plaintext, looked up byte by byte.         *)
(*                                                                         *)
(* For every byte of the plaintext the table mG8 holds the code words of all *)
(* values the byte can have. generateMod8Table computes it from the rows of  *)
(* the generator mG; encode adds the entries of the bytes, several rows at a  *)
(* time into several accumulators, as many as the width of a code word       *)
(* allows. Rows of the table are added until their number is a multiple of    *)
(* eight, and encode looks them up with bytes it never initialized.          *)
(*                                                                         *)
(* Nothing is done to a block of mG but to add it to others: block w of row   *)
(* r is the unknown <<r, w>>, a sum of blocks the set of its unknowns.        *)
(***************************************************************************)
EXTENDS XorAlgebra, Sequences

CONSTANTS
    LinearConfs,  \* plaintext bits, blocks of a code word, the plaintext's bytes
    ByteBits,     \* 8
    MaxBytes,     \* sLinearCodePlainTextMaxSize
    BchBytes,     \* the plaintext of the BCH code with 511 bit words: 10 bytes
    Shl1,         \* u64(1) << g
    Junk          \* what memory that is not initialized can hold

ByteValues == 0..(Shl1[ByteBits] - 1)

LinearAssumption ==
    /\ ByteBits \in Nat \ {0}
    /\ Shl1 \in [0..ByteBits -> Nat] /\ Shl1[0] = 1 /\ \A g \in 1..ByteBits : Shl1[g] = 2 * Shl1[g - 1]
    /\ MaxBytes \in Nat /\ MaxBytes % 8 = 0 /\ BchBytes \in Nat
    /\ Junk \subseteq ByteValues /\ Junk # {}
    /\ \A c \in LinearConfs :
          /\ c.bits \in Nat \ {0} /\ c.blocks \in Nat \ {0}
          /\ c.plaintext \in [0..(DivCeil(c.bits, ByteBits) - 1) -> ByteValues]

VARIABLES
    conf,
    e,    \* mG8: the entry of a row and a byte, block by block
    at    \* the loops of generateMod8Table and encode, accumulators and result

vars == <<conf, e, at>>

(* mPlaintextU8Size and mU8RowCount, pipelinedMod8RowCount, mPow2CodeSize.    *)
PlaintextU8Size == DivCeil(conf.bits, ByteBits)
RowCount == RoundUpTo(PlaintextU8Size, 8)
CodeSize ==
    CASE conf.blocks = 3 -> 4
      [] conf.blocks \in 5..7 -> 8
      [] OTHER -> conf.blocks
Wide == CodeSize > 8

NoBlocks == [x \in 0..7 |-> ZeroBlock]

LinearInit ==
    /\ conf \in LinearConfs
    /\ e = << >>
    /\ at = [stage |-> "load", i |-> 0, g |-> 0, v |-> 0, j |-> 0, c |-> NoBlocks, codeword |-> << >>]

(* The generator is there: the sizes, an empty table, or an exception.        *)
TooLong ==
    /\ at.stage = "load" /\ PlaintextU8Size > MaxBytes
    /\ at' = [at EXCEPT !.stage = "threw"]
    /\ UNCHANGED <<conf, e>>

Load ==
    /\ at.stage = "load" /\ PlaintextU8Size <= MaxBytes
    /\ e' = [i \in 0..(RowCount - 1) |-> [v \in ByteValues |-> [w \in 0..(CodeSize - 1) |-> ZeroBlock]]]
    /\ at' = [at EXCEPT !.stage = "table", !.v = 1]
    /\ UNCHANGED conf

---------------------------------------------------------------------------
(* generateMod8Table: row g of a byte's eight is added to the entries v with  *)
(* bit g. They are found by runs of 2^g values, every other run.             *)

NextValue(g, v) == IF (v + 1) % Shl1[g] # 0 THEN v + 1 ELSE v + 1 + Shl1[g]

AddRow(entry, r) ==
    [w \in DOMAIN entry |->
        IF r < conf.bits /\ w < conf.blocks THEN Xor(entry[w], { <<r, w>> }) ELSE entry[w]]

Filling ==
    /\ at.stage = "table"
    /\ e' = [e EXCEPT ![at.i][at.v] = AddRow(@, at.i * ByteBits + at.g)]
    /\ UNCHANGED conf

NextEntry ==
    /\ Filling /\ NextValue(at.g, at.v) \in ByteValues
    /\ at' = [at EXCEPT !.v = NextValue(at.g, at.v)]

NextBit ==
    /\ Filling /\ NextValue(at.g, at.v) \notin ByteValues /\ at.g + 1 < ByteBits
    /\ at' = [at EXCEPT !.g = @ + 1, !.v = Shl1[at.g + 1]]

NextByte ==
    /\ Filling /\ NextValue(at.g, at.v) \notin ByteValues /\ at.g + 1 = ByteBits
    /\ at' = IF at.i + 1 < RowCount THEN [at EXCEPT !.i = @ + 1, !.g = 0, !.v = 1]
             ELSE [at EXCEPT !.stage = "encode", !.i = 0]

---------------------------------------------------------------------------
(* encode: the plaintext is copied to the front of a local array.            *)
ByteView(i, junk) == IF i < PlaintextU8Size THEN conf.plaintext[i] ELSE junk

(* Code words of up to eight blocks: as many rows at a time as fill the eight *)
(* accumulators.                                                           *)
ByteStep == 8 \div CodeSize
LookupNarrow ==
    /\ at.stage = "encode" /\ ~Wide /\ at.i < RowCount
    /\ \E junk \in [0..(ByteStep - 1) -> Junk] :
          at' = [at EXCEPT !.i = @ + ByteStep,
                    !.c = [x \in 0..7 |->
                             LET k == x \div CodeSize IN
                             Xor(@[x], e[at.i + k][ByteView(at.i + k, junk[k])][x % CodeSize])]]
    /\ UNCHANGED <<conf, e>>

StoreNarrow ==
    /\ at.stage = "encode" /\ ~Wide /\ at.i >= RowCount
    /\ at' = [at EXCEPT !.stage = "done",
                !.codeword = [w \in 0..(conf.blocks - 1) |->
                    XorSum([k \in 0..(ByteStep - 1) |-> at.c[k * CodeSize + w]], 0..(ByteStep - 1))]]
    /\ UNCHANGED <<conf, e>>

(* The general case: block by block, eight rows at a time.                   *)
LookupWide ==
    /\ at.stage = "encode" /\ Wide /\ at.i < RowCount
    /\ \E junk \in [0..7 -> Junk] :
          at' = [at EXCEPT !.i = @ + 8,
                    !.c = [x \in 0..7 |-> Xor(@[x], e[at.i + x][ByteView(at.i + x, junk[x])][at.j])]]
    /\ UNCHANGED <<conf, e>>

StoreWide ==
    /\ at.stage = "encode" /\ Wide /\ at.i >= RowCount
    /\ at' = [at EXCEPT !.codeword = [w \in 0..at.j |-> IF w = at.j THEN XorSum(at.c, 0..7) ELSE @[w]],
                        !.c = NoBlocks, !.i = 0, !.j = @ + 1,
                        !.stage = IF at.j + 1 < CodeSize THEN "encode" ELSE "done"]
    /\ UNCHANGED <<conf, e>>

(* encode_bch511: the ten rows of the BCH code and no others, unrolled.       *)
Bch511 == PlaintextU8Size = BchBytes /\ CodeSize = 4
EncodeBch511 ==
    /\ at.stage = "encode" /\ at.i = 0 /\ Bch511
    /\ at' = [at EXCEPT !.stage = "done",
                !.codeword = [w \in 0..(conf.blocks - 1) |->
                    XorSum([i \in 0..(BchBytes - 1) |-> e[i][conf.plaintext[i]][w]], 0..(BchBytes - 1))]]
    /\ UNCHANGED <<conf, e>>

LinearDone == at.stage \in {"done", "threw"} /\ UNCHANGED vars

LinearNext ==
    \/ TooLong \/ Load \/ NextEntry \/ NextBit \/ NextByte
    \/ LookupNarrow \/ StoreNarrow \/ LookupWide \/ StoreWide \/ EncodeBch511 \/ LinearDone

LinearSpec == LinearInit /\ [][LinearNext]_vars

---------------------------------------------------------------------------
BitSet(r) == (conf.plaintext[r \div ByteBits] \div Shl1[r % ByteBits]) % 2 = 1

(* Whichever loop computes it, a code word is the sum of the rows of the      *)
(* generator at the bits of the plaintext; nothing of the bits behind the     *)
(* plaintext's last, of the padding rows or of uninitialized bytes.          *)
CodeWordExact ==
    at.stage = "done" =>
        \A w \in 0..(conf.blocks - 1) :
            at.codeword[w] = { <<r, w>> : r \in { x \in 0..(conf.bits - 1) : BitSet(x) } }
===========================================================================
