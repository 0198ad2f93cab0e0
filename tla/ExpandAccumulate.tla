-------------------------- MODULE ExpandAccumulate --------------------------
(***************************************************************************)
(* The encoders that silent OT and VOLE compress with: EACode, ExConvCode   *)
(* and the ExpanderCode under both, in dualEncode2 of a pair of vectors.    *)
(*                                                                         *)
(* An element of a vector is the formal sum of the elements the vector held *)
(* when it was passed in. mulConst is the identity, as it is for the bits   *)
(* and blocks of CoeffCtxGF2. Both vectors are coded in place, row after    *)
(* row, from pseudorandom streams that are consumed on the way.             *)
(***************************************************************************)
EXTENDS XorAlgebra, Sequences

CONSTANTS
    CoderConfs,          \* the configurations
    Group,               \* 8: the rows the expander computes at a time
    BufferBytes,         \* the bytes of the PRNG's buffer
    ByteBits,            \* 8
    Coeff(_, _, _, _),   \* bit k of byte n of the g-th buffer of a seed
    Raw(_, _)            \* word n of a stream

CoderAssumption ==
    /\ Group \in Nat \ {0} /\ BufferBytes \in Nat \ {0} /\ ByteBits \in Nat \ {0}
    /\ \A c \in CoderConfs :
          /\ c.code \in {"EA", "ExConv"} /\ c.systematic \in BOOLEAN /\ c.regular \in BOOLEAN
          /\ c.message \in Nat \ {0} /\ c.n \in Nat /\ c.weight \in Nat \ {0} /\ c.acc \in Nat
          /\ c.n - (IF c.systematic THEN c.message ELSE 0) > c.acc + 1
          /\ c.code = "EA" => ~c.systematic /\ ~c.regular /\ c.acc = 0

VARIABLES
    conf,
    e,    \* the two vectors
    at    \* how far dualEncode2 has come

vars == <<conf, e, at>>

Offset == IF conf.systematic THEN conf.message ELSE 0
Size == conf.n - Offset
Vectors == {1, 2}

---------------------------------------------------------------------------
(* The accumulator. The coefficients of a row are the bits of consecutive   *)
(* bytes; the next row begins one byte further on.                         *)

RowBytes == DivCeil(conf.acc, ByteBits)
NeedsRefill == at.iter > BufferBytes - RowBytes
Buffer == IF NeedsRefill THEN at.buffer + 1 ELSE at.buffer
Iter == IF NeedsRefill THEN 0 ELSE at.iter

(* Rows before Main reach no further than the end and are not checked.      *)
Main == Size - 1 - conf.acc
Wrap(j) == IF j >= Size THEN j - Size ELSE j
Target(i, k) == IF i < Main THEN i + 1 + k ELSE Wrap(i + 1 + k)

accOne(i) ==
    { Target(i, k) : k \in { h \in 0..(conf.acc - 1) :
                               Coeff(at.pass, Buffer, Iter + h \div ByteBits, h % ByteBits) } }
    \cup { Target(i, conf.acc) }

(* Row i is added to the rows in targets.                                  *)
AddRow(x, i, targets) ==
    [j \in DOMAIN x \cup { Offset + t : t \in targets } |->
        IF j - Offset \in targets THEN Xor(x[j], x[Offset + i]) ELSE x[j]]

---------------------------------------------------------------------------
(* The expander: weight positions per row, the first half of a regular one  *)
(* in a region each. Within a group the streams run over the rows first.    *)

Uni == IF conf.regular THEN conf.weight \div 2 ELSE conf.weight
Reg == conf.weight - Uni
Step == IF Reg = 0 THEN 0 ELSE Size \div Reg
Get(gen, n, m) == Raw(gen, n) % m

Grouped == (conf.message \div Group) * Group
(* The draw that row i makes for its j-th position, of a stream that all    *)
(* rows before those of this step have drawn `drawn` values from.           *)
Number(i, j, drawn) == IF i < Grouped THEN drawn + j * Group + (i % Group) ELSE drawn + j
Positions(i, uni, reg) ==
    [j \in 0..(conf.weight - 1) |->
        IF j < Reg THEN Get("reg", Number(i, j, reg), Step) + j * Step
        ELSE Get("uni", Number(i, j - Reg, uni), Size)]

SumAt(x, positions) ==
    XorSum([j \in DOMAIN positions |-> x[Offset + positions[j]]], DOMAIN positions)

---------------------------------------------------------------------------
Begin(stage, v) ==
    [stage |-> stage, v |-> v, pass |-> 1, i |-> 0, iter |-> 0, buffer |-> 0,
     uni |-> 0, reg |-> 0, w |-> << >>]

Input(v) == [j \in 0..(conf.n - 1) |-> { <<v, j>> }]

CoderInit ==
    /\ conf \in CoderConfs
    /\ e = [v \in Vectors |-> Input(v)]
    /\ at = Begin("accumulate", 1)

(* EACode accumulates both vectors in one loop.                            *)
AccumulateEA ==
    /\ conf.code = "EA" /\ at.stage = "accumulate"
    /\ IF at.i < conf.n - 1
         THEN /\ e' = [v \in Vectors |-> AddRow(e[v], at.i, {at.i + 1})]
              /\ at' = [at EXCEPT !.i = @ + 1]
         ELSE at' = Begin("expand", 1) /\ UNCHANGED e
    /\ UNCHANGED conf

RestartOnce(p) == [p EXCEPT !.pass = 2, !.i = 0]
SecondPass(p) == [p EXCEPT !.pass = 2, !.i = 0, !.iter = 0, !.buffer = 0]
(* accumulate of ExConvCode: twice, the second time from the inverted seed. *)
AccumulateExConv ==
    /\ conf.code = "ExConv" /\ at.stage = "accumulate"
    /\ IF at.i < Size
         THEN /\ e' = [e EXCEPT ![at.v] = AddRow(@, at.i, accOne(at.i))]
              /\ at' = [at EXCEPT !.i = @ + 1, !.buffer = Buffer, !.iter = Iter + 1]
         ELSE /\ at' = IF at.pass = 1 THEN SecondPass(at) ELSE Begin("expand", at.v)
              /\ UNCHANGED e
    /\ UNCHANGED conf

(* The rows of one step of expand: a group, and each of the rows left over. *)
Rows == IF at.i < Grouped THEN at.i..(at.i + Group - 1) ELSE {at.i}
Expand ==
    /\ at.stage = "expand" /\ at.i < conf.message
    /\ LET sum == [i \in Rows |-> SumAt(e[at.v], Positions(i, at.uni, at.reg))]
           next == [at EXCEPT !.i = @ + Cardinality(Rows),
                              !.uni = @ + Cardinality(Rows) * Uni,
                              !.reg = @ + Cardinality(Rows) * Reg]
       IN IF conf.systematic
            THEN /\ e' = [e EXCEPT ![at.v] =
                            [j \in DOMAIN @ |-> IF j \in Rows THEN Xor(@[j], sum[j]) ELSE @[j]]]
                 /\ at' = next
            ELSE /\ at' = [next EXCEPT !.w = @ \o [k \in 1..Cardinality(Rows) |-> sum[at.i + k - 1]]]
                 /\ UNCHANGED e
    /\ UNCHANGED conf

(* The output of a code that is not systematic is copied, or swapped with   *)
(* its input. ExConvCode codes the second vector from the start, EACode has *)
(* accumulated it already.                                                 *)
Finish ==
    /\ at.stage = "expand" /\ at.i = conf.message
    /\ e' = IF conf.systematic THEN e
            ELSE [e EXCEPT ![at.v] = [j \in DOMAIN @ |-> IF j < conf.message THEN at.w[j + 1] ELSE @[j]]]
    /\ at' = IF at.v = 2 THEN [at EXCEPT !.stage = "done"]
             ELSE Begin(IF conf.code = "EA" THEN "expand" ELSE "accumulate", 2)
    /\ UNCHANGED conf

CoderDone == at.stage = "done" /\ UNCHANGED vars

CoderNext == AccumulateEA \/ AccumulateExConv \/ Expand \/ Finish \/ CoderDone

---------------------------------------------------------------------------
(* The generator matrix, row by row: what the accumulator and the expander   *)
(* are to compute, whatever the order of the loops.                         *)

PerBuffer == BufferBytes - RowBytes + 1
Taps(pass, i) ==
    { k \in 0..(conf.acc - 1) :
        Coeff(pass, i \div PerBuffer, (i % PerBuffer) + k \div ByteBits, k % ByteBits) } \cup {conf.acc}
(* Row i as it is when it is added to the rows after it, and then what the   *)
(* last rows add around the end. A vector is a sequence here, row i at i+1. *)
Accumulated(pass, x) ==
    LET upTo[n \in 0..Size] ==
            IF n = 0 THEN << >>
            ELSE LET rows == upTo[n - 1]
                     Onto == { h \in 1..(n - 1) : n - h - 1 \in Taps(pass, h - 1) }
                 IN Append(rows, Xor(x[n], XorSum(rows, Onto)))
        row == upTo[Size]
        Around(i) == { h \in i..Size : i + Size - h - 1 \in Taps(pass, h - 1) }
    IN IF conf.code = "EA" THEN row
       ELSE << >> \o [i \in 1..Size |-> Xor(row[i], XorSum(row, Around(i)))]

Before(i) == IF i < Grouped THEN (i \div Group) * Group ELSE i
Row(i) == Positions(i, Before(i) * Uni, Before(i) * Reg)
Encoded(x) ==
    LET once == Accumulated(1, [i \in 1..Size |-> x[Offset + i - 1]])
        parity == IF conf.code = "EA" THEN once ELSE Accumulated(2, once)
        product(i) == XorSum([j \in DOMAIN Row(i) |-> parity[Row(i)[j] + 1]], DOMAIN Row(i))
    IN [i \in 0..(conf.message - 1) |-> IF conf.systematic THEN Xor(x[i], product(i)) ELSE product(i)]

(* Both vectors of a pair are multiplied with the same matrix, the one the  *)
(* rows define, and no row writes outside its vector or reads coefficients  *)
(* past the buffer they are generated into.                                *)
CodedExactly ==
    /\ at.iter <= BufferBytes - RowBytes + 1
    /\ \A v \in Vectors :
          /\ DOMAIN e[v] = 0..(conf.n - 1)
          /\ at.stage = "done" =>
                \E y \in { Encoded(Input(v)) } : \A i \in DOMAIN y : e[v][i] = y[i]
===========================================================================
