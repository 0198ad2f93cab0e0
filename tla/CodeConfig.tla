----------------------------- MODULE CodeConfig -----------------------------
(***************************************************************************)
(* How a silent extender chooses its syndrome decoding parameters           *)
(* (ConfigureCode.h / .cpp) and which encoder it then compresses with.      *)
(* The code's doubles only occur as minimum distances: they are kept in     *)
(* hundredths, and -secParam / log2(1 - 2 d) is tabulated.                 *)
(***************************************************************************)
EXTENDS Integers, FiniteSetsExt, XorAlgebra

CONSTANTS
    Requests,   \* the values of numOTs given to configure
    ParGroup    \* 8, the trees the PPRF expands at a time and ChunkSize of Tungsten

CodeConfigAssumption == Requests \subseteq Nat \ {0} /\ ParGroup = 8

EA == {"ExAcc7", "ExAcc11", "ExAcc21", "ExAcc40"}
ExConv == {"ExConv7x24", "ExConv21x24"}
MultType == EA \cup ExConv \cup {"QuasiCyclic", "Tungsten"}

VARIABLES
    pc, mMultType, mRequestNumOts,
    mNumPartitions, mSizePer, mNoiseVecSize,
    encoder    \* what compress passed to the code's config

vars == <<pc, mMultType, mRequestNumOts, mNumPartitions, mSizePer, mNoiseVecSize, encoder>>

---------------------------------------------------------------------------
(* The codes.  EAConfigure's definition takes its reference parameters in   *)
(* the order of this tuple; every caller sees the order the header declares,*)
(* scaler and then expanderWeight, and passes references by position.      *)
EAWeight(type) ==
    CASE type = "ExAcc7" -> 7 [] type = "ExAcc11" -> 11 [] type = "ExAcc21" -> 21 [] type = "ExAcc40" -> 41
EADist(type) ==
    CASE type = "ExAcc7" -> 5 [] type = "ExAcc11" -> 10 [] type = "ExAcc21" -> 15 [] type = "ExAcc40" -> 20
EAConfigure(type) == <<EAWeight(type), 5, EADist(type)>>

(* scaler, expanderWeight, accumulatorWeight, minDist                      *)
ExConvConfigure(type) ==
    IF type = "ExConv7x24" THEN <<2, 7, 24, 15>> ELSE <<2, 21, 24, 20>>

(* What syndromeDecodingConfigure finds in its scaler and minDist.         *)
Scaler(type) ==
    CASE type \in EA -> EAConfigure(type)[1]
      [] type \in ExConv -> ExConvConfigure(type)[1]
      [] OTHER -> 2
MinDist(type) ==
    CASE type \in EA -> EAConfigure(type)[3]
      [] type \in ExConv -> ExConvConfigure(type)[4]
      [] OTHER -> 20

(* floor(-128 / log2(1 - 2 d)) *)
LinearTestWeight(d) ==
    CASE d = 5 -> 842 [] d = 10 -> 397 [] d = 15 -> 248 [] d = 20 -> 173

RegNoiseWeightExact(d, size) ==
    Max({40, LinearTestWeight(d)} \cup IF size < 512 THEN {64} ELSE {})
getRegNoiseWeight(d, size) ==
    RoundUpTo(Max({40, LinearTestWeight(d)} \cup IF size < 512 THEN {64} ELSE {}), 8)

(* Tungsten rounds the request up before it is scaled.                     *)
Request(type, n) == IF type = "Tungsten" THEN RoundUpTo(n, ParGroup) ELSE n

SizePer(size, parts) == Max({4, RoundUpTo(DivCeil(size, parts), 2)})

---------------------------------------------------------------------------
NoEncoder == [message |-> 0, code |-> 0, expander |-> 0, accumulator |-> 0]

Init ==
    /\ pc = "new" /\ mMultType = "ExConv7x24" /\ mRequestNumOts = 0
    /\ mNumPartitions = 0 /\ mSizePer = 0 /\ mNoiseVecSize = 0
    /\ encoder = NoEncoder

(* configure, and syndromeDecodingConfigure in it.                         *)
Configure(type, n) ==
    LET size == Request(type, n) * Scaler(type)
        parts == getRegNoiseWeight(MinDist(type), size)
    IN /\ mMultType' = type
       /\ mRequestNumOts' = n
       /\ mNumPartitions' = parts
       /\ mSizePer' = SizePer(size, parts)
       /\ mNoiseVecSize' = SizePer(size, parts) * parts
       /\ encoder' = NoEncoder
       /\ pc' = "configured"

EncoderMessageUnrounded(type, n) == n
(* The message size compress asks of its encoder.                          *)
EncoderMessage(type, n) == IF type = "Tungsten" THEN RoundUpTo(n, ParGroup) ELSE n

(* compress: the encoder's config and its dualEncode of the noise vector.  *)
Compress ==
    /\ pc = "configured"
    /\ encoder' =
        [message     |-> EncoderMessage(mMultType, mRequestNumOts),
         code        |-> mNoiseVecSize,
         expander    |-> CASE mMultType \in EA -> EAConfigure(mMultType)[2]
                           [] mMultType \in ExConv -> ExConvConfigure(mMultType)[2]
                           [] OTHER -> 0,
         accumulator |-> IF mMultType \in ExConv THEN ExConvConfigure(mMultType)[3] ELSE 0]
    /\ pc' = "compressed"
    /\ UNCHANGED <<mMultType, mRequestNumOts, mNumPartitions, mSizePer, mNoiseVecSize>>

Next ==
    \/ \E type \in MultType, n \in Requests : Configure(type, n)
    \/ Compress

Spec == Init /\ [][Next]_vars

---------------------------------------------------------------------------
(* The PPRF accepts what configure computes for any request: an even domain *)
(* of depth two or more, groups of ParGroup trees for the interleaved       *)
(* output; and its leaves are at least scaler per requested OT.            *)
PprfAccepts ==
    pc # "new" =>
        /\ mSizePer % 2 = 0 /\ mSizePer >= 4
        /\ mNumPartitions % ParGroup = 0
        /\ mNoiseVecSize = mSizePer * mNumPartitions
        /\ mNoiseVecSize >= Request(mMultType, mRequestNumOts) * Scaler(mMultType)

(* The encoder accepts its sizes, however small the request: the message    *)
(* covers it, the rows of the parity part are more than one reaches          *)
(* (ExConvCode's unsigned size - 1 - mAccumulatorSize does not wrap, and no  *)
(* row comes around to itself), and Tungsten gets whole chunks, no more of   *)
(* them for the message than for the parity part.                          *)
EncoderFits ==
    pc = "compressed" =>
        /\ encoder.message >= mRequestNumOts
        /\ encoder.code - encoder.message > encoder.accumulator + 1
        /\ mMultType = "Tungsten" =>
              /\ encoder.message % ParGroup = 0 /\ (encoder.code - encoder.message) % ParGroup = 0
              /\ encoder.message <= encoder.code - encoder.message

(* MultType names each expand-accumulate code by the row weight of its      *)
(* expander, and declares EAConfigure to return that weight after the       *)
(* scaler: the encoder is the one that was asked for.                      *)
WeightAsNamed ==
    (pc = "compressed" /\ mMultType \in EA) => encoder.expander = EAWeight(mMultType)
===========================================================================
