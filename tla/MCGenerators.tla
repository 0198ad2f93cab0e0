---------------------------- MODULE MCGenerators ----------------------------
(* The parts of the pseudorandom correlation generators that have no run of *)
(* their own, over small instances: part is what the behaviour is about.   *)
EXTENDS SilentVole

VARIABLES
    part,
    domain, d, parent, cell,                        \* of PprfBuffers
    pc, mMultType, mRequestNumOts, mNumPartitions,  \* of CodeConfig
    mSizePer, mNoiseVecSize, encoder,
    e, at                                           \* of the encoders

allBuffers == <<domain, d, parent, cell>>
allCode == <<pc, mMultType, mRequestNumOts, mNumPartitions, mSizePer, mNoiseVecSize, encoder>>
allVectors == <<e, at>>

---------------------------------------------------------------------------
(* Silent VOLE: two trees of two leaves; coefficients of two bits; integers  *)
(* modulo four, bits and GF(2^128).                                        *)

MCCode == <<[i \in 1..1 |-> {0, 2, 3}], [i \in 1..2 |-> IF i = 1 THEN {0, 3} ELSE {1, 2, 3}]>>
VConf(n, mal, type) == [op |-> "configure", n |-> n, mal |-> mal, type |-> type, delta |-> 0]
VGen(delta) == [op |-> "gen", delta |-> delta, n |-> 0]
VRun(op, n, delta) == [op |-> op, n |-> n, delta |-> delta]
(* Every way of preparing a run, and what is to be rejected.               *)
VoleScripts ==
    { <<VRun("run", 2, 3)>>, <<VRun("run", 2, 1), VRun("run", 1, 2)>>,
      <<VRun("inplace", 1, 1), VRun("run", 2, 2)>>,
      <<VConf(2, FALSE, "base"), VRun("run", 1, 3)>>,
      <<VConf(2, FALSE, "base"), VGen(3), VRun("run", 2, 3)>>,
      <<VConf(2, FALSE, "base"), VGen(3), VRun("run", 1, 2)>>,
      <<VConf(2, FALSE, "extend"), VGen(3), VConf(1, FALSE, "extend"), VRun("inplace", 1, 2)>>,
      <<VConf(2, FALSE, "extend"), VGen(3), VGen(1), VRun("inplace", 2, 1), VRun("run", 1, 2)>>,
      <<VGen(1)>>, <<VConf(1, FALSE, "base"), VRun("run", 2, 1)>>,
      <<VConf(1, FALSE, "base"), VRun("run", 1, 1), VGen(1)>> }
MaliciousVoleScripts ==
    { <<VConf(2, TRUE, "extend"), VRun("run", 1, 3)>>,
      <<VConf(2, TRUE, "base"), VGen(2), VRun("inplace", 2, 2), VRun("run", 1, 3)>>,
      <<VConf(1, TRUE, "base"), VRun("run", 1, 3), VRun("run", 2, 1)>>,
      <<VConf(1, TRUE, "base"), VGen(2), VRun("run", 1, 3)>> }
VoleConf(ring, debug, points, bad, script) ==
    [ring |-> ring, debug |-> debug, points |-> points, sampled |-> <<1, 2>>, bad |-> bad, script |-> script]
VoleInstances ==
    { VoleConf(ring, debug, pts, {}, s) :
        ring \in {"integer", "gf128", "bit"}, debug \in BOOLEAN, pts \in {<<0, 1>>, <<1, 1>>}, s \in VoleScripts }
    \cup { VoleConf("gf128", debug, pts, {}, s) :
             debug \in BOOLEAN, pts \in {<<0, 1>>, <<1, 0>>}, s \in MaliciousVoleScripts }
    \cup { VoleConf("gf128", debug, <<0, 1>>, {<<call, leaf>>}, s) :
             debug \in BOOLEAN, leaf \in {0, 1}, call \in {2, 3}, s \in MaliciousVoleScripts }
    \cup { VoleConf("integer", FALSE, <<0, 1>>, {}, <<VConf(2, TRUE, type), op, VRun("run", 1, 3)>>) :
             type \in {"extend", "base"}, op \in {VGen(3), VRun("run", 1, 3)} }

---------------------------------------------------------------------------
(* RegularDpf: domains around powers of two, ended between siblings too; two *)
(* calls on one set of base OTs, and more than they are enough for; keys     *)
(* that are dealt, or made by the protocol and expanded later.              *)

RegularConf(n, points, values, script) ==
    [domain |-> n, points |-> points, values |-> values, script |-> script]
RegularConfs ==
    { RegularConf(n, pts, v, s) :
        n \in {2, 3, 4}, pts \in {<<0>>, <<1>>}, v \in BOOLEAN,
        s \in {<<"base", "expand">>, <<"base", "keygen", "open">>} }
    \cup { RegularConf(4, <<3, 0>>, TRUE, <<"base", "expand", "expand">>) }
    \cup { RegularConf(n, <<2>>, TRUE, <<"deal", "open">>) : n \in {3, 4, 5} }
    \cup { RegularConf(n, <<p>>, TRUE, <<"base", "expand">>) : n \in {5, 8}, p \in {0, 3, 4} }

Regular == INSTANCE RegularDpf

(* SparseDpf: from no to all levels dense, so that bins hold no point, one   *)
(* point, and more; two trees with different sets.                         *)
SparseConf(n, dense, points, sets) == [domain |-> n, dense |-> dense, points |-> points, sets |-> sets]
FivePoints == <<0, 1, 3, 6, 7>>
SparseConfs ==
    { SparseConf(8, dense, <<FivePoints[i]>>, <<FivePoints>>) : dense \in 0..3, i \in 1..5 }
    \cup { SparseConf(16, dense, <<FivePoints[i], 9>>, <<FivePoints, <<2, 9, 12>>>>) :
             dense \in 0..2, i \in {1, 4} }
    \cup { SparseConf(8, 0, <<x>>, << <<x, 7>> >>) : x \in 0..6 }

Sparse == INSTANCE SparseDpf

(* TernaryDpf: domains around powers of three, shares of the point on either *)
(* side of it, and an object that is initialised again.                     *)
TernaryConf(n, points, share, values, script) ==
    [domain |-> n, points |-> points, share |-> share, values |-> values, script |-> script]
TernaryOnce == <<"init", "base", "expand">>
TernaryConfs ==
    { TernaryConf(n, <<n - 1>>, <<share>>, v, TernaryOnce) : n \in 1..3, share \in 0..2, v \in BOOLEAN }
    \cup { TernaryConf(5, <<a>>, <<share>>, TRUE, TernaryOnce) : a \in 0..4, share \in {0, 4, 5, 8} }
    \cup { TernaryConf(3, <<0, 2>>, <<1, 2>>, TRUE, TernaryOnce \o TernaryOnce) }
    \cup { TernaryConf(n, <<n - 2>>, <<7>>, TRUE, TernaryOnce) : n \in {9, 12} }

Ternary == INSTANCE TernaryDpf

(* Foleage: base OTs from the application or either way of making them, one  *)
(* extension for two calls; polynomials with one and several blocks, main    *)
(* DPFs with one and several leaves; sizes that init refuses.              *)
OleConf(n, c, t, leaf, script) == [n |-> n, c |-> c, t |-> t, leaf |-> leaf, script |-> script]
OleConfs ==
    { OleConf(9, c, 3, 1, <<"init", "ole">>) : c \in {1, 2} }
    \cup { OleConf(27, 2, 3, 1, <<"init", "base", "triple">>), OleConf(6, 2, 1, 1, <<"init", "gen", "ole">>),
           OleConf(9, 2, 1, 0, <<"init", "extend", "ole", "init", "triple">>),
           OleConf(9, 1, 3, 1, <<"init", "extend", "ole", "ole">>),
           OleConf(3, 2, 3, 1, <<"init", "ole">>), OleConf(27, 2, 2, 1, <<"init", "ole">>),
           OleConf(9, 2, 3, 1, <<"gen">>), OleConf(9, 2, 3, 1, <<"ole">>) }

Ole == INSTANCE Foleage WITH FoleageConfs <- OleConfs

(* Silent OT triples: one and several groups of OTs, calls of both types.    *)
BitConf(n, type, script) == [n |-> n, type |-> type, script |-> script]
BitConfs ==
    { BitConf(1, "triple", <<"init", "ole", "base", "triple">>),
      BitConf(17, "ole", <<"init", "base", "ole">>),
      BitConf(1, "ole", <<"init", "triple">>) }

Bit == INSTANCE SilentOtTriple WITH TripleConfs <- BitConfs

---------------------------------------------------------------------------
(* All even domains up to 70: every remainder around the powers of two.    *)
Domains == { 2 * k : k \in 1..35 }
Buffers == INSTANCE PprfBuffers

(* Requests from the smallest to where a partition outgrows its minimum of  *)
(* four leaves, for every code.                                            *)
Requests == (1..24) \cup {247, 248, 249, 496, 497, 1000, 1024, 4096, 65536, 1048583}
Codes == INSTANCE CodeConfig WITH ParGroup <- 8

---------------------------------------------------------------------------
(* The encoders. EACode and ExConvCode: messages of no, one and several      *)
(* groups of the expander, accumulators within a byte and beyond, buffers    *)
(* of coefficients that run out in the middle of a pass.                    *)
Coder(code, m, n, w, acc, sys, reg) ==
    [code |-> code, message |-> m, n |-> n, weight |-> w, acc |-> acc, systematic |-> sys, regular |-> reg]
CoderInstances ==
    { Coder("EA", m, n, w, 0, FALSE, FALSE) : m \in {1, 3, 4}, n \in {6, 7}, w \in {1, 3} }
    \cup { Coder("ExConv", m, (IF sys THEN m ELSE 0) + size, w, acc, sys, reg) :
             m \in {1, 4, 5}, size \in {5, 7}, w \in {1, 3}, acc \in {2, 3}, sys \in BOOLEAN, reg \in BOOLEAN }
MCCoeff(seed, buffer, n, k) == (3 * seed + 5 * buffer + 2 * n + k) % 4 \in {0, 1}
MCRaw(gen, n) == IF gen = "uni" THEN 7 * n + n * n ELSE 5 * n + 3

Coders == INSTANCE ExpandAccumulate
            WITH CoderConfs <- CoderInstances, Group <- 2, BufferBytes <- 4, ByteBits <- 2,
                 Coeff <- MCCoeff, Raw <- MCRaw

(* Tungsten: two chunks per table as there are 128; sizes below, at and       *)
(* above that of the table and of two tables, the message up to the parity.  *)
MCTable ==
    [j \in 1..8 |-> CASE j % 3 = 0 -> <<2, 3, 4, 6>> [] j % 3 = 1 -> <<2, 4, 5, 6>> [] OTHER -> <<1, 3, 5, 6>>]
Rotations(n) == { [m \in 0..(n - 1) |-> (a * m + b) % n] : a \in {1, n - 1}, b \in {0, 1} }
TungstenInstances ==
    UNION { { [message |-> 4 * m, n |-> 4 * (m + chunks), perm |-> perm] :
                perm \in Rotations(chunks), m \in {1, chunks} } : chunks \in 1..7 }

Tungstens == INSTANCE Tungsten
               WITH TungstenConfs <- TungstenInstances, ChunkSize <- 4, Table <- MCTable,
                    TableMax <- 6, NumIter <- 2

(* QuasiCyclicCode: moduli below, at and above the size of a block, so that   *)
(* segments begin in either word of a block, and at its start.              *)
QuasiInstances ==
    { c \in { [message |-> m, n |-> m + rest, p |-> p] : m \in {2, 3, 5, 7}, p \in {3, 5, 7, 11}, rest \in {2, 7, 12} } :
        c.p >= c.message }
MCPublic(s, k) == (3 * s * s + 5 * k * k + k) % 7 \in {0, 1, 4}

Quasi == INSTANCE QuasiCyclic
           WITH QuasiConfs <- QuasiInstances, WordBits <- 2, ByteBits <- 2, Public <- MCPublic

---------------------------------------------------------------------------
(* LinearCode: bytes of three bits, plaintexts of one byte, of whole and not  *)
(* whole bytes, up to the limit and beyond; code words of every width that   *)
(* encode treats on its own, and the shape of the BCH code.                  *)
LinearCoder(bits, blocks, f) ==
    [bits |-> bits, blocks |-> blocks,
     plaintext |-> [i \in 0..((bits - 1) \div 3) |-> (f * i + i * i + f) % 8]]
LinearInstances ==
    { LinearCoder(bits, blocks, 7) : bits \in {1, 8, 25}, blocks \in {1, 2, 3, 5, 8, 9} }
    \cup { LinearCoder(bits, blocks, 5) : bits \in {28, 30}, blocks \in {3, 4} }
    \cup { LinearCoder(49, 1, 1) }
MCShl1 == [g \in 0..3 |-> 2^g]

Linear == INSTANCE LinearCode
            WITH LinearConfs <- LinearInstances, ByteBits <- 3, MaxBytes <- 16, BchBytes <- 10,
                 Shl1 <- MCShl1, Junk <- {1, 6}

(* The transposes: bytes of two bits and sides of 32, one square and two; and *)
(* matrices with and without whole squares, chunks and bytes, into outputs    *)
(* that are as large, larger, smaller, and too small.                        *)
Square128(call, copies) == [call |-> call, copies |-> copies]
Into(call, r, s, o, os) == [call |-> call, rows |-> r, stride |-> s, outRows |-> o, outStride |-> os]
TransposeInstances ==
    { Square128(call, n) : call \in {"eklundh", "sse", "avx"}, n \in {1, 2} }
    \cup { Into(call, r, s, o, os) :
             call \in {"sseInto", "avxInto"}, r \in {1, 4, 6, 7, 21}, s \in {3, 9}, o \in {1, 5, 12, 18}, os \in {4, 11} }
    \cup { Into(call, r, 35, o, 32) : call \in {"sseInto", "avxInto"}, r \in {37, 64}, o \in {32, 67} }

Transposes == INSTANCE Transpose
                WITH TransposeConfs <- TransposeInstances, ByteBits <- 2, LogSide <- 5,
                     BaseShift <- 3, GroupRows <- 16, ChunkSize <- 2

---------------------------------------------------------------------------
ASSUME GeneratorsAssumption ==
    /\ SilentVoleAssumption /\ Regular!RegularAssumption /\ Sparse!SparseAssumption
    /\ Ternary!TernaryAssumption /\ Ole!FoleageAssumption
    /\ Bit!TripleAssumption /\ Buffers!DomainsAssumption /\ Codes!CodeConfigAssumption
    /\ Coders!CoderAssumption /\ Tungstens!TungstenAssumption /\ Quasi!QuasiAssumption
    /\ Linear!LinearAssumption /\ Transposes!TransposeAssumption

NoSockets == party = << >> /\ net = << >>
NoParties == conf = << >> /\ NoSockets
NoVectors == e = << >> /\ at = << >>
NoBuffers == domain = 2 /\ d = 0 /\ parent = 0 /\ cell = << >>
NoCode ==
    /\ pc = "none" /\ mMultType = "none" /\ mRequestNumOts = 0 /\ mNumPartitions = 0
    /\ mSizePer = 0 /\ mNoiseVecSize = 0 /\ encoder = << >>

Init ==
    \/ part = "vole" /\ VoleInit /\ NoBuffers /\ NoCode /\ NoVectors
    \/ part = "regular" /\ Regular!RegularInit /\ NoBuffers /\ NoCode /\ NoVectors
    \/ part = "sparse" /\ Sparse!SparseInit /\ NoBuffers /\ NoCode /\ NoVectors
    \/ part = "ternary" /\ Ternary!TernaryInit /\ NoBuffers /\ NoCode /\ NoVectors
    \/ part = "ole" /\ Ole!FoleageInit /\ NoBuffers /\ NoCode /\ NoVectors
    \/ part = "bit" /\ Bit!TripleInit /\ NoBuffers /\ NoCode /\ NoVectors
    \/ part = "buffers" /\ Buffers!Init /\ NoParties /\ NoCode /\ NoVectors
    \/ part = "code" /\ Codes!Init /\ NoParties /\ NoBuffers /\ NoVectors
    \/ part = "coder" /\ Coders!CoderInit /\ NoSockets /\ NoBuffers /\ NoCode
    \/ part = "tungsten" /\ Tungstens!TungstenInit /\ NoSockets /\ NoBuffers /\ NoCode
    \/ part = "quasi" /\ Quasi!QuasiInit /\ NoSockets /\ NoBuffers /\ NoCode
    \/ part = "linear" /\ Linear!LinearInit /\ NoSockets /\ NoBuffers /\ NoCode
    \/ part = "transpose" /\ Transposes!TransposeInit /\ NoSockets /\ NoBuffers /\ NoCode

Only(p) == part = p /\ UNCHANGED part
Protocol(p) == Only(p) /\ UNCHANGED <<allBuffers, allCode, allVectors>>
Encoder(p) == Only(p) /\ UNCHANGED <<party, net, allBuffers, allCode>>

VoleStep == Protocol("vole") /\ VoleNext
RegularStep == Protocol("regular") /\ Regular!RegularNext
SparseStep == Protocol("sparse") /\ Sparse!SparseNext
TernaryStep == Protocol("ternary") /\ Ternary!TernaryNext
OleStep == Protocol("ole") /\ Ole!FoleageNext
BitStep == Protocol("bit") /\ Bit!TripleNext
BuffersStep == Only("buffers") /\ Buffers!Next /\ UNCHANGED <<vars, allCode, allVectors>>
CodeStep == Only("code") /\ Codes!Next /\ UNCHANGED <<vars, allBuffers, allVectors>>
CoderStep == Encoder("coder") /\ Coders!CoderNext
TungstenStep == Encoder("tungsten") /\ Tungstens!TungstenNext
QuasiStep == Encoder("quasi") /\ Quasi!QuasiNext
LinearStep == Encoder("linear") /\ Linear!LinearNext
TransposeStep == Encoder("transpose") /\ Transposes!TransposeNext

Next == VoleStep \/ RegularStep \/ SparseStep \/ TernaryStep \/ OleStep \/ BitStep
        \/ BuffersStep \/ CodeStep \/ CoderStep \/ TungstenStep \/ QuasiStep
        \/ LinearStep \/ TransposeStep
allVars == <<vars, part, allBuffers, allCode, allVectors>>
Spec == Init /\ [][Next]_allVars

---------------------------------------------------------------------------
(* Properties: those of the component that part names.                     *)

(* The parties of a DPF stay in step: the parts of a RegularDpf key that      *)
(* both hold are equal, and its products run out of base OTs on both sides;  *)
(* a SparseDpf node waits for the level of its parent's correction; what    *)
(* waits on a TernaryDpf socket is what the coroutine that reads it expects. *)
DpfsInStep ==
    /\ part = "regular" => Regular!RegularTypeOK /\ Regular!KeysAgree /\ Regular!OtsSuffice
    /\ part = "sparse" => Sparse!NodesInOrder
    /\ part = "ternary" => Ternary!SocketsKeptApart

(* The outputs of each DPF are shares of the point function: RegularDpf's    *)
(* from the protocol and from a dealt key, SparseDpf's on the set, but for    *)
(* the value of a point alone in its dense bin, TernaryDpf's for every        *)
(* sharing of the point; wherever the domain ends.                          *)
DpfPointFunctions ==
    /\ part = "regular" => Regular!PointFunction
    /\ part = "sparse" => Sparse!SparseIndicator /\ Sparse!SparseValue
    /\ part = "ternary" => Ternary!TernaryPointFunction

(* A silent VOLE call that both sides return from satisfies a = b + c delta  *)
(* element for element, whatever calls came before.                        *)
VoleOutput == part = "vole" => VoleCorrect

(* No silent VOLE output of a corrupted expansion under malicious security   *)
(* or debug, and no failure of honest parties.                             *)
VoleChecks == part = "vole" => VoleChecksExact

(* F4 OLEs, and the binary triples of both protocols, hold at every           *)
(* position, and the parties of a call ask each other for the same OTs.     *)
TriplesCorrect ==
    /\ part = "ole" => Ole!OlesCorrect /\ Ole!PartiesAgree
    /\ part = "bit" => Bit!BitTriplesCorrect

(* Expanding a PPRF tree in two alternating buffers never overwrites a node  *)
(* that is still to be read nor leaves the span of a level.                *)
BuffersSafe == part = "buffers" => Buffers!ParentsIntact /\ Buffers!WritesInSpan

(* Whatever is requested, configure computes sizes that the PPRF and the    *)
(* encoder accept.                                                         *)
CodeFits == part = "code" => Codes!PprfAccepts /\ Codes!EncoderFits

(* The encoders multiply with one and the same matrix whichever vector of a  *)
(* pair they are given, working in place and in streams: EACode, ExConvCode  *)
(* and the expander with that of their rows, QuasiCyclicCode with that of    *)
(* the products modulo x^p - 1, LinearCode with its generator whichever of    *)
(* its loops runs; and the transposes between them move every bit to its      *)
(* mirror image and write nothing else.                                     *)
EncodersExact ==
    /\ part = "coder" => Coders!CodedExactly
    /\ part = "quasi" => Quasi!ReducedExactly
    /\ part = "linear" => Linear!CodeWordExact
    /\ part = "transpose" => Transposes!TransposeExact

(* TungstenCode hands every chunk over after the last row that reaches it.   *)
TungstenExact == part = "tungsten" => Tungstens!EagerIsLazy

---------------------------------------------------------------------------
(* What the code says of itself and does not keep: see the findings.       *)

(* SparseDpf_Proto_Test (Dpf_Tests.cpp) compares the sum of the outputs at  *)
(* the point with the value, whatever the set.                             *)
SparseValueAnySet == part = "sparse" => Sparse!SparseValueAlways

(* MultType names each expand-accumulate code by the row weight of its      *)
(* expander: the encoder that compress configures has that weight.          *)
CodeWeightAsNamed == part = "code" => Codes!WeightAsNamed
===========================================================================
