--------------------------- MODULE MCExtensions ---------------------------
(* The OT extensions that have no run of their own, the base OTs and a        *)
(* checked OOS extension streamed in several steps, over small instances:   *)
(* part is the protocol the two parties run.                               *)
EXTENDS SoftSpokenOt

VARIABLES
    part,
    choices, rPc, rFlip, rBlk, rRound, rT0, rT1, rW, rIdx, rStep, rTBuff, rWBuff, out,  \* of OosNcoOt
    sPc, sDelta, sBlk, sRound, sT, sCor, sIdx, sStep, sSeed, sQ, sErr,
    toS, toR, closed, tampered

---------------------------------------------------------------------------
(* SoftSpoken: chunks of two blocks, two chunks per message.               *)

SoftExt(obj, n) == [op |-> "ext", obj |-> obj, n |-> n]
SoftBase == [op |-> "base", obj |-> 1, n |-> 0]
SoftSplit == [op |-> "split", obj |-> 1, n |-> 0]
SoftTwice == <<SoftBase, SoftExt(1, 3), SoftExt(1, 8)>>
SoftSplits == <<SoftExt(1, 3), SoftSplit, SoftExt(2, 2), SoftExt(1, 3), SoftSplit, SoftExt(3, 1), SoftExt(1, 1)>>
SoftSplitSoon == <<SoftExt(1, 1), SoftSplit, SoftExt(2, 2)>>
SoftSplitFirst == <<SoftSplit, SoftExt(2, 1), SoftExt(1, 2)>>
SoftConf(fieldBits, delta, pad, mal, rnd, wrong, bad, script) ==
    [fieldBits |-> fieldBits, delta |-> delta, pad |-> pad, malicious |-> mal, random |-> rnd,
     wrong |-> wrong, badLeaf |-> bad, script |-> script]
(* Two VOLEs over GF(2) and GF(4), one over GF(16); then receivers with      *)
(* choices that differ between VOLEs, and leaves that the sender gets wrong. *)
SoftInstances ==
    { SoftConf(1, <<1, 0>>, pad, mal, rnd, {}, {}, s) :
        pad \in 0..1, mal \in BOOLEAN, rnd \in BOOLEAN, s \in {SoftTwice, SoftSplits} }
    \cup { SoftConf(2, <<2, 1>>, 1, mal, TRUE, {}, {}, s) :
             mal \in BOOLEAN, s \in {<<SoftExt(1, 5)>>, SoftSplitFirst, SoftSplitSoon} }
    \cup { SoftConf(4, <<9>>, 0, mal, TRUE, {}, {}, <<SoftExt(1, 5)>>) : mal \in BOOLEAN }
    \cup { SoftConf(2, delta, 0, TRUE, TRUE, w, {}, <<SoftExt(1, 3), SoftExt(1, 1)>>) :
             w \in {{<<1, 0>>}, {<<1, 1>>}, {<<2, 0>>, <<1, 1>>}}, delta \in {<<2, 0>>, <<2, 1>>} }
    \cup { SoftConf(2, <<2, 0>>, 0, TRUE, FALSE, {}, b, <<SoftExt(1, 3), SoftExt(1, 1)>>) :
             b \in {{<<0, 0>>}, {<<0, 2>>}, {<<0, 2>>, <<1, 3>>}} }

(* New base OTs for objects that have expanded theirs.                     *)
SoftRebase == { SoftConf(1, <<1, 0>>, 0, mal, TRUE, {}, {}, <<SoftExt(1, 2), SoftBase, SoftExt(1, 2)>>) : mal \in BOOLEAN }

(* SmallFieldVole against its definition, for every field and delta up to    *)
(* the sizes at which its tree has three levels of super blocks.           *)
Block(i, x) == {<<i, x>>}
Blocks(fb, n) == [i \in 0..(VolesPadded(fb, n) - 1) |-> [x \in 0..(2^fb - 1) |-> Block(i, x)]]
ASSUME SenderSumsSeeds ==
    \A fb \in 1..7, n \in 1..5 :
        LET r == Blocks(fb, n) g == SenderGenerate(fb, n, r) IN
        \A i \in 0..(n - 1) :
            /\ g[i].u = SumOver(0..(2^fb - 1), r[i])
            /\ \A b \in 0..(fb - 1) : g[i].v[b] = SumOver(WithBit(fb, b), r[i])
ASSUME ReceiverAddsDelta ==
    \A fb \in 1..4, n \in 1..3 : \A delta \in 0..(2^fb - 1) :
        LET known == [i \in 0..(n - 1) |-> Reorder(Blocks(fb, n)[i], fb, delta)]
            c == [i \in 0..(n - 1) |-> Block(9, i)]
            w == ReceiverGenerate(fb, n, known, [i \in 0..(n - 1) |-> delta], c)
            v == SenderGenerate(fb, n, Blocks(fb, n))
        IN \A i \in 0..(n - 1), b \in 0..(fb - 1) :
              w[i][b] = Xor(v[i].v[b], BitTimes(BitAt(delta, b) = 1, Xor(c[i], v[i].u)))

---------------------------------------------------------------------------
(* KosDot: two columns, calls on either side of a super block's end, with   *)
(* messages the sender's caller zeroed or not.                             *)

DotChoices(n) == [i \in 1..n |-> ((i * (i + 1)) \div 2) % 2]
DotExtInto(obj, n, zeroed) == [op |-> "ext", obj |-> obj, choices |-> DotChoices(n), zeroed |-> zeroed]
DotExt(obj, n) == DotExtInto(obj, n, TRUE)
DotDo(op) == [op |-> op, obj |-> 1]
DotLong ==
    <<DotDo("base"), DotExt(1, 2), DotDo("base"), DotDo("split"), DotExt(1, 1), DotDo("delta"),
      DotExt(1, 1), DotExt(2, 1), DotDo("split"), DotDo("split"), DotExt(1, 2), DotExt(3, 1)>>
DotConf(cols, wrong, lies, script) ==
    [choices |-> cols, wrong |-> wrong, lies |-> lies, script |-> script]
DotConfs ==
    { DotConf(c, {}, FALSE, s) :
        c \in {{1}, {1, 2}}, s \in {<<DotExt(1, n)>> : n \in {1, 3, 4, 5}} \cup {DotLong} }
    \cup { DotConf({1}, {}, FALSE, <<DotExtInto(1, n, FALSE), DotExt(1, 1)>>) : n \in {3, 4, 5, 9} }
    \cup { DotConf({1}, w, lies, <<DotExt(1, n), DotExt(1, 1)>>) :
             w \in {{}} \cup { {<<row, 1>>} : row \in {0, 3, 4, 5} } \cup {{<<0, 2>>}},
             lies \in BOOLEAN, n \in {2, 3} }

Dot == INSTANCE KosDotOt WITH
    DotCols <- {1, 2}, DotBlk <- 2, DotSuper <- 2, DotStep <- 2, PrngBuffer <- 2

---------------------------------------------------------------------------
(* KKRT: two columns, three words, rows and super blocks of two.           *)

KkrtOp(op, obj, n) == [op |-> op, obj |-> obj, n |-> n]
KInit(obj, n) == KkrtOp("init", obj, n)
KBase == KkrtOp("base", 1, 0)
KSplit == KkrtOp("split", 1, 0)
KEnc(obj, i, w) == [op |-> "encode", obj |-> obj, row |-> i, word |-> w]
KZero(obj, i) == [op |-> "zero", obj |-> obj, row |-> i]
KCor(obj, n) == KkrtOp("correct", obj, n)
KChosen(obj, ws) == [op |-> "chosen", obj |-> obj, n |-> Len(ws), words |-> ws]
KkrtScripts ==
    { <<KInit(1, 3), KEnc(1, 1, 1), KEnc(1, 0, 0), KCor(1, 2), KZero(1, 2), KCor(1, 1),
        KInit(1, 2), KEnc(1, 0, 1), KEnc(1, 1, 1), KCor(1, 2)>>,
      <<KBase, KInit(1, 1), KEnc(1, 0, 1), KCor(1, 1), KSplit, KInit(2, 2), KEnc(2, 0, 0),
        KInit(1, 1), KEnc(2, 1, 1), KCor(2, 2), KEnc(1, 0, 0), KCor(1, 1)>>,
      <<KBase, KChosen(1, <<1, 0, 1, 2, 0>>), KBase, KChosen(1, <<1>>)>>,
      <<KInit(1, 5), KEnc(1, 0, 0), KEnc(1, 1, 1), KEnc(1, 2, 2), KEnc(1, 3, 1), KEnc(1, 4, 0),
        KCor(1, 1), KCor(1, 3), KCor(1, 1), KSplit, KChosen(2, <<2, 2>>), KChosen(1, <<0, 1>>)>>,
      <<KSplit, KInit(2, 1), KEnc(2, 0, 2), KCor(2, 1), KChosen(1, <<1>>)>> }
KkrtConfs == { [choices |-> c, script |-> s] : c \in {{1}, {2}, {1, 2}}, s \in KkrtScripts }

Kkrt == INSTANCE KkrtNcoOt WITH
    KkrtCols <- {1, 2}, KkrtWords <- {0, 1, 2}, RowBlk <- 2, SuperBlk <- 2

---------------------------------------------------------------------------
(* The base OTs: one to five OTs in groups of two, every popf, and          *)
(* SimplestOT with every choice of mUniformOTs and a sender that lies.      *)

BaseConf(proto, popf, bits, uniform, lies) ==
    [proto |-> proto, popf |-> popf, choices |-> bits, curve |-> <<1, 0, 1, 0, 1>>,
     uniform |-> uniform, lies |-> lies]
BaseChoices == {<<0>>, <<1, 0, 1>>, <<0, 1, 1, 0, 1>>}
BothUniform == <<TRUE, TRUE>>
BaseConfs ==
    { BaseConf(p, "none", ch, BothUniform, FALSE) :
        p \in {"simplest", "asm", "masnyRindal", "kyber", "mock"}, ch \in BaseChoices }
    \cup { BaseConf("simplest", "none", ch, <<a, b>>, lies) :
             ch \in BaseChoices, a \in BOOLEAN, b \in BOOLEAN, lies \in BOOLEAN }
    \cup { BaseConf("mcRosRoy", k, ch, BothUniform, FALSE) : k \in {"rist", "ristMul"}, ch \in BaseChoices }
    \cup { BaseConf("twist", k, ch, BothUniform, FALSE) :
             k \in {"feistel", "feistelMul", "eke", "mr"}, ch \in BaseChoices }

Base == INSTANCE BaseOt WITH MrStep <- 2, AsmStep <- 2

---------------------------------------------------------------------------
(* OOS: three OTs streamed in steps of two and one, the check over no row,   *)
(* the first or all, and one correction bit that is not an honest one.      *)

OosSeeds == {"none", "first", "all"}
Oos == INSTANCE OosNcoOt WITH
    Cols <- {1, 2}, Bits <- {1}, Gen <- [b \in {1} |-> {1, 2}], N <- 3, Bound <- <<2, 3>>, Stat <- 1,
    Malicious <- TRUE, RowBlk <- 1, SuperBlk <- 2, Seeds <- OosSeeds,
    Chi <- [seed \in OosSeeds |-> [l \in 0..0 |->
              IF seed = "none" THEN {} ELSE IF seed = "first" THEN {0} ELSE 0..2]],
    MaxRound <- 1, MaxTamper <- 1

oosVars == <<choices, rPc, rFlip, rBlk, rRound, rT0, rT1, rW, rIdx, rStep, rTBuff, rWBuff, out,
             sPc, sDelta, sBlk, sRound, sT, sCor, sIdx, sStep, sSeed, sQ, sErr,
             toS, toR, closed, tampered>>
NoOos ==
    /\ choices = 0 /\ rPc = 0 /\ rFlip = 0 /\ rBlk = 0 /\ rRound = 0 /\ rT0 = 0 /\ rT1 = 0
    /\ rW = 0 /\ rIdx = 0 /\ rStep = 0 /\ rTBuff = 0 /\ rWBuff = 0 /\ out = 0
    /\ sPc = 0 /\ sDelta = 0 /\ sBlk = 0 /\ sRound = 0 /\ sT = 0 /\ sCor = 0 /\ sIdx = 0
    /\ sStep = 0 /\ sSeed = 0 /\ sQ = 0 /\ sErr = 0
    /\ toS = 0 /\ toR = 0 /\ closed = 0 /\ tampered = 0

---------------------------------------------------------------------------
ASSUME ExtensionsAssumption ==
    SoftAssumption /\ Oos!OosAssumption /\ Dot!DotAssumption /\ Kkrt!KkrtAssumption /\ Base!BaseAssumption

Init ==
    \/ part = "softspoken" /\ SoftInit /\ NoOos
    \/ part = "kosdot" /\ Dot!DotInit /\ NoOos
    \/ part = "kkrt" /\ Kkrt!KkrtInit /\ NoOos
    \/ part = "base" /\ Base!BaseInit /\ NoOos
    \/ part = "oos" /\ Oos!Init /\ conf = << >> /\ party = << >> /\ net = << >>

Protocol(p) == part = p /\ UNCHANGED part /\ UNCHANGED oosVars

SoftStep == Protocol("softspoken") /\ SoftNext
DotStep == Protocol("kosdot") /\ Dot!DotNext
KkrtStep == Protocol("kkrt") /\ Kkrt!KkrtNext
BaseStep == Protocol("base") /\ Base!BaseNext
OosStep == part = "oos" /\ Oos!Next /\ UNCHANGED part /\ UNCHANGED vars

Next == SoftStep \/ DotStep \/ KkrtStep \/ BaseStep \/ OosStep
allVars == <<vars, part, oosVars>>
Spec == Init /\ [][Next]_allVars

(* The objects of SoftSpoken alone.                                        *)
SoftOnlySpec == part = "softspoken" /\ SoftInit /\ NoOos /\ [][Next]_allVars

---------------------------------------------------------------------------
(* Properties: those of the component that part names.                     *)


(* No block of a PRNG, and no AES block of a SoftSpoken leaf, serves twice   *)
(* for an object and the objects split off it, whatever calls and new base  *)
(* OTs are between the uses.                                               *)
PadsFresh ==
    /\ part = "softspoken" => SoftPadsFresh
    /\ part = "kosdot" => Dot!DotPadsFresh
    /\ part = "kkrt" => Kkrt!KkrtPadsFresh

(* A SoftSpoken call that returned on both sides is an OT: the receiver has  *)
(* the sender's message of its choice, hashed with the same key and tweak.  *)
SoftCorrect == part = "softspoken" => SoftOtCorrect

(* A KosDot call that returned on both sides is a correlated OT with one     *)
(* delta per object, also when its rows end next to a super block.         *)
DotCorrect == part = "kosdot" => Dot!DotOtCorrect

(* The KKRT sender's encoding of a row is the receiver's at its word and     *)
(* differs at all others, though corrections arrive after the next init;    *)
(* and receiveChosen returns the messages of the choices.                   *)
KkrtCorrect == part = "kkrt" => Kkrt!KkrtEncodingsAgree /\ Kkrt!KkrtChosenCorrect

(* A base OT that finished on both sides gives the receiver the message of   *)
(* its choice of every OT, and all messages differ.                        *)
BaseCorrect == part = "base" => Base!BaseOtCorrect

(* OTExtInterface.h has setBaseOts set the base OTs that the next calls use: *)
(* a call after it is an OT, whether or not a call came before.            *)
NewBaseOtsWork == part = "softspoken" => SoftOtCorrect
===========================================================================
