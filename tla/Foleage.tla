------------------------------ MODULE Foleage ------------------------------
(***************************************************************************)
(* FoleageTriple: OLEs over F4, and from them binary Beaver triples, as the *)
(* product of sparse polynomials whose coefficients are multiplied with     *)
(* OTs (tensor) and put in place by two ternary DPFs: a leaf DPF that makes *)
(* vectors of coefficients and a main DPF that places the vectors.         *)
(*                                                                         *)
(* The DPFs are what TernaryDpf shows of them, shares of a point function,   *)
(* and the OTs and OT extensions what their modules show. F4 and random     *)
(* values are concrete.                                                    *)
(***************************************************************************)
EXTENDS TwoParty, FiniteSets

CONSTANT FoleageConfs

(* n OLEs from c polynomials of t blocks; leaf bounds the depth of the leaf  *)
(* DPF, 5 in the code; script is what the applications do: "init", "base",   *)
(* "gen" (base OTs), "extend" (OT extension), "ole" and "triple".          *)
FoleageAssumption ==
    \A x \in FoleageConfs : x.n \in Nat /\ x.c \in 1..4 /\ x.t \in Nat \ {0} /\ x.leaf \in Nat

---------------------------------------------------------------------------
(* F4 as two bits, digit vectors over F3 as integers. *)

F4 == 0..3
F4Add(a, b) == 2 * ((a \div 2 + b \div 2) % 2) + ((a + b) % 2)
F4Multiply(a, b) ==
    LET ah == a \div 2 al == a % 2 bh == b \div 2 bl == b % 2 IN
    2 * ((ah * bh + ah * bl + al * bh) % 2) + ((al * bl + ah * bh) % 2)
Alpha == 2
Parity(S) == Cardinality(S) % 2
F4Sum(f) == 2 * Parity({ x \in DOMAIN f : f[x] >= 2 }) + Parity({ x \in DOMAIN f : f[x] % 2 = 1 })
F4VecAdd(f, g) == [x \in DOMAIN f |-> F4Add(f[x], g[x])]

RECURSIVE F3Add(_, _)
F3Add(a, b) == IF a = 0 /\ b = 0 THEN 0 ELSE 3 * F3Add(a \div 3, b \div 3) + (((a % 3) + (b % 3)) % 3)
Lower(x, digits) == x % 3^digits
Upper(x, digits) == x \div 3^digits
Log3Ceil(x) == CHOOSE i \in 0..x : 3^i >= x /\ \A j \in 0..(i - 1) : 3^j < x

(* The values of a polynomial in vars variables, of degree two in each, at   *)
(* the powers of alpha: the last variable is the most significant digit.    *)
RECURSIVE Fft(_, _)
Fft(v, vars3) ==
    LET third == 3^(vars3 - 1)
        part(k) == [i \in 0..(third - 1) |-> v[k * third + i]]
        done(k) == IF vars3 > 1 THEN Fft(part(k), vars3 - 1) ELSE part(k)
        l == done(0)
        m == done(1)
        r == done(2)
        mult == [i \in 0..(third - 1) |-> F4Multiply(Alpha, F4Add(m[i], r[i]))]
    IN [i \in 0..(3 * third - 1) |->
          LET j == i % third IN
          IF i < third THEN F4Add(l[j], F4Add(m[j], r[j]))
          ELSE IF i < 2 * third THEN F4Add(F4Add(l[j], r[j]), mult[j])
          ELSE F4Add(F4Add(l[j], m[j]), mult[j])]

(* Random values.                                                          *)
Random(tag, a, b, d) == (((tag + 3) * (a * a + 5 * a + 2) + (b * b + 7) * (2 * d + tag + 1) + (a + b) * (d + 3)) \div 3) % 4

---------------------------------------------------------------------------
(* init: the sizes. *)

mT == conf.t
mC == conf.c
mLog3N == Log3Ceil(conf.n)
mN == 3^mLog3N
mBlockSize == mN \div mT
mBlockDepth == mLog3N - Log3Ceil(mT)
mDpfLeafDepth == IF conf.leaf < mBlockDepth THEN conf.leaf ELSE mBlockDepth
mDpfLeafSize == 3^mDpfLeafDepth
mDpfTreeDepth == mBlockDepth - mDpfLeafDepth
mDpfTreeSize == 3^mDpfTreeDepth
InitThrows == mT # 3^Log3Ceil(mT) \/ mBlockSize < 2

Coeffs == 0..(mC * mT - 1)
Trees == 0..(mC * mC * mT * mT - 1)
Index == 0..(mN - 1)

DpfOts == 2 * (mDpfLeafDepth + mDpfTreeDepth) * Cardinality(Trees)
SendCount(p) == DpfOts + IF p = 1 THEN 2 * mC * mT ELSE 0
RecvCount(p) == DpfOts + IF p = 0 THEN 2 * mC * mT ELSE 0

(* sampleA: the public polynomials, the first one constant, and their       *)
(* products, in point-value form.                                          *)
mFftA(j, i) == IF j = 0 THEN 1 ELSE Random(1, j, i, i)
mFftASquared(q, i) == F4Multiply(mFftA(q \div mC, i), mFftA(q % mC, i))

---------------------------------------------------------------------------
(* setBaseOts: the DPFs take their OTs, the rest are for tensor. They are    *)
(* put after those that are there, and the choices replaced.               *)

OtBatch(b) == [i \in 1..(2 * mC * mT) |-> <<b, i - 1>>]
WithBaseOts(p, st, b) ==
    IF p = 1 THEN [st EXCEPT !.sendOts = @ \o OtBatch(b), !.dpfOts = b]
    ELSE [st EXCEPT !.recvOts = @ \o OtBatch(b), !.choiceOts = OtBatch(b), !.dpfOts = b]
HasBaseOts(st) == Len(st.sendOts) + Len(st.recvOts) > 0

OtMessage(ot, bit) == [k \in Coeffs |-> Random(2 + bit, ot[1], ot[2], k)]
OtChoice(ot) == Random(4, ot[1], ot[2], ot[2]) % 2
OtReceived(ot) == OtMessage(ot, OtChoice(ot))

---------------------------------------------------------------------------
(* tensor: party 1's coefficients are the difference of the first OT, and    *)
(* party 0's are its choice bits; the other OTs are corrected to have the    *)
(* same difference, times alpha for the upper bit of a coefficient.        *)

FirstDiff(st) == F4VecAdd(OtMessage(st.sendOts[1], 0), OtMessage(st.sendOts[1], 1))
TimesBit(v, upper) == IF upper = 1 THEN [k \in DOMAIN v |-> F4Multiply(Alpha, v[k])] ELSE v
TensorBuffer(st) ==
    [i \in 1..(2 * mC * mT - 1) |->
        F4VecAdd(F4VecAdd(OtMessage(st.sendOts[i + 1], 0), OtMessage(st.sendOts[i + 1], 1)),
                 TimesBit(FirstDiff(st), i % 2))]
SenderProduct(st) ==
    [x \in Coeffs |-> F4VecAdd(OtMessage(st.sendOts[2 * x + 1], 0), OtMessage(st.sendOts[2 * x + 2], 0))]

ChosenCoeff(st, x) == OtChoice(st.choiceOts[2 * x + 1]) + 2 * OtChoice(st.choiceOts[2 * x + 2])
RecvMask(st, buffer, i) ==
    IF i > 0 /\ OtChoice(st.choiceOts[i + 1]) = 1 THEN F4VecAdd(OtReceived(st.recvOts[i + 1]), buffer[i])
    ELSE OtReceived(st.recvOts[i + 1])
RecvProduct(st, buffer) ==
    [x \in Coeffs |-> F4VecAdd(RecvMask(st, buffer, 2 * x), RecvMask(st, buffer, 2 * x + 1))]

---------------------------------------------------------------------------
(* expand: the sparse polynomials and their product. *)

Position(p, call, j, i) == Random(5 + p, call + j, i, j) % mBlockSize
SparsePoly(p, st, j) ==
    [x \in Index |->
        LET i == x \div mBlockSize IN
        IF x % mBlockSize = Position(p, st.call, j, i) THEN st.coeffs[j * mT + i] ELSE 0]
OutputA(p, st) ==
    LET fft == [j \in 0..(mC - 1) |-> Fft(SparsePoly(p, st, j), mLog3N)] IN
    [i \in Index |-> F4Sum([j \in 0..(mC - 1) |-> F4Multiply(mFftA(j, i), fft[j][i])])]

(* The products of block jA of polynomial iA and block jB of iB, in the order *)
(* of the loops; those that land in the same block of the product are put    *)
(* side by side.                                                           *)
Products == (0..(mC - 1)) \X (0..(mC - 1)) \X (0..(mT - 1)) \X (0..(mT - 1))
Earlier(q) ==
    { r \in Products : /\ r[1] = q[1] /\ r[2] = q[2]
                       /\ r[3] < q[3] \/ (r[3] = q[3] /\ r[4] < q[4]) }
BlockOf(q) == F3Add(q[3], q[4])
NextIdx(q) == Cardinality({ r \in Earlier(q) : BlockOf(r) = BlockOf(q) })
TreeOf(q) == (q[1] * mC + q[2]) * mT * mT + BlockOf(q) * mT + NextIdx(q)
Tensored(q) == <<q[1] * mT + q[3], q[2] * mT + q[4]>>

(* A party's share of the position of a product: that of its own factor.    *)
OwnFirstPosition(p, call, q) == Position(p, call, q[1], q[3])
ProductPosition(p, call, q) ==
    IF p = 0 THEN Position(0, call, q[1], q[3]) ELSE Position(1, call, q[2], q[4])
DpfInputs(p, st) ==
    LET of == [k \in Trees |-> CHOOSE q \in Products : TreeOf(q) = k]
        pos == [k \in Trees |-> ProductPosition(p, st.call, of[k])]
    IN [leafPos |-> [k \in Trees |-> Lower(pos[k], mDpfLeafDepth)],
        treePos |-> [k \in Trees |-> Upper(pos[k], mDpfLeafDepth)],
        coeff |-> [k \in Trees |-> st.prod[Tensored(of[k])[1]][Tensored(of[k])[2]]]]

(* What the DPFs give party p: shares of the vector that is the value at the  *)
(* sum of the positions, zero elsewhere.                                   *)
LeafVectors(p, mine, theirs) ==
    [k \in Trees |-> [l \in 0..(mDpfLeafSize - 1) |->
        LET pad == Random(7, k, l, k + l) IN
        IF p = 1 /\ l = F3Add(mine.leafPos[k], theirs.leafPos[k])
          THEN F4Add(pad, F4Add(mine.coeff[k], theirs.coeff[k])) ELSE pad]]
TreeVector(p, mine, theirs, k, row) ==
    LET pad == [l \in 0..(mDpfLeafSize - 1) |-> Random(8, k + row, l, row)] IN
    IF p = 1 /\ row = F3Add(mine.treePos[k], theirs.treePos[k])
      THEN F4VecAdd(pad, F4VecAdd(mine.vec[k], theirs.vec[k])) ELSE pad
(* The callback of the main DPF adds the trees of a block of the product.    *)
Blocks(p, mine, theirs) ==
    [b \in 0..(mC * mC * mT - 1) |-> [row \in 0..(mDpfTreeSize - 1) |->
        LET trees == { k \in Trees : k \div mT = b }
            vec == [k \in trees |-> TreeVector(p, mine, theirs, k, row)]
        IN [l \in 0..(mDpfLeafSize - 1) |-> F4Sum([k \in trees |-> vec[k][l]])]]]
ProductPoly(blocks, q) ==
    [i \in Index |->
        LET inBlock == i % mBlockSize IN
        blocks[q * mT + i \div mBlockSize][inBlock \div mDpfLeafSize][inBlock % mDpfLeafSize]]
OutputC(blocks) ==
    LET fft == [q \in 0..(mC * mC - 1) |-> Fft(ProductPoly(blocks, q), mLog3N)] IN
    [i \in Index |-> F4Sum([q \in 0..(mC * mC - 1) |-> F4Multiply(mFftASquared(q, i), fft[q][i])])]

---------------------------------------------------------------------------
(* The protocol. *)

About(st, ops) == st.pc = "idle" /\ st.call <= Len(conf.script) /\ conf.script[st.call] \in ops
Return(st) == [st EXCEPT !.pc = "idle", !.call = @ + 1, !.prod = << >>, !.inputs = << >>]
Fail(st) == [st EXCEPT !.pc = "failed"]
Msg(chan, kind, v) == [chan |-> chan, kind |-> kind, v |-> v]

FoleageInit ==
    /\ conf \in FoleageConfs
    /\ party = [p \in Parties |->
            [pc |-> "idle", call |-> 1, ready |-> FALSE, sendOts |-> << >>, recvOts |-> << >>,
             choiceOts |-> << >>, dpfOts |-> 0, dpfUsed |-> FALSE, mOtExtRecver |-> FALSE,
             mOtExtSender |-> FALSE, await |-> {}, coeffs |-> << >>, prod |-> << >>,
             inputs |-> << >>, a |-> << >>, out |-> << >>]]
    /\ net = EmptyNet

(* init makes new DPFs of the same base OTs; it keeps those of tensor.      *)
InitTriple(p) ==
    /\ About(party[p], {"init"})
    /\ IF InitThrows THEN Goes(p, Fail(party[p]), << >>)
       ELSE Goes(p, Return([party[p] EXCEPT !.ready = TRUE, !.dpfUsed = FALSE]), << >>)
SetBaseOts(p) ==
    /\ About(party[p], {"base"})
    /\ Goes(p, Return(WithBaseOts(p, party[p], party[p].call)), << >>)

(* expand, once there are base OTs: party 1 goes on to the leaf DPF, party 0  *)
(* waits for the corrections of tensor.                                    *)
EnterLeafDpf(p, st) ==
    LET called == [st EXCEPT !.inputs = DpfInputs(p, st), !.a = OutputA(p, st)] IN
    IF st.dpfUsed THEN <<[called EXCEPT !.pc = "undefined"], << >> >>
    ELSE <<[called EXCEPT !.pc = "leaf", !.dpfUsed = TRUE], <<Msg(0, "leaf", called.inputs)>> >>
EnterTensor(p, st) ==
    IF p = 1
      THEN LET mine == EnterLeafDpf(p, [st EXCEPT !.coeffs = FirstDiff(st), !.prod = SenderProduct(st)]) IN
           <<mine[1], <<Msg(0, "tensor", TensorBuffer(st))>> \o mine[2]>>
      ELSE <<[st EXCEPT !.pc = "tensor"], << >> >>
(* genBaseOts is done, called by the application or by expand.             *)
AfterBase(p, st) ==
    LET with == WithBaseOts(p, st, st.call) IN
    IF conf.script[st.call] \in {"gen", "extend"} THEN <<Return(with), << >> >> ELSE EnterTensor(p, with)

Expand(p) ==
    /\ About(party[p], {"ole", "triple"}) /\ HasBaseOts(party[p])
    /\ \E go \in {EnterTensor(p, party[p])} : Goes(p, go[1], go[2])

(* genBaseOts by OT extension: first party 1 receives, its own and those      *)
(* that the other direction's extension starts from, then it sends. An      *)
(* extension that has no base OTs makes some first.                        *)
SoftSpokenOts == 1
FirstExtension(p, st) ==
    IF p = 1
      THEN [gen |-> ~st.mOtExtRecver,
            n |-> RecvCount(1) + IF st.mOtExtSender THEN 0 ELSE SoftSpokenOts]
      ELSE [gen |-> ~st.mOtExtSender,
            n |-> SendCount(0) + IF st.mOtExtRecver THEN 0 ELSE SoftSpokenOts]
SecondExtension(p) == [gen |-> FALSE, n |-> IF p = 1 THEN SendCount(1) ELSE RecvCount(0)]
GenByExtension(p) ==
    /\ \/ About(party[p], {"extend"})
       \/ About(party[p], {"ole", "triple"}) /\ ~HasBaseOts(party[p])
    /\ IF party[p].ready
         THEN Goes(p, [party[p] EXCEPT !.pc = "extend1"], <<Msg(0, "ots", FirstExtension(p, party[p]))>>)
         ELSE Goes(p, Fail(party[p]), << >>)
FirstExtended(p) ==
    /\ party[p].pc = "extend1" /\ Available(p, 0)
    /\ IF First(p, 0).v = FirstExtension(p, party[p])
         THEN TakesOn(p, 0, [party[p] EXCEPT !.pc = "extend2", !.mOtExtRecver = TRUE, !.mOtExtSender = TRUE],
                      <<Msg(0, "ots", SecondExtension(p))>>)
         ELSE TakesOn(p, 0, Fail(party[p]), << >>)
SecondExtended(p) ==
    /\ party[p].pc = "extend2" /\ Available(p, 0)
    /\ IF First(p, 0).v = SecondExtension(p)
         THEN \E go \in {AfterBase(p, party[p])} : TakesOn(p, 0, go[1], go[2])
         ELSE TakesOn(p, 0, Fail(party[p]), << >>)

(* genBaseOts by base OTs in both directions at once, on the socket and a    *)
(* fork of it.                                                             *)
BaseCount(p, chan) ==
    IF (chan = 0) = (p = 1) THEN SendCount(p) ELSE RecvCount(p)
GenByBaseOts(p) ==
    /\ About(party[p], {"gen"})
    /\ IF party[p].ready
         THEN Goes(p, [party[p] EXCEPT !.pc = "base", !.await = {0, 1}],
                   [i \in 1..2 |-> Msg(i - 1, "base", BaseCount(p, i - 1))])
         ELSE Goes(p, Fail(party[p]), << >>)
BaseOtsMade(p) ==
    /\ party[p].pc = "base"
    /\ \E chan \in party[p].await :
          LET st == [party[p] EXCEPT !.await = @ \ {chan}] IN
          /\ Available(p, chan)
          /\ IF First(p, chan).v # BaseCount(p, chan) THEN TakesOn(p, chan, Fail(st), << >>)
             ELSE IF st.await # {} THEN TakesOn(p, chan, st, << >>)
             ELSE TakesOn(p, chan, AfterBase(p, st)[1], << >>)

TensorCorrected(p) ==
    /\ party[p].pc = "tensor" /\ Available(p, 0)
    /\ LET st == party[p]
           mine == [st EXCEPT !.coeffs = [x \in Coeffs |-> ChosenCoeff(st, x)],
                              !.prod = RecvProduct(st, First(p, 0).v)]
       IN \E go \in {EnterLeafDpf(p, mine)} : TakesOn(p, 0, go[1], go[2])

LeafDpf(p) ==
    /\ party[p].pc = "leaf" /\ Available(p, 0)
    /\ LET mine == party[p].inputs
           main == [treePos |-> mine.treePos, vec |-> LeafVectors(p, mine, First(p, 0).v)]
       IN TakesOn(p, 0, [party[p] EXCEPT !.pc = "main", !.inputs = main], <<Msg(0, "main", main)>>)

(* A triple is made of the bits of an OLE: party 1 exchanges A and B.       *)
TripleOf(p, a, c) ==
    [i \in Index |->
        LET lsb == a[i] % 2 msb == a[i] \div 2 IN
        [a |-> IF p = 1 THEN msb ELSE lsb, b |-> IF p = 1 THEN lsb ELSE msb,
         c |-> (c[i] + lsb * msb) % 2]]
MainDpf(p) ==
    /\ party[p].pc = "main" /\ Available(p, 0)
    /\ \E c \in {OutputC(Blocks(p, party[p].inputs, First(p, 0).v))} :
          LET st == party[p]
              triple == conf.script[st.call] = "triple"
              result == IF triple THEN TripleOf(p, st.a, c)
                        ELSE [i \in Index |-> [a |-> st.a[i], b |-> 0, c |-> c[i]]]
          IN TakesOn(p, 0, Return([st EXCEPT !.out = Append(@, [triple |-> triple, result |-> result])]), << >>)

Ended(st) == st.pc \in {"failed", "undefined"} \/ (st.pc = "idle" /\ st.call > Len(conf.script))
FoleageDone == (\A p \in Parties : Ended(party[p])) /\ UNCHANGED vars
PartyNext(p) ==
    InitTriple(p) \/ SetBaseOts(p) \/ Expand(p) \/ GenByExtension(p) \/ FirstExtended(p)
    \/ SecondExtended(p) \/ GenByBaseOts(p) \/ BaseOtsMade(p) \/ TensorCorrected(p) \/ LeafDpf(p)
    \/ MainDpf(p)
FoleageNext == (\E p \in Parties : PartyNext(p)) \/ FoleageDone
FoleageSpec == FoleageInit /\ [][FoleageNext]_vars

---------------------------------------------------------------------------
(* Properties. *)

(* The two outputs of a call are an OLE, or a Beaver triple, at every         *)
(* position: for every way of getting base OTs, and whatever the depths of   *)
(* the two DPFs.                                                           *)
OlesCorrect ==
    \A k \in DOMAIN party[0].out \cap DOMAIN party[1].out :
        LET x == party[0].out[k] y == party[1].out[k] IN
        /\ x.triple = y.triple
        /\ \A i \in Index :
              LET u == x.result[i] v == y.result[i] IN
              IF x.triple THEN (u.c + v.c) % 2 = ((u.a + v.a) * (u.b + v.b)) % 2
              ELSE F4Add(u.c, v.c) = F4Multiply(u.a, v.a)

(* The parties ask for the same OTs of each other and read the messages       *)
(* that were meant: neither fails but for sizes that init refuses, or        *)
(* without init; and the DPFs run out only in a second call of one init.    *)
PartiesAgree ==
    \A p \in Parties :
        /\ party[p].pc = "failed" => InitThrows \/ ~party[p].ready
        /\ (party[p].pc \in {"leaf", "main", "tensor"} /\ Available(p, 0)) =>
              First(p, 0).kind = party[p].pc
        /\ party[p].pc = "undefined" => \E i \in 1..(party[p].call - 1) : conf.script[i] \in {"ole", "triple"}
===========================================================================
