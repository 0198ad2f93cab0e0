----------------------------- MODULE OosNcoOt -----------------------------
(***************************************************************************)
(* The 1-out-of-N OT extension of OosNcoOtReceiver / OosNcoOtSender: base   *)
(* OT derandomisation, init, encode / zeroEncode, the streaming            *)
(* sendCorrection / recvCorrection pair and the consistency check, for two *)
(* parties joined by an asynchronous socket.                               *)
(*                                                                         *)
(* A matrix row is the formal sum of unknowns <<col, seed, pos>>: the bit  *)
(* at position pos of the PRNG of column col keyed with base OT message    *)
(* seed \in {0,1}.  <<col, 2, 0>> is the constant bit 1 in column col, so  *)
(* a codeword (a set of columns) is a row too, and the code's `row &       *)
(* mChoiceBlks` keeps the unknowns of the columns in the choice vector.    *)
(***************************************************************************)
EXTENDS XorAlgebra, Sequences

CONSTANTS
    Cols,        \* the columns, one base OT each: codewordBitSize, rounded up
    Bits,        \* the input bits; a word is a set of them
    Gen,         \* the generator matrix of mCode: bit -> codeword
    N,           \* numOtExt, the number of OTs asked of init
    Bound,       \* <<b1, b2, ...>>: the application's correction steps end at these rows
    Stat,        \* mStatSecParam
    Malicious,   \* mMalicious
    RowBlk,      \* 128, the rows per PRNG block
    SuperBlk,    \* superBlkSize, the PRNG blocks per iteration of init
    Seeds,       \* the challenge seeds the sender may draw
    Chi,         \* Chi[seed][l]: the rows whose l-th challenge bit is 1
    MaxRound,    \* bound: how often the application calls init
    MaxTamper    \* bound: how many correction bits are corrupted

Word == SUBSET Bits
NumSteps == Len(Bound)

ASSUME OosAssumption ==
    /\ Gen \in [Bits -> SUBSET Cols]
    /\ IsFiniteSet(Cols) /\ IsFiniteSet(Bits)
    /\ N \in Nat \ {0} /\ Stat \in Nat \ {0} /\ MaxRound \in Nat \ {0}
    /\ RowBlk \in Nat \ {0} /\ SuperBlk \in Nat \ {0} /\ MaxTamper \in Nat
    /\ Malicious \in BOOLEAN
    /\ Bound \in Seq(1..N) /\ Bound # << >>
    /\ \A k \in 1..(Len(Bound) - 1) : Bound[k] < Bound[k + 1]
    /\ Bound[Len(Bound)] = N
    /\ Chi \in [Seeds -> [0..(Stat - 1) -> SUBSET (0..(N - 1))]]

VARIABLES
    choices,  \* the sender's base OT choice bits, as a set of columns
    rPc,      \* where the receiver's coroutine is
    rFlip,    \* the receiver's delta of setBaseOts
    rBlk,     \* mBlockIdx of the receiver's column PRNGs
    rRound,   \* how many times the receiver has called init
    rT0,      \* mT0
    rT1,      \* what each mT1 allocation holds: init allocates a fresh one
    rW,       \* mW
    rIdx,     \* mCorrectionIdx
    rStep,    \* sendCorrection calls made this round
    rTBuff,   \* mTBuff
    rWBuff,   \* mWBuff
    out,      \* what the application got from the receiver's encode, by round
    sPc, sDelta, sBlk, sRound,
    sT,       \* mT
    sCor,     \* mCorrectionVals
    sIdx,     \* the sender's mCorrectionIdx
    sStep,    \* recvCorrection calls completed this round
    sSeed,    \* mChallengeSeed
    sQ,       \* qSum
    sErr,     \* history: bits of this round's corrections that arrived corrupted
    toS, toR, \* the socket, one queue per direction
    closed,   \* the socket has been closed after an exception
    tampered  \* how many bits have been corrupted so far

recvVars == <<rPc, rFlip, rBlk, rRound, rT0, rT1, rW, rIdx, rStep, rTBuff, rWBuff, out>>
sendVars == <<sPc, sDelta, sBlk, sRound, sT, sCor, sIdx, sStep, sSeed, sQ, sErr>>
netVars  == <<toS, toR, closed, tampered>>
vars == <<choices, recvVars, sendVars, netVars>>

---------------------------------------------------------------------------
(* Rows and codewords. *)

Const(C) == { <<c, 2, 0>> : c \in C }
Mask(row, D) == { a \in row : a[1] \in D }
CodeWord(w) == XorSum(Gen, w)

(* The row at PRNG position p when column c is keyed with base seed s[c].   *)
PrngRow(s, p) == { <<c, s[c], p>> : c \in Cols }
SeedOf(D) == [c \in Cols |-> IF c \in D THEN 1 ELSE 0]
T0Seeds == SeedOf(rFlip)
T1Seeds == SeedOf(Cols \ rFlip)

(* The number of rows each party allocates in init. *)
RecvRows == RoundUpTo(N + Stat, RowBlk)
SendRowsNoStat == ((N + (RowBlk - 1)) \div RowBlk) * RowBlk
SendRows == ((N + (RowBlk - 1) + Stat) \div RowBlk) * RowBlk
NextBlkStuck(blk, rows) == blk
NextBlk(blk, rows) == blk + DivCeil(rows \div RowBlk, SuperBlk) * SuperBlk

StepLo(k) == IF k = 1 THEN 0 ELSE Bound[k - 1]
StepCount(k) == Bound[k] - StepLo(k)

NoRow == [t |-> ZeroBlock, w |-> {}, used |-> FALSE]

---------------------------------------------------------------------------
(* The socket.  A correction message is T1Sub: a reference into the mT1     *)
(* allocation it keeps alive, read when the bytes are delivered.           *)

Correction(mem, lo, count) == [kind |-> "cor", mem |-> mem, lo |-> lo, count |-> count, err |-> {}]
Delivered(m, i) == Xor(rT1[m.mem][m.lo + i], Const({ c \in Cols : <<i, c>> \in m.err }))
Ready(chan, kind) == chan # << >> /\ Head(chan).kind = kind

---------------------------------------------------------------------------
Init ==
    /\ choices \in SUBSET Cols
    /\ rPc = "base" /\ sPc = "base"
    /\ rFlip = {} /\ sDelta = {}
    /\ rBlk = 0 /\ sBlk = 0 /\ rRound = 0 /\ sRound = 0
    /\ rT0 = << >> /\ rT1 = [g \in 1..MaxRound |-> << >>] /\ rW = << >>
    /\ rIdx = 0 /\ rStep = 0 /\ sIdx = 0 /\ sStep = 0
    /\ rTBuff = << >> /\ rWBuff = << >>
    /\ out = [g \in 1..MaxRound |-> [i \in 0..(N - 1) |-> NoRow]]
    /\ sT = << >> /\ sCor = << >> /\ sQ = << >> /\ sSeed = {} /\ sErr = {}
    /\ toS = << >> /\ toR = << >> /\ closed = FALSE /\ tampered = 0

---------------------------------------------------------------------------
(* The receiver. *)

(* setBaseOts: swap each pair of base messages by a fresh random bit and    *)
(* tell the sender which were swapped.                                     *)
RecvSetBaseOts(d) ==
    /\ rPc = "base"
    /\ rFlip' = d
    /\ toS' = Append(toS, [kind |-> "delta", delta |-> d])
    /\ rPc' = "ready"
    /\ UNCHANGED <<choices, rBlk, rRound, rT0, rT1, rW, rIdx, rStep, rTBuff, rWBuff, out,
                   sendVars, toR, closed, tampered>>

T1MemReused(round) == 1
(* The allocation mT1 points to after the round's init. *)
T1Mem(round) == round

RecvInit ==
    /\ rPc = "ready" /\ rRound < MaxRound /\ ~closed
    /\ rRound' = rRound + 1
    /\ rIdx' = 0 /\ rStep' = 0
    /\ rW'  = [i \in 0..(RecvRows - 1) |-> {}]
    /\ rT0' = [i \in 0..(RecvRows - 1) |-> PrngRow(T0Seeds, rBlk * RowBlk + i)]
    /\ rT1' = [rT1 EXCEPT ![T1Mem(rRound + 1)] =
                  [i \in 0..(RecvRows - 1) |-> PrngRow(T1Seeds, rBlk * RowBlk + i)]]
    /\ rBlk' = NextBlk(rBlk, RecvRows)
    /\ rPc' = "open"
    /\ UNCHANGED <<choices, rFlip, rTBuff, rWBuff, out, sendVars, netVars>>

(* u = T0 + T1 + c(w), kept in mT1 until it is sent. *)
CorrectionRow(i, w) ==
    Xor(Xor(Const(CodeWord(w)), rT0[i]), rT1[T1Mem(rRound)][i])

(* encode and zeroEncode of a row the application has not used yet.        *)
Encodable(i) == rPc = "open" /\ ~out[rRound][i].used

RecvEncode(i, w) ==
    /\ Encodable(i)
    /\ rW' = [rW EXCEPT ![i] = w]
    /\ rT1' = [rT1 EXCEPT ![T1Mem(rRound)][i] = CorrectionRow(i, w)]
    /\ out' = [out EXCEPT ![rRound][i] = [t |-> rT0[i], w |-> w, used |-> TRUE]]
    /\ UNCHANGED <<choices, rPc, rFlip, rBlk, rRound, rT0, rIdx, rStep, rTBuff, rWBuff,
                   sendVars, netVars>>

(* zeroEncode leaves the application no message for the row. *)
RecvZeroEncode(i) ==
    /\ Encodable(i)
    /\ rW' = [rW EXCEPT ![i] = {}]
    /\ rT1' = [rT1 EXCEPT ![T1Mem(rRound)][i] = Xor(rT0[i], rT1[T1Mem(rRound)][i])]
    /\ out' = [out EXCEPT ![rRound][i] = [t |-> ZeroBlock, w |-> {}, used |-> TRUE]]
    /\ UNCHANGED <<choices, rPc, rFlip, rBlk, rRound, rT0, rIdx, rStep, rTBuff, rWBuff,
                   sendVars, netVars>>

(* sendCorrection: the rows sent must all have been encoded. *)
RecvSendCorrection ==
    /\ rPc = "open" /\ rStep < NumSteps /\ ~closed
    /\ LET count == StepCount(rStep + 1) IN
       /\ \A i \in rIdx..(rIdx + count - 1) : out[rRound][i].used
       /\ toS' = Append(toS, Correction(T1Mem(rRound), rIdx, count))
       /\ rIdx' = rIdx + count
    /\ rStep' = rStep + 1
    /\ UNCHANGED <<choices, rPc, rFlip, rBlk, rRound, rT0, rT1, rW, rTBuff, rWBuff, out,
                   sendVars, toR, closed, tampered>>

(* sendFinalization: encode Stat random words in the rows after the last    *)
(* correction, start the proof sums with them and send their corrections.  *)
RecvFinalize(ws) ==
    /\ Malicious /\ rPc = "open" /\ rStep = NumSteps /\ ~closed
    /\ rW' = [i \in DOMAIN rW |->
                 IF i \in rIdx..(rIdx + Stat - 1) THEN ws[i - rIdx] ELSE rW[i]]
    /\ rT1' = [rT1 EXCEPT ![T1Mem(rRound)] =
                 [i \in DOMAIN @ |-> IF i \in rIdx..(rIdx + Stat - 1)
                                       THEN CorrectionRow(i, ws[i - rIdx]) ELSE @[i]]]
    /\ rTBuff' = [l \in 0..(Stat - 1) |-> rT0[rIdx + l]]
    /\ rWBuff' = ws
    /\ toS' = Append(toS, Correction(T1Mem(rRound), rIdx, Stat))
    /\ rIdx' = rIdx + Stat
    /\ rPc' = "challenge"
    /\ UNCHANGED <<choices, rFlip, rBlk, rRound, rT0, rStep, out, sendVars,
                   toR, closed, tampered>>

ChallengedShort(seed, l, idx) == { i \in Chi[seed][l] : i < idx - 2 * Stat }
(* The rows the l-th challenge adds up: those before the Stat extra ones.   *)
Challenged(seed, l, idx) == { i \in Chi[seed][l] : i < idx - Stat }

(* recvChallenge, computeProof and sendProof.                              *)
RecvProve ==
    /\ rPc = "challenge" /\ Ready(toR, "challenge")
    /\ LET seed == Head(toR).seed
           tSum == [l \in 0..(Stat - 1) |-> Xor(rTBuff[l], XorSum(rT0, Challenged(seed, l, rIdx)))]
           wSum == [l \in 0..(Stat - 1) |-> Xor(rWBuff[l], XorSum(rW, Challenged(seed, l, rIdx)))]
       IN toS' = toS \o << [kind |-> "tSum", sum |-> tSum], [kind |-> "wSum", sum |-> wSum] >>
    /\ toR' = Tail(toR)
    /\ rTBuff' = << >> /\ rWBuff' = << >>
    /\ rPc' = "ready"
    /\ UNCHANGED <<choices, rFlip, rBlk, rRound, rT0, rT1, rW, rIdx, rStep, out, sendVars,
                   closed, tampered>>

(* check does nothing when the extension is semi-honest.                   *)
RecvSkipCheck ==
    /\ ~Malicious /\ rPc = "open" /\ rStep = NumSteps
    /\ rPc' = "ready"
    /\ UNCHANGED <<choices, rFlip, rBlk, rRound, rT0, rT1, rW, rIdx, rStep, rTBuff, rWBuff,
                   out, sendVars, netVars>>

RecvClosedOnlyOpen ==
    /\ closed /\ rPc # "failed"
    /\ rPc = "open"
    /\ rPc' = "failed"
    /\ UNCHANGED <<choices, rFlip, rBlk, rRound, rT0, rT1, rW, rIdx, rStep, rTBuff, rWBuff,
                   out, sendVars, netVars>>

(* Every socket operation on a closed socket throws.                       *)
RecvClosed ==
    /\ closed /\ rPc # "failed"
    /\ rPc \in {"open", "challenge"} \/ rRound < MaxRound
    /\ rPc' = "failed"
    /\ UNCHANGED <<choices, rFlip, rBlk, rRound, rT0, rT1, rW, rIdx, rStep, rTBuff, rWBuff,
                   out, sendVars, netVars>>

---------------------------------------------------------------------------
(* The sender. *)

SendSetBaseOts ==
    /\ sPc = "base" /\ Ready(toS, "delta")
    /\ sDelta' = Xor(choices, Head(toS).delta)
    /\ toS' = Tail(toS)
    /\ sPc' = "ready"
    /\ UNCHANGED <<choices, recvVars, sBlk, sRound, sT, sCor, sIdx, sStep, sSeed, sQ, sErr,
                   toR, closed, tampered>>

SendInitKeepsIdx ==
    /\ sPc = "ready" /\ sRound < MaxRound
    /\ sRound' = sRound + 1
    /\ sCor' = [i \in 0..(SendRows - 1) |-> ZeroBlock]
    /\ sT' = [i \in 0..(SendRows - 1) |-> PrngRow(SeedOf(choices), sBlk * RowBlk + i)]
    /\ sStep' = 0 /\ sErr' = {}
    /\ sBlk' = NextBlk(sBlk, SendRows)
    /\ sPc' = "open"
    /\ UNCHANGED <<choices, recvVars, sDelta, sIdx, sSeed, sQ, netVars>>

SendInit ==
    /\ sPc = "ready" /\ sRound < MaxRound
    /\ sRound' = sRound + 1
    /\ sCor' = [i \in 0..(SendRows - 1) |-> ZeroBlock]
    /\ sT' = [i \in 0..(SendRows - 1) |-> PrngRow(SeedOf(choices), sBlk * RowBlk + i)]
    /\ sIdx' = 0 /\ sStep' = 0 /\ sErr' = {}
    /\ sBlk' = NextBlk(sBlk, SendRows)
    /\ sPc' = "open"
    /\ UNCHANGED <<choices, recvVars, sDelta, sSeed, sQ, netVars>>

(* recvCorrection up to its co_await: mCorrectionIdx already counts the     *)
(* rows that are only about to arrive.                                     *)
SendRecvCorrection ==
    /\ sPc = "open" /\ sStep < NumSteps
    /\ sIdx' = sIdx + StepCount(sStep + 1)
    /\ sPc' = "recv"
    /\ UNCHANGED <<choices, recvVars, sDelta, sBlk, sRound, sT, sCor, sStep, sSeed, sQ, sErr,
                   netVars>>

LandMoved(count) ==
    LET m == Head(toS) IN
    /\ Ready(toS, "cor") /\ m.count = count
    /\ sCor' = [i \in DOMAIN sCor |->
                   IF i \in sIdx..(sIdx + count - 1) THEN Delivered(m, i - sIdx) ELSE sCor[i]]
    /\ sErr' = sErr \cup { <<sIdx + e[1], e[2]>> : e \in m.err }
    /\ toS' = Tail(toS)

(* The rows of the head message land at dest, which was computed before     *)
(* mCorrectionIdx moved.                                                   *)
Land(count) ==
    LET m == Head(toS) dest == sIdx - count IN
    /\ Ready(toS, "cor") /\ m.count = count
    /\ sCor' = [i \in DOMAIN sCor |->
                   IF i \in dest..(dest + count - 1) THEN Delivered(m, i - dest) ELSE sCor[i]]
    /\ sErr' = sErr \cup { <<dest + e[1], e[2]>> : e \in m.err }
    /\ toS' = Tail(toS)

SendLandCorrection ==
    /\ sPc = "recv"
    /\ Land(StepCount(sStep + 1))
    /\ sStep' = sStep + 1
    /\ sPc' = "open"
    /\ UNCHANGED <<choices, recvVars, sDelta, sBlk, sRound, sT, sIdx, sSeed, sQ,
                   toR, closed, tampered>>

(* check up to the co_await of recvFinalization.                           *)
SendRecvFinalization ==
    /\ Malicious /\ sPc = "open" /\ sStep = NumSteps
    /\ sIdx' = sIdx + Stat
    /\ sPc' = "final"
    /\ UNCHANGED <<choices, recvVars, sDelta, sBlk, sRound, sT, sCor, sStep, sSeed, sQ, sErr,
                   netVars>>

(* q_i = (u_i & delta) ^ T_i *)
QRow(cor, i) == Xor(Mask(cor[i], sDelta), sT[i])

(* The extra rows have landed: sendChallenge and computeProof.             *)
SendChallenge(seed) ==
    /\ sPc = "final"
    /\ Land(Stat)
    /\ sSeed' = {seed}
    /\ sQ' = [l \in 0..(Stat - 1) |->
                 Xor(QRow(sCor', sIdx - Stat + l),
                     XorSum([i \in DOMAIN sCor |-> QRow(sCor', i)], Challenged(seed, l, sIdx)))]
    /\ toR' = Append(toR, [kind |-> "challenge", seed |-> seed])
    /\ sPc' = "proof"
    /\ UNCHANGED <<choices, recvVars, sDelta, sBlk, sRound, sT, sIdx, sStep, closed, tampered>>

ProofHoldsUnmasked(tSum, wSum) ==
    \A l \in 0..(Stat - 1) : Xor(tSum[l], sQ[l]) = Const(CodeWord(wSum[l]))

(* The linear relation recvProof checks for every l.                       *)
ProofHolds(tSum, wSum) ==
    \A l \in 0..(Stat - 1) :
        Xor(tSum[l], sQ[l]) = Mask(Const(CodeWord(wSum[l])), sDelta)

(* recvProof; a failed check throws and check closes the socket.           *)
SendVerify ==
    /\ sPc = "proof" /\ Len(toS) >= 2
    /\ Ready(toS, "tSum") /\ Ready(Tail(toS), "wSum")
    /\ LET ok == ProofHolds(toS[1].sum, toS[2].sum) IN
       /\ sPc' = IF ok THEN "ready" ELSE "abort"
       /\ closed' = ~ok
    /\ toS' = Tail(Tail(toS))
    /\ UNCHANGED <<choices, recvVars, sDelta, sBlk, sRound, sT, sCor, sIdx, sStep, sSeed, sQ,
                   sErr, toR, tampered>>

SendSkipCheck ==
    /\ ~Malicious /\ sPc = "open" /\ sStep = NumSteps
    /\ sPc' = "ready"
    /\ UNCHANGED <<choices, recvVars, sDelta, sBlk, sRound, sT, sCor, sIdx, sStep, sSeed, sQ,
                   sErr, netVars>>

SendEncodeUnmasked(i, w) == Xor(sT[i], Xor(Mask(sCor[i], sDelta), Const(CodeWord(w))))

(* The sender's encode reads the matrices and changes nothing: the value    *)
(* it hashes for word w at row i.                                          *)
SendEncode(i, w) ==
    Xor(sT[i], Mask(Xor(sCor[i], Const(CodeWord(w))), sDelta))

---------------------------------------------------------------------------
(* A correction that is not what an honest receiver computes: what check    *)
(* exists for.                                                             *)
Tamper(j, i, c) ==
    /\ tampered < MaxTamper
    /\ toS[j].kind = "cor" /\ i < toS[j].count
    /\ <<i, c>> \notin toS[j].err
    /\ toS' = [toS EXCEPT ![j].err = @ \cup {<<i, c>>}]
    /\ tampered' = tampered + 1
    /\ UNCHANGED <<choices, recvVars, sendVars, toR, closed>>

Finished ==
    /\ rPc = "failed" \/ (rPc = "ready" /\ rRound = MaxRound)
    /\ sPc = "abort" \/ (sPc = "ready" /\ sRound = MaxRound)

Done == Finished /\ UNCHANGED vars

RecvNext ==
    \/ \E d \in SUBSET Cols : RecvSetBaseOts(d)
    \/ RecvInit
    \/ \E i \in 0..(N - 1) : RecvZeroEncode(i) \/ \E w \in Word : RecvEncode(i, w)
    \/ RecvSendCorrection
    \/ \E ws \in [0..(Stat - 1) -> Word] : RecvFinalize(ws)
    \/ RecvProve
    \/ RecvSkipCheck
    \/ RecvClosed

SendNext ==
    \/ SendSetBaseOts
    \/ SendInit
    \/ SendRecvCorrection
    \/ SendLandCorrection
    \/ SendRecvFinalization
    \/ \E seed \in Seeds : SendChallenge(seed)
    \/ SendVerify
    \/ SendSkipCheck

Next ==
    \/ RecvNext
    \/ SendNext
    \/ \E j \in 1..Len(toS), i \in 0..(N + Stat - 1), c \in Cols : Tamper(j, i, c)
    \/ Done

Spec == Init /\ [][Next]_vars

(* Both coroutines are run by a scheduler until they return, and the        *)
(* applications make the calls of their protocol.                          *)
FairSpec == Spec /\ WF_vars(RecvNext) /\ WF_vars(SendNext)

---------------------------------------------------------------------------
(* Properties. *)

Unknown == Cols \X (0..2) \X Nat
Row == SUBSET Unknown

(* The shape of every variable, and where each party can be.               *)
TypeOK ==
    /\ choices \subseteq Cols /\ rFlip \subseteq Cols /\ sDelta \subseteq Cols
    /\ rPc \in {"base", "ready", "open", "challenge", "failed"}
    /\ sPc \in {"base", "ready", "open", "recv", "final", "proof", "abort"}
    /\ rBlk \in Nat /\ sBlk \in Nat /\ rIdx \in 0..RecvRows /\ sIdx \in 0..SendRows
    /\ rRound \in 0..MaxRound /\ sRound \in 0..MaxRound
    /\ rStep \in 0..NumSteps /\ sStep \in 0..NumSteps
    /\ \A i \in DOMAIN rT0 : rT0[i] \subseteq Unknown
    /\ \A g \in DOMAIN rT1 : \A i \in DOMAIN rT1[g] : rT1[g][i] \subseteq Unknown
    /\ \A i \in DOMAIN rW : rW[i] \in Word
    /\ \A g \in 1..MaxRound, i \in 0..(N - 1) :
          out[g][i].t \subseteq Unknown /\ out[g][i].w \in Word /\ out[g][i].used \in BOOLEAN
    /\ \A i \in DOMAIN sT : sT[i] \subseteq Unknown
    /\ \A i \in DOMAIN sCor : sCor[i] \subseteq Unknown
    /\ sSeed \subseteq Seeds /\ closed \in BOOLEAN /\ tampered \in 0..MaxTamper

(* The rows of the sender's current round whose correction has arrived.    *)
Landed ==
    IF Malicious /\ sPc \in {"proof", "ready", "abort"}
      THEN 0..(N + Stat - 1) ELSE 0..(StepLo(sStep + 1) - 1)

ErrOf(i) == { c \in Cols : <<i, c>> \in sErr }

(* Whatever step sizes the applications stream with, the correction of row  *)
(* i of round g that the receiver computed is what stands in row i of the   *)
(* sender's mCorrectionVals after round g's message landed, although the    *)
(* message is a reference into mT1 that the receiver goes on using, the     *)
(* receiver may already be a round ahead, and the sender's index moved      *)
(* before the rows arrived.                                                *)
CorrectionsLandInPlace ==
    sRound > 0 => \A i \in Landed : sCor[i] = Xor(rT1[sRound][i], Const(ErrOf(i)))

(* For a row that arrived intact, the sender's encode of w is the value the *)
(* receiver's encode gave its application exactly when the code cannot tell *)
(* w from the receiver's word in the columns of delta.                     *)
Agrees(g, i, w) ==
    (SendEncode(i, w) = out[g][i].t) <=> (CodeWord(Xor(w, out[g][i].w)) \cap sDelta = {})

EncodingsAgree ==
    sRound > 0 =>
        \A i \in Landed \cap (0..(N - 1)) :
            (ErrOf(i) = {} /\ out[sRound][i].t # ZeroBlock) => \A w \in Word : Agrees(sRound, i, w)

(* The streaming contract, as a refinement: a row is fixed when the         *)
(* receiver encodes it, and opens when its correction lands.  "open" is     *)
(* read off the two parties' encodings, so that a step after which they do  *)
(* not agree as promised is no step of NcoOt.                              *)
NoWord == << >>
Skipped == <<"skipped">>
Fixed(w) == <<"word", w>>

AbstractChosen ==
    [g \in 1..MaxRound |-> [i \in 0..(N - 1) |->
        IF ~out[g][i].used THEN NoWord
        ELSE IF out[g][i].t = ZeroBlock THEN Skipped ELSE Fixed(out[g][i].w)]]
AbstractUpto ==
    [g \in 1..MaxRound |->
        IF g < sRound THEN N ELSE IF g = sRound THEN Cardinality(Landed \cap (0..(N - 1))) ELSE 0]
AbstractOpen ==
    [g \in 1..MaxRound |->
        { i \in 0..(N - 1) :
            /\ AbstractChosen[g][i] \notin {NoWord, Skipped}
            /\ \/ g < sRound
               \/ g = sRound /\ i \in Landed /\ \A w \in Word : Agrees(g, i, w) }]

Contract == INSTANCE NcoOt WITH
    Round <- MaxRound, NumRows <- N, Word <- { Fixed(w) : w \in Word },
    chosen <- AbstractChosen, upto <- AbstractUpto, open <- AbstractOpen

ImplementsNcoOt == Contract!Spec

(* No two rows the receiver hands out, of one init or of different ones,    *)
(* share a PRNG position, so that no two OTs use one pad.                  *)
PadsFresh ==
    \A g, h \in 1..MaxRound : \A i, j \in 0..(N - 1) :
        <<g, i>> # <<h, j>> => out[g][i].t \cap out[h][j].t = {}

(* Two honest parties never fail the check and never lose the socket.       *)
HonestAccepted == tampered = 0 => sPc # "abort" /\ rPc # "failed" /\ ~closed

(* The corrupted bits the l-th relation of the check adds up, in the columns *)
(* of delta: those of the challenged rows and of the l-th extra row.        *)
ErrSeen(l) ==
    { c \in sDelta :
        Cardinality({ i \in (UNION { Chi[seed][l] : seed \in sSeed }) \cup {N + l} :
                        <<i, c>> \in sErr }) % 2 = 1 }

(* The check accepts a round exactly when its corruption cancels in every   *)
(* relation: an error in the columns of delta that a challenge singles out  *)
(* is always caught, and only such an error aborts.                        *)
CheckIsExact ==
    (Malicious /\ sRound > 0) =>
        /\ sPc = "ready" => \A l \in 0..(Stat - 1) : ErrSeen(l) = {}
        /\ sPc = "abort" => \E l \in 0..(Stat - 1) : ErrSeen(l) # {}

(* After as many inits the two parties' column PRNGs stand at the same      *)
(* block, and when both have finished their rounds nothing is left in the   *)
(* socket.                                                                 *)
PartiesInStep ==
    /\ rRound = sRound => rBlk = sBlk
    /\ (rPc = "ready" /\ sPc = "ready" /\ rRound = sRound) => toS = << >> /\ toR = << >>

(* Every run comes to its end: streaming, finalization, challenge and proof *)
(* never leave both parties waiting for one another.                       *)
Terminates == <>[]Finished
===========================================================================
